------------------------------ MODULE Checkout ------------------------------
(***************************************************************************)
(* The local checkout of sync-core/src/checkout.rs: the Codex Home is      *)
(* replaced by a snapshot through staged renames and SQLite transactions,  *)
(* under a journal that a restart recovers from.                           *)
(*                                                                         *)
(* Contents are version numbers: the Home starts at version 0 and the k-th *)
(* checkout installs version k.  A swap is one path that is exchanged (the *)
(* two session directories, then the global-state file); a database is     *)
(* one SQLite file.  Every rename, transaction and journal write is a step *)
(* of its own, so a crash or an I/O error can fall between any two.        *)
(***************************************************************************)
EXTENDS Integers, Sequences

CONSTANTS Swaps,        \* the swapped paths in the order they are applied
          Missing,      \* the paths the Home does not have at first
          Dbs,          \* the thread databases; the first is the primary one
          Catalogs,     \* the sidebar catalogue databases
          Absent,       \* no file at a path
          User,         \* what Codex writes when it is run in between
          Cleared,      \* a database without thread rows
          NoJournal,
          MaxOps,       \* checkouts started
          MaxFaults,    \* I/O errors
          MaxCrashes,
          MaxRaces,     \* tracking updates by another process
          MaxCodexRuns, \* paths Codex recreates before a recovery
          TornWrites    \* may an error or a crash fall inside a journal write?

SwapSet == {Swaps[i] : i \in DOMAIN Swaps}
AllDbs == Dbs \o Catalogs
DbSet == {AllDbs[i] : i \in DOMAIN AllDbs}
Version == 0..MaxOps

CheckoutStatus == {"Preparing", "BackedUp", "Applying", "Validating", "LocalApplied",
                   "Completed", "RolledBack", "RecoveryRequired"}
Terminal == {"Completed", "RolledBack"}

(***************************************************************************)
(* The parts of a journal that change: its status and how many database    *)
(* backups it lists.  What a checkout fixes once, in every copy of its     *)
(* journal, is the variable plan.                                          *)
(***************************************************************************)
Journal == [status : CheckoutStatus, dbs : 0..Len(AllDbs)]

ASSUME CheckoutAssumption ==
    /\ Swaps \in Seq(SwapSet) /\ Dbs \in Seq(DbSet) /\ Catalogs \in Seq(DbSet)
    /\ \A i, j \in DOMAIN Swaps : Swaps[i] = Swaps[j] => i = j
    /\ \A i, j \in DOMAIN AllDbs : AllDbs[i] = AllDbs[j] => i = j
    /\ Len(Swaps) > 0 /\ Len(Dbs) > 0 /\ Len(Catalogs) > 0
    /\ Missing \subseteq SwapSet
    /\ Absent \notin Int /\ User \notin Int /\ Cleared \notin Int
    /\ Absent # User /\ Absent # Cleared
    /\ NoJournal \notin Journal
    /\ {MaxOps, MaxFaults, MaxCrashes, MaxRaces, MaxCodexRuns} \subseteq Nat
    /\ TornWrites \in BOOLEAN

VARIABLES op,         \* the number of the last checkout begun
          plan,       \* original_existed, tracking_update, retain_recovery_backup
          live, staged, backup, failed,  \* the four places of a swapped path
          db, dbBackup,
          disk,       \* the journal file
          mem,        \* the journal in the running process
          pc, at,     \* where the process is; the swap or database it is at
          recovering, \* was the process started by recover_checkout_operation?
          failures,   \* rollback_checkout's list of failures is not empty
          tracking,   \* the namespace_tracking row: generation and head
          base,       \* the Home as the checkout found it (history variable)
          left        \* what is left of the bounds on the environment

homevars == <<live, staged, backup, failed, db, dbBackup>>
procvars == <<mem, pc, at, recovering, failures>>
vars == <<op, plan, homevars, disk, procvars, tracking, base, left>>

Goto(l, i) == pc' = l /\ at' = i
Unfinished == disk # NoJournal /\ disk.status \notin Terminal
Primary == Dbs[1]
TargetDb(d) == IF d = Primary THEN op ELSE Cleared

(***************************************************************************)
(* checkout_local_snapshot_internal up to the first journal write.         *)
(***************************************************************************)
ensure_no_incomplete_checkout_journal == ~ Unfinished

Begin ==
    /\ pc = "idle"
    /\ ensure_no_incomplete_checkout_journal
    /\ op < MaxOps
    /\ op' = op + 1
    /\ \E tracked, retain \in BOOLEAN :
         plan' = [original_existed |-> {s \in SwapSet : live[s] # Absent},
                  tracked |-> tracked, expected_generation |-> tracking.generation,
                  retain |-> retain]
    /\ staged' = [s \in SwapSet |-> Absent]
    /\ backup' = [s \in SwapSet |-> Absent]
    /\ failed' = [s \in SwapSet |-> Absent]
    /\ dbBackup' = [d \in DbSet |-> Absent]
    /\ base' = [live |-> live, db |-> db]
    /\ mem' = [status |-> "Preparing", dbs |-> 0]
    /\ disk' = mem'
    /\ recovering' = FALSE /\ failures' = FALSE
    /\ Goto("stage", 1)
    /\ UNCHANGED <<live, db, tracking, left>>

(***************************************************************************)
(* write_checkout_journal.  atomic_write_json removes the old file before  *)
(* it renames the new one into place, so an error or a crash inside it can *)
(* leave no journal at all.                                                *)
(***************************************************************************)
atomic_write_json == disk' = mem
AfterTornWrite == IF TornWrites THEN {disk, NoJournal} ELSE {disk}

\* The process carries on from a write that succeeded.
SaveJournal ==
    /\ pc = "save"
    /\ atomic_write_json
    /\ \/ /\ mem.status = "Preparing" /\ mem.dbs < Len(AllDbs)
          /\ Goto("backup", mem.dbs + 1)
          /\ UNCHANGED mem
       \/ /\ mem.status = "Preparing" /\ mem.dbs = Len(AllDbs)
          /\ mem' = [mem EXCEPT !.status = "BackedUp"]
          /\ UNCHANGED <<pc, at>>
       \/ /\ mem.status = "BackedUp"
          /\ mem' = [mem EXCEPT !.status = "Applying"]
          /\ UNCHANGED <<pc, at>>
       \/ /\ mem.status = "Applying" /\ Goto("swap_out", 1) /\ UNCHANGED mem
       \/ /\ mem.status = "Validating" /\ Goto("validate", 1) /\ UNCHANGED mem
       \/ /\ mem.status = "LocalApplied" /\ Goto("track", 1) /\ UNCHANGED mem
       \/ /\ mem.status = "Completed" /\ ~ recovering /\ Goto("cleanup", 1) /\ UNCHANGED mem
       \/ /\ mem.status = "Completed" /\ recovering /\ Goto("idle", 1) /\ UNCHANGED mem
       \/ /\ mem.status \in {"RolledBack", "RecoveryRequired"}
          /\ Goto("idle", 1) /\ UNCHANGED mem
    /\ UNCHANGED <<op, plan, homevars, recovering, failures, tracking, base, left>>

\* reject_local_applied_recovery: only the journal's error text changes.
SaveRejection ==
    /\ pc = "reject"
    /\ atomic_write_json
    /\ Goto("idle", 1)
    /\ UNCHANGED <<op, plan, homevars, mem, recovering, failures, tracking, base, left>>

(***************************************************************************)
(* The steps between the journal writes.                                   *)
(***************************************************************************)
stage_rollouts ==
    /\ pc = "stage"
    /\ staged' = [s \in SwapSet |-> op]
    /\ Goto("backup", 1)
    /\ UNCHANGED <<op, plan, live, backup, failed, db, dbBackup, disk, mem, recovering,
                   failures, tracking, base, left>>

CopyDatabase_Slip(d) == UNCHANGED dbBackup
CopyDatabase(d) == dbBackup' = [dbBackup EXCEPT ![d] = db[d]]

backup_database ==
    /\ pc = "backup"
    /\ CopyDatabase(AllDbs[at])
    /\ mem' = [mem EXCEPT !.dbs = at]
    /\ Goto("save", 1)
    /\ UNCHANGED <<op, plan, live, staged, backup, failed, db, disk, recovering, failures,
                   tracking, base, left>>

\* apply_directory_swaps and apply_file_swaps: the live path goes to its
\* backup, then the staged one takes its place.
MoveToBackup(s) ==
    /\ backup[s] = Absent
    /\ backup' = [backup EXCEPT ![s] = live[s]]
    /\ live' = [live EXCEPT ![s] = Absent]

SwapOut ==
    /\ pc = "swap_out"
    /\ MoveToBackup(Swaps[at])
    /\ Goto("swap_in", at)
    /\ UNCHANGED <<op, plan, staged, failed, db, dbBackup, disk, mem, recovering, failures,
                   tracking, base, left>>

SwapIn ==
    /\ pc = "swap_in"
    /\ live' = [live EXCEPT ![Swaps[at]] = staged[Swaps[at]]]
    /\ staged' = [staged EXCEPT ![Swaps[at]] = Absent]
    /\ IF at < Len(Swaps) THEN Goto("swap_out", at + 1) ELSE Goto("clear", 1)
    /\ UNCHANGED <<op, plan, backup, failed, db, dbBackup, disk, mem, recovering, failures,
                   tracking, base, left>>

\* replace_databases: one DELETE transaction per database, then one
\* transaction that fills the primary.
ClearDatabase ==
    /\ pc = "clear"
    /\ db' = [db EXCEPT ![Dbs[at]] = Cleared]
    /\ IF at < Len(Dbs) THEN Goto("clear", at + 1) ELSE Goto("fill", 1)
    /\ UNCHANGED <<op, plan, live, staged, backup, failed, dbBackup, disk, mem, recovering,
                   failures, tracking, base, left>>

FillPrimary ==
    /\ pc = "fill"
    /\ db' = [db EXCEPT ![Primary] = op]
    /\ Goto("invalidate", 1)
    /\ UNCHANGED <<op, plan, live, staged, backup, failed, dbBackup, disk, mem, recovering,
                   failures, tracking, base, left>>

invalidate_local_thread_catalogs ==
    /\ pc = "invalidate"
    /\ db' = [db EXCEPT ![Catalogs[at]] = Cleared]
    /\ IF at < Len(Catalogs)
         THEN Goto("invalidate", at + 1) /\ UNCHANGED mem
         ELSE Goto("save", 1) /\ mem' = [mem EXCEPT !.status = "Validating"]
    /\ UNCHANGED <<op, plan, live, staged, backup, failed, dbBackup, disk, recovering,
                   failures, tracking, base, left>>

\* validate_checkout_result and validate_file_swaps: a scan compares the
\* sessions, the thread rows and the swapped files, not the catalogues.
LiveMatchesTarget ==
    /\ \A s \in SwapSet : live[s] = op
    /\ \A i \in DOMAIN Dbs : db[Dbs[i]] = TargetDb(Dbs[i])

Validate ==
    /\ pc = "validate"
    /\ LiveMatchesTarget
    /\ mem' = [mem EXCEPT !.status = "LocalApplied"]
    /\ Goto("save", 1)
    /\ UNCHANGED <<op, plan, homevars, disk, recovering, failures, tracking, base, left>>

\* TrackingStore::reconcile_checkout: a compare-and-set on the generation
\* that accepts having been applied already.
AlreadyApplied ==
    /\ tracking.generation = plan.expected_generation + 1
    /\ tracking.head = op
TrackingConflict == ~ AlreadyApplied /\ tracking.generation # plan.expected_generation

reconcile_checkout ==
    IF plan.tracked /\ ~ AlreadyApplied
      THEN tracking' = [generation |-> plan.expected_generation + 1, head |-> op]
      ELSE UNCHANGED tracking

apply_tracking_update ==
    /\ pc = "track"
    /\ plan.tracked => ~ TrackingConflict
    /\ reconcile_checkout
    /\ mem' = [mem EXCEPT !.status = "Completed"]
    /\ Goto("save", 1)
    /\ UNCHANGED <<op, plan, homevars, disk, recovering, failures, base, left>>

\* After Completed: staging goes, and the backups too unless they are kept.
Cleanup ==
    /\ pc = "cleanup"
    /\ staged' = [s \in SwapSet |-> Absent]
    /\ IF plan.retain THEN UNCHANGED <<backup, dbBackup>>
         ELSE /\ backup' = [s \in SwapSet |-> Absent]
              /\ dbBackup' = [d \in DbSet |-> Absent]
    /\ Goto("idle", 1)
    /\ UNCHANGED <<op, plan, live, failed, db, disk, mem, recovering, failures, tracking,
                   base, left>>

(***************************************************************************)
(* rollback_checkout                                                       *)
(***************************************************************************)
StartRollback == Goto("undo_live", Len(Swaps)) /\ failures' = FALSE

local_write_started ==
    mem.status \in {"Applying", "Validating", "LocalApplied", "RecoveryRequired"}
swap_started_Slip(s) == local_write_started
swap_started(s) ==
    /\ local_write_started
    /\ backup[s] # Absent \/ (s \notin plan.original_existed /\ live[s] # Absent)

\* The live path is kept aside under failed/, unless something is there.
UndoLive ==
    /\ pc = "undo_live"
    /\ LET s == Swaps[at]
           moved == swap_started(s) /\ live[s] # Absent
       IN \/ /\ moved /\ failed[s] = Absent
             /\ failed' = [failed EXCEPT ![s] = live[s]]
             /\ live' = [live EXCEPT ![s] = Absent]
             /\ UNCHANGED failures
          \/ /\ moved /\ failed[s] # Absent
             /\ failures' = TRUE
             /\ UNCHANGED <<live, failed>>
          \/ /\ ~ moved
             /\ UNCHANGED <<live, failed, failures>>
    /\ Goto("undo_restore", at)
    /\ UNCHANGED <<op, plan, staged, backup, db, dbBackup, disk, mem, recovering, tracking,
                   base, left>>

\* The end of one swap's turn: its staged copy is removed, and the next swap
\* or the databases follow.
NextUndo ==
    /\ staged' = [staged EXCEPT ![Swaps[at]] = Absent]
    /\ IF at > 1 THEN Goto("undo_live", at - 1)
       ELSE IF local_write_started THEN Goto("undo_db", 1) ELSE Goto("undo_end", 1)

UndoRestore ==
    /\ pc = "undo_restore"
    /\ LET s == Swaps[at] IN
         IF swap_started(s) /\ backup[s] # Absent /\ live[s] = Absent
           THEN /\ live' = [live EXCEPT ![s] = backup[s]]
                /\ backup' = [backup EXCEPT ![s] = Absent]
           ELSE UNCHANGED <<live, backup>>
    /\ NextUndo
    /\ UNCHANGED <<op, plan, failed, db, dbBackup, disk, mem, recovering, failures, tracking,
                   base, left>>

NextUndoDb == IF at < mem.dbs THEN Goto("undo_db", at + 1) ELSE Goto("undo_end", 1)

restore_database ==
    /\ pc = "undo_db"
    /\ db' = [db EXCEPT ![AllDbs[at]] = dbBackup[AllDbs[at]]]
    /\ NextUndoDb
    /\ UNCHANGED <<op, plan, live, staged, backup, failed, dbBackup, disk, mem, recovering,
                   failures, tracking, base, left>>

RollbackStatus_Slip == "RolledBack"
RollbackStatus == IF failures THEN "RecoveryRequired" ELSE "RolledBack"

UndoEnd ==
    /\ pc = "undo_end"
    /\ mem' = [mem EXCEPT !.status = RollbackStatus]
    /\ Goto("save", 1)
    /\ UNCHANGED <<op, plan, homevars, disk, recovering, failures, tracking, base, left>>

(***************************************************************************)
(* recover_checkout_operation, on a journal that is not terminal           *)
(***************************************************************************)
RecoveryTrusts_Slip(status) == FALSE
RecoveryTrusts_SlipRequired(status) == status \in {"LocalApplied", "RecoveryRequired"}
RecoveryTrusts(status) == status = "LocalApplied"

Recover ==
    /\ pc = "idle"
    /\ Unfinished
    /\ mem' = disk
    /\ recovering' = TRUE
    /\ \/ /\ RecoveryTrusts(disk.status) /\ LiveMatchesTarget
          /\ Goto("track", 1) /\ UNCHANGED failures
       \/ /\ RecoveryTrusts(disk.status) /\ ~ LiveMatchesTarget
          /\ Goto("reject", 1) /\ UNCHANGED failures
       \/ /\ ~ RecoveryTrusts(disk.status)
          /\ StartRollback
    /\ UNCHANGED <<op, plan, homevars, disk, tracking, base, left>>

(***************************************************************************)
(* Failing steps.  An error of a forward step rolls back, even after       *)
(* LocalApplied; an error of a recovery that found LocalApplied, in its    *)
(* validation or in the tracking update, rejects;                          *)
(* an error of a rollback step is noted and the rollback goes on; an error *)
(* of the last write is returned as it is.                                 *)
(***************************************************************************)
Fault == left.faults > 0 /\ left' = [left EXCEPT !.faults = @ - 1]

Raise ==
    IF recovering THEN Goto("reject", 1) /\ UNCHANGED failures
                  ELSE StartRollback

StepFails ==
    /\ pc \in {"stage", "backup", "swap_out", "swap_in", "clear", "fill", "invalidate",
               "validate", "track"}
    /\ pc = "track" => plan.tracked \/ recovering
    /\ Fault
    /\ Raise
    /\ UNCHANGED <<op, plan, homevars, disk, mem, recovering, tracking, base>>

\* reconcile_checkout bails: the generation is neither the expected one nor
\* the one this checkout would have written.
TrackingFails ==
    /\ pc = "track"
    /\ plan.tracked /\ TrackingConflict
    /\ Raise
    /\ UNCHANGED <<op, plan, homevars, disk, mem, recovering, tracking, base, left>>

\* check_cancelled, while staging and once the backups are taken.
Cancel ==
    /\ ~ recovering
    /\ \/ pc = "stage" /\ UNCHANGED mem
       \/ /\ pc = "save" /\ mem.status = "Applying"
          /\ mem' = [mem EXCEPT !.status = "BackedUp"]
    /\ StartRollback
    /\ UNCHANGED <<op, plan, homevars, disk, recovering, tracking, base, left>>

SaveFails ==
    /\ pc \in {"save", "reject"}
    /\ Fault
    /\ disk' \in AfterTornWrite
    /\ IF pc = "reject" \/ mem.status \in Terminal \cup {"RecoveryRequired"}
         THEN Goto("idle", 1) /\ UNCHANGED failures
         ELSE StartRollback
    /\ UNCHANGED <<op, plan, homevars, mem, recovering, tracking, base>>

\* rollback_checkout cannot create its failed/ directory and returns at once.
RollbackFails ==
    /\ pc = "undo_live" /\ at = Len(Swaps)
    /\ Fault
    /\ Goto("idle", 1)
    /\ UNCHANGED <<op, plan, homevars, disk, mem, recovering, failures, tracking, base>>

UndoLiveFails ==
    /\ pc = "undo_live"
    /\ swap_started(Swaps[at]) /\ live[Swaps[at]] # Absent
    /\ Fault
    /\ failures' = TRUE
    /\ Goto("undo_restore", at)
    /\ UNCHANGED <<op, plan, homevars, disk, mem, recovering, tracking, base>>

UndoRestoreFails ==
    /\ pc = "undo_restore"
    /\ swap_started(Swaps[at]) /\ backup[Swaps[at]] # Absent /\ live[Swaps[at]] = Absent
    /\ Fault
    /\ failures' = TRUE
    /\ NextUndo
    /\ UNCHANGED <<op, plan, live, backup, failed, db, dbBackup, disk, mem, recovering,
                   tracking, base>>

UndoDbFails ==
    /\ pc = "undo_db"
    /\ Fault
    /\ failures' = TRUE
    /\ NextUndoDb
    /\ UNCHANGED <<op, plan, homevars, disk, mem, recovering, tracking, base>>

(***************************************************************************)
(* The environment                                                         *)
(***************************************************************************)
Crash ==
    /\ pc # "idle"
    /\ left.crashes > 0 /\ left' = [left EXCEPT !.crashes = @ - 1]
    /\ IF pc \in {"save", "reject"} THEN disk' \in AfterTornWrite ELSE UNCHANGED disk
    /\ Goto("idle", 1)
    /\ UNCHANGED <<op, plan, homevars, mem, recovering, failures, tracking, base>>

\* Another process moves the tracking row on with compare_and_set.
compare_and_set ==
    /\ left.races > 0 /\ left' = [left EXCEPT !.races = @ - 1]
    /\ tracking' = [generation |-> tracking.generation + 1, head |-> User]
    /\ UNCHANGED <<op, plan, homevars, disk, procvars, base>>

\* Codex is started before the recovery and creates a path it misses.
CodexRuns ==
    /\ pc = "idle" /\ Unfinished
    /\ left.codex > 0 /\ left' = [left EXCEPT !.codex = @ - 1]
    /\ \E s \in SwapSet : live[s] = Absent /\ live' = [live EXCEPT ![s] = User]
    /\ UNCHANGED <<op, plan, staged, backup, failed, db, dbBackup, disk, procvars, tracking,
                   base>>

-----------------------------------------------------------------------------
Init ==
    /\ op = 0
    /\ plan = [original_existed |-> {}, tracked |-> FALSE, expected_generation |-> 0,
               retain |-> TRUE]
    /\ live = [s \in SwapSet |-> IF s \in Missing THEN Absent ELSE 0]
    /\ staged = [s \in SwapSet |-> Absent]
    /\ backup = [s \in SwapSet |-> Absent]
    /\ failed = [s \in SwapSet |-> Absent]
    /\ db = [d \in DbSet |-> 0]
    /\ dbBackup = [d \in DbSet |-> Absent]
    /\ disk = NoJournal
    /\ mem = [status |-> "Completed", dbs |-> 0]
    /\ pc = "idle" /\ at = 1
    /\ recovering = FALSE /\ failures = FALSE
    /\ tracking = [generation |-> 0, head |-> 0]
    /\ base = [live |-> live, db |-> db]
    /\ left = [faults |-> MaxFaults, crashes |-> MaxCrashes, races |-> MaxRaces,
               codex |-> MaxCodexRuns]

Apply ==
    \/ stage_rollouts \/ backup_database \/ SwapOut \/ SwapIn \/ ClearDatabase
    \/ FillPrimary \/ invalidate_local_thread_catalogs \/ Validate
    \/ apply_tracking_update \/ TrackingFails \/ Cleanup

Rollback == UndoLive \/ UndoRestore \/ restore_database \/ UndoEnd

\* What the running process does when nothing goes wrong with it.
Process == SaveJournal \/ SaveRejection \/ Apply \/ Rollback

Environment ==
    \/ StepFails \/ Cancel \/ SaveFails \/ RollbackFails \/ UndoLiveFails \/ UndoRestoreFails
    \/ UndoDbFails \/ Crash \/ compare_and_set \/ CodexRuns

Next == Begin \/ Recover \/ Process \/ Environment

\* A process that has started a checkout or a recovery runs on, and a
\* recovery point that is shown is eventually recovered by its user.
Spec == Init /\ [][Next]_vars /\ WF_vars(Process) /\ WF_vars(Recover)

-----------------------------------------------------------------------------
Content == Version \cup {Absent, User}
Labels == {"idle", "save", "reject", "stage", "backup", "swap_out", "swap_in", "clear",
           "fill", "invalidate", "validate", "track", "cleanup", "undo_live",
           "undo_restore", "undo_db", "undo_end"}

\* The shape of the checkout's state; a journal file is a journal or nothing.
CheckoutTypeOK ==
    /\ op \in Version
    /\ plan \in [original_existed : SUBSET SwapSet, tracked : BOOLEAN,
                 expected_generation : Nat, retain : BOOLEAN]
    /\ {live, staged, backup, failed} \subseteq [SwapSet -> Content]
    /\ db \in [DbSet -> Version \cup {Cleared}]
    /\ dbBackup \in [DbSet -> Version \cup {Cleared, Absent}]
    /\ disk = NoJournal \/ disk \in Journal
    /\ mem \in Journal
    /\ pc \in Labels
    /\ at \in 1..Len(Swaps) + Len(AllDbs)
    /\ recovering \in BOOLEAN /\ failures \in BOOLEAN
    /\ tracking.generation \in Nat /\ tracking.head \in Content

\* The Home is as the checkout found it, but for a path Codex made itself.
HomeIsBase ==
    /\ \A s \in SwapSet : \/ live[s] = base.live[s]
                          \/ base.live[s] = Absent /\ live[s] = User
    /\ db = base.db

\* Every path and every database, catalogues included, is the target's.
HomeIsTarget ==
    /\ \A s \in SwapSet : live[s] = op
    /\ \A d \in DbSet : db[d] = TargetDb(d)

(***************************************************************************)
(* A terminal journal tells the truth about the whole Home and about the   *)
(* tracking row.  Completed: every path and thread database is the         *)
(* target's and the row was moved by exactly one generation.  RolledBack:  *)
(* everything is as before and the row does not name the target.           *)
(* The catalogues of a completed checkout are cleared, but nothing         *)
(* validates them: where as many calls failed as there are paths, a        *)
(* rollback that was itself interrupted may have put them back.            *)
(* checkout_local_snapshot_internal, rollback_checkout, recovery.          *)
(***************************************************************************)
CatalogsCleared == \A i \in DOMAIN Catalogs : db[Catalogs[i]] = Cleared
Errors == MaxFaults - left.faults
Settled ==
    pc = "idle" /\ disk # NoJournal =>
      /\ disk.status = "Completed" =>
           /\ LiveMatchesTarget
           /\ Errors < Len(Swaps) => CatalogsCleared
           /\ plan.tracked /\ tracking.head # User =>
                tracking = [generation |-> plan.expected_generation + 1, head |-> op]
      /\ disk.status = "RolledBack" => HomeIsBase /\ tracking.head # op

(***************************************************************************)
(* Whatever fails, crashes or is retried, and even when the journal is     *)
(* lost, the Home's previous contents are still in place or in a backup    *)
(* until the journal says Completed: no order of renames, restores and     *)
(* restarts destroys the only copy.                                        *)
(***************************************************************************)
BaseSurvives ==
    \/ disk # NoJournal /\ disk.status = "Completed"
    \/ /\ \A s \in SwapSet : base.live[s] # Absent => base.live[s] \in {live[s], backup[s]}
       /\ \A d \in DbSet : base.db[d] \in {db[d], dbBackup[d]}

(***************************************************************************)
(* A recovery that finds LocalApplied changes nothing in the Home: it      *)
(* completes or it refuses (recover_checkout_operation).                   *)
(***************************************************************************)
NoBlindRollback ==
    [][recovering /\ pc # "idle" /\ disk # NoJournal /\ disk.status = "LocalApplied"
         => UNCHANGED <<live, db>>]_vars

(***************************************************************************)
(* Rollback can be retried: a checkout that was interrupted before         *)
(* LocalApplied, or whose rollback failed, is eventually rolled back (or   *)
(* was still running and applied) once the errors and crashes stop.  Codex *)
(* may prevent it: a path it recreates cannot be moved aside a second time.*)
(***************************************************************************)
RecoveryEnds ==
    Unfinished /\ disk.status # "LocalApplied"
      ~> \/ ~ Unfinished
         \/ disk.status = "LocalApplied"
         \/ left.codex < MaxCodexRuns

(***************************************************************************)
(* The implementation plan's completion criterion for the journal: every   *)
(* interrupted checkout is completed, rolled back or ends RecoveryRequired.*)
(***************************************************************************)
EveryCheckoutSettles == Unfinished ~> ~ Unfinished \/ disk.status = "RecoveryRequired"

(***************************************************************************)
(* "Every write to a real Codex Home ... can roll back or recover after a  *)
(* crash": a Home that is neither the old nor the new one has a journal to *)
(* recover it from.                                                        *)
(***************************************************************************)
JournalCoversHome == pc = "idle" /\ ~ Unfinished => HomeIsBase \/ HomeIsTarget
=============================================================================
