------------------------------ MODULE CodexHome ------------------------------
(***************************************************************************)
(* The operations of the desktop application that write rollouts and       *)
(* thread rows of one Codex Home in place: importing a snapshot and its    *)
(* recovery (local.rs), synchronizing the provider (provider_sync.rs),     *)
(* archiving, restoring and deleting a conversation and quarantining an    *)
(* empty rollout (codex.rs), and deleting the backups the first one makes  *)
(* (desktop lib.rs).                                                       *)
(*                                                                         *)
(* The lease on the home (jobs.rs) admits one operation at a time, and     *)
(* each is started after Codex was found closed.  Every rename, removal,   *)
(* transaction and journal write is a step; an operation can fail, be      *)
(* cancelled or die between two.  Codex works between operations.          *)
(*                                                                         *)
(* The repair of the sidebar that ends the deletion of a conversation is   *)
(* modelled in WorkspaceCleanup; the invalidation of the catalog that      *)
(* Codex rebuilds from the rollouts is left out.                           *)
(***************************************************************************)
EXTENDS RolloutProjection, FiniteSets, Functions

CONSTANTS Thread,
          Homes,          \* the homes to start with: provider, and rollouts by thread
          Snapshots,      \* the snapshots of the local repository one may import
          MaxOperations,  \* imports and provider synchronizations
          MaxTouches,     \* archiving, deleting and quarantining
          MaxEdits,       \* what Codex and its user do
          MaxFaults,      \* crashes, failures and cancellations
          None

Dirs == {"sessions", "archived_sessions"}
OperationIds == 1..MaxOperations

Row == [archived : BOOLEAN, prov : Provider \cup {ProviderToken, None}]
Rows == [Thread -> Row \cup {None}]

\* A snapshot has, for each of its threads, the directory of the logical path and
\* the normalized lines the repository keeps.
Stored == [dir : Dirs, lines : Seq(Line)]
Plans == {[t \in {} |-> None]} \cup
         UNION {{Restrict(s, S) : S \in SUBSET DOMAIN s} : s \in Snapshots}

Statuses == {"preparing", "backed_up", "applying", "validating", "completed", "failed",
             "rolled_back", "recovery_required"}
Journal == [kind : {"import", "provider"}, plan : Plans, status : Statuses]

\* The rollouts of a home were written by Codex, which knows no tokens.
ASSUME HomeAssumption ==
    /\ Workspace # {}
    /\ \A h \in Homes : h.config \in Provider /\
         \A t \in DOMAIN h.rollouts :
           /\ t \in Thread /\ h.rollouts[t] \in Seq(Line)
           /\ read_rollout_record(h.rollouts[t]) /\ h.rollouts[t][1].cwd \in Workspace
    /\ {MaxOperations, MaxTouches, MaxEdits, MaxFaults} \subseteq Nat
    /\ \A s \in Snapshots : \A t \in DOMAIN s :
         /\ t \in Thread /\ s[t] \in Stored
         /\ normalizable(s[t].lines) /\ normalize_rollout(s[t].lines) = s[t].lines
    /\ None \notin Seq(Line) \cup Row \cup Rows \cup Journal

VARIABLES config,     \* model_provider of config.toml
          files,      \* the rollout of a thread in each session directory, or None
          rows,       \* the row of a thread in the threads table, or None
          displaced,  \* the .old files of provider synchronizations
          quarantine, \* quarantine/empty-rollouts: threads, what their files hold, and a stamp
          backups,    \* backups/<operation>: the rows a manifest gives back
          journals,   \* the journal of each operation, or None
          job,        \* the operation that holds the lease on the home
          said,       \* what the user's conversations say, None once deleted
          left        \* what is left of the bounds

homevars == <<config, files, rows, displaced, quarantine, backups, journals, job, said, left>>

Idle == [kind |-> "idle"]
Spend(what) == left[what] > 0 /\ left' = [left EXCEPT ![what] = @ - 1]

(***************************************************************************)
(* The scan: the first readable rollout of a thread, sessions before       *)
(* archived_sessions, and its row.                                         *)
(***************************************************************************)
Readable(t, d) == files[t][d] # None /\ read_rollout_record(files[t][d])
Listed(t) == \E d \in Dirs : Readable(t, d)
DirOf(t) == IF Readable(t, "sessions") THEN "sessions" ELSE "archived_sessions"
Rollout(t) == files[t][DirOf(t)]
scan_codex_home == {t \in Thread : Listed(t)}
ScannedProvider(t) ==
    IF rows[t] # None /\ rows[t].prov # None THEN rows[t].prov ELSE Rollout(t)[1].prov

Put(t, d, ls) == files' = [files EXCEPT ![t][d] = ls]

(***************************************************************************)
(* Codex and its user, between operations.                                 *)
(***************************************************************************)
Written(t, d, ls) ==
    /\ Put(t, d, ls)
    /\ said' = [said EXCEPT ![t] = Said(ls)]
    /\ UNCHANGED <<config, displaced, quarantine, backups, journals, job>>

Meta == [kind |-> "meta", mine |-> TRUE, cwd |-> CHOOSE w \in Workspace : TRUE,
         prov |-> config, size |-> 0, canon |-> FALSE, text |-> 0]
Message == [Meta EXCEPT !.kind = "record", !.prov = ProviderToken, !.text = left["edits"]]

CodexContinues(t) ==
    /\ job = Idle /\ Listed(t)
    /\ Spend("edits")
    /\ Written(t, DirOf(t), Append(Rollout(t), Message))
    /\ UNCHANGED rows

\* Codex creates the file and writes its first lines later, or never.
CodexOpens(t) ==
    /\ job = Idle
    /\ \A d \in Dirs : files[t][d] = None
    /\ Spend("edits")
    /\ Put(t, "sessions", << >>)
    /\ UNCHANGED <<config, rows, displaced, quarantine, backups, journals, job, said>>

\* The name a quarantined file is given is unique.
Moved(ls) == <<job.thread, ls, left["touches"]>>

\* The one write that may fall into an operation: into an open empty rollout that is
\* being quarantined.  The file keeps its open handle wherever it was moved.
CodexBegins(t) ==
    /\ job = Idle \/ (job.kind = "quarantine" /\ job.thread = t)
    /\ Spend("edits")
    /\ rows' = [rows EXCEPT ![t] = [archived |-> FALSE, prov |-> config]]
    /\ \/ /\ files[t]["sessions"] = << >>
          /\ Written(t, "sessions", <<Meta, Message>>)
       \/ /\ job # Idle /\ job.at = "moved" /\ Moved(<< >>) \in quarantine
          /\ quarantine' = (quarantine \ {Moved(<< >>)}) \cup {Moved(<<Meta, Message>>)}
          /\ said' = [said EXCEPT ![t] = Said(<<Meta, Message>>)]
          /\ UNCHANGED <<config, files, displaced, backups, journals, job>>

UserConfigures(p) ==
    /\ job = Idle /\ p # config
    /\ Spend("edits")
    /\ config' = p
    /\ UNCHANGED <<files, rows, displaced, quarantine, backups, journals, job, said>>

Codex == \/ \E t \in Thread : CodexContinues(t) \/ CodexOpens(t) \/ CodexBegins(t)
         \/ \E p \in Provider : UserConfigures(p)

(***************************************************************************)
(* Journals and steps.                                                     *)
(***************************************************************************)
Terminal == {"completed", "failed", "rolled_back"}
Unfinished(id) ==
    journals[id] # None /\ journals[id].kind = "import" /\ journals[id].status \notin Terminal

NextId == MaxOperations - left["operations"] + 1
Record(id, status) == journals' = [journals EXCEPT ![id].status = status]
At(kind, step) == job.kind = kind /\ job.at = step
Goto(step) == job' = [job EXCEPT !.at = step]
Done == job' = Idle

(***************************************************************************)
(* import_local_snapshot_with_control and apply_import.                    *)
(***************************************************************************)
\* A thread of the snapshot that is in the home is skipped if its rollout is the
\* stored object byte for byte, and refused otherwise; so is a path that is taken.
Importable(s) ==
    \A t \in DOMAIN s : IF Listed(t) THEN Rollout(t) = s[t].lines
                                     ELSE files[t][s[t].dir] = None
start_import(s) ==
    LET plan == Restrict(s, {t \in DOMAIN s : ~ Listed(t)}) IN
    /\ job = Idle /\ Importable(s)
    /\ Spend("operations")
    /\ journals' = [journals EXCEPT ![NextId] =
         [kind |-> "import", plan |-> plan,
          status |-> IF DOMAIN plan = {} THEN "completed" ELSE "preparing"]]
    /\ job' = IF DOMAIN plan = {} THEN Idle
              ELSE [kind |-> "import", at |-> "backup", id |-> NextId, todo |-> DOMAIN plan]
    /\ UNCHANGED <<config, files, rows, displaced, quarantine, backups, said>>

Plan == journals[job.id].plan

\* backup_database, then the manifest that makes the backup count.
import_backup ==
    /\ At("import", "backup")
    /\ backups' = [backups EXCEPT ![job.id] = rows]
    /\ Goto("backed_up")
    /\ UNCHANGED <<config, files, rows, displaced, quarantine, journals, said, left>>

import_status(step, next) ==
    /\ At("import", step)
    /\ Record(job.id, step) /\ Goto(next)
    /\ UNCHANGED <<config, files, rows, displaced, quarantine, backups, said, left>>

\* The rollouts are materialized beside their targets, and one transaction inserts
\* the rows; a row that is already there fails it.
insert_thread_row(t) ==
    [archived |-> Plan[t].dir = "archived_sessions", prov |-> None]
import_commit ==
    /\ At("import", "commit")
    /\ \A t \in DOMAIN Plan : rows[t] = None
    /\ rows' = [t \in Thread |-> IF t \in DOMAIN Plan THEN insert_thread_row(t) ELSE rows[t]]
    /\ Goto("rename")
    /\ UNCHANGED <<config, files, displaced, quarantine, backups, journals, said, left>>

Materialized(t) ==
    materialize_rollout(Plan[t].lines, config, TRUE, CHOOSE w \in Workspace : TRUE)
import_rename(t) ==
    /\ At("import", "rename") /\ t \in job.todo
    /\ Put(t, Plan[t].dir, Materialized(t))
    /\ job' = [job EXCEPT !.todo = @ \ {t},
                          !.at = IF job.todo = {t} THEN "validating" ELSE @]
    /\ UNCHANGED <<config, rows, displaced, quarantine, backups, journals, said, left>>

\* The scan must find every thread, and its normal form must be the stored one.
ImportIsValid_Slip == \A t \in DOMAIN Plan : Listed(t)
ImportIsValid ==
    \A t \in DOMAIN Plan : /\ Listed(t) /\ normalizable(Rollout(t))
                           /\ normalize_rollout(Rollout(t)) = Plan[t].lines
import_complete ==
    /\ At("import", "validate") /\ ImportIsValid
    /\ Record(job.id, "completed") /\ Done
    /\ said' = [t \in Thread |-> IF t \in DOMAIN Plan THEN Said(Rollout(t)) ELSE said[t]]
    /\ UNCHANGED <<config, files, rows, displaced, quarantine, backups, left>>

\* An error from "applying" on, a cancellation or a failed validation.
import_fails ==
    /\ job.kind = "import"
    /\ \/ job.at \in {"applying", "commit", "rename", "validate"} /\ Spend("faults")
       \/ /\ \/ job.at = "commit" /\ \E t \in DOMAIN Plan : rows[t] # None
             \/ job.at = "validate" /\ ~ ImportIsValid
          /\ UNCHANGED left
    /\ Goto("rollback")
    /\ UNCHANGED <<config, files, rows, displaced, quarantine, backups, journals, said>>

\* rollback_and_fail and recover_incomplete_operation take back a target only while it
\* is the stored object byte for byte, and put all rows back.
RemovesTarget_Slip(t, d) == t \in DOMAIN Plan /\ d = Plan[t].dir
RemovesTarget(t, d) ==
    t \in DOMAIN Plan /\ d = Plan[t].dir /\ files[t][d] = Plan[t].lines
remove_targets ==
    files' = [t \in Thread |-> [d \in Dirs |->
                 IF RemovesTarget(t, d) THEN None ELSE files[t][d]]]
import_rollback ==
    /\ At("import", "rollback")
    /\ remove_targets
    /\ Goto("restore")
    /\ UNCHANGED <<config, rows, displaced, quarantine, backups, journals, said, left>>
import_restore ==
    /\ At("import", "restore")
    /\ \/ rows' = backups[job.id] /\ Record(job.id, "rolled_back") /\ UNCHANGED left
       \/ Spend("faults") /\ Record(job.id, "recovery_required") /\ UNCHANGED rows
       \/ Spend("faults") /\ rows' = backups[job.id] /\ UNCHANGED journals
    /\ Done
    /\ UNCHANGED <<config, files, displaced, quarantine, backups, said>>

start_recovery(id) ==
    /\ job = Idle /\ Unfinished(id)
    /\ job' = [kind |-> "recovery", at |-> "recover", id |-> id]
    /\ UNCHANGED <<config, files, rows, displaced, quarantine, backups, journals, said, left>>
recover_incomplete_operation ==
    /\ At("recovery", "recover")
    /\ \/ /\ backups[job.id] = None /\ journals[job.id].status = "preparing"
          /\ Record(job.id, "rolled_back") /\ Done
          /\ UNCHANGED files
       \/ /\ backups[job.id] # None
          /\ remove_targets
          /\ Goto("restore")
          /\ UNCHANGED journals
    /\ UNCHANGED <<config, rows, displaced, quarantine, backups, said, left>>
recover_database ==
    /\ At("recovery", "restore")
    /\ rows' = backups[job.id] /\ Record(job.id, "rolled_back") /\ Done
    /\ UNCHANGED <<config, files, displaced, quarantine, backups, said, left>>

Import ==
    \/ \E s \in Snapshots : start_import(s)
    \/ import_backup
    \/ import_status("backed_up", "applying")
    \/ import_status("applying", "commit")
    \/ import_commit
    \/ \E t \in Thread : import_rename(t)
    \/ import_status("validating", "validate")
    \/ import_complete \/ import_fails \/ import_rollback \/ import_restore
    \/ \E id \in OperationIds : start_recovery(id)
    \/ recover_incomplete_operation \/ recover_database

(***************************************************************************)
(* synchronize_local_provider.                                             *)
(***************************************************************************)
Mismatched == {t \in scan_codex_home : read_rollout_provider(Rollout(t)) # config}
RowsMismatched == {t \in Thread : rows[t] # None /\ rows[t].prov # config}
ProviderJob(step, staged) ==
    [kind |-> "provider", at |-> step, id |-> NextId, staged |-> staged,
     todo |-> DOMAIN staged, thread |-> None, dir |-> None]

\* Every rollout to change is rewritten into the staging directory first; nothing of
\* the home has changed when one of them cannot be.
start_provider_sync ==
    /\ job = Idle
    /\ \A t \in scan_codex_home : provider_readable(Rollout(t))
    /\ Spend("operations")
    /\ LET ok == \A t \in Mismatched : transformable(Rollout(t)) IN
       /\ journals' = [journals EXCEPT ![NextId] =
            [kind |-> "provider", plan |-> [t \in {} |-> None],
             status |-> IF ok THEN "applying" ELSE "failed"]]
       /\ job' =
            IF ~ ok THEN Idle
            ELSE ProviderJob(IF Mismatched # {} THEN "displace"
                             ELSE IF RowsMismatched # {} THEN "databases" ELSE "complete",
                   [t \in Mismatched |-> transform_rollout_file(Rollout(t), config)])
    /\ UNCHANGED <<config, files, rows, displaced, quarantine, backups, said>>

\* replace_with_staged, which takes three calls.
provider_displace(t) ==
    /\ At("provider", "displace") /\ t \in job.todo
    /\ displaced' = displaced \cup {<<t, Rollout(t)>>}
    /\ Put(t, DirOf(t), None)
    /\ job' = [job EXCEPT !.at = "install", !.thread = t, !.dir = DirOf(t)]
    /\ UNCHANGED <<config, rows, quarantine, backups, journals, said, left>>
OldFile == CHOOSE o \in displaced : o[1] = job.thread /\ Said(o[2]) = Said(job.staged[job.thread])
provider_install ==
    /\ At("provider", "install")
    /\ Put(job.thread, job.dir, job.staged[job.thread])
    /\ Goto("remove")
    /\ UNCHANGED <<config, rows, displaced, quarantine, backups, journals, said, left>>
\* The second rename fails; moving the rollout back is tried, and may fail too.
provider_install_fails ==
    /\ At("provider", "install")
    /\ Spend("faults")
    /\ \/ /\ Put(job.thread, job.dir, OldFile[2])
          /\ displaced' = displaced \ {OldFile}
       \/ UNCHANGED <<files, displaced>>
    /\ Record(job.id, "failed") /\ Done
    /\ UNCHANGED <<config, rows, quarantine, backups, said>>
provider_remove ==
    /\ At("provider", "remove")
    /\ displaced' = displaced \ {OldFile}
    /\ job' = [job EXCEPT !.todo = @ \ {job.thread},
                          !.at = IF job.todo = {job.thread} THEN "databases" ELSE "displace"]
    /\ UNCHANGED <<config, files, rows, quarantine, backups, journals, said, left>>

update_database_providers ==
    /\ At("provider", "databases")
    /\ rows' = [t \in Thread |->
                  IF rows[t] = None THEN None ELSE [rows[t] EXCEPT !.prov = config]]
    /\ Goto("validate")
    /\ UNCHANGED <<config, files, displaced, quarantine, backups, journals, said, left>>
validate_provider_sync ==
    /\ At("provider", "validate")
    /\ Record(job.id, IF \A t \in scan_codex_home : ScannedProvider(t) = config
                      THEN "completed" ELSE "failed")
    /\ Done
    /\ UNCHANGED <<config, files, rows, displaced, quarantine, backups, said, left>>
provider_nothing_to_do ==
    /\ At("provider", "complete")
    /\ Record(job.id, "completed") /\ Done
    /\ UNCHANGED <<config, files, rows, displaced, quarantine, backups, said, left>>
\* A cancellation between two files, or any other error: nothing is taken back.
provider_fails ==
    /\ job.kind = "provider" /\ job.at # "install"
    /\ Spend("faults")
    /\ Record(job.id, "failed") /\ Done
    /\ UNCHANGED <<config, files, rows, displaced, quarantine, backups, said>>

ProviderSync ==
    \/ start_provider_sync
    \/ \E t \in Thread : provider_displace(t)
    \/ provider_install \/ provider_install_fails \/ provider_remove
    \/ update_database_providers \/ validate_provider_sync \/ provider_nothing_to_do
    \/ provider_fails

(***************************************************************************)
(* mutate_local_thread and quarantine_empty_rollout.                       *)
(***************************************************************************)
Other(d) == CHOOSE o \in Dirs : o # d
mutate_local_thread(t, action) ==
    /\ job = Idle /\ Listed(t)
    /\ action = "archive" => DirOf(t) = "sessions"
    /\ action = "restore" => DirOf(t) = "archived_sessions"
    /\ Spend("touches")
    /\ files' = [files EXCEPT ![t][DirOf(t)] = None,
                              ![t][Other(DirOf(t))] = IF action = "delete" THEN @ ELSE Rollout(t)]
    /\ said' = [said EXCEPT ![t] = IF action = "delete" THEN None ELSE @]
    /\ job' = [kind |-> "mutate", at |-> "row", thread |-> t, action |-> action]
    /\ UNCHANGED <<config, rows, displaced, quarantine, backups, journals>>
mutate_row ==
    /\ job.kind = "mutate"
    /\ rows' = [rows EXCEPT ![job.thread] =
                  IF @ = None \/ job.action = "delete" THEN None
                  ELSE [@ EXCEPT !.archived = job.action = "archive"]]
    /\ Done
    /\ UNCHANGED <<config, files, displaced, quarantine, backups, journals, said, left>>

start_quarantine(t) ==
    /\ job = Idle /\ files[t]["sessions"] = << >>
    /\ Spend("touches")
    /\ job' = [kind |-> "quarantine", at |-> "checked", thread |-> t]
    /\ UNCHANGED <<config, files, rows, displaced, quarantine, backups, journals, said>>
quarantine_rename ==
    /\ At("quarantine", "checked")
    /\ quarantine' = quarantine \cup {Moved(files[job.thread]["sessions"])}
    /\ Put(job.thread, "sessions", None)
    /\ Goto("moved")
    /\ UNCHANGED <<config, rows, displaced, backups, journals, said, left>>
\* A file that is not empty any more goes back.
quarantine_recheck ==
    /\ At("quarantine", "moved")
    /\ LET moved == {q \in quarantine : q = Moved(q[2]) /\ q[2] # << >>} IN
       /\ quarantine' = quarantine \ moved
       /\ \/ moved = {} /\ UNCHANGED files
          \/ \E q \in moved : Put(job.thread, "sessions", q[2])
    /\ Done
    /\ UNCHANGED <<config, rows, displaced, backups, journals, said, left>>

Mutate ==
    \/ \E t \in Thread, a \in {"archive", "restore", "delete"} : mutate_local_thread(t, a)
    \/ mutate_row
    \/ \E t \in Thread : start_quarantine(t)
    \/ quarantine_rename \/ quarantine_recheck

(***************************************************************************)
(* discover_local_backups and delete_selected_local_backups.               *)
(***************************************************************************)
Deletable_Slip(id) == backups[id] # None /\ journals[id].status # "applying"
Deletable(id) == backups[id] # None /\ ~ Unfinished(id)
delete_backup(id) ==
    /\ job = Idle /\ Deletable(id)
    /\ backups' = [backups EXCEPT ![id] = None]
    /\ UNCHANGED <<config, files, rows, displaced, quarantine, journals, job, said, left>>

\* The process dies, or a step fails whose caller just returns the error.
Stop ==
    /\ job # Idle
    /\ Spend("faults")
    /\ Done
    /\ UNCHANGED <<config, files, rows, displaced, quarantine, backups, journals, said>>

-----------------------------------------------------------------------------
Init ==
    \E h \in Homes :
    LET kept == h.rollouts IN
    /\ config = h.config
    /\ files = [t \in Thread |-> [d \in Dirs |->
                  IF t \in DOMAIN kept /\ d = "sessions" THEN kept[t] ELSE None]]
    /\ rows = [t \in Thread |-> IF t \in DOMAIN kept
                                THEN [archived |-> FALSE, prov |-> kept[t][1].prov] ELSE None]
    /\ said = [t \in Thread |-> IF t \in DOMAIN kept THEN Said(kept[t]) ELSE None]
    /\ displaced = {} /\ quarantine = {}
    /\ backups = [id \in OperationIds |-> None]
    /\ journals = [id \in OperationIds |-> None]
    /\ job = Idle
    /\ left = [operations |-> MaxOperations, touches |-> MaxTouches,
               edits |-> MaxEdits, faults |-> MaxFaults]

Next == \/ Codex \/ Import \/ ProviderSync \/ Mutate \/ Stop
        \/ \E id \in OperationIds : delete_backup(id)

Spec == Init /\ [][Next]_homevars

-----------------------------------------------------------------------------
\* No operation, failure, crash or recovery in place loses what a conversation says: its
\* rollout is in a session directory, beside it as the .old file of a provider
\* synchronization, or in the quarantine.
WorkIsKept ==
    \A t \in Thread : said[t] # None =>
        \/ \E d \in Dirs : files[t][d] # None /\ Said(files[t][d]) = said[t]
        \/ \E o \in displaced \cup quarantine : o[1] = t /\ Said(o[2]) = said[t]

\* An import that reached its backup and did not finish can be taken back: its backup
\* was not deleted, however the import stopped and whatever was done since.
RecoveryHasItsBackup ==
    \A id \in OperationIds :
        Unfinished(id) /\ journals[id].status # "preparing" => backups[id] # None

\* An import is recorded as completed only when the scan finds every conversation it
\* planned, with a row, and its normal form is the one the snapshot stores.
CompletedMeansImported ==
    [][\A id \in OperationIds :
         (Unfinished(id) /\ journals'[id].status = "completed") =>
            \A t \in DOMAIN journals[id].plan :
                /\ Listed(t)' /\ rows'[t] # None
                /\ normalize_rollout(Rollout(t))' = journals[id].plan[t].lines]_homevars

\* Whatever was imported, rewritten, moved or written by Codex: between operations the
\* normal form of every rollout in the home is that of the conversation and not of the
\* machine, with the one exception KeepsMachine names.  Imports validate a rollout against
\* its normal form, and every snapshot and pull compares by it.
NormalFormForgetsTheMachine ==
    job = Idle =>
        \A t \in Thread, d \in Dirs : files[t][d] # None => ForgetsTheMachine(files[t][d])

\* After a provider synchronization that was interrupted, the scan still finds every
\* conversation: "provider synchronization is resumed by running synchronization again".
ConversationsStayListed ==
    job = Idle => \A t \in Thread : said[t] # None => Listed(t)
=============================================================================
