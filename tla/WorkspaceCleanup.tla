-------------------------- MODULE WorkspaceCleanup --------------------------
(***************************************************************************)
(* The workspaces of one Codex Home (workspace_mapping.rs): the rules that *)
(* map remote to local paths, the cleanup that moves empty directories to  *)
(* the quarantine and takes stale projects out of the global state of      *)
(* Codex, its journal and rollback, and the repair of the sidebar, which   *)
(* also follows the deletion of a conversation.                            *)
(*                                                                         *)
(* Cleanup, deletion and repair hold the lease on the home.  The commands  *)
(* on rules hold none, and the user's other programs write into workspaces *)
(* at any time.  Codex writes its global state between operations.         *)
(***************************************************************************)
EXTENDS WorkspaceMapper

CONSTANTS Local,          \* the paths of this machine
          Heads,          \* the workspace paths of the revisions a pull may find
          Thread,
          Homes,          \* the homes to start with
          Offered,        \* the rules one may create
          MaxCleanups,    \* cleanups and conversations deleted
          MaxEdits,       \* what the user and Codex do
          MaxRuleChanges, MaxFaults,
          RepairMayFail,  \* may the rename that ends a repair fail?
          TornWrites,     \* may a crash fall inside a journal write?
          None

Operations == 1..MaxCleanups

ASSUME CleanupAssumption ==
    /\ {MaxCleanups, MaxEdits, MaxRuleChanges, MaxFaults} \subseteq Nat
    /\ {RepairMayFail, TornWrites} \subseteq BOOLEAN
    /\ \A h \in Heads : \A p, q \in h : paths_equal(p, q) => p = q
    /\ UNION Heads \subseteq Path
    /\ \A r \in Offered : r = normalize_rule(r) /\ r.remote \in Path /\ r.local \in Local \cap Path
    /\ \A h \in Homes : h.rules \subseteq Offered /\ reject_ambiguous_mappings(h.rules)

VARIABLES gstate,      \* .codex-global-state.json, or None
          spare,       \* the temporary file an operation has or left beside it, or None
          present,     \* the local directories that exist
          filled,      \* those of them that hold a file
          usage,       \* the workspace of a conversation, and whether its rollout is listed
          rules,       \* workspace-mappings-v1.json
          quarantine,  \* quarantine/empty-workspaces
          journals,    \* the journal of each cleanup
          backups,     \* backups/workspace-cleanup-<operation>
          precious,    \* the states Codex saved or an operation decided, not replaced since
          job, left

statevars == <<gstate, spare, precious>>
dirvars == <<present, filled, quarantine>>
vars == <<statevars, dirvars, usage, rules, journals, backups, job, left>>

Idle == [kind |-> "idle"]
Spend(what) == left[what] > 0 /\ left' = [left EXCEPT ![what] = @ - 1]
At(step) == job # Idle /\ job.at = step
Goto(step) == job' = [job EXCEPT !.at = step]
Done == job' = Idle
Supersede(old, new) == precious' = (precious \ {old}) \cup {new}
Record(o, status) == journals' = [journals EXCEPT ![o].status = status]
NoJournal == [status |-> "none"]
Unfinished(o) == journals[o].status \notin {"none", "completed", "rolled_back"}

\* Directories.  One that has a subdirectory is not empty.
Subtree == [p \in Local |-> {q \in Local : path_is_same_or_child(q, p)}]
Below(p) == Subtree[p]
directory_is_empty(p) == present \cap Below(p) = {p} /\ p \notin filled
Ancestry == [p \in Local |-> {q \in Local : path_is_same_or_child(p, q)}]
Parents(p) == Ancestry[p]

(***************************************************************************)
(* The global state: projects with their roots, saved workspace roots, the *)
(* project and directory each conversation is assigned to, and the rest    *)
(* (a stamp).                                                              *)
(***************************************************************************)
ProjectPaths(g) == IF g = None THEN {} ELSE UNION {g.roots[k] : k \in DOMAIN g.roots}

remove_codex_project_paths(g, selected) ==
    LET gone == {k \in DOMAIN g.roots : g.roots[k] # {} /\ g.roots[k] \subseteq selected}
        kept == {t \in DOMAIN g.assigned :
                   /\ g.assigned[t].project \notin gone
                   /\ \A p \in selected : ~ path_is_same_or_child(g.assigned[t].cwd, p)}
    IN  [g EXCEPT !.roots = [k \in DOMAIN g.roots \ gone |-> g.roots[k] \ selected],
                  !.saved = @ \ selected,
                  !.assigned = [t \in kept |-> g.assigned[t]]]

\* cleanup_report: what is listed, and what of it may be cleaned up.
Used == {t \in Thread : usage[t] # None}
Siblings ==
    [p \in Local |-> {q \in Local : /\ Len(q.parts) = Len(p.parts) /\ Len(p.parts) > 1
                                   /\ Front(q.parts) = Front(p.parts)}]
Entries ==
    LET known == {r.local : r \in rules} \cup ProjectPaths(gstate) IN
    known \cup {usage[t].path : t \in Used}
          \cup {q \in UNION {Siblings[p] : p \in known} : directory_is_empty(q)}
Protected == {r.local : r \in rules} \cup {usage[t].path : t \in Used}
cleanup_eligible(p) ==
    /\ p \in Entries
    /\ \A q \in Protected : ~ paths_overlap(p, q)
    /\ \A q \in ProjectPaths(gstate) : q # p => ~ paths_overlap(p, q)
    /\ directory_is_empty(p) \/ (p \notin present /\ p \in ProjectPaths(gstate))

(***************************************************************************)
(* Codex, the user and the commands on rules.                              *)
(***************************************************************************)
Fresh == [roots |-> [k \in {} |-> {}], saved |-> {}, assigned |-> [t \in {} |-> None],
          stamp |-> 0]
CodexSaves ==
    /\ job = Idle
    /\ Spend("edits")
    /\ gstate' = [(IF gstate = None THEN Fresh ELSE gstate) EXCEPT !.stamp = left["edits"]]
    /\ Supersede(gstate, gstate')
    /\ UNCHANGED <<spare, dirvars, usage, rules, journals, backups, job>>
UserMakes(p) ==
    /\ p \notin present
    /\ Spend("edits")
    /\ present' = present \cup Parents(p)
    /\ UNCHANGED <<statevars, filled, quarantine, usage, rules, journals, backups, job>>
UserFills(p) ==
    /\ p \in present \ filled
    /\ Spend("edits")
    /\ filled' = filled \cup {p}
    /\ UNCHANGED <<statevars, present, quarantine, usage, rules, journals, backups, job>>

\* WorkspaceMappingStore::create, create_automatic and delete.  The second one places all
\* that the plan of a pull lists, and makes the directories.
create_mapping(r) ==
    /\ Spend("rules")
    /\ r \notin rules /\ r.local \in present
    /\ reject_ambiguous_mappings(rules \cup {r})
    /\ rules' = rules \cup {r}
    /\ UNCHANGED <<statevars, dirvars, usage, journals, backups, job>>
PlanHolds(head, S) ==
    LET roots == minimal_remote_roots(Unplaced(rules, head, present)) IN
    /\ {r.remote : r \in S} = {normalize_path_syntax(p) : p \in roots}
    /\ Cardinality(S) = Cardinality(roots)
create_automatic(head, S) ==
    /\ Spend("rules")
    /\ S # {} /\ S \cap rules = {} /\ PlanHolds(head, S)
    /\ reject_ambiguous_mappings(rules \cup S)
    /\ rules' = rules \cup S
    /\ present' = present \cup UNION {Parents(r.local) : r \in S}
    /\ UNCHANGED <<statevars, filled, quarantine, usage, journals, backups, job>>
delete_mapping(r) ==
    /\ Spend("rules")
    /\ r \in rules
    /\ rules' = rules \ {r}
    /\ UNCHANGED <<statevars, dirvars, usage, journals, backups, job>>

Around ==
    \/ CodexSaves
    \/ \E p \in Local : UserMakes(p) \/ UserFills(p)
    \/ \E r \in Offered : create_mapping(r) \/ delete_mapping(r)
    \/ \E head \in Heads, S \in SUBSET Offered : create_automatic(head, S)

(***************************************************************************)
(* replace_file_if_hash_matches: a temporary file, the removal of the live *)
(* one, and the rename.                                                    *)
(***************************************************************************)
replace_begin(new, step) ==
    /\ gstate' = None
    /\ spare' = [spare EXCEPT ![job.op] = new]
    /\ Goto(step)
Unlinked == [spare EXCEPT ![job.op] = None]
replace_end ==
    /\ gstate' = spare[job.op]
    /\ spare' = Unlinked

(***************************************************************************)
(* Cleanup: recover the interrupted ones, plan, back up, update the global *)
(* state, move the directories.                                            *)
(***************************************************************************)
Mine == journals[job.op]
NextOperation == MaxCleanups - left["cleanups"] + 1
Job(kind, step) == [kind |-> kind, at |-> step, op |-> NextOperation, undo |-> None,
                    asked |-> {}, todo |-> {}, path |-> None, thread |-> None]

\* The operation to roll back, and whether the cleanup goes on afterwards.
Undoing(o) == [job EXCEPT !.at = "undo_move", !.undo = o, !.todo = journals[o].planned]

\* The user picks from the report, which is taken anew when the cleanup plans.
start_cleanup(asked) ==
    /\ job = Idle /\ asked # {}
    /\ Spend("cleanups")
    /\ job' = [Job("cleanup", "recover") EXCEPT !.asked = asked]
    /\ UNCHANGED <<statevars, dirvars, usage, rules, journals, backups>>

recover_incomplete_workspace_cleanups ==
    /\ At("recover")
    /\ \/ \E o \in Operations : Unfinished(o) /\ job' = Undoing(o)
       \/ (\A o \in Operations : ~ Unfinished(o)) /\ Goto("plan")
    /\ UNCHANGED <<statevars, dirvars, usage, rules, journals, backups, left>>

Updated(selected) ==
    IF gstate = None \/ remove_codex_project_paths(gstate, selected) = gstate THEN None
    ELSE remove_codex_project_paths(gstate, selected)

plan_cleanup ==
    /\ At("plan")
    /\ LET moves == job.asked \cap present
           updated == Updated(job.asked)
       IN  IF (\A p \in job.asked : cleanup_eligible(p)) /\ (moves # {} \/ updated # None)
           THEN /\ journals' = [journals EXCEPT ![job.op] =
                       [status |-> "preparing", planned |-> moves, updated |-> updated,
                        original |-> IF updated = None THEN None ELSE gstate]]
                /\ Goto("backup")
           ELSE Done /\ UNCHANGED journals
    /\ UNCHANGED <<statevars, dirvars, usage, rules, backups, left>>

back_up_global_state_Slip ==
    /\ At("backup")
    /\ Record(job.op, "backed_up")
    /\ Goto(IF Mine.updated = None THEN "updated" ELSE "unlink")
    /\ UNCHANGED <<statevars, dirvars, usage, rules, backups, left>>
back_up_global_state ==
    /\ At("backup")
    /\ backups' = [backups EXCEPT ![job.op] = Mine.original]
    /\ Record(job.op, "backed_up")
    /\ Goto(IF Mine.updated = None THEN "updated" ELSE "unlink")
    /\ UNCHANGED <<statevars, dirvars, usage, rules, left>>

update_begin ==
    /\ At("unlink")
    /\ gstate = Mine.original
    /\ replace_begin(Mine.updated, "link")
    /\ UNCHANGED <<precious, dirvars, usage, rules, journals, backups, left>>
update_end ==
    /\ At("link")
    /\ replace_end
    /\ Goto("updated")
    /\ UNCHANGED <<precious, dirvars, usage, rules, journals, backups, left>>
update_recorded ==
    /\ At("updated")
    /\ Record(job.op, "project_state_updated")
    /\ job' = [job EXCEPT !.at = "move", !.todo = Mine.planned]
    /\ UNCHANGED <<statevars, dirvars, usage, rules, backups, left>>

\* move_empty_directory.  The user's programs may write before the rename, into what is
\* renamed; a directory that was not empty after all is moved back unless there is a new
\* one in its place, and the cleanup fails.
move_check ==
    /\ At("move")
    /\ \E p \in job.todo :
           IF directory_is_empty(p) THEN job' = [job EXCEPT !.at = "rename", !.path = p]
           ELSE job' = Undoing(job.op)
    /\ UNCHANGED <<statevars, dirvars, usage, rules, journals, backups, left>>
move_rename ==
    /\ At("rename")
    /\ quarantine' = quarantine \cup
           {[op |-> job.op, path |-> job.path, dirs |-> present \cap Below(job.path),
             files |-> filled \cap Below(job.path)]}
    /\ present' = present \ Below(job.path)
    /\ filled' = filled \ Below(job.path)
    /\ Goto("verify")
    /\ UNCHANGED <<statevars, usage, rules, journals, backups, left>>

Quarantined(o, p) == {d \in quarantine : d.op = o /\ d.path = p}
IsEmpty(d) == d.dirs = {d.path} /\ d.files = {}
MoveBack(d) ==
    /\ quarantine' = quarantine \ {d}
    /\ present' = present \cup d.dirs \cup Parents(d.path)
    /\ filled' = filled \cup d.files

move_verify_Slip ==
    /\ At("verify")
    /\ job' = [job EXCEPT !.at = "move", !.todo = @ \ {job.path}]
    /\ UNCHANGED <<statevars, dirvars, usage, rules, journals, backups, left>>
move_verify ==
    /\ At("verify")
    /\ \E d \in Quarantined(job.op, job.path) :
           \/ IsEmpty(d) /\ job' = [job EXCEPT !.at = "move", !.todo = @ \ {job.path}]
              /\ UNCHANGED dirvars
           \/ ~ IsEmpty(d) /\ job.path \notin present /\ MoveBack(d) /\ job' = Undoing(job.op)
           \/ ~ IsEmpty(d) /\ job.path \in present /\ job' = Undoing(job.op) /\ UNCHANGED dirvars
    /\ UNCHANGED <<statevars, usage, rules, journals, backups, left>>

complete_cleanup ==
    /\ At("move") /\ job.todo = {}
    /\ Record(job.op, "completed")
    /\ IF Mine.updated = None THEN UNCHANGED precious
       ELSE Supersede(Mine.original, Mine.updated)
    /\ Done
    /\ UNCHANGED <<gstate, spare, dirvars, usage, rules, backups, left>>

\* A call of the cleanup fails.  A failed rename removes the temporary file.
cleanup_fails ==
    /\ job # Idle /\ job.at \in {"backup", "unlink", "link", "updated", "move", "rename"}
    /\ Spend("faults")
    /\ spare' = IF At("link") THEN Unlinked ELSE spare
    /\ job' = Undoing(job.op)
    /\ UNCHANGED <<gstate, precious, dirvars, usage, rules, journals, backups>>

(***************************************************************************)
(* rollback_workspace_cleanup, of a cleanup that failed or of an earlier   *)
(* one that was interrupted.  Where it cannot go on it stops, and the      *)
(* journal stays unfinished.                                               *)
(***************************************************************************)
Undone == journals[job.undo]
AfterUndo ==
    IF job.undo = job.op THEN Idle ELSE [job EXCEPT !.at = "recover", !.undo = None]

rollback_move ==
    /\ At("undo_move")
    /\ \E p \in job.todo :
           LET moved == Quarantined(job.undo, p) IN
           \/ moved = {} /\ job' = [job EXCEPT !.todo = @ \ {p}] /\ UNCHANGED dirvars
           \/ \E d \in moved :
                  \/ (p \in present \/ ~ IsEmpty(d)) /\ Done /\ UNCHANGED dirvars
                  \/ p \notin present /\ IsEmpty(d) /\ MoveBack(d)
                     /\ job' = [job EXCEPT !.todo = @ \ {p}]
    /\ UNCHANGED <<statevars, usage, rules, journals, backups, left>>

rollback_state ==
    /\ At("undo_move") /\ job.todo = {}
    /\ \/ /\ Undone.updated = None \/ (backups[job.undo] # None /\ gstate = Undone.original)
          /\ Goto("undo_record") /\ UNCHANGED statevars
       \/ /\ Undone.updated # None /\ backups[job.undo] # None
          /\ \/ gstate = Undone.updated /\ replace_begin(Undone.original, "undo_link")
                /\ Supersede(Undone.updated, Undone.original)
             \/ gstate = None /\ gstate' = Undone.original /\ UNCHANGED <<spare, precious>>
                /\ Goto("undo_record")
             \/ gstate \notin {None, Undone.original, Undone.updated} /\ Done
                /\ UNCHANGED statevars
       \/ Undone.updated # None /\ backups[job.undo] = None /\ Done /\ UNCHANGED statevars
    /\ UNCHANGED <<dirvars, usage, rules, journals, backups, left>>
rollback_replaced ==
    /\ At("undo_link")
    /\ replace_end
    /\ Goto("undo_record")
    /\ UNCHANGED <<precious, dirvars, usage, rules, journals, backups, left>>
rollback_recorded ==
    /\ At("undo_record")
    /\ Record(job.undo, "rolled_back")
    /\ job' = AfterUndo
    /\ UNCHANGED <<statevars, dirvars, usage, rules, backups, left>>
rollback_fails ==
    /\ job # Idle /\ job.at \in {"undo_move", "undo_link", "undo_record"}
    /\ Spend("faults")
    /\ spare' = IF At("undo_link") THEN Unlinked ELSE spare
    /\ Done
    /\ UNCHANGED <<gstate, precious, dirvars, usage, rules, journals, backups>>

Cleanup ==
    \/ \E asked \in SUBSET {p \in Local : cleanup_eligible(p)} : start_cleanup(asked)
    \/ recover_incomplete_workspace_cleanups \/ plan_cleanup \/ back_up_global_state
    \/ update_begin \/ update_end \/ update_recorded
    \/ move_check \/ move_rename \/ move_verify \/ complete_cleanup \/ cleanup_fails
    \/ rollback_move \/ rollback_state \/ rollback_replaced \/ rollback_recorded
    \/ rollback_fails

(***************************************************************************)
(* mutate_thread (delete) and repair_codex_sidebar.  The repair replaces   *)
(* the global state without a journal and without a backup.                *)
(***************************************************************************)
mutate_thread(t) ==
    /\ job = Idle /\ usage[t] # None /\ usage[t].listed
    /\ Spend("cleanups")
    /\ usage' = [usage EXCEPT ![t].listed = FALSE]
    /\ job' = [Job("delete", "row") EXCEPT !.thread = t]
    /\ UNCHANGED <<statevars, dirvars, rules, journals, backups>>
delete_row ==
    /\ At("row")
    /\ usage' = [usage EXCEPT ![job.thread] = None]
    /\ Goto("repair")
    /\ UNCHANGED <<statevars, dirvars, rules, journals, backups, left>>
repair_codex_sidebar ==
    /\ job = Idle
    /\ Spend("cleanups")
    /\ job' = Job("repair", "repair")
    /\ UNCHANGED <<statevars, dirvars, usage, rules, journals, backups>>

\* Rows without a rollout do not keep a project in the sidebar.
EmptyProjects ==
    {p \in ProjectPaths(gstate) :
        \A t \in Used : usage[t].listed => ~ path_is_same_or_child(usage[t].path, p)}
remove_empty_codex_projects ==
    /\ At("repair")
    /\ IF Updated(EmptyProjects) = None THEN Done /\ UNCHANGED statevars
       ELSE replace_begin(Updated(EmptyProjects), "install")
            /\ Supersede(gstate, Updated(EmptyProjects))
    /\ UNCHANGED <<dirvars, usage, rules, journals, backups, left>>
InstallOutcomes == IF RepairMayFail THEN {"renamed", "failed"} ELSE {"renamed"}
repair_replaced ==
    /\ At("install")
    /\ \E outcome \in InstallOutcomes :
           gstate' = IF outcome = "renamed" THEN spare[job.op] ELSE None
    /\ spare' = Unlinked
    /\ Done
    /\ UNCHANGED <<precious, dirvars, usage, rules, journals, backups, left>>

Repair ==
    \/ \E t \in Thread : mutate_thread(t)
    \/ delete_row \/ repair_codex_sidebar \/ remove_empty_codex_projects \/ repair_replaced

\* delete_local_backups refuses the backup of an operation that is not finished.
delete_backup(o) ==
    /\ job = Idle /\ backups[o] # None /\ ~ Unfinished(o)
    /\ Spend("edits")
    /\ backups' = [backups EXCEPT ![o] = None]
    /\ UNCHANGED <<statevars, dirvars, usage, rules, journals, job>>

\* The application dies.  Inside a journal write, which removes the old file first, that
\* loses the journal.
Recording == {"backup", "updated", "undo_record"}
AfterTornWrite ==
    IF TornWrites /\ job.at \in Recording
    THEN {journals, [journals EXCEPT ![IF job.undo = None THEN job.op ELSE job.undo] = NoJournal]}
    ELSE {journals}
Stop ==
    /\ job # Idle
    /\ Spend("faults")
    /\ journals' \in AfterTornWrite
    /\ Done
    /\ UNCHANGED <<statevars, dirvars, usage, rules, backups>>

Init ==
    /\ \E h \in Homes :
           /\ gstate = h.gstate /\ present = h.present /\ filled = h.filled
           /\ usage = h.usage /\ rules = h.rules /\ precious = {h.gstate} \ {None}
    /\ quarantine = {}
    /\ journals = [o \in Operations |-> NoJournal] /\ backups = [o \in Operations |-> None]
    /\ spare = [o \in Operations |-> None]
    /\ job = Idle
    /\ left = [edits |-> MaxEdits, cleanups |-> MaxCleanups, rules |-> MaxRuleChanges,
               faults |-> MaxFaults]

Next ==
    \/ Around \/ Cleanup \/ Repair \/ Stop
    \/ \E o \in Operations : delete_backup(o)

Spec == Init /\ [][Next]_vars

-----------------------------------------------------------------------------
\* What Codex last saved in its global state, or an operation that succeeded made of it,
\* is on disk: live, in the backup of a cleanup, or in the temporary file of a repair that
\* was interrupted.  Failures, crashes, recoveries and the deletion of backups lose none.
GlobalStateSurvives ==
    precious \subseteq {gstate} \cup {backups[o] : o \in Operations}
                       \cup {spare[o] : o \in Operations}

\* A cleanup that is recorded as completed has moved exactly its directories, each of them
\* empty, and left the global state it planned; one that is recorded as rolled back has
\* left nothing in the quarantine and the global state it found.
MovedAll(o) ==
    /\ {d.path : d \in {e \in quarantine' : e.op = o}} = journals[o].planned
    /\ \A d \in quarantine' : d.op = o => IsEmpty(d)
    /\ journals[o].updated # None => gstate' = journals[o].updated
MovedNone(o) ==
    /\ \A d \in quarantine' : d.op # o
    /\ journals[o].updated # None => gstate' = journals[o].original
Becomes(o, status) == Unfinished(o) /\ journals'[o].status = status
CleanupIsAllOrNothing ==
    [][\A o \in Operations :
          /\ Becomes(o, "completed") => MovedAll(o)
          /\ Becomes(o, "rolled_back") => MovedNone(o)]_vars

\* A workspace path of a revision comes back from this machine as it was, under every set
\* of rules the commands can leave behind, exactly when ComesBack says so.
MappingRoundTrips == \A p \in UNION Heads : RoundTrips(rules, p)
=============================================================================
