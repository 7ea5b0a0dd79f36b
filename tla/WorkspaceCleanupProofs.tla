----------------------- MODULE WorkspaceCleanupProofs -----------------------
(***************************************************************************)
(* Proofs about the cleanup of workspaces and the repair of the sidebar,   *)
(* for any paths, homes, rules, conversations and bounds.                  *)
(***************************************************************************)
EXTENDS WorkspaceCleanup, WellFoundedInduction, TLAPS

(***************************************************************************)
(* Shapes, and the numbers of operations.                                  *)
(***************************************************************************)
JobRecord(j) ==
    j \in [kind : {"cleanup", "delete", "repair"}, at : {j.at}, op : Operations,
           undo : {j.undo}, asked : {j.asked}, todo : {j.todo}, path : {j.path},
           thread : {j.thread}]
Typed ==
    /\ left \in [{"edits", "cleanups", "rules", "faults"} -> Nat]
    /\ left["cleanups"] <= MaxCleanups
    /\ journals = [o \in Operations |-> journals[o]]
    /\ backups = [o \in Operations |-> backups[o]]
    /\ spare = [o \in Operations |-> spare[o]]
    /\ job = Idle \/ JobRecord(job)

Started == MaxCleanups - left["cleanups"]
NothingMoved(o) == \A d \in quarantine : d.op # o
Unborn(o) == journals[o] = NoJournal /\ backups[o] = None /\ NothingMoved(o)
Numbered ==
    /\ \A o \in Operations : o > Started => Unborn(o) /\ spare[o] = None
    /\ job # Idle => job.op = Started

(***************************************************************************)
(* What the journal of an unfinished cleanup says of the files.            *)
(***************************************************************************)
JournalOK(o) ==
    LET j == journals[o] IN
    /\ j \in [status : {j.status}, planned : {j.planned}, updated : {j.updated},
              original : {j.original}]
    /\ j.updated = None => j.original = None
    /\ backups[o] \in {None, j.original}
    /\ j.status # "preparing" => backups[o] = j.original
    /\ \A d \in quarantine : d.op = o => d.path \in j.planned
Journaled == \A o \in Operations : Unfinished(o) => JournalOK(o)
Distinct == \A d, e \in quarantine : d.op = e.op /\ d.path = e.path => d = e

(***************************************************************************)
(* What a job has done where it stands: before its own journal, with it,   *)
(* and rolling one back.                                                   *)
(***************************************************************************)
Waiting ==
    job # Idle /\ job.at \in {"recover", "plan", "row", "repair", "install"} => Unborn(job.op)
Writing ==
    /\ At("backup") =>
         /\ Mine.status = "preparing" /\ NothingMoved(job.op)
         /\ Mine.updated # None => gstate = Mine.original
    /\ At("unlink") => /\ Mine.status = "backed_up" /\ NothingMoved(job.op)
                       /\ Mine.updated # None /\ gstate = Mine.original
    /\ At("link") => /\ Mine.status = "backed_up" /\ NothingMoved(job.op)
                     /\ Mine.updated # None /\ gstate = None /\ spare[job.op] = Mine.updated
    /\ At("updated") => /\ Mine.status = "backed_up" /\ NothingMoved(job.op)
                        /\ Mine.updated # None => gstate = Mine.updated
MovedSoFar(moved) ==
    /\ Mine.status = "project_state_updated"
    /\ Mine.updated # None => gstate = Mine.updated
    /\ job.todo \subseteq Mine.planned
    /\ \A p : p \in moved <=> Quarantined(job.op, p) # {}
Moving ==
    /\ At("move") \/ At("rename") =>
         /\ MovedSoFar(Mine.planned \ job.todo)
         /\ \A d \in quarantine : d.op = job.op => IsEmpty(d)
    /\ At("rename") \/ At("verify") => job.path \in job.todo
    /\ At("verify") =>
         /\ MovedSoFar((Mine.planned \ job.todo) \cup {job.path})
         /\ \A d \in quarantine : d.op = job.op /\ d.path # job.path => IsEmpty(d)
Undos == {"undo_move", "undo_link", "undo_record"}
Undoes ==
    /\ job # Idle /\ job.at \in Undos =>
         /\ job.undo \in Operations /\ Unfinished(job.undo)
         /\ job.undo # job.op => Unborn(job.op)
    /\ At("undo_move") => \A d \in quarantine : d.op = job.undo => d.path \in job.todo
    /\ At("undo_link") =>
         /\ NothingMoved(job.undo) /\ Undone.updated # None /\ gstate = None
         /\ spare[job.op] = Undone.original /\ backups[job.undo] = Undone.original
    /\ At("undo_record") => /\ NothingMoved(job.undo)
                            /\ Undone.updated # None => gstate = Undone.original
Replacing == {"link", "undo_link", "install"}
Temporary == job # Idle /\ job.at \notin Replacing => spare[job.op] = None

CleanupInv ==
    /\ Typed /\ Numbered /\ Journaled /\ Distinct
    /\ Waiting /\ Writing /\ Moving /\ Undoes /\ Temporary

(***************************************************************************)
(* The states that are in a file no operation discards.                    *)
(***************************************************************************)
InBackup == {backups[o] : o \in {x \in Operations : Unfinished(x)}}
InSpare(others) == {spare[o] : o \in others}
Survives ==
    /\ precious \subseteq {gstate} \cup InBackup \cup InSpare(Operations)
    /\ At("link") \/ At("undo_link") =>
         precious \subseteq {gstate} \cup InBackup \cup InSpare(Operations \ {job.op})
    /\ At("install") => gstate = None
-----------------------------------------------------------------------------
(***************************************************************************)
(* Records and numbers.                                                    *)
(***************************************************************************)
LEMMA Numbers ==
    /\ MaxCleanups \in Nat /\ Operations \subseteq Nat
    /\ \A n \in Nat : n \in Operations <=> 1 <= n /\ n <= MaxCleanups
    /\ RepairMayFail \in BOOLEAN /\ TornWrites \in BOOLEAN
  BY CleanupAssumption DEF Operations

LEMMA IdleFacts == Idle.kind = "idle" /\ \A j : JobRecord(j) => j # Idle
  BY DEF Idle, JobRecord

LEMMA SpendFacts ==
    ASSUME Typed, NEW what \in {"edits", "cleanups", "rules", "faults"}, Spend(what)
    PROVE  /\ left' \in [{"edits", "cleanups", "rules", "faults"} -> Nat]
           /\ left'["cleanups"] <= MaxCleanups
           /\ what # "cleanups" => left'["cleanups"] = left["cleanups"]
           /\ what = "cleanups" => left'["cleanups"] = left["cleanups"] - 1 /\ left["cleanups"] > 0
<1>1. MaxCleanups \in Nat
  BY Numbers
<1>2. QED
  BY <1>1 DEF Typed, Spend

\* The ways in which a job goes on.
LEMMA GotoForm ==
    ASSUME Typed, job # Idle, NEW a, job' = [job EXCEPT !.at = a]
    PROVE  /\ JobRecord(job') /\ job' # Idle
           /\ job'.kind = job.kind
           /\ job'.at = a
           /\ job'.op = job.op
           /\ job'.undo = job.undo
           /\ job'.asked = job.asked
           /\ job'.todo = job.todo
           /\ job'.path = job.path
           /\ job'.thread = job.thread
<1>1. JobRecord(job)
  BY DEF Typed
<1>2. DOMAIN job = {"kind", "at", "op", "undo", "asked", "todo", "path", "thread"}
  BY <1>1 DEF JobRecord
<1>3. JobRecord(job')
  BY <1>1, <1>2 DEF JobRecord
<1>4. QED
  BY <1>2, <1>3, IdleFacts

LEMMA TodoForm ==
    ASSUME Typed, job # Idle, NEW b, job' = [job EXCEPT !.todo = b]
    PROVE  /\ JobRecord(job') /\ job' # Idle
           /\ job'.kind = job.kind
           /\ job'.at = job.at
           /\ job'.op = job.op
           /\ job'.undo = job.undo
           /\ job'.asked = job.asked
           /\ job'.todo = b
           /\ job'.path = job.path
           /\ job'.thread = job.thread
<1>1. JobRecord(job)
  BY DEF Typed
<1>2. DOMAIN job = {"kind", "at", "op", "undo", "asked", "todo", "path", "thread"}
  BY <1>1 DEF JobRecord
<1>3. JobRecord(job')
  BY <1>1, <1>2 DEF JobRecord
<1>4. QED
  BY <1>2, <1>3, IdleFacts

LEMMA NextForm ==
    ASSUME Typed, job # Idle, NEW a, NEW b, job' = [job EXCEPT !.at = a, !.todo = b]
    PROVE  /\ JobRecord(job') /\ job' # Idle
           /\ job'.kind = job.kind
           /\ job'.at = a
           /\ job'.op = job.op
           /\ job'.undo = job.undo
           /\ job'.asked = job.asked
           /\ job'.todo = b
           /\ job'.path = job.path
           /\ job'.thread = job.thread
<1>1. JobRecord(job)
  BY DEF Typed
<1>2. DOMAIN job = {"kind", "at", "op", "undo", "asked", "todo", "path", "thread"}
  BY <1>1 DEF JobRecord
<1>3. JobRecord(job')
  BY <1>1, <1>2 DEF JobRecord
<1>4. QED
  BY <1>2, <1>3, IdleFacts

LEMMA PathForm ==
    ASSUME Typed, job # Idle, NEW a, NEW b, job' = [job EXCEPT !.at = a, !.path = b]
    PROVE  /\ JobRecord(job') /\ job' # Idle
           /\ job'.kind = job.kind
           /\ job'.at = a
           /\ job'.op = job.op
           /\ job'.undo = job.undo
           /\ job'.asked = job.asked
           /\ job'.todo = job.todo
           /\ job'.path = b
           /\ job'.thread = job.thread
<1>1. JobRecord(job)
  BY DEF Typed
<1>2. DOMAIN job = {"kind", "at", "op", "undo", "asked", "todo", "path", "thread"}
  BY <1>1 DEF JobRecord
<1>3. JobRecord(job')
  BY <1>1, <1>2 DEF JobRecord
<1>4. QED
  BY <1>2, <1>3, IdleFacts

LEMMA UndoForm ==
    ASSUME Typed, job # Idle, NEW a, NEW b, NEW c, job' = [job EXCEPT !.at = a, !.undo = b, !.todo = c]
    PROVE  /\ JobRecord(job') /\ job' # Idle
           /\ job'.kind = job.kind
           /\ job'.at = a
           /\ job'.op = job.op
           /\ job'.undo = b
           /\ job'.asked = job.asked
           /\ job'.todo = c
           /\ job'.path = job.path
           /\ job'.thread = job.thread
<1>1. JobRecord(job)
  BY DEF Typed
<1>2. DOMAIN job = {"kind", "at", "op", "undo", "asked", "todo", "path", "thread"}
  BY <1>1 DEF JobRecord
<1>3. JobRecord(job')
  BY <1>1, <1>2 DEF JobRecord
<1>4. QED
  BY <1>2, <1>3, IdleFacts

LEMMA BackForm ==
    ASSUME Typed, job # Idle, NEW a, NEW b, job' = [job EXCEPT !.at = a, !.undo = b]
    PROVE  /\ JobRecord(job') /\ job' # Idle
           /\ job'.kind = job.kind
           /\ job'.at = a
           /\ job'.op = job.op
           /\ job'.undo = b
           /\ job'.asked = job.asked
           /\ job'.todo = job.todo
           /\ job'.path = job.path
           /\ job'.thread = job.thread
<1>1. JobRecord(job)
  BY DEF Typed
<1>2. DOMAIN job = {"kind", "at", "op", "undo", "asked", "todo", "path", "thread"}
  BY <1>1 DEF JobRecord
<1>3. JobRecord(job')
  BY <1>1, <1>2 DEF JobRecord
<1>4. QED
  BY <1>2, <1>3, IdleFacts

(***************************************************************************)
(* Steps that leave the files of the invariant alone.                      *)
(***************************************************************************)
JobInv == Waiting /\ Writing /\ Moving /\ Undoes /\ Temporary
Bounded ==
    /\ left \in [{"edits", "cleanups", "rules", "faults"} -> Nat]
    /\ left["cleanups"] <= MaxCleanups

LEMMA IdleJob == ASSUME job' = Idle PROVE JobInv'
  BY DEF JobInv, Waiting, Writing, Moving, Undoes, Temporary, At

LEMMA FilesKept ==
    ASSUME CleanupInv, UNCHANGED <<quarantine, journals, backups>>
    PROVE  Journaled' /\ Distinct'
  BY DEF CleanupInv, Journaled, JournalOK, Distinct, Unfinished

LEMMA NumbersKept ==
    ASSUME CleanupInv, UNCHANGED <<quarantine, journals, backups, spare>>,
           left'["cleanups"] = left["cleanups"], job' = Idle \/ job'.op = job.op,
           job' = Idle \/ job # Idle
    PROVE  Numbered'
  BY DEF CleanupInv, Numbered, Unborn, NothingMoved, Started

LEMMA CalmKeeps ==
    ASSUME CleanupInv, Bounded', left'["cleanups"] = left["cleanups"],
           UNCHANGED <<gstate, spare, quarantine, journals, backups, job>>
    PROVE  CleanupInv'
<1>1. Typed'
  BY DEF CleanupInv, Typed, Bounded
<1>2. Numbered'
  BY NumbersKept
<1>3. JobInv'
  <2>1. Waiting' /\ Writing' /\ Temporary'
    BY DEF CleanupInv, Waiting, Writing, Temporary, Unborn, NothingMoved, At, Mine
  <2>2. Moving'
    BY DEF CleanupInv, Moving, MovedSoFar, Mine, At, Quarantined, IsEmpty
  <2>3. Undoes'
    BY DEF CleanupInv, Undoes, Unborn, NothingMoved, At, Undone, Unfinished
  <2>4. QED
    BY <2>1, <2>2, <2>3 DEF JobInv
<1>4. QED
  BY <1>1, <1>2, <1>3, FilesKept DEF CleanupInv, JobInv

(***************************************************************************)
(* One lemma per step.  Jobs start.                                        *)
(***************************************************************************)
LEMMA StartKeeps ==
    ASSUME CleanupInv, Spend("cleanups"), NEW k \in {"cleanup", "delete", "repair"},
           NEW a \in {"recover", "row", "repair"}, job' = Job(k, a) \/
             (\E b : job' = [Job(k, a) EXCEPT !.asked = b] \/ job' = [Job(k, a) EXCEPT !.thread = b]),
           UNCHANGED <<gstate, spare, quarantine, journals, backups>>
    PROVE  CleanupInv'
<1>a. job'.kind = k /\ job'.at = a /\ job'.op = NextOperation /\ job' # Idle
      /\ DOMAIN job' = {"kind", "at", "op", "undo", "asked", "todo", "path", "thread"}
      /\ job' = [kind |-> k, at |-> a, op |-> NextOperation, undo |-> job'.undo,
                 asked |-> job'.asked, todo |-> job'.todo, path |-> job'.path,
                 thread |-> job'.thread]
  BY DEF Job, Idle
<1>1. Typed
  BY DEF CleanupInv
<1>2. Bounded' /\ left'["cleanups"] = left["cleanups"] - 1 /\ left["cleanups"] > 0
  BY <1>1, SpendFacts DEF Bounded
<1>3. NextOperation \in Operations /\ NextOperation = Started' /\ Started' = Started + 1
      /\ Started \in Int
  BY <1>1, <1>2, Numbers DEF NextOperation, Started, Typed, Bounded
<1>4. Unborn(NextOperation) /\ spare[NextOperation] = None
  BY <1>3, Numbers DEF CleanupInv, Numbered
<1>5. Typed'
  <2>1. JobRecord(job')
    BY <1>a, <1>3 DEF JobRecord
  <2>2. QED
    BY <1>1, <1>2, <2>1 DEF Typed, Bounded
<1>6. Numbered'
  <2>1. \A o \in Operations : o > Started' => o > Started
    BY <1>3, Numbers
  <2>2. \A o \in Operations : o > Started' => Unborn(o)' /\ spare'[o] = None
    BY <2>1 DEF CleanupInv, Numbered, Unborn, NothingMoved
  <2>3. QED
    BY <1>a, <1>3, <2>2 DEF Numbered
<1>7. JobInv'
  <2>1. Unborn(job.op)' /\ spare'[job'.op] = None
    BY <1>a, <1>4 DEF Unborn, NothingMoved
  <2>2. QED
    BY <1>a, <2>1 DEF JobInv, Waiting, Writing, Moving, Undoes, Temporary, At, Undos, Replacing
<1>8. QED
  BY <1>5, <1>6, <1>7, FilesKept DEF CleanupInv, JobInv

LEMMA StartKept ==
    ASSUME CleanupInv, NEW asked, start_cleanup(asked)
    PROVE  CleanupInv'
  BY StartKeeps DEF start_cleanup, statevars, dirvars

LEMMA MutateKept ==
    ASSUME CleanupInv, NEW t, mutate_thread(t)
    PROVE  CleanupInv'
  BY StartKeeps DEF mutate_thread, statevars, dirvars

LEMMA RepairKept ==
    ASSUME CleanupInv, repair_codex_sidebar
    PROVE  CleanupInv'
  BY StartKeeps DEF repair_codex_sidebar, statevars, dirvars

(***************************************************************************)
(* Jobs that stop, and steps between jobs.                                 *)
(***************************************************************************)
LEMMA StopKeeps ==
    ASSUME CleanupInv, Bounded', left'["cleanups"] = left["cleanups"], job' = Idle,
           UNCHANGED <<quarantine, journals, backups, spare>>
    PROVE  CleanupInv'
<1>1. Typed'
  BY DEF CleanupInv, Typed, Bounded
<1>2. QED
  BY <1>1, FilesKept, NumbersKept, IdleJob DEF CleanupInv, JobInv

LEMMA BoundKept == ASSUME CleanupInv, UNCHANGED left PROVE Bounded' /\ left'["cleanups"] = left["cleanups"]
  BY DEF CleanupInv, Typed, Bounded

LEMMA FaultKept ==
    ASSUME CleanupInv, NEW what \in {"edits", "rules", "faults"}, Spend(what)
    PROVE  Bounded' /\ left'["cleanups"] = left["cleanups"]
<1>1. Typed
  BY DEF CleanupInv
<1>2. QED
  BY <1>1, SpendFacts DEF Bounded

LEMMA SavesKept ==
    ASSUME CleanupInv, CodexSaves
    PROVE  CleanupInv'
<1>1. Bounded' /\ left'["cleanups"] = left["cleanups"]
  BY FaultKept DEF CodexSaves
<1>2. QED
  BY <1>1, StopKeeps DEF CodexSaves, dirvars

LEMMA DeleteBackupKept ==
    ASSUME CleanupInv, NEW o \in Operations, delete_backup(o)
    PROVE  CleanupInv'
<1>1. Bounded' /\ left'["cleanups"] = left["cleanups"]
  BY FaultKept DEF delete_backup
<1>2. backups' = [backups EXCEPT ![o] = None] /\ job = Idle /\ job' = Idle /\ ~ Unfinished(o)
      /\ UNCHANGED <<quarantine, journals, spare>>
  BY DEF delete_backup, statevars, dirvars
<1>3. \A x \in Operations : backups'[x] = IF x = o THEN None ELSE backups[x]
  BY <1>2 DEF CleanupInv, Typed
<1>4. Typed'
  BY <1>1, <1>2 DEF CleanupInv, Typed, Bounded
<1>5. Numbered'
  BY <1>1, <1>2, <1>3 DEF CleanupInv, Numbered, Unborn, NothingMoved, Started
<1>6. Journaled' /\ Distinct'
  BY <1>2, <1>3 DEF CleanupInv, Journaled, JournalOK, Distinct, Unfinished
<1>7. QED
  BY <1>2, <1>4, <1>5, <1>6, IdleJob DEF CleanupInv, JobInv

LEMMA StopKept ==
    ASSUME CleanupInv, Stop
    PROVE  CleanupInv'
<1>1. Bounded' /\ left'["cleanups"] = left["cleanups"]
  BY FaultKept DEF Stop
<1>2. job' = Idle /\ UNCHANGED <<quarantine, backups, spare>> /\ journals' \in AfterTornWrite
  BY DEF Stop, Done, statevars, dirvars
<1>3. /\ journals' = [o \in Operations |-> journals'[o]]
      /\ \A o \in Operations : journals'[o] \in {journals[o], NoJournal}
  BY <1>2 DEF AfterTornWrite, CleanupInv, Typed
<1>4. Typed'
  BY <1>1, <1>2, <1>3 DEF CleanupInv, Typed, Bounded
<1>5. Numbered'
  BY <1>1, <1>2, <1>3 DEF CleanupInv, Numbered, Unborn, NothingMoved, Started
<1>6. \A o \in Operations : Unfinished(o)' => Unfinished(o) /\ journals'[o] = journals[o]
  BY <1>3 DEF Unfinished, NoJournal
<1>7. Journaled' /\ Distinct'
  BY <1>2, <1>6 DEF CleanupInv, Journaled, JournalOK, Distinct
<1>8. QED
  BY <1>2, <1>4, <1>5, <1>7, IdleJob DEF CleanupInv, JobInv

(***************************************************************************)
(* A job goes on and writes no file.                                       *)
(***************************************************************************)
LEMMA JobMoves ==
    ASSUME CleanupInv, UNCHANGED <<spare, quarantine, journals, backups, left>>,
           JobRecord(job'), job' # Idle, job # Idle, job'.op = job.op
    PROVE  Typed' /\ Numbered' /\ Journaled' /\ Distinct'
<1>1. Typed'
  BY DEF CleanupInv, Typed
<1>2. QED
  BY <1>1, FilesKept, NumbersKept

\* An unfinished cleanup may be rolled back from anywhere.
LEMMA UndoKeeps ==
    ASSUME CleanupInv, job # Idle, NEW o \in Operations, Unfinished(o), job' = Undoing(o),
           o # job.op => Unborn(job.op), spare[job.op] = None,
           UNCHANGED <<spare, quarantine, journals, backups, left>>
    PROVE  CleanupInv'
<1>1. /\ JobRecord(job') /\ job' # Idle /\ job'.op = job.op /\ job'.at = "undo_move"
      /\ job'.undo = o /\ job'.todo = journals[o].planned
  BY UndoForm DEF Undoing, CleanupInv
<1>2. \A d \in quarantine : d.op = o => d.path \in journals[o].planned
  BY DEF CleanupInv, Journaled, JournalOK
<1>3. JobInv'
  BY <1>1, <1>2 DEF JobInv, Waiting, Writing, Moving, Undoes, Temporary, At, Undos, Replacing,
     Unborn, NothingMoved, Unfinished
<1>4. QED
  BY <1>1, <1>3, JobMoves DEF CleanupInv, JobInv

\* Its own cleanup, before it has a journal.
LEMMA RecoverKept ==
    ASSUME CleanupInv, recover_incomplete_workspace_cleanups
    PROVE  CleanupInv'
<1>1. /\ job # Idle /\ job.at = "recover" /\ Unborn(job.op) /\ spare[job.op] = None
      /\ UNCHANGED <<gstate, spare, quarantine, journals, backups, left>>
  BY DEF recover_incomplete_workspace_cleanups, At, CleanupInv, Waiting, Temporary, Replacing,
     statevars, dirvars
<1>2. CASE \E o \in Operations : Unfinished(o) /\ job' = Undoing(o)
  BY <1>1, <1>2, UndoKeeps
<1>3. CASE Goto("plan")
  <2>1. /\ JobRecord(job') /\ job' # Idle /\ job'.op = job.op /\ job'.at = "plan"
    BY <1>1, <1>3, GotoForm DEF Goto, CleanupInv
  <2>2. JobInv'
    BY <1>1, <2>1 DEF JobInv, Waiting, Writing, Moving, Undoes, Temporary, At, Undos, Replacing,
       Unborn, NothingMoved
  <2>3. QED
    BY <1>1, <2>1, <2>2, JobMoves DEF CleanupInv, JobInv
<1>4. QED
  BY <1>2, <1>3 DEF recover_incomplete_workspace_cleanups

LEMMA DeleteRowKept ==
    ASSUME CleanupInv, delete_row
    PROVE  CleanupInv'
<1>1. /\ job # Idle /\ job.at = "row" /\ Unborn(job.op) /\ spare[job.op] = None
      /\ UNCHANGED <<gstate, spare, quarantine, journals, backups, left>> /\ Goto("repair")
  BY DEF delete_row, At, CleanupInv, Waiting, Temporary, Replacing, statevars, dirvars
<1>2. /\ JobRecord(job') /\ job' # Idle /\ job'.op = job.op /\ job'.at = "repair"
  BY <1>1, GotoForm DEF Goto, CleanupInv
<1>3. JobInv'
  BY <1>1, <1>2 DEF JobInv, Waiting, Writing, Moving, Undoes, Temporary, At, Undos, Replacing,
     Unborn, NothingMoved
<1>4. QED
  BY <1>1, <1>2, <1>3, JobMoves DEF CleanupInv, JobInv

LEMMA PlanKept ==
    ASSUME CleanupInv, plan_cleanup
    PROVE  CleanupInv'
<1> DEFINE moves == job.asked \cap present
           updated == Updated(job.asked)
           j == [status |-> "preparing", planned |-> moves, updated |-> updated,
                 original |-> IF updated = None THEN None ELSE gstate]
<1>1. /\ job # Idle /\ job.at = "plan" /\ Unborn(job.op) /\ spare[job.op] = None
      /\ UNCHANGED <<gstate, spare, quarantine, backups, left>>
  BY DEF plan_cleanup, At, CleanupInv, Waiting, Temporary, Replacing, statevars, dirvars
<1>2. CASE Done /\ UNCHANGED journals
  BY <1>1, <1>2, BoundKept, StopKeeps DEF Done
<1>3. CASE journals' = [journals EXCEPT ![job.op] = j] /\ Goto("backup")
  <2> HIDE DEF moves, updated
  <2>1. /\ JobRecord(job') /\ job' # Idle /\ job'.op = job.op /\ job'.at = "backup"
    BY <1>1, <1>3, GotoForm DEF Goto, CleanupInv
  <2>2. job.op \in Operations /\ job.op = Started /\ Started' = Started
    BY <1>1 DEF CleanupInv, Typed, JobRecord, Numbered, Started
  <2>3. /\ journals' = [o \in Operations |-> journals'[o]] /\ journals'[job.op] = j
        /\ \A o \in Operations : o # job.op => journals'[o] = journals[o]
    BY <1>3, <2>2 DEF CleanupInv, Typed
  <2>4. Typed'
    BY <1>1, <2>1, <2>3 DEF CleanupInv, Typed
  <2>5. \A o \in Operations : o > Started => o # job.op
    BY <2>2, Numbers
  <2>6. Numbered'
    BY <1>1, <2>1, <2>2, <2>3, <2>5 DEF CleanupInv, Numbered, Unborn, NothingMoved
  <2>7. Journaled'
    <3>1. ASSUME NEW o \in Operations, o # job.op, Unfinished(o)' PROVE JournalOK(o)'
      BY <1>1, <2>3, <3>1 DEF CleanupInv, Journaled, JournalOK, Unfinished
    <3>2. JournalOK(job.op)'
      BY <1>1, <2>1, <2>3 DEF JournalOK, Unborn, NothingMoved
    <3>3. QED
      BY <2>1, <3>1, <3>2 DEF Journaled
  <2>8. Distinct'
    BY <1>1 DEF CleanupInv, Distinct
  <2>9. JobInv'
    BY <1>1, <2>1, <2>3 DEF JobInv, Waiting, Writing, Moving, Undoes, Temporary, At, Undos,
       Replacing, Unborn, NothingMoved, Mine
  <2>10. QED
    BY <2>4, <2>6, <2>7, <2>8, <2>9 DEF CleanupInv, JobInv
<1>4. QED
  BY <1>2, <1>3 DEF plan_cleanup

(***************************************************************************)
(* The journal is written.                                                 *)
(***************************************************************************)
LEMMA RecordFacts ==
    ASSUME CleanupInv, NEW o \in Operations, Unfinished(o), NEW status, Record(o, status)
    PROVE  /\ journals' = [x \in Operations |-> journals'[x]]
           /\ \A x \in Operations : x # o => journals'[x] = journals[x]
           /\ journals'[o].status = status /\ journals'[o].planned = journals[o].planned
           /\ journals'[o].updated = journals[o].updated
           /\ journals'[o].original = journals[o].original
           /\ journals'[o] \in [status : {status}, planned : {journals[o].planned},
                                updated : {journals[o].updated},
                                original : {journals[o].original}]
<1>1. journals[o] \in [status : {journals[o].status}, planned : {journals[o].planned},
                       updated : {journals[o].updated}, original : {journals[o].original}]
  BY DEF CleanupInv, Journaled, JournalOK
<1>2. journals' = [journals EXCEPT ![o] = [journals[o] EXCEPT !.status = status]]
  BY DEF Record
<1>3. /\ journals' = [x \in Operations |-> journals'[x]]
      /\ journals'[o] = [journals[o] EXCEPT !.status = status]
      /\ \A x \in Operations : x # o => journals'[x] = journals[x]
  BY <1>2 DEF CleanupInv, Typed
<1>4. QED
  BY <1>1, <1>3

\* The journal of a cleanup at work is written, and perhaps its backup.
LEMMA RecordKeeps ==
    ASSUME CleanupInv, NEW o \in Operations, Unfinished(o),
           NEW status \in {"backed_up", "project_state_updated", "completed", "rolled_back"},
           Record(o, status), UNCHANGED <<spare, quarantine, left>>,
           job # Idle, o <= Started,
           job' = Idle \/ (JobRecord(job') /\ job' # Idle /\ job'.op = job.op),
           UNCHANGED backups \/ backups' = [backups EXCEPT ![o] = journals[o].original],
           status \in {"backed_up", "project_state_updated"} => backups'[o] = journals[o].original
    PROVE  Typed' /\ Numbered' /\ Journaled' /\ Distinct'
<1>1. /\ journals' = [x \in Operations |-> journals'[x]]
      /\ \A x \in Operations : x # o => journals'[x] = journals[x]
      /\ journals'[o].status = status /\ journals'[o].planned = journals[o].planned
      /\ journals'[o].updated = journals[o].updated
      /\ journals'[o].original = journals[o].original
      /\ journals'[o] \in [status : {status}, planned : {journals[o].planned},
                           updated : {journals[o].updated}, original : {journals[o].original}]
  BY RecordFacts
<1>2. /\ backups' = [x \in Operations |-> backups'[x]]
      /\ \A x \in Operations : x # o => backups'[x] = backups[x]
      /\ backups'[o] \in {backups[o], journals[o].original}
  BY DEF CleanupInv, Typed
<1>3. Typed'
  BY <1>1, <1>2 DEF CleanupInv, Typed
<1>4. Numbered'
  <2>1. Started' = Started /\ Started \in Int
    BY Numbers DEF Started, CleanupInv, Typed
  <2>2. \A x \in Operations : x > Started => x # o
    BY <2>1, Numbers
  <2>3. QED
    BY <1>1, <1>2, <2>1, <2>2 DEF CleanupInv, Numbered, Unborn, NothingMoved
<1>5. Journaled'
  <2>1. ASSUME NEW x \in Operations, x # o, Unfinished(x)' PROVE JournalOK(x)'
    BY <1>1, <1>2, <2>1 DEF CleanupInv, Journaled, JournalOK, Unfinished
  <2>2. ASSUME Unfinished(o)' PROVE JournalOK(o)'
    <3>1. JournalOK(o)
      BY DEF CleanupInv, Journaled
    <3>2. backups'[o] = journals[o].original
      BY <1>1, <2>2 DEF Unfinished
    <3>3. QED
      BY <1>1, <3>1, <3>2 DEF JournalOK
  <2>3. QED
    BY <2>1, <2>2 DEF Journaled
<1>6. Distinct'
  BY DEF CleanupInv, Distinct
<1>7. QED
  BY <1>3, <1>4, <1>5, <1>6

\* The operation of a job has been counted.
LEMMA OwnFacts ==
    ASSUME CleanupInv, job # Idle
    PROVE  job.op \in Operations /\ job.op <= Started /\ JobRecord(job) /\ Started \in Int
           /\ job.op \in Int /\ job.op = Started
<1>1. JobRecord(job) /\ job.op = Started
  BY DEF CleanupInv, Typed, Numbered
<1>2. QED
  BY <1>1, Numbers DEF JobRecord

LEMMA UndoneFacts ==
    ASSUME CleanupInv, NEW o \in Operations, Unfinished(o) PROVE o <= Started
<1>1. Started \in Int
  BY Numbers DEF Started, CleanupInv, Typed
<1>2. ~ Unborn(o)
  BY DEF Unborn, Unfinished, NoJournal
<1>3. ~ (o > Started)
  BY <1>2 DEF CleanupInv, Numbered
<1>4. QED
  BY <1>1, <1>3, Numbers

LEMMA BackupKept ==
    ASSUME CleanupInv, back_up_global_state
    PROVE  CleanupInv'
<1>1. /\ job # Idle /\ job.at = "backup" /\ Mine.status = "preparing" /\ spare[job.op] = None
      /\ NothingMoved(job.op) /\ (Mine.updated # None => gstate = Mine.original)
  BY DEF back_up_global_state, At, CleanupInv, Writing, Temporary, Replacing
<1>2. /\ backups' = [backups EXCEPT ![job.op] = journals[job.op].original]
      /\ Record(job.op, "backed_up")
      /\ UNCHANGED <<gstate, spare, quarantine, left>>
      /\ Goto(IF Mine.updated = None THEN "updated" ELSE "unlink")
  BY DEF back_up_global_state, statevars, dirvars, Mine
<1>3. job.op \in Operations /\ job.op <= Started /\ Unfinished(job.op)
  BY <1>1, OwnFacts DEF Unfinished, Mine
<1>4. /\ JobRecord(job') /\ job' # Idle /\ job'.op = job.op
      /\ job'.at = IF Mine.updated = None THEN "updated" ELSE "unlink"
  BY <1>1, <1>2, GotoForm DEF Goto, CleanupInv
<1>5. backups'[job.op] = journals[job.op].original
  BY <1>2, <1>3 DEF CleanupInv, Typed
<1>6. Typed' /\ Numbered' /\ Journaled' /\ Distinct'
  BY <1>1, <1>2, <1>3, <1>4, <1>5, RecordKeeps
<1>7. /\ Mine'.status = "backed_up" /\ Mine'.updated = Mine.updated
      /\ Mine'.original = Mine.original
  BY <1>2, <1>3, <1>4, RecordFacts DEF Mine
<1>8. JobInv'
  BY <1>1, <1>2, <1>4, <1>7 DEF JobInv, Waiting, Writing, Moving, Undoes, Temporary, At, Undos,
     Replacing, NothingMoved
<1>9. QED
  BY <1>6, <1>8 DEF CleanupInv, JobInv

LEMMA RecordedKept ==
    ASSUME CleanupInv, update_recorded
    PROVE  CleanupInv'
<1>1. /\ job # Idle /\ job.at = "updated" /\ Mine.status = "backed_up" /\ spare[job.op] = None
      /\ NothingMoved(job.op) /\ (Mine.updated # None => gstate = Mine.updated)
  BY DEF update_recorded, At, CleanupInv, Writing, Temporary, Replacing
<1>2. /\ Record(job.op, "project_state_updated")
      /\ UNCHANGED <<gstate, spare, quarantine, backups, left>>
      /\ job' = [job EXCEPT !.at = "move", !.todo = Mine.planned]
  BY DEF update_recorded, statevars, dirvars
<1>3. job.op \in Operations /\ job.op <= Started /\ Unfinished(job.op)
  BY <1>1, OwnFacts DEF Unfinished, Mine
<1>4. /\ JobRecord(job') /\ job' # Idle /\ job'.op = job.op
      /\ job'.at = "move" /\ job'.todo = Mine.planned
  BY <1>1, <1>2, NextForm DEF CleanupInv
<1>5. backups'[job.op] = journals[job.op].original
  BY <1>1, <1>2, <1>3 DEF CleanupInv, Journaled, JournalOK, Mine
<1>6. Typed' /\ Numbered' /\ Journaled' /\ Distinct'
  BY <1>1, <1>2, <1>3, <1>4, <1>5, RecordKeeps
<1>7. /\ Mine'.status = "project_state_updated" /\ Mine'.updated = Mine.updated
      /\ Mine'.original = Mine.original /\ Mine'.planned = Mine.planned
  BY <1>2, <1>3, <1>4, RecordFacts DEF Mine
<1>8. MovedSoFar(Mine.planned \ job.todo)'
  BY <1>1, <1>2, <1>4, <1>7 DEF MovedSoFar, Quarantined, NothingMoved
<1>9. \A d \in quarantine' : d.op = job'.op => IsEmpty(d)
  BY <1>1, <1>2, <1>4 DEF NothingMoved
<1>10. JobInv'
  BY <1>1, <1>2, <1>4, <1>8, <1>9 DEF JobInv, Waiting, Writing, Moving, Undoes, Temporary, At,
     Undos, Replacing
<1>11. QED
  BY <1>6, <1>10 DEF CleanupInv, JobInv

LEMMA CompleteKept ==
    ASSUME CleanupInv, complete_cleanup
    PROVE  CleanupInv'
<1>1. /\ job # Idle /\ job.at = "move" /\ Mine.status = "project_state_updated" /\ job' = Idle
  BY DEF complete_cleanup, At, Done, CleanupInv, Moving, MovedSoFar
<1>2. Record(job.op, "completed") /\ UNCHANGED <<spare, quarantine, backups, left>>
  BY DEF complete_cleanup, dirvars
<1>3. job.op \in Operations /\ job.op <= Started /\ Unfinished(job.op)
  BY <1>1, OwnFacts DEF Unfinished, Mine
<1>4. Typed' /\ Numbered' /\ Journaled' /\ Distinct'
  BY <1>1, <1>2, <1>3, RecordKeeps
<1>5. QED
  BY <1>1, <1>4, IdleJob DEF CleanupInv, JobInv

LEMMA RollbackRecordedKept ==
    ASSUME CleanupInv, rollback_recorded
    PROVE  CleanupInv'
<1>1. /\ job # Idle /\ job.at = "undo_record" /\ job.undo \in Operations /\ Unfinished(job.undo)
      /\ (job.undo # job.op => Unborn(job.op)) /\ spare[job.op] = None
  BY DEF rollback_recorded, At, CleanupInv, Undoes, Undos, Temporary, Replacing
<1>2. /\ Record(job.undo, "rolled_back") /\ job' = AfterUndo
      /\ UNCHANGED <<gstate, spare, quarantine, backups, left>>
  BY DEF rollback_recorded, statevars, dirvars
<1>3. /\ job' = Idle
         \/ /\ JobRecord(job') /\ job' # Idle /\ job'.op = job.op /\ job'.at = "recover"
            /\ job.undo # job.op
  BY <1>1, <1>2, BackForm DEF AfterUndo, CleanupInv
<1>4. Typed' /\ Numbered' /\ Journaled' /\ Distinct'
  BY <1>1, <1>2, <1>3, UndoneFacts, RecordKeeps
<1>5. JobInv'
  <2>1. CASE job' = Idle
    BY <2>1, IdleJob
  <2>2. CASE job' # Idle
    <3>1. Unborn(job.op) /\ journals'[job.op] = journals[job.op]
      BY <1>1, <1>2, <1>3, <2>2, RecordFacts, OwnFacts
    <3>2. Unborn(job.op)'
      BY <1>2, <1>3, <2>2, <3>1 DEF Unborn, NothingMoved
    <3>3. QED
      BY <1>1, <1>2, <1>3, <2>2, <3>2 DEF JobInv, Waiting, Writing, Moving, Undoes, Temporary, At,
         Undos, Replacing
  <2>3. QED
    BY <2>1, <2>2
<1>6. QED
  BY <1>4, <1>5 DEF CleanupInv, JobInv

(***************************************************************************)
(* The temporary file comes and goes.                                      *)
(***************************************************************************)
LEMMA SpareKeeps ==
    ASSUME CleanupInv, job # Idle, NEW new, spare' = [spare EXCEPT ![job.op] = new],
           UNCHANGED <<quarantine, journals, backups>>, Bounded',
           left'["cleanups"] = left["cleanups"],
           job' = Idle \/ (JobRecord(job') /\ job' # Idle /\ job'.op = job.op)
    PROVE  /\ Typed' /\ Numbered' /\ Journaled' /\ Distinct' /\ spare'[job.op] = new
           /\ \A o \in Operations : o # job.op => spare'[o] = spare[o]
<1>1. job.op \in Operations /\ job.op = Started /\ Started \in Int
  BY OwnFacts
<1>2. /\ spare' = [o \in Operations |-> spare'[o]] /\ spare'[job.op] = new
      /\ \A o \in Operations : o # job.op => spare'[o] = spare[o]
  BY <1>1 DEF CleanupInv, Typed
<1>3. Typed'
  BY <1>2 DEF CleanupInv, Typed, Bounded
<1>4. Numbered'
  <2>1. Started' = Started
    BY DEF Started
  <2>2. \A o \in Operations : o > Started => o # job.op
    BY <1>1, Numbers
  <2>3. QED
    BY <1>2, <2>1, <2>2 DEF CleanupInv, Numbered, Unborn, NothingMoved
<1>5. QED
  BY <1>2, <1>3, <1>4, FilesKept

LEMMA UpdateBeginKept ==
    ASSUME CleanupInv, update_begin
    PROVE  CleanupInv'
<1>1. /\ job # Idle /\ job.at = "unlink" /\ Mine.status = "backed_up" /\ NothingMoved(job.op)
      /\ Mine.updated # None
  BY DEF update_begin, At, CleanupInv, Writing
<1>2. /\ gstate' = None /\ spare' = [spare EXCEPT ![job.op] = Mine.updated] /\ Goto("link")
      /\ UNCHANGED <<quarantine, journals, backups, left>>
  BY DEF update_begin, replace_begin, dirvars
<1>3. JobRecord(job') /\ job' # Idle /\ job'.op = job.op /\ job'.at = "link"
  BY <1>1, <1>2, GotoForm DEF Goto, CleanupInv
<1>4. Typed' /\ Numbered' /\ Journaled' /\ Distinct' /\ spare'[job.op] = Mine.updated
  BY <1>1, <1>2, <1>3, BoundKept, SpareKeeps
<1>5. Mine' = Mine
  BY <1>2, <1>3 DEF Mine
<1>6. JobInv'
  BY <1>1, <1>2, <1>3, <1>4, <1>5 DEF JobInv, Waiting, Writing, Moving, Undoes, Temporary, At,
     Undos, Replacing, NothingMoved
<1>7. QED
  BY <1>4, <1>6 DEF CleanupInv, JobInv

LEMMA UpdateEndKept ==
    ASSUME CleanupInv, update_end
    PROVE  CleanupInv'
<1>1. /\ job # Idle /\ job.at = "link" /\ Mine.status = "backed_up" /\ NothingMoved(job.op)
      /\ spare[job.op] = Mine.updated
  BY DEF update_end, At, CleanupInv, Writing
<1>2. /\ gstate' = spare[job.op] /\ spare' = [spare EXCEPT ![job.op] = None] /\ Goto("updated")
      /\ UNCHANGED <<quarantine, journals, backups, left>>
  BY DEF update_end, replace_end, Unlinked, dirvars
<1>3. JobRecord(job') /\ job' # Idle /\ job'.op = job.op /\ job'.at = "updated"
  BY <1>1, <1>2, GotoForm DEF Goto, CleanupInv
<1>4. Typed' /\ Numbered' /\ Journaled' /\ Distinct' /\ spare'[job.op] = None
  BY <1>1, <1>2, <1>3, BoundKept, SpareKeeps
<1>5. Mine' = Mine
  BY <1>2, <1>3 DEF Mine
<1>6. JobInv'
  BY <1>1, <1>2, <1>3, <1>4, <1>5 DEF JobInv, Waiting, Writing, Moving, Undoes, Temporary, At,
     Undos, Replacing, NothingMoved
<1>7. QED
  BY <1>4, <1>6 DEF CleanupInv, JobInv

LEMMA RollbackReplacedKept ==
    ASSUME CleanupInv, rollback_replaced
    PROVE  CleanupInv'
<1>1. /\ job # Idle /\ job.at = "undo_link" /\ job.undo \in Operations /\ Unfinished(job.undo)
      /\ (job.undo # job.op => Unborn(job.op)) /\ NothingMoved(job.undo)
      /\ spare[job.op] = Undone.original
  BY DEF rollback_replaced, At, CleanupInv, Undoes, Undos
<1>2. /\ gstate' = spare[job.op] /\ spare' = [spare EXCEPT ![job.op] = None]
      /\ Goto("undo_record") /\ UNCHANGED <<quarantine, journals, backups, left>>
  BY DEF rollback_replaced, replace_end, Unlinked, dirvars
<1>3. /\ JobRecord(job') /\ job' # Idle /\ job'.op = job.op /\ job'.at = "undo_record"
      /\ job'.undo = job.undo
  BY <1>1, <1>2, GotoForm DEF Goto, CleanupInv
<1>4. Typed' /\ Numbered' /\ Journaled' /\ Distinct' /\ spare'[job.op] = None
  BY <1>1, <1>2, <1>3, BoundKept, SpareKeeps
<1>5. Undone' = Undone
  BY <1>2, <1>3 DEF Undone
<1>6. JobInv'
  BY <1>1, <1>2, <1>3, <1>4, <1>5 DEF JobInv, Waiting, Writing, Moving, Undoes, Temporary, At,
     Undos, Replacing, NothingMoved, Unborn, Unfinished
<1>7. QED
  BY <1>4, <1>6 DEF CleanupInv, JobInv

LEMMA RollbackFailsKept ==
    ASSUME CleanupInv, rollback_fails
    PROVE  CleanupInv'
<1>1. job # Idle /\ job' = Idle /\ UNCHANGED <<quarantine, journals, backups>>
      /\ Bounded' /\ left'["cleanups"] = left["cleanups"]
  BY FaultKept DEF rollback_fails, Done, dirvars
<1>2. CASE UNCHANGED spare
  BY <1>1, <1>2, StopKeeps
<1>3. CASE spare' = [spare EXCEPT ![job.op] = None]
  BY <1>1, <1>3, SpareKeeps, IdleJob DEF CleanupInv, JobInv
<1>4. QED
  BY <1>2, <1>3 DEF rollback_fails, Unlinked

LEMMA RepairReplacedKept ==
    ASSUME CleanupInv, repair_replaced
    PROVE  CleanupInv'
<1>1. job # Idle /\ job' = Idle /\ UNCHANGED <<quarantine, journals, backups>>
      /\ Bounded' /\ left'["cleanups"] = left["cleanups"]
      /\ spare' = [spare EXCEPT ![job.op] = None]
  BY BoundKept DEF repair_replaced, Done, dirvars, At, Unlinked
<1>2. QED
  BY <1>1, SpareKeeps, IdleJob DEF CleanupInv, JobInv

LEMMA RemoveEmptyKept ==
    ASSUME CleanupInv, remove_empty_codex_projects
    PROVE  CleanupInv'
<1>1. /\ job # Idle /\ job.at = "repair" /\ Unborn(job.op)
      /\ UNCHANGED <<quarantine, journals, backups, left>>
  BY DEF remove_empty_codex_projects, At, CleanupInv, Waiting, dirvars
<1>2. CASE Done /\ UNCHANGED statevars
  BY <1>1, <1>2, BoundKept, StopKeeps DEF Done, statevars
<1>3. CASE replace_begin(Updated(EmptyProjects), "install")
  <2>1. spare' = [spare EXCEPT ![job.op] = Updated(EmptyProjects)] /\ Goto("install")
    BY <1>3 DEF replace_begin
  <2>2. JobRecord(job') /\ job' # Idle /\ job'.op = job.op /\ job'.at = "install"
    BY <1>1, <2>1, GotoForm DEF Goto, CleanupInv
  <2>3. Typed' /\ Numbered' /\ Journaled' /\ Distinct'
    BY <1>1, <2>1, <2>2, BoundKept, SpareKeeps
  <2>4. JobInv'
    BY <1>1, <2>2 DEF JobInv, Waiting, Writing, Moving, Undoes, Temporary, At,
       Undos, Replacing, NothingMoved, Unborn
  <2>5. QED
    BY <2>3, <2>4 DEF CleanupInv, JobInv
<1>4. QED
  BY <1>2, <1>3 DEF remove_empty_codex_projects

LEMMA CleanupFailsKept ==
    ASSUME CleanupInv, cleanup_fails
    PROVE  CleanupInv'
<1>1. /\ job # Idle
      /\ job.at \in {"backup", "unlink", "link", "updated", "move", "rename"}
      /\ job' = Undoing(job.op) /\ UNCHANGED <<gstate, quarantine, journals, backups>>
      /\ Bounded' /\ left'["cleanups"] = left["cleanups"]
  BY FaultKept DEF cleanup_fails, dirvars
<1>2. Unfinished(job.op) /\ job.op \in Operations
  BY <1>1, OwnFacts DEF CleanupInv, Writing, Moving, MovedSoFar, At, Unfinished, Mine
<1>3. /\ JobRecord(job') /\ job' # Idle /\ job'.op = job.op /\ job'.at = "undo_move"
      /\ job'.undo = job.op /\ job'.todo = journals[job.op].planned
  <2> DEFINE o == job.op
             todo == journals[o].planned
  <2>1. job' = [job EXCEPT !.at = "undo_move", !.undo = o, !.todo = todo] /\ Typed
        /\ job # Idle
    BY <1>1 DEF Undoing, CleanupInv
  <2> HIDE DEF o, todo
  <2>2. /\ JobRecord(job') /\ job' # Idle /\ job'.op = job.op /\ job'.at = "undo_move"
        /\ job'.undo = o /\ job'.todo = todo
    BY <2>1, UndoForm
  <2>3. QED
    BY <2>2 DEF o, todo
<1>4. \A d \in quarantine : d.op = job.op => d.path \in journals[job.op].planned
  BY <1>2 DEF CleanupInv, Journaled, JournalOK
<1>5. Typed' /\ Numbered' /\ Journaled' /\ Distinct' /\ spare'[job.op] = None
  <2>1. CASE job.at = "link"
    <3>1. spare' = [spare EXCEPT ![job.op] = None]
      BY <1>1, <2>1 DEF cleanup_fails, At, Unlinked
    <3>2. QED
      BY <1>1, <1>3, <3>1, SpareKeeps
  <2>2. CASE job.at # "link"
    <3>1. spare' = spare /\ spare[job.op] = None
      BY <1>1, <2>2 DEF cleanup_fails, At, CleanupInv, Temporary, Replacing
    <3>2. spare' = [spare EXCEPT ![job.op] = None]
      BY <1>2, <3>1 DEF CleanupInv, Typed
    <3>3. QED
      BY <1>1, <1>3, <3>2, SpareKeeps
  <2>3. QED
    BY <2>1, <2>2
<1>6. JobInv'
  BY <1>1, <1>2, <1>3, <1>4, <1>5 DEF JobInv, Waiting, Writing, Moving, Undoes, Temporary, At,
     Undos, Replacing, Unfinished
<1>7. QED
  BY <1>5, <1>6 DEF CleanupInv, JobInv

(***************************************************************************)
(* Directories are moved and moved back.                                   *)
(***************************************************************************)
LEMMA QuarantineKeeps ==
    ASSUME CleanupInv, job # Idle, UNCHANGED <<spare, journals, backups, left>>,
           \A d \in quarantine' : d \in quarantine \/ d.op = job.op,
           Unfinished(job.op) \/ quarantine' \subseteq quarantine,
           \A d \in quarantine' : d \notin quarantine =>
             d.path \in journals[job.op].planned /\ Quarantined(job.op, d.path) = {},
           \A d, e \in quarantine' : d \notin quarantine /\ e \notin quarantine => d = e,
           job' = Idle \/ (JobRecord(job') /\ job' # Idle /\ job'.op = job.op)
    PROVE  Typed' /\ Numbered' /\ Journaled' /\ Distinct'
<1>1. Typed'
  BY DEF CleanupInv, Typed
<1>2. Numbered'
  <2>1. job.op = Started /\ Started \in Int /\ Started' = Started
    BY OwnFacts DEF Started
  <2>2. \A o \in Operations : o > Started => o # job.op
    BY <2>1, Numbers
  <2>3. QED
    BY <2>1, <2>2 DEF CleanupInv, Numbered, Unborn, NothingMoved
<1>3. Journaled'
  BY DEF CleanupInv, Journaled, JournalOK, Unfinished
<1>4. Distinct'
  <2>1. \A d, e \in quarantine' : d \in quarantine /\ e \notin quarantine =>
          ~ (d.op = e.op /\ d.path = e.path)
    BY DEF Quarantined
  <2>2. \A d, e \in quarantine' : d.op = e.op /\ d.path = e.path =>
          (d \in quarantine <=> e \in quarantine)
    BY <2>1
  <2>3. QED
    BY <2>2 DEF CleanupInv, Distinct
<1>5. QED
  BY <1>1, <1>2, <1>3, <1>4

LEMMA MoveCheckKept ==
    ASSUME CleanupInv, move_check
    PROVE  CleanupInv'
<1>1. /\ job # Idle /\ job.at = "move" /\ spare[job.op] = None
      /\ MovedSoFar(Mine.planned \ job.todo)
      /\ (\A d \in quarantine : d.op = job.op => IsEmpty(d))
      /\ UNCHANGED <<gstate, spare, quarantine, journals, backups, left>>
  BY DEF move_check, At, CleanupInv, Moving, Temporary, Replacing, statevars, dirvars
<1>2. Unfinished(job.op) /\ job.op \in Operations
  BY <1>1, OwnFacts DEF MovedSoFar, Unfinished, Mine
<1>3. PICK p \in job.todo : job' = [job EXCEPT !.at = "rename", !.path = p] \/ job' = Undoing(job.op)
  BY DEF move_check
<1>4. CASE job' = Undoing(job.op)
  BY <1>1, <1>2, <1>4, UndoKeeps
<1>5. CASE job' = [job EXCEPT !.at = "rename", !.path = p]
  <2>1. /\ JobRecord(job') /\ job' # Idle /\ job'.op = job.op /\ job'.at = "rename"
        /\ job'.path = p /\ job'.todo = job.todo
    BY <1>1, <1>5, PathForm DEF CleanupInv
  <2>2. Mine' = Mine
    BY <1>1, <2>1 DEF Mine
  <2>3. MovedSoFar(Mine.planned \ job.todo)'
    BY <1>1, <2>1, <2>2 DEF MovedSoFar, Quarantined
  <2>4. \A d \in quarantine' : d.op = job'.op => IsEmpty(d)
    BY <1>1, <2>1
  <2>5. JobInv'
    BY <1>1, <1>3, <2>1, <2>3, <2>4 DEF JobInv, Waiting, Writing, Moving, Undoes, Temporary, At,
       Undos, Replacing
  <2>6. QED
    BY <1>1, <2>1, <2>5, JobMoves DEF CleanupInv, JobInv
<1>6. QED
  BY <1>3, <1>4, <1>5

LEMMA MoveRenameKept ==
    ASSUME CleanupInv, move_rename
    PROVE  CleanupInv'
<1> DEFINE new == [op |-> job.op, path |-> job.path, dirs |-> present \cap Below(job.path),
                   files |-> filled \cap Below(job.path)]
<1>1. /\ job # Idle /\ job.at = "rename" /\ spare[job.op] = None /\ job.path \in job.todo
      /\ MovedSoFar(Mine.planned \ job.todo)
      /\ \A d \in quarantine : d.op = job.op => IsEmpty(d)
  BY DEF move_rename, At, CleanupInv, Moving, Temporary, Replacing
<1>2. /\ quarantine' = quarantine \cup {new} /\ new.op = job.op /\ new.path = job.path
      /\ UNCHANGED <<gstate, spare, journals, backups, left>> /\ Goto("verify")
  BY DEF move_rename, statevars
<1> HIDE DEF new
<1>3. Unfinished(job.op) /\ job.op \in Operations /\ job.path \in journals[job.op].planned
  BY <1>1, OwnFacts DEF MovedSoFar, Unfinished, Mine
<1>4. Quarantined(job.op, job.path) = {}
  BY <1>1 DEF MovedSoFar
<1>5. /\ JobRecord(job') /\ job' # Idle /\ job'.op = job.op /\ job'.at = "verify"
      /\ job'.path = job.path /\ job'.todo = job.todo
  BY <1>1, <1>2, GotoForm DEF Goto, CleanupInv
<1>6. Typed' /\ Numbered' /\ Journaled' /\ Distinct'
  BY <1>1, <1>2, <1>3, <1>4, <1>5, QuarantineKeeps
<1>7. Mine' = Mine
  BY <1>2, <1>5 DEF Mine
<1>8. \A p : Quarantined(job.op, p)' # {} <=> Quarantined(job.op, p) # {} \/ p = job.path
  BY <1>2, <1>5 DEF Quarantined
<1>9. MovedSoFar((Mine.planned \ job.todo) \cup {job.path})'
  BY <1>1, <1>2, <1>5, <1>7, <1>8 DEF MovedSoFar
<1>10. \A d \in quarantine' : d.op = job'.op /\ d.path # job'.path => IsEmpty(d)
  BY <1>1, <1>2, <1>5
<1>11. JobInv'
  BY <1>1, <1>2, <1>5, <1>9, <1>10 DEF JobInv, Waiting, Writing, Moving, Undoes, Temporary, At,
     Undos, Replacing
<1>12. QED
  BY <1>6, <1>11 DEF CleanupInv, JobInv

LEMMA MoveVerifyKept ==
    ASSUME CleanupInv, move_verify
    PROVE  CleanupInv'
<1>1. /\ job # Idle /\ job.at = "verify" /\ spare[job.op] = None /\ job.path \in job.todo
      /\ MovedSoFar((Mine.planned \ job.todo) \cup {job.path})
      /\ (\A d \in quarantine : d.op = job.op /\ d.path # job.path => IsEmpty(d))
      /\ UNCHANGED <<gstate, spare, journals, backups, left>>
  BY DEF move_verify, At, CleanupInv, Moving, Temporary, Replacing, statevars
<1>2. Unfinished(job.op) /\ job.op \in Operations
  BY <1>1, OwnFacts DEF MovedSoFar, Unfinished, Mine
<1>3. PICK d \in Quarantined(job.op, job.path) :
        \/ /\ IsEmpty(d) /\ job' = [job EXCEPT !.at = "move", !.todo = @ \ {job.path}]
           /\ UNCHANGED dirvars
        \/ MoveBack(d) /\ job' = Undoing(job.op)
        \/ job' = Undoing(job.op) /\ UNCHANGED dirvars
  BY DEF move_verify
<1>4. CASE /\ IsEmpty(d) /\ job' = [job EXCEPT !.at = "move", !.todo = @ \ {job.path}]
           /\ UNCHANGED dirvars
  <2> DEFINE rest == job.todo \ {job.path}
  <2>1. job' = [job EXCEPT !.at = "move", !.todo = rest] /\ UNCHANGED quarantine
    BY <1>4 DEF dirvars
  <2>2. /\ JobRecord(job') /\ job' # Idle /\ job'.op = job.op /\ job'.at = "move"
        /\ job'.todo = rest
    <3> HIDE DEF rest
    <3>1. QED
      BY <1>1, <2>1, NextForm DEF CleanupInv
  <2>3. Mine' = Mine
    BY <1>1, <2>2 DEF Mine
  <2>4. job.todo \subseteq Mine.planned
    BY <1>1 DEF MovedSoFar
  <2>5. Mine.planned \ rest = (Mine.planned \ job.todo) \cup {job.path}
    BY <1>1, <2>4
  <2>6. MovedSoFar(Mine.planned \ job.todo)'
    BY <1>1, <2>1, <2>2, <2>3, <2>5 DEF MovedSoFar, Quarantined
  <2>7. \A e \in quarantine' : e.op = job'.op => IsEmpty(e)
    <3>1. \A e \in quarantine : e.op = job.op /\ e.path = job.path => e = d
      BY DEF CleanupInv, Distinct, Quarantined
    <3>2. QED
      BY <1>1, <1>4, <2>1, <2>2, <3>1
  <2>8. JobInv'
    BY <1>1, <2>1, <2>2, <2>6, <2>7 DEF JobInv, Waiting, Writing, Moving, Undoes, Temporary, At,
       Undos, Replacing
  <2>9. QED
    BY <1>1, <2>1, <2>2, <2>8, JobMoves DEF CleanupInv, JobInv
<1>5. CASE job' = Undoing(job.op) /\ quarantine' \subseteq quarantine
  <2> DEFINE o == job.op
             todo == journals[o].planned
  <2>1. job' = [job EXCEPT !.at = "undo_move", !.undo = o, !.todo = todo] /\ Typed
    BY <1>5 DEF Undoing, CleanupInv
  <2>2. /\ JobRecord(job') /\ job' # Idle /\ job'.op = job.op /\ job'.at = "undo_move"
        /\ job'.undo = o /\ job'.todo = todo
    <3> HIDE DEF o, todo
    <3>1. QED
      BY <1>1, <2>1, UndoForm
  <2>3. \A e \in quarantine : e.op = o => e.path \in todo
    BY <1>2 DEF CleanupInv, Journaled, JournalOK
  <2>4. Typed' /\ Numbered' /\ Journaled' /\ Distinct'
    BY <1>1, <1>5, <2>2, QuarantineKeeps
  <2>5. JobInv'
    BY <1>1, <1>2, <1>5, <2>2, <2>3 DEF JobInv, Waiting, Writing, Moving, Undoes, Temporary, At,
       Undos, Replacing, Unfinished
  <2>6. QED
    BY <2>4, <2>5 DEF CleanupInv, JobInv
<1>6. QED
  BY <1>3, <1>4, <1>5 DEF MoveBack, dirvars

LEMMA RollbackMoveKept ==
    ASSUME CleanupInv, rollback_move
    PROVE  CleanupInv'
<1>1. /\ job # Idle /\ job.at = "undo_move" /\ job.undo \in Operations /\ Unfinished(job.undo)
      /\ (job.undo # job.op => Unborn(job.op)) /\ spare[job.op] = None
      /\ (\A d \in quarantine : d.op = job.undo => d.path \in job.todo)
      /\ UNCHANGED <<gstate, spare, journals, backups, left>>
  BY DEF rollback_move, At, CleanupInv, Undoes, Undos, Temporary, Replacing, statevars
<1>2. PICK p \in job.todo :
        \/ /\ Quarantined(job.undo, p) = {} /\ job' = [job EXCEPT !.todo = @ \ {p}]
           /\ UNCHANGED dirvars
        \/ Done /\ UNCHANGED dirvars
        \/ \E d \in Quarantined(job.undo, p) :
             MoveBack(d) /\ job' = [job EXCEPT !.todo = @ \ {p}]
  BY DEF rollback_move
<1>3. CASE Done /\ UNCHANGED dirvars
  BY <1>1, <1>3, BoundKept, StopKeeps DEF Done, dirvars
<1>4. ASSUME job' = [job EXCEPT !.todo = @ \ {p}], quarantine' \subseteq quarantine,
             \A d \in quarantine' : d.op = job.undo => d.path # p
      PROVE  CleanupInv'
  <2> DEFINE rest == job.todo \ {p}
  <2>1. job' = [job EXCEPT !.todo = rest]
    BY <1>4
  <2>2. /\ JobRecord(job') /\ job' # Idle /\ job'.op = job.op /\ job'.at = "undo_move"
        /\ job'.undo = job.undo /\ job'.todo = rest
    <3> HIDE DEF rest
    <3>1. QED
      BY <1>1, <2>1, TodoForm DEF CleanupInv
  <2>3. \A d \in quarantine' : d.op = job.undo => d.path \in rest
    BY <1>1, <1>4
  <2>4. Typed' /\ Numbered' /\ Journaled' /\ Distinct'
    BY <1>1, <1>4, <2>2, QuarantineKeeps
  <2>5. JobInv'
    BY <1>1, <1>4, <2>2, <2>3 DEF JobInv, Waiting, Writing, Moving, Undoes, Temporary, At,
       Undos, Replacing, Unfinished, Unborn, NothingMoved
  <2>6. QED
    BY <2>4, <2>5 DEF CleanupInv, JobInv
<1>5. CASE /\ Quarantined(job.undo, p) = {} /\ job' = [job EXCEPT !.todo = @ \ {p}]
           /\ UNCHANGED dirvars
  <2>1. UNCHANGED quarantine /\ \A d \in quarantine : d.op = job.undo => d.path # p
    BY <1>5 DEF Quarantined, dirvars
  <2>2. QED
    BY <1>4, <1>5, <2>1
<1>6. CASE \E d \in Quarantined(job.undo, p) :
             MoveBack(d) /\ job' = [job EXCEPT !.todo = @ \ {p}]
  <2>1. PICK d \in Quarantined(job.undo, p) :
          quarantine' = quarantine \ {d} /\ job' = [job EXCEPT !.todo = @ \ {p}]
    BY <1>6 DEF MoveBack
  <2>2. \A e \in quarantine : e.op = job.undo /\ e.path = p => e = d
    BY DEF CleanupInv, Distinct, Quarantined
  <2>3. QED
    BY <1>4, <2>1, <2>2
<1>7. QED
  BY <1>2, <1>3, <1>5, <1>6

LEMMA RollbackStateKept ==
    ASSUME CleanupInv, rollback_state
    PROVE  CleanupInv'
<1>1. /\ job # Idle /\ job.at = "undo_move" /\ job.undo \in Operations /\ Unfinished(job.undo)
      /\ (job.undo # job.op => Unborn(job.op)) /\ spare[job.op] = None /\ NothingMoved(job.undo)
      /\ UNCHANGED <<quarantine, journals, backups, left>>
  BY DEF rollback_state, At, CleanupInv, Undoes, Undos, Temporary, Replacing, dirvars, NothingMoved
<1>2. backups[job.undo] # None => backups[job.undo] = Undone.original
  BY <1>1 DEF CleanupInv, Journaled, JournalOK, Undone
<1>3. CASE Done /\ UNCHANGED statevars
  BY <1>1, <1>3, BoundKept, StopKeeps DEF Done, statevars
<1>4. CASE /\ Goto("undo_record") /\ UNCHANGED spare
           /\ Undone.updated # None => gstate' = Undone.original
  <2>1. /\ JobRecord(job') /\ job' # Idle /\ job'.op = job.op /\ job'.at = "undo_record"
        /\ job'.undo = job.undo
    BY <1>1, <1>4, GotoForm DEF Goto, CleanupInv
  <2>2. Undone' = Undone
    BY <1>1, <2>1 DEF Undone
  <2>3. JobInv'
    BY <1>1, <1>4, <2>1, <2>2 DEF JobInv, Waiting, Writing, Moving, Undoes, Temporary, At,
       Undos, Replacing, Unfinished, Unborn, NothingMoved
  <2>4. QED
    BY <1>1, <1>4, <2>1, <2>3, JobMoves DEF CleanupInv, JobInv
<1>5. CASE /\ Undone.updated # None /\ backups[job.undo] # None
           /\ replace_begin(Undone.original, "undo_link")
  <2>1. /\ gstate' = None /\ spare' = [spare EXCEPT ![job.op] = Undone.original]
        /\ Goto("undo_link")
    BY <1>5 DEF replace_begin
  <2>2. /\ JobRecord(job') /\ job' # Idle /\ job'.op = job.op /\ job'.at = "undo_link"
        /\ job'.undo = job.undo
    BY <1>1, <2>1, GotoForm DEF Goto, CleanupInv
  <2>3. Typed' /\ Numbered' /\ Journaled' /\ Distinct' /\ spare'[job.op] = Undone.original
    BY <1>1, <2>1, <2>2, BoundKept, SpareKeeps
  <2>4. Undone' = Undone
    BY <1>1, <2>2 DEF Undone
  <2>5. JobInv'
    BY <1>1, <1>2, <1>5, <2>1, <2>2, <2>3, <2>4 DEF JobInv, Waiting, Writing, Moving, Undoes,
       Temporary, At, Undos, Replacing, Unfinished, Unborn, NothingMoved
  <2>6. QED
    BY <2>3, <2>5 DEF CleanupInv, JobInv
<1>6. QED
  BY <1>3, <1>4, <1>5 DEF rollback_state, statevars

LEMMA AroundKept ==
    ASSUME CleanupInv, Around PROVE CleanupInv'
<1>1. CASE CodexSaves
  BY <1>1, SavesKept
<1>2. ASSUME NEW what \in {"edits", "rules"}, Spend(what),
             UNCHANGED <<statevars, quarantine, journals, backups, job>>
      PROVE  CleanupInv'
  <2>1. Bounded' /\ left'["cleanups"] = left["cleanups"]
    BY <1>2, FaultKept
  <2>2. QED
    BY <1>2, <2>1, CalmKeeps DEF statevars
<1>3. ASSUME NEW p \in Local, UserMakes(p) \/ UserFills(p) PROVE CleanupInv'
  BY <1>2, <1>3 DEF UserMakes, UserFills
<1>4. ASSUME NEW r \in Offered, create_mapping(r) \/ delete_mapping(r) PROVE CleanupInv'
  BY <1>2, <1>4 DEF create_mapping, delete_mapping, dirvars
<1>5. ASSUME NEW head \in Heads, NEW S \in SUBSET Offered, create_automatic(head, S)
      PROVE  CleanupInv'
  BY <1>2, <1>5 DEF create_automatic
<1>6. QED
  BY <1>1, <1>3, <1>4, <1>5 DEF Around

LEMMA CleanupStep == CleanupInv /\ [Next]_vars => CleanupInv'
<1> SUFFICES ASSUME CleanupInv, [Next]_vars PROVE CleanupInv'
  OBVIOUS
<1>1. CASE Cleanup
  BY <1>1, StartKept, RecoverKept, PlanKept, BackupKept, UpdateBeginKept, UpdateEndKept,
     RecordedKept, MoveCheckKept, MoveRenameKept, MoveVerifyKept, CompleteKept,
     CleanupFailsKept, RollbackMoveKept, RollbackStateKept, RollbackReplacedKept,
     RollbackRecordedKept, RollbackFailsKept DEF Cleanup
<1>2. CASE Repair
  BY <1>2, MutateKept, DeleteRowKept, RepairKept, RemoveEmptyKept, RepairReplacedKept DEF Repair
<1>3. CASE UNCHANGED vars
  BY <1>3, BoundKept, CalmKeeps DEF vars, statevars, dirvars
<1>4. QED
  BY <1>1, <1>2, <1>3, AroundKept, StopKept, DeleteBackupKept DEF Next

LEMMA CleanupInit == Init => CleanupInv
<1> SUFFICES ASSUME Init PROVE CleanupInv
  OBVIOUS
<1>1. job = Idle /\ quarantine = {} /\ \A o \in Operations : journals[o] = NoJournal
  BY DEF Init
<1>2. Typed
  BY Numbers, CleanupAssumption DEF Init, Typed
<1>3. Numbered
  BY <1>1 DEF Init, Numbered, Unborn, NothingMoved
<1>4. Journaled /\ Distinct
  BY <1>1 DEF Journaled, Unfinished, NoJournal, Distinct
<1>5. Waiting /\ Writing /\ Moving /\ Undoes /\ Temporary
  BY <1>1 DEF Waiting, Writing, Moving, Undoes, Temporary, At
<1>6. QED
  BY <1>2, <1>3, <1>4, <1>5 DEF CleanupInv

(***************************************************************************)
(* The inductive invariant of quarantine_empty_directories, its rollback   *)
(* and recovery, and the sidebar repair: what the journal of an unfinished *)
(* cleanup says of backup and quarantine, and what a job has done where it *)
(* stands.  It holds through failures, crashes and torn journal writes.    *)
(***************************************************************************)
THEOREM CleanupInvariant == Spec => []CleanupInv
<1>1. QED
  BY CleanupInit, CleanupStep, PTL DEF Spec

(***************************************************************************)
(* All or nothing.                                                         *)
(***************************************************************************)
\* A journal is finished by the last step of a cleanup or of a rollback.
LEMMA Finishes ==
    ASSUME CleanupInv, [Next]_vars, NEW o \in Operations, Unfinished(o),
           journals'[o].status \in {"completed", "rolled_back"}
    PROVE  \/ complete_cleanup /\ job.op = o /\ journals'[o].status = "completed"
           \/ rollback_recorded /\ job.undo = o /\ journals'[o].status = "rolled_back"
<1>1. journals'[o] # journals[o]
  BY DEF Unfinished
<1>2. CASE complete_cleanup
  <2>1. Record(job.op, "completed") /\ job.op \in Operations
    BY <1>2, OwnFacts DEF complete_cleanup, At
  <2>2. journals' = [journals EXCEPT ![job.op] = [journals[job.op] EXCEPT !.status = "completed"]]
    BY <2>1 DEF Record
  <2>3. job.op = o
    BY <1>1, <2>1, <2>2 DEF CleanupInv, Typed
  <2>4. journals'[o].status = "completed"
    BY <2>1, <2>3, RecordFacts
  <2>5. QED
    BY <1>2, <2>3, <2>4
<1>3. CASE rollback_recorded
  <2>1. Record(job.undo, "rolled_back") /\ job.undo \in Operations
    BY <1>3 DEF rollback_recorded, At, CleanupInv, Undoes, Undos
  <2>2. journals' = [journals EXCEPT ![job.undo] = [journals[job.undo] EXCEPT !.status = "rolled_back"]]
    BY <2>1 DEF Record
  <2>3. job.undo = o
    BY <1>1, <2>1, <2>2 DEF CleanupInv, Typed
  <2>4. journals'[o].status = "rolled_back"
    BY <2>1, <2>3, RecordFacts
  <2>5. QED
    BY <1>3, <2>3, <2>4
<1>4. ASSUME back_up_global_state \/ update_recorded PROVE FALSE
  <2>1. PICK status \in {"backed_up", "project_state_updated"} : Record(job.op, status)
    BY <1>4 DEF back_up_global_state, update_recorded
  <2>2. job.op \in Operations /\ Unfinished(job.op)
    BY <1>4, OwnFacts DEF back_up_global_state, update_recorded, At, CleanupInv, Writing, Mine,
       Unfinished
  <2>3. journals'[job.op].status = status /\ \A x \in Operations : x # job.op => journals'[x] = journals[x]
    BY <2>1, <2>2, RecordFacts
  <2>4. QED
    BY <1>1, <2>3
<1>5. ASSUME plan_cleanup PROVE FALSE
  <2>1. job.op \in Operations /\ journals[job.op] = NoJournal
    BY <1>5, OwnFacts DEF plan_cleanup, At, CleanupInv, Waiting, Unborn
  <2>2. job.op # o
    BY <2>1 DEF Unfinished, NoJournal
  <2>3. QED
    BY <1>1, <1>5, <2>2 DEF plan_cleanup, CleanupInv, Typed
<1>6. ASSUME Stop PROVE FALSE
  <2>1. journals'[o] \in {journals[o], NoJournal}
    BY <1>6 DEF Stop, AfterTornWrite, CleanupInv, Typed
  <2>2. QED
    BY <1>1, <2>1 DEF NoJournal
<1>7. CASE UNCHANGED journals
  BY <1>1, <1>7
<1>8. CASE Around \/ Repair \/ UNCHANGED vars \/ \E x \in Operations : delete_backup(x)
  <2>1. UNCHANGED journals
    BY <1>8 DEF Around, CodexSaves, UserMakes, UserFills, create_mapping, delete_mapping,
       create_automatic, Repair, mutate_thread, delete_row, repair_codex_sidebar,
       remove_empty_codex_projects, repair_replaced, delete_backup, vars
  <2>2. QED
    BY <1>1, <2>1
<1>9. CASE Cleanup
  <2>1. \/ complete_cleanup \/ rollback_recorded \/ back_up_global_state \/ update_recorded
        \/ plan_cleanup \/ UNCHANGED journals
    BY <1>9 DEF Cleanup, start_cleanup, recover_incomplete_workspace_cleanups, update_begin,
       update_end, move_check, move_rename, move_verify, cleanup_fails, rollback_move,
       rollback_state, rollback_replaced, rollback_fails
  <2>2. QED
    BY <1>2, <1>3, <1>4, <1>5, <1>7, <2>1
<1>10. QED
  BY <1>6, <1>8, <1>9 DEF Next

(***************************************************************************)
(* A cleanup is journaled as completed when it moved exactly the planned   *)
(* directories, all of them empty, and left the planned global state; as   *)
(* rolled back when nothing of it is in the quarantine and the global      *)
(* state is the one it found: whatever the user's programs write between   *)
(* the checks and renames of move_empty_directory, wherever a call fails   *)
(* or the application dies.                                                *)
(***************************************************************************)
THEOREM CleanupsAreAtomic == Spec => CleanupIsAllOrNothing
<1>1. CleanupInv /\ [Next]_vars =>
        \A o \in Operations : /\ Becomes(o, "completed") => MovedAll(o)
                              /\ Becomes(o, "rolled_back") => MovedNone(o)
  <2> SUFFICES ASSUME CleanupInv, [Next]_vars, NEW o \in Operations
               PROVE  /\ Becomes(o, "completed") => MovedAll(o)
                      /\ Becomes(o, "rolled_back") => MovedNone(o)
    OBVIOUS
  <2>1. ASSUME Becomes(o, "completed") PROVE MovedAll(o)
    <3>1. complete_cleanup /\ job.op = o
      BY <2>1, Finishes DEF Becomes
    <3>2. /\ MovedSoFar(Mine.planned \ job.todo) /\ job.todo = {}
          /\ \A d \in quarantine : d.op = job.op => IsEmpty(d)
      BY <3>1 DEF complete_cleanup, At, CleanupInv, Moving
    <3>3. UNCHANGED <<quarantine, gstate>>
      BY <3>1 DEF complete_cleanup, dirvars
    <3>4. \A p : p \in journals[o].planned <=> Quarantined(o, p) # {}
      BY <3>1, <3>2 DEF MovedSoFar, Mine
    <3>5. {d.path : d \in {e \in quarantine : e.op = o}} = journals[o].planned
      BY <3>4 DEF Quarantined
    <3>6. QED
      BY <3>1, <3>2, <3>3, <3>5 DEF MovedAll, MovedSoFar, Mine
  <2>2. ASSUME Becomes(o, "rolled_back") PROVE MovedNone(o)
    <3>1. rollback_recorded /\ job.undo = o
      BY <2>2, Finishes DEF Becomes
    <3>2. NothingMoved(o) /\ (journals[o].updated # None => gstate = journals[o].original)
      BY <3>1 DEF rollback_recorded, At, CleanupInv, Undoes, Undone
    <3>3. UNCHANGED <<quarantine, gstate>>
      BY <3>1 DEF rollback_recorded, dirvars, statevars
    <3>4. QED
      BY <3>2, <3>3 DEF MovedNone, NothingMoved
  <2>3. QED
    BY <2>1, <2>2
<1>2. QED
  BY <1>1, CleanupInvariant, PTL DEF Spec, CleanupIsAllOrNothing

(***************************************************************************)
(* The global state survives.                                              *)
(***************************************************************************)
LEMMA SurvivesCalm ==
    ASSUME Survives, UNCHANGED <<gstate, spare, precious>>, InBackup \subseteq InBackup',
           \/ job' = job
           \/ job' = Idle
           \/ job'.at \notin Replacing
    PROVE  Survives'
  BY DEF Survives, At, InSpare, Replacing

LEMMA BackupsSame == ASSUME UNCHANGED <<journals, backups>> PROVE InBackup' = InBackup
  BY DEF InBackup, Unfinished

LEMMA BackupsGrow ==
    ASSUME NEW o \in Operations, \A x \in Operations : x # o => journals'[x] = journals[x] /\ backups'[x] = backups[x],
           Unfinished(o) => Unfinished(o)' /\ backups'[o] = backups[o]
    PROVE  InBackup \subseteq InBackup'
  BY DEF InBackup, Unfinished

\* No operation but the own one has its backup or its temporary file touched.
LEMMA SurvivesSteps ==
    ASSUME CleanupInv, Survives, Cleanup PROVE Survives'
<1>1. ASSUME UNCHANGED <<gstate, spare, precious, journals, backups>>,
             job' = Idle \/ job'.at \notin {"link", "undo_link", "install"}
      PROVE  Survives'
  BY <1>1, BackupsSame, SurvivesCalm DEF Replacing
<1>2. ASSUME NEW o, job # Idle, job' = Undoing(o),
             UNCHANGED <<gstate, spare, precious, journals, backups>> PROVE Survives'
  <2>1. job'.at = "undo_move"
    BY <1>2, UndoForm DEF Undoing, CleanupInv
  <2>2. QED
    BY <1>1, <1>2, <2>1
<1>3. ASSUME NEW asked, start_cleanup(asked) PROVE Survives'
  <2>1. job'.at = "recover"
    BY <1>3 DEF start_cleanup, Job
  <2>2. QED
    BY <1>1, <1>3, <2>1 DEF start_cleanup, statevars
<1>4. CASE recover_incomplete_workspace_cleanups
  <2>1. job # Idle /\ UNCHANGED <<gstate, spare, precious, journals, backups>>
    BY <1>4 DEF recover_incomplete_workspace_cleanups, At, statevars
  <2>2. ASSUME Goto("plan") PROVE job'.at = "plan"
    BY <2>1, <2>2, GotoForm DEF Goto, CleanupInv
  <2>3. QED
    BY <1>1, <1>2, <1>4, <2>1, <2>2 DEF recover_incomplete_workspace_cleanups
<1>5. CASE plan_cleanup
  <2>1. job # Idle /\ UNCHANGED <<gstate, spare, precious, backups>> /\ Unborn(job.op)
    BY <1>5 DEF plan_cleanup, At, statevars, CleanupInv, Waiting
  <2>2. job' = Idle \/ job'.at = "backup"
    BY <1>5, <2>1, GotoForm DEF plan_cleanup, Done, Goto, CleanupInv
  <2>3. ~ Unfinished(job.op) /\ job.op \in Operations
    BY <2>1, OwnFacts DEF Unborn, Unfinished, NoJournal
  <2>4. \A x \in Operations : x # job.op => journals'[x] = journals[x]
    BY <1>5, <2>3 DEF plan_cleanup, CleanupInv, Typed
  <2>5. InBackup \subseteq InBackup'
    BY <2>1, <2>3, <2>4, BackupsGrow
  <2>6. QED
    BY <2>1, <2>2, <2>5, SurvivesCalm DEF Replacing
<1>6. CASE back_up_global_state
  <2>1. /\ job # Idle /\ UNCHANGED <<gstate, spare, precious>> /\ spare[job.op] = None
        /\ Mine.status = "preparing" /\ Record(job.op, "backed_up")
        /\ backups' = [backups EXCEPT ![job.op] = Mine.original]
    BY <1>6 DEF back_up_global_state, At, statevars, CleanupInv, Temporary, Replacing, Writing
  <2>2. job'.at \in {"updated", "unlink"} /\ job' # Idle
    BY <1>6, <2>1, GotoForm DEF back_up_global_state, Goto, CleanupInv
  <2>3. Unfinished(job.op) /\ job.op \in Operations
    BY <2>1, OwnFacts DEF Mine, Unfinished
  <2>4. /\ \A x \in Operations : x # job.op => journals'[x] = journals[x] /\ backups'[x] = backups[x]
        /\ journals'[job.op].status = "backed_up" /\ backups'[job.op] = Mine.original
    BY <2>1, <2>3, RecordFacts DEF CleanupInv, Typed
  <2>5. backups[job.op] \in {None, Mine.original}
    BY <2>3 DEF CleanupInv, Journaled, JournalOK, Mine
  <2>6. InBackup \subseteq InBackup' \cup {None}
    BY <2>3, <2>4, <2>5 DEF InBackup, Unfinished
  <2>7. None \in InSpare(Operations)'
    BY <2>1, <2>3 DEF InSpare
  <2>8. InSpare(Operations)' = InSpare(Operations)
    BY <2>1 DEF InSpare
  <2>9. QED
    BY <2>1, <2>2, <2>6, <2>7, <2>8 DEF Survives, At
<1>7. CASE update_begin
  <2>1. /\ job # Idle /\ spare[job.op] = None /\ gstate = Mine.original /\ gstate' = None
        /\ spare' = [spare EXCEPT ![job.op] = Mine.updated] /\ Goto("link")
        /\ Mine.status = "backed_up" /\ UNCHANGED <<precious, journals, backups>>
    BY <1>7 DEF update_begin, replace_begin, At, CleanupInv, Temporary, Replacing, Writing
  <2>2. Unfinished(job.op) /\ job.op \in Operations /\ job'.op = job.op /\ job'.at = "link"
    BY <2>1, OwnFacts, GotoForm DEF Mine, Unfinished, Goto, CleanupInv
  <2>3. gstate \in InBackup /\ InBackup' = InBackup
    BY <2>1, <2>2, BackupsSame DEF InBackup, CleanupInv, Journaled, JournalOK, Mine
  <2>4. /\ InSpare(Operations) \subseteq InSpare(Operations \ {job.op})' \cup {None}
        /\ InSpare(Operations \ {job.op})' \subseteq InSpare(Operations)'
    BY <2>1, <2>2 DEF InSpare, CleanupInv, Typed
  <2>5. precious' \subseteq {gstate'} \cup InBackup' \cup InSpare(Operations \ {job.op})'
    BY <2>1, <2>3, <2>4 DEF Survives
  <2>6. QED
    BY <2>1, <2>2, <2>4, <2>5 DEF Survives, At
<1>8. ASSUME update_end \/ rollback_replaced PROVE Survives'
  <2>1. /\ job # Idle /\ gstate = None /\ gstate' = spare[job.op]
        /\ spare' = [spare EXCEPT ![job.op] = None]
        /\ UNCHANGED <<precious, journals, backups>>
        /\ Goto("updated") \/ Goto("undo_record")
    BY <1>8 DEF update_end, rollback_replaced, replace_end, Unlinked, At, CleanupInv, Writing, Undoes
  <2>2. job.op \in Operations /\ job'.at \in {"updated", "undo_record"}
    BY <2>1, OwnFacts, GotoForm DEF Goto, CleanupInv
  <2>3. /\ InSpare(Operations) \subseteq InSpare(Operations)' \cup {gstate'}
        /\ gstate \in InSpare(Operations)' /\ InBackup' = InBackup
    BY <2>1, <2>2, BackupsSame DEF InSpare, CleanupInv, Typed
  <2>4. QED
    BY <2>1, <2>2, <2>3 DEF Survives, At
<1>9. CASE update_recorded
  <2>1. /\ job # Idle /\ UNCHANGED <<gstate, spare, precious, backups>>
        /\ Mine.status = "backed_up" /\ Record(job.op, "project_state_updated")
    BY <1>9 DEF update_recorded, At, statevars, CleanupInv, Writing
  <2>2. job'.at = "move"
    BY <1>9, <2>1, NextForm DEF update_recorded, CleanupInv
  <2>3. Unfinished(job.op) /\ job.op \in Operations
    BY <2>1, OwnFacts DEF Mine, Unfinished
  <2>4. /\ \A x \in Operations : x # job.op => journals'[x] = journals[x]
        /\ journals'[job.op].status = "project_state_updated"
    BY <2>1, <2>3, RecordFacts
  <2>5. InBackup \subseteq InBackup'
    BY <2>1, <2>3, <2>4, BackupsGrow DEF Unfinished
  <2>6. QED
    BY <2>1, <2>2, <2>5, SurvivesCalm DEF Replacing
<1>10. CASE move_check
  <2>1. job # Idle /\ UNCHANGED <<gstate, spare, precious, journals, backups>>
    BY <1>10 DEF move_check, At, statevars
  <2>2. ASSUME NEW p, job' = [job EXCEPT !.at = "rename", !.path = p] PROVE job'.at = "rename"
    BY <2>1, <2>2, PathForm DEF CleanupInv
  <2>3. QED
    BY <1>1, <1>2, <1>10, <2>1, <2>2 DEF move_check
<1>11. CASE move_rename
  <2>1. job # Idle /\ UNCHANGED <<gstate, spare, precious, journals, backups>> /\ Goto("verify")
    BY <1>11 DEF move_rename, At, statevars
  <2>2. job'.at = "verify"
    BY <2>1, GotoForm DEF Goto, CleanupInv
  <2>3. QED
    BY <1>1, <2>1, <2>2
<1>12. CASE move_verify
  <2>1. job # Idle /\ UNCHANGED <<gstate, spare, precious, journals, backups>>
    BY <1>12 DEF move_verify, At, statevars
  <2>2. job' = [job EXCEPT !.at = "move", !.todo = @ \ {job.path}] \/ job' = Undoing(job.op)
    BY <1>12 DEF move_verify
  <2>3. ASSUME NEW rest, job' = [job EXCEPT !.at = "move", !.todo = rest] PROVE job'.at = "move"
    BY <2>1, <2>3, NextForm DEF CleanupInv
  <2>4. QED
    BY <1>1, <1>2, <2>1, <2>2, <2>3
<1>13. CASE complete_cleanup
  <2>1. /\ job # Idle /\ job' = Idle /\ spare[job.op] = None /\ UNCHANGED <<gstate, spare, backups>>
        /\ Mine.status = "project_state_updated" /\ Record(job.op, "completed")
        /\ \/ Mine.updated = None /\ UNCHANGED precious
           \/ /\ Mine.updated # None /\ gstate = Mine.updated
              /\ precious' = (precious \ {Mine.original}) \cup {Mine.updated}
    BY <1>13 DEF complete_cleanup, At, Done, Supersede, CleanupInv, Temporary, Replacing, Moving,
       MovedSoFar
  <2>2. Unfinished(job.op) /\ job.op \in Operations
    BY <2>1, OwnFacts DEF Mine, Unfinished
  <2>3. /\ \A x \in Operations : x # job.op => journals'[x] = journals[x]
        /\ backups[job.op] = Mine.original /\ (Mine.updated = None => Mine.original = None)
    BY <2>1, <2>2, RecordFacts DEF CleanupInv, Journaled, JournalOK, Mine
  <2>4. InBackup \subseteq InBackup' \cup {Mine.original}
    BY <2>1, <2>3 DEF InBackup, Unfinished
  <2>5. None \in InSpare(Operations) /\ InSpare(Operations)' = InSpare(Operations)
    BY <2>1, <2>2 DEF InSpare
  <2>6. QED
    BY <2>1, <2>3, <2>4, <2>5 DEF Survives, At
<1>14. CASE cleanup_fails
  <2>1. /\ job # Idle /\ UNCHANGED <<gstate, precious, journals, backups>>
        /\ job' = Undoing(job.op)
    BY <1>14 DEF cleanup_fails
  <2>2. CASE job.at # "link"
    <3>1. UNCHANGED spare
      BY <1>14, <2>2 DEF cleanup_fails, At
    <3>2. QED
      BY <1>2, <2>1, <3>1
  <2>3. CASE job.at = "link"
    <3>1. spare' = [spare EXCEPT ![job.op] = None] /\ job.op \in Operations
      BY <1>14, <2>1, <2>3, OwnFacts DEF cleanup_fails, At, Unlinked
    <3>2. InSpare(Operations \ {job.op}) \subseteq InSpare(Operations)'
      BY <3>1 DEF InSpare, CleanupInv, Typed
    <3>3. precious \subseteq {gstate} \cup InBackup \cup InSpare(Operations \ {job.op})
      BY <2>1, <2>3 DEF Survives, At
    <3>4. job'.at = "undo_move"
      BY <2>1, UndoForm DEF Undoing, CleanupInv
    <3>5. QED
      BY <2>1, <3>2, <3>3, <3>4, BackupsSame DEF Survives, At
  <2>4. QED
    BY <2>2, <2>3
<1>15. CASE rollback_move
  <2>1. /\ job # Idle /\ UNCHANGED <<gstate, spare, precious, journals, backups>>
        /\ job.at = "undo_move"
    BY <1>15 DEF rollback_move, At, statevars
  <2>2. job' = Idle \/ \E p : job' = [job EXCEPT !.todo = @ \ {p}]
    BY <1>15 DEF rollback_move, Done
  <2>3. ASSUME NEW rest, job' = [job EXCEPT !.todo = rest] PROVE job'.at = "undo_move"
    BY <2>1, <2>3, TodoForm DEF CleanupInv
  <2>4. QED
    BY <1>1, <2>1, <2>2, <2>3
<1>16. CASE rollback_state
  <2>1. /\ job # Idle /\ UNCHANGED <<journals, backups>> /\ spare[job.op] = None
        /\ job.undo \in Operations /\ Unfinished(job.undo)
    BY <1>16 DEF rollback_state, At, CleanupInv, Temporary, Replacing, Undoes, Undos
  <2>2. job.op \in Operations /\ InBackup' = InBackup
    BY <2>1, OwnFacts, BackupsSame
  <2>3. ASSUME NEW a, Goto(a) PROVE job'.at = a /\ job'.op = job.op
    BY <2>1, <2>3, GotoForm DEF Goto, CleanupInv
  <2>4. CASE Done /\ UNCHANGED statevars
    BY <1>1, <2>1, <2>4 DEF Done, statevars
  <2>5. CASE Goto("undo_record") /\ UNCHANGED statevars
    BY <1>1, <2>1, <2>3, <2>5 DEF statevars
  <2>6. CASE Goto("undo_record") /\ gstate = None /\ UNCHANGED <<spare, precious>>
    <3>1. gstate \in InSpare(Operations) /\ InSpare(Operations)' = InSpare(Operations)
      BY <2>1, <2>2, <2>6 DEF InSpare
    <3>2. QED
      BY <2>2, <2>3, <2>6, <3>1 DEF Survives, At
  <2>7. CASE /\ backups[job.undo] # None /\ gstate = Undone.updated
             /\ replace_begin(Undone.original, "undo_link")
             /\ Supersede(Undone.updated, Undone.original)
    <3>1. /\ gstate' = None /\ spare' = [spare EXCEPT ![job.op] = Undone.original]
          /\ precious' = (precious \ {gstate}) \cup {Undone.original}
          /\ job'.at = "undo_link" /\ job'.op = job.op
      BY <2>3, <2>7 DEF replace_begin, Supersede
    <3>2. Undone.original \in InBackup
      BY <2>1, <2>7 DEF InBackup, CleanupInv, Journaled, JournalOK, Undone
    <3>3. /\ InSpare(Operations) \subseteq InSpare(Operations \ {job.op})' \cup {None}
          /\ InSpare(Operations \ {job.op})' \subseteq InSpare(Operations)'
      BY <2>1, <2>2, <3>1 DEF InSpare, CleanupInv, Typed
    <3>4. precious' \subseteq {gstate'} \cup InBackup' \cup InSpare(Operations \ {job.op})'
      BY <2>2, <3>1, <3>2, <3>3 DEF Survives
    <3>5. QED
      BY <3>1, <3>3, <3>4 DEF Survives, At
  <2>8. QED
    BY <1>16, <2>4, <2>5, <2>6, <2>7 DEF rollback_state
<1>17. CASE rollback_recorded
  <2>1. /\ job # Idle /\ spare[job.op] = None /\ UNCHANGED <<gstate, spare, precious, backups>>
        /\ job.undo \in Operations /\ Unfinished(job.undo) /\ Record(job.undo, "rolled_back")
        /\ job' = AfterUndo /\ (Undone.updated # None => gstate = Undone.original)
    BY <1>17 DEF rollback_recorded, At, statevars, CleanupInv, Temporary, Replacing, Undoes, Undos
  <2>2. job' = Idle \/ job'.at = "recover"
    BY <2>1, BackForm DEF AfterUndo, CleanupInv
  <2>3. /\ \A x \in Operations : x # job.undo => journals'[x] = journals[x]
        /\ backups[job.undo] \in {None, Undone.original}
        /\ Undone.updated = None => Undone.original = None
    BY <2>1, RecordFacts DEF CleanupInv, Journaled, JournalOK, Undone
  <2>4. InBackup \subseteq InBackup' \cup {gstate, None}
    BY <2>1, <2>3 DEF InBackup, Unfinished
  <2>5. None \in InSpare(Operations) /\ InSpare(Operations)' = InSpare(Operations)
    BY <2>1, OwnFacts DEF InSpare
  <2>6. QED
    BY <2>1, <2>2, <2>4, <2>5 DEF Survives, At
<1>18. CASE rollback_fails
  <2>1. /\ job # Idle /\ job' = Idle /\ UNCHANGED <<gstate, precious, journals, backups>>
    BY <1>18 DEF rollback_fails, Done
  <2>2. CASE job.at # "undo_link"
    <3>1. UNCHANGED spare
      BY <1>18, <2>2 DEF rollback_fails, At
    <3>2. QED
      BY <1>1, <2>1, <3>1
  <2>3. CASE job.at = "undo_link"
    <3>1. spare' = [spare EXCEPT ![job.op] = None] /\ job.op \in Operations
      BY <1>18, <2>1, <2>3, OwnFacts DEF rollback_fails, At, Unlinked
    <3>2. InSpare(Operations \ {job.op}) \subseteq InSpare(Operations)'
      BY <3>1 DEF InSpare, CleanupInv, Typed
    <3>3. precious \subseteq {gstate} \cup InBackup \cup InSpare(Operations \ {job.op})
      BY <2>1, <2>3 DEF Survives, At
    <3>4. QED
      BY <2>1, <3>2, <3>3, BackupsSame DEF Survives, At
  <2>4. QED
    BY <2>2, <2>3
<1>19. QED
  BY <1>3, <1>4, <1>5, <1>6, <1>7, <1>8, <1>9, <1>10, <1>11, <1>12, <1>13, <1>14, <1>15, <1>16,
     <1>17, <1>18 DEF Cleanup

LEMMA SurvivesAround ==
    ASSUME CleanupInv, Survives, Around PROVE Survives'
<1>1. UNCHANGED <<spare, journals, backups, job>>
  BY DEF Around, CodexSaves, UserMakes, UserFills, create_mapping, delete_mapping,
     create_automatic, statevars
<1>2. CASE CodexSaves
  <2>1. job = Idle /\ precious' = (precious \ {gstate}) \cup {gstate'}
    BY <1>2 DEF CodexSaves, Supersede
  <2>2. QED
    BY <1>1, <2>1, BackupsSame DEF Survives, At, InSpare
<1>3. CASE UNCHANGED statevars
  BY <1>1, <1>3, BackupsSame, SurvivesCalm DEF statevars
<1>4. QED
  BY <1>2, <1>3 DEF Around, UserMakes, UserFills, create_mapping, delete_mapping,
     create_automatic

\* The repair keeps no backup: what it decided is in its temporary file until the rename.
LEMMA SurvivesRepair ==
    ASSUME ~ RepairMayFail, CleanupInv, Survives, Repair PROVE Survives'
<1>1. UNCHANGED <<journals, backups>> /\ InBackup' = InBackup
  <2>1. UNCHANGED <<journals, backups>>
    BY DEF Repair, mutate_thread, delete_row, repair_codex_sidebar,
       remove_empty_codex_projects, repair_replaced
  <2>2. QED
    BY <2>1, BackupsSame
<1>2. ASSUME NEW t, mutate_thread(t) PROVE Survives'
  <2>1. UNCHANGED statevars /\ job'.at = "row"
    BY <1>2 DEF mutate_thread, Job
  <2>2. QED
    BY <1>1, <2>1, SurvivesCalm DEF statevars, Replacing
<1>3. CASE delete_row
  <2>1. UNCHANGED statevars /\ job # Idle /\ Goto("repair")
    BY <1>3 DEF delete_row, At
  <2>2. job'.at = "repair"
    BY <2>1, GotoForm DEF Goto, CleanupInv
  <2>3. QED
    BY <1>1, <2>1, <2>2, SurvivesCalm DEF statevars, Replacing
<1>4. CASE repair_codex_sidebar
  <2>1. UNCHANGED statevars /\ job'.at = "repair"
    BY <1>4 DEF repair_codex_sidebar, Job
  <2>2. QED
    BY <1>1, <2>1, SurvivesCalm DEF statevars, Replacing
<1>5. CASE remove_empty_codex_projects
  <2>1. job # Idle /\ spare[job.op] = None /\ job.op \in Operations
    BY <1>5, OwnFacts DEF remove_empty_codex_projects, At, CleanupInv, Temporary, Replacing
  <2>2. CASE Done /\ UNCHANGED statevars
    BY <1>1, <2>2, SurvivesCalm DEF Done, statevars
  <2>3. ASSUME NEW g, replace_begin(g, "install"), Supersede(gstate, g) PROVE Survives'
    <3>1. /\ gstate' = None /\ spare' = [spare EXCEPT ![job.op] = g] /\ Goto("install")
          /\ precious' = (precious \ {gstate}) \cup {g}
      BY <2>3 DEF replace_begin, Supersede
    <3>2. job'.at = "install"
      BY <2>1, <3>1, GotoForm DEF Goto, CleanupInv
    <3>3. InSpare(Operations) \subseteq InSpare(Operations)' \cup {None} /\ g \in InSpare(Operations)'
      BY <2>1, <3>1 DEF InSpare, CleanupInv, Typed
    <3>4. QED
      BY <1>1, <3>1, <3>2, <3>3 DEF Survives, At
  <2>4. QED
    BY <1>5, <2>2, <2>3 DEF remove_empty_codex_projects
<1>6. CASE repair_replaced
  <2>1. /\ job # Idle /\ job' = Idle /\ gstate = None /\ gstate' = spare[job.op]
        /\ spare' = [spare EXCEPT ![job.op] = None] /\ UNCHANGED precious
    BY <1>6 DEF repair_replaced, InstallOutcomes, At, Done, Unlinked, Survives
  <2>2. job.op \in Operations
    BY <2>1, OwnFacts
  <2>3. InSpare(Operations) \subseteq InSpare(Operations)' \cup {gstate'} /\ None \in InSpare(Operations)'
    BY <2>1, <2>2 DEF InSpare, CleanupInv, Typed
  <2>4. QED
    BY <1>1, <2>1, <2>3 DEF Survives, At
<1>7. QED
  BY <1>2, <1>3, <1>4, <1>5, <1>6 DEF Repair

LEMMA SurvivesStep ==
    ASSUME ~ RepairMayFail, ~ TornWrites, CleanupInv, Survives, [Next]_vars PROVE Survives'
<1>1. CASE Stop
  <2>1. /\ job' = Idle /\ journals' = journals /\ UNCHANGED <<gstate, spare, precious, backups>>
    BY <1>1 DEF Stop, AfterTornWrite, Done, statevars
  <2>2. QED
    BY <2>1, BackupsSame, SurvivesCalm
<1>2. ASSUME NEW o \in Operations, delete_backup(o) PROVE Survives'
  <2>1. /\ ~ Unfinished(o) /\ UNCHANGED <<gstate, spare, precious, journals, job>>
        /\ \A x \in Operations : x # o => backups'[x] = backups[x]
    BY <1>2 DEF delete_backup, statevars, CleanupInv, Typed
  <2>2. InBackup \subseteq InBackup'
    BY <2>1, BackupsGrow
  <2>3. QED
    BY <2>1, <2>2, SurvivesCalm
<1>3. CASE UNCHANGED vars
  BY <1>3, BackupsSame, SurvivesCalm DEF vars, statevars
<1>4. QED
  BY <1>1, <1>2, <1>3, SurvivesAround, SurvivesRepair, SurvivesSteps DEF Next

(***************************************************************************)
(* What Codex last saved in .codex-global-state.json, or an operation made *)
(* of it, stays on disk: live, in the backup of a cleanup, or in a         *)
(* temporary file.  However often replace_file_if_hash_matches is cut      *)
(* between its removal and its rename, rollbacks fail, recoveries start    *)
(* over and backups are deleted.  The assumptions exclude two known        *)
(* departures: a repair whose rename fails removes its temporary file, and *)
(* a crash inside a journal write leaves a backup nothing knows is needed. *)
(***************************************************************************)
THEOREM GlobalStateIsKept ==
    ASSUME ~ RepairMayFail, ~ TornWrites PROVE Spec => []GlobalStateSurvives
<1>1. Init => Survives
  <2> SUFFICES ASSUME Init PROVE Survives
    OBVIOUS
  <2>1. job = Idle /\ precious \subseteq {gstate}
    BY DEF Init
  <2>2. QED
    BY <2>1 DEF Survives, At
<1>2. CleanupInv /\ Survives /\ [Next]_vars => Survives'
  BY SurvivesStep
<1>3. Survives => GlobalStateSurvives
  BY DEF Survives, GlobalStateSurvives, InBackup, InSpare
<1>4. QED
  BY <1>1, <1>2, <1>3, CleanupInvariant, PTL DEF Spec

-----------------------------------------------------------------------------
(***************************************************************************)
(* Mapping a workspace path here and back.                                 *)
(***************************************************************************)
Component == [name : STRING, upper : BOOLEAN]
RuleSet(S) == \A r \in S : r = [remote |-> r.remote, local |-> r.local] /\ r.remote \in Path /\ r.local \in Path
Sides == {"remote", "local"}

\* Components i of two paths are equal for a match.
Alike(p, q, i) ==
    /\ p.parts[i].name = q.parts[i].name
    /\ (p.parts[i].upper /\ ~ p.win) = (q.parts[i].upper /\ ~ q.win)

LEMMA LessIsWellFounded == IsWellFoundedOn({ss \in Nat \X Nat : ss[1] < ss[2]}, Nat)
  BY NatLessThanWellFounded DEF OpToRel

\* A set of natural numbers has a least one.
LEMMA Least == ASSUME NEW T, T \subseteq Nat, T # {} PROVE \E x \in T : \A y \in T : x <= y
<1> DEFINE Less == {ss \in Nat \X Nat : ss[1] < ss[2]}
<1>1. \E x \in T : \A y \in T : ~ (<<y, x>> \in Less)
  <2>1. IsWellFoundedOn(Less, Nat)
    BY LessIsWellFounded
  <2>2. QED
    BY <2>1, WFMin
<1>2. PICK x \in T : \A y \in T : ~ (<<y, x>> \in Less)
  BY <1>1
<1>3. ASSUME NEW y \in T PROVE x <= y
  <2>1. x \in Nat /\ y \in Nat
    OBVIOUS
  <2>2. <<y, x>> \in Nat \X Nat /\ <<y, x>>[1] = y /\ <<y, x>>[2] = x
    BY <2>1
  <2>3. ~ (y < x)
    BY <1>2, <2>2
  <2>4. QED
    BY <2>1, <2>3
<1>4. QED
  BY <1>3

LEMMA PrefixMeans ==
    ASSUME NEW S, NEW s \in Seq(S), NEW t \in Seq(S)
    PROVE  IsPrefix(s, t) <=> Len(s) <= Len(t) /\ \A i \in 1 .. Len(s) : s[i] = t[i]
<1>1. CASE ~ (Len(s) <= Len(t))
  BY <1>1 DEF IsPrefix
<1>2. CASE Len(s) <= Len(t)
  <2>1. /\ SubSeq(s, 1, Len(s)) = [i \in 1 .. Len(s) |-> s[i]]
        /\ SubSeq(t, 1, Len(s)) = [i \in 1 .. Len(s) |-> t[i]]
    BY <1>2
  <2>2. QED
    BY <1>2, <2>1 DEF IsPrefix
<1>3. QED
  BY <1>1, <1>2

LEMMA FunctionIsSequence ==
    ASSUME NEW S, NEW n \in Nat, NEW f \in [1 .. n -> S] PROVE f \in Seq(S) /\ Len(f) = n
  OBVIOUS

LEMMA RestOf ==
    ASSUME NEW S, NEW t \in Seq(S), NEW m \in Nat, m <= Len(t)
    PROVE  LET u == SubSeq(t, m + 1, Len(t)) IN
           /\ u \in Seq(S) /\ Len(u) = Len(t) - m
           /\ \A i \in 1 .. Len(t) - m : u[i] = t[m + i]
<1> DEFINE u == SubSeq(t, m + 1, Len(t))
<1>1. Len(t) \in Nat
  OBVIOUS
<1>2. u = [i \in 1 .. Len(t) - m |-> t[m + i]]
  BY <1>1
<1>3. u \in [1 .. Len(t) - m -> S]
  <2>1. ASSUME NEW i \in 1 .. Len(t) - m PROVE t[m + i] \in S
    <3>1. m + i \in 1 .. Len(t)
      BY <1>1
    <3>2. QED
      BY <3>1
  <2>2. QED
    BY <1>2, <2>1
<1> HIDE DEF u
<1>4. u \in Seq(S) /\ Len(u) = Len(t) - m
  BY <1>1, <1>3, FunctionIsSequence
<1>5. \A i \in 1 .. Len(t) - m : u[i] = t[m + i]
  BY <1>1, <1>2
<1>6. QED
  BY <1>4, <1>5 DEF u

LEMMA Shift ==
    ASSUME NEW f \in Nat, NEW t \in Nat, NEW l \in Nat, NEW i \in f + 1 .. l
    PROVE  i - f + t \in t + 1 .. t + l - f /\ (i - f + t) - t + f = i
  OBVIOUS

LEMMA Glued ==
    ASSUME NEW S, NEW s \in Seq(S), NEW u \in Seq(S)
    PROVE  /\ s \o u \in Seq(S) /\ Len(s \o u) = Len(s) + Len(u)
           /\ \A i \in 1 .. Len(s) : (s \o u)[i] = s[i]
           /\ \A i \in 1 .. Len(u) : (s \o u)[i + Len(s)] = u[i]
  OBVIOUS

LEMMA PathFacts ==
    ASSUME NEW p \in Path
    PROVE  /\ p.win \in BOOLEAN /\ p.back \in BOOLEAN /\ p.parts \in Seq(Component)
           /\ p = [win |-> p.win, back |-> p.back, parts |-> p.parts]
           /\ Len(p.parts) \in Nat
           /\ DOMAIN p.parts = 1 .. Len(p.parts)
  BY DEF Path, Component

LEMMA Normalized ==
    ASSUME NEW p \in Path
    PROVE  LET n == normalize_for_match(p) IN
           /\ n.win = p.win
           /\ n.parts \in Seq(Component) /\ Len(n.parts) = Len(p.parts)
           /\ \A i \in 1 .. Len(p.parts) :
                n.parts[i] = [name |-> p.parts[i].name, upper |-> p.parts[i].upper /\ ~ p.win]
<1> DEFINE N == [i \in DOMAIN p.parts |->
                   [name |-> p.parts[i].name, upper |-> p.parts[i].upper /\ ~ p.win]]
<1>1. \A i \in 1 .. Len(p.parts) : p.parts[i] \in Component
  BY PathFacts
<1>2. N \in [1 .. Len(p.parts) -> Component]
  BY <1>1, PathFacts DEF Component
<1>3. N \in Seq(Component) /\ Len(N) = Len(p.parts)
  <2> HIDE DEF N
  <2>1. QED
    BY <1>2, PathFacts, FunctionIsSequence
<1>4. normalize_for_match(p) = [win |-> p.win, parts |-> N]
  BY DEF normalize_for_match
<1>5. QED
  BY <1>3, <1>4, PathFacts

\* A path is below another one when they are alike up to the other's length.
LEMMA ChildMeans ==
    ASSUME NEW p \in Path, NEW q \in Path
    PROVE  path_is_same_or_child(p, q) <=>
             /\ p.win = q.win
             /\ Len(q.parts) <= Len(p.parts)
             /\ \A i \in 1 .. Len(q.parts) : Alike(p, q, i)
<1> DEFINE c == normalize_for_match(p)
           d == normalize_for_match(q)
<1>1. path_is_same_or_child(p, q) <=> c.win = d.win /\ IsPrefix(d.parts, c.parts)
  BY DEF path_is_same_or_child
<1>2. IsPrefix(d.parts, c.parts) <=>
        Len(d.parts) <= Len(c.parts) /\ \A i \in 1 .. Len(d.parts) : d.parts[i] = c.parts[i]
  BY Normalized, PrefixMeans
<1>3. ASSUME Len(q.parts) <= Len(p.parts), NEW i \in 1 .. Len(q.parts)
      PROVE  d.parts[i] = c.parts[i] <=> Alike(p, q, i)
  <2>1. i \in 1 .. Len(p.parts)
    BY <1>3, PathFacts
  <2>2. /\ d.parts[i] = [name |-> q.parts[i].name, upper |-> q.parts[i].upper /\ ~ q.win]
        /\ c.parts[i] = [name |-> p.parts[i].name, upper |-> p.parts[i].upper /\ ~ p.win]
    BY <1>3, <2>1, Normalized
  <2>3. QED
    BY <2>2 DEF Alike
<1>4. c.win = p.win /\ d.win = q.win /\ Len(c.parts) = Len(p.parts) /\ Len(d.parts) = Len(q.parts)
  BY Normalized
<1> HIDE DEF c, d
<1>5. QED
  BY <1>1, <1>2, <1>3, <1>4

\* Of two prefixes of a path, the shorter one is a prefix of the longer one.
LEMMA PrefixesNest ==
    ASSUME NEW p \in Path, NEW q \in Path, NEW r \in Path,
           path_is_same_or_child(p, q), path_is_same_or_child(p, r),
           Len(r.parts) <= Len(q.parts)
    PROVE  path_is_same_or_child(q, r)
<1>1. /\ p.win = q.win /\ p.win = r.win
      /\ \A i \in 1 .. Len(q.parts) : Alike(p, q, i)
      /\ \A i \in 1 .. Len(r.parts) : Alike(p, r, i)
  BY ChildMeans
<1>2. \A i \in 1 .. Len(r.parts) : Alike(q, r, i)
  BY <1>1, PathFacts DEF Alike
<1>3. QED
  BY <1>1, <1>2, ChildMeans

LEMMA SameLengthSamePath ==
    ASSUME NEW p \in Path, NEW q \in Path, NEW r \in Path,
           path_is_same_or_child(p, q), path_is_same_or_child(p, r),
           Len(r.parts) = Len(q.parts)
    PROVE  paths_equal(q, r)
<1> DEFINE c == normalize_for_match(q)
           d == normalize_for_match(r)
<1>1. path_is_same_or_child(q, r)
  BY PrefixesNest, PathFacts
<1>2. c.win = d.win /\ IsPrefix(d.parts, c.parts)
  BY <1>1 DEF path_is_same_or_child
<1>3. c.parts \in Seq(Component) /\ d.parts \in Seq(Component) /\ Len(c.parts) = Len(d.parts)
  BY Normalized
<1>4. \A i \in 1 .. Len(d.parts) : d.parts[i] = c.parts[i]
  BY <1>2, <1>3, PrefixMeans
<1>5. c.parts = d.parts
  BY <1>3, <1>4
<1>6. c = [win |-> c.win, parts |-> c.parts] /\ d = [win |-> d.win, parts |-> d.parts]
  BY DEF normalize_for_match
<1>7. QED
  BY <1>2, <1>5, <1>6 DEF paths_equal

-----------------------------------------------------------------------------
\* Path q is p with to in the place of from.
Renamed(q, p, from, to) ==
    /\ q \in Path /\ q.win = to.win /\ q.back = FALSE
    /\ Len(q.parts) = Len(to.parts) + Len(p.parts) - Len(from.parts)
    /\ \A i \in 1 .. Len(to.parts) : q.parts[i] = to.parts[i]
    /\ \A i \in Len(from.parts) + 1 .. Len(p.parts) :
         q.parts[i - Len(from.parts) + Len(to.parts)] = p.parts[i]

LEMMA Replaced ==
    ASSUME NEW p \in Path, NEW from \in Path, NEW to \in Path, Len(from.parts) <= Len(p.parts)
    PROVE  Renamed(replace_prefix(p, from, to), p, from, to)
<1> DEFINE rest == SubSeq(p.parts, Len(from.parts) + 1, Len(p.parts))
           q == replace_prefix(p, from, to)
<1>1. /\ p.parts \in Seq(Component) /\ to.parts \in Seq(Component)
      /\ Len(p.parts) \in Nat /\ Len(from.parts) \in Nat /\ Len(to.parts) \in Nat
  BY PathFacts
<1>2. /\ rest \in Seq(Component) /\ Len(rest) = Len(p.parts) - Len(from.parts)
      /\ \A i \in 1 .. Len(p.parts) - Len(from.parts) : rest[i] = p.parts[Len(from.parts) + i]
  BY <1>1, RestOf
<1>3. q = [win |-> to.win, back |-> FALSE, parts |-> to.parts \o rest]
  BY DEF replace_prefix
<1> HIDE DEF rest, q
<1>4. /\ to.parts \o rest \in Seq(Component)
      /\ Len(to.parts \o rest) = Len(to.parts) + Len(rest)
      /\ \A i \in 1 .. Len(to.parts) : (to.parts \o rest)[i] = to.parts[i]
      /\ \A i \in 1 .. Len(rest) : (to.parts \o rest)[i + Len(to.parts)] = rest[i]
  <2> DEFINE first == to.parts
  <2>1. first \in Seq(Component) /\ rest \in Seq(Component)
    BY <1>1, <1>2
  <2> HIDE DEF first
  <2>2. /\ first \o rest \in Seq(Component)
        /\ Len(first \o rest) = Len(first) + Len(rest)
        /\ \A i \in 1 .. Len(first) : (first \o rest)[i] = first[i]
        /\ \A i \in 1 .. Len(rest) : (first \o rest)[i + Len(first)] = rest[i]
    BY <2>1, Glued
  <2>3. QED
    BY <2>2 DEF first
<1>5. q \in Path /\ q.win = to.win /\ q.back = FALSE /\ q.parts = to.parts \o rest
  BY <1>3, <1>4, PathFacts DEF Path, Component
<1>6. ASSUME NEW i \in Len(from.parts) + 1 .. Len(p.parts)
      PROVE  q.parts[i - Len(from.parts) + Len(to.parts)] = p.parts[i]
  <2> DEFINE k == i - Len(from.parts)
  <2>1. k \in 1 .. Len(rest) /\ Len(from.parts) + k = i
    BY <1>1, <1>2
  <2>2. rest[k] = p.parts[i]
    BY <1>1, <1>2, <2>1
  <2> HIDE DEF k
  <2>3. q.parts[k + Len(to.parts)] = rest[k]
    BY <1>4, <1>5, <2>1
  <2>4. QED
    BY <2>2, <2>3 DEF k
<1>7. QED
  BY <1>1, <1>2, <1>4, <1>5, <1>6 DEF q, Renamed

LEMMA ReplacedLength ==
    ASSUME NEW p \in Path, NEW from \in Path, NEW to \in Path, Len(from.parts) <= Len(p.parts)
    PROVE  Len(replace_prefix(p, from, to).parts) = Len(to.parts) + Len(p.parts) - Len(from.parts)
  BY Replaced DEF Renamed

LEMMA ReplacedIsBelow ==
    ASSUME NEW p \in Path, NEW from \in Path, NEW to \in Path, Len(from.parts) <= Len(p.parts)
    PROVE  path_is_same_or_child(replace_prefix(p, from, to), to)
<1> DEFINE q == replace_prefix(p, from, to)
<1>1. /\ q \in Path /\ q.win = to.win
      /\ Len(q.parts) = Len(to.parts) + Len(p.parts) - Len(from.parts)
      /\ \A i \in 1 .. Len(to.parts) : q.parts[i] = to.parts[i]
  <2>1. Renamed(q, p, from, to)
    BY Replaced
  <2>2. QED
    BY <2>1 DEF Renamed
<1> HIDE DEF q
<1>2. Len(to.parts) <= Len(q.parts)
  BY <1>1, PathFacts
<1>3. path_is_same_or_child(q, to)
  BY <1>1, <1>2, ChildMeans DEF Alike
<1>4. QED
  BY <1>3 DEF q

\* Replacing a prefix and putting it back changes at most how the prefix is spelled.
LEMMA PutBack ==
    ASSUME NEW p \in Path, NEW from \in Path, NEW to \in Path, path_is_same_or_child(p, from)
    PROVE  (replace_prefix(replace_prefix(p, from, to), to, from) = p) <=>
             ~ p.back /\ IsPrefix(from.parts, p.parts)
<1> DEFINE q == replace_prefix(p, from, to)
           b == replace_prefix(q, to, from)
<1>1. p.win = from.win /\ Len(from.parts) <= Len(p.parts)
  BY ChildMeans
<1>2. /\ q \in Path /\ Len(q.parts) = Len(to.parts) + Len(p.parts) - Len(from.parts)
      /\ \A i \in Len(from.parts) + 1 .. Len(p.parts) :
           q.parts[i - Len(from.parts) + Len(to.parts)] = p.parts[i]
  <2>1. Renamed(q, p, from, to)
    BY <1>1, Replaced
  <2>2. QED
    BY <2>1 DEF Renamed
<1>3. Len(p.parts) \in Nat /\ Len(from.parts) \in Nat /\ Len(to.parts) \in Nat
  BY PathFacts
<1> HIDE DEF q
<1>4. Len(to.parts) <= Len(q.parts)
  BY <1>1, <1>2, <1>3
<1>5. /\ b \in Path /\ b.win = from.win /\ b.back = FALSE
      /\ Len(b.parts) = Len(from.parts) + Len(q.parts) - Len(to.parts)
      /\ \A i \in 1 .. Len(from.parts) : b.parts[i] = from.parts[i]
      /\ \A i \in Len(to.parts) + 1 .. Len(q.parts) :
           b.parts[i - Len(to.parts) + Len(from.parts)] = q.parts[i]
  <2>1. Renamed(b, q, to, from)
    BY <1>2, <1>4, Replaced
  <2> HIDE DEF b
  <2>2. QED
    BY <2>1 DEF Renamed
<1> HIDE DEF b
<1>6. Len(b.parts) = Len(p.parts)
  BY <1>2, <1>3, <1>5
<1>7. ASSUME NEW i \in Len(from.parts) + 1 .. Len(p.parts) PROVE b.parts[i] = p.parts[i]
  <2> DEFINE k == i - Len(from.parts) + Len(to.parts)
  <2>1. k \in Len(to.parts) + 1 .. Len(q.parts) /\ k - Len(to.parts) + Len(from.parts) = i
    <3> DEFINE f == Len(from.parts)
               t == Len(to.parts)
               l == Len(p.parts)
               n == Len(q.parts)
    <3>1. f \in Nat /\ t \in Nat /\ l \in Nat /\ n = t + l - f /\ i \in f + 1 .. l
      BY <1>2, <1>3
    <3> HIDE DEF f, t, l, n
    <3>2. i - f + t \in t + 1 .. n /\ (i - f + t) - t + f = i
      BY <3>1, Shift
    <3>3. QED
      BY <3>2 DEF f, t, l, n
  <2>2. q.parts[k] = p.parts[i]
    BY <1>2
  <2> HIDE DEF k
  <2>3. b.parts[k - Len(to.parts) + Len(from.parts)] = q.parts[k]
    BY <1>5, <2>1
  <2>4. QED
    BY <2>1, <2>2, <2>3
<1>8. IsPrefix(from.parts, p.parts) <=> \A i \in 1 .. Len(from.parts) : from.parts[i] = p.parts[i]
  BY <1>1, PathFacts, PrefixMeans
<1>9. ASSUME b = p PROVE ~ p.back /\ IsPrefix(from.parts, p.parts)
  BY <1>5, <1>8, <1>9
<1>10. ASSUME ~ p.back, IsPrefix(from.parts, p.parts) PROVE b = p
  <2>1. \A i \in 1 .. Len(from.parts) : b.parts[i] = p.parts[i]
    BY <1>5, <1>8, <1>10
  <2>2. \A i \in 1 .. Len(p.parts) : b.parts[i] = p.parts[i]
    BY <1>1, <1>3, <1>7, <2>1
  <2>3. b.parts \in Seq(Component) /\ p.parts \in Seq(Component)
    BY <1>5, PathFacts
  <2>4. b.parts = p.parts
    BY <1>6, <2>2, <2>3
  <2>5. b.win = p.win /\ b.back = p.back
    BY <1>1, <1>5, <1>10, PathFacts
  <2>6. /\ p = [win |-> p.win, back |-> p.back, parts |-> p.parts]
        /\ b = [win |-> b.win, back |-> b.back, parts |-> b.parts]
    BY <1>5, PathFacts
  <2>7. QED
    BY <2>4, <2>5, <2>6
<1>11. QED
  BY <1>9, <1>10 DEF b, q

LEMMA RuleSides ==
    ASSUME NEW S, RuleSet(S), NEW r \in S, NEW from \in Sides PROVE r[from] \in Path
  BY DEF RuleSet, Sides

\* map_path takes a rule whose prefix is longest.
LEMMA LongestIsChosen ==
    ASSUME NEW S, RuleSet(S), NEW p \in Path, NEW from \in Sides, Matching(S, p, from) # {}
    PROVE  LET r == Chosen(S, p, from) IN
           /\ r \in S /\ path_is_same_or_child(p, r[from])
           /\ \A s \in Matching(S, p, from) : Len(s[from].parts) <= Len(r[from].parts)
<1> DEFINE M == Matching(S, p, from)
           T == {Len(p.parts) - Len(s[from].parts) : s \in M}
<1>1. \A s \in M : /\ s \in S /\ path_is_same_or_child(p, s[from]) /\ s[from] \in Path
                   /\ Len(s[from].parts) <= Len(p.parts)
  BY RuleSides, ChildMeans DEF Matching
<1>2. \A s \in M : Len(s[from].parts) \in Nat
  BY <1>1, PathFacts
<1>3. Len(p.parts) \in Nat
  BY PathFacts
<1>4. T \subseteq Nat /\ T # {}
  <2>1. \A s \in M : Len(p.parts) - Len(s[from].parts) \in Nat
    BY <1>1, <1>2, <1>3
  <2> HIDE DEF M
  <2>2. T \subseteq Nat
    BY <2>1
  <2>3. QED
    BY <2>2 DEF M
<1> HIDE DEF M
<1>5. PICK x \in T : \A y \in T : x <= y
  BY <1>4, Least
<1>6. PICK r \in M : x = Len(p.parts) - Len(r[from].parts)
  BY <1>5
<1>7. ASSUME NEW s \in M PROVE Len(s[from].parts) <= Len(r[from].parts)
  <2>1. Len(p.parts) - Len(s[from].parts) \in T
    OBVIOUS
  <2>2. Len(p.parts) - Len(r[from].parts) <= Len(p.parts) - Len(s[from].parts)
    BY <1>5, <1>6, <2>1
  <2>3. QED
    BY <1>2, <1>3, <2>2
<1>8. Chosen(S, p, from) = CHOOSE c \in M : \A s \in M : Len(s[from].parts) <= Len(c[from].parts)
  BY DEF Chosen, M
<1>9. /\ Chosen(S, p, from) \in M
      /\ \A s \in M : Len(s[from].parts) <= Len(Chosen(S, p, from)[from].parts)
  BY <1>7, <1>8
<1>10. QED
  BY <1>1, <1>9 DEF M

LEMMA OneOfALength ==
    ASSUME NEW S, RuleSet(S), reject_ambiguous_mappings(S), NEW p \in Path, NEW from \in Sides,
           NEW r \in S, NEW s \in S,
           path_is_same_or_child(p, r[from]), path_is_same_or_child(p, s[from]),
           Len(r[from].parts) = Len(s[from].parts)
    PROVE  r = s
<1>1. paths_equal(s[from], r[from])
  BY RuleSides, SameLengthSamePath
<1>2. \A x, y \in S : x # y => ~ paths_equal(x["remote"], y["remote"]) /\ ~ paths_equal(x["local"], y["local"])
  BY DEF reject_ambiguous_mappings
<1>3. QED
  BY <1>1, <1>2 DEF Sides

\* The deepest prefix is the longest one.
LEMMA DeepestIsChosen ==
    ASSUME NEW S, RuleSet(S), reject_ambiguous_mappings(S), NEW p \in Path, NEW from \in Sides,
           NEW r \in S
    PROVE  Deepest(r, S, p, from) <=> Matching(S, p, from) # {} /\ r = Chosen(S, p, from)
<1> DEFINE c == Chosen(S, p, from)
<1>1. ASSUME Deepest(r, S, p, from) PROVE Matching(S, p, from) # {} /\ r = c
  <2>1. path_is_same_or_child(p, r[from]) /\ r \in Matching(S, p, from)
    BY <1>1 DEF Deepest, Matching
  <2>2. /\ c \in S /\ path_is_same_or_child(p, c[from])
        /\ Len(r[from].parts) <= Len(c[from].parts)
    BY <2>1, LongestIsChosen
  <2> HIDE DEF c
  <2>3. path_is_same_or_child(r[from], c[from])
    BY <1>1, <2>2 DEF Deepest
  <2>4. Len(c[from].parts) <= Len(r[from].parts)
    BY <2>2, <2>3, ChildMeans, RuleSides
  <2>5. Len(c[from].parts) \in Nat /\ Len(r[from].parts) \in Nat
    BY <2>2, RuleSides, PathFacts
  <2>6. Len(c[from].parts) = Len(r[from].parts)
    BY <2>2, <2>4, <2>5
  <2>7. QED
    BY <2>1, <2>2, <2>6, OneOfALength
<1>2. ASSUME Matching(S, p, from) # {}, r = c PROVE Deepest(r, S, p, from)
  <2>1. /\ path_is_same_or_child(p, r[from])
        /\ \A s \in Matching(S, p, from) : Len(s[from].parts) <= Len(r[from].parts)
    BY <1>2, LongestIsChosen
  <2> HIDE DEF c
  <2>2. ASSUME NEW s \in S, path_is_same_or_child(p, s[from])
        PROVE  path_is_same_or_child(r[from], s[from])
    <3>1. Len(s[from].parts) <= Len(r[from].parts)
      BY <2>1, <2>2 DEF Matching
    <3>2. QED
      BY <2>1, <2>2, <3>1, PrefixesNest, RuleSides
  <2>3. QED
    BY <2>1, <2>2 DEF Deepest
<1>3. QED
  BY <1>1, <1>2

\* Nothing matches: the path is left alone.
LEMMA UnmappedTrip ==
    ASSUME NEW S, RuleSet(S), NEW p \in Path, Matching(S, p, "remote") = {}
    PROVE  RoundTrips(S, p)
<1>1. remote_to_local(S, p) = p
  BY DEF remote_to_local, map_path
<1>2. \A r \in S : ~ path_is_same_or_child(p, r.remote)
  BY DEF Matching
<1>3. CASE Matching(S, p, "local") = {}
  <2>1. local_to_remote(S, p) = p
    BY <1>3 DEF local_to_remote, map_path
  <2>2. \A r \in S : ~ path_is_same_or_child(p, r.local)
    BY <1>3 DEF Matching
  <2>3. QED
    BY <1>1, <1>2, <2>1, <2>2 DEF RoundTrips, ComesBack
<1>4. CASE Matching(S, p, "local") # {}
  <2> DEFINE s == Chosen(S, p, "local")
  <2>1. s \in S /\ path_is_same_or_child(p, s.local)
    BY <1>4, LongestIsChosen DEF Sides
  <2>2. local_to_remote(S, p) = replace_prefix(p, s.local, s.remote)
    BY <1>4 DEF local_to_remote, map_path
  <2> HIDE DEF s
  <2>3. s.local \in Path /\ s.remote \in Path
    BY <2>1 DEF RuleSet
  <2>4. path_is_same_or_child(replace_prefix(p, s.local, s.remote), s.remote)
    BY <2>1, <2>3, ChildMeans, ReplacedIsBelow
  <2>5. local_to_remote(S, p) # p
    BY <1>2, <2>1, <2>2, <2>4
  <2>6. ~ ComesBack(S, p)
    BY <1>2, <2>1 DEF ComesBack, Deepest
  <2>7. QED
    BY <1>1, <2>5, <2>6 DEF RoundTrips
<1>5. QED
  BY <1>3, <1>4

LEMMA Balance ==
    ASSUME NEW rl \in Nat, NEW rr \in Nat, NEW sl \in Nat, NEW sr \in Nat, NEW m \in Nat, NEW n \in Nat,
           m = rl + n - rr, n = sr + m - sl, sr <= rr, rl <= sl
    PROVE  sr = rr
  OBVIOUS

\* What the rule with the longest remote prefix does, the rule with the longest local prefix
\* undoes only if it is the same rule.
LEMMA SameRuleBack ==
    ASSUME NEW S, RuleSet(S), reject_ambiguous_mappings(S), NEW p \in Path, NEW r \in S, NEW s \in S,
           path_is_same_or_child(p, r.remote),
           \A x \in S : path_is_same_or_child(p, x.remote) => Len(x.remote.parts) <= Len(r.remote.parts),
           path_is_same_or_child(replace_prefix(p, r.remote, r.local), s.local),
           Len(r.local.parts) <= Len(s.local.parts),
           replace_prefix(replace_prefix(p, r.remote, r.local), s.local, s.remote) = p
    PROVE  r = s
<1> DEFINE q == replace_prefix(p, r.remote, r.local)
<1>1. {r.remote, r.local, s.remote, s.local} \subseteq Path
  BY DEF RuleSet
<1>2. Len(r.remote.parts) <= Len(p.parts)
  BY <1>1, ChildMeans
<1>3. q \in Path /\ Len(q.parts) = Len(r.local.parts) + Len(p.parts) - Len(r.remote.parts)
  <2>1. r.remote \in Path /\ r.local \in Path
    BY <1>1
  <2>2. Renamed(q, p, r.remote, r.local)
    BY <1>2, <2>1, Replaced
  <2>3. QED
    BY <2>2 DEF Renamed
<1> HIDE DEF q
<1>4. Len(s.local.parts) <= Len(q.parts)
  BY <1>1, <1>3, ChildMeans DEF q
<1>5. Len(p.parts) = Len(s.remote.parts) + Len(q.parts) - Len(s.local.parts)
  <2> DEFINE b == replace_prefix(q, s.local, s.remote)
  <2>1. Len(b.parts) = Len(s.remote.parts) + Len(q.parts) - Len(s.local.parts)
    <3>1. s.remote \in Path /\ s.local \in Path /\ q \in Path
      BY <1>1, <1>3
    <3>2. QED
      BY <1>4, <3>1, ReplacedLength
  <2>2. b = p
    BY DEF q
  <2>3. QED
    BY <2>1, <2>2
<1>6. path_is_same_or_child(p, s.remote)
  BY <1>1, <1>3, <1>4, ReplacedIsBelow DEF q
<1>7. Len(s.remote.parts) <= Len(r.remote.parts)
  BY <1>6
<1>8. /\ Len(r.local.parts) \in Nat /\ Len(r.remote.parts) \in Nat
      /\ Len(s.local.parts) \in Nat /\ Len(s.remote.parts) \in Nat
      /\ Len(q.parts) \in Nat /\ Len(p.parts) \in Nat
  BY <1>1, <1>3, PathFacts
<1>9. Len(s.remote.parts) = Len(r.remote.parts)
  BY <1>3, <1>5, <1>7, <1>8, Balance
<1>10. QED
  BY <1>6, <1>9, OneOfALength DEF Sides

LEMMA MappedTrip ==
    ASSUME NEW S, RuleSet(S), reject_ambiguous_mappings(S), NEW p \in Path,
           Matching(S, p, "remote") # {}
    PROVE  RoundTrips(S, p)
<1> DEFINE r == Chosen(S, p, "remote")
           q == replace_prefix(p, r.remote, r.local)
           s == Chosen(S, q, "local")
<1>1. /\ r \in S /\ path_is_same_or_child(p, r.remote)
      /\ \A x \in Matching(S, p, "remote") : Len(x.remote.parts) <= Len(r.remote.parts)
  BY LongestIsChosen DEF Sides
<1>2. remote_to_local(S, p) = q
  BY DEF remote_to_local, map_path
<1>3. r.remote \in Path /\ r.local \in Path
  BY <1>1 DEF RuleSet
<1>4. q \in Path /\ path_is_same_or_child(q, r.local)
  <2> HIDE DEF r
  <2>1. Len(r.remote.parts) <= Len(p.parts)
    BY <1>1, <1>3, ChildMeans
  <2>2. q \in Path
    BY <1>3, <2>1, Replaced DEF Renamed
  <2>3. QED
    BY <1>3, <2>1, <2>2, ReplacedIsBelow
<1>5. r \in Matching(S, q, "local")
  BY <1>1, <1>4 DEF Matching
<1>6. /\ s \in S /\ path_is_same_or_child(q, s.local)
      /\ Len(r.local.parts) <= Len(s.local.parts)
  BY <1>4, <1>5, LongestIsChosen DEF Sides
<1>7. local_to_remote(S, q) = replace_prefix(q, s.local, s.remote)
  BY <1>5 DEF local_to_remote, map_path
<1>8. \A x \in S : Deepest(x, S, p, "remote") <=> x = r
  BY DeepestIsChosen DEF Sides
<1>9. \A x \in S : Deepest(x, S, q, "local") <=> x = s
  BY <1>4, <1>5, DeepestIsChosen DEF Sides
<1>10. (replace_prefix(q, r.local, r.remote) = p) <=> ~ p.back /\ IsPrefix(r.remote.parts, p.parts)
  BY <1>1, <1>3, PutBack
<1>11. replace_prefix(q, s.local, s.remote) = p => r = s
  <2>1. \A x \in S : path_is_same_or_child(p, x.remote) => Len(x.remote.parts) <= Len(r.remote.parts)
    BY <1>1 DEF Matching
  <2>2. QED
    BY <1>1, <1>6, <2>1, SameRuleBack
<1>12. ComesBack(S, p) <=> r = s /\ ~ p.back /\ IsPrefix(r.remote.parts, p.parts)
  <2>1. ~ \A x \in S : ~ path_is_same_or_child(p, x.remote) /\ ~ path_is_same_or_child(p, x.local)
    BY <1>1
  <2>2. ComesBack(S, p) <=>
          \E x \in S : /\ Deepest(x, S, p, "remote")
                       /\ Deepest(x, S, replace_prefix(p, x.remote, x.local), "local")
                       /\ ~ p.back /\ IsPrefix(x.remote.parts, p.parts)
    BY <2>1 DEF ComesBack
  <2>3. ASSUME ComesBack(S, p) PROVE r = s /\ ~ p.back /\ IsPrefix(r.remote.parts, p.parts)
    <3>1. PICK x \in S : /\ Deepest(x, S, p, "remote")
                         /\ Deepest(x, S, replace_prefix(p, x.remote, x.local), "local")
                         /\ ~ p.back /\ IsPrefix(x.remote.parts, p.parts)
      BY <2>2, <2>3
    <3>2. x = r
      BY <1>8, <3>1
    <3>3. QED
      BY <1>9, <3>1, <3>2
  <2>4. ASSUME r = s, ~ p.back, IsPrefix(r.remote.parts, p.parts) PROVE ComesBack(S, p)
    <3>1. Deepest(r, S, p, "remote") /\ Deepest(r, S, q, "local")
      BY <1>1, <1>8, <1>9, <2>4
    <3>2. QED
      BY <1>1, <2>2, <2>4, <3>1
  <2>5. QED
    BY <2>3, <2>4
<1> HIDE DEF r, q, s
<1>13. QED
  BY <1>2, <1>7, <1>10, <1>11, <1>12 DEF RoundTrips

(***************************************************************************)
(* For every set of rules without equal prefixes, every number of rules    *)
(* and every path: local_to_remote undoes remote_to_local exactly when     *)
(* ComesBack says so.                                                      *)
(***************************************************************************)
THEOREM PathsComeBack ==
    ASSUME NEW S, RuleSet(S), reject_ambiguous_mappings(S), NEW p \in Path
    PROVE  RoundTrips(S, p)
  BY UnmappedTrip, MappedTrip

\* The rules that the commands leave behind.
RulesOK == rules \subseteq Offered /\ reject_ambiguous_mappings(rules)

LEMMA RulesStep == ASSUME RulesOK, [Next]_vars PROVE RulesOK'
<1>1. CASE UNCHANGED rules
  BY <1>1 DEF RulesOK
<1>2. ASSUME NEW r \in Offered, create_mapping(r) PROVE RulesOK'
  BY <1>2 DEF create_mapping, RulesOK
<1>3. ASSUME NEW r \in Offered, delete_mapping(r) PROVE RulesOK'
  BY <1>3 DEF delete_mapping, RulesOK, reject_ambiguous_mappings
<1>4. ASSUME NEW head \in Heads, NEW T \in SUBSET Offered, create_automatic(head, T)
      PROVE  RulesOK'
  BY <1>4 DEF create_automatic, RulesOK
<1>5. CASE Around
  BY <1>1, <1>2, <1>3, <1>4, <1>5 DEF Around, CodexSaves, UserMakes, UserFills
<1>6. CASE Cleanup
  <2>1. UNCHANGED rules
    BY <1>6 DEF Cleanup, start_cleanup, recover_incomplete_workspace_cleanups, plan_cleanup,
       back_up_global_state, update_begin, update_end, update_recorded, move_check,
       move_rename, move_verify, complete_cleanup, cleanup_fails, rollback_move,
       rollback_state, rollback_replaced, rollback_recorded, rollback_fails
  <2>2. QED
    BY <1>1, <2>1
<1>7. CASE Repair
  BY <1>1, <1>7 DEF Repair, mutate_thread, delete_row, repair_codex_sidebar,
     remove_empty_codex_projects, repair_replaced
<1>8. QED
  BY <1>1, <1>5, <1>6, <1>7 DEF Next, vars, Stop, delete_backup

(***************************************************************************)
(* Under every set of rules that create, create_automatic and delete leave *)
(* behind, a workspace path of a revision comes back from this machine     *)
(* exactly when ComesBack says so.                                         *)
(***************************************************************************)
THEOREM MappingsComeBack == Spec => []MappingRoundTrips
<1>1. Init => RulesOK
  BY CleanupAssumption DEF Init, RulesOK
<1>2. RulesOK /\ [Next]_vars => RulesOK'
  BY RulesStep
<1>3. RulesOK => MappingRoundTrips
  <2> SUFFICES ASSUME RulesOK, NEW p \in UNION Heads PROVE RoundTrips(rules, p)
    BY DEF MappingRoundTrips
  <2>1. RuleSet(rules) /\ p \in Path
    BY CleanupAssumption DEF RulesOK, RuleSet, normalize_rule
  <2>2. QED
    BY <2>1, PathsComeBack DEF RulesOK
<1>4. QED
  BY <1>1, <1>2, <1>3, PTL DEF Spec

=============================================================================
