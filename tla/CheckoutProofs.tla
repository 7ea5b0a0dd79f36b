--------------------------- MODULE CheckoutProofs ---------------------------
(***************************************************************************)
(* Proofs about the checkout and its journal, for any number of paths,     *)
(* databases, checkouts, errors, crashes, races and starts of Codex, and   *)
(* with journal writes that may be torn.                                   *)
(*                                                                         *)
(* The inductive invariant says, for every place where a process can be    *)
(* stopped, which copy of each path and of each database is which.         *)
(***************************************************************************)
EXTENDS Checkout, TLAPS

NSwaps == Len(Swaps)
NDbs == Len(AllDbs)

Applying == {"swap_out", "swap_in", "clear", "fill", "invalidate"}
Undoing == {"undo_live", "undo_restore", "undo_db", "undo_end"}
LocalWrite(status) == status \in {"Applying", "Validating", "LocalApplied", "RecoveryRequired"}
SavingRollback == pc = "save" /\ mem.status \in {"RolledBack", "RecoveryRequired"}

(***************************************************************************)
(* Types: the Home and its copies; the process, with the range of the swap *)
(* or database it is at; the environment.                                  *)
(***************************************************************************)
Plans == [original_existed : SUBSET SwapSet, tracked : BOOLEAN,
          expected_generation : Nat, retain : BOOLEAN]
Budget == [faults : 0..MaxFaults, crashes : Nat, races : Nat, codex : Nat]
Places == 1..NSwaps + NDbs
HomeTyping ==
    /\ op \in Version /\ plan \in Plans
    /\ live \in [SwapSet -> Content] /\ staged \in [SwapSet -> Content]
    /\ backup \in [SwapSet -> Content] /\ failed \in [SwapSet -> Content]
    /\ db \in [DbSet -> Version \cup {Cleared}]
    /\ dbBackup \in [DbSet -> Version \cup {Cleared, Absent}]
    /\ tracking \in [generation : Nat, head : Content]
    /\ base \in [live : [SwapSet -> Content], db : [DbSet -> Version \cup {Cleared}]]
ProcessTyping ==
    /\ disk = NoJournal \/ disk \in Journal
    /\ mem \in Journal
    /\ pc \in Labels
    /\ at \in Places
    /\ recovering \in BOOLEAN /\ failures \in BOOLEAN
    /\ pc \in {"swap_out", "swap_in", "undo_live", "undo_restore"} => at \in 1..NSwaps
    /\ pc \in {"backup", "undo_db"} => at \in 1..NDbs
    /\ pc = "clear" => at \in 1..Len(Dbs)
    /\ pc = "invalidate" => at \in 1..Len(Catalogs)
Typing == HomeTyping /\ ProcessTyping /\ left \in Budget

(***************************************************************************)
(* Which journal a process has in memory and on disk where it is.          *)
(***************************************************************************)
Running ==
    /\ pc # "idle" \/ disk # NoJournal => op > 0
    /\ pc \notin {"idle", "cleanup"} =>
         /\ disk # NoJournal => disk.status \notin Terminal
         /\ mem.status \notin {"Preparing", "RolledBack"} => mem.dbs = NDbs
    /\ pc \in {"stage", "backup"} =>
         mem.status = "Preparing" /\ disk = mem /\ ~ recovering
    /\ pc = "stage" => mem.dbs = 0
    /\ pc = "backup" => at = mem.dbs + 1
    /\ pc \in Applying => mem.status = "Applying" /\ disk = mem /\ ~ recovering
    /\ pc = "validate" => mem.status = "Validating" /\ disk = mem /\ ~ recovering
    /\ pc = "track" => mem.status = "LocalApplied" /\ disk = mem
    /\ pc = "reject" => mem.status = "LocalApplied" /\ disk = mem /\ recovering
    /\ pc = "cleanup" => mem.status = "Completed" /\ disk = mem

Returning ==
    /\ pc = "save" /\ mem.status = "Completed" /\ disk # NoJournal =>
         disk.status = "LocalApplied"
    /\ pc = "save" /\ recovering =>
         mem.status \in {"Completed", "RolledBack", "RecoveryRequired"}
    /\ pc \in Undoing =>
         /\ mem.status \notin Terminal
         /\ failures => LocalWrite(mem.status)
         /\ recovering /\ disk # NoJournal => disk.status # "LocalApplied"
    /\ SavingRollback /\ recovering /\ disk # NoJournal => disk.status # "LocalApplied"
    /\ pc = "undo_db" => LocalWrite(mem.status)
    /\ disk # NoJournal /\ disk.status \notin {"Preparing", "RolledBack"} => disk.dbs = NDbs

(***************************************************************************)
(* Versions grow: what a checkout found is older than what it installs.    *)
(***************************************************************************)
UpTo(f) == \A x \in DOMAIN f : f[x] \in Int => f[x] <= op
Versions ==
    /\ UpTo(live) /\ UpTo(staged) /\ UpTo(backup)
    /\ tracking.head \in Int => tracking.head <= op
    /\ op > 0 => /\ \A s \in SwapSet : base.live[s] # op
                 /\ plan.original_existed = {s \in SwapSet : base.live[s] # Absent}

(***************************************************************************)
(* Where the previous contents of a path are.                              *)
(***************************************************************************)
Completed == disk # NoJournal /\ disk.status = "Completed"
PathKept(s) ==
    /\ backup[s] \in {Absent, base.live[s]}
    /\ backup[s] = Absent /\ base.live[s] # Absent => live[s] = base.live[s]
PathUntouched(s) == backup[s] = Absent /\ live[s] = base.live[s]
PathIsBase(s) == live[s] = base.live[s] \/ (base.live[s] = Absent /\ live[s] = User)
PathReturned(s) == backup[s] = Absent /\ PathIsBase(s)
Early(status) == status \in {"Preparing", "BackedUp"}
AllLive == \A s \in SwapSet : live[s] = op

Paths ==
    /\ ~ Completed => \A s \in SwapSet : PathKept(s)
    /\ pc \in {"stage", "backup"} => \A s \in SwapSet : PathUntouched(s)
    /\ pc = "save" /\ mem.status \in {"Preparing", "BackedUp", "Applying"} =>
         \A s \in SwapSet : PathUntouched(s)
    /\ pc = "backup" => \A s \in SwapSet : staged[s] = op
    /\ pc = "save" /\ mem.status \in {"Preparing", "BackedUp", "Applying"} =>
         \A s \in SwapSet : staged[s] = op
    /\ pc \in {"swap_out", "swap_in"} =>
         \A j \in 1..NSwaps :
           /\ j < at => live[Swaps[j]] = op
           /\ j > at => PathUntouched(Swaps[j])
           /\ j >= at => staged[Swaps[j]] = op
    /\ pc = "swap_out" => PathUntouched(Swaps[at])
    /\ pc = "swap_in" => backup[Swaps[at]] = base.live[Swaps[at]]
    /\ pc \in {"clear", "fill", "invalidate", "validate"} => AllLive
    /\ pc = "save" /\ mem.status \in {"Validating", "LocalApplied"} => AllLive

(***************************************************************************)
(* What a rollback has put back.  A rollback of a journal that reached no  *)
(* local write finds nothing to put back.                                  *)
(***************************************************************************)
PathsReturn ==
    /\ pc \in Undoing /\ Early(mem.status) => \A s \in SwapSet : PathReturned(s)
    /\ disk # NoJournal /\ Early(disk.status) => \A s \in SwapSet : PathReturned(s)
    /\ pc = "undo_live" /\ ~ failures =>
         \A j \in 1..NSwaps : j > at => PathIsBase(Swaps[j])
    /\ pc = "undo_restore" /\ ~ failures =>
         /\ \A j \in 1..NSwaps : j > at => PathIsBase(Swaps[j])
         /\ live[Swaps[at]] = Absent \/ PathReturned(Swaps[at])
    /\ pc \in {"undo_db", "undo_end"} /\ ~ failures => \A s \in SwapSet : PathIsBase(s)
    /\ pc = "save" /\ mem.status = "RolledBack" => \A s \in SwapSet : PathIsBase(s)
    /\ disk # NoJournal /\ disk.status = "RolledBack" => \A s \in SwapSet : PathIsBase(s)

(***************************************************************************)
(* Where the previous contents of a database are.                          *)
(***************************************************************************)
BackedUp(n) == \A i \in 1..n : dbBackup[AllDbs[i]] = base.db[AllDbs[i]]
DbsKept(j) == BackedUp(j.dbs) /\ (j.dbs = NDbs \/ db = base.db)
Databases ==
    /\ ~ Completed => BackedUp(NDbs) \/ db = base.db
    /\ pc \notin {"idle", "cleanup"} => DbsKept(mem)
    /\ disk # NoJournal /\ disk.status \notin Terminal => DbsKept(disk)
    /\ pc \in {"stage", "backup", "swap_out", "swap_in"} => db = base.db
    /\ pc = "save" /\ mem.status \in {"Preparing", "BackedUp", "Applying"} => db = base.db
    /\ pc \in Undoing /\ Early(mem.status) => db = base.db
    /\ disk # NoJournal /\ Early(disk.status) => db = base.db
    /\ pc = "undo_db" /\ ~ failures =>
         \A i \in 1..NDbs : i < at => db[AllDbs[i]] = base.db[AllDbs[i]]
    /\ pc = "undo_end" /\ ~ failures => db = base.db
    /\ pc = "save" /\ mem.status = "RolledBack" => db = base.db
    /\ disk # NoJournal /\ disk.status = "RolledBack" => db = base.db

(***************************************************************************)
(* What a checkout has installed, and when that is the whole target.       *)
(***************************************************************************)
DbsInstalled == \A i \in DOMAIN Dbs : db[Dbs[i]] = TargetDb(Dbs[i])
Target ==
    /\ pc = "clear" => \A i \in 1..Len(Dbs) : i < at => db[Dbs[i]] = Cleared
    /\ pc = "fill" => \A i \in 1..Len(Dbs) : db[Dbs[i]] = Cleared
    /\ pc \in {"invalidate", "validate"} => DbsInstalled
    /\ pc = "save" /\ mem.status \in {"Validating", "LocalApplied"} => DbsInstalled
    /\ pc = "track" => LiveMatchesTarget
    /\ pc = "save" /\ mem.status = "Completed" => LiveMatchesTarget
    /\ Completed => LiveMatchesTarget

(***************************************************************************)
(* Before its first rollback a checkout has moved nothing aside, and its   *)
(* journal says LocalApplied only once the process is past validation.     *)
(***************************************************************************)
NothingFailed == \A s \in SwapSet : failed[s] = Absent
Fresh ==
    /\ pc \in {"stage", "backup", "validate"} \cup Applying => NothingFailed
    /\ pc = "save" /\ mem.status \notin {"Completed", "RolledBack", "RecoveryRequired"} =>
         NothingFailed
    /\ pc = "track" /\ ~ recovering => NothingFailed
    /\ /\ pc = "save" /\ disk # NoJournal
       /\ mem.status \in {"Preparing", "BackedUp", "Applying", "Validating"}
       => disk.status # "LocalApplied"

(***************************************************************************)
(* The catalogues are restored last, and only a failed call for each path  *)
(* leaves a Home that still looks like the target then.                    *)
(***************************************************************************)
DiskApplied == disk # NoJournal /\ disk.status = "LocalApplied"
FirstRollback == pc \in Undoing /\ DiskApplied
CatalogsOK == Errors < NSwaps => CatalogsCleared
LiveCosts(n) == AllLive => Errors >= n
CatalogTarget ==
    /\ pc = "invalidate" => \A i \in 1..Len(Catalogs) : i < at => db[Catalogs[i]] = Cleared
    /\ pc = "validate" => CatalogsCleared
    /\ pc = "save" /\ mem.status \in {"Validating", "LocalApplied"} => CatalogsCleared
    /\ pc = "track" => CatalogsOK
    /\ pc = "save" /\ mem.status = "Completed" => CatalogsOK
    /\ Completed => CatalogsOK
    /\ DiskApplied /\ AllLive => CatalogsOK
    /\ FirstRollback => mem.status = "LocalApplied"
    /\ FirstRollback /\ pc = "undo_live" =>
         /\ CatalogsOK
         /\ \A j \in 1..NSwaps : j <= at => failed[Swaps[j]] = Absent
         /\ LiveCosts(NSwaps - at)
    /\ FirstRollback /\ pc = "undo_restore" =>
         /\ CatalogsOK
         /\ \A j \in 1..NSwaps : j < at => failed[Swaps[j]] = Absent
         /\ LiveCosts(NSwaps - at + 1)
    /\ FirstRollback /\ pc \in {"undo_db", "undo_end"} => LiveCosts(NSwaps)
    /\ SavingRollback /\ DiskApplied => LiveCosts(NSwaps)

(***************************************************************************)
(* When the tracking row may name the revision that is checked out.        *)
(***************************************************************************)
Applied == [generation |-> plan.expected_generation + 1, head |-> op]
Tracking ==
    /\ op > 0 /\ tracking.head = op =>
         /\ disk # NoJournal => disk.status \in {"LocalApplied", "Completed"}
         /\ \/ pc \in {"idle", "cleanup", "reject"}
            \/ pc = "track" /\ recovering
            \/ pc = "save" /\ mem.status = "Completed"
    /\ plan.tracked /\ pc = "save" /\ mem.status = "Completed" =>
         tracking.head = User \/ tracking = Applied
    /\ plan.tracked /\ Completed => tracking.head = User \/ tracking = Applied

CheckoutInv ==
    /\ Typing /\ Running /\ Returning /\ Versions /\ Paths /\ PathsReturn
    /\ Databases /\ Target /\ Fresh /\ CatalogTarget /\ Tracking

-----------------------------------------------------------------------------
(***************************************************************************)
(* The sequences of paths and of databases.                                *)
(***************************************************************************)

\* Every swapped path has exactly one place in the order of the swaps.
LEMMA SwapFacts ==
    /\ NSwaps \in Nat /\ NSwaps > 0
    /\ DOMAIN Swaps = 1..NSwaps
    /\ \A i \in 1..NSwaps : Swaps[i] \in SwapSet
    /\ \A s \in SwapSet : \E i \in 1..NSwaps : s = Swaps[i]
    /\ \A i, j \in 1..NSwaps : Swaps[i] = Swaps[j] => i = j
<1>1. NSwaps \in Nat /\ NSwaps > 0 /\ DOMAIN Swaps = 1..NSwaps
  BY CheckoutAssumption DEF NSwaps
<1>2. QED
  BY <1>1, CheckoutAssumption DEF SwapSet

\* The databases are the thread databases, then the catalogues, each of them once.
LEMMA DbFacts ==
    /\ Len(Dbs) \in Nat /\ Len(Dbs) > 0 /\ Len(Catalogs) \in Nat /\ Len(Catalogs) > 0
    /\ NDbs \in Nat /\ NDbs = Len(Dbs) + Len(Catalogs) /\ NDbs > 0
    /\ DOMAIN AllDbs = 1..NDbs
    /\ DOMAIN Dbs = 1..Len(Dbs) /\ DOMAIN Catalogs = 1..Len(Catalogs)
    /\ \A i \in 1..NDbs : AllDbs[i] \in DbSet
    /\ \A d \in DbSet : \E i \in 1..NDbs : d = AllDbs[i]
    /\ \A i, j \in 1..NDbs : AllDbs[i] = AllDbs[j] => i = j
    /\ \A i \in 1..Len(Dbs) : Dbs[i] \in DbSet /\ AllDbs[i] = Dbs[i]
    /\ \A i \in 1..Len(Catalogs) :
         Catalogs[i] \in DbSet /\ AllDbs[Len(Dbs) + i] = Catalogs[i]
<1>1. Dbs \in Seq(DbSet) /\ Catalogs \in Seq(DbSet)
  BY CheckoutAssumption
<1>2. /\ Len(Dbs) \in Nat /\ Len(Dbs) > 0 /\ Len(Catalogs) \in Nat /\ Len(Catalogs) > 0
      /\ DOMAIN Dbs = 1..Len(Dbs) /\ DOMAIN Catalogs = 1..Len(Catalogs)
      /\ \A i \in 1..Len(Dbs) : Dbs[i] \in DbSet
      /\ \A i \in 1..Len(Catalogs) : Catalogs[i] \in DbSet
  BY <1>1, CheckoutAssumption
<1>3. /\ NDbs = Len(Dbs) + Len(Catalogs)
      /\ AllDbs \in Seq(DbSet)
      /\ \A i \in 1..Len(Dbs) : AllDbs[i] = Dbs[i]
      /\ \A i \in 1..Len(Catalogs) : AllDbs[Len(Dbs) + i] = Catalogs[i]
  BY <1>1, <1>2 DEF NDbs, AllDbs
<1>4. DOMAIN AllDbs = 1..NDbs
  BY <1>3 DEF NDbs
<1>5. /\ \A i \in 1..NDbs : AllDbs[i] \in DbSet
      /\ \A d \in DbSet : \E i \in 1..NDbs : d = AllDbs[i]
  BY <1>4 DEF DbSet
<1>6. \A i, j \in 1..NDbs : AllDbs[i] = AllDbs[j] => i = j
  BY <1>4, CheckoutAssumption
<1>7. QED
  BY <1>2, <1>3, <1>4, <1>5, <1>6

\* No catalogue is a thread database, and the primary one is the first.
LEMMA CatalogFacts ==
    /\ \A i, j \in 1..Len(Dbs) : Dbs[i] = Dbs[j] => i = j
    /\ \A i, j \in 1..Len(Catalogs) : Catalogs[i] = Catalogs[j] => i = j
    /\ \A i \in 1..Len(Dbs), j \in 1..Len(Catalogs) : Dbs[i] # Catalogs[j]
    /\ Primary \in DbSet /\ 1 \in 1..Len(Dbs)
    /\ \A i \in 1..Len(Dbs) : Dbs[i] = Primary => i = 1
    /\ \A i \in 1..Len(Catalogs) : Catalogs[i] # Primary
<1>1. \A i \in 1..Len(Dbs) : i \in 1..NDbs
  BY DbFacts
<1>2. \A i \in 1..Len(Catalogs) : Len(Dbs) + i \in 1..NDbs
  BY DbFacts
<1>3. /\ \A i, j \in 1..Len(Dbs) : Dbs[i] = Dbs[j] => i = j
      /\ \A i, j \in 1..Len(Catalogs) : Catalogs[i] = Catalogs[j] => i = j
      /\ \A i \in 1..Len(Dbs), j \in 1..Len(Catalogs) : Dbs[i] # Catalogs[j]
  <2>1. ASSUME NEW i \in 1..Len(Dbs), NEW j \in 1..Len(Dbs), Dbs[i] = Dbs[j] PROVE i = j
    BY <1>1, <2>1, DbFacts
  <2>2. ASSUME NEW i \in 1..Len(Catalogs), NEW j \in 1..Len(Catalogs), Catalogs[i] = Catalogs[j]
        PROVE  i = j
    <3> DEFINE a == Len(Dbs) + i  b == Len(Dbs) + j
    <3>1. a \in 1..NDbs /\ b \in 1..NDbs /\ AllDbs[a] = AllDbs[b]
      BY <1>2, <2>2, DbFacts
    <3> HIDE DEF a, b
    <3>2. a = b
      BY <3>1, DbFacts
    <3>3. QED
      BY <3>2, DbFacts DEF a, b
  <2>3. ASSUME NEW i \in 1..Len(Dbs), NEW j \in 1..Len(Catalogs), Dbs[i] = Catalogs[j]
        PROVE  FALSE
    <3>1. i = Len(Dbs) + j
      BY <1>1, <1>2, <2>3, DbFacts
    <3>2. QED
      BY <3>1, DbFacts
  <2>4. QED
    BY <2>1, <2>2, <2>3
<1>4. QED
  BY <1>3, DbFacts DEF Primary

\* The numbers of paths and databases.
LEMMA Sizes ==
    /\ NSwaps \in Nat /\ NSwaps > 0 /\ NDbs \in Nat /\ NDbs > 0
    /\ Len(Dbs) \in Nat /\ Len(Dbs) > 0 /\ Len(Catalogs) \in Nat /\ Len(Catalogs) > 0
    /\ NDbs = Len(Dbs) + Len(Catalogs) /\ MaxFaults \in Nat
    /\ NSwaps = Len(Swaps) /\ NDbs = Len(AllDbs)
  BY SwapFacts, DbFacts, CheckoutAssumption DEF NSwaps, NDbs

\* The places a process can be at.
LEMMA PlaceFacts ==
    /\ 1 \in Places /\ 1 \in 1..NSwaps /\ 1 \in 1..NDbs
    /\ 1 \in 1..Len(Dbs) /\ 1 \in 1..Len(Catalogs)
    /\ NSwaps \in 1..NSwaps
    /\ \A i \in 1..NSwaps : i \in Places
    /\ \A i \in 1..NDbs : i \in Places
    /\ \A i \in 1..Len(Dbs) : i \in Places
    /\ \A i \in 1..Len(Catalogs) : i \in Places
  BY Sizes DEF Places

\* What a path or a database can hold.
LEMMA Contents ==
    /\ Version \subseteq Content /\ {Absent, User} \subseteq Content
    /\ Version \subseteq Nat /\ 0 \in Version
    /\ \A v \in Version : v < MaxOps => v + 1 \in Version
    /\ Absent \notin Int /\ User \notin Int /\ Cleared \notin Int
    /\ Absent # User /\ Absent # Cleared
  BY CheckoutAssumption DEF Version, Content

\* A journal is no missing journal.
LEMMA JournalFacts == ASSUME NEW j \in Journal PROVE j # NoJournal
  BY CheckoutAssumption

homestate == <<op, plan, homevars, tracking, base>>

\* Every step keeps the types of the Home and of its copies.
LEMMA HomeTypingStep == ASSUME Typing, Running, Returning, Databases, [Next]_vars PROVE HomeTyping'
<1>1. CASE UNCHANGED homestate
  BY <1>1 DEF Typing, HomeTyping, homestate, homevars
<1>2. ASSUME SaveJournal \/ SaveRejection \/ Validate \/ TrackingFails \/
             UndoEnd \/ Recover \/ StepFails \/ Cancel \/
             SaveFails \/ RollbackFails \/ UndoLiveFails \/ UndoDbFails \/ Crash
      PROVE  UNCHANGED homestate
  BY <1>2 DEF SaveJournal, SaveRejection, Validate, TrackingFails, UndoEnd, Recover,
       StepFails, Cancel, SaveFails, RollbackFails, UndoLiveFails, UndoDbFails, Crash,
       homevars, procvars, homestate
<1>3. CASE Begin
  BY <1>3, Sizes, Contents DEF Begin, Goto, Plans, Typing, HomeTyping, ProcessTyping,
       homevars, procvars
<1>4. CASE stage_rollouts
  BY <1>4, Sizes, Contents DEF stage_rollouts, Goto, Typing, HomeTyping, ProcessTyping,
       homevars, procvars
<1>5. CASE backup_database
  BY <1>5, Sizes, Contents, DbFacts, CatalogFacts DEF backup_database, CopyDatabase, Goto,
       Typing, HomeTyping, ProcessTyping, homevars, procvars
<1>6. CASE SwapOut
  BY <1>6, Sizes, Contents, SwapFacts DEF SwapOut, MoveToBackup, Goto, Typing, HomeTyping,
       ProcessTyping, homevars, procvars
<1>7. CASE SwapIn
  BY <1>7, Sizes, Contents, SwapFacts DEF SwapIn, Goto, Typing, HomeTyping, ProcessTyping,
       homevars, procvars
<1>8. CASE ClearDatabase
  BY <1>8, Sizes, Contents, DbFacts, CatalogFacts DEF ClearDatabase, Goto, Typing,
       HomeTyping, ProcessTyping, homevars, procvars
<1>9. CASE FillPrimary
  BY <1>9, Sizes, Contents, DbFacts, CatalogFacts DEF FillPrimary, Goto, Typing, HomeTyping,
       ProcessTyping, homevars, procvars
<1>10. CASE invalidate_local_thread_catalogs
  BY <1>10, Sizes, Contents, DbFacts, CatalogFacts DEF invalidate_local_thread_catalogs,
       Goto, Typing, HomeTyping, ProcessTyping, homevars, procvars
<1>11. CASE apply_tracking_update
  BY <1>11, Sizes, Contents DEF apply_tracking_update, reconcile_checkout, Goto, Plans,
       Typing, HomeTyping, ProcessTyping, homevars, procvars
<1>12. CASE Cleanup
  BY <1>12, Sizes, Contents DEF Cleanup, Goto, Typing, HomeTyping, ProcessTyping, homevars,
       procvars
<1>13. CASE UndoLive
  <2>1. Swaps[at] \in SwapSet
    BY <1>13, SwapFacts DEF UndoLive, Typing, ProcessTyping
  <2>2. QED
    BY <1>13, <2>1, Contents DEF UndoLive, Typing, HomeTyping
<1>14. CASE UndoRestore
  <2>1. Swaps[at] \in SwapSet
    BY <1>14, SwapFacts DEF UndoRestore, Typing, ProcessTyping
  <2>2. QED
    BY <1>14, <2>1, Contents DEF UndoRestore, NextUndo, Typing, HomeTyping
<1>15. CASE restore_database
  BY <1>15, Sizes, Contents, DbFacts DEF restore_database, NextUndoDb, Goto, Running,
       Databases, DbsKept, BackedUp, Returning, LocalWrite, Typing, HomeTyping,
       ProcessTyping, homevars, procvars
<1>16. CASE UndoRestoreFails
  BY <1>16, Sizes, Contents, SwapFacts DEF UndoRestoreFails, Fault, NextUndo, Goto, Typing,
       HomeTyping, ProcessTyping, homevars, procvars
<1>17. CASE compare_and_set
  BY <1>17, Sizes, Contents DEF compare_and_set, Typing, HomeTyping, ProcessTyping,
       homevars, procvars
<1>18. CASE CodexRuns
  BY <1>18, Sizes, Contents DEF CodexRuns, Unfinished, Typing, HomeTyping, ProcessTyping,
       homevars, procvars
<1>19. CASE UNCHANGED vars
  BY <1>19 DEF vars, homevars, procvars, Typing, HomeTyping, homestate
<1>20. QED
  BY <1>1, <1>2, <1>3, <1>4, <1>5, <1>6, <1>7, <1>8, <1>9, <1>10, <1>11, <1>12, <1>13,
     <1>14, <1>15, <1>16, <1>17, <1>18, <1>19
     DEF Next, Process, Apply, Rollback, Environment

\* Every step keeps the types of the process, and the range it works in.
LEMMA ProcessTypingStep == ASSUME Typing, [Next]_vars PROVE ProcessTyping'
<1>1. CASE UNCHANGED <<disk, procvars>>
  BY <1>1 DEF Typing, ProcessTyping, procvars
<1>2. ASSUME compare_and_set \/ CodexRuns
      PROVE  UNCHANGED <<disk, procvars>>
  BY <1>2 DEF compare_and_set, CodexRuns, homevars, procvars
<1>3. CASE Begin
  <2>1. /\ mem' \in Journal /\ disk' \in Journal
        /\ pc' = "stage" /\ at' = 1 /\ recovering' = FALSE /\ failures' = FALSE
    BY <1>3, Sizes DEF Begin, Goto, Journal, CheckoutStatus
  <2>2. QED
    BY <2>1, PlaceFacts DEF ProcessTyping, Labels
<1>4. CASE Recover
  BY <1>4, Sizes, PlaceFacts DEF Recover, Goto, StartRollback, Unfinished, Typing,
       ProcessTyping, Journal, CheckoutStatus, Labels, Terminal, homevars, procvars
<1>5. CASE SaveJournal
  BY <1>5, Sizes, PlaceFacts DEF SaveJournal, atomic_write_json, Goto, Typing,
       ProcessTyping, Journal, CheckoutStatus, Labels, Terminal, homevars, procvars
<1>6. CASE SaveRejection
  BY <1>6, Sizes, PlaceFacts DEF SaveRejection, atomic_write_json, Goto, Typing,
       ProcessTyping, Journal, CheckoutStatus, Labels, Terminal, homevars, procvars
<1>7. CASE stage_rollouts
  BY <1>7, Sizes, PlaceFacts DEF stage_rollouts, Goto, Typing, ProcessTyping, Journal,
       CheckoutStatus, Labels, Terminal, homevars, procvars
<1>8. CASE backup_database
  <2>1. mem' \in Journal
    <3>1. at \in 0..Len(AllDbs)
      BY <1>8, Sizes DEF backup_database, Typing, ProcessTyping
    <3>2. QED
      BY <1>8, <3>1 DEF backup_database, Typing, ProcessTyping, Journal
  <2>2. QED
    BY <1>8, <2>1, PlaceFacts DEF backup_database, Goto, Typing, ProcessTyping, Labels
<1>9. CASE SwapOut
  BY <1>9, Sizes, PlaceFacts DEF SwapOut, MoveToBackup, Goto, Typing, ProcessTyping,
       Journal, CheckoutStatus, Labels, Terminal, homevars, procvars
<1>10. CASE SwapIn
  BY <1>10, Sizes, PlaceFacts DEF SwapIn, Goto, Typing, ProcessTyping, Journal,
       CheckoutStatus, Labels, Terminal, homevars, procvars
<1>11. CASE ClearDatabase
  BY <1>11, Sizes, PlaceFacts DEF ClearDatabase, Goto, Typing, ProcessTyping, Journal,
       CheckoutStatus, Labels, Terminal, homevars, procvars
<1>12. CASE FillPrimary
  BY <1>12, Sizes, PlaceFacts DEF FillPrimary, Goto, Typing, ProcessTyping, Journal,
       CheckoutStatus, Labels, Terminal, homevars, procvars
<1>13. CASE invalidate_local_thread_catalogs
  BY <1>13, Sizes, PlaceFacts DEF invalidate_local_thread_catalogs, Goto, Typing,
       ProcessTyping, Journal, CheckoutStatus, Labels, Terminal, homevars, procvars
<1>14. CASE Validate
  BY <1>14, Sizes, PlaceFacts DEF Validate, Goto, Typing, ProcessTyping, Journal,
       CheckoutStatus, Labels, Terminal, homevars, procvars
<1>15. CASE apply_tracking_update
  BY <1>15, Sizes, PlaceFacts DEF apply_tracking_update, reconcile_checkout, Goto, Typing,
       ProcessTyping, Journal, CheckoutStatus, Labels, Terminal, homevars, procvars
<1>16. CASE TrackingFails
  BY <1>16, Sizes, PlaceFacts DEF TrackingFails, Raise, StartRollback, Goto, Typing,
       ProcessTyping, Journal, CheckoutStatus, Labels, Terminal, homevars, procvars
<1>17. CASE Cleanup
  BY <1>17, Sizes, PlaceFacts DEF Cleanup, Goto, Typing, ProcessTyping, Journal,
       CheckoutStatus, Labels, Terminal, homevars, procvars
<1>18. CASE UndoLive
  BY <1>18, Sizes, PlaceFacts DEF UndoLive, Goto, Typing, ProcessTyping, Journal,
       CheckoutStatus, Labels, Terminal, homevars, procvars
<1>19. CASE UndoRestore
  BY <1>19, Sizes, PlaceFacts DEF UndoRestore, NextUndo, Goto, Typing, ProcessTyping,
       Journal, CheckoutStatus, Labels, Terminal, homevars, procvars
<1>20. CASE restore_database
  BY <1>20, Sizes, PlaceFacts DEF restore_database, NextUndoDb, Goto, Typing, ProcessTyping,
       Journal, CheckoutStatus, Labels, Terminal, homevars, procvars
<1>21. CASE UndoEnd
  BY <1>21, Sizes, PlaceFacts DEF UndoEnd, RollbackStatus, Goto, Typing, ProcessTyping,
       Journal, CheckoutStatus, Labels, Terminal, homevars, procvars
<1>22. CASE StepFails
  BY <1>22, Sizes, PlaceFacts DEF StepFails, Fault, Raise, StartRollback, Goto, Typing,
       ProcessTyping, Journal, CheckoutStatus, Labels, Terminal, homevars, procvars
<1>23. CASE Cancel
  BY <1>23, Sizes, PlaceFacts DEF Cancel, StartRollback, Goto, Typing, ProcessTyping,
       Journal, CheckoutStatus, Labels, Terminal, homevars, procvars
<1>24. CASE SaveFails
  BY <1>24, Sizes, PlaceFacts DEF SaveFails, Fault, AfterTornWrite, StartRollback, Goto,
       Typing, ProcessTyping, Journal, CheckoutStatus, Labels, Terminal, homevars, procvars
<1>25. CASE RollbackFails
  BY <1>25, Sizes, PlaceFacts DEF RollbackFails, Fault, Goto, Typing, ProcessTyping,
       Journal, CheckoutStatus, Labels, Terminal, homevars, procvars
<1>26. CASE UndoLiveFails
  BY <1>26, Sizes, PlaceFacts DEF UndoLiveFails, Fault, Goto, Typing, ProcessTyping,
       Journal, CheckoutStatus, Labels, Terminal, homevars, procvars
<1>27. CASE UndoRestoreFails
  BY <1>27, Sizes, PlaceFacts DEF UndoRestoreFails, Fault, NextUndo, Goto, Typing,
       ProcessTyping, Journal, CheckoutStatus, Labels, Terminal, homevars, procvars
<1>28. CASE UndoDbFails
  BY <1>28, Sizes, PlaceFacts DEF UndoDbFails, Fault, NextUndoDb, Goto, Typing,
       ProcessTyping, Journal, CheckoutStatus, Labels, Terminal, homevars, procvars
<1>29. CASE Crash
  BY <1>29, Sizes, PlaceFacts DEF Crash, AfterTornWrite, Goto, Typing, ProcessTyping,
       Journal, CheckoutStatus, Labels, Terminal, homevars, procvars
<1>30. CASE UNCHANGED vars
  BY <1>30 DEF vars, homevars, procvars, Typing, ProcessTyping
<1>31. QED
  BY <1>1, <1>2, <1>3, <1>4, <1>5, <1>6, <1>7, <1>8, <1>9, <1>10, <1>11, <1>12, <1>13,
     <1>14, <1>15, <1>16, <1>17, <1>18, <1>19, <1>20, <1>21, <1>22, <1>23, <1>24, <1>25,
     <1>26, <1>27, <1>28, <1>29, <1>30
     DEF Next, Process, Apply, Rollback, Environment

\* The environment spends its budget.
LEMMA BudgetStep == ASSUME Typing, [Next]_vars PROVE left' \in Budget
<1>1. CASE UNCHANGED left
  BY <1>1 DEF Typing
<1>2. ASSUME Begin \/ Recover \/ SaveJournal \/ SaveRejection \/
             stage_rollouts \/ backup_database \/ SwapOut \/ SwapIn \/
             ClearDatabase \/ FillPrimary \/ invalidate_local_thread_catalogs \/ Validate \/
             apply_tracking_update \/ TrackingFails \/ Cleanup \/ UndoLive \/
             UndoRestore \/ restore_database \/ UndoEnd \/ Cancel
      PROVE  UNCHANGED left
  BY <1>2 DEF Begin, Recover, SaveJournal, SaveRejection, stage_rollouts, backup_database,
       SwapOut, SwapIn, ClearDatabase, FillPrimary, invalidate_local_thread_catalogs,
       Validate, apply_tracking_update, TrackingFails, Cleanup, UndoLive, UndoRestore,
       NextUndo, restore_database, UndoEnd, Cancel, homevars, procvars
<1>3. CASE StepFails
  BY <1>3, Sizes DEF StepFails, Fault, Raise, StartRollback, Goto, Typing, Budget, homevars,
       procvars
<1>4. CASE SaveFails
  BY <1>4, Sizes DEF SaveFails, Fault, AfterTornWrite, StartRollback, Goto, Typing, Budget,
       homevars, procvars
<1>5. CASE RollbackFails
  BY <1>5, Sizes DEF RollbackFails, Fault, Goto, Typing, Budget, homevars, procvars
<1>6. CASE UndoLiveFails
  BY <1>6, Sizes DEF UndoLiveFails, Fault, Goto, Typing, Budget, homevars, procvars
<1>7. CASE UndoRestoreFails
  BY <1>7, Sizes DEF UndoRestoreFails, Fault, NextUndo, Goto, Typing, Budget, homevars,
       procvars
<1>8. CASE UndoDbFails
  BY <1>8, Sizes DEF UndoDbFails, Fault, NextUndoDb, Goto, Typing, Budget, homevars,
       procvars
<1>9. CASE Crash
  BY <1>9, Sizes DEF Crash, AfterTornWrite, Goto, Typing, Budget, homevars, procvars
<1>10. CASE compare_and_set
  BY <1>10, Sizes DEF compare_and_set, Typing, Budget, homevars, procvars
<1>11. CASE CodexRuns
  BY <1>11, Sizes DEF CodexRuns, Unfinished, Typing, Budget, homevars, procvars
<1>12. CASE UNCHANGED vars
  BY <1>12 DEF vars, homevars, procvars, Typing
<1>13. QED
  BY <1>1, <1>2, <1>3, <1>4, <1>5, <1>6, <1>7, <1>8, <1>9, <1>10, <1>11, <1>12
     DEF Next, Process, Apply, Rollback, Environment

\* Every step keeps the relation of the journal in memory to the one on disk.
LEMMA RunningStep == ASSUME Typing, Running, Returning, [Next]_vars PROVE Running'
<1>1. CASE UNCHANGED <<op, disk, procvars>>
  BY <1>1 DEF Running, procvars
<1>2. ASSUME compare_and_set \/ CodexRuns
      PROVE  UNCHANGED <<op, disk, procvars>>
  BY <1>2 DEF compare_and_set, CodexRuns, homevars, procvars
<1>3. CASE Begin
  <2>1. /\ op' > 0 /\ mem' = [status |-> "Preparing", dbs |-> 0] /\ disk' = mem'
        /\ pc' = "stage" /\ at' = 1 /\ recovering' = FALSE
    BY <1>3, Contents DEF Begin, Goto, Typing, HomeTyping
  <2>2. QED
    BY <2>1 DEF Running, Applying, Terminal
<1>4. CASE Recover
  <2>1. /\ mem' = disk /\ disk' = disk /\ op' = op /\ recovering' = TRUE
        /\ disk \in Journal /\ disk # NoJournal /\ disk.status \notin Terminal
        /\ \/ pc' \in {"track", "reject"} /\ disk.status = "LocalApplied"
           \/ pc' = "undo_live"
    BY <1>4 DEF Recover, RecoveryTrusts, StartRollback, Goto, Unfinished, Typing, ProcessTyping
  <2>2. QED
    BY <2>1 DEF Running, Returning, Applying, Terminal
<1>5. CASE SaveJournal
  BY <1>5, Sizes DEF SaveJournal, atomic_write_json, Goto, Typing, ProcessTyping, Running,
       Returning, Journal, CheckoutStatus, Terminal, Applying, Undoing, Labels, homevars,
       procvars
<1>6. CASE SaveRejection
  BY <1>6, Sizes DEF SaveRejection, atomic_write_json, Goto, Typing, ProcessTyping, Running,
       Returning, Journal, CheckoutStatus, Terminal, Applying, Undoing, Labels, homevars,
       procvars
<1>7. CASE stage_rollouts
  BY <1>7, Sizes DEF stage_rollouts, Goto, Typing, ProcessTyping, Running, Returning,
       Journal, CheckoutStatus, Terminal, Applying, Undoing, Labels, homevars, procvars
<1>8. CASE backup_database
  BY <1>8, Sizes DEF backup_database, CopyDatabase, Goto, Typing, ProcessTyping, Running,
       Returning, Journal, CheckoutStatus, Terminal, Applying, Undoing, Labels, homevars,
       procvars
<1>9. CASE SwapOut
  BY <1>9, Sizes DEF SwapOut, MoveToBackup, Goto, Typing, ProcessTyping, Running, Returning,
       Journal, CheckoutStatus, Terminal, Applying, Undoing, Labels, homevars, procvars
<1>10. CASE SwapIn
  BY <1>10, Sizes DEF SwapIn, Goto, Typing, ProcessTyping, Running, Returning, Journal,
       CheckoutStatus, Terminal, Applying, Undoing, Labels, homevars, procvars
<1>11. CASE ClearDatabase
  BY <1>11, Sizes DEF ClearDatabase, Goto, Typing, ProcessTyping, Running, Returning,
       Journal, CheckoutStatus, Terminal, Applying, Undoing, Labels, homevars, procvars
<1>12. CASE FillPrimary
  BY <1>12, Sizes DEF FillPrimary, Goto, Typing, ProcessTyping, Running, Returning, Journal,
       CheckoutStatus, Terminal, Applying, Undoing, Labels, homevars, procvars
<1>13. CASE invalidate_local_thread_catalogs
  BY <1>13, Sizes DEF invalidate_local_thread_catalogs, Goto, Typing, ProcessTyping,
       Running, Returning, Journal, CheckoutStatus, Terminal, Applying, Undoing, Labels,
       homevars, procvars
<1>14. CASE Validate
  BY <1>14, Sizes DEF Validate, Goto, Typing, ProcessTyping, Running, Returning, Journal,
       CheckoutStatus, Terminal, Applying, Undoing, Labels, homevars, procvars
<1>15. CASE apply_tracking_update
  BY <1>15, Sizes DEF apply_tracking_update, reconcile_checkout, Goto, Typing,
       ProcessTyping, Running, Returning, Journal, CheckoutStatus, Terminal, Applying,
       Undoing, Labels, homevars, procvars
<1>16. CASE TrackingFails
  BY <1>16, Sizes DEF TrackingFails, Raise, StartRollback, Goto, Typing, ProcessTyping,
       Running, Returning, Journal, CheckoutStatus, Terminal, Applying, Undoing, Labels,
       homevars, procvars
<1>17. CASE Cleanup
  BY <1>17, Sizes DEF Cleanup, Goto, Typing, ProcessTyping, Running, Returning, Journal,
       CheckoutStatus, Terminal, Applying, Undoing, Labels, homevars, procvars
<1>18. CASE UndoLive
  BY <1>18, Sizes DEF UndoLive, Goto, Typing, ProcessTyping, Running, Returning, Journal,
       CheckoutStatus, Terminal, Applying, Undoing, Labels, homevars, procvars
<1>19. CASE UndoRestore
  BY <1>19, Sizes DEF UndoRestore, NextUndo, Goto, Typing, ProcessTyping, Running,
       Returning, Journal, CheckoutStatus, Terminal, Applying, Undoing, Labels, homevars,
       procvars
<1>20. CASE restore_database
  BY <1>20, Sizes DEF restore_database, NextUndoDb, Goto, Typing, ProcessTyping, Running,
       Returning, Journal, CheckoutStatus, Terminal, Applying, Undoing, Labels, homevars,
       procvars
<1>21. CASE UndoEnd
  BY <1>21, Sizes DEF UndoEnd, RollbackStatus, Goto, LocalWrite, Typing, ProcessTyping,
       Running, Returning, Journal, CheckoutStatus, Terminal, Applying, Undoing, Labels,
       homevars, procvars
<1>22. CASE StepFails
  BY <1>22, Sizes DEF StepFails, Fault, Raise, StartRollback, Goto, Typing, ProcessTyping,
       Running, Returning, Journal, CheckoutStatus, Terminal, Applying, Undoing, Labels,
       homevars, procvars
<1>23. CASE Cancel
  BY <1>23, Sizes DEF Cancel, StartRollback, Goto, Typing, ProcessTyping, Running,
       Returning, Journal, CheckoutStatus, Terminal, Applying, Undoing, Labels, homevars,
       procvars
<1>24. CASE SaveFails
  BY <1>24, Sizes DEF SaveFails, Fault, AfterTornWrite, StartRollback, Goto, Typing,
       ProcessTyping, Running, Returning, Journal, CheckoutStatus, Terminal, Applying,
       Undoing, Labels, homevars, procvars
<1>25. CASE RollbackFails
  BY <1>25, Sizes DEF RollbackFails, Fault, Goto, Typing, ProcessTyping, Running, Returning,
       Journal, CheckoutStatus, Terminal, Applying, Undoing, Labels, homevars, procvars
<1>26. CASE UndoLiveFails
  BY <1>26, Sizes DEF UndoLiveFails, Fault, Goto, Typing, ProcessTyping, Running, Returning,
       Journal, CheckoutStatus, Terminal, Applying, Undoing, Labels, homevars, procvars
<1>27. CASE UndoRestoreFails
  BY <1>27, Sizes DEF UndoRestoreFails, Fault, NextUndo, Goto, Typing, ProcessTyping,
       Running, Returning, Journal, CheckoutStatus, Terminal, Applying, Undoing, Labels,
       homevars, procvars
<1>28. CASE UndoDbFails
  BY <1>28, Sizes DEF UndoDbFails, Fault, NextUndoDb, Goto, Typing, ProcessTyping, Running,
       Returning, Journal, CheckoutStatus, Terminal, Applying, Undoing, Labels, homevars,
       procvars
<1>29. CASE Crash
  BY <1>29, Sizes DEF Crash, AfterTornWrite, Goto, Typing, ProcessTyping, Running,
       Returning, Journal, CheckoutStatus, Terminal, Applying, Undoing, Labels, homevars,
       procvars
<1>30. CASE UNCHANGED vars
  BY <1>30 DEF vars, homevars, procvars, Running
<1>31. QED
  BY <1>1, <1>2, <1>3, <1>4, <1>5, <1>6, <1>7, <1>8, <1>9, <1>10, <1>11, <1>12, <1>13,
     <1>14, <1>15, <1>16, <1>17, <1>18, <1>19, <1>20, <1>21, <1>22, <1>23, <1>24, <1>25,
     <1>26, <1>27, <1>28, <1>29, <1>30
     DEF Next, Process, Apply, Rollback, Environment

\* Every step keeps what a process that returns or rolls back may assume.
LEMMA ReturningStep == ASSUME Typing, Running, Returning, [Next]_vars PROVE Returning'
<1>1. CASE UNCHANGED <<op, disk, procvars>>
  BY <1>1 DEF Returning, procvars, SavingRollback
<1>2. ASSUME compare_and_set \/ CodexRuns
      PROVE  UNCHANGED <<op, disk, procvars>>
  BY <1>2 DEF compare_and_set, CodexRuns, homevars, procvars
<1>3. CASE Begin
  BY <1>3, Sizes DEF Begin, Goto, Typing, ProcessTyping, Running, Returning, Journal,
       CheckoutStatus, Terminal, Applying, Undoing, SavingRollback, LocalWrite, homevars,
       procvars
<1>4. CASE Recover
  BY <1>4, Sizes DEF Recover, Goto, StartRollback, Unfinished, RecoveryTrusts, Typing,
       ProcessTyping, Running, Returning, Journal, CheckoutStatus, Terminal, Applying,
       Undoing, SavingRollback, LocalWrite, homevars, procvars
<1>5. CASE SaveJournal
  BY <1>5, Sizes DEF SaveJournal, atomic_write_json, Goto, Typing, ProcessTyping, Running,
       Returning, Journal, CheckoutStatus, Terminal, Applying, Undoing, SavingRollback,
       LocalWrite, homevars, procvars
<1>6. CASE SaveRejection
  BY <1>6, Sizes DEF SaveRejection, atomic_write_json, Goto, Typing, ProcessTyping, Running,
       Returning, Journal, CheckoutStatus, Terminal, Applying, Undoing, SavingRollback,
       LocalWrite, homevars, procvars
<1>7. CASE stage_rollouts
  BY <1>7, Sizes DEF stage_rollouts, Goto, Typing, ProcessTyping, Running, Returning,
       Journal, CheckoutStatus, Terminal, Applying, Undoing, SavingRollback, LocalWrite,
       homevars, procvars
<1>8. CASE backup_database
  BY <1>8, Sizes DEF backup_database, CopyDatabase, Goto, Typing, ProcessTyping, Running,
       Returning, Journal, CheckoutStatus, Terminal, Applying, Undoing, SavingRollback,
       LocalWrite, homevars, procvars
<1>9. CASE SwapOut
  BY <1>9, Sizes DEF SwapOut, MoveToBackup, Goto, Typing, ProcessTyping, Running, Returning,
       Journal, CheckoutStatus, Terminal, Applying, Undoing, SavingRollback, LocalWrite,
       homevars, procvars
<1>10. CASE SwapIn
  BY <1>10, Sizes DEF SwapIn, Goto, Typing, ProcessTyping, Running, Returning, Journal,
       CheckoutStatus, Terminal, Applying, Undoing, SavingRollback, LocalWrite, homevars,
       procvars
<1>11. CASE ClearDatabase
  BY <1>11, Sizes DEF ClearDatabase, Goto, Typing, ProcessTyping, Running, Returning,
       Journal, CheckoutStatus, Terminal, Applying, Undoing, SavingRollback, LocalWrite,
       homevars, procvars
<1>12. CASE FillPrimary
  BY <1>12, Sizes DEF FillPrimary, Goto, Typing, ProcessTyping, Running, Returning, Journal,
       CheckoutStatus, Terminal, Applying, Undoing, SavingRollback, LocalWrite, homevars,
       procvars
<1>13. CASE invalidate_local_thread_catalogs
  BY <1>13, Sizes DEF invalidate_local_thread_catalogs, Goto, Typing, ProcessTyping,
       Running, Returning, Journal, CheckoutStatus, Terminal, Applying, Undoing,
       SavingRollback, LocalWrite, homevars, procvars
<1>14. CASE Validate
  BY <1>14, Sizes DEF Validate, Goto, Typing, ProcessTyping, Running, Returning, Journal,
       CheckoutStatus, Terminal, Applying, Undoing, SavingRollback, LocalWrite, homevars,
       procvars
<1>15. CASE apply_tracking_update
  BY <1>15, Sizes DEF apply_tracking_update, reconcile_checkout, Goto, Typing,
       ProcessTyping, Running, Returning, Journal, CheckoutStatus, Terminal, Applying,
       Undoing, SavingRollback, LocalWrite, homevars, procvars
<1>16. CASE TrackingFails
  BY <1>16, Sizes DEF TrackingFails, Raise, StartRollback, Goto, Typing, ProcessTyping,
       Running, Returning, Journal, CheckoutStatus, Terminal, Applying, Undoing,
       SavingRollback, LocalWrite, homevars, procvars
<1>17. CASE Cleanup
  BY <1>17, Sizes DEF Cleanup, Goto, Typing, ProcessTyping, Running, Returning, Journal,
       CheckoutStatus, Terminal, Applying, Undoing, SavingRollback, LocalWrite, homevars,
       procvars
<1>18. CASE UndoLive
  BY <1>18, Sizes DEF UndoLive, Goto, swap_started, local_write_started, Typing,
       ProcessTyping, Running, Returning, Journal, CheckoutStatus, Terminal, Applying,
       Undoing, SavingRollback, LocalWrite, homevars, procvars
<1>19. CASE UndoRestore
  BY <1>19, Sizes DEF UndoRestore, NextUndo, Goto, local_write_started, Typing,
       ProcessTyping, Running, Returning, Journal, CheckoutStatus, Terminal, Applying,
       Undoing, SavingRollback, LocalWrite, homevars, procvars
<1>20. CASE restore_database
  BY <1>20, Sizes DEF restore_database, NextUndoDb, Goto, Typing, ProcessTyping, Running,
       Returning, Journal, CheckoutStatus, Terminal, Applying, Undoing, SavingRollback,
       LocalWrite, homevars, procvars
<1>21. CASE UndoEnd
  BY <1>21, Sizes DEF UndoEnd, RollbackStatus, Goto, Typing, ProcessTyping, Running,
       Returning, Journal, CheckoutStatus, Terminal, Applying, Undoing, SavingRollback,
       LocalWrite, homevars, procvars
<1>22. CASE StepFails
  BY <1>22, Sizes DEF StepFails, Fault, Raise, StartRollback, Goto, Typing, ProcessTyping,
       Running, Returning, Journal, CheckoutStatus, Terminal, Applying, Undoing,
       SavingRollback, LocalWrite, homevars, procvars
<1>23. CASE Cancel
  BY <1>23, Sizes DEF Cancel, StartRollback, Goto, Typing, ProcessTyping, Running,
       Returning, Journal, CheckoutStatus, Terminal, Applying, Undoing, SavingRollback,
       LocalWrite, homevars, procvars
<1>24. CASE SaveFails
  BY <1>24, Sizes DEF SaveFails, Fault, AfterTornWrite, StartRollback, Goto, Typing,
       ProcessTyping, Running, Returning, Journal, CheckoutStatus, Terminal, Applying,
       Undoing, SavingRollback, LocalWrite, homevars, procvars
<1>25. CASE RollbackFails
  BY <1>25, Sizes DEF RollbackFails, Fault, Goto, Typing, ProcessTyping, Running, Returning,
       Journal, CheckoutStatus, Terminal, Applying, Undoing, SavingRollback, LocalWrite,
       homevars, procvars
<1>26. CASE UndoLiveFails
  BY <1>26, Sizes DEF UndoLiveFails, Fault, Goto, swap_started, local_write_started, Typing,
       ProcessTyping, Running, Returning, Journal, CheckoutStatus, Terminal, Applying,
       Undoing, SavingRollback, LocalWrite, homevars, procvars
<1>27. CASE UndoRestoreFails
  BY <1>27, Sizes DEF UndoRestoreFails, Fault, NextUndo, Goto, swap_started,
       local_write_started, Typing, ProcessTyping, Running, Returning, Journal,
       CheckoutStatus, Terminal, Applying, Undoing, SavingRollback, LocalWrite, homevars,
       procvars
<1>28. CASE UndoDbFails
  BY <1>28, Sizes DEF UndoDbFails, Fault, NextUndoDb, Goto, Typing, ProcessTyping, Running,
       Returning, Journal, CheckoutStatus, Terminal, Applying, Undoing, SavingRollback,
       LocalWrite, homevars, procvars
<1>29. CASE Crash
  BY <1>29, Sizes DEF Crash, AfterTornWrite, Goto, Typing, ProcessTyping, Running,
       Returning, Journal, CheckoutStatus, Terminal, Applying, Undoing, SavingRollback,
       LocalWrite, homevars, procvars
<1>30. CASE UNCHANGED vars
  BY <1>30 DEF vars, homevars, procvars, Returning, SavingRollback
<1>31. QED
  BY <1>1, <1>2, <1>3, <1>4, <1>5, <1>6, <1>7, <1>8, <1>9, <1>10, <1>11, <1>12, <1>13,
     <1>14, <1>15, <1>16, <1>17, <1>18, <1>19, <1>20, <1>21, <1>22, <1>23, <1>24, <1>25,
     <1>26, <1>27, <1>28, <1>29, <1>30
     DEF Next, Process, Apply, Rollback, Environment

versioned == <<op, plan, live, staged, backup, tracking, base>>

\* Every step installs the version of its checkout or an older one.
LEMMA VersionsStep == ASSUME Typing, Versions, [Next]_vars PROVE Versions'
<1>1. CASE UNCHANGED versioned
  BY <1>1 DEF Versions, UpTo, versioned
<1>2. ASSUME Recover \/ SaveJournal \/ SaveRejection \/ backup_database \/
             ClearDatabase \/ FillPrimary \/ invalidate_local_thread_catalogs \/ Validate \/
             TrackingFails \/ restore_database \/ UndoEnd \/ StepFails \/
             Cancel \/ SaveFails \/ RollbackFails \/ UndoLiveFails \/ UndoDbFails \/ Crash
      PROVE  UNCHANGED versioned
  BY <1>2 DEF Recover, SaveJournal, SaveRejection, backup_database, ClearDatabase,
       FillPrimary, invalidate_local_thread_catalogs, Validate, TrackingFails,
       restore_database, UndoEnd, StepFails, Cancel, SaveFails, RollbackFails,
       UndoLiveFails, UndoDbFails, Crash, homevars, procvars, versioned
<1>3. CASE Begin
  BY <1>3, Contents DEF Begin, Goto, Typing, HomeTyping, ProcessTyping, Versions, UpTo,
       homevars, procvars
<1>4. CASE stage_rollouts
  BY <1>4, Contents DEF stage_rollouts, Goto, Typing, HomeTyping, ProcessTyping, Versions,
       UpTo, homevars, procvars
<1>5. CASE SwapOut
  BY <1>5, Contents, SwapFacts DEF SwapOut, MoveToBackup, Goto, Typing, HomeTyping,
       ProcessTyping, Versions, UpTo, homevars, procvars
<1>6. CASE SwapIn
  BY <1>6, Contents, SwapFacts DEF SwapIn, Goto, Typing, HomeTyping, ProcessTyping,
       Versions, UpTo, homevars, procvars
<1>7. CASE apply_tracking_update
  BY <1>7, Contents DEF apply_tracking_update, reconcile_checkout, Goto, Typing, HomeTyping,
       ProcessTyping, Versions, UpTo, homevars, procvars
<1>8. CASE Cleanup
  BY <1>8, Contents DEF Cleanup, Goto, Typing, HomeTyping, ProcessTyping, Versions, UpTo,
       homevars, procvars
<1>9. CASE UndoLive
  <2>1. Swaps[at] \in SwapSet
    BY <1>9, SwapFacts DEF UndoLive, Typing, ProcessTyping
  <2>2. QED
    BY <1>9, <2>1, Contents DEF UndoLive, Typing, HomeTyping, Versions, UpTo
<1>10. CASE UndoRestore
  <2>1. Swaps[at] \in SwapSet
    BY <1>10, SwapFacts DEF UndoRestore, Typing, ProcessTyping
  <2>2. QED
    BY <1>10, <2>1, Contents DEF UndoRestore, NextUndo, Typing, HomeTyping, Versions, UpTo
<1>11. CASE UndoRestoreFails
  BY <1>11, Contents, SwapFacts DEF UndoRestoreFails, Fault, NextUndo, Goto, Typing,
       HomeTyping, ProcessTyping, Versions, UpTo, homevars, procvars
<1>12. CASE compare_and_set
  BY <1>12, Contents DEF compare_and_set, Typing, HomeTyping, ProcessTyping, Versions, UpTo,
       homevars, procvars
<1>13. CASE CodexRuns
  BY <1>13, Contents DEF CodexRuns, Unfinished, Typing, HomeTyping, ProcessTyping, Versions,
       UpTo, homevars, procvars
<1>14. CASE UNCHANGED vars
  BY <1>14 DEF vars, homevars, procvars, Versions, UpTo, versioned
<1>15. QED
  BY <1>1, <1>2, <1>3, <1>4, <1>5, <1>6, <1>7, <1>8, <1>9, <1>10, <1>11, <1>12, <1>13, <1>14
     DEF Next, Process, Apply, Rollback, Environment

\* Every step keeps the previous contents of every path, and knows where they are.
LEMMA PathsStep == ASSUME Typing, Running, Returning, Versions, Paths, [Next]_vars PROVE Paths'
<1>1. CASE UNCHANGED <<op, homevars, disk, procvars, base>>
  BY <1>1 DEF Paths, Completed, PathKept, PathUntouched, AllLive, homevars, procvars
<1>2. ASSUME compare_and_set
      PROVE  UNCHANGED <<op, homevars, disk, procvars, base>>
  BY <1>2 DEF compare_and_set, homevars, procvars
<1>3. CASE Begin
  BY <1>3, Sizes, Contents DEF Begin, Goto, Typing, HomeTyping, ProcessTyping, Running,
       Returning, Paths, Completed, PathKept, PathUntouched, AllLive, Applying, Undoing,
       Terminal, homevars, procvars
<1>4. CASE Recover
  BY <1>4, Sizes, Contents DEF Recover, Goto, StartRollback, Unfinished, Typing, HomeTyping,
       ProcessTyping, Running, Returning, Paths, Completed, PathKept, PathUntouched,
       AllLive, Applying, Undoing, Terminal, homevars, procvars
<1>5. CASE SaveJournal
  <2>1. /\ UNCHANGED <<op, live, staged, backup, base>> /\ disk' = mem
        /\ mem \in Journal /\ mem # NoJournal /\ pc = "save"
    BY <1>5, JournalFacts DEF SaveJournal, atomic_write_json, homevars, Typing, ProcessTyping
  <2>2. ~ Completed /\ \A s \in SwapSet : PathKept(s)
    BY <2>1 DEF Running, Paths, Completed, Terminal
  <2>3. (~ Completed => \A s \in SwapSet : PathKept(s))'
    BY <2>1, <2>2 DEF PathKept
  <2>4. CASE mem.status \in {"Preparing", "BackedUp"}
    <3>1. pc' \in {"backup", "save"} /\ mem'.status \in {"Preparing", "BackedUp", "Applying"}
      BY <1>5, <2>1, <2>4 DEF SaveJournal, Goto, Journal
    <3>2. QED
      BY <2>1, <2>3, <2>4, <3>1 DEF Paths, PathUntouched, AllLive
  <2>5. CASE mem.status = "Applying"
    <3>1. pc' = "swap_out" /\ at' = 1
      BY <1>5, <2>1, <2>5 DEF SaveJournal, Goto
    <3>2. QED
      BY <2>1, <2>3, <2>5, <3>1, SwapFacts DEF Paths, PathUntouched, AllLive
  <2>6. CASE mem.status = "Validating"
    <3>1. pc' = "validate"
      BY <1>5, <2>1, <2>6 DEF SaveJournal, Goto
    <3>2. QED
      BY <2>1, <2>3, <2>6, <3>1 DEF Paths, PathUntouched, AllLive
  <2>7. CASE mem.status \in {"LocalApplied", "Completed", "RolledBack", "RecoveryRequired"}
    <3>1. pc' \in {"track", "cleanup", "idle"}
      BY <1>5, <2>1, <2>7 DEF SaveJournal, Goto
    <3>2. QED
      BY <2>3, <3>1 DEF Paths
  <2>8. QED
    BY <2>1, <2>4, <2>5, <2>6, <2>7 DEF Journal, CheckoutStatus
<1>6. CASE SaveRejection
  BY <1>6, Sizes, Contents DEF SaveRejection, atomic_write_json, Goto, Typing, HomeTyping,
       ProcessTyping, Running, Returning, Paths, Completed, PathKept, PathUntouched,
       AllLive, Applying, Undoing, Terminal, homevars, procvars
<1>7. CASE stage_rollouts
  BY <1>7, Sizes, Contents DEF stage_rollouts, Goto, Typing, HomeTyping, ProcessTyping,
       Running, Returning, Paths, Completed, PathKept, PathUntouched, AllLive, Applying,
       Undoing, Terminal, homevars, procvars
<1>8. CASE backup_database
  BY <1>8, Sizes, Contents DEF backup_database, CopyDatabase, Goto, Typing, HomeTyping,
       ProcessTyping, Running, Returning, Paths, Completed, PathKept, PathUntouched,
       AllLive, Applying, Undoing, Terminal, homevars, procvars
<1>9. CASE SwapOut
  BY <1>9, Sizes, Contents, SwapFacts DEF SwapOut, MoveToBackup, Goto, Typing, HomeTyping,
       ProcessTyping, Running, Returning, Paths, Completed, PathKept, PathUntouched,
       AllLive, Applying, Undoing, Terminal, homevars, procvars
<1>10. CASE SwapIn
  BY <1>10, Sizes, Contents, SwapFacts DEF SwapIn, Goto, Typing, HomeTyping, ProcessTyping,
       Running, Returning, Paths, Completed, PathKept, PathUntouched, AllLive, Applying,
       Undoing, Terminal, homevars, procvars
<1>11. CASE ClearDatabase
  BY <1>11, Sizes, Contents DEF ClearDatabase, Goto, Typing, HomeTyping, ProcessTyping,
       Running, Returning, Paths, Completed, PathKept, PathUntouched, AllLive, Applying,
       Undoing, Terminal, homevars, procvars
<1>12. CASE FillPrimary
  BY <1>12, Sizes, Contents DEF FillPrimary, Goto, Typing, HomeTyping, ProcessTyping,
       Running, Returning, Paths, Completed, PathKept, PathUntouched, AllLive, Applying,
       Undoing, Terminal, homevars, procvars
<1>13. CASE invalidate_local_thread_catalogs
  <2>1. /\ UNCHANGED <<op, live, staged, backup, base, disk>> /\ pc = "invalidate"
        /\ pc' = "invalidate" \/ (pc' = "save" /\ mem'.status = "Validating")
    BY <1>13 DEF invalidate_local_thread_catalogs, Goto, Typing, ProcessTyping, Journal
  <2>2. QED
    BY <2>1 DEF Paths, Completed, PathKept, PathUntouched, AllLive
<1>14. CASE Validate
  BY <1>14, Sizes, Contents DEF Validate, Goto, Typing, HomeTyping, ProcessTyping, Running,
       Returning, Paths, Completed, PathKept, PathUntouched, AllLive, Applying, Undoing,
       Terminal, homevars, procvars
<1>15. CASE apply_tracking_update
  BY <1>15, Sizes, Contents DEF apply_tracking_update, reconcile_checkout, Goto, Typing,
       HomeTyping, ProcessTyping, Running, Returning, Paths, Completed, PathKept,
       PathUntouched, AllLive, Applying, Undoing, Terminal, homevars, procvars
<1>16. CASE TrackingFails
  BY <1>16, Sizes, Contents DEF TrackingFails, Raise, StartRollback, Goto, Typing,
       HomeTyping, ProcessTyping, Running, Returning, Paths, Completed, PathKept,
       PathUntouched, AllLive, Applying, Undoing, Terminal, homevars, procvars
<1>17. CASE Cleanup
  <2>1. Completed' /\ pc' = "idle"
    BY <1>17, JournalFacts DEF Cleanup, Goto, Running, Completed, Typing, ProcessTyping
  <2>2. QED
    BY <2>1 DEF Paths
<1>18. CASE UndoLive
  <2> DEFINE s == Swaps[at]
  <2>1. /\ s \in SwapSet /\ op > 0 /\ ~ Completed
        /\ UNCHANGED <<op, plan, backup, base, disk>> /\ pc' = "undo_restore"
    BY <1>18, SwapFacts DEF UndoLive, Goto, Typing, ProcessTyping, Running, Completed, Terminal
  <2>2. \A r \in SwapSet \ {s} : live'[r] = live[r]
    BY <1>18, <2>1 DEF UndoLive, Typing, HomeTyping
  <2>3. live'[s] # live[s] => backup[s] # Absent \/ base.live[s] = Absent
    BY <1>18, <2>1 DEF UndoLive, swap_started, Versions
  <2> HIDE DEF s
  <2>4. \A r \in SwapSet : PathKept(r)'
    BY <2>1, <2>2, <2>3 DEF Paths, PathKept
  <2>5. QED
    BY <2>1, <2>4 DEF Paths
<1>19. CASE UndoRestore
  BY <1>19, Sizes, Contents, SwapFacts DEF UndoRestore, NextUndo, Goto, Typing, HomeTyping,
       ProcessTyping, Running, Returning, Paths, Completed, PathKept, PathUntouched,
       AllLive, Applying, Undoing, Terminal, homevars, procvars
<1>20. CASE restore_database
  BY <1>20, Sizes, Contents DEF restore_database, NextUndoDb, Goto, Typing, HomeTyping,
       ProcessTyping, Running, Returning, Paths, Completed, PathKept, PathUntouched,
       AllLive, Applying, Undoing, Terminal, homevars, procvars
<1>21. CASE UndoEnd
  BY <1>21, Sizes, Contents DEF UndoEnd, RollbackStatus, Goto, Typing, HomeTyping,
       ProcessTyping, Running, Returning, Paths, Completed, PathKept, PathUntouched,
       AllLive, Applying, Undoing, Terminal, homevars, procvars
<1>22. CASE StepFails
  BY <1>22, Sizes, Contents DEF StepFails, Fault, Raise, StartRollback, Goto, Typing,
       HomeTyping, ProcessTyping, Running, Returning, Paths, Completed, PathKept,
       PathUntouched, AllLive, Applying, Undoing, Terminal, homevars, procvars
<1>23. CASE Cancel
  BY <1>23, Sizes, Contents DEF Cancel, StartRollback, Goto, Typing, HomeTyping,
       ProcessTyping, Running, Returning, Paths, Completed, PathKept, PathUntouched,
       AllLive, Applying, Undoing, Terminal, homevars, procvars
<1>24. CASE SaveFails
  BY <1>24, Sizes, Contents DEF SaveFails, Fault, AfterTornWrite, StartRollback, Goto,
       Typing, HomeTyping, ProcessTyping, Running, Returning, Paths, Completed, PathKept,
       PathUntouched, AllLive, Applying, Undoing, Terminal, homevars, procvars
<1>25. CASE RollbackFails
  BY <1>25, Sizes, Contents DEF RollbackFails, Fault, Goto, Typing, HomeTyping,
       ProcessTyping, Running, Returning, Paths, Completed, PathKept, PathUntouched,
       AllLive, Applying, Undoing, Terminal, homevars, procvars
<1>26. CASE UndoLiveFails
  BY <1>26, Sizes, Contents DEF UndoLiveFails, Fault, Goto, Typing, HomeTyping,
       ProcessTyping, Running, Returning, Paths, Completed, PathKept, PathUntouched,
       AllLive, Applying, Undoing, Terminal, homevars, procvars
<1>27. CASE UndoRestoreFails
  BY <1>27, Sizes, Contents, SwapFacts DEF UndoRestoreFails, Fault, NextUndo, Goto, Typing,
       HomeTyping, ProcessTyping, Running, Returning, Paths, Completed, PathKept,
       PathUntouched, AllLive, Applying, Undoing, Terminal, homevars, procvars
<1>28. CASE UndoDbFails
  BY <1>28, Sizes, Contents DEF UndoDbFails, Fault, NextUndoDb, Goto, Typing, HomeTyping,
       ProcessTyping, Running, Returning, Paths, Completed, PathKept, PathUntouched,
       AllLive, Applying, Undoing, Terminal, homevars, procvars
<1>29. CASE Crash
  BY <1>29, Sizes, Contents DEF Crash, AfterTornWrite, Goto, Typing, HomeTyping,
       ProcessTyping, Running, Returning, Paths, Completed, PathKept, PathUntouched,
       AllLive, Applying, Undoing, Terminal, homevars, procvars
<1>30. CASE CodexRuns
  BY <1>30, Sizes, Contents DEF CodexRuns, Unfinished, Typing, HomeTyping, ProcessTyping,
       Running, Returning, Paths, Completed, PathKept, PathUntouched, AllLive, Applying,
       Undoing, Terminal, homevars, procvars
<1>31. CASE UNCHANGED vars
  BY <1>31 DEF vars, homevars, procvars, Paths, Completed, PathKept, PathUntouched, AllLive
<1>32. QED
  BY <1>1, <1>2, <1>3, <1>4, <1>5, <1>6, <1>7, <1>8, <1>9, <1>10, <1>11, <1>12, <1>13,
     <1>14, <1>15, <1>16, <1>17, <1>18, <1>19, <1>20, <1>21, <1>22, <1>23, <1>24, <1>25,
     <1>26, <1>27, <1>28, <1>29, <1>30, <1>31
     DEF Next, Process, Apply, Rollback, Environment

\* Every step of a rollback puts one path back, or records that it failed.
LEMMA PathsReturnStep == ASSUME Typing, Running, Returning, Versions, Paths, PathsReturn, [Next]_vars PROVE PathsReturn'
<1>1. CASE UNCHANGED <<op, homevars, disk, procvars, base>>
  BY <1>1 DEF PathsReturn, PathIsBase, PathReturned, Early, Undoing, homevars, procvars
<1>2. ASSUME compare_and_set
      PROVE  UNCHANGED <<op, homevars, disk, procvars, base>>
  BY <1>2 DEF compare_and_set, homevars, procvars
<1>3. CASE Begin
  BY <1>3, Sizes, Contents DEF Begin, Goto, Typing, HomeTyping, ProcessTyping, Running,
       Returning, PathsReturn, PathIsBase, PathReturned, Early, Applying, Undoing, Terminal,
       homevars, procvars
<1>4. CASE Recover
  BY <1>4, Sizes, Contents DEF Recover, Goto, StartRollback, Unfinished, Typing, HomeTyping,
       ProcessTyping, Running, Returning, PathsReturn, PathIsBase, PathReturned, Early,
       Applying, Undoing, Terminal, homevars, procvars
<1>5. CASE SaveJournal
  BY <1>5, Sizes, Contents DEF SaveJournal, atomic_write_json, Goto, Paths, PathUntouched,
       Journal, Typing, HomeTyping, ProcessTyping, Running, Returning, PathsReturn,
       PathIsBase, PathReturned, Early, Applying, Undoing, Terminal, homevars, procvars
<1>6. CASE SaveRejection
  BY <1>6, Sizes, Contents DEF SaveRejection, atomic_write_json, Goto, Typing, HomeTyping,
       ProcessTyping, Running, Returning, PathsReturn, PathIsBase, PathReturned, Early,
       Applying, Undoing, Terminal, homevars, procvars
<1>7. CASE stage_rollouts
  BY <1>7, Sizes, Contents DEF stage_rollouts, Goto, Typing, HomeTyping, ProcessTyping,
       Running, Returning, PathsReturn, PathIsBase, PathReturned, Early, Applying, Undoing,
       Terminal, homevars, procvars
<1>8. CASE backup_database
  BY <1>8, Sizes, Contents DEF backup_database, CopyDatabase, Goto, Typing, HomeTyping,
       ProcessTyping, Running, Returning, PathsReturn, PathIsBase, PathReturned, Early,
       Applying, Undoing, Terminal, homevars, procvars
<1>9. CASE SwapOut
  BY <1>9, Sizes, Contents DEF SwapOut, MoveToBackup, Goto, Typing, HomeTyping,
       ProcessTyping, Running, Returning, PathsReturn, PathIsBase, PathReturned, Early,
       Applying, Undoing, Terminal, homevars, procvars
<1>10. CASE SwapIn
  BY <1>10, Sizes, Contents DEF SwapIn, Goto, Typing, HomeTyping, ProcessTyping, Running,
       Returning, PathsReturn, PathIsBase, PathReturned, Early, Applying, Undoing, Terminal,
       homevars, procvars
<1>11. CASE ClearDatabase
  BY <1>11, Sizes, Contents DEF ClearDatabase, Goto, Typing, HomeTyping, ProcessTyping,
       Running, Returning, PathsReturn, PathIsBase, PathReturned, Early, Applying, Undoing,
       Terminal, homevars, procvars
<1>12. CASE FillPrimary
  BY <1>12, Sizes, Contents DEF FillPrimary, Goto, Typing, HomeTyping, ProcessTyping,
       Running, Returning, PathsReturn, PathIsBase, PathReturned, Early, Applying, Undoing,
       Terminal, homevars, procvars
<1>13. CASE invalidate_local_thread_catalogs
  <2>1. /\ UNCHANGED <<op, live, staged, backup, base, disk>>
        /\ pc' = "invalidate" \/ (pc' = "save" /\ mem'.status = "Validating")
    BY <1>13 DEF invalidate_local_thread_catalogs, Goto, Typing, ProcessTyping, Journal
  <2>2. QED
    BY <2>1 DEF PathsReturn, PathIsBase, PathReturned, Undoing
<1>14. CASE Validate
  BY <1>14, Sizes, Contents DEF Validate, Goto, Typing, HomeTyping, ProcessTyping, Running,
       Returning, PathsReturn, PathIsBase, PathReturned, Early, Applying, Undoing, Terminal,
       homevars, procvars
<1>15. CASE apply_tracking_update
  BY <1>15, Sizes, Contents DEF apply_tracking_update, reconcile_checkout, Goto, Typing,
       HomeTyping, ProcessTyping, Running, Returning, PathsReturn, PathIsBase, PathReturned,
       Early, Applying, Undoing, Terminal, homevars, procvars
<1>16. CASE TrackingFails
  BY <1>16, Sizes, Contents DEF TrackingFails, Raise, StartRollback, Goto, Typing,
       HomeTyping, ProcessTyping, Running, Returning, PathsReturn, PathIsBase, PathReturned,
       Early, Applying, Undoing, Terminal, homevars, procvars
<1>17. CASE Cleanup
  BY <1>17, Sizes, Contents, JournalFacts DEF Cleanup, Goto, Typing, HomeTyping,
       ProcessTyping, Running, Returning, PathsReturn, PathIsBase, PathReturned, Early,
       Applying, Undoing, Terminal, homevars, procvars
<1>18. CASE UndoLive
  <2> DEFINE s == Swaps[at]
  <2>1. /\ s \in SwapSet /\ op > 0 /\ at \in 1..NSwaps /\ PathKept(s)
        /\ \A j \in 1..NSwaps : j > at => Swaps[j] \in SwapSet \ {s}
    BY <1>18, SwapFacts DEF UndoLive, Typing, ProcessTyping, Running, Completed, Terminal, Paths
  <2>2. /\ UNCHANGED <<op, plan, backup, base, disk, mem>>
        /\ pc = "undo_live" /\ pc' = "undo_restore" /\ at' = at
        /\ ~ failures' => ~ failures
    BY <1>18 DEF UndoLive, Goto, Typing, ProcessTyping
  <2>3. \A r \in SwapSet \ {s} : live'[r] = live[r]
    BY <1>18, <2>1 DEF UndoLive, Typing, HomeTyping
  <2>4. \/ live' = live
        \/ live'[s] = Absent /\ (backup[s] # Absent \/ base.live[s] = Absent) /\ ~ Early(mem.status)
    BY <1>18, <2>1 DEF UndoLive, swap_started, local_write_started, Early, Versions, Typing, HomeTyping
  <2>5. ~ failures' => live'[s] = Absent \/ PathReturned(s)'
    <3>1. CASE live' # live
      BY <2>4, <3>1
    <3>2. CASE live' = live /\ live[s] # Absent /\ ~ failures'
      <4>1. ~ swap_started(s)
        BY <1>18, <3>2, <2>1 DEF UndoLive, Typing, HomeTyping
      <4>2. CASE Early(mem.status)
        BY <4>2, <3>2, <2>1, <2>2 DEF PathsReturn, PathReturned, PathIsBase, Undoing
      <4>3. CASE ~ Early(mem.status)
        <5>1. local_write_started
          BY <4>3, <2>2 DEF Early, local_write_started, Returning, Undoing, Terminal,
               Typing, ProcessTyping, Journal, CheckoutStatus
        <5>2. backup[s] = Absent /\ base.live[s] # Absent
          BY <4>1, <5>1, <3>2, <2>1 DEF swap_started, Versions
        <5>3. QED
          BY <5>2, <3>2, <2>1, <2>2 DEF PathKept, PathReturned, PathIsBase
      <4>4. QED
        BY <4>2, <4>3
    <3>3. QED
      BY <3>1, <3>2
  <2> HIDE DEF s
  <2>6. disk # NoJournal /\ Early(disk.status) => \A r \in SwapSet : PathReturned(r)'
    BY <2>1, <2>2, <2>3, <2>4 DEF PathsReturn, PathReturned, PathIsBase
  <2>7. ~ failures' => \A j \in 1..NSwaps : j > at => PathIsBase(Swaps[j])'
    BY <2>1, <2>2, <2>3 DEF PathsReturn, PathIsBase
  <2>8. Early(mem.status) => \A r \in SwapSet : PathReturned(r)'
    BY <2>2, <2>4 DEF PathsReturn, PathReturned, PathIsBase, Undoing
  <2>9. disk # NoJournal => disk.status # "RolledBack"
    BY <2>2 DEF Running, Terminal
  <2>10. QED
    BY <2>2, <2>5, <2>6, <2>7, <2>8, <2>9 DEF PathsReturn, s, Early
<1>19. CASE UndoRestore
  <2>0. PICK s \in SwapSet : s = Swaps[at]
    BY <1>19, SwapFacts DEF UndoRestore, Typing, ProcessTyping
  <2>1. /\ s \in SwapSet /\ op > 0 /\ at \in 1..NSwaps /\ PathKept(s)
        /\ \A j \in 1..NSwaps : j > at => Swaps[j] \in SwapSet \ {s}
    BY <1>19, <2>0, SwapFacts DEF UndoRestore, Typing, ProcessTyping, Running, Completed, Terminal, Paths
  <2>2. /\ UNCHANGED <<op, plan, base, disk, mem, failures>> /\ pc = "undo_restore"
        /\ \/ pc' = "undo_live" /\ at' = at - 1
           \/ pc' \in {"undo_db", "undo_end"} /\ at = 1
    BY <1>19, <2>0, <2>1 DEF UndoRestore, NextUndo, Goto
  <2>3. \A r \in SwapSet \ {s} : live'[r] = live[r] /\ backup'[r] = backup[r]
    BY <1>19, <2>0, <2>1 DEF UndoRestore, Typing, HomeTyping
  <2>4. \/ live' = live /\ backup' = backup
        \/ /\ backup[s] # Absent /\ ~ Early(mem.status)
           /\ live'[s] = backup[s] /\ backup'[s] = Absent
    BY <1>19, <2>0, <2>1 DEF UndoRestore, swap_started, local_write_started, Early, Typing, HomeTyping
  <2>5. ~ failures => PathIsBase(s)'
    <3>1. CASE live' # live \/ backup' # backup
      BY <2>1, <2>2, <2>4, <3>1 DEF PathIsBase, PathKept
    <3>2. CASE live' = live /\ backup' = backup /\ ~ failures
      <4>1. CASE PathReturned(s)
        BY <4>1, <3>2, <2>2 DEF PathReturned, PathIsBase
      <4>2. CASE ~ PathReturned(s)
        <5>1. live[s] = Absent /\ ~ Early(mem.status)
          BY <4>2, <3>2, <2>0, <2>1, <2>2 DEF PathsReturn, Undoing
        <5>2. local_write_started
          BY <5>1, <2>2 DEF Early, local_write_started, Returning, Undoing, Terminal,
               Typing, ProcessTyping, Journal, CheckoutStatus
        <5>3. backup[s] = Absent
          BY <1>19, <5>1, <5>2, <3>2, <2>0, <2>1 DEF UndoRestore, swap_started, Typing, HomeTyping
        <5>4. QED
          BY <5>1, <5>3, <3>2, <2>1, <2>2 DEF PathKept, PathIsBase
      <4>3. QED
        BY <4>1, <4>2
    <3>3. QED
      BY <3>1, <3>2
  <2>6. disk # NoJournal /\ Early(disk.status) => \A r \in SwapSet : PathReturned(r)'
    BY <2>1, <2>2, <2>3, <2>4 DEF PathsReturn, PathReturned, PathIsBase
  <2>7. ~ failures => \A j \in 1..NSwaps : j >= at => PathIsBase(Swaps[j])'
    BY <2>1, <2>2, <2>3, <2>5, <2>0, Sizes DEF PathsReturn, PathIsBase
  <2>8. Early(mem.status) => \A r \in SwapSet : PathReturned(r)'
    BY <2>2, <2>4 DEF PathsReturn, PathReturned, PathIsBase, Undoing
  <2>9. disk # NoJournal => disk.status # "RolledBack"
    BY <2>2 DEF Running, Terminal
  <2>10. CASE pc' = "undo_live" /\ at' = at - 1
    <3>1. \A j \in 1..NSwaps : j > at' => j >= at
      BY <2>1, <2>10, Sizes
    <3>2. QED
      BY <2>2, <2>6, <2>7, <2>8, <2>9, <2>10, <3>1 DEF PathsReturn, Early
  <2>11. CASE pc' \in {"undo_db", "undo_end"} /\ at = 1
    <3>1. ~ failures => \A r \in SwapSet : PathIsBase(r)'
      BY <2>7, <2>11, SwapFacts
    <3>2. QED
      BY <2>2, <2>6, <2>8, <2>9, <2>11, <3>1 DEF PathsReturn, Early
  <2>12. QED
    BY <2>2, <2>10, <2>11
<1>20. CASE restore_database
  BY <1>20, Sizes, Contents DEF restore_database, NextUndoDb, Goto, Typing, HomeTyping,
       ProcessTyping, Running, Returning, PathsReturn, PathIsBase, PathReturned, Early,
       Applying, Undoing, Terminal, homevars, procvars
<1>21. CASE UndoEnd
  BY <1>21, Sizes, Contents DEF UndoEnd, RollbackStatus, Goto, LocalWrite, Typing,
       HomeTyping, ProcessTyping, Running, Returning, PathsReturn, PathIsBase, PathReturned,
       Early, Applying, Undoing, Terminal, homevars, procvars
<1>22. CASE StepFails
  BY <1>22, Sizes, Contents DEF StepFails, Fault, Raise, StartRollback, Goto, Paths,
       PathUntouched, Typing, HomeTyping, ProcessTyping, Running, Returning, PathsReturn,
       PathIsBase, PathReturned, Early, Applying, Undoing, Terminal, homevars, procvars
<1>23. CASE Cancel
  BY <1>23, Sizes, Contents DEF Cancel, StartRollback, Goto, Paths, PathUntouched, Typing,
       HomeTyping, ProcessTyping, Running, Returning, PathsReturn, PathIsBase, PathReturned,
       Early, Applying, Undoing, Terminal, homevars, procvars
<1>24. CASE SaveFails
  BY <1>24, Sizes, Contents DEF SaveFails, Fault, AfterTornWrite, StartRollback, Goto,
       Paths, PathUntouched, Typing, HomeTyping, ProcessTyping, Running, Returning,
       PathsReturn, PathIsBase, PathReturned, Early, Applying, Undoing, Terminal, homevars,
       procvars
<1>25. CASE RollbackFails
  BY <1>25, Sizes, Contents DEF RollbackFails, Fault, Goto, Typing, HomeTyping,
       ProcessTyping, Running, Returning, PathsReturn, PathIsBase, PathReturned, Early,
       Applying, Undoing, Terminal, homevars, procvars
<1>26. CASE UndoLiveFails
  BY <1>26, Sizes, Contents, SwapFacts DEF UndoLiveFails, Fault, Goto, Typing, HomeTyping,
       ProcessTyping, Running, Returning, PathsReturn, PathIsBase, PathReturned, Early,
       Applying, Undoing, Terminal, homevars, procvars
<1>27. CASE UndoRestoreFails
  BY <1>27, Sizes, Contents, SwapFacts DEF UndoRestoreFails, Fault, NextUndo, Goto, Typing,
       HomeTyping, ProcessTyping, Running, Returning, PathsReturn, PathIsBase, PathReturned,
       Early, Applying, Undoing, Terminal, homevars, procvars
<1>28. CASE UndoDbFails
  BY <1>28, Sizes, Contents DEF UndoDbFails, Fault, NextUndoDb, Goto, Typing, HomeTyping,
       ProcessTyping, Running, Returning, PathsReturn, PathIsBase, PathReturned, Early,
       Applying, Undoing, Terminal, homevars, procvars
<1>29. CASE Crash
  BY <1>29, Sizes, Contents DEF Crash, AfterTornWrite, Goto, Typing, HomeTyping,
       ProcessTyping, Running, Returning, PathsReturn, PathIsBase, PathReturned, Early,
       Applying, Undoing, Terminal, homevars, procvars
<1>30. CASE CodexRuns
  BY <1>30, Sizes, Contents DEF CodexRuns, Unfinished, Typing, HomeTyping, ProcessTyping,
       Running, Returning, PathsReturn, PathIsBase, PathReturned, Early, Applying, Undoing,
       Terminal, homevars, procvars
<1>31. CASE UNCHANGED vars
  BY <1>31 DEF vars, homevars, procvars, PathsReturn, PathIsBase, PathReturned, Early,
       Undoing
<1>32. QED
  BY <1>1, <1>2, <1>3, <1>4, <1>5, <1>6, <1>7, <1>8, <1>9, <1>10, <1>11, <1>12, <1>13,
     <1>14, <1>15, <1>16, <1>17, <1>18, <1>19, <1>20, <1>21, <1>22, <1>23, <1>24, <1>25,
     <1>26, <1>27, <1>28, <1>29, <1>30, <1>31
     DEF Next, Process, Apply, Rollback, Environment

\* Every step keeps the previous contents of every database, and a rollback puts them back.
LEMMA DatabasesStep == ASSUME Typing, Running, Returning, Databases, [Next]_vars PROVE Databases'
<1>1. CASE UNCHANGED <<op, homevars, disk, procvars, base>>
  BY <1>1 DEF Databases, DbsKept, BackedUp, Completed, Early, Undoing, homevars, procvars
<1>2. ASSUME compare_and_set
      PROVE  UNCHANGED <<op, homevars, disk, procvars, base>>
  BY <1>2 DEF compare_and_set, homevars, procvars
<1>3. CASE Begin
  BY <1>3, Sizes, JournalFacts DEF Begin, Goto, Typing, HomeTyping, ProcessTyping, Running,
       Returning, Databases, DbsKept, BackedUp, Completed, Early, Applying, Undoing,
       Terminal, homevars, procvars
<1>4. CASE Recover
  BY <1>4, Sizes, JournalFacts DEF Recover, Goto, StartRollback, Unfinished, Typing,
       HomeTyping, ProcessTyping, Running, Returning, Databases, DbsKept, BackedUp,
       Completed, Early, Applying, Undoing, Terminal, homevars, procvars
<1>5. CASE SaveJournal
  BY <1>5, Sizes, JournalFacts DEF SaveJournal, atomic_write_json, Goto, Journal,
       CheckoutStatus, Typing, HomeTyping, ProcessTyping, Running, Returning, Databases,
       DbsKept, BackedUp, Completed, Early, Applying, Undoing, Terminal, homevars, procvars
<1>6. CASE SaveRejection
  BY <1>6, Sizes, JournalFacts DEF SaveRejection, atomic_write_json, Goto, Typing,
       HomeTyping, ProcessTyping, Running, Returning, Databases, DbsKept, BackedUp,
       Completed, Early, Applying, Undoing, Terminal, homevars, procvars
<1>7. CASE stage_rollouts
  BY <1>7, Sizes, JournalFacts DEF stage_rollouts, Goto, Typing, HomeTyping, ProcessTyping,
       Running, Returning, Databases, DbsKept, BackedUp, Completed, Early, Applying,
       Undoing, Terminal, homevars, procvars
<1>8. CASE backup_database
  <2>1. /\ pc = "backup" /\ at \in 1..NDbs /\ at = mem.dbs + 1 /\ disk = mem /\ db = base.db
        /\ BackedUp(mem.dbs) /\ mem \in Journal /\ mem.status = "Preparing"
    BY <1>8 DEF backup_database, Typing, ProcessTyping, Running, Databases, DbsKept
  <2>2. /\ UNCHANGED <<db, base, disk>> /\ pc' = "save"
        /\ mem'.dbs = at /\ mem'.status = "Preparing"
    BY <1>8, <2>1 DEF backup_database, Goto, Journal
  <2>3. \A i \in 1..NDbs :
          dbBackup'[AllDbs[i]] = IF i = at THEN base.db[AllDbs[i]] ELSE dbBackup[AllDbs[i]]
    BY <1>8, <2>1, DbFacts DEF backup_database, CopyDatabase, Typing, HomeTyping
  <2>4. BackedUp(mem.dbs)' /\ BackedUp(disk.dbs)'
    <3>1. \A i \in 1..at : i \in 1..NDbs /\ (i = at \/ i \in 1..mem.dbs)
      BY <2>1, Sizes DEF Journal
    <3>2. \A i \in 1..mem.dbs : i \in 1..at
      BY <2>1, Sizes DEF Journal
    <3>3. \A i \in 1..at : dbBackup'[AllDbs[i]] = base.db[AllDbs[i]]
      BY <2>1, <2>3, <3>1 DEF BackedUp
    <3>4. \A i \in 1..(mem'.dbs) : dbBackup'[AllDbs[i]] = base'.db[AllDbs[i]]
      BY <2>2, <3>3
    <3>5. \A i \in 1..(disk'.dbs) : dbBackup'[AllDbs[i]] = base'.db[AllDbs[i]]
      BY <2>1, <2>2, <3>2, <3>3
    <3>6. QED
      BY <3>4, <3>5 DEF BackedUp
  <2>5. QED
    BY <2>1, <2>2, <2>4 DEF Databases, DbsKept, Completed, Undoing
<1>9. CASE SwapOut
  BY <1>9, Sizes, JournalFacts DEF SwapOut, MoveToBackup, Goto, Typing, HomeTyping,
       ProcessTyping, Running, Returning, Databases, DbsKept, BackedUp, Completed, Early,
       Applying, Undoing, Terminal, homevars, procvars
<1>10. CASE SwapIn
  BY <1>10, Sizes, JournalFacts DEF SwapIn, Goto, Typing, HomeTyping, ProcessTyping,
       Running, Returning, Databases, DbsKept, BackedUp, Completed, Early, Applying,
       Undoing, Terminal, homevars, procvars
<1>11. CASE ClearDatabase
  BY <1>11, Sizes, JournalFacts, DbFacts, CatalogFacts DEF ClearDatabase, Goto, Typing,
       HomeTyping, ProcessTyping, Running, Returning, Databases, DbsKept, BackedUp,
       Completed, Early, Applying, Undoing, Terminal, homevars, procvars
<1>12. CASE FillPrimary
  BY <1>12, Sizes, JournalFacts, DbFacts, CatalogFacts DEF FillPrimary, Goto, Typing,
       HomeTyping, ProcessTyping, Running, Returning, Databases, DbsKept, BackedUp,
       Completed, Early, Applying, Undoing, Terminal, homevars, procvars
<1>13. CASE invalidate_local_thread_catalogs
  <2>1. /\ pc = "invalidate" /\ disk = mem /\ mem \in Journal /\ mem.status = "Applying"
        /\ mem.dbs = NDbs /\ BackedUp(NDbs)
    BY <1>13 DEF invalidate_local_thread_catalogs, Typing, ProcessTyping, Running, Databases,
         DbsKept, Applying
  <2>2. /\ UNCHANGED <<dbBackup, base, disk>> /\ mem'.dbs = NDbs
        /\ pc' = "invalidate" \/ (pc' = "save" /\ mem'.status = "Validating")
    BY <1>13, <2>1 DEF invalidate_local_thread_catalogs, Goto, Journal
  <2>3. QED
    BY <2>1, <2>2 DEF Databases, DbsKept, BackedUp, Completed, Undoing, Early
<1>14. CASE Validate
  BY <1>14, Sizes, JournalFacts DEF Validate, Goto, Typing, HomeTyping, ProcessTyping,
       Running, Returning, Databases, DbsKept, BackedUp, Completed, Early, Applying,
       Undoing, Terminal, homevars, procvars
<1>15. CASE apply_tracking_update
  BY <1>15, Sizes, JournalFacts DEF apply_tracking_update, reconcile_checkout, Goto, Typing,
       HomeTyping, ProcessTyping, Running, Returning, Databases, DbsKept, BackedUp,
       Completed, Early, Applying, Undoing, Terminal, homevars, procvars
<1>16. CASE TrackingFails
  BY <1>16, Sizes, JournalFacts DEF TrackingFails, Raise, StartRollback, Goto, Typing,
       HomeTyping, ProcessTyping, Running, Returning, Databases, DbsKept, BackedUp,
       Completed, Early, Applying, Undoing, Terminal, homevars, procvars
<1>17. CASE Cleanup
  BY <1>17, Sizes, JournalFacts DEF Cleanup, Goto, Typing, HomeTyping, ProcessTyping,
       Running, Returning, Databases, DbsKept, BackedUp, Completed, Early, Applying,
       Undoing, Terminal, homevars, procvars
<1>18. CASE UndoLive
  BY <1>18, Sizes, JournalFacts DEF UndoLive, Goto, Typing, HomeTyping, ProcessTyping,
       Running, Returning, Databases, DbsKept, BackedUp, Completed, Early, Applying,
       Undoing, Terminal, homevars, procvars
<1>19. CASE UndoRestore
  BY <1>19, Sizes, JournalFacts DEF UndoRestore, NextUndo, Goto, local_write_started,
       Journal, CheckoutStatus, Typing, HomeTyping, ProcessTyping, Running, Returning,
       Databases, DbsKept, BackedUp, Completed, Early, Applying, Undoing, Terminal,
       homevars, procvars
<1>20. CASE restore_database
  <2>1. /\ pc = "undo_db" /\ at \in 1..NDbs /\ mem.dbs = NDbs /\ BackedUp(NDbs)
        /\ ~ Early(mem.status) /\ (disk # NoJournal => disk.status \notin Terminal)
    BY <1>20 DEF restore_database, Typing, ProcessTyping, Running, Returning, LocalWrite, Databases,
         DbsKept, Early
  <2>2. /\ UNCHANGED <<dbBackup, base, disk, mem, failures>>
        /\ \/ pc' = "undo_db" /\ at < NDbs /\ at' = at + 1
           \/ pc' = "undo_end" /\ at = NDbs
    BY <1>20, <2>1, Sizes DEF restore_database, NextUndoDb, Goto
  <2>3. /\ db' \in [DbSet -> Version \cup {Cleared}]
        /\ \A i \in 1..NDbs : db'[AllDbs[i]] = IF i = at THEN base.db[AllDbs[i]] ELSE db[AllDbs[i]]
    <3>1. dbBackup[AllDbs[at]] = base.db[AllDbs[at]] /\ AllDbs[at] \in DbSet
      BY <2>1, DbFacts DEF BackedUp
    <3>2. QED
      BY <1>20, <2>1, <3>1, DbFacts DEF restore_database, Typing, HomeTyping
  <2>4. ASSUME \A i \in 1..NDbs : db'[AllDbs[i]] = base.db[AllDbs[i]]
        PROVE  db' = base.db
    BY <2>3, <2>4, DbFacts DEF Typing, HomeTyping
  <2>5. db = base.db => db' = base.db
    BY <2>3, <2>4
  <2>6. ~ failures => \A i \in 1..NDbs : i <= at => db'[AllDbs[i]] = base.db[AllDbs[i]]
    BY <2>1, <2>3, Sizes DEF Databases
  <2>7. CASE pc' = "undo_db" /\ at < NDbs /\ at' = at + 1
    <3>1. \A i \in 1..NDbs : i < at' => i <= at
      BY <2>1, <2>7, Sizes
    <3>2. QED
      BY <2>1, <2>2, <2>5, <2>6, <2>7, <3>1 DEF Databases, DbsKept, BackedUp, Completed, Undoing,
           Early, Terminal
  <2>8. CASE pc' = "undo_end" /\ at = NDbs
    <3>1. ~ failures => db' = base.db
      BY <2>4, <2>6, <2>8, Sizes
    <3>2. QED
      BY <2>1, <2>2, <2>5, <2>8, <3>1 DEF Databases, DbsKept, BackedUp, Completed, Undoing,
           Early, Terminal
  <2>9. QED
    BY <2>2, <2>7, <2>8
<1>21. CASE UndoEnd
  BY <1>21, Sizes, JournalFacts DEF UndoEnd, RollbackStatus, Goto, LocalWrite, Typing,
       HomeTyping, ProcessTyping, Running, Returning, Databases, DbsKept, BackedUp,
       Completed, Early, Applying, Undoing, Terminal, homevars, procvars
<1>22. CASE StepFails
  BY <1>22, Sizes, JournalFacts DEF StepFails, Fault, Raise, StartRollback, Goto, Typing,
       HomeTyping, ProcessTyping, Running, Returning, Databases, DbsKept, BackedUp,
       Completed, Early, Applying, Undoing, Terminal, homevars, procvars
<1>23. CASE Cancel
  BY <1>23, Sizes, JournalFacts DEF Cancel, StartRollback, Goto, Journal, Typing,
       HomeTyping, ProcessTyping, Running, Returning, Databases, DbsKept, BackedUp,
       Completed, Early, Applying, Undoing, Terminal, homevars, procvars
<1>24. CASE SaveFails
  BY <1>24, Sizes, JournalFacts DEF SaveFails, Fault, AfterTornWrite, StartRollback, Goto,
       Typing, HomeTyping, ProcessTyping, Running, Returning, Databases, DbsKept, BackedUp,
       Completed, Early, Applying, Undoing, Terminal, homevars, procvars
<1>25. CASE RollbackFails
  BY <1>25, Sizes, JournalFacts DEF RollbackFails, Fault, Goto, Typing, HomeTyping,
       ProcessTyping, Running, Returning, Databases, DbsKept, BackedUp, Completed, Early,
       Applying, Undoing, Terminal, homevars, procvars
<1>26. CASE UndoLiveFails
  BY <1>26, Sizes, JournalFacts DEF UndoLiveFails, Fault, Goto, Typing, HomeTyping,
       ProcessTyping, Running, Returning, Databases, DbsKept, BackedUp, Completed, Early,
       Applying, Undoing, Terminal, homevars, procvars
<1>27. CASE UndoRestoreFails
  BY <1>27, Sizes, JournalFacts DEF UndoRestoreFails, Fault, NextUndo, Goto,
       local_write_started, Typing, HomeTyping, ProcessTyping, Running, Returning,
       Databases, DbsKept, BackedUp, Completed, Early, Applying, Undoing, Terminal,
       homevars, procvars
<1>28. CASE UndoDbFails
  BY <1>28, Sizes, JournalFacts DEF UndoDbFails, Fault, NextUndoDb, Goto, LocalWrite,
       Typing, HomeTyping, ProcessTyping, Running, Returning, Databases, DbsKept, BackedUp,
       Completed, Early, Applying, Undoing, Terminal, homevars, procvars
<1>29. CASE Crash
  BY <1>29, Sizes, JournalFacts DEF Crash, AfterTornWrite, Goto, Typing, HomeTyping,
       ProcessTyping, Running, Returning, Databases, DbsKept, BackedUp, Completed, Early,
       Applying, Undoing, Terminal, homevars, procvars
<1>30. CASE CodexRuns
  BY <1>30, Sizes, JournalFacts DEF CodexRuns, Unfinished, Typing, HomeTyping,
       ProcessTyping, Running, Returning, Databases, DbsKept, BackedUp, Completed, Early,
       Applying, Undoing, Terminal, homevars, procvars
<1>31. CASE UNCHANGED vars
  BY <1>31 DEF vars, homevars, procvars, Databases, DbsKept, BackedUp, Completed, Early,
       Undoing
<1>32. QED
  BY <1>1, <1>2, <1>3, <1>4, <1>5, <1>6, <1>7, <1>8, <1>9, <1>10, <1>11, <1>12, <1>13,
     <1>14, <1>15, <1>16, <1>17, <1>18, <1>19, <1>20, <1>21, <1>22, <1>23, <1>24, <1>25,
     <1>26, <1>27, <1>28, <1>29, <1>30, <1>31
     DEF Next, Process, Apply, Rollback, Environment

\* A checkout that is validated, tracked or completed has installed every path and thread
\* database.
LEMMA TargetStep == ASSUME Typing, Running, Returning, Paths, Target, [Next]_vars PROVE Target'
<1>1. CASE UNCHANGED <<op, homevars, disk, procvars, base>>
  BY <1>1 DEF Target, Completed, LiveMatchesTarget, DbsInstalled, TargetDb, homevars,
       procvars
<1>2. ASSUME compare_and_set
      PROVE  UNCHANGED <<op, homevars, disk, procvars, base>>
  BY <1>2 DEF compare_and_set, homevars, procvars
<1>3. CASE Begin
  BY <1>3, Sizes, JournalFacts DEF Begin, Goto, Typing, HomeTyping, ProcessTyping, Running,
       Returning, Target, Completed, LiveMatchesTarget, DbsInstalled, TargetDb, Applying,
       Undoing, Terminal, homevars, procvars
<1>4. CASE Recover
  BY <1>4, Sizes, JournalFacts DEF Recover, Goto, StartRollback, Unfinished, RecoveryTrusts,
       Typing, HomeTyping, ProcessTyping, Running, Returning, Target, Completed,
       LiveMatchesTarget, DbsInstalled, TargetDb, Applying, Undoing, Terminal, homevars,
       procvars
<1>5. CASE SaveJournal
  BY <1>5, Sizes, JournalFacts DEF SaveJournal, atomic_write_json, Goto, Paths, AllLive,
       Journal, Typing, HomeTyping, ProcessTyping, Running, Returning, Target, Completed,
       LiveMatchesTarget, DbsInstalled, TargetDb, Applying, Undoing, Terminal, homevars,
       procvars
<1>6. CASE SaveRejection
  BY <1>6, Sizes, JournalFacts DEF SaveRejection, atomic_write_json, Goto, Typing,
       HomeTyping, ProcessTyping, Running, Returning, Target, Completed, LiveMatchesTarget,
       DbsInstalled, TargetDb, Applying, Undoing, Terminal, homevars, procvars
<1>7. CASE stage_rollouts
  BY <1>7, Sizes, JournalFacts DEF stage_rollouts, Goto, Typing, HomeTyping, ProcessTyping,
       Running, Returning, Target, Completed, LiveMatchesTarget, DbsInstalled, TargetDb,
       Applying, Undoing, Terminal, homevars, procvars
<1>8. CASE backup_database
  BY <1>8, Sizes, JournalFacts DEF backup_database, CopyDatabase, Goto, Typing, HomeTyping,
       ProcessTyping, Running, Returning, Target, Completed, LiveMatchesTarget,
       DbsInstalled, TargetDb, Applying, Undoing, Terminal, homevars, procvars
<1>9. CASE SwapOut
  BY <1>9, Sizes, JournalFacts DEF SwapOut, MoveToBackup, Goto, Typing, HomeTyping,
       ProcessTyping, Running, Returning, Target, Completed, LiveMatchesTarget,
       DbsInstalled, TargetDb, Applying, Undoing, Terminal, homevars, procvars
<1>10. CASE SwapIn
  BY <1>10, Sizes, JournalFacts DEF SwapIn, Goto, Typing, HomeTyping, ProcessTyping,
       Running, Returning, Target, Completed, LiveMatchesTarget, DbsInstalled, TargetDb,
       Applying, Undoing, Terminal, homevars, procvars
<1>11. CASE ClearDatabase
  BY <1>11, Sizes, JournalFacts, DbFacts, CatalogFacts DEF ClearDatabase, Goto, Typing,
       HomeTyping, ProcessTyping, Running, Returning, Target, Completed, LiveMatchesTarget,
       DbsInstalled, TargetDb, Applying, Undoing, Terminal, homevars, procvars
<1>12. CASE FillPrimary
  BY <1>12, Sizes, JournalFacts, DbFacts, CatalogFacts DEF FillPrimary, Goto, Typing,
       HomeTyping, ProcessTyping, Running, Returning, Target, Completed, LiveMatchesTarget,
       DbsInstalled, TargetDb, Applying, Undoing, Terminal, homevars, procvars
<1>13. CASE invalidate_local_thread_catalogs
  <2>1. /\ pc = "invalidate" /\ disk = mem /\ mem \in Journal /\ mem.status = "Applying"
        /\ at \in 1..Len(Catalogs) /\ UNCHANGED <<op, live, disk>>
        /\ pc' = "invalidate" \/ (pc' = "save" /\ mem'.status = "Validating")
    BY <1>13 DEF invalidate_local_thread_catalogs, Goto, Typing, ProcessTyping, Running, Journal,
         Applying
  <2>2. \A i \in 1..Len(Dbs) : db'[Dbs[i]] = db[Dbs[i]]
    BY <1>13, <2>1, DbFacts, CatalogFacts DEF invalidate_local_thread_catalogs, Typing, HomeTyping
  <2>3. DbsInstalled'
    BY <2>1, <2>2, DbFacts DEF Target, DbsInstalled, TargetDb
  <2>4. QED
    BY <2>1, <2>3 DEF Target, Completed
<1>14. CASE Validate
  BY <1>14, Sizes, JournalFacts DEF Validate, Goto, Typing, HomeTyping, ProcessTyping,
       Running, Returning, Target, Completed, LiveMatchesTarget, DbsInstalled, TargetDb,
       Applying, Undoing, Terminal, homevars, procvars
<1>15. CASE apply_tracking_update
  BY <1>15, Sizes, JournalFacts DEF apply_tracking_update, reconcile_checkout, Goto, Typing,
       HomeTyping, ProcessTyping, Running, Returning, Target, Completed, LiveMatchesTarget,
       DbsInstalled, TargetDb, Applying, Undoing, Terminal, homevars, procvars
<1>16. CASE TrackingFails
  BY <1>16, Sizes, JournalFacts DEF TrackingFails, Raise, StartRollback, Goto, Typing,
       HomeTyping, ProcessTyping, Running, Returning, Target, Completed, LiveMatchesTarget,
       DbsInstalled, TargetDb, Applying, Undoing, Terminal, homevars, procvars
<1>17. CASE Cleanup
  BY <1>17, Sizes, JournalFacts DEF Cleanup, Goto, Typing, HomeTyping, ProcessTyping,
       Running, Returning, Target, Completed, LiveMatchesTarget, DbsInstalled, TargetDb,
       Applying, Undoing, Terminal, homevars, procvars
<1>18. CASE UndoLive
  BY <1>18, Sizes, JournalFacts DEF UndoLive, Goto, Typing, HomeTyping, ProcessTyping,
       Running, Returning, Target, Completed, LiveMatchesTarget, DbsInstalled, TargetDb,
       Applying, Undoing, Terminal, homevars, procvars
<1>19. CASE UndoRestore
  BY <1>19, Sizes, JournalFacts DEF UndoRestore, NextUndo, Goto, Typing, HomeTyping,
       ProcessTyping, Running, Returning, Target, Completed, LiveMatchesTarget,
       DbsInstalled, TargetDb, Applying, Undoing, Terminal, homevars, procvars
<1>20. CASE restore_database
  BY <1>20, Sizes, JournalFacts DEF restore_database, NextUndoDb, Goto, Typing, HomeTyping,
       ProcessTyping, Running, Returning, Target, Completed, LiveMatchesTarget,
       DbsInstalled, TargetDb, Applying, Undoing, Terminal, homevars, procvars
<1>21. CASE UndoEnd
  BY <1>21, Sizes, JournalFacts DEF UndoEnd, RollbackStatus, Goto, Typing, HomeTyping,
       ProcessTyping, Running, Returning, Target, Completed, LiveMatchesTarget,
       DbsInstalled, TargetDb, Applying, Undoing, Terminal, homevars, procvars
<1>22. CASE StepFails
  BY <1>22, Sizes, JournalFacts DEF StepFails, Fault, Raise, StartRollback, Goto, Typing,
       HomeTyping, ProcessTyping, Running, Returning, Target, Completed, LiveMatchesTarget,
       DbsInstalled, TargetDb, Applying, Undoing, Terminal, homevars, procvars
<1>23. CASE Cancel
  BY <1>23, Sizes, JournalFacts DEF Cancel, StartRollback, Goto, Typing, HomeTyping,
       ProcessTyping, Running, Returning, Target, Completed, LiveMatchesTarget,
       DbsInstalled, TargetDb, Applying, Undoing, Terminal, homevars, procvars
<1>24. CASE SaveFails
  BY <1>24, Sizes, JournalFacts DEF SaveFails, Fault, AfterTornWrite, StartRollback, Goto,
       Typing, HomeTyping, ProcessTyping, Running, Returning, Target, Completed,
       LiveMatchesTarget, DbsInstalled, TargetDb, Applying, Undoing, Terminal, homevars,
       procvars
<1>25. CASE RollbackFails
  BY <1>25, Sizes, JournalFacts DEF RollbackFails, Fault, Goto, Typing, HomeTyping,
       ProcessTyping, Running, Returning, Target, Completed, LiveMatchesTarget,
       DbsInstalled, TargetDb, Applying, Undoing, Terminal, homevars, procvars
<1>26. CASE UndoLiveFails
  BY <1>26, Sizes, JournalFacts DEF UndoLiveFails, Fault, Goto, Typing, HomeTyping,
       ProcessTyping, Running, Returning, Target, Completed, LiveMatchesTarget,
       DbsInstalled, TargetDb, Applying, Undoing, Terminal, homevars, procvars
<1>27. CASE UndoRestoreFails
  BY <1>27, Sizes, JournalFacts DEF UndoRestoreFails, Fault, NextUndo, Goto, Typing,
       HomeTyping, ProcessTyping, Running, Returning, Target, Completed, LiveMatchesTarget,
       DbsInstalled, TargetDb, Applying, Undoing, Terminal, homevars, procvars
<1>28. CASE UndoDbFails
  BY <1>28, Sizes, JournalFacts DEF UndoDbFails, Fault, NextUndoDb, Goto, Typing,
       HomeTyping, ProcessTyping, Running, Returning, Target, Completed, LiveMatchesTarget,
       DbsInstalled, TargetDb, Applying, Undoing, Terminal, homevars, procvars
<1>29. CASE Crash
  BY <1>29, Sizes, JournalFacts DEF Crash, AfterTornWrite, Goto, Typing, HomeTyping,
       ProcessTyping, Running, Returning, Target, Completed, LiveMatchesTarget,
       DbsInstalled, TargetDb, Applying, Undoing, Terminal, homevars, procvars
<1>30. CASE CodexRuns
  BY <1>30, Sizes, JournalFacts DEF CodexRuns, Unfinished, Typing, HomeTyping,
       ProcessTyping, Running, Returning, Target, Completed, LiveMatchesTarget,
       DbsInstalled, TargetDb, Applying, Undoing, Terminal, homevars, procvars
<1>31. CASE UNCHANGED vars
  BY <1>31 DEF vars, homevars, procvars, Target, Completed, LiveMatchesTarget, DbsInstalled,
       TargetDb
<1>32. QED
  BY <1>1, <1>2, <1>3, <1>4, <1>5, <1>6, <1>7, <1>8, <1>9, <1>10, <1>11, <1>12, <1>13,
     <1>14, <1>15, <1>16, <1>17, <1>18, <1>19, <1>20, <1>21, <1>22, <1>23, <1>24, <1>25,
     <1>26, <1>27, <1>28, <1>29, <1>30, <1>31
     DEF Next, Process, Apply, Rollback, Environment

\* The tracking row names the target only once the checkout is past every rollback.
LEMMA TrackingStep == ASSUME Typing, Running, Returning, Versions, Tracking, [Next]_vars PROVE Tracking'
<1>1. CASE Begin
  BY <1>1, Contents, JournalFacts DEF Begin, Goto, Versions, Typing, HomeTyping,
       ProcessTyping, Running, Returning, Tracking, Applied, Completed, Applying, Undoing,
       Terminal, homevars, procvars
<1>2. CASE Recover
  BY <1>2, Contents, JournalFacts DEF Recover, Goto, StartRollback, Unfinished,
       RecoveryTrusts, Typing, HomeTyping, ProcessTyping, Running, Returning, Tracking,
       Applied, Completed, Applying, Undoing, Terminal, homevars, procvars
<1>3. CASE SaveJournal
  BY <1>3, Contents, JournalFacts DEF SaveJournal, atomic_write_json, Goto, Journal, Typing,
       HomeTyping, ProcessTyping, Running, Returning, Tracking, Applied, Completed,
       Applying, Undoing, Terminal, homevars, procvars
<1>4. CASE SaveRejection
  BY <1>4, Contents, JournalFacts DEF SaveRejection, atomic_write_json, Goto, Typing,
       HomeTyping, ProcessTyping, Running, Returning, Tracking, Applied, Completed,
       Applying, Undoing, Terminal, homevars, procvars
<1>5. CASE stage_rollouts
  BY <1>5, Contents, JournalFacts DEF stage_rollouts, Goto, Typing, HomeTyping,
       ProcessTyping, Running, Returning, Tracking, Applied, Completed, Applying, Undoing,
       Terminal, homevars, procvars
<1>6. CASE backup_database
  BY <1>6, Contents, JournalFacts DEF backup_database, CopyDatabase, Goto, Typing,
       HomeTyping, ProcessTyping, Running, Returning, Tracking, Applied, Completed,
       Applying, Undoing, Terminal, homevars, procvars
<1>7. CASE SwapOut
  BY <1>7, Contents, JournalFacts DEF SwapOut, MoveToBackup, Goto, Typing, HomeTyping,
       ProcessTyping, Running, Returning, Tracking, Applied, Completed, Applying, Undoing,
       Terminal, homevars, procvars
<1>8. CASE SwapIn
  BY <1>8, Contents, JournalFacts DEF SwapIn, Goto, Typing, HomeTyping, ProcessTyping,
       Running, Returning, Tracking, Applied, Completed, Applying, Undoing, Terminal,
       homevars, procvars
<1>9. CASE ClearDatabase
  BY <1>9, Contents, JournalFacts DEF ClearDatabase, Goto, Typing, HomeTyping,
       ProcessTyping, Running, Returning, Tracking, Applied, Completed, Applying, Undoing,
       Terminal, homevars, procvars
<1>10. CASE FillPrimary
  BY <1>10, Contents, JournalFacts DEF FillPrimary, Goto, Typing, HomeTyping, ProcessTyping,
       Running, Returning, Tracking, Applied, Completed, Applying, Undoing, Terminal,
       homevars, procvars
<1>11. CASE invalidate_local_thread_catalogs
  <2>1. /\ pc = "invalidate" /\ disk = mem /\ mem.status = "Applying"
        /\ UNCHANGED <<op, plan, tracking, disk>>
        /\ pc' = "invalidate" \/ (pc' = "save" /\ mem'.status = "Validating")
    BY <1>11 DEF invalidate_local_thread_catalogs, Goto, Typing, ProcessTyping, Running, Journal,
         Applying
  <2>2. QED
    BY <2>1 DEF Tracking, Applied, Completed
<1>12. CASE Validate
  BY <1>12, Contents, JournalFacts DEF Validate, Goto, Typing, HomeTyping, ProcessTyping,
       Running, Returning, Tracking, Applied, Completed, Applying, Undoing, Terminal,
       homevars, procvars
<1>13. CASE apply_tracking_update
  BY <1>13, Contents, JournalFacts DEF apply_tracking_update, reconcile_checkout, Goto,
       AlreadyApplied, Plans, Journal, Typing, HomeTyping, ProcessTyping, Running,
       Returning, Tracking, Applied, Completed, Applying, Undoing, Terminal, homevars,
       procvars
<1>14. CASE TrackingFails
  BY <1>14, Contents, JournalFacts DEF TrackingFails, Raise, StartRollback, Goto, Typing,
       HomeTyping, ProcessTyping, Running, Returning, Tracking, Applied, Completed,
       Applying, Undoing, Terminal, homevars, procvars
<1>15. CASE Cleanup
  BY <1>15, Contents, JournalFacts DEF Cleanup, Goto, Typing, HomeTyping, ProcessTyping,
       Running, Returning, Tracking, Applied, Completed, Applying, Undoing, Terminal,
       homevars, procvars
<1>16. CASE UndoLive
  BY <1>16, Contents, JournalFacts DEF UndoLive, Goto, Typing, HomeTyping, ProcessTyping,
       Running, Returning, Tracking, Applied, Completed, Applying, Undoing, Terminal,
       homevars, procvars
<1>17. CASE UndoRestore
  BY <1>17, Contents, JournalFacts DEF UndoRestore, NextUndo, Goto, Typing, HomeTyping,
       ProcessTyping, Running, Returning, Tracking, Applied, Completed, Applying, Undoing,
       Terminal, homevars, procvars
<1>18. CASE restore_database
  BY <1>18, Contents, JournalFacts DEF restore_database, NextUndoDb, Goto, Typing,
       HomeTyping, ProcessTyping, Running, Returning, Tracking, Applied, Completed,
       Applying, Undoing, Terminal, homevars, procvars
<1>19. CASE UndoEnd
  BY <1>19, Contents, JournalFacts DEF UndoEnd, RollbackStatus, Goto, Typing, HomeTyping,
       ProcessTyping, Running, Returning, Tracking, Applied, Completed, Applying, Undoing,
       Terminal, homevars, procvars
<1>20. CASE StepFails
  BY <1>20, Contents, JournalFacts DEF StepFails, Fault, Raise, StartRollback, Goto, Typing,
       HomeTyping, ProcessTyping, Running, Returning, Tracking, Applied, Completed,
       Applying, Undoing, Terminal, homevars, procvars
<1>21. CASE Cancel
  BY <1>21, Contents, JournalFacts DEF Cancel, StartRollback, Goto, Typing, HomeTyping,
       ProcessTyping, Running, Returning, Tracking, Applied, Completed, Applying, Undoing,
       Terminal, homevars, procvars
<1>22. CASE SaveFails
  BY <1>22, Contents, JournalFacts DEF SaveFails, Fault, AfterTornWrite, StartRollback,
       Goto, Typing, HomeTyping, ProcessTyping, Running, Returning, Tracking, Applied,
       Completed, Applying, Undoing, Terminal, homevars, procvars
<1>23. CASE RollbackFails
  BY <1>23, Contents, JournalFacts DEF RollbackFails, Fault, Goto, Typing, HomeTyping,
       ProcessTyping, Running, Returning, Tracking, Applied, Completed, Applying, Undoing,
       Terminal, homevars, procvars
<1>24. CASE UndoLiveFails
  BY <1>24, Contents, JournalFacts DEF UndoLiveFails, Fault, Goto, Typing, HomeTyping,
       ProcessTyping, Running, Returning, Tracking, Applied, Completed, Applying, Undoing,
       Terminal, homevars, procvars
<1>25. CASE UndoRestoreFails
  BY <1>25, Contents, JournalFacts DEF UndoRestoreFails, Fault, NextUndo, Goto, Typing,
       HomeTyping, ProcessTyping, Running, Returning, Tracking, Applied, Completed,
       Applying, Undoing, Terminal, homevars, procvars
<1>26. CASE UndoDbFails
  BY <1>26, Contents, JournalFacts DEF UndoDbFails, Fault, NextUndoDb, Goto, Typing,
       HomeTyping, ProcessTyping, Running, Returning, Tracking, Applied, Completed,
       Applying, Undoing, Terminal, homevars, procvars
<1>27. CASE Crash
  BY <1>27, Contents, JournalFacts DEF Crash, AfterTornWrite, Goto, Typing, HomeTyping,
       ProcessTyping, Running, Returning, Tracking, Applied, Completed, Applying, Undoing,
       Terminal, homevars, procvars
<1>28. CASE compare_and_set
  BY <1>28, Contents, JournalFacts DEF compare_and_set, Typing, HomeTyping, ProcessTyping,
       Running, Returning, Tracking, Applied, Completed, Applying, Undoing, Terminal,
       homevars, procvars
<1>29. CASE CodexRuns
  BY <1>29, Contents, JournalFacts DEF CodexRuns, Unfinished, Typing, HomeTyping,
       ProcessTyping, Running, Returning, Tracking, Applied, Completed, Applying, Undoing,
       Terminal, homevars, procvars
<1>30. CASE UNCHANGED vars
  BY <1>30 DEF vars, homevars, procvars, Typing, HomeTyping, ProcessTyping, Running,
       Returning, Tracking, Applied, Completed, Applying, Undoing, Terminal
<1>31. QED
  BY <1>1, <1>2, <1>3, <1>4, <1>5, <1>6, <1>7, <1>8, <1>9, <1>10, <1>11, <1>12, <1>13,
     <1>14, <1>15, <1>16, <1>17, <1>18, <1>19, <1>20, <1>21, <1>22, <1>23, <1>24, <1>25,
     <1>26, <1>27, <1>28, <1>29, <1>30
     DEF Next, Process, Apply, Rollback, Environment

\* Nothing is moved aside before the first rollback of a checkout.
LEMMA FreshStep == ASSUME Typing, Running, Returning, Fresh, [Next]_vars PROVE Fresh'
<1>1. CASE UNCHANGED <<failed, disk, procvars>>
  BY <1>1 DEF Fresh, NothingFailed, procvars
<1>2. ASSUME compare_and_set \/ CodexRuns
      PROVE  UNCHANGED <<failed, disk, procvars>>
  BY <1>2 DEF compare_and_set, CodexRuns, homevars, procvars
<1>3. CASE Begin
  BY <1>3, JournalFacts DEF Begin, Goto, NothingFailed, Typing, ProcessTyping, Running,
       Returning, Fresh, Journal, Applying, Undoing, Terminal, CheckoutStatus, homevars,
       procvars
<1>4. CASE Recover
  BY <1>4, JournalFacts DEF Recover, Goto, StartRollback, Unfinished, NothingFailed, Typing,
       ProcessTyping, Running, Returning, Fresh, Journal, Applying, Undoing, Terminal,
       CheckoutStatus, homevars, procvars
<1>5. CASE SaveJournal
  BY <1>5, JournalFacts DEF SaveJournal, atomic_write_json, Goto, NothingFailed, Typing,
       ProcessTyping, Running, Returning, Fresh, Journal, Applying, Undoing, Terminal,
       CheckoutStatus, homevars, procvars
<1>6. CASE SaveRejection
  BY <1>6, JournalFacts DEF SaveRejection, atomic_write_json, Goto, NothingFailed, Typing,
       ProcessTyping, Running, Returning, Fresh, Journal, Applying, Undoing, Terminal,
       CheckoutStatus, homevars, procvars
<1>7. CASE stage_rollouts
  BY <1>7, JournalFacts DEF stage_rollouts, Goto, NothingFailed, Typing, ProcessTyping,
       Running, Returning, Fresh, Journal, Applying, Undoing, Terminal, CheckoutStatus,
       homevars, procvars
<1>8. CASE backup_database
  BY <1>8, JournalFacts DEF backup_database, CopyDatabase, Goto, NothingFailed, Typing,
       ProcessTyping, Running, Returning, Fresh, Journal, Applying, Undoing, Terminal,
       CheckoutStatus, homevars, procvars
<1>9. CASE SwapOut
  BY <1>9, JournalFacts DEF SwapOut, MoveToBackup, Goto, NothingFailed, Typing,
       ProcessTyping, Running, Returning, Fresh, Journal, Applying, Undoing, Terminal,
       CheckoutStatus, homevars, procvars
<1>10. CASE SwapIn
  BY <1>10, JournalFacts DEF SwapIn, Goto, NothingFailed, Typing, ProcessTyping, Running,
       Returning, Fresh, Journal, Applying, Undoing, Terminal, CheckoutStatus, homevars,
       procvars
<1>11. CASE ClearDatabase
  BY <1>11, JournalFacts DEF ClearDatabase, Goto, NothingFailed, Typing, ProcessTyping,
       Running, Returning, Fresh, Journal, Applying, Undoing, Terminal, CheckoutStatus,
       homevars, procvars
<1>12. CASE FillPrimary
  BY <1>12, JournalFacts DEF FillPrimary, Goto, NothingFailed, Typing, ProcessTyping,
       Running, Returning, Fresh, Journal, Applying, Undoing, Terminal, CheckoutStatus,
       homevars, procvars
<1>13. CASE invalidate_local_thread_catalogs
  <2>1. /\ pc = "invalidate" /\ disk = mem /\ mem.status = "Applying"
        /\ UNCHANGED <<failed, disk>> /\ pc' \in {"invalidate", "save"}
    BY <1>13 DEF invalidate_local_thread_catalogs, Goto, Running, Applying
  <2>2. QED
    BY <2>1 DEF Fresh, NothingFailed, Applying
<1>14. CASE Validate
  BY <1>14, JournalFacts DEF Validate, Goto, NothingFailed, Typing, ProcessTyping, Running,
       Returning, Fresh, Journal, Applying, Undoing, Terminal, CheckoutStatus, homevars,
       procvars
<1>15. CASE apply_tracking_update
  BY <1>15, JournalFacts DEF apply_tracking_update, reconcile_checkout, Goto, NothingFailed,
       Typing, ProcessTyping, Running, Returning, Fresh, Journal, Applying, Undoing,
       Terminal, CheckoutStatus, homevars, procvars
<1>16. CASE TrackingFails
  BY <1>16, JournalFacts DEF TrackingFails, Raise, StartRollback, Goto, NothingFailed,
       Typing, ProcessTyping, Running, Returning, Fresh, Journal, Applying, Undoing,
       Terminal, CheckoutStatus, homevars, procvars
<1>17. CASE Cleanup
  BY <1>17, JournalFacts DEF Cleanup, Goto, NothingFailed, Typing, ProcessTyping, Running,
       Returning, Fresh, Journal, Applying, Undoing, Terminal, CheckoutStatus, homevars,
       procvars
<1>18. CASE UndoLive
  BY <1>18, JournalFacts DEF UndoLive, Goto, NothingFailed, Typing, ProcessTyping, Running,
       Returning, Fresh, Journal, Applying, Undoing, Terminal, CheckoutStatus, homevars,
       procvars
<1>19. CASE UndoRestore
  BY <1>19, JournalFacts DEF UndoRestore, NextUndo, Goto, NothingFailed, Typing,
       ProcessTyping, Running, Returning, Fresh, Journal, Applying, Undoing, Terminal,
       CheckoutStatus, homevars, procvars
<1>20. CASE restore_database
  BY <1>20, JournalFacts DEF restore_database, NextUndoDb, Goto, NothingFailed, Typing,
       ProcessTyping, Running, Returning, Fresh, Journal, Applying, Undoing, Terminal,
       CheckoutStatus, homevars, procvars
<1>21. CASE UndoEnd
  BY <1>21, JournalFacts DEF UndoEnd, RollbackStatus, Goto, NothingFailed, Typing,
       ProcessTyping, Running, Returning, Fresh, Journal, Applying, Undoing, Terminal,
       CheckoutStatus, homevars, procvars
<1>22. CASE StepFails
  BY <1>22, JournalFacts DEF StepFails, Fault, Raise, StartRollback, Goto, NothingFailed,
       Typing, ProcessTyping, Running, Returning, Fresh, Journal, Applying, Undoing,
       Terminal, CheckoutStatus, homevars, procvars
<1>23. CASE Cancel
  BY <1>23, JournalFacts DEF Cancel, StartRollback, Goto, NothingFailed, Typing,
       ProcessTyping, Running, Returning, Fresh, Journal, Applying, Undoing, Terminal,
       CheckoutStatus, homevars, procvars
<1>24. CASE SaveFails
  BY <1>24, JournalFacts DEF SaveFails, Fault, AfterTornWrite, StartRollback, Goto,
       NothingFailed, Typing, ProcessTyping, Running, Returning, Fresh, Journal, Applying,
       Undoing, Terminal, CheckoutStatus, homevars, procvars
<1>25. CASE RollbackFails
  BY <1>25, JournalFacts DEF RollbackFails, Fault, Goto, NothingFailed, Typing,
       ProcessTyping, Running, Returning, Fresh, Journal, Applying, Undoing, Terminal,
       CheckoutStatus, homevars, procvars
<1>26. CASE UndoLiveFails
  BY <1>26, JournalFacts DEF UndoLiveFails, Fault, Goto, NothingFailed, Typing,
       ProcessTyping, Running, Returning, Fresh, Journal, Applying, Undoing, Terminal,
       CheckoutStatus, homevars, procvars
<1>27. CASE UndoRestoreFails
  BY <1>27, JournalFacts DEF UndoRestoreFails, Fault, NextUndo, Goto, NothingFailed, Typing,
       ProcessTyping, Running, Returning, Fresh, Journal, Applying, Undoing, Terminal,
       CheckoutStatus, homevars, procvars
<1>28. CASE UndoDbFails
  BY <1>28, JournalFacts DEF UndoDbFails, Fault, NextUndoDb, Goto, NothingFailed, Typing,
       ProcessTyping, Running, Returning, Fresh, Journal, Applying, Undoing, Terminal,
       CheckoutStatus, homevars, procvars
<1>29. CASE Crash
  BY <1>29, JournalFacts DEF Crash, AfterTornWrite, Goto, NothingFailed, Typing,
       ProcessTyping, Running, Returning, Fresh, Journal, Applying, Undoing, Terminal,
       CheckoutStatus, homevars, procvars
<1>30. CASE UNCHANGED vars
  BY <1>30 DEF vars, homevars, procvars, Fresh, NothingFailed
<1>31. QED
  BY <1>1, <1>2, <1>3, <1>4, <1>5, <1>6, <1>7, <1>8, <1>9, <1>10, <1>11, <1>12, <1>13,
     <1>14, <1>15, <1>16, <1>17, <1>18, <1>19, <1>20, <1>21, <1>22, <1>23, <1>24, <1>25,
     <1>26, <1>27, <1>28, <1>29, <1>30
     DEF Next, Process, Apply, Rollback, Environment

\* The number of failed calls only grows.
LEMMA ErrorFacts == ASSUME Typing, [Next]_vars
                    PROVE  Errors \in Nat /\ Errors' \in Nat /\ Errors' >= Errors
<1>1. left \in Budget /\ left' \in Budget
  BY BudgetStep DEF Typing
<1>2. left'.faults = left.faults \/ left'.faults = left.faults - 1
  <2>1. ASSUME Fault PROVE left'.faults = left.faults - 1
    BY <1>1, <2>1 DEF Fault, Budget
  <2>2. ASSUME StepFails \/ SaveFails \/ RollbackFails \/ UndoLiveFails \/ UndoRestoreFails \/
               UndoDbFails
        PROVE  Fault
    BY <2>2 DEF StepFails, SaveFails, RollbackFails, UndoLiveFails, UndoRestoreFails, UndoDbFails
  <2>3. ASSUME Crash \/ compare_and_set \/ CodexRuns PROVE left'.faults = left.faults
    BY <1>1, <2>3 DEF Crash, compare_and_set, CodexRuns, Budget
  <2>4. ASSUME Begin \/ Recover \/ Process \/ Cancel \/ UNCHANGED vars
        PROVE  left' = left
    BY <2>4 DEF Process, Apply, Rollback, Begin, Recover, SaveJournal, SaveRejection,
         stage_rollouts, backup_database, SwapOut, SwapIn, ClearDatabase, FillPrimary,
         invalidate_local_thread_catalogs, Validate, apply_tracking_update, TrackingFails,
         Cleanup, UndoLive, UndoRestore, restore_database, UndoEnd, Cancel, vars
  <2>5. QED
    BY <2>1, <2>2, <2>3, <2>4 DEF Next, Environment
<1>3. QED
  BY <1>1, <1>2, Sizes DEF Budget, Errors

\* A call that fails is counted.
LEMMA FaultFacts == ASSUME Typing, Fault PROVE Errors' = Errors + 1
<1>1. left.faults \in 0..MaxFaults /\ left'.faults = left.faults - 1
  BY DEF Fault, Budget, Typing
<1>2. QED
  BY <1>1, Sizes DEF Errors

\* The catalogues stay cleared while the Home can still be taken for the target, unless a
\* call failed for every path.
LEMMA CatalogTargetStep == ASSUME Typing, Running, Returning, Versions, Paths, Target, Fresh,
                                    CatalogTarget, [Next]_vars PROVE CatalogTarget'
<1>1. CASE Begin
  BY <1>1, Sizes, Contents, ErrorFacts DEF Begin, Goto, Typing, HomeTyping, ProcessTyping,
       Running, Returning, CatalogTarget, CatalogsOK, CatalogsCleared, LiveCosts, AllLive,
       DiskApplied, FirstRollback, SavingRollback, Completed, Applying, Undoing, Terminal,
       homevars, procvars
<1>2. CASE Recover
  BY <1>2, Sizes, Contents, ErrorFacts DEF Recover, Goto, StartRollback, Unfinished,
       RecoveryTrusts, LiveMatchesTarget, Typing, HomeTyping, ProcessTyping, Running,
       Returning, CatalogTarget, CatalogsOK, CatalogsCleared, LiveCosts, AllLive,
       DiskApplied, FirstRollback, SavingRollback, Completed, Applying, Undoing, Terminal,
       homevars, procvars
<1>3. CASE SaveJournal
  BY <1>3, Sizes, Contents, ErrorFacts, JournalFacts DEF SaveJournal, atomic_write_json,
       Goto, Journal, Typing, HomeTyping, ProcessTyping, Running, Returning, CatalogTarget,
       CatalogsOK, CatalogsCleared, LiveCosts, AllLive, DiskApplied, FirstRollback,
       SavingRollback, Completed, Applying, Undoing, Terminal, homevars, procvars
<1>4. CASE SaveRejection
  BY <1>4, Sizes, Contents, ErrorFacts DEF SaveRejection, atomic_write_json, Goto, Typing,
       HomeTyping, ProcessTyping, Running, Returning, CatalogTarget, CatalogsOK,
       CatalogsCleared, LiveCosts, AllLive, DiskApplied, FirstRollback, SavingRollback,
       Completed, Applying, Undoing, Terminal, homevars, procvars
<1>5. CASE stage_rollouts
  BY <1>5, Sizes, Contents, ErrorFacts DEF stage_rollouts, Goto, Typing, HomeTyping,
       ProcessTyping, Running, Returning, CatalogTarget, CatalogsOK, CatalogsCleared,
       LiveCosts, AllLive, DiskApplied, FirstRollback, SavingRollback, Completed, Applying,
       Undoing, Terminal, homevars, procvars
<1>6. CASE backup_database
  BY <1>6, Sizes, Contents, ErrorFacts DEF backup_database, CopyDatabase, Goto, Typing,
       HomeTyping, ProcessTyping, Running, Returning, CatalogTarget, CatalogsOK,
       CatalogsCleared, LiveCosts, AllLive, DiskApplied, FirstRollback, SavingRollback,
       Completed, Applying, Undoing, Terminal, homevars, procvars
<1>7. CASE SwapOut
  BY <1>7, Sizes, Contents, ErrorFacts DEF SwapOut, MoveToBackup, Goto, Typing, HomeTyping,
       ProcessTyping, Running, Returning, CatalogTarget, CatalogsOK, CatalogsCleared,
       LiveCosts, AllLive, DiskApplied, FirstRollback, SavingRollback, Completed, Applying,
       Undoing, Terminal, homevars, procvars
<1>8. CASE SwapIn
  BY <1>8, Sizes, Contents, ErrorFacts DEF SwapIn, Goto, Typing, HomeTyping, ProcessTyping,
       Running, Returning, CatalogTarget, CatalogsOK, CatalogsCleared, LiveCosts, AllLive,
       DiskApplied, FirstRollback, SavingRollback, Completed, Applying, Undoing, Terminal,
       homevars, procvars
<1>9. CASE ClearDatabase
  BY <1>9, Sizes, Contents, ErrorFacts, DbFacts, CatalogFacts DEF ClearDatabase, Goto,
       Typing, HomeTyping, ProcessTyping, Running, Returning, CatalogTarget, CatalogsOK,
       CatalogsCleared, LiveCosts, AllLive, DiskApplied, FirstRollback, SavingRollback,
       Completed, Applying, Undoing, Terminal, homevars, procvars
<1>10. CASE FillPrimary
  BY <1>10, Sizes, Contents, ErrorFacts, DbFacts, CatalogFacts DEF FillPrimary, Goto,
       Typing, HomeTyping, ProcessTyping, Running, Returning, CatalogTarget, CatalogsOK,
       CatalogsCleared, LiveCosts, AllLive, DiskApplied, FirstRollback, SavingRollback,
       Completed, Applying, Undoing, Terminal, homevars, procvars
<1>11. CASE invalidate_local_thread_catalogs
  <2>1. /\ pc = "invalidate" /\ disk = mem /\ mem.status = "Applying" /\ disk' = disk
        /\ at \in 1..Len(Catalogs) /\ db' = [db EXCEPT ![Catalogs[at]] = Cleared]
        /\ \/ pc' = "invalidate" /\ at' = at + 1
           \/ pc' = "save" /\ at = Len(Catalogs) /\ mem'.status = "Validating"
    BY <1>11, Sizes DEF invalidate_local_thread_catalogs, Goto, Typing, ProcessTyping, Running,
         Journal, Applying
  <2>2. \A i \in 1..Len(Catalogs) : i < at + 1 => db'[Catalogs[i]] = Cleared
    <3>1. ASSUME NEW i \in 1..Len(Catalogs), i < at + 1 PROVE db'[Catalogs[i]] = Cleared
      <4>1. Catalogs[i] \in DbSet
        BY <3>1, DbFacts
      <4>2. i < at \/ i = at
        BY <2>1, <3>1, Sizes
      <4>3. i < at => db[Catalogs[i]] = Cleared
        BY <2>1, <3>1 DEF CatalogTarget
      <4>4. QED
        BY <2>1, <4>1, <4>2, <4>3 DEF Typing, HomeTyping
    <3>2. QED
      BY <3>1
  <2>3. pc' = "save" => CatalogsCleared'
    BY <2>1, <2>2, DbFacts DEF CatalogsCleared
  <2>4. QED
    BY <2>1, <2>2, <2>3 DEF CatalogTarget, FirstRollback, SavingRollback, DiskApplied, Completed,
         Undoing
<1>12. CASE Validate
  BY <1>12, Sizes, Contents, ErrorFacts DEF Validate, Goto, Typing, HomeTyping,
       ProcessTyping, Running, Returning, CatalogTarget, CatalogsOK, CatalogsCleared,
       LiveCosts, AllLive, DiskApplied, FirstRollback, SavingRollback, Completed, Applying,
       Undoing, Terminal, homevars, procvars
<1>13. CASE apply_tracking_update
  BY <1>13, Sizes, Contents, ErrorFacts DEF apply_tracking_update, reconcile_checkout, Goto,
       Typing, HomeTyping, ProcessTyping, Running, Returning, CatalogTarget, CatalogsOK,
       CatalogsCleared, LiveCosts, AllLive, DiskApplied, FirstRollback, SavingRollback,
       Completed, Applying, Undoing, Terminal, homevars, procvars
<1>14. CASE TrackingFails
  <2>1. /\ UNCHANGED <<op, live, failed, db, disk, mem>>
        /\ pc = "track"
        /\ \/ pc' = "reject"
           \/ pc' = "undo_live" /\ at' = NSwaps /\ ~ recovering
    BY <1>14, Sizes DEF TrackingFails, Raise, StartRollback, Goto, homevars
  <2>2. CatalogsOK' \/ pc # "track"
    BY <2>1, ErrorFacts, Sizes DEF CatalogTarget, CatalogsOK, CatalogsCleared
  <2>3. DiskApplied /\ pc' = "undo_live" => pc = "track" /\ mem.status = "LocalApplied" /\ NothingFailed
    BY <2>1 DEF DiskApplied, Running, Fresh, Applying
  <2>4. DiskApplied /\ AllLive => CatalogsOK'
    BY <2>1, ErrorFacts, Sizes DEF CatalogTarget, CatalogsOK, CatalogsCleared
  <2>5. DiskApplied' = DiskApplied /\ AllLive' = AllLive /\ ~ Completed'
    BY <2>1 DEF DiskApplied, AllLive, Completed, Running, Terminal, Applying
  <2>6. QED
    BY <2>1, <2>2, <2>3, <2>4, <2>5, ErrorFacts, SwapFacts
       DEF CatalogTarget, NothingFailed, LiveCosts, FirstRollback, SavingRollback, Undoing
<1>15. CASE Cleanup
  BY <1>15, Sizes, Contents, ErrorFacts DEF Cleanup, Goto, Typing, HomeTyping,
       ProcessTyping, Running, Returning, CatalogTarget, CatalogsOK, CatalogsCleared,
       LiveCosts, AllLive, DiskApplied, FirstRollback, SavingRollback, Completed, Applying,
       Undoing, Terminal, homevars, procvars
<1>16. CASE UndoLive
  <2>1. /\ UNCHANGED <<op, db, disk, mem>> /\ pc = "undo_live" /\ pc' = "undo_restore"
        /\ at' = at /\ at \in 1..NSwaps /\ Swaps[at] \in SwapSet
        /\ ~ Completed /\ CatalogsCleared' = CatalogsCleared
    BY <1>16, SwapFacts DEF UndoLive, Goto, homevars, Typing, ProcessTyping, Completed, Running, Terminal,
         CatalogsCleared
  <2>2. ASSUME DiskApplied
        PROVE  /\ ~ AllLive'
               /\ \A j \in 1..NSwaps : j < at => failed'[Swaps[j]] = Absent
    <3>1. mem.status = "LocalApplied" /\ failed[Swaps[at]] = Absent
      BY <2>1, <2>2 DEF CatalogTarget, FirstRollback, Undoing
    <3>2. live[Swaps[at]] = op => swap_started(Swaps[at]) /\ live[Swaps[at]] # Absent
      <4>1. op \in Nat /\ op > 0
        BY <2>2, Contents DEF Typing, HomeTyping, Running, DiskApplied
      <4>2. QED
        BY <2>1, <3>1, <4>1, Contents DEF swap_started, local_write_started, Paths, PathKept,
           Versions
    <3>3. live'[Swaps[at]] # op
      BY <1>16, <2>1, <3>1, <3>2, Contents DEF UndoLive, Typing, HomeTyping
    <3>4. \A j \in 1..NSwaps : j < at => failed'[Swaps[j]] = Absent
      <4>1. \A j \in 1..NSwaps : j < at => failed[Swaps[j]] = Absent /\ Swaps[j] # Swaps[at]
        BY <2>1, <2>2, SwapFacts DEF CatalogTarget, FirstRollback, Undoing
      <4>2. \A j \in 1..NSwaps : j < at => failed'[Swaps[j]] = failed[Swaps[j]]
        BY <1>16, <4>1, SwapFacts DEF UndoLive, Typing, HomeTyping
      <4>3. QED
        BY <4>1, <4>2
    <3>5. QED
      BY <2>1, <3>3, <3>4 DEF AllLive
  <2>3. DiskApplied => CatalogsOK /\ mem.status = "LocalApplied"
    BY <2>1 DEF CatalogTarget, FirstRollback, Undoing
  <2>4. CatalogsOK => CatalogsOK'
    BY <2>1, ErrorFacts, Sizes DEF CatalogsOK
  <2>5. QED
    <3>1. DiskApplied' = DiskApplied /\ ~ Completed'
      BY <2>1 DEF DiskApplied, Completed
    <3>2. QED
      BY <2>1, <2>2, <2>3, <2>4, <3>1 DEF CatalogTarget, FirstRollback, SavingRollback, LiveCosts
<1>17. CASE UndoRestore
  <2>1. /\ UNCHANGED <<op, db, disk, mem, failed>> /\ pc = "undo_restore"
        /\ at \in 1..NSwaps /\ Swaps[at] \in SwapSet
        /\ \/ pc' = "undo_live" /\ at' = at - 1 /\ at > 1
           \/ pc' \in {"undo_db", "undo_end"} /\ at = 1
        /\ ~ Completed /\ ~ Completed' /\ CatalogsCleared' = CatalogsCleared
    BY <1>17, SwapFacts DEF UndoRestore, NextUndo, Goto, homevars, Typing, ProcessTyping, Completed, Running,
         Terminal, CatalogsCleared
  <2>2. DiskApplied /\ AllLive' => AllLive
    <3>1. SUFFICES ASSUME DiskApplied, AllLive', live' # live PROVE FALSE
      BY <2>1 DEF AllLive
    <3>2. live'[Swaps[at]] = backup[Swaps[at]] /\ backup[Swaps[at]] # Absent
      BY <1>17, <2>1, <3>1 DEF UndoRestore, Typing, HomeTyping
    <3>3. backup[Swaps[at]] = base.live[Swaps[at]]
      BY <2>1, <3>2 DEF Paths, PathKept
    <3>4. base.live[Swaps[at]] # op
      BY <2>1, <3>1, Contents DEF Versions, Running, DiskApplied, Typing, HomeTyping
    <3>5. QED
      BY <2>1, <3>1, <3>2, <3>3, <3>4 DEF AllLive
  <2>3. CatalogsOK => CatalogsOK'
    BY <2>1, ErrorFacts, Sizes DEF CatalogsOK
  <2>4. DiskApplied =>
          /\ CatalogsOK /\ mem.status = "LocalApplied" /\ LiveCosts(NSwaps - at + 1)
          /\ \A j \in 1..NSwaps : j < at => failed[Swaps[j]] = Absent
    BY <2>1 DEF CatalogTarget, FirstRollback, Undoing
  <2>5. DiskApplied' = DiskApplied
    BY <2>1 DEF DiskApplied
  <2>6. QED
    BY <2>1, <2>2, <2>3, <2>4, <2>5, ErrorFacts, Sizes
       DEF CatalogTarget, FirstRollback, SavingRollback, LiveCosts
<1>18. CASE restore_database
  <2>1. /\ UNCHANGED <<op, live, disk, mem>> /\ pc = "undo_db" /\ ~ Completed'
        /\ pc' \in {"undo_db", "undo_end"}
        /\ DiskApplied' = DiskApplied /\ AllLive' = AllLive
    BY <1>18 DEF restore_database, NextUndoDb, Goto, Running, Terminal, Completed, DiskApplied, AllLive
  <2>2. DiskApplied => LiveCosts(NSwaps) /\ mem.status = "LocalApplied"
    BY <2>1 DEF CatalogTarget, FirstRollback, Undoing
  <2>3. QED
    BY <2>1, <2>2, ErrorFacts, Sizes
       DEF CatalogTarget, CatalogsOK, LiveCosts, FirstRollback, SavingRollback
<1>19. CASE UndoEnd
  BY <1>19, Sizes, Contents, ErrorFacts DEF UndoEnd, RollbackStatus, Goto, Typing,
       HomeTyping, ProcessTyping, Running, Returning, CatalogTarget, CatalogsOK,
       CatalogsCleared, LiveCosts, AllLive, DiskApplied, FirstRollback, SavingRollback,
       Completed, Applying, Undoing, Terminal, homevars, procvars
<1>20. CASE StepFails
  <2>1. /\ UNCHANGED <<op, live, failed, db, disk, mem>>
        /\ pc \in {"stage", "backup", "validate", "track"} \cup Applying
        /\ \/ pc' = "reject"
           \/ pc' = "undo_live" /\ at' = NSwaps /\ ~ recovering
    BY <1>20, Sizes DEF StepFails, Applying, Raise, StartRollback, Goto, homevars
  <2>2. CatalogsOK' \/ pc # "track"
    BY <2>1, ErrorFacts, Sizes DEF CatalogTarget, CatalogsOK, CatalogsCleared
  <2>3. DiskApplied /\ pc' = "undo_live" => pc = "track" /\ mem.status = "LocalApplied" /\ NothingFailed
    BY <2>1 DEF DiskApplied, Running, Fresh, Applying
  <2>4. DiskApplied /\ AllLive => CatalogsOK'
    BY <2>1, ErrorFacts, Sizes DEF CatalogTarget, CatalogsOK, CatalogsCleared
  <2>5. DiskApplied' = DiskApplied /\ AllLive' = AllLive /\ ~ Completed'
    BY <2>1 DEF DiskApplied, AllLive, Completed, Running, Terminal, Applying
  <2>6. QED
    BY <2>1, <2>2, <2>3, <2>4, <2>5, ErrorFacts, SwapFacts
       DEF CatalogTarget, NothingFailed, LiveCosts, FirstRollback, SavingRollback, Undoing
<1>21. CASE Cancel
  <2>1. /\ pc' = "undo_live" /\ UNCHANGED <<op, live, db, disk>>
        /\ disk # NoJournal => disk.status \notin {"LocalApplied", "Completed"}
    BY <1>21 DEF Cancel, StartRollback, Goto, homevars, Running, Fresh, Terminal
  <2>2. QED
    BY <2>1 DEF CatalogTarget, FirstRollback, SavingRollback, DiskApplied, Completed
<1>22. CASE SaveFails
  <2>1. /\ UNCHANGED <<op, live, failed, db, mem>> /\ pc \in {"save", "reject"}
        /\ disk' = disk \/ disk' = NoJournal
        /\ \/ pc' = "idle"
           \/ /\ pc' = "undo_live" /\ at' = NSwaps /\ pc = "save"
              /\ mem.status \notin {"Completed", "RolledBack", "RecoveryRequired"}
    BY <1>22, Sizes DEF SaveFails, AfterTornWrite, StartRollback, Goto, homevars, Terminal
  <2>2. DiskApplied' /\ pc' = "undo_live" =>
          mem.status = "LocalApplied" /\ NothingFailed /\ CatalogsCleared
    BY <2>1 DEF DiskApplied, Fresh, CatalogTarget, Typing, ProcessTyping, Journal, CheckoutStatus
  <2>3. DiskApplied /\ AllLive => CatalogsOK'
    BY <2>1, ErrorFacts, Sizes DEF CatalogTarget, CatalogsOK, CatalogsCleared
  <2>4. /\ DiskApplied' => DiskApplied /\ AllLive' = AllLive
        /\ CatalogsCleared' = CatalogsCleared /\ ~ Completed'
    BY <2>1 DEF DiskApplied, AllLive, Completed, Running, Terminal, CatalogsCleared
  <2>5. QED
    <3>1. DiskApplied' /\ AllLive' => CatalogsOK'
      BY <2>3, <2>4
    <3>2. CASE pc' = "idle"
      BY <2>4, <3>1, <3>2 DEF CatalogTarget, FirstRollback, SavingRollback, Undoing
    <3>3. CASE pc' = "undo_live"
      <4>1. at' = NSwaps /\ (DiskApplied' => CatalogsOK')
        BY <2>1, <2>2, <2>4, <3>3 DEF CatalogsOK
      <4>2. LiveCosts(NSwaps - at)'
        BY <4>1, ErrorFacts, Sizes DEF LiveCosts
      <4>3. DiskApplied' => \A j \in 1..NSwaps : failed'[Swaps[j]] = Absent
        BY <2>1, <2>2, <3>3, SwapFacts DEF NothingFailed
      <4>4. QED
        BY <2>1, <2>2, <2>4, <3>1, <3>3, <4>1, <4>2, <4>3
           DEF CatalogTarget, FirstRollback, SavingRollback
    <3>4. QED
      BY <2>1, <3>2, <3>3
<1>23. CASE RollbackFails
  BY <1>23, Sizes, Contents, ErrorFacts DEF RollbackFails, Fault, Goto, Typing, HomeTyping,
       ProcessTyping, Running, Returning, CatalogTarget, CatalogsOK, CatalogsCleared,
       LiveCosts, AllLive, DiskApplied, FirstRollback, SavingRollback, Completed, Applying,
       Undoing, Terminal, homevars, procvars
<1>24. CASE UndoLiveFails
  <2>1. /\ UNCHANGED <<op, db, disk, mem>> /\ pc = "undo_live" /\ pc' = "undo_restore"
        /\ at' = at /\ at \in 1..NSwaps /\ Swaps[at] \in SwapSet
        /\ ~ Completed /\ CatalogsCleared' = CatalogsCleared
    BY <1>24, SwapFacts DEF UndoLiveFails, Goto, homevars, Typing, ProcessTyping, Completed, Running, Terminal,
         CatalogsCleared
  <2>2. /\ AllLive' = AllLive /\ DiskApplied' = DiskApplied /\ Errors' = Errors + 1
        /\ failed' = failed /\ ~ Completed'
    BY <1>24, <2>1, FaultFacts DEF UndoLiveFails, AllLive, DiskApplied, homevars, Completed
  <2>3. CatalogsOK => CatalogsOK'
    BY <2>1, ErrorFacts, Sizes DEF CatalogsOK
  <2>4. DiskApplied =>
          /\ CatalogsOK /\ mem.status = "LocalApplied" /\ LiveCosts(NSwaps - at)
          /\ \A j \in 1..NSwaps : j <= at => failed[Swaps[j]] = Absent
    BY <2>1 DEF CatalogTarget, FirstRollback, Undoing
  <2>5. QED
    <3>1. DiskApplied => LiveCosts(NSwaps - at + 1)'
      BY <2>1, <2>2, <2>4, ErrorFacts, Sizes DEF LiveCosts
    <3>2. QED
      BY <2>1, <2>2, <2>3, <2>4, <3>1, Sizes DEF CatalogTarget, FirstRollback, SavingRollback
<1>25. CASE UndoRestoreFails
  <2>1. /\ UNCHANGED <<op, db, disk, mem, failed>> /\ pc = "undo_restore"
        /\ at \in 1..NSwaps /\ Swaps[at] \in SwapSet
        /\ \/ pc' = "undo_live" /\ at' = at - 1 /\ at > 1
           \/ pc' \in {"undo_db", "undo_end"} /\ at = 1
        /\ ~ Completed /\ ~ Completed' /\ CatalogsCleared' = CatalogsCleared
    BY <1>25, SwapFacts DEF UndoRestoreFails, NextUndo, Goto, homevars, Typing, ProcessTyping, Completed, Running,
         Terminal, CatalogsCleared
  <2>2. DiskApplied /\ AllLive' => AllLive
    BY <1>25, <2>1 DEF UndoRestoreFails, AllLive
  <2>3. CatalogsOK => CatalogsOK'
    BY <2>1, ErrorFacts, Sizes DEF CatalogsOK
  <2>4. DiskApplied =>
          /\ CatalogsOK /\ mem.status = "LocalApplied" /\ LiveCosts(NSwaps - at + 1)
          /\ \A j \in 1..NSwaps : j < at => failed[Swaps[j]] = Absent
    BY <2>1 DEF CatalogTarget, FirstRollback, Undoing
  <2>5. DiskApplied' = DiskApplied
    BY <2>1 DEF DiskApplied
  <2>6. QED
    BY <2>1, <2>2, <2>3, <2>4, <2>5, ErrorFacts, Sizes
       DEF CatalogTarget, FirstRollback, SavingRollback, LiveCosts
<1>26. CASE UndoDbFails
  BY <1>26, Sizes, Contents, ErrorFacts DEF UndoDbFails, Fault, NextUndoDb, Goto, Typing,
       HomeTyping, ProcessTyping, Running, Returning, CatalogTarget, CatalogsOK,
       CatalogsCleared, LiveCosts, AllLive, DiskApplied, FirstRollback, SavingRollback,
       Completed, Applying, Undoing, Terminal, homevars, procvars
<1>27. CASE Crash
  BY <1>27, Sizes, Contents, ErrorFacts DEF Crash, AfterTornWrite, Goto, Typing, HomeTyping,
       ProcessTyping, Running, Returning, CatalogTarget, CatalogsOK, CatalogsCleared,
       LiveCosts, AllLive, DiskApplied, FirstRollback, SavingRollback, Completed, Applying,
       Undoing, Terminal, homevars, procvars
<1>28. CASE compare_and_set
  BY <1>28, Sizes, Contents, ErrorFacts DEF compare_and_set, Typing, HomeTyping,
       ProcessTyping, Running, Returning, CatalogTarget, CatalogsOK, CatalogsCleared,
       LiveCosts, AllLive, DiskApplied, FirstRollback, SavingRollback, Completed, Applying,
       Undoing, Terminal, homevars, procvars
<1>29. CASE CodexRuns
  BY <1>29, Sizes, Contents, ErrorFacts DEF CodexRuns, Unfinished, Typing, HomeTyping,
       ProcessTyping, Running, Returning, CatalogTarget, CatalogsOK, CatalogsCleared,
       LiveCosts, AllLive, DiskApplied, FirstRollback, SavingRollback, Completed, Applying,
       Undoing, Terminal, homevars, procvars
<1>30. CASE UNCHANGED vars
  BY <1>30 DEF vars, homevars, procvars, CatalogTarget, CatalogsOK, CatalogsCleared,
       LiveCosts, AllLive, DiskApplied, FirstRollback, SavingRollback, Completed, Errors,
       Undoing
<1>31. QED
  BY <1>1, <1>2, <1>3, <1>4, <1>5, <1>6, <1>7, <1>8, <1>9, <1>10, <1>11, <1>12, <1>13,
     <1>14, <1>15, <1>16, <1>17, <1>18, <1>19, <1>20, <1>21, <1>22, <1>23, <1>24, <1>25,
     <1>26, <1>27, <1>28, <1>29, <1>30
     DEF Next, Process, Apply, Rollback, Environment

-----------------------------------------------------------------------------
\* A checkout starts from a Home at version 0 and no journal.
LEMMA InitInv == Init => CheckoutInv
<1> SUFFICES ASSUME Init PROVE CheckoutInv
  OBVIOUS
<1>1. HomeTyping
  BY Contents DEF Init, HomeTyping, Plans
<1>2. ProcessTyping
  <2>1. mem \in Journal /\ pc = "idle" /\ at = 1
    BY Sizes DEF Init, Journal, CheckoutStatus
  <2>2. QED
    BY <2>1, PlaceFacts DEF Init, ProcessTyping, Labels
<1>3. left \in Budget
  BY CheckoutAssumption DEF Init, Budget
<1>4. /\ op = 0 /\ pc = "idle" /\ disk = NoJournal
      /\ plan.tracked = FALSE /\ tracking.head = 0
      /\ base = [live |-> live, db |-> db]
      /\ \A s \in SwapSet : backup[s] = Absent /\ staged[s] = Absent /\ live[s] \in {Absent, 0}
      /\ DOMAIN live = SwapSet /\ DOMAIN staged = SwapSet /\ DOMAIN backup = SwapSet
  BY DEF Init
<1>5. Running /\ Returning
  BY <1>4 DEF Running, Returning, Applying, Undoing, SavingRollback
<1>6. Versions
  BY <1>4, Contents DEF Versions, UpTo
<1>7. Paths /\ PathsReturn /\ Databases
  BY <1>4 DEF Paths, PathKept, PathsReturn, Databases, Completed, Undoing
<1>8. Target /\ Fresh /\ CatalogTarget /\ Tracking
  BY <1>4 DEF Target, Fresh, CatalogTarget, Tracking, Completed, DiskApplied, FirstRollback,
       SavingRollback, Applying
<1>9. QED
  BY <1>1, <1>2, <1>3, <1>5, <1>6, <1>7, <1>8 DEF CheckoutInv, Typing

\* CheckoutInv is inductive.
LEMMA StepInv == CheckoutInv /\ [Next]_vars => CheckoutInv'
<1> SUFFICES ASSUME CheckoutInv, [Next]_vars PROVE CheckoutInv'
  OBVIOUS
<1>1. /\ Typing /\ Running /\ Returning /\ Versions /\ Paths /\ PathsReturn
      /\ Databases /\ Target /\ Fresh /\ CatalogTarget /\ Tracking
  BY DEF CheckoutInv
<1>2. Typing'
  BY <1>1, HomeTypingStep, ProcessTypingStep, BudgetStep DEF Typing
<1>3. Running' /\ Returning' /\ Versions'
  BY <1>1, RunningStep, ReturningStep, VersionsStep
<1>4. Paths' /\ PathsReturn' /\ Databases'
  BY <1>1, PathsStep, PathsReturnStep, DatabasesStep
<1>5. Target' /\ Fresh' /\ CatalogTarget' /\ Tracking'
  BY <1>1, TargetStep, FreshStep, CatalogTargetStep, TrackingStep
<1>6. QED
  BY <1>2, <1>3, <1>4, <1>5 DEF CheckoutInv

\* Where every copy of every path and database is, at every point where a checkout, a rollback
\* or a recovery can be stopped.
THEOREM CheckoutInvariant == Spec => []CheckoutInv
<1>1. Init => CheckoutInv
  BY InitInv
<1>2. CheckoutInv /\ [Next]_vars => CheckoutInv'
  BY StepInv
<1>3. QED
  BY <1>1, <1>2, PTL DEF Spec

\* The state of a checkout keeps its shape: a journal file is a journal or nothing.
THEOREM CheckoutTypeCorrect == Spec => []CheckoutTypeOK
<1>1. CheckoutInv => CheckoutTypeOK
  <2> SUFFICES ASSUME CheckoutInv PROVE CheckoutTypeOK
    OBVIOUS
  <2>1. at \in 1..Len(Swaps) + Len(AllDbs)
    BY Sizes DEF CheckoutInv, Typing, ProcessTyping, Places
  <2>2. QED
    BY <2>1 DEF CheckoutInv, Typing, HomeTyping, ProcessTyping, CheckoutTypeOK, Plans
<1>2. QED
  BY <1>1, CheckoutInvariant, PTL

\* No order of renames, restores, failed calls, crashes and recoveries destroys the only copy
\* of what the Home held before, even when a torn write loses the journal.
THEOREM BaseIsNeverLost == Spec => []BaseSurvives
<1>1. CheckoutInv => BaseSurvives
  <2> SUFFICES ASSUME CheckoutInv, ~ Completed PROVE BaseSurvives
    BY DEF BaseSurvives, Completed
  <2>1. \A s \in SwapSet : base.live[s] # Absent => base.live[s] \in {live[s], backup[s]}
    BY DEF CheckoutInv, Paths, PathKept
  <2>2. \A d \in DbSet : base.db[d] \in {db[d], dbBackup[d]}
    BY DbFacts DEF CheckoutInv, Databases, BackedUp
  <2>3. QED
    BY <2>1, <2>2 DEF BaseSurvives
<1>2. QED
  BY <1>1, CheckoutInvariant, PTL

\* A terminal journal tells the truth about the whole Home and about the tracking row, whatever
\* failed, crashed, raced or was recovered before.
THEOREM TerminalJournalIsTrue == Spec => []Settled
<1>1. CheckoutInv => Settled
  <2> SUFFICES ASSUME CheckoutInv, pc = "idle", disk # NoJournal
               PROVE  /\ disk.status = "Completed" =>
                           /\ LiveMatchesTarget
                           /\ Errors < Len(Swaps) => CatalogsCleared
                           /\ plan.tracked /\ tracking.head # User => tracking = Applied
                      /\ disk.status = "RolledBack" => HomeIsBase /\ tracking.head # op
    BY DEF Settled, Applied
  <2>1. CASE disk.status = "Completed"
    BY <2>1, Sizes DEF CheckoutInv, Target, CatalogTarget, CatalogsOK, Tracking, Completed
  <2>2. CASE disk.status = "RolledBack"
    <3>1. HomeIsBase
      BY <2>2 DEF CheckoutInv, PathsReturn, PathIsBase, Databases, HomeIsBase
    <3>2. tracking.head # op
      BY <2>2 DEF CheckoutInv, Running, Tracking
    <3>3. QED
      BY <2>2, <3>1, <3>2
  <2>3. QED
    BY <2>1, <2>2
<1>2. QED
  BY <1>1, CheckoutInvariant, PTL

\* A recovery that finds LocalApplied never changes the Home: it completes the checkout or
\* refuses to.
THEOREM RecoveryKeepsLocalApplied == Spec => NoBlindRollback
<1>1. CheckoutInv /\ [Next]_vars =>
        [recovering /\ pc # "idle" /\ disk # NoJournal /\ disk.status = "LocalApplied"
           => UNCHANGED <<live, db>>]_vars
  <2> SUFFICES ASSUME Running, Returning, [Next]_vars, recovering, pc # "idle",
                      disk # NoJournal, disk.status = "LocalApplied"
               PROVE  UNCHANGED <<live, db>>
    BY DEF CheckoutInv
  <2>1. pc \notin Undoing \cup Applying
    BY DEF Running, Returning
  <2>2. ASSUME Apply PROVE UNCHANGED <<live, db>>
    BY <2>1, <2>2 DEF Apply, Applying, stage_rollouts, backup_database, SwapOut, SwapIn, ClearDatabase,
         FillPrimary, invalidate_local_thread_catalogs, Validate, apply_tracking_update,
         TrackingFails, Cleanup, homevars
  <2>3. ASSUME Rollback PROVE UNCHANGED <<live, db>>
    BY <2>1, <2>3 DEF Rollback, Undoing, UndoLive, UndoRestore, restore_database, UndoEnd, homevars
  <2>4. ASSUME Environment PROVE UNCHANGED <<live, db>>
    BY <2>4 DEF Environment, StepFails, Cancel, SaveFails, RollbackFails, UndoLiveFails,
         UndoRestoreFails, UndoDbFails, Crash, compare_and_set, CodexRuns, homevars
  <2>5. ASSUME Begin \/ Recover \/ SaveJournal \/ SaveRejection \/ UNCHANGED vars
        PROVE  UNCHANGED <<live, db>>
    BY <2>5 DEF Begin, Recover, SaveJournal, SaveRejection, vars, homevars
  <2>6. QED
    BY <2>2, <2>3, <2>4, <2>5 DEF Next, Process
<1>2. QED
  BY <1>1, CheckoutInvariant, PTL DEF Spec, NoBlindRollback
=============================================================================
