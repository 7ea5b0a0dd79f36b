--------------------------- MODULE CodexHomeProofs ---------------------------
(***************************************************************************)
(* Proofs about the operations that write the rollouts and thread rows of  *)
(* a Codex Home in place, for any number of conversations, snapshots,      *)
(* operations, edits and faults.                                           *)
(***************************************************************************)
EXTENDS CodexHome, RolloutProofs

(***************************************************************************)
(* Types.  A rollout in a home, beside it or in the quarantine names a     *)
(* workspace of the machine, never the token of a stored one.              *)
(***************************************************************************)
LocalRollouts == {ls \in Rollouts : ls # << >> => ls[1].cwd \in Workspace}
NormalForms == {ls \in Rollouts : normalizable(ls) /\ normalize_rollout(ls) = ls}

ImportSteps == {"backup", "backed_up", "applying", "commit", "rename", "validating",
                "validate", "rollback", "restore"}
ProviderSteps == {"displace", "install", "remove", "databases", "validate", "complete"}
ImportJobs == [kind : {"import"}, at : ImportSteps, id : OperationIds, todo : SUBSET Thread]
RecoveryJobs == [kind : {"recovery"}, at : {"recover", "restore"}, id : OperationIds]
ProviderJobs(staged) ==
    [kind : {"provider"}, at : ProviderSteps, id : OperationIds, staged : {staged},
     todo : SUBSET Thread, thread : Thread \cup {None}, dir : Dirs \cup {None}]
MutateJobs == [kind : {"mutate"}, at : {"row"}, thread : Thread,
               action : {"archive", "restore", "delete"}]
QuarantineJobs == [kind : {"quarantine"}, at : {"checked", "moved"}, thread : Thread]

FileTyping ==
    /\ config \in Provider
    /\ files \in [Thread -> [Dirs -> LocalRollouts \cup {None}]]
    /\ displaced \subseteq Thread \X LocalRollouts
    /\ quarantine \subseteq Thread \X LocalRollouts \X Nat
JobTyping ==
    \/ job \in {Idle} \cup ImportJobs \cup RecoveryJobs \cup MutateJobs \cup QuarantineJobs
    \/ /\ job \in ProviderJobs(job.staged)
       /\ DOMAIN job.staged \subseteq Thread
       /\ \A t \in DOMAIN job.staged : job.staged[t] \in LocalRollouts
RecordTyping ==
    /\ rows \in Rows
    /\ backups \in [OperationIds -> Rows \cup {None}]
    /\ journals \in [OperationIds -> Journal \cup {None}]
    /\ left \in [operations : 0..MaxOperations, touches : Nat, edits : Nat, faults : Nat]
SaidTyping == said = [t \in Thread |-> said[t]]
Typing == FileTyping /\ JobTyping /\ RecordTyping /\ SaidTyping

(***************************************************************************)
(* The journal and the backup of the operation that runs.                  *)
(***************************************************************************)
Numbered == \A id \in OperationIds : id >= NextId => journals[id] = None
Running ==
    /\ job.kind \in {"import", "recovery"} => Unfinished(job.id)
    /\ job.kind = "provider" => journals[job.id] # None /\ journals[job.id].kind = "provider"
    /\ job.kind = "import" /\ job.at # "backup" => backups[job.id] # None
    /\ job.kind = "recovery" /\ job.at = "restore" => backups[job.id] # None
Journaled == Numbered /\ Running
Imported ==
    job.kind = "import" =>
      /\ job.todo \subseteq DOMAIN Plan
      /\ job.at \in {"backup", "backed_up", "applying", "commit", "rename"} =>
           \A t \in job.todo : ~ Listed(t)
      /\ job.at \in {"rename", "validating", "validate"} =>
           \A t \in DOMAIN Plan : rows[t] # None

(***************************************************************************)
(* What a conversation says is in the rollout the scan finds, or beside    *)
(* it.  The operations that move rollouts know where they are.             *)
(***************************************************************************)
Aside(t, x) == \E o \in displaced \cup quarantine : o[1] = t /\ Said(o[2]) = x
Held(t) == (Listed(t) /\ Said(Rollout(t)) = said[t]) \/ Aside(t, said[t])
Work == \A t \in Thread : said[t] # None => Held(t)

StagedFor(t) == t \in DOMAIN job.staged /\ read_rollout_record(job.staged[t])
Old(o) == o[1] = job.thread /\ Said(o[2]) = Said(job.staged[job.thread])
Moving ==
    /\ \A o \in displaced : read_rollout_record(o[2])
    /\ job.kind = "provider" /\ job.at \in {"displace", "install", "remove"} =>
         \A t \in job.todo :
           /\ StagedFor(t)
           /\ (job.at = "displace" \/ t # job.thread) =>
                Listed(t) /\ Said(job.staged[t]) = Said(Rollout(t))
    /\ job.kind = "provider" /\ job.at \in {"install", "remove"} =>
         /\ job.thread \in job.todo /\ job.dir \in Dirs
         /\ \E o \in displaced : Old(o)
         /\ job.dir = "archived_sessions" => ~ Readable(job.thread, "sessions")
         /\ job.at = "install" /\ said[job.thread] # None => Aside(job.thread, said[job.thread])
    /\ job.kind = "provider" /\ job.at = "remove" =>
         files[job.thread][job.dir] = job.staged[job.thread]

Mine(ls) == ls # << >> => read_rollout_record(ls) /\ Said(ls) = said[job.thread]
Quarantining ==
    /\ \A q \in quarantine : q[3] >= left["touches"]
    /\ job.kind = "quarantine" /\ job.at = "checked" =>
         /\ \A q \in quarantine : q[3] > left["touches"]
         /\ files[job.thread]["sessions"] # None /\ Mine(files[job.thread]["sessions"])
    /\ job.kind = "quarantine" /\ job.at = "moved" =>
         /\ files[job.thread]["sessions"] = None
         /\ \A q \in quarantine : q[3] = left["touches"] =>
              /\ q[1] = job.thread /\ Mine(q[2])
              /\ \A r \in quarantine : r[3] = left["touches"] => r = q

HomeInv ==
    /\ Typing /\ Journaled /\ RecoveryHasItsBackup /\ Imported
    /\ Work /\ Moving /\ Quarantining
-----------------------------------------------------------------------------
(***************************************************************************)
(* What the rollouts of a home and those of a snapshot hold.               *)
(***************************************************************************)

\* The constants.
LEMMA Constants ==
    /\ MaxOperations \in Nat /\ MaxTouches \in Nat /\ MaxEdits \in Nat /\ MaxFaults \in Nat
    /\ None \notin Rollouts /\ None \notin Row /\ None \notin Rows /\ None \notin Journal
    /\ (CHOOSE w \in Workspace : TRUE) \in Workspace
    /\ WorkspaceToken \notin Workspace
  BY HomeAssumption, TokensAreReserved DEF Rollouts

\* A plan names conversations, directories and normal forms.
LEMMA PlanFacts ==
    ASSUME NEW plan \in Plans
    PROVE  /\ DOMAIN plan \subseteq Thread
           /\ \A t \in DOMAIN plan : plan[t].dir \in Dirs /\ plan[t].lines \in NormalForms
<1>1. CASE plan = [t \in {} |-> None]
  BY <1>1
<1>2. ASSUME NEW s \in Snapshots, NEW S \in SUBSET DOMAIN s, plan = Restrict(s, S)
      PROVE  /\ DOMAIN plan \subseteq Thread
             /\ \A t \in DOMAIN plan : plan[t].dir \in Dirs /\ plan[t].lines \in NormalForms
  <2>1. DOMAIN plan = S /\ \A t \in S : plan[t] = s[t]
    BY <1>2 DEF Restrict
  <2>2. \A t \in S : /\ t \in Thread /\ s[t].dir \in Dirs /\ s[t].lines \in Rollouts
                     /\ normalizable(s[t].lines) /\ normalize_rollout(s[t].lines) = s[t].lines
    BY HomeAssumption DEF Stored, Rollouts
  <2>3. QED
    BY <2>1, <2>2 DEF NormalForms
<1>3. QED
  BY <1>1, <1>2 DEF Plans

\* A stored rollout has the token where a local one has a workspace.
LEMMA NormalFormIsNotLocal == ASSUME NEW ls \in NormalForms PROVE ls \notin LocalRollouts
<1>1. ls \in Rollouts /\ normalizable(ls) /\ normalize_rollout(ls) = ls
  BY DEF NormalForms
<1>2. ls # << >> /\ 1 \in DOMAIN ls /\ ls[1] \in Line /\ ls[1].kind = "meta"
      /\ ls[1].size <= NormalizeLimit
  BY <1>1 DEF normalizable, Rollouts
<1>3. ls[1] = normalize_line(1, ls[1])
  BY <1>1, <1>2, LineByLine
<1>4. ls[1].cwd = WorkspaceToken
  BY <1>2, <1>3 DEF normalize_line, Line
<1>5. QED
  BY <1>2, <1>4, Constants DEF LocalRollouts

\* What materialize_rollout makes of a stored rollout is local.
LEMMA MaterializedIsLocal ==
    ASSUME NEW ls \in NormalForms, NEW p \in Provider, NEW w \in Workspace
    PROVE  materialize_rollout(ls, p, TRUE, w) \in LocalRollouts
<1> DEFINE m == materialize_rollout(ls, p, TRUE, w)
<1>1. ls \in Rollouts /\ ls # << >> /\ 1 \in DOMAIN ls /\ ls[1] \in Line /\ ls[1].kind = "meta"
  BY DEF NormalForms, normalizable, Rollouts
<1>2. m \in Rollouts
  BY <1>1, RewriteFacts DEF Rewritten
<1>3. m[1] = materialize_line(1 = 1, ls[1], p, TRUE, w)
  <2>1. FirstMeta(ls) = 1
    BY <1>1, FirstLineIsMeta
  <2>2. QED
    BY <1>1, <2>1 DEF materialize_rollout, MapLines, materialize_line
<1>4. m[1].cwd = w
  BY <1>1, <1>3 DEF materialize_line, Line
<1>5. QED
  BY <1>2, <1>4 DEF LocalRollouts

\* A rewrite for another provider keeps a rollout local, readable and what it says.
LEMMA TransformedIsLocal ==
    ASSUME NEW ls \in LocalRollouts, NEW p \in Provider
    PROVE  /\ transform_rollout_file(ls, p) \in LocalRollouts
           /\ Said(transform_rollout_file(ls, p)) = Said(ls)
           /\ read_rollout_record(ls) => read_rollout_record(transform_rollout_file(ls, p))
<1> DEFINE r == transform_rollout_file(ls, p)
<1>1. ls \in Rollouts /\ (ls # << >> => ls[1].cwd \in Workspace)
  BY DEF LocalRollouts
<1>2. Rewritten(r, ls)
  <2>1. (CHOOSE w \in Workspace : TRUE) \in Workspace
    BY Constants
  <2>2. QED
    BY <1>1, <2>1, RewriteFacts
<1>3. ls # << >> => /\ 1 \in DOMAIN ls /\ ls[1] \in Line /\ r[1] = transform_line(ls[1], p)
  <2>1. r = [i \in DOMAIN ls |-> transform_line(ls[i], p)]
    BY <1>1, LineByLine
  <2>2. ls # << >> => 1 \in DOMAIN ls /\ ls[1] \in Line
    BY <1>1 DEF Rollouts
  <2>3. QED
    BY <2>1, <2>2
<1>4. ls # << >> => r[1].cwd = ls[1].cwd
  BY <1>3 DEF transform_line, Line
<1>5. QED
  BY <1>1, <1>2, <1>3, <1>4 DEF LocalRollouts, Rewritten, read_rollout_record

\* What Codex writes is local and readable, and appending keeps a rollout so.
LEMMA CodexWritesLocal ==
    ASSUME config \in Provider, left["edits"] \in Nat
    PROVE  /\ << >> \in LocalRollouts /\ ~ read_rollout_record(<< >>)
           /\ <<Meta, Message>> \in LocalRollouts /\ read_rollout_record(<<Meta, Message>>)
           /\ <<Meta, Message>> # << >>
           /\ \A ls \in LocalRollouts : read_rollout_record(ls) =>
                Append(ls, Message) \in LocalRollouts /\ read_rollout_record(Append(ls, Message))
<1>1. Meta \in Line /\ Meta.cwd \in Workspace /\ Meta.kind = "meta" /\ Meta.mine /\ Meta.size = 0
  BY Constants DEF Meta, Line, Kinds
<1>2. Message \in Line
  BY <1>1 DEF Message, Line, Kinds
<1>3. << >> \in Rollouts /\ <<Meta, Message>> \in Rollouts
  BY <1>1, <1>2 DEF Rollouts
<1>4. ASSUME NEW ls \in LocalRollouts, read_rollout_record(ls)
      PROVE  Append(ls, Message) \in LocalRollouts /\ read_rollout_record(Append(ls, Message))
  <2>1. ls \in Seq(Line) /\ ls # << >> /\ ls[1].cwd \in Workspace
    BY <1>4 DEF LocalRollouts, Rollouts, read_rollout_record
  <2>2. /\ Append(ls, Message) \in Seq(Line) /\ Append(ls, Message) # << >>
        /\ Append(ls, Message)[1] = ls[1]
    BY <1>2, <2>1
  <2>3. QED
    BY <1>4, <2>1, <2>2 DEF LocalRollouts, Rollouts, read_rollout_record
<1>5. <<Meta, Message>>[1] = Meta /\ <<Meta, Message>> # << >>
  OBVIOUS
<1>6. QED
  BY <1>1, <1>3, <1>4, <1>5 DEF LocalRollouts, read_rollout_record, ScanLimit

\* A readable rollout is a file.
LEMMA ReadableFacts == ASSUME NEW ls, read_rollout_record(ls) PROVE ls # << >>
  BY DEF read_rollout_record

(***************************************************************************)
(* The scan.                                                               *)
(***************************************************************************)

\* The scan finds a rollout that is there and readable.
LEMMA ScanFacts ==
    ASSUME FileTyping, NEW t \in Thread
    PROVE  /\ DirOf(t) \in Dirs
           /\ Listed(t) => /\ Rollout(t) \in LocalRollouts /\ read_rollout_record(Rollout(t))
                           /\ Readable(t, DirOf(t)) /\ Rollout(t) # None
<1>1. DirOf(t) \in Dirs /\ (Listed(t) => Readable(t, DirOf(t)))
  BY DEF DirOf, Dirs, Listed
<1>2. QED
  BY <1>1, Constants DEF Readable, Rollout, FileTyping

\* A job has the fields of its kind.
LEMMA JobFacts ==
    ASSUME JobTyping
    PROVE  /\ job.kind \in {"idle", "import", "recovery", "provider", "mutate", "quarantine"}
           /\ job = Idle <=> job.kind = "idle"
           /\ job.kind = "import" => job \in ImportJobs
           /\ job.kind = "recovery" => job \in RecoveryJobs
           /\ job.kind = "mutate" => job \in MutateJobs
           /\ job.kind = "quarantine" => job \in QuarantineJobs
           /\ job.kind = "provider" =>
                /\ job \in ProviderJobs(job.staged) /\ DOMAIN job.staged \subseteq Thread
                /\ \A t \in DOMAIN job.staged : job.staged[t] \in LocalRollouts
  BY DEF JobTyping, Idle, ImportJobs, RecoveryJobs, MutateJobs, QuarantineJobs, ProviderJobs

(***************************************************************************)
(* Single writes.                                                          *)
(***************************************************************************)

\* A write to one rollout leaves the others alone.
LEMMA PutFacts ==
    ASSUME FileTyping, NEW t \in Thread, NEW d \in Dirs, NEW x \in LocalRollouts \cup {None},
           Put(t, d, x)
    PROVE  /\ files' \in [Thread -> [Dirs -> LocalRollouts \cup {None}]]
           /\ files'[t][d] = x
           /\ \A e \in Dirs : e # d => files'[t][e] = files[t][e]
           /\ \A u \in Thread : u # t => files'[u] = files[u]
  BY DEF Put, FileTyping

\* An import that is taken back removes no rollout: what it materialized is not the stored
\* object, and neither is anything else in a home.
LEMMA RemovesNothing ==
    ASSUME FileTyping, journals[job.id] \in Journal, remove_targets
    PROVE  files' = files
<1>1. \A t \in Thread, d \in Dirs : ~ RemovesTarget(t, d)
  <2>1. Plan \in Plans
    BY DEF Plan, Journal
  <2>2. \A t \in DOMAIN Plan : Plan[t].lines \notin LocalRollouts /\ Plan[t].lines # None
    BY <2>1, PlanFacts, NormalFormIsNotLocal, Constants DEF NormalForms
  <2>3. QED
    BY <2>2 DEF RemovesTarget, FileTyping
<1>2. files' = [t \in Thread |-> [d \in Dirs |-> files[t][d]]]
  BY <1>1 DEF remove_targets
<1>3. QED
  BY <1>2 DEF FileTyping

\* The .old file a provider synchronization finds again.
LEMMA OldFileFacts ==
    ASSUME \E o \in displaced : Old(o) PROVE OldFile \in displaced /\ Old(OldFile)
  BY DEF OldFile, Old

\* A journal of an operation that runs is a journal.
LEMMA RunningJournal ==
    ASSUME RecordTyping, JobTyping, Journaled, job.kind \in {"import", "recovery", "provider"}
    PROVE  job.id \in OperationIds /\ journals[job.id] \in Journal
<1>1. job.id \in OperationIds
  BY JobFacts DEF ImportJobs, RecoveryJobs, ProviderJobs
<1>2. journals[job.id] # None
  BY DEF Journaled, Running, Unfinished
<1>3. QED
  BY <1>1, <1>2 DEF RecordTyping

\* Each session directory has one other.
LEMMA OtherFacts == Other("sessions") = "archived_sessions" /\ Other("archived_sessions") = "sessions"
  BY DEF Other, Dirs

\* Every step keeps the types of the files.
LEMMA FileTypingStep ==
    ASSUME Typing, Journaled, Imported, Moving, Quarantining, [Next]_homevars
    PROVE  FileTyping'
<1>1. CASE UNCHANGED <<config, files, displaced, quarantine>>
  BY <1>1 DEF Typing, FileTyping
<1>2. ASSUME NEW s \in Snapshots, start_import(s)
      PROVE  UNCHANGED <<config, files, displaced, quarantine>>
  BY <1>2 DEF start_import, Spend
<1>3. ASSUME import_backup PROVE UNCHANGED <<config, files, displaced, quarantine>>
  BY <1>3 DEF import_backup, At, Goto
<1>4. ASSUME import_status("backed_up", "applying")
      PROVE  UNCHANGED <<config, files, displaced, quarantine>>
  BY <1>4 DEF import_status, At, Goto, Record
<1>5. ASSUME import_status("applying", "commit")
      PROVE  UNCHANGED <<config, files, displaced, quarantine>>
  BY <1>5 DEF import_status, At, Goto, Record
<1>6. ASSUME import_commit PROVE UNCHANGED <<config, files, displaced, quarantine>>
  BY <1>6 DEF import_commit, At, Goto
<1>7. ASSUME import_status("validating", "validate")
      PROVE  UNCHANGED <<config, files, displaced, quarantine>>
  BY <1>7 DEF import_status, At, Goto, Record
<1>8. ASSUME import_complete PROVE UNCHANGED <<config, files, displaced, quarantine>>
  BY <1>8 DEF import_complete, At, Record, Done
<1>9. ASSUME import_fails PROVE UNCHANGED <<config, files, displaced, quarantine>>
  BY <1>9 DEF import_fails, Goto, Spend
<1>10. ASSUME import_restore PROVE UNCHANGED <<config, files, displaced, quarantine>>
  BY <1>10 DEF import_restore, At, Record, Done, Spend
<1>11. ASSUME NEW id \in OperationIds, start_recovery(id)
       PROVE  UNCHANGED <<config, files, displaced, quarantine>>
  BY <1>11 DEF start_recovery
<1>12. ASSUME recover_database PROVE UNCHANGED <<config, files, displaced, quarantine>>
  BY <1>12 DEF recover_database, At, Record, Done
<1>13. ASSUME start_provider_sync PROVE UNCHANGED <<config, files, displaced, quarantine>>
  BY <1>13 DEF start_provider_sync, Spend
<1>14. ASSUME update_database_providers
       PROVE  UNCHANGED <<config, files, displaced, quarantine>>
  BY <1>14 DEF update_database_providers, At, Goto
<1>15. ASSUME validate_provider_sync
       PROVE  UNCHANGED <<config, files, displaced, quarantine>>
  BY <1>15 DEF validate_provider_sync, At, Record, Done
<1>16. ASSUME provider_nothing_to_do
       PROVE  UNCHANGED <<config, files, displaced, quarantine>>
  BY <1>16 DEF provider_nothing_to_do, At, Record, Done
<1>17. ASSUME provider_fails PROVE UNCHANGED <<config, files, displaced, quarantine>>
  BY <1>17 DEF provider_fails, Spend, Record, Done
<1>18. ASSUME mutate_row PROVE UNCHANGED <<config, files, displaced, quarantine>>
  BY <1>18 DEF mutate_row, Done
<1>19. ASSUME NEW t \in Thread, start_quarantine(t)
       PROVE  UNCHANGED <<config, files, displaced, quarantine>>
  BY <1>19 DEF start_quarantine, Spend
<1>20. ASSUME Stop PROVE UNCHANGED <<config, files, displaced, quarantine>>
  BY <1>20 DEF Stop, Spend, Done
<1>21. ASSUME NEW id \in OperationIds, delete_backup(id)
       PROVE  UNCHANGED <<config, files, displaced, quarantine>>
  BY <1>21 DEF delete_backup
<1>22. ASSUME NEW t \in Thread, CodexContinues(t) PROVE FileTyping'
  <2>1. t \in Thread /\ DirOf(t) \in Dirs /\ Append(Rollout(t), Message) \in LocalRollouts \cup {None}
    BY <1>22, ScanFacts, CodexWritesLocal DEF CodexContinues, Typing, FileTyping, RecordTyping
  <2>2. Put(t, DirOf(t), Append(Rollout(t), Message))
    BY <1>22 DEF CodexContinues, Written
  <2>3. files' \in [Thread -> [Dirs -> LocalRollouts \cup {None}]]
    BY <2>1, <2>2, PutFacts DEF Typing
  <2>4. QED
    BY <1>22, <2>3 DEF CodexContinues, Written, Typing, FileTyping
<1>23. ASSUME NEW t \in Thread, CodexOpens(t) PROVE FileTyping'
  <2>1. t \in Thread /\ "sessions" \in Dirs /\ << >> \in LocalRollouts \cup {None}
    BY <1>23, CodexWritesLocal DEF CodexOpens, Typing, FileTyping, RecordTyping, Dirs
  <2>2. Put(t, "sessions", << >>)
    BY <1>23 DEF CodexOpens
  <2>3. files' \in [Thread -> [Dirs -> LocalRollouts \cup {None}]]
    BY <2>1, <2>2, PutFacts DEF Typing
  <2>4. QED
    BY <1>23, <2>3 DEF CodexOpens, Typing, FileTyping
<1>24. ASSUME NEW t \in Thread, CodexBegins(t) PROVE FileTyping'
  <2>1. /\ "sessions" \in Dirs /\ <<Meta, Message>> \in LocalRollouts
        /\ config \in Provider /\ left["touches"] \in Nat
    BY CodexWritesLocal DEF Typing, FileTyping, RecordTyping, Dirs
  <2>2. CASE Written(t, "sessions", <<Meta, Message>>)
    BY <2>1, <2>2, PutFacts DEF Written, Typing, FileTyping
  <2>3. CASE /\ job # Idle /\ job.kind = "quarantine" /\ job.thread = t
             /\ quarantine' = (quarantine \ {Moved(<< >>)}) \cup {Moved(<<Meta, Message>>)}
             /\ UNCHANGED <<config, files, displaced>>
    BY <2>1, <2>3 DEF Moved, Typing, FileTyping
  <2>4. QED
    BY <1>24, <2>2, <2>3, JobFacts DEF CodexBegins, Typing, Idle
<1>25. ASSUME NEW p \in Provider, UserConfigures(p) PROVE FileTyping'
  BY <1>25 DEF UserConfigures, Spend, Typing, FileTyping
<1>26. ASSUME NEW t \in Thread, import_rename(t) PROVE FileTyping'
  <2>1. t \in DOMAIN Plan /\ Plan \in Plans
    BY <1>26, RunningJournal DEF import_rename, At, Imported, Typing, Plan, Journal
  <2>2. Plan[t].dir \in Dirs /\ Materialized(t) \in LocalRollouts
    BY <2>1, PlanFacts, Constants, MaterializedIsLocal DEF Materialized, Typing, FileTyping
  <2>3. Put(t, Plan[t].dir, Materialized(t)) /\ UNCHANGED <<config, displaced, quarantine>>
    BY <1>26 DEF import_rename
  <2>4. QED
    BY <2>2, <2>3, PutFacts DEF Typing, FileTyping
<1>27. CASE import_rollback
  <2>1. files' = files /\ UNCHANGED <<config, displaced, quarantine>>
    BY <1>27, RemovesNothing, RunningJournal DEF import_rollback, At, Typing
  <2>2. QED
    BY <2>1 DEF Typing, FileTyping
<1>28. CASE recover_incomplete_operation
  <2>1. files' = files /\ UNCHANGED <<config, displaced, quarantine>>
    BY <1>28, RemovesNothing, RunningJournal DEF recover_incomplete_operation, At, Typing
  <2>2. QED
    BY <2>1 DEF Typing, FileTyping
<1>29. ASSUME NEW t \in Thread, provider_displace(t) PROVE FileTyping'
  <2>1. Listed(t)
    BY <1>29 DEF provider_displace, At, Moving
  <2>2. DirOf(t) \in Dirs /\ Rollout(t) \in LocalRollouts
    BY <2>1, ScanFacts DEF Typing
  <2>3. Put(t, DirOf(t), None)
    BY <1>29 DEF provider_displace
  <2>4. QED
    BY <1>29, <2>2, <2>3, PutFacts DEF provider_displace, Typing, FileTyping
<1>30. CASE provider_install
  <2>1. /\ job.thread \in Thread /\ job.dir \in Dirs
        /\ job.staged[job.thread] \in LocalRollouts
    BY <1>30, JobFacts DEF provider_install, At, Moving, StagedFor, Typing, ProviderJobs
  <2>2. Put(job.thread, job.dir, job.staged[job.thread]) /\ UNCHANGED <<config, displaced, quarantine>>
    BY <1>30 DEF provider_install
  <2>3. QED
    BY <2>1, <2>2, PutFacts DEF Typing, FileTyping
<1>31. CASE provider_install_fails
  <2>1. /\ job.thread \in Thread /\ job.dir \in Dirs /\ OldFile \in displaced
    BY <1>31, JobFacts, OldFileFacts DEF provider_install_fails, At, Moving, Typing, ProviderJobs
  <2>2. OldFile[2] \in LocalRollouts
    BY <2>1 DEF Typing, FileTyping
  <2>3. CASE Put(job.thread, job.dir, OldFile[2]) /\ displaced' = displaced \ {OldFile}
    BY <1>31, <2>1, <2>2, <2>3, PutFacts DEF provider_install_fails, Typing, FileTyping
  <2>4. CASE UNCHANGED <<files, displaced>>
    BY <1>31, <2>4 DEF provider_install_fails, Typing, FileTyping
  <2>5. QED
    BY <1>31, <2>3, <2>4 DEF provider_install_fails
<1>32. CASE provider_remove
  BY <1>32 DEF provider_remove, At, Typing, FileTyping
<1>33. ASSUME NEW t \in Thread, NEW a \in {"archive", "restore", "delete"}, mutate_local_thread(t, a)
       PROVE  FileTyping'
  <2>1. /\ DirOf(t) \in Dirs /\ Other(DirOf(t)) \in Dirs /\ Rollout(t) \in LocalRollouts
    BY <1>33, ScanFacts, OtherFacts DEF mutate_local_thread, Typing, Dirs
  <2>2. QED
    BY <1>33, <2>1 DEF mutate_local_thread, Typing, FileTyping
<1>34. CASE quarantine_rename
  <2>1. job.thread \in Thread /\ "sessions" \in Dirs
    BY <1>34, JobFacts DEF quarantine_rename, At, Typing, QuarantineJobs, Dirs
  <2>2. files[job.thread]["sessions"] \in LocalRollouts /\ left["touches"] \in Nat
    BY <1>34, <2>1 DEF quarantine_rename, At, Typing, FileTyping, Quarantining, RecordTyping
  <2>3. Put(job.thread, "sessions", None)
    BY <1>34 DEF quarantine_rename
  <2>4. QED
    BY <1>34, <2>1, <2>2, <2>3, PutFacts DEF quarantine_rename, Moved, Typing, FileTyping
<1>35. CASE quarantine_recheck
  <2>1. job.thread \in Thread /\ "sessions" \in Dirs
    BY <1>35, JobFacts DEF quarantine_recheck, At, Typing, QuarantineJobs, Dirs
  <2>2. UNCHANGED <<config, displaced>> /\ quarantine' \subseteq quarantine
    BY <1>35 DEF quarantine_recheck
  <2>3. CASE UNCHANGED files
    BY <2>2, <2>3 DEF Typing, FileTyping
  <2>4. ASSUME NEW q \in quarantine, Put(job.thread, "sessions", q[2]) PROVE FileTyping'
    BY <2>1, <2>2, <2>4, PutFacts DEF Typing, FileTyping
  <2>5. QED
    BY <1>35, <2>3, <2>4 DEF quarantine_recheck
<1>36. ASSUME UNCHANGED homevars PROVE UNCHANGED <<config, files, displaced, quarantine>>
  BY <1>36 DEF homevars
<1>37. QED
  BY <1>1, <1>2, <1>3, <1>4, <1>5, <1>6, <1>7, <1>8, <1>9, <1>10, <1>11, <1>12, <1>13,
     <1>14, <1>15, <1>16, <1>17, <1>18, <1>19, <1>20, <1>21, <1>22, <1>23, <1>24, <1>25,
     <1>26, <1>27, <1>28, <1>29, <1>30, <1>31, <1>32, <1>33, <1>34, <1>35, <1>36 DEF Next,
         Codex, Import, ProviderSync, Mutate

(***************************************************************************)
(* The records of operations.                                              *)
(***************************************************************************)

\* A bound is spent one by one.
LEMMA SpendFacts ==
    ASSUME RecordTyping, NEW what \in {"operations", "touches", "edits", "faults"}, Spend(what)
    PROVE  /\ left' \in [operations : 0..MaxOperations, touches : Nat, edits : Nat, faults : Nat]
           /\ left[what] > 0 /\ left'[what] = left[what] - 1
           /\ \A x \in {"operations", "touches", "edits", "faults"} : x # what => left'[x] = left[x]
<1>1. left \in [operations : 0..MaxOperations, touches : Nat, edits : Nat, faults : Nat]
  BY DEF RecordTyping
<1>2. left[what] > 0 /\ left' = [left EXCEPT ![what] = left[what] - 1]
  BY DEF Spend
<1>3. QED
  BY <1>1, <1>2, Constants

\* A journal write changes the status of one journal.
LEMMA RecordFacts ==
    ASSUME RecordTyping, NEW id \in OperationIds, journals[id] \in Journal,
           NEW st \in Statuses, Record(id, st)
    PROVE  /\ journals' \in [OperationIds -> Journal \cup {None}]
           /\ journals'[id] \in Journal /\ journals'[id].status = st
           /\ journals'[id].kind = journals[id].kind /\ journals'[id].plan = journals[id].plan
           /\ \A i \in OperationIds : i # id => journals'[i] = journals[i]
  BY DEF Record, RecordTyping, Journal

\* The number of the next operation.
LEMMA NextIdFacts ==
    ASSUME RecordTyping
    PROVE  /\ left["operations"] > 0 => NextId \in OperationIds
           /\ NextId \in Nat /\ OperationIds \subseteq Nat
<1>1. left["operations"] \in 0..MaxOperations
  BY DEF RecordTyping
<1>2. QED
  BY <1>1, Constants DEF NextId, OperationIds

\* What an import plans of a snapshot is a plan.
LEMMA PlanIsPart ==
    ASSUME NEW s \in Snapshots PROVE Restrict(s, {t \in DOMAIN s : ~ Listed(t)}) \in Plans
<1> DEFINE plan == Restrict(s, {t \in DOMAIN s : ~ Listed(t)})
<1>1. {t \in DOMAIN s : ~ Listed(t)} \in SUBSET DOMAIN s
  OBVIOUS
<1>2. plan \in {Restrict(s, S) : S \in SUBSET DOMAIN s}
  BY <1>1
<1> HIDE DEF plan
<1>3. plan \in Plans
  BY <1>2 DEF Plans
<1>4. QED
  BY <1>3 DEF plan

\* Every step keeps the type of the thread rows.
LEMMA RowsStep ==
    ASSUME Typing, Journaled, [Next]_homevars
    PROVE  rows' \in Rows
<1>1. CASE UNCHANGED rows
  BY <1>1 DEF Typing, RecordTyping
<1>2. ASSUME NEW t \in Thread, CodexContinues(t) PROVE UNCHANGED rows
  BY <1>2 DEF CodexContinues, Written, Put, Spend
<1>3. ASSUME NEW t \in Thread, CodexOpens(t) PROVE UNCHANGED rows
  BY <1>3 DEF CodexOpens, Put, Spend
<1>4. ASSUME NEW p \in Provider, UserConfigures(p) PROVE UNCHANGED rows
  BY <1>4 DEF UserConfigures, Spend
<1>5. ASSUME NEW s \in Snapshots, start_import(s) PROVE UNCHANGED rows
  BY <1>5 DEF start_import, Spend
<1>6. ASSUME import_backup PROVE UNCHANGED rows
  BY <1>6 DEF import_backup, At, Goto
<1>7. ASSUME import_status("backed_up", "applying") PROVE UNCHANGED rows
  BY <1>7 DEF import_status, At, Goto, Record
<1>8. ASSUME import_status("applying", "commit") PROVE UNCHANGED rows
  BY <1>8 DEF import_status, At, Goto, Record
<1>9. ASSUME NEW t \in Thread, import_rename(t) PROVE UNCHANGED rows
  BY <1>9 DEF import_rename, At, Put
<1>10. ASSUME import_status("validating", "validate") PROVE UNCHANGED rows
  BY <1>10 DEF import_status, At, Goto, Record
<1>11. ASSUME import_complete PROVE UNCHANGED rows
  BY <1>11 DEF import_complete, At, Record, Done
<1>12. ASSUME import_fails PROVE UNCHANGED rows
  BY <1>12 DEF import_fails, Goto, Spend
<1>13. ASSUME import_rollback PROVE UNCHANGED rows
  BY <1>13 DEF import_rollback, At, Goto, remove_targets
<1>14. ASSUME NEW id \in OperationIds, start_recovery(id) PROVE UNCHANGED rows
  BY <1>14 DEF start_recovery
<1>15. ASSUME recover_incomplete_operation PROVE UNCHANGED rows
  BY <1>15 DEF recover_incomplete_operation, At, Goto, Record, Done, remove_targets
<1>16. ASSUME start_provider_sync PROVE UNCHANGED rows
  BY <1>16 DEF start_provider_sync, Spend
<1>17. ASSUME NEW t \in Thread, provider_displace(t) PROVE UNCHANGED rows
  BY <1>17 DEF provider_displace, At, Put
<1>18. ASSUME provider_install PROVE UNCHANGED rows
  BY <1>18 DEF provider_install, At, Goto, Put
<1>19. ASSUME provider_install_fails PROVE UNCHANGED rows
  BY <1>19 DEF provider_install_fails, At, Spend, Put, Record, Done
<1>20. ASSUME provider_remove PROVE UNCHANGED rows
  BY <1>20 DEF provider_remove, At
<1>21. ASSUME validate_provider_sync PROVE UNCHANGED rows
  BY <1>21 DEF validate_provider_sync, At, Record, Done
<1>22. ASSUME provider_nothing_to_do PROVE UNCHANGED rows
  BY <1>22 DEF provider_nothing_to_do, At, Record, Done
<1>23. ASSUME provider_fails PROVE UNCHANGED rows
  BY <1>23 DEF provider_fails, Spend, Record, Done
<1>24. ASSUME NEW t \in Thread, NEW a \in {"archive", "restore", "delete"}, mutate_local_thread(t, a)
       PROVE  UNCHANGED rows
  BY <1>24 DEF mutate_local_thread, Spend
<1>25. ASSUME NEW t \in Thread, start_quarantine(t) PROVE UNCHANGED rows
  BY <1>25 DEF start_quarantine, Spend
<1>26. ASSUME quarantine_rename PROVE UNCHANGED rows
  BY <1>26 DEF quarantine_rename, At, Put, Goto, Moved
<1>27. ASSUME quarantine_recheck PROVE UNCHANGED rows
  BY <1>27 DEF quarantine_recheck, At, Put, Done, Moved
<1>28. ASSUME Stop PROVE UNCHANGED rows
  BY <1>28 DEF Stop, Spend, Done
<1>29. ASSUME NEW id \in OperationIds, delete_backup(id) PROVE UNCHANGED rows
  BY <1>29 DEF delete_backup
<1>30. ASSUME NEW t \in Thread, CodexBegins(t) PROVE rows' \in Rows
  <2>1. [archived |-> FALSE, prov |-> config] \in Row
    BY DEF Row, Typing, FileTyping
  <2>2. QED
    BY <1>30, <2>1 DEF CodexBegins, Typing, RecordTyping, Rows
<1>31. CASE import_commit
  <2>1. \A t \in Thread : insert_thread_row(t) \in Row
    BY DEF insert_thread_row, Row
  <2>2. QED
    BY <1>31, <2>1 DEF import_commit, Typing, RecordTyping, Rows
<1>32. CASE import_restore
  <2>1. job.id \in OperationIds /\ backups[job.id] # None
    BY <1>32, RunningJournal DEF import_restore, At, Typing, Journaled, Running
  <2>2. QED
    BY <1>32, <2>1 DEF import_restore, Typing, RecordTyping
<1>33. CASE recover_database
  <2>1. job.id \in OperationIds /\ backups[job.id] # None
    BY <1>33, RunningJournal DEF recover_database, At, Typing, Journaled, Running
  <2>2. QED
    BY <1>33, <2>1 DEF recover_database, Typing, RecordTyping
<1>34. CASE update_database_providers
  <2>1. \A t \in Thread : rows[t] # None => [rows[t] EXCEPT !.prov = config] \in Row
    BY DEF Typing, FileTyping, RecordTyping, Rows, Row
  <2>2. QED
    BY <1>34, <2>1 DEF update_database_providers, Rows
<1>35. CASE mutate_row
  <2>1. \A b \in BOOLEAN, t \in Thread : rows[t] # None => [rows[t] EXCEPT !.archived = b] \in Row
    BY DEF Typing, RecordTyping, Rows, Row
  <2>2. job.thread \in Thread
    BY <1>35, JobFacts DEF mutate_row, Typing, MutateJobs
  <2>3. QED
    BY <1>35, <2>1, <2>2 DEF mutate_row, Typing, RecordTyping, Rows
<1>36. ASSUME UNCHANGED homevars PROVE UNCHANGED rows
  BY <1>36 DEF homevars
<1>37. QED
  BY <1>1, <1>2, <1>3, <1>4, <1>5, <1>6, <1>7, <1>8, <1>9, <1>10, <1>11, <1>12, <1>13,
     <1>14, <1>15, <1>16, <1>17, <1>18, <1>19, <1>20, <1>21, <1>22, <1>23, <1>24, <1>25,
     <1>26, <1>27, <1>28, <1>29, <1>30, <1>31, <1>32, <1>33, <1>34, <1>35, <1>36 DEF Next,
         Codex, Import, ProviderSync, Mutate

\* Every step keeps the type of the backups.
LEMMA BackupsStep ==
    ASSUME Typing, Journaled, [Next]_homevars
    PROVE  backups' \in [OperationIds -> Rows \cup {None}]
<1>1. CASE UNCHANGED backups
  BY <1>1 DEF Typing, RecordTyping
<1>2. ASSUME NEW t \in Thread, CodexContinues(t) PROVE UNCHANGED backups
  BY <1>2 DEF CodexContinues, Written, Put, Spend
<1>3. ASSUME NEW t \in Thread, CodexOpens(t) PROVE UNCHANGED backups
  BY <1>3 DEF CodexOpens, Put, Spend
<1>4. ASSUME NEW t \in Thread, CodexBegins(t) PROVE UNCHANGED backups
  BY <1>4 DEF CodexBegins, Written, Put, Moved, Spend
<1>5. ASSUME NEW p \in Provider, UserConfigures(p) PROVE UNCHANGED backups
  BY <1>5 DEF UserConfigures, Spend
<1>6. ASSUME NEW s \in Snapshots, start_import(s) PROVE UNCHANGED backups
  BY <1>6 DEF start_import, Spend
<1>7. ASSUME import_status("backed_up", "applying") PROVE UNCHANGED backups
  BY <1>7 DEF import_status, At, Goto, Record
<1>8. ASSUME import_status("applying", "commit") PROVE UNCHANGED backups
  BY <1>8 DEF import_status, At, Goto, Record
<1>9. ASSUME import_commit PROVE UNCHANGED backups
  BY <1>9 DEF import_commit, At, Goto
<1>10. ASSUME NEW t \in Thread, import_rename(t) PROVE UNCHANGED backups
  BY <1>10 DEF import_rename, At, Put
<1>11. ASSUME import_status("validating", "validate") PROVE UNCHANGED backups
  BY <1>11 DEF import_status, At, Goto, Record
<1>12. ASSUME import_complete PROVE UNCHANGED backups
  BY <1>12 DEF import_complete, At, Record, Done
<1>13. ASSUME import_fails PROVE UNCHANGED backups
  BY <1>13 DEF import_fails, Goto, Spend
<1>14. ASSUME import_rollback PROVE UNCHANGED backups
  BY <1>14 DEF import_rollback, At, Goto, remove_targets
<1>15. ASSUME import_restore PROVE UNCHANGED backups
  BY <1>15 DEF import_restore, At, Record, Done, Spend
<1>16. ASSUME NEW id \in OperationIds, start_recovery(id) PROVE UNCHANGED backups
  BY <1>16 DEF start_recovery
<1>17. ASSUME recover_incomplete_operation PROVE UNCHANGED backups
  BY <1>17 DEF recover_incomplete_operation, At, Goto, Record, Done, remove_targets
<1>18. ASSUME recover_database PROVE UNCHANGED backups
  BY <1>18 DEF recover_database, At, Record, Done
<1>19. ASSUME start_provider_sync PROVE UNCHANGED backups
  BY <1>19 DEF start_provider_sync, Spend
<1>20. ASSUME NEW t \in Thread, provider_displace(t) PROVE UNCHANGED backups
  BY <1>20 DEF provider_displace, At, Put
<1>21. ASSUME provider_install PROVE UNCHANGED backups
  BY <1>21 DEF provider_install, At, Goto, Put
<1>22. ASSUME provider_install_fails PROVE UNCHANGED backups
  BY <1>22 DEF provider_install_fails, At, Spend, Put, Record, Done
<1>23. ASSUME provider_remove PROVE UNCHANGED backups
  BY <1>23 DEF provider_remove, At
<1>24. ASSUME update_database_providers PROVE UNCHANGED backups
  BY <1>24 DEF update_database_providers, At, Goto
<1>25. ASSUME validate_provider_sync PROVE UNCHANGED backups
  BY <1>25 DEF validate_provider_sync, At, Record, Done
<1>26. ASSUME provider_nothing_to_do PROVE UNCHANGED backups
  BY <1>26 DEF provider_nothing_to_do, At, Record, Done
<1>27. ASSUME provider_fails PROVE UNCHANGED backups
  BY <1>27 DEF provider_fails, Spend, Record, Done
<1>28. ASSUME NEW t \in Thread, NEW a \in {"archive", "restore", "delete"}, mutate_local_thread(t, a)
       PROVE  UNCHANGED backups
  BY <1>28 DEF mutate_local_thread, Spend
<1>29. ASSUME mutate_row PROVE UNCHANGED backups
  BY <1>29 DEF mutate_row, Done
<1>30. ASSUME NEW t \in Thread, start_quarantine(t) PROVE UNCHANGED backups
  BY <1>30 DEF start_quarantine, Spend
<1>31. ASSUME quarantine_rename PROVE UNCHANGED backups
  BY <1>31 DEF quarantine_rename, At, Put, Goto, Moved
<1>32. ASSUME quarantine_recheck PROVE UNCHANGED backups
  BY <1>32 DEF quarantine_recheck, At, Put, Done, Moved
<1>33. ASSUME Stop PROVE UNCHANGED backups
  BY <1>33 DEF Stop, Spend, Done
<1>34. CASE import_backup
  BY <1>34 DEF import_backup, At, Goto, Typing, RecordTyping
<1>35. ASSUME NEW id \in OperationIds, delete_backup(id)
       PROVE  backups' \in [OperationIds -> Rows \cup {None}]
  BY <1>35 DEF delete_backup, Typing, RecordTyping
<1>36. ASSUME UNCHANGED homevars PROVE UNCHANGED backups
  BY <1>36 DEF homevars
<1>37. QED
  BY <1>1, <1>2, <1>3, <1>4, <1>5, <1>6, <1>7, <1>8, <1>9, <1>10, <1>11, <1>12, <1>13,
     <1>14, <1>15, <1>16, <1>17, <1>18, <1>19, <1>20, <1>21, <1>22, <1>23, <1>24, <1>25,
     <1>26, <1>27, <1>28, <1>29, <1>30, <1>31, <1>32, <1>33, <1>34, <1>35, <1>36 DEF Next,
         Codex, Import, ProviderSync, Mutate

\* Every step keeps the type of the journals.
LEMMA JournalsStep ==
    ASSUME Typing, Journaled, [Next]_homevars
    PROVE  journals' \in [OperationIds -> Journal \cup {None}]
<1>1. CASE UNCHANGED journals
  BY <1>1 DEF Typing, RecordTyping
<1>2. ASSUME NEW t \in Thread, CodexContinues(t) PROVE UNCHANGED journals
  BY <1>2 DEF CodexContinues, Written, Put, Spend
<1>3. ASSUME NEW t \in Thread, CodexOpens(t) PROVE UNCHANGED journals
  BY <1>3 DEF CodexOpens, Put, Spend
<1>4. ASSUME NEW t \in Thread, CodexBegins(t) PROVE UNCHANGED journals
  BY <1>4 DEF CodexBegins, Written, Put, Moved, Spend
<1>5. ASSUME NEW p \in Provider, UserConfigures(p) PROVE UNCHANGED journals
  BY <1>5 DEF UserConfigures, Spend
<1>6. ASSUME import_backup PROVE UNCHANGED journals
  BY <1>6 DEF import_backup, At, Goto
<1>7. ASSUME import_commit PROVE UNCHANGED journals
  BY <1>7 DEF import_commit, At, Goto
<1>8. ASSUME NEW t \in Thread, import_rename(t) PROVE UNCHANGED journals
  BY <1>8 DEF import_rename, At, Put
<1>9. ASSUME import_fails PROVE UNCHANGED journals
  BY <1>9 DEF import_fails, Goto, Spend
<1>10. ASSUME import_rollback PROVE UNCHANGED journals
  BY <1>10 DEF import_rollback, At, Goto, remove_targets
<1>11. ASSUME NEW id \in OperationIds, start_recovery(id) PROVE UNCHANGED journals
  BY <1>11 DEF start_recovery
<1>12. ASSUME NEW t \in Thread, provider_displace(t) PROVE UNCHANGED journals
  BY <1>12 DEF provider_displace, At, Put
<1>13. ASSUME provider_install PROVE UNCHANGED journals
  BY <1>13 DEF provider_install, At, Goto, Put
<1>14. ASSUME provider_remove PROVE UNCHANGED journals
  BY <1>14 DEF provider_remove, At
<1>15. ASSUME update_database_providers PROVE UNCHANGED journals
  BY <1>15 DEF update_database_providers, At, Goto
<1>16. ASSUME NEW t \in Thread, NEW a \in {"archive", "restore", "delete"}, mutate_local_thread(t, a)
       PROVE  UNCHANGED journals
  BY <1>16 DEF mutate_local_thread, Spend
<1>17. ASSUME mutate_row PROVE UNCHANGED journals
  BY <1>17 DEF mutate_row, Done
<1>18. ASSUME NEW t \in Thread, start_quarantine(t) PROVE UNCHANGED journals
  BY <1>18 DEF start_quarantine, Spend
<1>19. ASSUME quarantine_rename PROVE UNCHANGED journals
  BY <1>19 DEF quarantine_rename, At, Put, Goto, Moved
<1>20. ASSUME quarantine_recheck PROVE UNCHANGED journals
  BY <1>20 DEF quarantine_recheck, At, Put, Done, Moved
<1>21. ASSUME Stop PROVE UNCHANGED journals
  BY <1>21 DEF Stop, Spend, Done
<1>22. ASSUME NEW id \in OperationIds, delete_backup(id) PROVE UNCHANGED journals
  BY <1>22 DEF delete_backup
<1>23. ASSUME NEW s \in Snapshots, start_import(s)
       PROVE  journals' \in [OperationIds -> Journal \cup {None}]
  <2> DEFINE plan == Restrict(s, {t \in DOMAIN s : ~ Listed(t)})
             j == [kind |-> "import", plan |-> plan,
                   status |-> IF DOMAIN plan = {} THEN "completed" ELSE "preparing"]
  <2>1. plan \in Plans
    BY PlanIsPart
  <2> HIDE DEF plan
  <2>2. j \in Journal
    BY <2>1 DEF Journal, Statuses
  <2>3. journals' = [journals EXCEPT ![NextId] = j]
    BY <1>23 DEF start_import, plan
  <2>4. QED
    BY <2>2, <2>3 DEF Typing, RecordTyping
<1>24. CASE import_status("backed_up", "applying")
  <2>1. job.id \in OperationIds /\ journals[job.id] \in Journal
    BY <1>24, RunningJournal DEF import_status, At, Typing
  <2>2. QED
    BY <1>24, <2>1, RecordFacts DEF import_status, Typing, RecordTyping, Statuses
<1>25. CASE import_status("applying", "commit")
  <2>1. job.id \in OperationIds /\ journals[job.id] \in Journal
    BY <1>25, RunningJournal DEF import_status, At, Typing
  <2>2. QED
    BY <1>25, <2>1, RecordFacts DEF import_status, Typing, RecordTyping, Statuses
<1>26. CASE import_status("validating", "validate")
  <2>1. job.id \in OperationIds /\ journals[job.id] \in Journal
    BY <1>26, RunningJournal DEF import_status, At, Typing
  <2>2. QED
    BY <1>26, <2>1, RecordFacts DEF import_status, Typing, RecordTyping, Statuses
<1>27. CASE import_complete
  <2>1. job.id \in OperationIds /\ journals[job.id] \in Journal
    BY <1>27, RunningJournal DEF import_complete, At, Typing
  <2>2. QED
    BY <1>27, <2>1, RecordFacts DEF import_complete, Typing, RecordTyping, Statuses
<1>28. CASE import_restore
  <2>1. job.id \in OperationIds /\ journals[job.id] \in Journal
    BY <1>28, RunningJournal DEF import_restore, At, Typing
  <2>2. QED
    BY <1>28, <2>1, RecordFacts DEF import_restore, Typing, RecordTyping, Statuses
<1>29. CASE recover_incomplete_operation
  <2>1. job.id \in OperationIds /\ journals[job.id] \in Journal
    BY <1>29, RunningJournal DEF recover_incomplete_operation, At, Typing
  <2>2. QED
    BY <1>29, <2>1, RecordFacts DEF recover_incomplete_operation, Typing, RecordTyping, Statuses
<1>30. CASE recover_database
  <2>1. job.id \in OperationIds /\ journals[job.id] \in Journal
    BY <1>30, RunningJournal DEF recover_database, At, Typing
  <2>2. QED
    BY <1>30, <2>1, RecordFacts DEF recover_database, Typing, RecordTyping, Statuses
<1>31. CASE start_provider_sync
  <2> DEFINE J(ok) == [kind |-> "provider", plan |-> [t \in {} |-> None],
                       status |-> IF ok THEN "applying" ELSE "failed"]
  <2>1. \A ok \in BOOLEAN : J(ok) \in Journal
    BY DEF Journal, Statuses, Plans
  <2>2. \E ok \in BOOLEAN : journals' = [journals EXCEPT ![NextId] = J(ok)]
    BY <1>31 DEF start_provider_sync
  <2>3. QED
    BY <2>1, <2>2 DEF Typing, RecordTyping
<1>32. CASE provider_install_fails
  <2>1. job.id \in OperationIds /\ journals[job.id] \in Journal
    BY <1>32, RunningJournal DEF provider_install_fails, At, Typing
  <2>2. QED
    BY <1>32, <2>1, RecordFacts DEF provider_install_fails, Typing, RecordTyping, Statuses
<1>33. CASE validate_provider_sync
  <2>1. job.id \in OperationIds /\ journals[job.id] \in Journal
    BY <1>33, RunningJournal DEF validate_provider_sync, At, Typing
  <2>2. QED
    BY <1>33, <2>1, RecordFacts DEF validate_provider_sync, Typing, RecordTyping, Statuses
<1>34. CASE provider_nothing_to_do
  <2>1. job.id \in OperationIds /\ journals[job.id] \in Journal
    BY <1>34, RunningJournal DEF provider_nothing_to_do, At, Typing
  <2>2. QED
    BY <1>34, <2>1, RecordFacts DEF provider_nothing_to_do, Typing, RecordTyping, Statuses
<1>35. CASE provider_fails
  <2>1. job.id \in OperationIds /\ journals[job.id] \in Journal
    BY <1>35, RunningJournal DEF provider_fails, At, Typing
  <2>2. QED
    BY <1>35, <2>1, RecordFacts DEF provider_fails, Typing, RecordTyping, Statuses
<1>36. ASSUME UNCHANGED homevars PROVE UNCHANGED journals
  BY <1>36 DEF homevars
<1>37. QED
  BY <1>1, <1>2, <1>3, <1>4, <1>5, <1>6, <1>7, <1>8, <1>9, <1>10, <1>11, <1>12, <1>13,
     <1>14, <1>15, <1>16, <1>17, <1>18, <1>19, <1>20, <1>21, <1>22, <1>23, <1>24, <1>25,
     <1>26, <1>27, <1>28, <1>29, <1>30, <1>31, <1>32, <1>33, <1>34, <1>35, <1>36 DEF Next,
         Codex, Import, ProviderSync, Mutate

\* Every step keeps the type of the bounds.
LEMMA LeftStep ==
    ASSUME Typing, [Next]_homevars
    PROVE  left' \in [operations : 0..MaxOperations, touches : Nat, edits : Nat, faults : Nat]
<1>1. CASE UNCHANGED left
  BY <1>1 DEF Typing, RecordTyping
<1>2. ASSUME import_backup PROVE UNCHANGED left
  BY <1>2 DEF import_backup, At, Goto
<1>3. ASSUME import_status("backed_up", "applying") PROVE UNCHANGED left
  BY <1>3 DEF import_status, At, Goto, Record
<1>4. ASSUME import_status("applying", "commit") PROVE UNCHANGED left
  BY <1>4 DEF import_status, At, Goto, Record
<1>5. ASSUME import_commit PROVE UNCHANGED left
  BY <1>5 DEF import_commit, At, Goto
<1>6. ASSUME NEW t \in Thread, import_rename(t) PROVE UNCHANGED left
  BY <1>6 DEF import_rename, At, Put
<1>7. ASSUME import_status("validating", "validate") PROVE UNCHANGED left
  BY <1>7 DEF import_status, At, Goto, Record
<1>8. ASSUME import_complete PROVE UNCHANGED left
  BY <1>8 DEF import_complete, At, Record, Done
<1>9. ASSUME import_rollback PROVE UNCHANGED left
  BY <1>9 DEF import_rollback, At, Goto, remove_targets
<1>10. ASSUME NEW id \in OperationIds, start_recovery(id) PROVE UNCHANGED left
  BY <1>10 DEF start_recovery
<1>11. ASSUME recover_incomplete_operation PROVE UNCHANGED left
  BY <1>11 DEF recover_incomplete_operation, At, Goto, Record, Done, remove_targets
<1>12. ASSUME recover_database PROVE UNCHANGED left
  BY <1>12 DEF recover_database, At, Record, Done
<1>13. ASSUME NEW t \in Thread, provider_displace(t) PROVE UNCHANGED left
  BY <1>13 DEF provider_displace, At, Put
<1>14. ASSUME provider_install PROVE UNCHANGED left
  BY <1>14 DEF provider_install, At, Goto, Put
<1>15. ASSUME provider_remove PROVE UNCHANGED left
  BY <1>15 DEF provider_remove, At
<1>16. ASSUME update_database_providers PROVE UNCHANGED left
  BY <1>16 DEF update_database_providers, At, Goto
<1>17. ASSUME validate_provider_sync PROVE UNCHANGED left
  BY <1>17 DEF validate_provider_sync, At, Record, Done
<1>18. ASSUME provider_nothing_to_do PROVE UNCHANGED left
  BY <1>18 DEF provider_nothing_to_do, At, Record, Done
<1>19. ASSUME mutate_row PROVE UNCHANGED left
  BY <1>19 DEF mutate_row, Done
<1>20. ASSUME quarantine_rename PROVE UNCHANGED left
  BY <1>20 DEF quarantine_rename, At, Put, Goto, Moved
<1>21. ASSUME quarantine_recheck PROVE UNCHANGED left
  BY <1>21 DEF quarantine_recheck, At, Put, Done, Moved
<1>22. ASSUME NEW id \in OperationIds, delete_backup(id) PROVE UNCHANGED left
  BY <1>22 DEF delete_backup
<1>23. ASSUME NEW t \in Thread, CodexContinues(t)
       PROVE  left' \in [operations : 0..MaxOperations, touches : Nat, edits : Nat, faults : Nat]
  BY <1>23, SpendFacts DEF CodexContinues, Typing, RecordTyping
<1>24. ASSUME NEW t \in Thread, CodexOpens(t)
       PROVE  left' \in [operations : 0..MaxOperations, touches : Nat, edits : Nat, faults : Nat]
  BY <1>24, SpendFacts DEF CodexOpens, Typing, RecordTyping
<1>25. ASSUME NEW t \in Thread, CodexBegins(t)
       PROVE  left' \in [operations : 0..MaxOperations, touches : Nat, edits : Nat, faults : Nat]
  BY <1>25, SpendFacts DEF CodexBegins, Typing, RecordTyping
<1>26. ASSUME NEW p \in Provider, UserConfigures(p)
       PROVE  left' \in [operations : 0..MaxOperations, touches : Nat, edits : Nat, faults : Nat]
  BY <1>26, SpendFacts DEF UserConfigures, Typing, RecordTyping
<1>27. ASSUME NEW s \in Snapshots, start_import(s)
       PROVE  left' \in [operations : 0..MaxOperations, touches : Nat, edits : Nat, faults : Nat]
  BY <1>27, SpendFacts DEF start_import, Typing, RecordTyping
<1>28. CASE import_fails
  BY <1>28, SpendFacts DEF import_fails, Typing, RecordTyping
<1>29. CASE import_restore
  BY <1>29, SpendFacts DEF import_restore, Typing, RecordTyping
<1>30. CASE start_provider_sync
  BY <1>30, SpendFacts DEF start_provider_sync, Typing, RecordTyping
<1>31. CASE provider_install_fails
  BY <1>31, SpendFacts DEF provider_install_fails, Typing, RecordTyping
<1>32. CASE provider_fails
  BY <1>32, SpendFacts DEF provider_fails, Typing, RecordTyping
<1>33. ASSUME NEW t \in Thread, NEW a \in {"archive", "restore", "delete"}, mutate_local_thread(t, a)
       PROVE  left' \in [operations : 0..MaxOperations, touches : Nat, edits : Nat, faults : Nat]
  BY <1>33, SpendFacts DEF mutate_local_thread, Typing, RecordTyping
<1>34. ASSUME NEW t \in Thread, start_quarantine(t)
       PROVE  left' \in [operations : 0..MaxOperations, touches : Nat, edits : Nat, faults : Nat]
  BY <1>34, SpendFacts DEF start_quarantine, Typing, RecordTyping
<1>35. CASE Stop
  BY <1>35, SpendFacts DEF Stop, Typing, RecordTyping
<1>36. ASSUME UNCHANGED homevars PROVE UNCHANGED left
  BY <1>36 DEF homevars
<1>37. QED
  BY <1>1, <1>2, <1>3, <1>4, <1>5, <1>6, <1>7, <1>8, <1>9, <1>10, <1>11, <1>12, <1>13,
     <1>14, <1>15, <1>16, <1>17, <1>18, <1>19, <1>20, <1>21, <1>22, <1>23, <1>24, <1>25,
     <1>26, <1>27, <1>28, <1>29, <1>30, <1>31, <1>32, <1>33, <1>34, <1>35, <1>36 DEF Next,
         Codex, Import, ProviderSync, Mutate

(***************************************************************************)
(* The operation that runs.                                                *)
(***************************************************************************)

\* A step of an import or of its recovery stays one.
LEMMA GotoFacts ==
    ASSUME NEW x, Goto(x)
    PROVE  /\ job \in ImportJobs /\ x \in ImportSteps =>
                /\ job' \in ImportJobs /\ job'.kind = job.kind /\ job'.at = x
                /\ job'.id = job.id /\ job'.todo = job.todo
           /\ job \in RecoveryJobs /\ x \in {"recover", "restore"} =>
                /\ job' \in RecoveryJobs /\ job'.kind = job.kind /\ job'.at = x
                /\ job'.id = job.id
           /\ job \in QuarantineJobs /\ x \in {"checked", "moved"} =>
                /\ job' \in QuarantineJobs /\ job'.kind = job.kind /\ job'.at = x
                /\ job'.thread = job.thread
           /\ job \in ProviderJobs(job.staged) /\ x \in ProviderSteps =>
                /\ job' \in ProviderJobs(job.staged) /\ job'.kind = job.kind /\ job'.at = x
                /\ job'.id = job.id /\ job'.staged = job.staged /\ job'.todo = job.todo
                /\ job'.thread = job.thread /\ job'.dir = job.dir
<1>1. job' = [job EXCEPT !.at = x]
  BY DEF Goto
<1>2. CASE job \in ImportJobs /\ x \in ImportSteps
  BY <1>1, <1>2 DEF ImportJobs, RecoveryJobs, QuarantineJobs, ProviderJobs
<1>3. CASE job \in RecoveryJobs /\ x \in {"recover", "restore"}
  BY <1>1, <1>3 DEF ImportJobs, RecoveryJobs, QuarantineJobs, ProviderJobs
<1>4. CASE job \in QuarantineJobs /\ x \in {"checked", "moved"}
  BY <1>1, <1>4 DEF ImportJobs, RecoveryJobs, QuarantineJobs, ProviderJobs
<1>5. CASE job \in ProviderJobs(job.staged) /\ x \in ProviderSteps
  BY <1>1, <1>5 DEF ImportJobs, RecoveryJobs, QuarantineJobs, ProviderJobs
<1>6. QED
  BY <1>2, <1>3, <1>4, <1>5

\* The rollouts a provider synchronization stages are those the scan finds, rewritten.
LEMMA StagedFacts ==
    ASSUME FileTyping, NEW t \in Mismatched
    PROVE  /\ t \in Thread /\ Listed(t)
           /\ transform_rollout_file(Rollout(t), config) \in LocalRollouts
           /\ Said(transform_rollout_file(Rollout(t), config)) = Said(Rollout(t))
           /\ read_rollout_record(transform_rollout_file(Rollout(t), config))
<1>1. t \in Thread /\ Listed(t)
  BY DEF Mismatched, scan_codex_home
<1>2. Rollout(t) \in LocalRollouts /\ read_rollout_record(Rollout(t)) /\ config \in Provider
  BY <1>1, ScanFacts DEF FileTyping
<1>3. QED
  BY <1>1, <1>2, TransformedIsLocal

\* Every step keeps the type of the job.
LEMMA JobTypingStep ==
    ASSUME Typing, [Next]_homevars
    PROVE  JobTyping'
<1>1. CASE UNCHANGED job
  BY <1>1 DEF Typing, JobTyping
<1>2. ASSUME NEW t \in Thread, CodexContinues(t) PROVE UNCHANGED job
  BY <1>2 DEF CodexContinues, Written, Put, Spend
<1>3. ASSUME NEW t \in Thread, CodexOpens(t) PROVE UNCHANGED job
  BY <1>3 DEF CodexOpens, Put, Spend
<1>4. ASSUME NEW t \in Thread, CodexBegins(t) PROVE UNCHANGED job
  BY <1>4 DEF CodexBegins, Written, Put, Moved, Spend
<1>5. ASSUME NEW p \in Provider, UserConfigures(p) PROVE UNCHANGED job
  BY <1>5 DEF UserConfigures, Spend
<1>6. ASSUME NEW id \in OperationIds, delete_backup(id) PROVE UNCHANGED job
  BY <1>6 DEF delete_backup
<1>7. ASSUME NEW s \in Snapshots, start_import(s) PROVE JobTyping'
  <2> DEFINE plan == Restrict(s, {t \in DOMAIN s : ~ Listed(t)})
  <2>1. DOMAIN plan \subseteq Thread
    BY HomeAssumption DEF Restrict
  <2>2. NextId \in OperationIds
    BY <1>7, NextIdFacts DEF start_import, Spend, Typing
  <2>3. job' = Idle \/ job' = [kind |-> "import", at |-> "backup", id |-> NextId, todo |-> DOMAIN plan]
    BY <1>7 DEF start_import
  <2> HIDE DEF plan
  <2>4. job' = Idle \/ job' \in ImportJobs
    BY <2>1, <2>2, <2>3 DEF ImportJobs, ImportSteps
  <2>5. QED
    BY <2>4 DEF JobTyping
<1>8. CASE import_backup
  <2>1. job \in ImportJobs /\ Goto("backed_up") /\ "backed_up" \in ImportSteps
    BY <1>8, JobFacts DEF import_backup, At, Typing, ImportSteps
  <2>2. job' \in ImportJobs
    BY <2>1, GotoFacts
  <2>3. QED
    BY <2>2 DEF JobTyping
<1>9. CASE import_status("backed_up", "applying")
  <2>1. job \in ImportJobs /\ Goto("applying") /\ "applying" \in ImportSteps
    BY <1>9, JobFacts DEF import_status, At, Typing, ImportSteps
  <2>2. job' \in ImportJobs
    BY <2>1, GotoFacts
  <2>3. QED
    BY <2>2 DEF JobTyping
<1>10. CASE import_status("applying", "commit")
  <2>1. job \in ImportJobs /\ Goto("commit") /\ "commit" \in ImportSteps
    BY <1>10, JobFacts DEF import_status, At, Typing, ImportSteps
  <2>2. job' \in ImportJobs
    BY <2>1, GotoFacts
  <2>3. QED
    BY <2>2 DEF JobTyping
<1>11. CASE import_commit
  <2>1. job \in ImportJobs /\ Goto("rename") /\ "rename" \in ImportSteps
    BY <1>11, JobFacts DEF import_commit, At, Typing, ImportSteps
  <2>2. job' \in ImportJobs
    BY <2>1, GotoFacts
  <2>3. QED
    BY <2>2 DEF JobTyping
<1>12. ASSUME NEW t \in Thread, import_rename(t) PROVE JobTyping'
  <2>1. job \in ImportJobs
    BY <1>12, JobFacts DEF import_rename, At, Typing
  <2>2. job' \in ImportJobs
    BY <1>12, <2>1 DEF import_rename, ImportJobs, ImportSteps
  <2>3. QED
    BY <2>2 DEF JobTyping
<1>13. CASE import_status("validating", "validate")
  <2>1. job \in ImportJobs /\ Goto("validate") /\ "validate" \in ImportSteps
    BY <1>13, JobFacts DEF import_status, At, Typing, ImportSteps
  <2>2. job' \in ImportJobs
    BY <2>1, GotoFacts
  <2>3. QED
    BY <2>2 DEF JobTyping
<1>14. CASE import_complete
  <2>1. job' = Idle
    BY <1>14 DEF import_complete, Done
  <2>2. QED
    BY <2>1 DEF JobTyping
<1>15. CASE import_fails
  <2>1. job \in ImportJobs /\ Goto("rollback") /\ "rollback" \in ImportSteps
    BY <1>15, JobFacts DEF import_fails, At, Typing, ImportSteps
  <2>2. job' \in ImportJobs
    BY <2>1, GotoFacts
  <2>3. QED
    BY <2>2 DEF JobTyping
<1>16. CASE import_rollback
  <2>1. job \in ImportJobs /\ Goto("restore") /\ "restore" \in ImportSteps
    BY <1>16, JobFacts DEF import_rollback, At, Typing, ImportSteps
  <2>2. job' \in ImportJobs
    BY <2>1, GotoFacts
  <2>3. QED
    BY <2>2 DEF JobTyping
<1>17. CASE import_restore
  <2>1. job' = Idle
    BY <1>17 DEF import_restore, Done
  <2>2. QED
    BY <2>1 DEF JobTyping
<1>18. ASSUME NEW id \in OperationIds, start_recovery(id) PROVE JobTyping'
  <2>1. job' \in RecoveryJobs
    BY <1>18 DEF start_recovery, RecoveryJobs
  <2>2. QED
    BY <2>1 DEF JobTyping
<1>19. CASE recover_incomplete_operation
  <2>1. job \in RecoveryJobs
    BY <1>19, JobFacts DEF recover_incomplete_operation, At, Typing
  <2>2. CASE job' = Idle
    BY <2>2 DEF JobTyping
  <2>3. CASE Goto("restore")
    BY <2>1, <2>3, GotoFacts DEF JobTyping
  <2>4. QED
    BY <1>19, <2>2, <2>3 DEF recover_incomplete_operation, Done
<1>20. CASE recover_database
  <2>1. job' = Idle
    BY <1>20 DEF recover_database, Done
  <2>2. QED
    BY <2>1 DEF JobTyping
<1>21. CASE start_provider_sync
  <2> DEFINE staged == [t \in Mismatched |-> transform_rollout_file(Rollout(t), config)]
  <2>1. DOMAIN staged \subseteq Thread /\ \A t \in DOMAIN staged : staged[t] \in LocalRollouts
    BY StagedFacts DEF Typing
  <2>2. NextId \in OperationIds
    BY <1>21, NextIdFacts DEF start_provider_sync, Spend, Typing
  <2>3. job' = Idle \/ \E x \in ProviderSteps : job' = ProviderJob(x, staged)
    BY <1>21 DEF start_provider_sync, ProviderSteps
  <2> HIDE DEF staged
  <2>4. job' = Idle \/ (job' \in ProviderJobs(staged) /\ job'.staged = staged)
    BY <2>1, <2>2, <2>3 DEF ProviderJob, ProviderJobs
  <2>5. QED
    BY <2>1, <2>4 DEF JobTyping
<1>22. ASSUME NEW t \in Thread, provider_displace(t) PROVE JobTyping'
  <2>1. /\ job \in ProviderJobs(job.staged) /\ DOMAIN job.staged \subseteq Thread
        /\ \A u \in DOMAIN job.staged : job.staged[u] \in LocalRollouts
    BY <1>22, JobFacts DEF provider_displace, At, Typing
  <2>2. DirOf(t) \in Dirs
    BY ScanFacts DEF Typing
  <2>3. job' \in ProviderJobs(job.staged) /\ job'.staged = job.staged
    BY <1>22, <2>1, <2>2 DEF provider_displace, ProviderJobs, ProviderSteps
  <2>4. QED
    BY <2>1, <2>3 DEF JobTyping
<1>23. CASE provider_install
  <2>1. /\ job \in ProviderJobs(job.staged) /\ DOMAIN job.staged \subseteq Thread
        /\ \A t \in DOMAIN job.staged : job.staged[t] \in LocalRollouts
    BY <1>23, JobFacts DEF provider_install, At, Typing
  <2>2. Goto("remove") /\ "remove" \in ProviderSteps
    BY <1>23 DEF provider_install, ProviderSteps
  <2>3. job' \in ProviderJobs(job.staged) /\ job'.staged = job.staged
    BY <2>1, <2>2, GotoFacts
  <2>4. QED
    BY <2>1, <2>3 DEF JobTyping
<1>24. CASE provider_install_fails
  <2>1. job' = Idle
    BY <1>24 DEF provider_install_fails, Done
  <2>2. QED
    BY <2>1 DEF JobTyping
<1>25. CASE provider_remove
  <2>1. /\ job \in ProviderJobs(job.staged) /\ DOMAIN job.staged \subseteq Thread
        /\ \A t \in DOMAIN job.staged : job.staged[t] \in LocalRollouts
    BY <1>25, JobFacts DEF provider_remove, At, Typing
  <2>2. job' \in ProviderJobs(job.staged) /\ job'.staged = job.staged
    BY <1>25, <2>1 DEF provider_remove, ProviderJobs, ProviderSteps
  <2>3. QED
    BY <2>1, <2>2 DEF JobTyping
<1>26. CASE update_database_providers
  <2>1. /\ job \in ProviderJobs(job.staged) /\ DOMAIN job.staged \subseteq Thread
        /\ \A t \in DOMAIN job.staged : job.staged[t] \in LocalRollouts
    BY <1>26, JobFacts DEF update_database_providers, At, Typing
  <2>2. Goto("validate") /\ "validate" \in ProviderSteps
    BY <1>26 DEF update_database_providers, ProviderSteps
  <2>3. job' \in ProviderJobs(job.staged) /\ job'.staged = job.staged
    BY <2>1, <2>2, GotoFacts
  <2>4. QED
    BY <2>1, <2>3 DEF JobTyping
<1>27. CASE validate_provider_sync
  <2>1. job' = Idle
    BY <1>27 DEF validate_provider_sync, Done
  <2>2. QED
    BY <2>1 DEF JobTyping
<1>28. CASE provider_nothing_to_do
  <2>1. job' = Idle
    BY <1>28 DEF provider_nothing_to_do, Done
  <2>2. QED
    BY <2>1 DEF JobTyping
<1>29. CASE provider_fails
  <2>1. job' = Idle
    BY <1>29 DEF provider_fails, Done
  <2>2. QED
    BY <2>1 DEF JobTyping
<1>30. ASSUME NEW t \in Thread, NEW a \in {"archive", "restore", "delete"}, mutate_local_thread(t, a)
       PROVE  JobTyping'
  <2>1. job' \in MutateJobs
    BY <1>30 DEF mutate_local_thread, MutateJobs
  <2>2. QED
    BY <2>1 DEF JobTyping
<1>31. CASE mutate_row
  <2>1. job' = Idle
    BY <1>31 DEF mutate_row, Done
  <2>2. QED
    BY <2>1 DEF JobTyping
<1>32. ASSUME NEW t \in Thread, start_quarantine(t) PROVE JobTyping'
  <2>1. job' \in QuarantineJobs
    BY <1>32 DEF start_quarantine, QuarantineJobs
  <2>2. QED
    BY <2>1 DEF JobTyping
<1>33. CASE quarantine_rename
  <2>1. job \in QuarantineJobs /\ Goto("moved") /\ "moved" \in {"checked", "moved"}
    BY <1>33, JobFacts DEF quarantine_rename, At, Typing, At
  <2>2. job' \in QuarantineJobs
    BY <2>1, GotoFacts
  <2>3. QED
    BY <2>2 DEF JobTyping
<1>34. CASE quarantine_recheck
  <2>1. job' = Idle
    BY <1>34 DEF quarantine_recheck, Done
  <2>2. QED
    BY <2>1 DEF JobTyping
<1>35. CASE Stop
  <2>1. job' = Idle
    BY <1>35 DEF Stop, Done
  <2>2. QED
    BY <2>1 DEF JobTyping
<1>36. ASSUME UNCHANGED homevars PROVE UNCHANGED job
  BY <1>36 DEF homevars
<1>37. QED
  BY <1>1, <1>2, <1>3, <1>4, <1>5, <1>6, <1>7, <1>8, <1>9, <1>10, <1>11, <1>12, <1>13,
     <1>14, <1>15, <1>16, <1>17, <1>18, <1>19, <1>20, <1>21, <1>22, <1>23, <1>24, <1>25,
     <1>26, <1>27, <1>28, <1>29, <1>30, <1>31, <1>32, <1>33, <1>34, <1>35, <1>36 DEF Next,
         Codex, Import, ProviderSync, Mutate

(***************************************************************************)
(* Journals and backups.                                                   *)
(***************************************************************************)

\* Only an import and a provider synchronization take a number.
LEMMA NextIdKept ==
    ASSUME RecordTyping,
           left' = left \/ Spend("edits") \/ Spend("touches") \/ Spend("faults")
    PROVE  NextId' = NextId
<1>1. left'["operations"] = left["operations"]
  BY SpendFacts
<1>2. QED
  BY <1>1 DEF NextId

\* A step without a journal write, which leaves the job alone or ends it.
LEMMA NoJournalWrite ==
    ASSUME Journaled, RecoveryHasItsBackup, journals' = journals, backups' = backups,
           NextId' = NextId, job' = job \/ job' = Idle
    PROVE  Journaled' /\ RecoveryHasItsBackup'
<1>1. RecoveryHasItsBackup'
  BY DEF RecoveryHasItsBackup, Unfinished
<1>2. Numbered'
  BY DEF Journaled, Numbered
<1>3. CASE job' = job
  <2>1. Running'
    BY <1>3 DEF Journaled, Running, Unfinished
  <2>2. QED
    BY <1>1, <1>2, <2>1 DEF Journaled
<1>4. CASE job' = Idle
  BY <1>1, <1>2, <1>4 DEF Journaled, Running, Idle
<1>5. QED
  BY <1>3, <1>4

\* A status an operation may end with.
EndsWith(st) == st \in Terminal \/ job.kind = "provider" \/ backups[job.id] # None

\* The journal write that ends an operation.
LEMMA LastJournalWrite ==
    ASSUME Typing, Journaled, RecoveryHasItsBackup,
           job.kind \in {"import", "recovery", "provider"},
           NEW st \in Statuses, Record(job.id, st), job' = Idle,
           EndsWith(st), backups' = backups, NextId' = NextId
    PROVE  Journaled' /\ RecoveryHasItsBackup'
<1>1. job.id \in OperationIds /\ journals[job.id] \in Journal
  BY RunningJournal DEF Typing
<1>2. /\ journals'[job.id].status = st /\ journals'[job.id].kind = journals[job.id].kind
      /\ \A i \in OperationIds : i # job.id => journals'[i] = journals[i]
  BY <1>1, RecordFacts DEF Typing
<1>3. job.kind = "provider" => journals[job.id].kind = "provider"
  BY DEF Journaled, Running
<1>4. RecoveryHasItsBackup'
  BY <1>1, <1>2, <1>3 DEF RecoveryHasItsBackup, Unfinished, EndsWith
<1>5. Numbered'
  BY <1>1, <1>2, Constants DEF Journaled, Numbered
<1>6. QED
  BY <1>4, <1>5 DEF Journaled, Running, Idle

\* Every step keeps the journals and backups of unfinished operations.
LEMMA JournaledStep ==
    ASSUME Typing, Journaled, RecoveryHasItsBackup, [Next]_homevars
    PROVE  Journaled' /\ RecoveryHasItsBackup'
<1>1. CASE UNCHANGED homevars
  BY <1>1 DEF homevars, Journaled, Numbered, Running, RecoveryHasItsBackup, Unfinished,
         NextId
<1>2. ASSUME NEW t \in Thread, CodexContinues(t) PROVE Journaled' /\ RecoveryHasItsBackup'
  <2>1. journals' = journals /\ backups' = backups /\ (job' = job \/ job' = Idle)
    BY <1>2 DEF CodexContinues, Written, Done
  <2>2. NextId' = NextId
    BY <1>2, NextIdKept DEF CodexContinues, Typing
  <2>3. QED
    BY <2>1, <2>2, NoJournalWrite
<1>3. ASSUME NEW t \in Thread, CodexOpens(t) PROVE Journaled' /\ RecoveryHasItsBackup'
  <2>1. journals' = journals /\ backups' = backups /\ (job' = job \/ job' = Idle)
    BY <1>3 DEF CodexOpens, Written, Done
  <2>2. NextId' = NextId
    BY <1>3, NextIdKept DEF CodexOpens, Typing
  <2>3. QED
    BY <2>1, <2>2, NoJournalWrite
<1>4. ASSUME NEW t \in Thread, CodexBegins(t) PROVE Journaled' /\ RecoveryHasItsBackup'
  <2>1. journals' = journals /\ backups' = backups /\ (job' = job \/ job' = Idle)
    BY <1>4 DEF CodexBegins, Written, Done
  <2>2. NextId' = NextId
    BY <1>4, NextIdKept DEF CodexBegins, Typing
  <2>3. QED
    BY <2>1, <2>2, NoJournalWrite
<1>5. ASSUME NEW p \in Provider, UserConfigures(p) PROVE Journaled' /\ RecoveryHasItsBackup'
  <2>1. journals' = journals /\ backups' = backups /\ (job' = job \/ job' = Idle)
    BY <1>5 DEF UserConfigures, Written, Done
  <2>2. NextId' = NextId
    BY <1>5, NextIdKept DEF UserConfigures, Typing
  <2>3. QED
    BY <2>1, <2>2, NoJournalWrite
<1>6. ASSUME NEW s \in Snapshots, start_import(s) PROVE Journaled' /\ RecoveryHasItsBackup'
  <2> DEFINE plan == Restrict(s, {t \in DOMAIN s : ~ Listed(t)})
             j == [kind |-> "import", plan |-> plan,
                   status |-> IF DOMAIN plan = {} THEN "completed" ELSE "preparing"]
  <2>1. NextId \in OperationIds /\ NextId \in Nat /\ OperationIds \subseteq Nat
    BY <1>6, NextIdFacts DEF start_import, Spend, Typing
  <2>2. NextId' = NextId + 1
    <3>1. left'["operations"] = left["operations"] - 1 /\ left["operations"] \in Nat
      BY <1>6, SpendFacts, Constants DEF start_import, Typing, RecordTyping
    <3>2. QED
      BY <3>1, Constants DEF NextId
  <2>3. journals[NextId] = None
    BY <2>1 DEF Journaled, Numbered
  <2>4. journals' = [journals EXCEPT ![NextId] = j] /\ backups' = backups
    BY <1>6 DEF start_import
  <2>5. \/ job' = Idle
        \/ /\ job' = [kind |-> "import", at |-> "backup", id |-> NextId, todo |-> DOMAIN plan]
           /\ DOMAIN plan # {}
    BY <1>6 DEF start_import
  <2>14. j # None
    <3>1. plan \in Plans
      BY PlanIsPart
    <3> HIDE DEF plan
    <3>2. QED
      BY <3>1, Constants DEF Journal, Statuses
  <2> HIDE DEF plan
  <2>6. journals'[NextId] = j /\ \A i \in OperationIds : i # NextId => journals'[i] = journals[i]
    BY <2>1, <2>4 DEF Typing, RecordTyping
  <2>7. j.kind = "import" /\ j.status \in {"completed", "preparing"}
        /\ (DOMAIN plan # {} => j.status = "preparing")
    OBVIOUS
  <2> HIDE DEF j
  <2>9. RecoveryHasItsBackup'
    BY <2>1, <2>4, <2>6, <2>7 DEF RecoveryHasItsBackup, Unfinished, Terminal
  <2>10. Numbered'
    BY <2>1, <2>2, <2>6 DEF Journaled, Numbered
  <2>11. CASE job' = Idle
    BY <2>2, <2>10, <2>11, <2>9 DEF Journaled, Running, Idle
  <2>12. CASE /\ job' = [kind |-> "import", at |-> "backup", id |-> NextId, todo |-> DOMAIN plan]
              /\ DOMAIN plan # {}
    <3>1. job'.kind = "import" /\ job'.at = "backup" /\ job'.id = NextId
      BY <2>12
    <3>2. /\ journals'[NextId] # None /\ journals'[NextId].kind = "import"
          /\ journals'[NextId].status \notin Terminal
      BY <2>1, <2>6, <2>7, <2>14, <2>12 DEF Terminal
    <3>3. QED
      BY <2>2, <2>9, <2>10, <3>1, <3>2 DEF Journaled, Running, Unfinished
  <2>13. QED
    BY <2>5, <2>11, <2>12
<1>7. CASE import_backup
  <2>1. journals' = journals /\ NextId' = NextId /\ backups' = [backups EXCEPT ![job.id] = rows]
    BY <1>7 DEF import_backup, NextId
  <2>2. job.kind = "import" /\ job'.kind = "import" /\ job'.id = job.id
    BY <1>7, JobFacts, GotoFacts DEF import_backup, At, Typing, ImportSteps
  <2>3. job.id \in OperationIds /\ rows # None
    BY <2>2, RunningJournal, Constants DEF Typing, RecordTyping
  <2>4. backups'[job.id] # None /\ \A i \in OperationIds : i # job.id => backups'[i] = backups[i]
    BY <2>1, <2>3 DEF Typing, RecordTyping
  <2>5. QED
    BY <2>1, <2>2, <2>3, <2>4 DEF Journaled, Numbered, Running, RecoveryHasItsBackup, Unfinished
<1>8. CASE import_status("backed_up", "applying")
  <2>1. backups' = backups /\ NextId' = NextId /\ Record(job.id, "backed_up")
    BY <1>8 DEF import_status, NextId
  <2>2. job.kind = "import" /\ job.at # "backup" /\ job'.kind = "import" /\ job'.id = job.id
    BY <1>8, JobFacts, GotoFacts DEF import_status, At, Typing, ImportSteps
  <2>3. job.id \in OperationIds /\ journals[job.id] \in Journal /\ backups[job.id] # None
        /\ journals[job.id].kind = "import"
    BY <2>2, RunningJournal DEF Typing, Journaled, Running, Unfinished
  <2>4. /\ journals'[job.id] \in Journal /\ journals'[job.id].status = "backed_up"
        /\ journals'[job.id].kind = "import"
        /\ \A i \in OperationIds : i # job.id => journals'[i] = journals[i]
    BY <2>1, <2>3, RecordFacts DEF Typing, Statuses
  <2>5. RecoveryHasItsBackup'
    BY <2>1, <2>3, <2>4 DEF RecoveryHasItsBackup, Unfinished
  <2>6. Numbered'
    BY <2>1, <2>3, <2>4, Constants DEF Journaled, Numbered
  <2>7. Unfinished(job.id)'
    BY <2>2, <2>4, Constants DEF Unfinished, Terminal
  <2>8. QED
    BY <2>1, <2>2, <2>3, <2>5, <2>6, <2>7 DEF Journaled, Running
<1>9. CASE import_status("applying", "commit")
  <2>1. backups' = backups /\ NextId' = NextId /\ Record(job.id, "applying")
    BY <1>9 DEF import_status, NextId
  <2>2. job.kind = "import" /\ job.at # "backup" /\ job'.kind = "import" /\ job'.id = job.id
    BY <1>9, JobFacts, GotoFacts DEF import_status, At, Typing, ImportSteps
  <2>3. job.id \in OperationIds /\ journals[job.id] \in Journal /\ backups[job.id] # None
        /\ journals[job.id].kind = "import"
    BY <2>2, RunningJournal DEF Typing, Journaled, Running, Unfinished
  <2>4. /\ journals'[job.id] \in Journal /\ journals'[job.id].status = "applying"
        /\ journals'[job.id].kind = "import"
        /\ \A i \in OperationIds : i # job.id => journals'[i] = journals[i]
    BY <2>1, <2>3, RecordFacts DEF Typing, Statuses
  <2>5. RecoveryHasItsBackup'
    BY <2>1, <2>3, <2>4 DEF RecoveryHasItsBackup, Unfinished
  <2>6. Numbered'
    BY <2>1, <2>3, <2>4, Constants DEF Journaled, Numbered
  <2>7. Unfinished(job.id)'
    BY <2>2, <2>4, Constants DEF Unfinished, Terminal
  <2>8. QED
    BY <2>1, <2>2, <2>3, <2>5, <2>6, <2>7 DEF Journaled, Running
<1>10. CASE import_commit
  <2>1. journals' = journals /\ backups' = backups
    BY <1>10 DEF import_commit
  <2>2. NextId' = NextId
    BY <1>10, NextIdKept DEF import_commit, Typing
  <2>3. job.kind = "import" /\ job.at # "backup" /\ job'.kind = "import" /\ job'.id = job.id
    BY <1>10, JobFacts, GotoFacts DEF import_commit, At, Typing, ImportSteps
  <2>4. QED
    BY <2>1, <2>2, <2>3 DEF Journaled, Numbered, Running, RecoveryHasItsBackup, Unfinished
<1>11. ASSUME NEW t \in Thread, import_rename(t) PROVE Journaled' /\ RecoveryHasItsBackup'
  <2>1. journals' = journals /\ backups' = backups
    BY <1>11 DEF import_rename
  <2>2. NextId' = NextId
    BY <1>11, NextIdKept DEF import_rename, Typing
  <2>3. job.kind = "import" /\ job.at # "backup" /\ job'.kind = "import" /\ job'.id = job.id
    BY <1>11, JobFacts DEF import_rename, At, Typing, ImportJobs
  <2>4. QED
    BY <2>1, <2>2, <2>3 DEF Journaled, Numbered, Running, RecoveryHasItsBackup, Unfinished
<1>12. CASE import_status("validating", "validate")
  <2>1. backups' = backups /\ NextId' = NextId /\ Record(job.id, "validating")
    BY <1>12 DEF import_status, NextId
  <2>2. job.kind = "import" /\ job.at # "backup" /\ job'.kind = "import" /\ job'.id = job.id
    BY <1>12, JobFacts, GotoFacts DEF import_status, At, Typing, ImportSteps
  <2>3. job.id \in OperationIds /\ journals[job.id] \in Journal /\ backups[job.id] # None
        /\ journals[job.id].kind = "import"
    BY <2>2, RunningJournal DEF Typing, Journaled, Running, Unfinished
  <2>4. /\ journals'[job.id] \in Journal /\ journals'[job.id].status = "validating"
        /\ journals'[job.id].kind = "import"
        /\ \A i \in OperationIds : i # job.id => journals'[i] = journals[i]
    BY <2>1, <2>3, RecordFacts DEF Typing, Statuses
  <2>5. RecoveryHasItsBackup'
    BY <2>1, <2>3, <2>4 DEF RecoveryHasItsBackup, Unfinished
  <2>6. Numbered'
    BY <2>1, <2>3, <2>4, Constants DEF Journaled, Numbered
  <2>7. Unfinished(job.id)'
    BY <2>2, <2>4, Constants DEF Unfinished, Terminal
  <2>8. QED
    BY <2>1, <2>2, <2>3, <2>5, <2>6, <2>7 DEF Journaled, Running
<1>13. CASE import_complete
  <2>1. job.kind \in {"import", "recovery", "provider"} /\ job' = Idle /\ backups' = backups
    BY <1>13 DEF import_complete, At, Done
  <2>2. NextId' = NextId
    BY <1>13, NextIdKept DEF import_complete, Typing
  <2>3. \E st \in Statuses : Record(job.id, st) /\ EndsWith(st)
    BY <1>13 DEF import_complete, At, Statuses, Terminal, EndsWith
  <2>4. QED
    BY <2>1, <2>2, <2>3, LastJournalWrite
<1>14. CASE import_fails
  <2>1. journals' = journals /\ backups' = backups
    BY <1>14 DEF import_fails
  <2>2. NextId' = NextId
    BY <1>14, NextIdKept DEF import_fails, Typing
  <2>3. job.kind = "import" /\ job.at # "backup" /\ job'.kind = "import" /\ job'.id = job.id
    BY <1>14, JobFacts, GotoFacts DEF import_fails, At, Typing, ImportSteps
  <2>4. QED
    BY <2>1, <2>2, <2>3 DEF Journaled, Numbered, Running, RecoveryHasItsBackup, Unfinished
<1>15. CASE import_rollback
  <2>1. journals' = journals /\ backups' = backups
    BY <1>15 DEF import_rollback
  <2>2. NextId' = NextId
    BY <1>15, NextIdKept DEF import_rollback, Typing
  <2>3. job.kind = "import" /\ job.at # "backup" /\ job'.kind = "import" /\ job'.id = job.id
    BY <1>15, JobFacts, GotoFacts DEF import_rollback, At, Typing, ImportSteps
  <2>4. QED
    BY <2>1, <2>2, <2>3 DEF Journaled, Numbered, Running, RecoveryHasItsBackup, Unfinished
<1>16. CASE import_restore
  <2>1. job.kind = "import" /\ job' = Idle /\ backups' = backups /\ backups[job.id] # None
    BY <1>16 DEF import_restore, At, Done, Journaled, Running
  <2>2. NextId' = NextId
    BY <1>16, NextIdKept DEF import_restore, Typing
  <2>3. CASE journals' = journals
    BY <2>1, <2>2, <2>3, NoJournalWrite
  <2>4. CASE \E st \in Statuses : Record(job.id, st)
    BY <2>1, <2>2, <2>4, LastJournalWrite DEF EndsWith
  <2>5. QED
    BY <1>16, <2>3, <2>4 DEF import_restore, Statuses
<1>17. ASSUME NEW id \in OperationIds, start_recovery(id)
       PROVE  Journaled' /\ RecoveryHasItsBackup'
  <2>1. journals' = journals /\ backups' = backups /\ NextId' = NextId
    BY <1>17 DEF start_recovery, NextId
  <2>2. job'.kind = "recovery" /\ job'.id = id /\ job'.at = "recover" /\ Unfinished(id)
    BY <1>17 DEF start_recovery
  <2>3. QED
    BY <2>1, <2>2 DEF Journaled, Numbered, Running, RecoveryHasItsBackup, Unfinished
<1>18. CASE recover_incomplete_operation
  <2>1. job.kind = "recovery" /\ backups' = backups /\ job \in RecoveryJobs
    BY <1>18, JobFacts DEF recover_incomplete_operation, At, Typing
  <2>2. NextId' = NextId
    BY <1>18, NextIdKept DEF recover_incomplete_operation, Typing
  <2>3. CASE Record(job.id, "rolled_back") /\ job' = Idle
    BY <2>1, <2>2, <2>3, LastJournalWrite DEF Statuses, Terminal, EndsWith
  <2>4. CASE backups[job.id] # None /\ journals' = journals /\ Goto("restore")
    <3>1. job'.kind = "recovery" /\ job'.id = job.id
      BY <2>1, <2>4, GotoFacts
    <3>2. QED
      BY <2>1, <2>2, <2>4, <3>1 DEF Journaled, Numbered, Running, RecoveryHasItsBackup, Unfinished
  <2>5. QED
    BY <1>18, <2>3, <2>4 DEF recover_incomplete_operation, Done
<1>19. CASE recover_database
  <2>1. job.kind \in {"import", "recovery", "provider"} /\ job' = Idle /\ backups' = backups
    BY <1>19 DEF recover_database, At, Done
  <2>2. NextId' = NextId
    BY <1>19, NextIdKept DEF recover_database, Typing
  <2>3. \E st \in Statuses : Record(job.id, st) /\ EndsWith(st)
    BY <1>19 DEF recover_database, At, Statuses, Terminal, EndsWith
  <2>4. QED
    BY <2>1, <2>2, <2>3, LastJournalWrite
<1>20. CASE start_provider_sync
  <2> DEFINE J(ok) == [kind |-> "provider", plan |-> [t \in {} |-> None],
                       status |-> IF ok THEN "applying" ELSE "failed"]
  <2>1. NextId \in OperationIds /\ NextId \in Nat /\ OperationIds \subseteq Nat
    BY <1>20, NextIdFacts DEF start_provider_sync, Spend, Typing
  <2>2. NextId' = NextId + 1
    <3>1. left'["operations"] = left["operations"] - 1 /\ left["operations"] \in Nat
      BY <1>20, SpendFacts, Constants DEF start_provider_sync, Typing, RecordTyping
    <3>2. QED
      BY <3>1, Constants DEF NextId
  <2>3. journals[NextId] = None
    BY <2>1 DEF Journaled, Numbered
  <2>4. backups' = backups /\ \E ok \in BOOLEAN : journals' = [journals EXCEPT ![NextId] = J(ok)]
    BY <1>20 DEF start_provider_sync
  <2>5. \A ok \in BOOLEAN : J(ok).kind = "provider" /\ J(ok) # None
    BY Constants DEF Journal, Statuses, Plans
  <2>6. /\ journals'[NextId].kind = "provider" /\ journals'[NextId] # None
        /\ \A i \in OperationIds : i # NextId => journals'[i] = journals[i]
    BY <2>1, <2>4, <2>5 DEF Typing, RecordTyping
  <2>7. job'.kind = "idle" \/ (job'.kind = "provider" /\ job'.id = NextId)
    BY <1>20 DEF start_provider_sync, ProviderJob, Idle
  <2>8. RecoveryHasItsBackup'
    BY <2>1, <2>4, <2>6 DEF RecoveryHasItsBackup, Unfinished
  <2>9. Numbered'
    BY <2>1, <2>2, <2>6 DEF Journaled, Numbered
  <2>10. QED
    BY <2>2, <2>6, <2>7, <2>8, <2>9 DEF Journaled, Running
<1>21. ASSUME NEW t \in Thread, provider_displace(t)
       PROVE  Journaled' /\ RecoveryHasItsBackup'
  <2>1. journals' = journals /\ backups' = backups
    BY <1>21 DEF provider_displace
  <2>2. NextId' = NextId
    BY <1>21, NextIdKept DEF provider_displace, Typing
  <2>3. job.kind = "provider" /\ job'.kind = "provider" /\ job'.id = job.id
    BY <1>21, JobFacts DEF provider_displace, At, Typing, ProviderSteps, ProviderJobs
  <2>4. QED
    BY <2>1, <2>2, <2>3 DEF Journaled, Numbered, Running, RecoveryHasItsBackup, Unfinished
<1>22. CASE provider_install
  <2>1. journals' = journals /\ backups' = backups
    BY <1>22 DEF provider_install
  <2>2. NextId' = NextId
    BY <1>22, NextIdKept DEF provider_install, Typing
  <2>3. job.kind = "provider" /\ job'.kind = "provider" /\ job'.id = job.id
    BY <1>22, JobFacts, GotoFacts DEF provider_install, At, Typing, ProviderSteps
  <2>4. QED
    BY <2>1, <2>2, <2>3 DEF Journaled, Numbered, Running, RecoveryHasItsBackup, Unfinished
<1>23. CASE provider_install_fails
  <2>1. job.kind \in {"import", "recovery", "provider"} /\ job' = Idle /\ backups' = backups
    BY <1>23 DEF provider_install_fails, At, Done
  <2>2. NextId' = NextId
    BY <1>23, NextIdKept DEF provider_install_fails, Typing
  <2>3. \E st \in Statuses : Record(job.id, st) /\ EndsWith(st)
    BY <1>23 DEF provider_install_fails, At, Statuses, Terminal, EndsWith
  <2>4. QED
    BY <2>1, <2>2, <2>3, LastJournalWrite
<1>24. CASE provider_remove
  <2>1. journals' = journals /\ backups' = backups
    BY <1>24 DEF provider_remove
  <2>2. NextId' = NextId
    BY <1>24, NextIdKept DEF provider_remove, Typing
  <2>3. job.kind = "provider" /\ job'.kind = "provider" /\ job'.id = job.id
    BY <1>24, JobFacts DEF provider_remove, At, Typing, ProviderSteps, ProviderJobs
  <2>4. QED
    BY <2>1, <2>2, <2>3 DEF Journaled, Numbered, Running, RecoveryHasItsBackup, Unfinished
<1>25. CASE update_database_providers
  <2>1. journals' = journals /\ backups' = backups
    BY <1>25 DEF update_database_providers
  <2>2. NextId' = NextId
    BY <1>25, NextIdKept DEF update_database_providers, Typing
  <2>3. job.kind = "provider" /\ job'.kind = "provider" /\ job'.id = job.id
    BY <1>25, JobFacts, GotoFacts DEF update_database_providers, At, Typing, ProviderSteps
  <2>4. QED
    BY <2>1, <2>2, <2>3 DEF Journaled, Numbered, Running, RecoveryHasItsBackup, Unfinished
<1>26. CASE validate_provider_sync
  <2>1. job.kind \in {"import", "recovery", "provider"} /\ job' = Idle /\ backups' = backups
    BY <1>26 DEF validate_provider_sync, At, Done
  <2>2. NextId' = NextId
    BY <1>26, NextIdKept DEF validate_provider_sync, Typing
  <2>3. \E st \in Statuses : Record(job.id, st) /\ EndsWith(st)
    BY <1>26 DEF validate_provider_sync, At, Statuses, Terminal, EndsWith
  <2>4. QED
    BY <2>1, <2>2, <2>3, LastJournalWrite
<1>27. CASE provider_nothing_to_do
  <2>1. job.kind \in {"import", "recovery", "provider"} /\ job' = Idle /\ backups' = backups
    BY <1>27 DEF provider_nothing_to_do, At, Done
  <2>2. NextId' = NextId
    BY <1>27, NextIdKept DEF provider_nothing_to_do, Typing
  <2>3. \E st \in Statuses : Record(job.id, st) /\ EndsWith(st)
    BY <1>27 DEF provider_nothing_to_do, At, Statuses, Terminal, EndsWith
  <2>4. QED
    BY <2>1, <2>2, <2>3, LastJournalWrite
<1>28. CASE provider_fails
  <2>1. job.kind \in {"import", "recovery", "provider"} /\ job' = Idle /\ backups' = backups
    BY <1>28 DEF provider_fails, At, Done
  <2>2. NextId' = NextId
    BY <1>28, NextIdKept DEF provider_fails, Typing
  <2>3. \E st \in Statuses : Record(job.id, st) /\ EndsWith(st)
    BY <1>28 DEF provider_fails, At, Statuses, Terminal, EndsWith
  <2>4. QED
    BY <2>1, <2>2, <2>3, LastJournalWrite
<1>29. ASSUME NEW t \in Thread, NEW a \in {"archive", "restore", "delete"}, mutate_local_thread(t, a)
       PROVE  Journaled' /\ RecoveryHasItsBackup'
  <2>1. journals' = journals /\ backups' = backups /\ job'.kind \in {"mutate", "quarantine"}
    BY <1>29 DEF mutate_local_thread, At, Typing
  <2>2. NextId' = NextId
    BY <1>29, NextIdKept DEF mutate_local_thread, Typing
  <2>3. QED
    BY <2>1, <2>2 DEF Journaled, Numbered, Running, RecoveryHasItsBackup, Unfinished
<1>30. CASE mutate_row
  <2>1. journals' = journals /\ backups' = backups /\ (job' = job \/ job' = Idle)
    BY <1>30 DEF mutate_row, Written, Done
  <2>2. NextId' = NextId
    BY <1>30, NextIdKept DEF mutate_row, Typing
  <2>3. QED
    BY <2>1, <2>2, NoJournalWrite
<1>31. ASSUME NEW t \in Thread, start_quarantine(t)
       PROVE  Journaled' /\ RecoveryHasItsBackup'
  <2>1. journals' = journals /\ backups' = backups /\ job'.kind \in {"mutate", "quarantine"}
    BY <1>31 DEF start_quarantine, At, Typing
  <2>2. NextId' = NextId
    BY <1>31, NextIdKept DEF start_quarantine, Typing
  <2>3. QED
    BY <2>1, <2>2 DEF Journaled, Numbered, Running, RecoveryHasItsBackup, Unfinished
<1>32. CASE quarantine_rename
  <2>1. journals' = journals /\ backups' = backups /\ job'.kind \in {"mutate", "quarantine"}
    BY <1>32, JobFacts, GotoFacts DEF quarantine_rename, At, Typing
  <2>2. NextId' = NextId
    BY <1>32, NextIdKept DEF quarantine_rename, Typing
  <2>3. QED
    BY <2>1, <2>2 DEF Journaled, Numbered, Running, RecoveryHasItsBackup, Unfinished
<1>33. CASE quarantine_recheck
  <2>1. journals' = journals /\ backups' = backups /\ (job' = job \/ job' = Idle)
    BY <1>33 DEF quarantine_recheck, Written, Done
  <2>2. NextId' = NextId
    BY <1>33, NextIdKept DEF quarantine_recheck, Typing
  <2>3. QED
    BY <2>1, <2>2, NoJournalWrite
<1>34. CASE Stop
  <2>1. journals' = journals /\ backups' = backups /\ (job' = job \/ job' = Idle)
    BY <1>34 DEF Stop, Written, Done
  <2>2. NextId' = NextId
    BY <1>34, NextIdKept DEF Stop, Typing
  <2>3. QED
    BY <2>1, <2>2, NoJournalWrite
<1>35. ASSUME NEW id \in OperationIds, delete_backup(id)
       PROVE  Journaled' /\ RecoveryHasItsBackup'
  <2>1. /\ journals' = journals /\ job' = Idle /\ ~ Unfinished(id) /\ NextId' = NextId
        /\ backups' = [backups EXCEPT ![id] = None]
    BY <1>35 DEF delete_backup, Deletable, NextId
  <2>2. \A i \in OperationIds : i # id => backups'[i] = backups[i]
    BY <2>1 DEF Typing, RecordTyping
  <2>3. QED
    BY <2>1, <2>2 DEF Journaled, Numbered, Running, RecoveryHasItsBackup, Unfinished, Idle
<1>36. ASSUME UNCHANGED homevars PROVE UNCHANGED homevars
  BY <1>36 DEF homevars
<1>37. QED
  BY <1>1, <1>2, <1>3, <1>4, <1>5, <1>6, <1>7, <1>8, <1>9, <1>10, <1>11, <1>12, <1>13,
     <1>14, <1>15, <1>16, <1>17, <1>18, <1>19, <1>20, <1>21, <1>22, <1>23, <1>24, <1>25,
     <1>26, <1>27, <1>28, <1>29, <1>30, <1>31, <1>32, <1>33, <1>34, <1>35, <1>36 DEF Next,
         Codex, Import, ProviderSync, Mutate

(***************************************************************************)
(* What an import has done so far.                                         *)
(***************************************************************************)

\* The scan finds the same of a conversation whose rollouts did not change.
LEMMA ScanKept ==
    ASSUME NEW t, files'[t] = files[t]
    PROVE  /\ Listed(t)' <=> Listed(t)
           /\ Rollout(t)' = Rollout(t) /\ DirOf(t)' = DirOf(t)
           /\ \A d \in Dirs : Readable(t, d)' <=> Readable(t, d)
<1>1. \A d : Readable(t, d)' <=> Readable(t, d)
  BY DEF Readable
<1>2. DirOf(t)' = DirOf(t) /\ (Listed(t)' <=> Listed(t))
  BY <1>1 DEF DirOf, Listed
<1>3. QED
  BY <1>1, <1>2 DEF Rollout

\* Every step keeps what is known of an import that runs.
LEMMA ImportedStep ==
    ASSUME Typing, Journaled, Imported, [Next]_homevars
    PROVE  Imported'
<1>1. CASE UNCHANGED homevars
  BY <1>1 DEF homevars, Imported, Plan, Listed, Readable
<1>2. ASSUME NEW t \in Thread, CodexContinues(t) PROVE Imported'
  <2>1. job'.kind # "import"
    BY <1>2, JobFacts DEF CodexContinues, Done, Idle, At, Typing, Written
  <2>2. QED
    BY <2>1 DEF Imported
<1>3. ASSUME NEW t \in Thread, CodexOpens(t) PROVE Imported'
  <2>1. job'.kind # "import"
    BY <1>3, JobFacts DEF CodexOpens, Done, Idle, At, Typing, Written
  <2>2. QED
    BY <2>1 DEF Imported
<1>4. ASSUME NEW t \in Thread, CodexBegins(t) PROVE Imported'
  <2>1. job'.kind # "import"
    BY <1>4, JobFacts DEF CodexBegins, Done, Idle, At, Typing, Written
  <2>2. QED
    BY <2>1 DEF Imported
<1>5. ASSUME NEW p \in Provider, UserConfigures(p) PROVE Imported'
  <2>1. job'.kind # "import"
    BY <1>5, JobFacts DEF UserConfigures, Done, Idle, At, Typing, Written
  <2>2. QED
    BY <2>1 DEF Imported
<1>6. ASSUME NEW s \in Snapshots, start_import(s) PROVE Imported'
  <2> DEFINE plan == Restrict(s, {t \in DOMAIN s : ~ Listed(t)})
  <2>1. DOMAIN plan \subseteq Thread /\ \A t \in DOMAIN plan : ~ Listed(t)
    BY HomeAssumption DEF Restrict
  <2>2. NextId \in OperationIds
    BY <1>6, NextIdFacts DEF start_import, Spend, Typing
  <2>3. \/ job' = Idle
        \/ job' = [kind |-> "import", at |-> "backup", id |-> NextId, todo |-> DOMAIN plan]
    BY <1>6 DEF start_import
  <2>4. journals'[NextId].plan = plan
    BY <1>6, <2>2 DEF start_import, Typing, RecordTyping
  <2>5. \A t \in Thread : Listed(t)' <=> Listed(t)
    BY <1>6, ScanKept DEF start_import
  <2> HIDE DEF plan
  <2>6. CASE job' = Idle
    BY <2>6 DEF Imported, Idle
  <2>7. CASE job' = [kind |-> "import", at |-> "backup", id |-> NextId, todo |-> DOMAIN plan]
    <3>1. job'.at = "backup" /\ job'.id = NextId /\ job'.todo = DOMAIN plan
      BY <2>7
    <3>2. Plan' = plan
      BY <2>4, <3>1 DEF Plan
    <3>3. QED
      BY <2>1, <2>5, <3>1, <3>2 DEF Imported
  <2>8. QED
    BY <2>3, <2>6, <2>7
<1>7. CASE import_backup
  <2>1. /\ job.kind = "import" /\ job'.kind = "import" /\ job'.at = "backed_up"
        /\ job'.id = job.id /\ job'.todo = job.todo
    BY <1>7, JobFacts, GotoFacts DEF import_backup, At, Typing, ImportSteps
  <2>2. job.id \in OperationIds /\ journals[job.id] \in Journal
    BY <2>1, RunningJournal DEF Typing
  <2>3. files' = files
    BY <1>7 DEF import_backup, Typing
  <2>4. Plan' = Plan
    BY <1>7, <2>1 DEF import_backup, Plan
  <2>5. job.at = "backup" /\ rows' = rows
    BY <1>7 DEF import_backup, At
  <2>6. \A t \in Thread : Listed(t)' <=> Listed(t)
    BY <2>3, ScanKept
  <2>7. job.todo \subseteq Thread
    BY <2>1, JobFacts DEF Typing, ImportJobs
  <2>8. QED
    BY <2>1, <2>4, <2>5, <2>6, <2>7 DEF Imported
<1>8. CASE import_status("backed_up", "applying")
  <2>1. /\ job.kind = "import" /\ job'.kind = "import" /\ job'.at = "applying"
        /\ job'.id = job.id /\ job'.todo = job.todo
    BY <1>8, JobFacts, GotoFacts DEF import_status, At, Typing, ImportSteps
  <2>2. job.id \in OperationIds /\ journals[job.id] \in Journal
    BY <2>1, RunningJournal DEF Typing
  <2>3. files' = files
    BY <1>8 DEF import_status, Typing
  <2>4. Plan' = Plan
    BY <1>8, <2>1, <2>2, RecordFacts DEF import_status, Plan, Typing, Statuses
  <2>5. job.at = "backed_up" /\ rows' = rows
    BY <1>8 DEF import_status, At
  <2>6. \A t \in Thread : Listed(t)' <=> Listed(t)
    BY <2>3, ScanKept
  <2>7. job.todo \subseteq Thread
    BY <2>1, JobFacts DEF Typing, ImportJobs
  <2>8. QED
    BY <2>1, <2>4, <2>5, <2>6, <2>7 DEF Imported
<1>9. CASE import_status("applying", "commit")
  <2>1. /\ job.kind = "import" /\ job'.kind = "import" /\ job'.at = "commit"
        /\ job'.id = job.id /\ job'.todo = job.todo
    BY <1>9, JobFacts, GotoFacts DEF import_status, At, Typing, ImportSteps
  <2>2. job.id \in OperationIds /\ journals[job.id] \in Journal
    BY <2>1, RunningJournal DEF Typing
  <2>3. files' = files
    BY <1>9 DEF import_status, Typing
  <2>4. Plan' = Plan
    BY <1>9, <2>1, <2>2, RecordFacts DEF import_status, Plan, Typing, Statuses
  <2>5. job.at = "applying" /\ rows' = rows
    BY <1>9 DEF import_status, At
  <2>6. \A t \in Thread : Listed(t)' <=> Listed(t)
    BY <2>3, ScanKept
  <2>7. job.todo \subseteq Thread
    BY <2>1, JobFacts DEF Typing, ImportJobs
  <2>8. QED
    BY <2>1, <2>4, <2>5, <2>6, <2>7 DEF Imported
<1>10. CASE import_commit
  <2>1. /\ job.kind = "import" /\ job'.kind = "import" /\ job'.at = "rename"
        /\ job'.id = job.id /\ job'.todo = job.todo
    BY <1>10, JobFacts, GotoFacts DEF import_commit, At, Typing, ImportSteps
  <2>2. job.id \in OperationIds /\ journals[job.id] \in Journal
    BY <2>1, RunningJournal DEF Typing
  <2>3. files' = files
    BY <1>10 DEF import_commit, Typing
  <2>4. Plan' = Plan
    BY <1>10, <2>1 DEF import_commit, Plan
  <2>5. \A t \in DOMAIN Plan : t \in Thread
    BY <2>2, PlanFacts DEF Plan, Journal
  <2>6. \A t \in DOMAIN Plan : rows'[t] # None
    <3>1. \A t \in Thread : insert_thread_row(t) \in Row
      BY DEF insert_thread_row, Row
    <3>2. QED
      BY <1>10, <2>5, <3>1, Constants DEF import_commit
  <2>7. job.at = "commit"
    BY <1>10 DEF import_commit, At
  <2>8. \A t \in Thread : Listed(t)' <=> Listed(t)
    BY <2>3, ScanKept
  <2>9. job.todo \subseteq Thread
    BY <2>1, JobFacts DEF Typing, ImportJobs
  <2>10. QED
    BY <2>1, <2>4, <2>6, <2>7, <2>8, <2>9 DEF Imported
<1>11. ASSUME NEW t \in Thread, import_rename(t) PROVE Imported'
  <2>1. /\ job.kind = "import" /\ job.at = "rename" /\ t \in job.todo /\ job.todo \subseteq Thread
        /\ job'.kind = "import" /\ job'.at \in {"rename", "validating"}
        /\ job'.id = job.id /\ job'.todo = job.todo \ {t}
    BY <1>11, JobFacts DEF import_rename, At, Typing, ImportJobs
  <2>2. Plan' = Plan /\ rows' = rows
    BY <1>11, <2>1 DEF import_rename, Plan
  <2>3. \A u \in Thread : u # t => (Listed(u)' <=> Listed(u))
    <3>1. \A u \in Thread : u # t => files'[u] = files[u]
      BY <1>11 DEF import_rename, Put, Typing, FileTyping
    <3>2. QED
      BY <3>1, ScanKept
  <2>4. QED
    BY <2>1, <2>2, <2>3 DEF Imported
<1>12. CASE import_status("validating", "validate")
  <2>1. /\ job.kind = "import" /\ job'.kind = "import" /\ job'.at = "validate"
        /\ job'.id = job.id /\ job'.todo = job.todo
    BY <1>12, JobFacts, GotoFacts DEF import_status, At, Typing, ImportSteps
  <2>2. job.id \in OperationIds /\ journals[job.id] \in Journal
    BY <2>1, RunningJournal DEF Typing
  <2>3. files' = files
    BY <1>12 DEF import_status, Typing
  <2>4. Plan' = Plan
    BY <1>12, <2>1, <2>2, RecordFacts DEF import_status, Plan, Typing, Statuses
  <2>5. job.at = "validating" /\ rows' = rows
    BY <1>12 DEF import_status, At
  <2>6. \A t \in Thread : Listed(t)' <=> Listed(t)
    BY <2>3, ScanKept
  <2>7. job.todo \subseteq Thread
    BY <2>1, JobFacts DEF Typing, ImportJobs
  <2>8. QED
    BY <2>1, <2>4, <2>5, <2>6, <2>7 DEF Imported
<1>13. CASE import_complete
  <2>1. job'.kind # "import"
    BY <1>13, JobFacts DEF import_complete, Done, Idle, At, Typing
  <2>2. QED
    BY <2>1 DEF Imported
<1>14. CASE import_fails
  <2>1. /\ job.kind = "import" /\ job'.kind = "import" /\ job'.at = "rollback"
        /\ job'.id = job.id /\ job'.todo = job.todo
    BY <1>14, JobFacts, GotoFacts DEF import_fails, At, Typing, ImportSteps
  <2>2. job.id \in OperationIds /\ journals[job.id] \in Journal
    BY <2>1, RunningJournal DEF Typing
  <2>3. files' = files
    BY <1>14 DEF import_fails, Typing
  <2>4. Plan' = Plan
    BY <1>14, <2>1 DEF import_fails, Plan
  <2>5. QED
    BY <2>1, <2>4 DEF Imported
<1>15. CASE import_rollback
  <2>1. /\ job.kind = "import" /\ job'.kind = "import" /\ job'.at = "restore"
        /\ job'.id = job.id /\ job'.todo = job.todo
    BY <1>15, JobFacts, GotoFacts DEF import_rollback, At, Typing, ImportSteps
  <2>2. job.id \in OperationIds /\ journals[job.id] \in Journal
    BY <2>1, RunningJournal DEF Typing
  <2>3. files' = files
    BY <1>15, <2>2, RemovesNothing DEF import_rollback, Typing
  <2>4. Plan' = Plan
    BY <1>15, <2>1 DEF import_rollback, Plan
  <2>5. QED
    BY <2>1, <2>4 DEF Imported
<1>16. CASE import_restore
  <2>1. job'.kind # "import"
    BY <1>16, JobFacts DEF import_restore, Done, Idle, At, Typing
  <2>2. QED
    BY <2>1 DEF Imported
<1>17. ASSUME NEW id \in OperationIds, start_recovery(id) PROVE Imported'
  <2>1. job'.kind # "import"
    BY <1>17, JobFacts DEF start_recovery, Done, Idle, At, Typing
  <2>2. QED
    BY <2>1 DEF Imported
<1>18. CASE recover_incomplete_operation
  <2>1. job'.kind # "import"
    BY <1>18, JobFacts, GotoFacts DEF recover_incomplete_operation, Done, Idle, At, Typing
  <2>2. QED
    BY <2>1 DEF Imported
<1>19. CASE recover_database
  <2>1. job'.kind # "import"
    BY <1>19, JobFacts DEF recover_database, Done, Idle, At, Typing
  <2>2. QED
    BY <2>1 DEF Imported
<1>20. CASE start_provider_sync
  <2>1. job'.kind # "import"
    BY <1>20, JobFacts DEF start_provider_sync, Done, Idle, At, Typing, ProviderJob
  <2>2. QED
    BY <2>1 DEF Imported
<1>21. ASSUME NEW t \in Thread, provider_displace(t) PROVE Imported'
  <2>1. job'.kind # "import"
    BY <1>21, JobFacts DEF provider_displace, Done, Idle, At, Typing, ProviderJobs
  <2>2. QED
    BY <2>1 DEF Imported
<1>22. CASE provider_install
  <2>1. job'.kind # "import"
    BY <1>22, JobFacts, GotoFacts DEF provider_install, Done, Idle, At, Typing, ProviderSteps
  <2>2. QED
    BY <2>1 DEF Imported
<1>23. CASE provider_install_fails
  <2>1. job'.kind # "import"
    BY <1>23, JobFacts DEF provider_install_fails, Done, Idle, At, Typing
  <2>2. QED
    BY <2>1 DEF Imported
<1>24. CASE provider_remove
  <2>1. job'.kind # "import"
    BY <1>24, JobFacts DEF provider_remove, Done, Idle, At, Typing, ProviderJobs
  <2>2. QED
    BY <2>1 DEF Imported
<1>25. CASE update_database_providers
  <2>1. job'.kind # "import"
    BY <1>25, JobFacts, GotoFacts DEF update_database_providers, Done, Idle, At, Typing, ProviderSteps
  <2>2. QED
    BY <2>1 DEF Imported
<1>26. CASE validate_provider_sync
  <2>1. job'.kind # "import"
    BY <1>26, JobFacts DEF validate_provider_sync, Done, Idle, At, Typing
  <2>2. QED
    BY <2>1 DEF Imported
<1>27. CASE provider_nothing_to_do
  <2>1. job'.kind # "import"
    BY <1>27, JobFacts DEF provider_nothing_to_do, Done, Idle, At, Typing
  <2>2. QED
    BY <2>1 DEF Imported
<1>28. CASE provider_fails
  <2>1. job'.kind # "import"
    BY <1>28, JobFacts DEF provider_fails, Done, Idle, At, Typing
  <2>2. QED
    BY <2>1 DEF Imported
<1>29. ASSUME NEW t \in Thread, NEW a \in {"archive", "restore", "delete"}, mutate_local_thread(t, a)
       PROVE  Imported'
  <2>1. job'.kind # "import"
    BY <1>29, JobFacts DEF mutate_local_thread, Done, Idle, At, Typing
  <2>2. QED
    BY <2>1 DEF Imported
<1>30. CASE mutate_row
  <2>1. job'.kind # "import"
    BY <1>30, JobFacts DEF mutate_row, Done, Idle, At, Typing
  <2>2. QED
    BY <2>1 DEF Imported
<1>31. ASSUME NEW t \in Thread, start_quarantine(t) PROVE Imported'
  <2>1. job'.kind # "import"
    BY <1>31, JobFacts DEF start_quarantine, Done, Idle, At, Typing
  <2>2. QED
    BY <2>1 DEF Imported
<1>32. CASE quarantine_rename
  <2>1. job'.kind # "import"
    BY <1>32, JobFacts, GotoFacts DEF quarantine_rename, Done, Idle, At, Typing
  <2>2. QED
    BY <2>1 DEF Imported
<1>33. CASE quarantine_recheck
  <2>1. job'.kind # "import"
    BY <1>33, JobFacts DEF quarantine_recheck, Done, Idle, At, Typing
  <2>2. QED
    BY <2>1 DEF Imported
<1>34. CASE Stop
  <2>1. job'.kind # "import"
    BY <1>34, JobFacts DEF Stop, Done, Idle, At, Typing
  <2>2. QED
    BY <2>1 DEF Imported
<1>35. ASSUME NEW id \in OperationIds, delete_backup(id) PROVE Imported'
  <2>1. job'.kind # "import"
    BY <1>35, JobFacts DEF delete_backup, Done, Idle, At, Typing, Written
  <2>2. QED
    BY <2>1 DEF Imported
<1>36. ASSUME UNCHANGED homevars PROVE UNCHANGED homevars
  BY <1>36 DEF homevars
<1>37. QED
  BY <1>1, <1>2, <1>3, <1>4, <1>5, <1>6, <1>7, <1>8, <1>9, <1>10, <1>11, <1>12, <1>13,
     <1>14, <1>15, <1>16, <1>17, <1>18, <1>19, <1>20, <1>21, <1>22, <1>23, <1>24, <1>25,
     <1>26, <1>27, <1>28, <1>29, <1>30, <1>31, <1>32, <1>33, <1>34, <1>35, <1>36 DEF Next,
         Codex, Import, ProviderSync, Mutate

(***************************************************************************)
(* The quarantine.                                                         *)
(***************************************************************************)

\* Every step keeps the type of what conversations say.
LEMMA SaidTypingStep ==
    ASSUME Typing, [Next]_homevars
    PROVE  SaidTyping'
<1>1. CASE UNCHANGED said
  BY <1>1 DEF Typing, SaidTyping
<1>2. ASSUME NEW t \in Thread, CodexOpens(t) PROVE UNCHANGED said
  BY <1>2 DEF CodexOpens, Put, Spend
<1>3. ASSUME NEW p \in Provider, UserConfigures(p) PROVE UNCHANGED said
  BY <1>3 DEF UserConfigures, Spend
<1>4. ASSUME NEW s \in Snapshots, start_import(s) PROVE UNCHANGED said
  BY <1>4 DEF start_import, Spend
<1>5. ASSUME import_backup PROVE UNCHANGED said
  BY <1>5 DEF import_backup, At, Goto
<1>6. ASSUME import_status("backed_up", "applying") PROVE UNCHANGED said
  BY <1>6 DEF import_status, At, Goto, Record
<1>7. ASSUME import_status("applying", "commit") PROVE UNCHANGED said
  BY <1>7 DEF import_status, At, Goto, Record
<1>8. ASSUME import_commit PROVE UNCHANGED said
  BY <1>8 DEF import_commit, At, Goto
<1>9. ASSUME NEW t \in Thread, import_rename(t) PROVE UNCHANGED said
  BY <1>9 DEF import_rename, At, Put
<1>10. ASSUME import_status("validating", "validate") PROVE UNCHANGED said
  BY <1>10 DEF import_status, At, Goto, Record
<1>11. ASSUME import_fails PROVE UNCHANGED said
  BY <1>11 DEF import_fails, Goto, Spend
<1>12. ASSUME import_rollback PROVE UNCHANGED said
  BY <1>12 DEF import_rollback, At, Goto, remove_targets
<1>13. ASSUME import_restore PROVE UNCHANGED said
  BY <1>13 DEF import_restore, At, Record, Done, Spend
<1>14. ASSUME NEW id \in OperationIds, start_recovery(id) PROVE UNCHANGED said
  BY <1>14 DEF start_recovery
<1>15. ASSUME recover_incomplete_operation PROVE UNCHANGED said
  BY <1>15 DEF recover_incomplete_operation, At, Goto, Record, Done, remove_targets
<1>16. ASSUME recover_database PROVE UNCHANGED said
  BY <1>16 DEF recover_database, At, Record, Done
<1>17. ASSUME start_provider_sync PROVE UNCHANGED said
  BY <1>17 DEF start_provider_sync, Spend
<1>18. ASSUME NEW t \in Thread, provider_displace(t) PROVE UNCHANGED said
  BY <1>18 DEF provider_displace, At, Put
<1>19. ASSUME provider_install PROVE UNCHANGED said
  BY <1>19 DEF provider_install, At, Goto, Put
<1>20. ASSUME provider_install_fails PROVE UNCHANGED said
  BY <1>20 DEF provider_install_fails, At, Spend, Put, Record, Done
<1>21. ASSUME provider_remove PROVE UNCHANGED said
  BY <1>21 DEF provider_remove, At
<1>22. ASSUME update_database_providers PROVE UNCHANGED said
  BY <1>22 DEF update_database_providers, At, Goto
<1>23. ASSUME validate_provider_sync PROVE UNCHANGED said
  BY <1>23 DEF validate_provider_sync, At, Record, Done
<1>24. ASSUME provider_nothing_to_do PROVE UNCHANGED said
  BY <1>24 DEF provider_nothing_to_do, At, Record, Done
<1>25. ASSUME provider_fails PROVE UNCHANGED said
  BY <1>25 DEF provider_fails, Spend, Record, Done
<1>26. ASSUME mutate_row PROVE UNCHANGED said
  BY <1>26 DEF mutate_row, Done
<1>27. ASSUME NEW t \in Thread, start_quarantine(t) PROVE UNCHANGED said
  BY <1>27 DEF start_quarantine, Spend
<1>28. ASSUME quarantine_rename PROVE UNCHANGED said
  BY <1>28 DEF quarantine_rename, At, Put, Goto, Moved
<1>29. ASSUME quarantine_recheck PROVE UNCHANGED said
  BY <1>29 DEF quarantine_recheck, At, Put, Done, Moved
<1>30. ASSUME Stop PROVE UNCHANGED said
  BY <1>30 DEF Stop, Spend, Done
<1>31. ASSUME NEW id \in OperationIds, delete_backup(id) PROVE UNCHANGED said
  BY <1>31 DEF delete_backup
<1>32. ASSUME NEW t \in Thread, CodexContinues(t) PROVE SaidTyping'
  BY <1>32 DEF CodexContinues, Written, Put, Spend, Typing, SaidTyping
<1>33. ASSUME NEW t \in Thread, CodexBegins(t) PROVE SaidTyping'
  BY <1>33 DEF CodexBegins, Written, Put, Moved, Spend, Typing, SaidTyping
<1>34. CASE import_complete
  BY <1>34 DEF import_complete, At, Record, Done, Typing, SaidTyping
<1>35. ASSUME NEW t \in Thread, NEW a \in {"archive", "restore", "delete"}, mutate_local_thread(t, a)
       PROVE  SaidTyping'
  BY <1>35 DEF mutate_local_thread, Spend, Typing, SaidTyping
<1>36. ASSUME UNCHANGED homevars PROVE UNCHANGED said
  BY <1>36 DEF homevars
<1>37. QED
  BY <1>1, <1>2, <1>3, <1>4, <1>5, <1>6, <1>7, <1>8, <1>9, <1>10, <1>11, <1>12, <1>13,
     <1>14, <1>15, <1>16, <1>17, <1>18, <1>19, <1>20, <1>21, <1>22, <1>23, <1>24, <1>25,
     <1>26, <1>27, <1>28, <1>29, <1>30, <1>31, <1>32, <1>33, <1>34, <1>35, <1>36 DEF Next,
         Codex, Import, ProviderSync, Mutate

\* What a write to one rollout changes for the scan.
LEMMA PutReads ==
    ASSUME FileTyping, NEW t \in Thread, NEW d \in Dirs, NEW x \in LocalRollouts,
           read_rollout_record(x), Put(t, d, x),
           d = "archived_sessions" => ~ Readable(t, "sessions")
    PROVE  Listed(t)' /\ Rollout(t)' = x
<1>1. files'[t][d] = x /\ \A e \in Dirs : e # d => files'[t][e] = files[t][e]
  BY PutFacts
<1>2. Readable(t, d)'
  BY <1>1, Constants DEF Readable, LocalRollouts
<1>3. DirOf(t)' = d
  <2>1. CASE d = "sessions"
    BY <1>2, <2>1 DEF DirOf
  <2>2. CASE d = "archived_sessions"
    BY <1>1, <2>2 DEF DirOf, Readable, Dirs
  <2>3. QED
    BY <2>1, <2>2 DEF Dirs
<1>4. QED
  BY <1>1, <1>2, <1>3 DEF Listed, Rollout

\* A step outside a quarantining leaves the quarantine behind the bound.
LEMMA NotQuarantining ==
    ASSUME Typing, Quarantining, quarantine' = quarantine, job'.kind # "quarantine",
           left' = left \/ \E x \in {"operations", "touches", "edits", "faults"} : Spend(x)
    PROVE  Quarantining'
<1>1. left'["touches"] <= left["touches"] /\ left'["touches"] \in Int /\ left["touches"] \in Int
  <2>1. left["touches"] \in Nat
    BY DEF Typing, RecordTyping
  <2>2. CASE left' = left
    BY <2>1, <2>2
  <2>3. ASSUME NEW x \in {"operations", "touches", "edits", "faults"}, Spend(x)
        PROVE  left'["touches"] <= left["touches"] /\ left'["touches"] \in Int
    BY <2>1, <2>3, SpendFacts DEF Typing
  <2>4. QED
    BY <2>1, <2>2, <2>3
<1>2. \A q \in quarantine : q[3] \in Int /\ q[3] >= left["touches"]
  BY DEF Quarantining, Typing, FileTyping
<1>3. \A q \in quarantine' : q[3] >= left'["touches"]
  BY <1>1, <1>2
<1>4. QED
  BY <1>3 DEF Quarantining

\* Every step keeps what is known of the quarantine.
LEMMA QuarantiningStep ==
    ASSUME Typing, Quarantining, [Next]_homevars
    PROVE  Quarantining'
<1>1. CASE UNCHANGED homevars
  BY <1>1 DEF homevars, Quarantining, Mine
<1>2. ASSUME NEW t \in Thread, CodexContinues(t) PROVE Quarantining'
  <2>1. job'.kind # "quarantine" /\ quarantine' = quarantine
    BY <1>2, JobFacts DEF CodexContinues, Done, Idle, At, Typing, Written, ProviderJob
  <2>2. left' = left \/ \E x \in {"operations", "touches", "edits", "faults"} : Spend(x)
    BY <1>2 DEF CodexContinues
  <2>3. QED
    BY <2>1, <2>2, NotQuarantining
<1>3. ASSUME NEW t \in Thread, CodexOpens(t) PROVE Quarantining'
  <2>1. job'.kind # "quarantine" /\ quarantine' = quarantine
    BY <1>3, JobFacts DEF CodexOpens, Done, Idle, At, Typing
  <2>2. left' = left \/ \E x \in {"operations", "touches", "edits", "faults"} : Spend(x)
    BY <1>3 DEF CodexOpens
  <2>3. QED
    BY <2>1, <2>2, NotQuarantining
<1>4. ASSUME NEW t \in Thread, CodexBegins(t) PROVE Quarantining'
  <2> DEFINE ls == <<Meta, Message>>
  <2>1. ls \in LocalRollouts /\ read_rollout_record(ls) /\ ls # << >>
    BY CodexWritesLocal DEF Typing, FileTyping, RecordTyping
  <2>2. left'["touches"] = left["touches"] /\ left["touches"] \in Nat /\ Spend("edits")
    BY <1>4, SpendFacts DEF CodexBegins, Typing, RecordTyping
  <2>3. CASE job = Idle
    <3>1. job'.kind # "quarantine" /\ quarantine' = quarantine
      BY <1>4, <2>3 DEF CodexBegins, Written, Idle
    <3>2. QED
      BY <2>2, <3>1, NotQuarantining
  <2>4. ASSUME job.kind = "quarantine", job.thread = t, files[t]["sessions"] = << >>,
               Written(t, "sessions", ls)
        PROVE  Quarantining'
    <3>1. job' = job /\ quarantine' = quarantine /\ Put(t, "sessions", ls)
      BY <2>4 DEF Written
    <3>2. said'[t] = Said(ls)
      BY <2>4 DEF Written, Typing, SaidTyping
    <3> HIDE DEF ls
    <3>3. files'[t]["sessions"] = ls /\ ls # None
      BY <2>1, <3>1, PutFacts, Constants DEF Typing, Dirs, LocalRollouts
    <3>4. job.at = "checked"
      <4>1. << >> # None
        BY CodexWritesLocal, Constants DEF Typing, FileTyping, RecordTyping, LocalRollouts
      <4>2. job.at # "moved"
        BY <2>4, <4>1 DEF Quarantining
      <4>3. QED
        BY <2>4, <4>2, JobFacts DEF Typing, QuarantineJobs
    <3>5. QED
      BY <2>1, <2>2, <2>4, <3>1, <3>2, <3>3, <3>4 DEF Quarantining, Mine
  <2>5. ASSUME job.kind = "quarantine", job.thread = t, job.at = "moved",
               Moved(<< >>) \in quarantine, said' = [said EXCEPT ![t] = Said(ls)],
               quarantine' = (quarantine \ {Moved(<< >>)}) \cup {Moved(ls)},
               files' = files, job' = job
        PROVE  Quarantining'
    <3>1. said'[t] = Said(ls)
      BY <2>5 DEF Typing, SaidTyping
    <3> HIDE DEF ls
    <3>2. /\ Moved(ls)[1] = t /\ Moved(ls)[2] = ls /\ Moved(ls)[3] = left["touches"]
          /\ Moved(<< >>)[3] = left["touches"]
      BY <2>5 DEF Moved
    <3>3. /\ \A q \in quarantine : q[3] >= left["touches"]
          /\ \A q \in quarantine : q[3] = left["touches"] => q = Moved(<< >>)
          /\ files[t]["sessions"] = None
      BY <2>5, <3>2 DEF Quarantining
    <3>4. \A q \in quarantine' : /\ q[3] >= left["touches"]
                                 /\ q[3] = left["touches"] => q = Moved(ls)
      BY <2>2, <2>5, <3>2, <3>3
    <3>5. QED
      BY <2>1, <2>2, <2>5, <3>1, <3>2, <3>3, <3>4 DEF Quarantining, Mine
  <2>6. QED
    BY <1>4, <2>3, <2>4, <2>5 DEF CodexBegins
<1>5. ASSUME NEW p \in Provider, UserConfigures(p) PROVE Quarantining'
  <2>1. job'.kind # "quarantine" /\ quarantine' = quarantine
    BY <1>5, JobFacts DEF UserConfigures, Done, Idle, At, Typing
  <2>2. left' = left \/ \E x \in {"operations", "touches", "edits", "faults"} : Spend(x)
    BY <1>5 DEF UserConfigures
  <2>3. QED
    BY <2>1, <2>2, NotQuarantining
<1>6. ASSUME NEW s \in Snapshots, start_import(s) PROVE Quarantining'
  <2>1. job'.kind # "quarantine" /\ quarantine' = quarantine
    BY <1>6, JobFacts DEF start_import, Done, Idle, At, Typing
  <2>2. left' = left \/ \E x \in {"operations", "touches", "edits", "faults"} : Spend(x)
    BY <1>6 DEF start_import
  <2>3. QED
    BY <2>1, <2>2, NotQuarantining
<1>7. CASE import_backup
  <2>1. job'.kind # "quarantine" /\ quarantine' = quarantine
    BY <1>7, JobFacts, GotoFacts DEF import_backup, Done, Idle, At, Typing, ImportSteps, ProviderSteps
  <2>2. left' = left \/ \E x \in {"operations", "touches", "edits", "faults"} : Spend(x)
    BY <1>7 DEF import_backup
  <2>3. QED
    BY <2>1, <2>2, NotQuarantining
<1>8. CASE import_status("backed_up", "applying")
  <2>1. job'.kind # "quarantine" /\ quarantine' = quarantine
    BY <1>8, JobFacts, GotoFacts DEF import_status, Done, Idle, At, Typing, ImportSteps, ProviderSteps
  <2>2. left' = left \/ \E x \in {"operations", "touches", "edits", "faults"} : Spend(x)
    BY <1>8 DEF import_status
  <2>3. QED
    BY <2>1, <2>2, NotQuarantining
<1>9. CASE import_status("applying", "commit")
  <2>1. job'.kind # "quarantine" /\ quarantine' = quarantine
    BY <1>9, JobFacts, GotoFacts DEF import_status, Done, Idle, At, Typing, ImportSteps, ProviderSteps
  <2>2. left' = left \/ \E x \in {"operations", "touches", "edits", "faults"} : Spend(x)
    BY <1>9 DEF import_status
  <2>3. QED
    BY <2>1, <2>2, NotQuarantining
<1>10. CASE import_commit
  <2>1. job'.kind # "quarantine" /\ quarantine' = quarantine
    BY <1>10, JobFacts, GotoFacts DEF import_commit, Done, Idle, At, Typing, ImportSteps, ProviderSteps
  <2>2. left' = left \/ \E x \in {"operations", "touches", "edits", "faults"} : Spend(x)
    BY <1>10 DEF import_commit
  <2>3. QED
    BY <2>1, <2>2, NotQuarantining
<1>11. ASSUME NEW t \in Thread, import_rename(t) PROVE Quarantining'
  <2>1. job'.kind # "quarantine" /\ quarantine' = quarantine
    BY <1>11, JobFacts DEF import_rename, Done, Idle, At, Typing, ImportJobs, ProviderJobs
  <2>2. left' = left \/ \E x \in {"operations", "touches", "edits", "faults"} : Spend(x)
    BY <1>11 DEF import_rename
  <2>3. QED
    BY <2>1, <2>2, NotQuarantining
<1>12. CASE import_status("validating", "validate")
  <2>1. job'.kind # "quarantine" /\ quarantine' = quarantine
    BY <1>12, JobFacts, GotoFacts DEF import_status, Done, Idle, At, Typing, ImportSteps, ProviderSteps
  <2>2. left' = left \/ \E x \in {"operations", "touches", "edits", "faults"} : Spend(x)
    BY <1>12 DEF import_status
  <2>3. QED
    BY <2>1, <2>2, NotQuarantining
<1>13. CASE import_complete
  <2>1. job'.kind # "quarantine" /\ quarantine' = quarantine
    BY <1>13, JobFacts DEF import_complete, Done, Idle, At, Typing
  <2>2. left' = left \/ \E x \in {"operations", "touches", "edits", "faults"} : Spend(x)
    BY <1>13 DEF import_complete
  <2>3. QED
    BY <2>1, <2>2, NotQuarantining
<1>14. CASE import_fails
  <2>1. job'.kind # "quarantine" /\ quarantine' = quarantine
    BY <1>14, JobFacts, GotoFacts DEF import_fails, Done, Idle, At, Typing, ImportSteps, ProviderSteps
  <2>2. left' = left \/ \E x \in {"operations", "touches", "edits", "faults"} : Spend(x)
    BY <1>14 DEF import_fails
  <2>3. QED
    BY <2>1, <2>2, NotQuarantining
<1>15. CASE import_rollback
  <2>1. job'.kind # "quarantine" /\ quarantine' = quarantine
    BY <1>15, JobFacts, GotoFacts DEF import_rollback, Done, Idle, At, Typing, ImportSteps, ProviderSteps
  <2>2. left' = left \/ \E x \in {"operations", "touches", "edits", "faults"} : Spend(x)
    BY <1>15 DEF import_rollback
  <2>3. QED
    BY <2>1, <2>2, NotQuarantining
<1>16. CASE import_restore
  <2>1. job'.kind # "quarantine" /\ quarantine' = quarantine
    BY <1>16, JobFacts DEF import_restore, Done, Idle, At, Typing
  <2>2. left' = left \/ \E x \in {"operations", "touches", "edits", "faults"} : Spend(x)
    BY <1>16 DEF import_restore
  <2>3. QED
    BY <2>1, <2>2, NotQuarantining
<1>17. ASSUME NEW id \in OperationIds, start_recovery(id) PROVE Quarantining'
  <2>1. job'.kind # "quarantine" /\ quarantine' = quarantine
    BY <1>17, JobFacts DEF start_recovery, Done, Idle, At, Typing
  <2>2. left' = left \/ \E x \in {"operations", "touches", "edits", "faults"} : Spend(x)
    BY <1>17 DEF start_recovery
  <2>3. QED
    BY <2>1, <2>2, NotQuarantining
<1>18. CASE recover_incomplete_operation
  <2>1. job'.kind # "quarantine" /\ quarantine' = quarantine
    BY <1>18, JobFacts, GotoFacts DEF recover_incomplete_operation, Done, Idle, At, Typing, ImportSteps, ProviderSteps
  <2>2. left' = left \/ \E x \in {"operations", "touches", "edits", "faults"} : Spend(x)
    BY <1>18 DEF recover_incomplete_operation
  <2>3. QED
    BY <2>1, <2>2, NotQuarantining
<1>19. CASE recover_database
  <2>1. job'.kind # "quarantine" /\ quarantine' = quarantine
    BY <1>19, JobFacts DEF recover_database, Done, Idle, At, Typing
  <2>2. left' = left \/ \E x \in {"operations", "touches", "edits", "faults"} : Spend(x)
    BY <1>19 DEF recover_database
  <2>3. QED
    BY <2>1, <2>2, NotQuarantining
<1>20. CASE start_provider_sync
  <2>1. job'.kind # "quarantine" /\ quarantine' = quarantine
    BY <1>20, JobFacts DEF start_provider_sync, Done, Idle, At, Typing, Written, ProviderJob
  <2>2. left' = left \/ \E x \in {"operations", "touches", "edits", "faults"} : Spend(x)
    BY <1>20 DEF start_provider_sync
  <2>3. QED
    BY <2>1, <2>2, NotQuarantining
<1>21. ASSUME NEW t \in Thread, provider_displace(t) PROVE Quarantining'
  <2>1. job'.kind # "quarantine" /\ quarantine' = quarantine
    BY <1>21, JobFacts DEF provider_displace, Done, Idle, At, Typing, ImportJobs, ProviderJobs
  <2>2. left' = left \/ \E x \in {"operations", "touches", "edits", "faults"} : Spend(x)
    BY <1>21 DEF provider_displace
  <2>3. QED
    BY <2>1, <2>2, NotQuarantining
<1>22. CASE provider_install
  <2>1. job'.kind # "quarantine" /\ quarantine' = quarantine
    BY <1>22, JobFacts, GotoFacts DEF provider_install, Done, Idle, At, Typing, ImportSteps, ProviderSteps
  <2>2. left' = left \/ \E x \in {"operations", "touches", "edits", "faults"} : Spend(x)
    BY <1>22 DEF provider_install
  <2>3. QED
    BY <2>1, <2>2, NotQuarantining
<1>23. CASE provider_install_fails
  <2>1. job'.kind # "quarantine" /\ quarantine' = quarantine
    BY <1>23, JobFacts DEF provider_install_fails, Done, Idle, At, Typing
  <2>2. left' = left \/ \E x \in {"operations", "touches", "edits", "faults"} : Spend(x)
    BY <1>23 DEF provider_install_fails
  <2>3. QED
    BY <2>1, <2>2, NotQuarantining
<1>24. CASE provider_remove
  <2>1. job'.kind # "quarantine" /\ quarantine' = quarantine
    BY <1>24, JobFacts DEF provider_remove, Done, Idle, At, Typing, ImportJobs, ProviderJobs
  <2>2. left' = left \/ \E x \in {"operations", "touches", "edits", "faults"} : Spend(x)
    BY <1>24 DEF provider_remove
  <2>3. QED
    BY <2>1, <2>2, NotQuarantining
<1>25. CASE update_database_providers
  <2>1. job'.kind # "quarantine" /\ quarantine' = quarantine
    BY <1>25, JobFacts, GotoFacts DEF update_database_providers, Done, Idle, At, Typing, ImportSteps, ProviderSteps
  <2>2. left' = left \/ \E x \in {"operations", "touches", "edits", "faults"} : Spend(x)
    BY <1>25 DEF update_database_providers
  <2>3. QED
    BY <2>1, <2>2, NotQuarantining
<1>26. CASE validate_provider_sync
  <2>1. job'.kind # "quarantine" /\ quarantine' = quarantine
    BY <1>26, JobFacts DEF validate_provider_sync, Done, Idle, At, Typing
  <2>2. left' = left \/ \E x \in {"operations", "touches", "edits", "faults"} : Spend(x)
    BY <1>26 DEF validate_provider_sync
  <2>3. QED
    BY <2>1, <2>2, NotQuarantining
<1>27. CASE provider_nothing_to_do
  <2>1. job'.kind # "quarantine" /\ quarantine' = quarantine
    BY <1>27, JobFacts DEF provider_nothing_to_do, Done, Idle, At, Typing
  <2>2. left' = left \/ \E x \in {"operations", "touches", "edits", "faults"} : Spend(x)
    BY <1>27 DEF provider_nothing_to_do
  <2>3. QED
    BY <2>1, <2>2, NotQuarantining
<1>28. CASE provider_fails
  <2>1. job'.kind # "quarantine" /\ quarantine' = quarantine
    BY <1>28, JobFacts DEF provider_fails, Done, Idle, At, Typing
  <2>2. left' = left \/ \E x \in {"operations", "touches", "edits", "faults"} : Spend(x)
    BY <1>28 DEF provider_fails
  <2>3. QED
    BY <2>1, <2>2, NotQuarantining
<1>29. ASSUME NEW t \in Thread, NEW a \in {"archive", "restore", "delete"}, mutate_local_thread(t, a)
       PROVE  Quarantining'
  <2>1. job'.kind # "quarantine" /\ quarantine' = quarantine
    BY <1>29, JobFacts DEF mutate_local_thread, Done, Idle, At, Typing
  <2>2. left' = left \/ \E x \in {"operations", "touches", "edits", "faults"} : Spend(x)
    BY <1>29 DEF mutate_local_thread
  <2>3. QED
    BY <2>1, <2>2, NotQuarantining
<1>30. CASE mutate_row
  <2>1. job'.kind # "quarantine" /\ quarantine' = quarantine
    BY <1>30, JobFacts DEF mutate_row, Done, Idle, At, Typing
  <2>2. left' = left \/ \E x \in {"operations", "touches", "edits", "faults"} : Spend(x)
    BY <1>30 DEF mutate_row
  <2>3. QED
    BY <2>1, <2>2, NotQuarantining
<1>31. ASSUME NEW t \in Thread, start_quarantine(t) PROVE Quarantining'
  <2>1. /\ job'.kind = "quarantine" /\ job'.at = "checked" /\ job'.thread = t
        /\ files' = files /\ quarantine' = quarantine /\ said' = said
        /\ files[t]["sessions"] = << >> /\ Spend("touches")
    BY <1>31 DEF start_quarantine
  <2>2. left["touches"] \in Nat /\ left'["touches"] = left["touches"] - 1
    BY <2>1, SpendFacts DEF Typing, RecordTyping
  <2>3. \A q \in quarantine : q[3] \in Nat /\ q[3] >= left["touches"]
    BY DEF Quarantining, Typing, FileTyping
  <2>4. \A q \in quarantine : q[3] > left'["touches"] /\ q[3] >= left'["touches"]
    BY <2>2, <2>3
  <2>5. << >> # None
    BY CodexWritesLocal, Constants DEF Typing, FileTyping, RecordTyping, LocalRollouts
  <2>6. QED
    BY <2>1, <2>4, <2>5 DEF Quarantining, Mine
<1>32. CASE quarantine_rename
  <2> DEFINE ls == files[job.thread]["sessions"]
  <2>1. job.kind = "quarantine" /\ job.at = "checked" /\ job.thread \in Thread
    BY <1>32, JobFacts DEF quarantine_rename, At, Typing, QuarantineJobs
  <2>2. /\ job'.kind = "quarantine" /\ job'.at = "moved" /\ job'.thread = job.thread
        /\ said' = said /\ left' = left /\ Put(job.thread, "sessions", None)
        /\ quarantine' = quarantine \cup {Moved(ls)}
    BY <1>32, <2>1, JobFacts, GotoFacts DEF quarantine_rename, Typing
  <2>3. files'[job.thread]["sessions"] = None
    BY <2>1, <2>2, PutFacts DEF Typing, Dirs
  <2>4. Mine(ls) /\ left["touches"] \in Nat /\ \A q \in quarantine : q[3] > left["touches"]
    BY <2>1 DEF Quarantining, Typing, RecordTyping
  <2> HIDE DEF ls
  <2>5. Moved(ls)[1] = job.thread /\ Moved(ls)[2] = ls /\ Moved(ls)[3] = left["touches"]
    BY DEF Moved
  <2>6. \A q \in quarantine : q[3] \in Nat
    BY DEF Typing, FileTyping
  <2>7. \A q \in quarantine' : q[3] >= left["touches"] /\ (q[3] = left["touches"] => q = Moved(ls))
    BY <2>2, <2>4, <2>5, <2>6
  <2>8. QED
    BY <2>2, <2>3, <2>4, <2>5, <2>7 DEF Quarantining, Mine
<1>33. CASE quarantine_recheck
  <2>1. job'.kind # "quarantine" /\ quarantine' \subseteq quarantine /\ left' = left
    BY <1>33 DEF quarantine_recheck, Done, Idle
  <2>2. QED
    BY <2>1 DEF Quarantining
<1>34. CASE Stop
  <2>1. job'.kind # "quarantine" /\ quarantine' = quarantine
    BY <1>34, JobFacts DEF Stop, Done, Idle, At, Typing
  <2>2. left' = left \/ \E x \in {"operations", "touches", "edits", "faults"} : Spend(x)
    BY <1>34 DEF Stop
  <2>3. QED
    BY <2>1, <2>2, NotQuarantining
<1>35. ASSUME NEW id \in OperationIds, delete_backup(id) PROVE Quarantining'
  <2>1. job'.kind # "quarantine" /\ quarantine' = quarantine
    BY <1>35, JobFacts DEF delete_backup, Done, Idle, At, Typing
  <2>2. left' = left \/ \E x \in {"operations", "touches", "edits", "faults"} : Spend(x)
    BY <1>35 DEF delete_backup
  <2>3. QED
    BY <2>1, <2>2, NotQuarantining
<1>36. ASSUME UNCHANGED homevars PROVE UNCHANGED homevars
  BY <1>36 DEF homevars
<1>37. QED
  BY <1>1, <1>2, <1>3, <1>4, <1>5, <1>6, <1>7, <1>8, <1>9, <1>10, <1>11, <1>12, <1>13,
     <1>14, <1>15, <1>16, <1>17, <1>18, <1>19, <1>20, <1>21, <1>22, <1>23, <1>24, <1>25,
     <1>26, <1>27, <1>28, <1>29, <1>30, <1>31, <1>32, <1>33, <1>34, <1>35, <1>36 DEF Next,
         Codex, Import, ProviderSync, Mutate

(***************************************************************************)
(* What conversations say.                                                 *)
(***************************************************************************)

\* A step that leaves the rollouts of a conversation alone, in the home and beside it.
LEMMA HeldKept ==
    ASSUME Work, NEW t \in Thread, files'[t] = files[t], said'[t] = said[t],
           \A o \in displaced \cup quarantine : o[1] = t => o \in displaced' \cup quarantine'
    PROVE  said'[t] # None => Held(t)'
<1>1. (Listed(t)' <=> Listed(t)) /\ Rollout(t)' = Rollout(t)
  BY ScanKept
<1>2. Aside(t, said[t]) => Aside(t, said[t])'
  BY DEF Aside
<1>3. QED
  BY <1>1, <1>2 DEF Work, Held

\* A write of what the conversation says, where the scan finds it.
LEMMA HeldByPut ==
    ASSUME FileTyping, NEW t \in Thread, NEW d \in Dirs, NEW x \in LocalRollouts,
           read_rollout_record(x), Put(t, d, x),
           d = "archived_sessions" => ~ Readable(t, "sessions"), said'[t] = Said(x)
    PROVE  Held(t)'
<1>1. Listed(t)' /\ Rollout(t)' = x
  BY PutReads
<1>2. QED
  BY <1>1 DEF Held

\* No step loses what a conversation says.
LEMMA WorkStep ==
    ASSUME Typing, Journaled, Imported, Work, Moving, Quarantining, [Next]_homevars
    PROVE  Work'
<1>1. CASE UNCHANGED <<files, said, displaced, quarantine>>
  BY <1>1 DEF Work, Held, Aside, Listed, Rollout, Readable, DirOf
<1>2. ASSUME NEW p \in Provider, UserConfigures(p)
      PROVE  UNCHANGED <<files, said, displaced, quarantine>>
  BY <1>2 DEF UserConfigures, Spend
<1>3. ASSUME NEW s \in Snapshots, start_import(s)
      PROVE  UNCHANGED <<files, said, displaced, quarantine>>
  BY <1>3 DEF start_import, Spend
<1>4. ASSUME import_backup PROVE UNCHANGED <<files, said, displaced, quarantine>>
  BY <1>4 DEF import_backup, At, Goto
<1>5. ASSUME import_status("backed_up", "applying")
      PROVE  UNCHANGED <<files, said, displaced, quarantine>>
  BY <1>5 DEF import_status, At, Goto, Record
<1>6. ASSUME import_status("applying", "commit")
      PROVE  UNCHANGED <<files, said, displaced, quarantine>>
  BY <1>6 DEF import_status, At, Goto, Record
<1>7. ASSUME import_commit PROVE UNCHANGED <<files, said, displaced, quarantine>>
  BY <1>7 DEF import_commit, At, Goto
<1>8. ASSUME import_status("validating", "validate")
      PROVE  UNCHANGED <<files, said, displaced, quarantine>>
  BY <1>8 DEF import_status, At, Goto, Record
<1>9. ASSUME import_fails PROVE UNCHANGED <<files, said, displaced, quarantine>>
  BY <1>9 DEF import_fails, Goto, Spend
<1>10. ASSUME import_restore PROVE UNCHANGED <<files, said, displaced, quarantine>>
  BY <1>10 DEF import_restore, At, Record, Done, Spend
<1>11. ASSUME NEW id \in OperationIds, start_recovery(id)
       PROVE  UNCHANGED <<files, said, displaced, quarantine>>
  BY <1>11 DEF start_recovery
<1>12. ASSUME recover_database PROVE UNCHANGED <<files, said, displaced, quarantine>>
  BY <1>12 DEF recover_database, At, Record, Done
<1>13. ASSUME start_provider_sync PROVE UNCHANGED <<files, said, displaced, quarantine>>
  BY <1>13 DEF start_provider_sync, Spend
<1>14. ASSUME update_database_providers
       PROVE  UNCHANGED <<files, said, displaced, quarantine>>
  BY <1>14 DEF update_database_providers, At, Goto
<1>15. ASSUME validate_provider_sync PROVE UNCHANGED <<files, said, displaced, quarantine>>
  BY <1>15 DEF validate_provider_sync, At, Record, Done
<1>16. ASSUME provider_nothing_to_do PROVE UNCHANGED <<files, said, displaced, quarantine>>
  BY <1>16 DEF provider_nothing_to_do, At, Record, Done
<1>17. ASSUME provider_fails PROVE UNCHANGED <<files, said, displaced, quarantine>>
  BY <1>17 DEF provider_fails, Spend, Record, Done
<1>18. ASSUME mutate_row PROVE UNCHANGED <<files, said, displaced, quarantine>>
  BY <1>18 DEF mutate_row, Done
<1>19. ASSUME NEW t \in Thread, start_quarantine(t)
       PROVE  UNCHANGED <<files, said, displaced, quarantine>>
  BY <1>19 DEF start_quarantine, Spend
<1>20. ASSUME Stop PROVE UNCHANGED <<files, said, displaced, quarantine>>
  BY <1>20 DEF Stop, Spend, Done
<1>21. ASSUME NEW id \in OperationIds, delete_backup(id)
       PROVE  UNCHANGED <<files, said, displaced, quarantine>>
  BY <1>21 DEF delete_backup
<1>22. ASSUME NEW t \in Thread, CodexContinues(t) PROVE Work'
  <2> DEFINE ls == Append(Rollout(t), Message)
  <2>1. DirOf(t) \in Dirs /\ ls \in LocalRollouts /\ read_rollout_record(ls)
    BY <1>22, ScanFacts, CodexWritesLocal DEF CodexContinues, Typing, FileTyping, RecordTyping
  <2>2. /\ Put(t, DirOf(t), ls) /\ displaced' = displaced /\ quarantine' = quarantine
        /\ said' = [said EXCEPT ![t] = Said(ls)]
    BY <1>22 DEF CodexContinues, Written
  <2>3. said'[t] = Said(ls)
    BY <2>2 DEF Typing, SaidTyping
  <2>4. DirOf(t) = "archived_sessions" => ~ Readable(t, "sessions")
    BY DEF DirOf
  <2> HIDE DEF ls
  <2>5. Held(t)'
    BY <2>1, <2>2, <2>3, <2>4, HeldByPut DEF Typing
  <2>6. ASSUME NEW u \in Thread, u # t, said'[u] # None PROVE Held(u)'
    <3>1. files'[u] = files[u] /\ said'[u] = said[u]
      BY <1>22, <2>6, <2>1, <2>2, PutFacts DEF Typing, SaidTyping
    <3>2. \A o \in displaced \cup quarantine : o[1] = u => o \in displaced' \cup quarantine'
      BY <1>22, <2>6, <2>1, <2>2 DEF Typing, SaidTyping
    <3>3. QED
      BY <2>6, <3>1, <3>2, HeldKept
  <2>7. QED
    BY <2>5, <2>6 DEF Work
<1>23. ASSUME NEW t \in Thread, CodexOpens(t) PROVE Work'
  <2>1. Put(t, "sessions", << >>) /\ UNCHANGED <<said, displaced, quarantine>> /\ ~ Listed(t)
    BY <1>23 DEF CodexOpens, Listed, Readable
  <2>2. "sessions" \in Dirs /\ << >> \in LocalRollouts
    BY CodexWritesLocal DEF Typing, FileTyping, RecordTyping, Dirs
  <2>3. said'[t] # None => Held(t)'
    BY <2>1 DEF Work, Held, Aside
  <2>4. ASSUME NEW u \in Thread, u # t, said'[u] # None PROVE Held(u)'
    <3>1. files'[u] = files[u] /\ said'[u] = said[u]
      BY <1>23, <2>4, <2>1, <2>2, PutFacts DEF Typing, SaidTyping
    <3>2. \A o \in displaced \cup quarantine : o[1] = u => o \in displaced' \cup quarantine'
      BY <1>23, <2>4, <2>1, <2>2 DEF Typing, SaidTyping
    <3>3. QED
      BY <2>4, <3>1, <3>2, HeldKept
  <2>5. QED
    BY <2>3, <2>4 DEF Work
<1>24. ASSUME NEW t \in Thread, CodexBegins(t) PROVE Work'
  <2> DEFINE ls == <<Meta, Message>>
  <2>1. ls \in LocalRollouts /\ read_rollout_record(ls) /\ "sessions" \in Dirs
    BY CodexWritesLocal DEF Typing, FileTyping, RecordTyping, Dirs
  <2>2. ASSUME Written(t, "sessions", ls) PROVE Work'
    <3>1. /\ Put(t, "sessions", ls) /\ said' = [said EXCEPT ![t] = Said(ls)]
          /\ displaced' = displaced /\ quarantine' = quarantine
      BY <2>2 DEF Written
    <3>2. said'[t] = Said(ls)
      BY <3>1 DEF Typing, SaidTyping
    <3> HIDE DEF ls
    <3>3. Held(t)'
      BY <2>1, <3>1, <3>2, HeldByPut DEF Typing
    <3>4. ASSUME NEW u \in Thread, u # t, said'[u] # None PROVE Held(u)'
      <4>1. files'[u] = files[u] /\ said'[u] = said[u]
        BY <2>1, <3>1, <3>4, PutFacts DEF Typing, SaidTyping
      <4>2. QED
        BY <3>1, <3>4, <4>1, HeldKept
    <3>5. QED
      BY <3>3, <3>4 DEF Work
  <2>3. ASSUME job.thread = t, Moved(<< >>) \in quarantine,
               said' = [said EXCEPT ![t] = Said(ls)], files' = files, displaced' = displaced,
               quarantine' = (quarantine \ {Moved(<< >>)}) \cup {Moved(ls)}
        PROVE  Work'
    <3>1. said'[t] = Said(ls)
      BY <2>3 DEF Typing, SaidTyping
    <3> HIDE DEF ls
    <3>2. Moved(ls)[1] = t /\ Moved(ls)[2] = ls /\ Moved(<< >>)[1] = t
      BY <2>3 DEF Moved
    <3>3. Held(t)'
      BY <2>3, <3>1, <3>2 DEF Held, Aside
    <3>4. ASSUME NEW u \in Thread, u # t, said'[u] # None PROVE Held(u)'
      <4>1. files'[u] = files[u] /\ said'[u] = said[u]
        BY <2>3, <3>4 DEF Typing, SaidTyping
      <4>2. \A o \in displaced \cup quarantine : o[1] = u => o \in displaced' \cup quarantine'
        BY <2>3, <3>2, <3>4
      <4>3. QED
        BY <3>4, <4>1, <4>2, HeldKept
    <3>5. QED
      BY <3>3, <3>4 DEF Work
  <2>4. QED
    BY <1>24, <2>2, <2>3, JobFacts DEF CodexBegins, Typing
<1>25. ASSUME NEW t \in Thread, import_rename(t) PROVE Work'
  <2>1. ~ Listed(t) /\ t \in DOMAIN Plan /\ Plan \in Plans
    BY <1>25, RunningJournal DEF import_rename, At, Imported, Typing, Plan, Journal
  <2>2. Plan[t].dir \in Dirs /\ Materialized(t) \in LocalRollouts
    BY <2>1, PlanFacts, Constants, MaterializedIsLocal DEF Materialized, Typing, FileTyping
  <2>3. Put(t, Plan[t].dir, Materialized(t)) /\ UNCHANGED <<said, displaced, quarantine>>
    BY <1>25 DEF import_rename
  <2>4. said'[t] # None => Held(t)'
    BY <2>1, <2>3 DEF Work, Held, Aside
  <2>5. ASSUME NEW u \in Thread, u # t, said'[u] # None PROVE Held(u)'
    <3>1. files'[u] = files[u] /\ said'[u] = said[u]
      BY <1>25, <2>5, <2>2, <2>3, PutFacts DEF Typing, SaidTyping
    <3>2. \A o \in displaced \cup quarantine : o[1] = u => o \in displaced' \cup quarantine'
      BY <1>25, <2>5, <2>2, <2>3 DEF Typing, SaidTyping
    <3>3. QED
      BY <2>5, <3>1, <3>2, HeldKept
  <2>6. QED
    BY <2>4, <2>5 DEF Work
<1>26. CASE import_complete
  <2>1. /\ UNCHANGED <<files, displaced, quarantine>> /\ ImportIsValid
        /\ said' = [t \in Thread |-> IF t \in DOMAIN Plan THEN Said(Rollout(t)) ELSE said[t]]
    BY <1>26 DEF import_complete
  <2>2. ASSUME NEW t \in Thread, said'[t] # None PROVE Held(t)'
    <3>1. CASE t \in DOMAIN Plan
      <4>1. Listed(t) /\ said'[t] = Said(Rollout(t))
        BY <2>1, <3>1 DEF ImportIsValid
      <4>2. Listed(t)' /\ Rollout(t)' = Rollout(t)
        BY <2>1, <4>1, ScanKept
      <4>3. QED
        BY <4>1, <4>2 DEF Held
    <3>2. CASE t \notin DOMAIN Plan
      BY <2>1, <2>2, <3>2, HeldKept
    <3>3. QED
      BY <3>1, <3>2
  <2>3. QED
    BY <2>2 DEF Work
<1>27. CASE import_rollback
  <2>1. files' = files /\ UNCHANGED <<said, displaced, quarantine>>
    BY <1>27, RemovesNothing, RunningJournal DEF import_rollback, At, Typing
  <2>2. QED
    BY <2>1, HeldKept DEF Work
<1>28. CASE recover_incomplete_operation
  <2>1. files' = files /\ UNCHANGED <<said, displaced, quarantine>>
    BY <1>28, RemovesNothing, RunningJournal DEF recover_incomplete_operation, At, Typing
  <2>2. QED
    BY <2>1, HeldKept DEF Work
<1>29. ASSUME NEW t \in Thread, provider_displace(t) PROVE Work'
  <2>1. Listed(t)
    BY <1>29 DEF provider_displace, At, Moving
  <2>2. DirOf(t) \in Dirs
    BY ScanFacts DEF Typing
  <2>3. /\ Put(t, DirOf(t), None) /\ displaced' = displaced \cup {<<t, Rollout(t)>>}
        /\ quarantine' = quarantine /\ said' = said
    BY <1>29 DEF provider_displace
  <2>4. said[t] # None => Aside(t, said[t])'
    <3>1. <<t, Rollout(t)>> \in displaced'
      BY <2>3
    <3>2. CASE Said(Rollout(t)) = said[t]
      <4>1. PICK o \in displaced' : o = <<t, Rollout(t)>>
        BY <3>1
      <4>2. o[1] = t /\ Said(o[2]) = said'[t]
        BY <2>3, <3>2, <4>1
      <4>3. QED
        BY <4>2 DEF Aside
    <3>3. CASE Aside(t, said[t])
      BY <2>3, <3>3 DEF Aside
    <3>4. QED
      BY <3>2, <3>3 DEF Work, Held
  <2>5. said'[t] # None => Held(t)'
    BY <2>3, <2>4 DEF Held
  <2>6. ASSUME NEW u \in Thread, u # t, said'[u] # None PROVE Held(u)'
    <3>1. files'[u] = files[u] /\ said'[u] = said[u]
      BY <1>29, <2>6, <2>2, <2>3, PutFacts DEF Typing, SaidTyping
    <3>2. \A o \in displaced \cup quarantine : o[1] = u => o \in displaced' \cup quarantine'
      BY <1>29, <2>6, <2>2, <2>3 DEF Typing, SaidTyping
    <3>3. QED
      BY <2>6, <3>1, <3>2, HeldKept
  <2>7. QED
    BY <2>5, <2>6 DEF Work
<1>30. CASE provider_install
  <2>1. job.kind = "provider" /\ job.at = "install" /\ job \in ProviderJobs(job.staged)
    BY <1>30, JobFacts DEF provider_install, At, Typing
  <2>2. /\ job.thread \in Thread /\ job.dir \in Dirs /\ job.thread \in DOMAIN job.staged
        /\ job.staged[job.thread] \in LocalRollouts
        /\ read_rollout_record(job.staged[job.thread])
        /\ job.dir = "archived_sessions" => ~ Readable(job.thread, "sessions")
    BY <2>1, JobFacts DEF Moving, StagedFor, Typing, ProviderJobs
  <2>3. /\ Put(job.thread, job.dir, job.staged[job.thread])
        /\ UNCHANGED <<said, displaced, quarantine>>
    BY <1>30 DEF provider_install
  <2>5. ASSUME NEW u \in Thread, u # job.thread, said'[u] # None PROVE Held(u)'
    <3>1. files'[u] = files[u] /\ said'[u] = said[u]
      BY <1>30, <2>5, <2>2, <2>3, PutFacts DEF Typing, SaidTyping
    <3>2. \A o \in displaced \cup quarantine : o[1] = u => o \in displaced' \cup quarantine'
      BY <1>30, <2>5, <2>2, <2>3 DEF Typing, SaidTyping
    <3>3. QED
      BY <2>5, <3>1, <3>2, HeldKept
  <2>6. \A u \in Thread : said'[u] # None => Held(u)'
    <3>1. ASSUME NEW u \in Thread, u = job.thread, said'[u] # None PROVE Held(u)'
      BY <2>1, <2>3, <3>1 DEF Moving, Held, Aside
    <3>2. QED
      BY <2>5, <3>1
  <2>7. QED
    BY <2>6 DEF Work
<1>31. CASE provider_install_fails
  <2>1. job.kind = "provider" /\ job.at = "install" /\ job \in ProviderJobs(job.staged)
    BY <1>31, JobFacts DEF provider_install_fails, At, Typing
  <2>2. /\ job.thread \in Thread /\ job.dir \in Dirs /\ job.thread \in DOMAIN job.staged
        /\ job.staged[job.thread] \in LocalRollouts
        /\ read_rollout_record(job.staged[job.thread])
        /\ job.dir = "archived_sessions" => ~ Readable(job.thread, "sessions")
    BY <2>1, JobFacts DEF Moving, StagedFor, Typing, ProviderJobs
  <2>3. said' = said /\ quarantine' = quarantine
    BY <1>31 DEF provider_install_fails
  <2>4. OldFile \in displaced /\ OldFile[1] = job.thread /\ OldFile[2] \in LocalRollouts
        /\ read_rollout_record(OldFile[2])
    BY <2>1, OldFileFacts DEF Moving, Old, Typing, FileTyping
  <2>5. CASE UNCHANGED <<files, displaced>>
    BY <2>3, <2>5, HeldKept DEF Work
  <2>6. ASSUME Put(job.thread, job.dir, OldFile[2]), displaced' = displaced \ {OldFile}
        PROVE  Work'
    <3>1. ASSUME NEW u \in Thread, u = job.thread, said'[u] # None PROVE Held(u)'
      <4>1. Aside(u, said[u])
        BY <2>1, <2>3, <3>1 DEF Moving
      <4>2. CASE Said(OldFile[2]) = said[u]
        BY <2>2, <2>3, <2>4, <2>6, <3>1, <4>2, HeldByPut DEF Typing
      <4>3. CASE Said(OldFile[2]) # said[u]
        BY <2>3, <2>6, <4>1, <4>3 DEF Held, Aside
      <4>4. QED
        BY <4>2, <4>3
    <3>2. ASSUME NEW u \in Thread, u # job.thread, said'[u] # None PROVE Held(u)'
      <4>1. files'[u] = files[u]
        BY <2>2, <2>4, <2>6, <3>2, PutFacts DEF Typing
      <4>2. \A o \in displaced \cup quarantine : o[1] = u => o \in displaced' \cup quarantine'
        BY <2>3, <2>4, <2>6, <3>2
      <4>3. QED
        BY <2>3, <3>2, <4>1, <4>2, HeldKept
    <3>3. QED
      BY <3>1, <3>2 DEF Work
  <2>7. QED
    BY <1>31, <2>5, <2>6 DEF provider_install_fails
<1>32. CASE provider_remove
  <2>1. job.kind = "provider" /\ job.at = "remove" /\ job \in ProviderJobs(job.staged)
    BY <1>32, JobFacts DEF provider_remove, At, Typing
  <2>2. /\ job.thread \in Thread /\ job.dir \in Dirs /\ job.thread \in DOMAIN job.staged
        /\ job.staged[job.thread] \in LocalRollouts
        /\ read_rollout_record(job.staged[job.thread])
        /\ job.dir = "archived_sessions" => ~ Readable(job.thread, "sessions")
    BY <2>1, JobFacts DEF Moving, StagedFor, Typing, ProviderJobs
  <2>3. UNCHANGED <<files, said, quarantine>> /\ displaced' = displaced \ {OldFile}
    BY <1>32 DEF provider_remove
  <2>4. /\ OldFile \in displaced /\ OldFile[1] = job.thread
        /\ Said(OldFile[2]) = Said(job.staged[job.thread])
    BY <2>1, OldFileFacts DEF Moving, Old
  <2>5. Listed(job.thread) /\ Rollout(job.thread) = job.staged[job.thread]
    <3>1. files[job.thread][job.dir] = job.staged[job.thread]
      BY <2>1 DEF Moving
    <3>2. Readable(job.thread, job.dir)
      BY <2>2, <3>1, Constants DEF Readable, LocalRollouts
    <3>3. DirOf(job.thread) = job.dir
      BY <2>2, <3>2 DEF DirOf, Dirs
    <3>4. QED
      BY <2>2, <3>1, <3>2, <3>3 DEF Listed, Rollout
  <2>6. ASSUME NEW u \in Thread, said'[u] # None PROVE Held(u)'
    <3>1. (Listed(u)' <=> Listed(u)) /\ Rollout(u)' = Rollout(u)
      BY <2>3, ScanKept
    <3>2. CASE Listed(u) /\ Said(Rollout(u)) = said[u]
      BY <2>3, <3>1, <3>2 DEF Held
    <3>3. CASE ~ (Listed(u) /\ Said(Rollout(u)) = said[u])
      <4>1. PICK o \in displaced \cup quarantine : o[1] = u /\ Said(o[2]) = said[u]
        BY <2>3, <2>6, <3>3 DEF Work, Held, Aside
      <4>2. o # OldFile
        BY <2>4, <2>5, <3>3, <4>1
      <4>3. QED
        BY <2>3, <4>1, <4>2 DEF Held, Aside
    <3>4. QED
      BY <3>2, <3>3
  <2>7. QED
    BY <2>6 DEF Work
<1>33. ASSUME NEW t \in Thread, NEW a \in {"archive", "restore", "delete"}, mutate_local_thread(t, a)
       PROVE  Work'
  <2>1. /\ DirOf(t) \in Dirs /\ Other(DirOf(t)) \in Dirs /\ Other(DirOf(t)) # DirOf(t)
        /\ Rollout(t) \in LocalRollouts /\ read_rollout_record(Rollout(t))
    BY <1>33, ScanFacts, OtherFacts DEF mutate_local_thread, Typing, Dirs
  <2>2. /\ displaced' = displaced /\ quarantine' = quarantine
        /\ said' = [said EXCEPT ![t] = IF a = "delete" THEN None ELSE said[t]]
    BY <1>33 DEF mutate_local_thread
  <2>3. said'[t] = (IF a = "delete" THEN None ELSE said[t])
        /\ \A u \in Thread : u # t => said'[u] = said[u] /\ files'[u] = files[u]
    BY <1>33, <2>2 DEF mutate_local_thread, Typing, SaidTyping, FileTyping
  <2>4. ASSUME said'[t] # None PROVE Held(t)'
    <3>1. a # "delete" /\ said'[t] = said[t]
      BY <2>3, <2>4
    <3>2. files'[t][DirOf(t)] = None /\ files'[t][Other(DirOf(t))] = Rollout(t)
      BY <1>33, <2>1, <3>1 DEF mutate_local_thread, Typing, FileTyping
    <3>3. PICK d \in Dirs : d = DirOf(t)
      BY <2>1
    <3>4. PICK e \in Dirs : e = Other(DirOf(t))
      BY <2>1
    <3>5. files'[t][d] = None /\ files'[t][e] = Rollout(t) /\ d # e
      BY <2>1, <3>2, <3>3, <3>4
    <3>6. PICK x \in LocalRollouts : x = Rollout(t)
      BY <2>1
    <3>7. Readable(t, e)' /\ ~ Readable(t, d)'
      BY <2>1, <3>5, <3>6, Constants DEF Readable, LocalRollouts
    <3>8. DirOf(t)' = e
      BY <3>5, <3>7 DEF DirOf, Dirs
    <3>9. Listed(t)' /\ Rollout(t)' = x
      BY <3>5, <3>6, <3>7, <3>8 DEF Listed, Rollout
    <3>10. CASE Said(x) = said[t]
      BY <3>1, <3>9, <3>10 DEF Held
    <3>11. CASE Aside(t, said[t])
      BY <2>2, <3>1, <3>11 DEF Held, Aside
    <3>12. QED
      BY <2>4, <3>1, <3>6, <3>10, <3>11 DEF Work, Held
  <2>5. ASSUME NEW u \in Thread, u # t, said'[u] # None PROVE Held(u)'
    BY <2>2, <2>3, <2>5, HeldKept
  <2>6. QED
    BY <2>4, <2>5 DEF Work
<1>34. CASE quarantine_rename
  <2>1. job.kind = "quarantine" /\ job.at = "checked" /\ job.thread \in Thread
    BY <1>34, JobFacts DEF quarantine_rename, At, Typing, QuarantineJobs
  <2>2. /\ said' = said /\ displaced' = displaced /\ Put(job.thread, "sessions", None)
        /\ quarantine' = quarantine \cup {Moved(files[job.thread]["sessions"])}
    BY <1>34 DEF quarantine_rename
  <2>3. ASSUME NEW u \in Thread, u = job.thread, said'[u] # None PROVE Held(u)'
    <3>1. CASE Aside(u, said[u])
      BY <2>2, <3>1 DEF Held, Aside
    <3>2. CASE Readable(u, "sessions") /\ Said(files[u]["sessions"]) = said[u]
      <4>1. /\ Moved(files[u]["sessions"])[1] = u
            /\ Moved(files[u]["sessions"])[2] = files[u]["sessions"]
        BY <2>3 DEF Moved
      <4>2. Moved(files[u]["sessions"]) \in quarantine'
        BY <2>2, <2>3
      <4>3. QED
        BY <2>2, <3>2, <4>1, <4>2 DEF Held, Aside
    <3>3. CASE /\ ~ Readable(u, "sessions") /\ Readable(u, "archived_sessions")
               /\ Said(files[u]["archived_sessions"]) = said[u]
      <4>1. /\ files'[u]["sessions"] = None
            /\ files'[u]["archived_sessions"] = files[u]["archived_sessions"]
        BY <2>1, <2>2, <2>3, PutFacts DEF Typing, Dirs
      <4>2. ~ Readable(u, "sessions")' /\ Readable(u, "archived_sessions")'
        BY <3>3, <4>1 DEF Readable
      <4>3. Listed(u)' /\ Rollout(u)' = files[u]["archived_sessions"]
        BY <4>1, <4>2 DEF Listed, Rollout, DirOf, Dirs
      <4>4. QED
        BY <2>2, <3>3, <4>3 DEF Held
    <3>4. QED
      BY <2>2, <2>3, <3>1, <3>2, <3>3 DEF Work, Held, Listed, Rollout, DirOf, Dirs
  <2>4. ASSUME NEW u \in Thread, u # job.thread, said'[u] # None PROVE Held(u)'
    <3>1. files'[u] = files[u] /\ said'[u] = said[u]
      BY <1>34, <2>4, <2>1, <2>2, PutFacts DEF Typing, Dirs
    <3>2. \A o \in displaced \cup quarantine : o[1] = u => o \in displaced' \cup quarantine'
      BY <1>34, <2>4, <2>1, <2>2 DEF Typing, Dirs
    <3>3. QED
      BY <2>4, <3>1, <3>2, HeldKept
  <2>5. QED
    BY <2>3, <2>4 DEF Work
<1>35. CASE quarantine_recheck
  <2>1. job.kind = "quarantine" /\ job.at = "moved" /\ job.thread \in Thread
    BY <1>35, JobFacts DEF quarantine_recheck, At, Typing, QuarantineJobs
  <2> DEFINE moved == {q \in quarantine : q = Moved(q[2]) /\ q[2] # << >>}
  <2>2. /\ said' = said /\ displaced' = displaced /\ quarantine' = quarantine \ moved
        /\ (moved = {} /\ files' = files) \/ \E q \in moved : Put(job.thread, "sessions", q[2])
    BY <1>35 DEF quarantine_recheck
  <2>3. \A q \in moved :
            /\ q \in quarantine /\ q[1] = job.thread /\ q[2] \in LocalRollouts
            /\ read_rollout_record(q[2]) /\ Said(q[2]) = said[job.thread]
    <3>1. ASSUME NEW q \in moved
          PROVE  q \in quarantine /\ q[1] = job.thread /\ q[3] = left["touches"] /\ q[2] # << >>
      BY DEF Moved
    <3> HIDE DEF moved
    <3>2. QED
      BY <2>1, <3>1 DEF Quarantining, Mine, Typing, FileTyping
  <2> HIDE DEF moved
  <2>4. CASE moved = {} /\ files' = files
    BY <2>2, <2>4, HeldKept DEF Work
  <2>5. ASSUME NEW q \in moved, Put(job.thread, "sessions", q[2]) PROVE Work'
    <3>1. q[2] \in LocalRollouts /\ read_rollout_record(q[2]) /\ Said(q[2]) = said[job.thread]
      BY <2>3
    <3>2. ASSUME NEW u \in Thread, u = job.thread PROVE Held(u)'
      BY <2>2, <2>5, <3>1, <3>2, HeldByPut DEF Typing, Dirs
    <3>3. ASSUME NEW u \in Thread, u # job.thread, said'[u] # None PROVE Held(u)'
      <4>1. files'[u] = files[u]
        BY <2>1, <2>5, <3>1, <3>3, PutFacts DEF Typing, Dirs
      <4>2. \A o \in displaced \cup quarantine : o[1] = u => o \in displaced' \cup quarantine'
        BY <2>2, <2>3, <3>3
      <4>3. QED
        BY <2>2, <3>3, <4>1, <4>2, HeldKept
    <3>4. QED
      BY <3>2, <3>3 DEF Work
  <2>6. QED
    BY <2>2, <2>4, <2>5
<1>36. ASSUME UNCHANGED homevars PROVE UNCHANGED <<files, said, displaced, quarantine>>
  BY <1>36 DEF homevars
<1>37. QED
  BY <1>1, <1>2, <1>3, <1>4, <1>5, <1>6, <1>7, <1>8, <1>9, <1>10, <1>11, <1>12, <1>13,
     <1>14, <1>15, <1>16, <1>17, <1>18, <1>19, <1>20, <1>21, <1>22, <1>23, <1>24, <1>25,
     <1>26, <1>27, <1>28, <1>29, <1>30, <1>31, <1>32, <1>33, <1>34, <1>35, <1>36 DEF Next,
         Codex, Import, ProviderSync, Mutate

(***************************************************************************)
(* Replacing rollouts.                                                     *)
(***************************************************************************)

\* Every step keeps what is known of a provider synchronization that runs.
LEMMA MovingStep ==
    ASSUME Typing, Work, Moving, [Next]_homevars
    PROVE  Moving'
<1>1. CASE UNCHANGED homevars
  BY <1>1 DEF homevars, Moving, StagedFor, Old, Aside, Listed, Rollout, Readable, DirOf
<1>2. ASSUME NEW t \in Thread, CodexContinues(t) PROVE Moving'
  <2>1. /\ ~ (job'.kind = "provider" /\ job'.at \in {"displace", "install", "remove"})
        /\ displaced' \subseteq displaced
    BY <1>2, JobFacts DEF CodexContinues, Done, Idle, At, Typing, Written
  <2>2. QED
    BY <2>1 DEF Moving
<1>3. ASSUME NEW t \in Thread, CodexOpens(t) PROVE Moving'
  <2>1. /\ ~ (job'.kind = "provider" /\ job'.at \in {"displace", "install", "remove"})
        /\ displaced' \subseteq displaced
    BY <1>3, JobFacts DEF CodexOpens, Done, Idle, At, Typing
  <2>2. QED
    BY <2>1 DEF Moving
<1>4. ASSUME NEW t \in Thread, CodexBegins(t) PROVE Moving'
  <2>1. /\ ~ (job'.kind = "provider" /\ job'.at \in {"displace", "install", "remove"})
        /\ displaced' \subseteq displaced
    BY <1>4, JobFacts DEF CodexBegins, Done, Idle, At, Typing, Written
  <2>2. QED
    BY <2>1 DEF Moving
<1>5. ASSUME NEW p \in Provider, UserConfigures(p) PROVE Moving'
  <2>1. /\ ~ (job'.kind = "provider" /\ job'.at \in {"displace", "install", "remove"})
        /\ displaced' \subseteq displaced
    BY <1>5, JobFacts DEF UserConfigures, Done, Idle, At, Typing
  <2>2. QED
    BY <2>1 DEF Moving
<1>6. ASSUME NEW s \in Snapshots, start_import(s) PROVE Moving'
  <2>1. /\ ~ (job'.kind = "provider" /\ job'.at \in {"displace", "install", "remove"})
        /\ displaced' \subseteq displaced
    BY <1>6, JobFacts DEF start_import, Done, Idle, At, Typing
  <2>2. QED
    BY <2>1 DEF Moving
<1>7. CASE import_backup
  <2>1. /\ ~ (job'.kind = "provider" /\ job'.at \in {"displace", "install", "remove"})
        /\ displaced' \subseteq displaced
    BY <1>7, JobFacts, GotoFacts DEF import_backup, Done, Idle, At, Typing, ImportSteps, ProviderSteps
  <2>2. QED
    BY <2>1 DEF Moving
<1>8. CASE import_status("backed_up", "applying")
  <2>1. /\ ~ (job'.kind = "provider" /\ job'.at \in {"displace", "install", "remove"})
        /\ displaced' \subseteq displaced
    BY <1>8, JobFacts, GotoFacts DEF import_status, Done, Idle, At, Typing, ImportSteps, ProviderSteps
  <2>2. QED
    BY <2>1 DEF Moving
<1>9. CASE import_status("applying", "commit")
  <2>1. /\ ~ (job'.kind = "provider" /\ job'.at \in {"displace", "install", "remove"})
        /\ displaced' \subseteq displaced
    BY <1>9, JobFacts, GotoFacts DEF import_status, Done, Idle, At, Typing, ImportSteps, ProviderSteps
  <2>2. QED
    BY <2>1 DEF Moving
<1>10. CASE import_commit
  <2>1. /\ ~ (job'.kind = "provider" /\ job'.at \in {"displace", "install", "remove"})
        /\ displaced' \subseteq displaced
    BY <1>10, JobFacts, GotoFacts DEF import_commit, Done, Idle, At, Typing, ImportSteps, ProviderSteps
  <2>2. QED
    BY <2>1 DEF Moving
<1>11. ASSUME NEW t \in Thread, import_rename(t) PROVE Moving'
  <2>1. /\ ~ (job'.kind = "provider" /\ job'.at \in {"displace", "install", "remove"})
        /\ displaced' \subseteq displaced
    BY <1>11, JobFacts DEF import_rename, Done, Idle, At, Typing, ImportJobs
  <2>2. QED
    BY <2>1 DEF Moving
<1>12. CASE import_status("validating", "validate")
  <2>1. /\ ~ (job'.kind = "provider" /\ job'.at \in {"displace", "install", "remove"})
        /\ displaced' \subseteq displaced
    BY <1>12, JobFacts, GotoFacts DEF import_status, Done, Idle, At, Typing, ImportSteps, ProviderSteps
  <2>2. QED
    BY <2>1 DEF Moving
<1>13. CASE import_complete
  <2>1. /\ ~ (job'.kind = "provider" /\ job'.at \in {"displace", "install", "remove"})
        /\ displaced' \subseteq displaced
    BY <1>13, JobFacts DEF import_complete, Done, Idle, At, Typing
  <2>2. QED
    BY <2>1 DEF Moving
<1>14. CASE import_fails
  <2>1. /\ ~ (job'.kind = "provider" /\ job'.at \in {"displace", "install", "remove"})
        /\ displaced' \subseteq displaced
    BY <1>14, JobFacts, GotoFacts DEF import_fails, Done, Idle, At, Typing, ImportSteps, ProviderSteps
  <2>2. QED
    BY <2>1 DEF Moving
<1>15. CASE import_rollback
  <2>1. /\ ~ (job'.kind = "provider" /\ job'.at \in {"displace", "install", "remove"})
        /\ displaced' \subseteq displaced
    BY <1>15, JobFacts, GotoFacts DEF import_rollback, Done, Idle, At, Typing, ImportSteps, ProviderSteps
  <2>2. QED
    BY <2>1 DEF Moving
<1>16. CASE import_restore
  <2>1. /\ ~ (job'.kind = "provider" /\ job'.at \in {"displace", "install", "remove"})
        /\ displaced' \subseteq displaced
    BY <1>16, JobFacts DEF import_restore, Done, Idle, At, Typing
  <2>2. QED
    BY <2>1 DEF Moving
<1>17. ASSUME NEW id \in OperationIds, start_recovery(id) PROVE Moving'
  <2>1. /\ ~ (job'.kind = "provider" /\ job'.at \in {"displace", "install", "remove"})
        /\ displaced' \subseteq displaced
    BY <1>17, JobFacts DEF start_recovery, Done, Idle, At, Typing
  <2>2. QED
    BY <2>1 DEF Moving
<1>18. CASE recover_incomplete_operation
  <2>1. /\ ~ (job'.kind = "provider" /\ job'.at \in {"displace", "install", "remove"})
        /\ displaced' \subseteq displaced
    BY <1>18, JobFacts, GotoFacts DEF recover_incomplete_operation, Done, Idle, At, Typing, ImportSteps, ProviderSteps
  <2>2. QED
    BY <2>1 DEF Moving
<1>19. CASE recover_database
  <2>1. /\ ~ (job'.kind = "provider" /\ job'.at \in {"displace", "install", "remove"})
        /\ displaced' \subseteq displaced
    BY <1>19, JobFacts DEF recover_database, Done, Idle, At, Typing
  <2>2. QED
    BY <2>1 DEF Moving
<1>20. CASE start_provider_sync
  <2> DEFINE staged == [t \in Mismatched |-> transform_rollout_file(Rollout(t), config)]
  <2>1. /\ DOMAIN staged = Mismatched /\ displaced' = displaced /\ files' = files
        /\ \/ job' = Idle
           \/ \E x \in {"displace", "databases", "complete"} : job' = ProviderJob(x, staged)
    BY <1>20 DEF start_provider_sync
  <2>2. \A t \in Mismatched : /\ Listed(t)' /\ Said(staged[t]) = Said(Rollout(t)')
                              /\ read_rollout_record(staged[t])
    <3>1. ASSUME NEW t \in Mismatched
          PROVE  Listed(t)' /\ Said(staged[t]) = Said(Rollout(t)') /\ read_rollout_record(staged[t])
      <4>1. /\ Listed(t) /\ Said(staged[t]) = Said(Rollout(t)) /\ read_rollout_record(staged[t])
        BY StagedFacts DEF Typing
      <4>2. Listed(t)' /\ Rollout(t)' = Rollout(t)
        BY <2>1, <4>1, ScanKept
      <4>3. QED
        BY <4>1, <4>2
    <3>2. QED
      BY <3>1
  <2> HIDE DEF staged
  <2>3. CASE job' = Idle
    BY <2>1, <2>3 DEF Moving, Idle
  <2>4. ASSUME NEW x \in {"displace", "databases", "complete"}, job' = ProviderJob(x, staged)
        PROVE  Moving'
    <3>1. job'.at = x /\ job'.todo = Mismatched /\ job'.staged = staged
      BY <2>1, <2>4 DEF ProviderJob
    <3>2. QED
      BY <2>1, <2>2, <3>1 DEF Moving, StagedFor
  <2>5. QED
    BY <2>1, <2>3, <2>4
<1>21. ASSUME NEW t \in Thread, provider_displace(t) PROVE Moving'
  <2>1. job.kind = "provider" /\ job.at = "displace" /\ job \in ProviderJobs(job.staged)
    BY <1>21, JobFacts DEF provider_displace, At, Typing
  <2>2. /\ t \in job.todo /\ displaced' = displaced \cup {<<t, Rollout(t)>>}
        /\ Put(t, DirOf(t), None) /\ quarantine' = quarantine /\ said' = said
    BY <1>21 DEF provider_displace
  <2>3. /\ job'.kind = "provider" /\ job'.at = "install" /\ job'.thread = t /\ job'.dir = DirOf(t)
        /\ job'.todo = job.todo /\ job'.staged = job.staged /\ job.todo \subseteq Thread
    BY <1>21, <2>1 DEF provider_displace, ProviderJobs
  <2>4. Listed(t) /\ StagedFor(t) /\ Said(job.staged[t]) = Said(Rollout(t))
    BY <2>1, <2>2 DEF Moving
  <2>5. DirOf(t) \in Dirs /\ read_rollout_record(Rollout(t))
    BY <2>4, ScanFacts DEF Typing
  <2>6. PICK o \in displaced' : o = <<t, Rollout(t)>>
    BY <2>2
  <2>7. o[1] = t /\ o[2] = Rollout(t)
    BY <2>6
  <2>8. \A p \in displaced' : read_rollout_record(p[2])
    BY <2>2, <2>5, <2>6, <2>7 DEF Moving
  <2>9. \A u \in job.todo :
            /\ StagedFor(u)'
            /\ u # t => Listed(u)' /\ Said(job.staged[u]) = Said(Rollout(u)')
    <3>1. \A u \in Thread : u # t => files'[u] = files[u]
      BY <2>2, <2>5, PutFacts DEF Typing
    <3>2. \A u \in Thread : u # t => (Listed(u)' <=> Listed(u)) /\ Rollout(u)' = Rollout(u)
      BY <3>1, ScanKept
    <3>3. QED
      BY <2>1, <2>3, <3>2 DEF Moving, StagedFor
  <2>10. DirOf(t) = "archived_sessions" => ~ Readable(t, "sessions")'
    <3>1. DirOf(t) = "archived_sessions" => files'[t]["sessions"] = files[t]["sessions"]
      BY <2>2, <2>5, PutFacts DEF Typing, Dirs
    <3>2. QED
      BY <3>1 DEF DirOf, Readable
  <2>11. said[t] # None => Aside(t, said[t])'
    <3>1. CASE Said(Rollout(t)) = said[t]
      BY <2>2, <2>7, <3>1 DEF Aside
    <3>2. CASE Aside(t, said[t])
      BY <2>2, <3>2 DEF Aside
    <3>3. QED
      BY <3>1, <3>2 DEF Work, Held
  <2>12. Old(o)'
    BY <2>3, <2>4, <2>7 DEF Old
  <2>13. \A u \in job'.todo :
            /\ StagedFor(u)'
            /\ job'.at = "displace" \/ u # job'.thread =>
                 Listed(u)' /\ Said(job'.staged[u]) = Said(Rollout(u)')
    BY <2>3, <2>9
  <2>14. job'.thread \in job'.todo /\ job'.dir \in Dirs /\ \E p \in displaced' : Old(p)'
    BY <2>2, <2>3, <2>5, <2>12
  <2>15. (job.dir = "archived_sessions" => ~ Readable(job.thread, "sessions"))'
    BY <2>3, <2>10 DEF Readable
  <2>16. (said[job.thread] # None => Aside(job.thread, said[job.thread]))'
    BY <2>2, <2>3, <2>11 DEF Aside
  <2>17. QED
    BY <2>3, <2>8, <2>13, <2>14, <2>15, <2>16 DEF Moving
<1>22. CASE provider_install
  <2>1. job.kind = "provider" /\ job.at = "install" /\ job \in ProviderJobs(job.staged)
    BY <1>22, JobFacts DEF provider_install, At, Typing
  <2>2. /\ job.thread \in Thread /\ job.dir \in Dirs /\ job.thread \in DOMAIN job.staged
        /\ job.staged[job.thread] \in LocalRollouts
        /\ read_rollout_record(job.staged[job.thread])
        /\ job.todo \subseteq Thread
        /\ job.dir = "archived_sessions" => ~ Readable(job.thread, "sessions")
    BY <2>1, JobFacts DEF Moving, StagedFor, Typing, ProviderJobs
  <2>3. /\ Put(job.thread, job.dir, job.staged[job.thread]) /\ displaced' = displaced
    BY <1>22 DEF provider_install
  <2>4. /\ job'.kind = "provider" /\ job'.at = "remove" /\ job'.thread = job.thread
        /\ job'.dir = job.dir /\ job'.todo = job.todo /\ job'.staged = job.staged
    BY <1>22, <2>1, GotoFacts DEF provider_install, ProviderSteps
  <2>5. /\ files'[job.thread][job.dir] = job.staged[job.thread]
        /\ \A u \in Thread : u # job.thread => files'[u] = files[u]
        /\ job.dir = "archived_sessions" => files'[job.thread]["sessions"] = files[job.thread]["sessions"]
    BY <2>2, <2>3, PutFacts DEF Typing, Dirs
  <2>6. \A u \in job.todo :
            /\ StagedFor(u)'
            /\ u # job.thread => Listed(u)' /\ Said(job.staged[u]) = Said(Rollout(u)')
    <3>1. \A u \in Thread : u # job.thread => (Listed(u)' <=> Listed(u)) /\ Rollout(u)' = Rollout(u)
      BY <2>5, ScanKept
    <3>2. QED
      BY <2>1, <2>2, <2>4, <3>1 DEF Moving, StagedFor
  <2>7. job.dir = "archived_sessions" => ~ Readable(job.thread, "sessions")'
    BY <2>2, <2>4, <2>5 DEF Readable
  <2>8. /\ job.thread \in job.todo /\ \E o \in displaced : Old(o)
        /\ \A o \in displaced : read_rollout_record(o[2])
    BY <2>1 DEF Moving
  <2>9. \E o \in displaced' : Old(o)'
    BY <2>3, <2>4, <2>8 DEF Old
  <2>10. \A u \in job'.todo :
            /\ StagedFor(u)'
            /\ job'.at = "displace" \/ u # job'.thread =>
                 Listed(u)' /\ Said(job'.staged[u]) = Said(Rollout(u)')
    BY <2>4, <2>6
  <2>11. job'.thread \in job'.todo /\ job'.dir \in Dirs /\ \E p \in displaced' : Old(p)'
    BY <2>2, <2>4, <2>8, <2>9
  <2>12. (job.dir = "archived_sessions" => ~ Readable(job.thread, "sessions"))'
    BY <2>4, <2>7 DEF Readable
  <2>13. files'[job'.thread][job'.dir] = job'.staged[job'.thread]
    BY <2>4, <2>5
  <2>14. QED
    BY <2>3, <2>4, <2>8, <2>10, <2>11, <2>12, <2>13 DEF Moving
<1>23. CASE provider_install_fails
  <2>1. /\ ~ (job'.kind = "provider" /\ job'.at \in {"displace", "install", "remove"})
        /\ displaced' \subseteq displaced
    BY <1>23, JobFacts DEF provider_install_fails, Done, Idle, At, Typing
  <2>2. QED
    BY <2>1 DEF Moving
<1>24. CASE provider_remove
  <2>1. job.kind = "provider" /\ job.at = "remove" /\ job \in ProviderJobs(job.staged)
    BY <1>24, JobFacts DEF provider_remove, At, Typing
  <2>2. files' = files /\ displaced' \subseteq displaced
    BY <1>24 DEF provider_remove
  <2>3. /\ job'.kind = "provider" /\ job'.at \in {"databases", "displace"}
        /\ job'.todo = job.todo \ {job.thread} /\ job'.staged = job.staged /\ job.todo \subseteq Thread
    BY <1>24, <2>1 DEF provider_remove, ProviderJobs
  <2>4. \A u \in Thread : (Listed(u)' <=> Listed(u)) /\ Rollout(u)' = Rollout(u)
    BY <2>2, ScanKept
  <2>5. \A u \in job'.todo : StagedFor(u)' /\ Listed(u)' /\ Said(job'.staged[u]) = Said(Rollout(u)')
    BY <2>1, <2>3, <2>4 DEF Moving, StagedFor
  <2>6. QED
    BY <2>2, <2>3, <2>5 DEF Moving
<1>25. CASE update_database_providers
  <2>1. /\ ~ (job'.kind = "provider" /\ job'.at \in {"displace", "install", "remove"})
        /\ displaced' \subseteq displaced
    BY <1>25, JobFacts, GotoFacts DEF update_database_providers, Done, Idle, At, Typing, ImportSteps, ProviderSteps
  <2>2. QED
    BY <2>1 DEF Moving
<1>26. CASE validate_provider_sync
  <2>1. /\ ~ (job'.kind = "provider" /\ job'.at \in {"displace", "install", "remove"})
        /\ displaced' \subseteq displaced
    BY <1>26, JobFacts DEF validate_provider_sync, Done, Idle, At, Typing
  <2>2. QED
    BY <2>1 DEF Moving
<1>27. CASE provider_nothing_to_do
  <2>1. /\ ~ (job'.kind = "provider" /\ job'.at \in {"displace", "install", "remove"})
        /\ displaced' \subseteq displaced
    BY <1>27, JobFacts DEF provider_nothing_to_do, Done, Idle, At, Typing
  <2>2. QED
    BY <2>1 DEF Moving
<1>28. CASE provider_fails
  <2>1. /\ ~ (job'.kind = "provider" /\ job'.at \in {"displace", "install", "remove"})
        /\ displaced' \subseteq displaced
    BY <1>28, JobFacts DEF provider_fails, Done, Idle, At, Typing
  <2>2. QED
    BY <2>1 DEF Moving
<1>29. ASSUME NEW t \in Thread, NEW a \in {"archive", "restore", "delete"}, mutate_local_thread(t, a)
       PROVE  Moving'
  <2>1. /\ ~ (job'.kind = "provider" /\ job'.at \in {"displace", "install", "remove"})
        /\ displaced' \subseteq displaced
    BY <1>29, JobFacts DEF mutate_local_thread, Done, Idle, At, Typing
  <2>2. QED
    BY <2>1 DEF Moving
<1>30. CASE mutate_row
  <2>1. /\ ~ (job'.kind = "provider" /\ job'.at \in {"displace", "install", "remove"})
        /\ displaced' \subseteq displaced
    BY <1>30, JobFacts DEF mutate_row, Done, Idle, At, Typing
  <2>2. QED
    BY <2>1 DEF Moving
<1>31. ASSUME NEW t \in Thread, start_quarantine(t) PROVE Moving'
  <2>1. /\ ~ (job'.kind = "provider" /\ job'.at \in {"displace", "install", "remove"})
        /\ displaced' \subseteq displaced
    BY <1>31, JobFacts DEF start_quarantine, Done, Idle, At, Typing
  <2>2. QED
    BY <2>1 DEF Moving
<1>32. CASE quarantine_rename
  <2>1. /\ ~ (job'.kind = "provider" /\ job'.at \in {"displace", "install", "remove"})
        /\ displaced' \subseteq displaced
    BY <1>32, JobFacts, GotoFacts DEF quarantine_rename, Done, Idle, At, Typing
  <2>2. QED
    BY <2>1 DEF Moving
<1>33. CASE quarantine_recheck
  <2>1. /\ ~ (job'.kind = "provider" /\ job'.at \in {"displace", "install", "remove"})
        /\ displaced' \subseteq displaced
    BY <1>33, JobFacts DEF quarantine_recheck, Done, Idle, At, Typing
  <2>2. QED
    BY <2>1 DEF Moving
<1>34. CASE Stop
  <2>1. /\ ~ (job'.kind = "provider" /\ job'.at \in {"displace", "install", "remove"})
        /\ displaced' \subseteq displaced
    BY <1>34, JobFacts DEF Stop, Done, Idle, At, Typing
  <2>2. QED
    BY <2>1 DEF Moving
<1>35. ASSUME NEW id \in OperationIds, delete_backup(id) PROVE Moving'
  <2>1. /\ ~ (job'.kind = "provider" /\ job'.at \in {"displace", "install", "remove"})
        /\ displaced' \subseteq displaced
    BY <1>35, JobFacts DEF delete_backup, Done, Idle, At, Typing
  <2>2. QED
    BY <2>1 DEF Moving
<1>36. ASSUME UNCHANGED homevars PROVE UNCHANGED homevars
  BY <1>36 DEF homevars
<1>37. QED
  BY <1>1, <1>2, <1>3, <1>4, <1>5, <1>6, <1>7, <1>8, <1>9, <1>10, <1>11, <1>12, <1>13,
     <1>14, <1>15, <1>16, <1>17, <1>18, <1>19, <1>20, <1>21, <1>22, <1>23, <1>24, <1>25,
     <1>26, <1>27, <1>28, <1>29, <1>30, <1>31, <1>32, <1>33, <1>34, <1>35, <1>36 DEF Next,
         Codex, Import, ProviderSync, Mutate

(***************************************************************************)
(* The invariant and what follows from it.                                 *)
(***************************************************************************)

\* A home as Codex leaves it.
LEMMA HomeInit == ASSUME Init PROVE HomeInv
<1>1. PICK h \in Homes :
         LET kept == h.rollouts IN
         /\ config = h.config
         /\ files = [t \in Thread |-> [d \in Dirs |->
                       IF t \in DOMAIN kept /\ d = "sessions" THEN kept[t] ELSE None]]
         /\ rows = [t \in Thread |-> IF t \in DOMAIN kept
                                     THEN [archived |-> FALSE, prov |-> kept[t][1].prov] ELSE None]
         /\ said = [t \in Thread |-> IF t \in DOMAIN kept THEN Said(kept[t]) ELSE None]
  BY DEF Init
<1>2. /\ displaced = {} /\ quarantine = {} /\ job = Idle
      /\ backups = [id \in OperationIds |-> None] /\ journals = [id \in OperationIds |-> None]
      /\ left = [operations |-> MaxOperations, touches |-> MaxTouches,
                 edits |-> MaxEdits, faults |-> MaxFaults]
  BY DEF Init
<1> DEFINE kept == h.rollouts
<1>3. /\ config \in Provider
      /\ \A t \in DOMAIN kept : /\ kept[t] \in LocalRollouts /\ read_rollout_record(kept[t])
                                /\ kept[t] # None /\ kept[t][1].prov \in Provider \cup {ProviderToken}
  <2>1. \A t \in DOMAIN kept : /\ kept[t] \in Rollouts /\ read_rollout_record(kept[t])
                               /\ kept[t][1].cwd \in Workspace
    BY HomeAssumption DEF Rollouts
  <2>2. \A t \in DOMAIN kept : 1 \in DOMAIN kept[t] /\ kept[t][1] \in Line
    BY <2>1 DEF Rollouts, read_rollout_record
  <2>3. \A t \in DOMAIN kept : kept[t][1].prov \in Provider \cup {ProviderToken}
    BY <2>2 DEF Line
  <2>4. QED
    BY <1>1, <2>1, <2>3, HomeAssumption, Constants DEF LocalRollouts
<1>4. /\ files = [t \in Thread |-> [d \in Dirs |->
                    IF t \in DOMAIN kept /\ d = "sessions" THEN kept[t] ELSE None]]
      /\ rows = [t \in Thread |-> IF t \in DOMAIN kept
                                  THEN [archived |-> FALSE, prov |-> kept[t][1].prov] ELSE None]
      /\ said = [t \in Thread |-> IF t \in DOMAIN kept THEN Said(kept[t]) ELSE None]
  BY <1>1
<1> HIDE DEF kept
<1>5. FileTyping
  BY <1>2, <1>3, <1>4 DEF FileTyping
<1>6. JobTyping /\ SaidTyping
  BY <1>2, <1>4 DEF JobTyping, SaidTyping
<1>7. RecordTyping
  <2>1. \A t \in DOMAIN kept : [archived |-> FALSE, prov |-> kept[t][1].prov] \in Row
    BY <1>3 DEF Row
  <2>2. rows \in Rows
    BY <1>4, <2>1 DEF Rows
  <2>3. left \in [operations : 0..MaxOperations, touches : Nat, edits : Nat, faults : Nat]
    BY <1>2, Constants
  <2>4. QED
    BY <1>2, <2>2, <2>3 DEF RecordTyping
<1>8. Journaled /\ RecoveryHasItsBackup /\ Imported
  BY <1>2 DEF Journaled, Numbered, Running, RecoveryHasItsBackup, Unfinished, Imported, Idle
<1>9. Work
  <2>1. ASSUME NEW t \in Thread, said[t] # None PROVE Held(t)
    <3>1. t \in DOMAIN kept /\ said[t] = Said(kept[t]) /\ files[t]["sessions"] = kept[t]
      BY <1>4, <2>1 DEF Dirs
    <3>2. Readable(t, "sessions")
      BY <1>3, <3>1 DEF Readable
    <3>3. QED
      BY <3>1, <3>2 DEF Held, Listed, Rollout, DirOf, Dirs
  <2>2. QED
    BY <2>1 DEF Work
<1>10. Moving /\ Quarantining
  BY <1>2 DEF Moving, Quarantining, Idle
<1>11. QED
  BY <1>5, <1>6, <1>7, <1>8, <1>9, <1>10 DEF HomeInv, Typing

\* Every step keeps the invariant.
LEMMA HomeStep == ASSUME HomeInv, [Next]_homevars PROVE HomeInv'
<1>1. /\ Typing /\ Journaled /\ RecoveryHasItsBackup /\ Imported
      /\ Work /\ Moving /\ Quarantining
  BY DEF HomeInv
<1>2. RecordTyping'
  BY <1>1, RowsStep, BackupsStep, JournalsStep, LeftStep DEF RecordTyping
<1>3. Typing'
  BY <1>1, <1>2, FileTypingStep, JobTypingStep, SaidTypingStep DEF Typing
<1>4. Journaled' /\ RecoveryHasItsBackup'
  BY <1>1, JournaledStep
<1>5. Imported'
  BY <1>1, ImportedStep
<1>6. Work'
  BY <1>1, WorkStep
<1>7. Moving'
  BY <1>1, MovingStep
<1>8. Quarantining'
  BY <1>1, QuarantiningStep
<1>9. QED
  BY <1>3, <1>4, <1>5, <1>6, <1>7, <1>8 DEF HomeInv

\* The inductive invariant of the operations on a home (codex.rs, local.rs,
\* provider_sync.rs), whatever fails or is interrupted.
THEOREM HomeInvariant == Spec => []HomeInv
  BY HomeInit, HomeStep, PTL DEF Spec

\* What a conversation says survives every import, recovery, provider synchronization,
\* archiving, quarantining, failure and crash: it is in a session directory, in an .old
\* file or in the quarantine (replace_with_staged, mutate_local_thread and
\* quarantine_empty_rollout).
THEOREM WorkSurvives == Spec => []WorkIsKept
<1>1. ASSUME HomeInv PROVE WorkIsKept
  <2>1. ASSUME NEW t \in Thread, said[t] # None
        PROVE  \/ \E d \in Dirs : files[t][d] # None /\ Said(files[t][d]) = said[t]
               \/ \E o \in displaced \cup quarantine : o[1] = t /\ Said(o[2]) = said[t]
    <3>1. Held(t) /\ FileTyping
      BY <1>1, <2>1 DEF HomeInv, Work, Typing
    <3>2. CASE Aside(t, said[t])
      BY <3>2 DEF Aside
    <3>3. CASE Listed(t) /\ Said(Rollout(t)) = said[t]
      BY <3>1, <3>3, ScanFacts DEF Rollout
    <3>4. QED
      BY <3>1, <3>2, <3>3 DEF Held
  <2>2. QED
    BY <2>1 DEF WorkIsKept
<1>2. QED
  BY <1>1, HomeInvariant, PTL

\* The backup of an import that reached it is there until the import is finished or
\* taken back (recover_incomplete_operation needs it, discover_local_backups offers the
\* others for deletion).
THEOREM BackupsOutliveImports == Spec => []RecoveryHasItsBackup
<1>1. HomeInv => RecoveryHasItsBackup
  BY DEF HomeInv
<1>2. QED
  BY <1>1, HomeInvariant, PTL

\* No operation brings a rollout into a home whose normal form names the machine
\* (normalize_rollout_reader after materialize_rollout_reader and transform_rollout_file).
THEOREM HomesForgetTheMachine == Spec => []NormalFormForgetsTheMachine
<1>1. ASSUME HomeInv PROVE NormalFormForgetsTheMachine
  <2>1. \A t \in Thread, d \in Dirs : files[t][d] # None => files[t][d] \in Rollouts
    BY <1>1 DEF HomeInv, Typing, FileTyping, LocalRollouts
  <2>2. QED
    BY <2>1, RolloutsForgetTheMachine DEF NormalFormForgetsTheMachine
<1>2. QED
  BY <1>1, HomeInvariant, PTL

\* A journal that is not written in a step is not completed by it.
LEMMA NotCompleted ==
    ASSUME NEW id, Unfinished(id), journals'[id].status = "completed", journals'[id] = journals[id]
    PROVE  FALSE
  BY DEF Unfinished, Terminal

\* The step completes the import, but not without the conversations it planned.
Completes(id) == Unfinished(id) /\ journals'[id].status = "completed"
Arrived(id) ==
    \A t \in DOMAIN journals[id].plan :
        /\ Listed(t)' /\ rows'[t] # None
        /\ normalize_rollout(Rollout(t))' = journals[id].plan[t].lines

\* Only import_complete completes an import.
LEMMA CompletionStep ==
    ASSUME Typing, Journaled, Imported, NEW i \in OperationIds, Completes(i), [Next]_homevars
    PROVE  Arrived(i)
<1>1. CASE UNCHANGED journals
  BY <1>1, NotCompleted DEF Completes
<1>2. ASSUME NEW t \in Thread, CodexContinues(t) PROVE UNCHANGED journals
  BY <1>2 DEF CodexContinues, Written, Put, Spend
<1>3. ASSUME NEW t \in Thread, CodexOpens(t) PROVE UNCHANGED journals
  BY <1>3 DEF CodexOpens, Put, Spend
<1>4. ASSUME NEW t \in Thread, CodexBegins(t) PROVE UNCHANGED journals
  BY <1>4 DEF CodexBegins, Written, Put, Moved, Spend
<1>5. ASSUME NEW p \in Provider, UserConfigures(p) PROVE UNCHANGED journals
  BY <1>5 DEF UserConfigures, Spend
<1>6. ASSUME import_backup PROVE UNCHANGED journals
  BY <1>6 DEF import_backup, At, Goto
<1>7. ASSUME import_commit PROVE UNCHANGED journals
  BY <1>7 DEF import_commit, At, Goto
<1>8. ASSUME NEW t \in Thread, import_rename(t) PROVE UNCHANGED journals
  BY <1>8 DEF import_rename, At, Put
<1>9. ASSUME import_fails PROVE UNCHANGED journals
  BY <1>9 DEF import_fails, Goto, Spend
<1>10. ASSUME import_rollback PROVE UNCHANGED journals
  BY <1>10 DEF import_rollback, At, Goto, remove_targets
<1>11. ASSUME NEW id \in OperationIds, start_recovery(id) PROVE UNCHANGED journals
  BY <1>11 DEF start_recovery
<1>12. ASSUME NEW t \in Thread, provider_displace(t) PROVE UNCHANGED journals
  BY <1>12 DEF provider_displace, At, Put
<1>13. ASSUME provider_install PROVE UNCHANGED journals
  BY <1>13 DEF provider_install, At, Goto, Put
<1>14. ASSUME provider_remove PROVE UNCHANGED journals
  BY <1>14 DEF provider_remove, At
<1>15. ASSUME update_database_providers PROVE UNCHANGED journals
  BY <1>15 DEF update_database_providers, At, Goto
<1>16. ASSUME NEW t \in Thread, NEW a \in {"archive", "restore", "delete"}, mutate_local_thread(t, a)
       PROVE  UNCHANGED journals
  BY <1>16 DEF mutate_local_thread, Spend
<1>17. ASSUME mutate_row PROVE UNCHANGED journals
  BY <1>17 DEF mutate_row, Done
<1>18. ASSUME NEW t \in Thread, start_quarantine(t) PROVE UNCHANGED journals
  BY <1>18 DEF start_quarantine, Spend
<1>19. ASSUME quarantine_rename PROVE UNCHANGED journals
  BY <1>19 DEF quarantine_rename, At, Put, Goto, Moved
<1>20. ASSUME quarantine_recheck PROVE UNCHANGED journals
  BY <1>20 DEF quarantine_recheck, At, Put, Done, Moved
<1>21. ASSUME Stop PROVE UNCHANGED journals
  BY <1>21 DEF Stop, Spend, Done
<1>22. ASSUME NEW id \in OperationIds, delete_backup(id) PROVE UNCHANGED journals
  BY <1>22 DEF delete_backup
<1>23. ASSUME NEW s \in Snapshots, start_import(s) PROVE Arrived(i)
  <2>1. NextId \in OperationIds /\ NextId \in Nat
    BY <1>23, NextIdFacts DEF start_import, Spend, Typing
  <2>2. journals[NextId] = None
    BY <2>1 DEF Journaled, Numbered
  <2>3. i # NextId => journals'[i] = journals[i]
    BY <1>23, <2>1 DEF start_import, Typing, RecordTyping
  <2>4. QED
    BY <2>2, <2>3, NotCompleted DEF Completes, Unfinished
<1>24. CASE import_status("backed_up", "applying")
  <2>1. job.id \in OperationIds /\ journals[job.id] \in Journal
    BY <1>24, RunningJournal DEF import_status, At, Typing
  <2>2. journals'[i] = journals[i] \/ (i = job.id /\ journals'[i].status # "completed")
    BY <1>24, <2>1, RecordFacts DEF import_status, Typing, Statuses
  <2>3. QED
    BY <2>2, NotCompleted DEF Completes
<1>25. CASE import_status("applying", "commit")
  <2>1. job.id \in OperationIds /\ journals[job.id] \in Journal
    BY <1>25, RunningJournal DEF import_status, At, Typing
  <2>2. journals'[i] = journals[i] \/ (i = job.id /\ journals'[i].status # "completed")
    BY <1>25, <2>1, RecordFacts DEF import_status, Typing, Statuses
  <2>3. QED
    BY <2>2, NotCompleted DEF Completes
<1>26. CASE import_status("validating", "validate")
  <2>1. job.id \in OperationIds /\ journals[job.id] \in Journal
    BY <1>26, RunningJournal DEF import_status, At, Typing
  <2>2. journals'[i] = journals[i] \/ (i = job.id /\ journals'[i].status # "completed")
    BY <1>26, <2>1, RecordFacts DEF import_status, Typing, Statuses
  <2>3. QED
    BY <2>2, NotCompleted DEF Completes
<1>27. CASE import_complete
  <2>1. job.id \in OperationIds /\ journals[job.id] \in Journal
    BY <1>27, RunningJournal DEF import_complete, At, Typing
  <2>2. i # job.id => journals'[i] = journals[i]
    BY <1>27, <2>1, RecordFacts DEF import_complete, Typing, Statuses
  <2>3. i = job.id
    BY <2>2, NotCompleted DEF Completes
  <2>4. /\ ImportIsValid /\ files' = files /\ rows' = rows
        /\ job.kind = "import" /\ job.at = "validate"
    BY <1>27 DEF import_complete, At
  <2>5. ASSUME NEW t \in DOMAIN journals[i].plan
        PROVE  /\ Listed(t)' /\ rows'[t] # None
               /\ normalize_rollout(Rollout(t))' = journals[i].plan[t].lines
    <3>1. t \in DOMAIN Plan /\ Plan = journals[i].plan
      BY <2>3, <2>5 DEF Plan
    <3>2. Listed(t) /\ normalize_rollout(Rollout(t)) = Plan[t].lines /\ rows[t] # None
      BY <2>4, <3>1 DEF ImportIsValid, Imported
    <3>3. Listed(t)' /\ Rollout(t)' = Rollout(t)
      BY <2>4, <3>2, ScanKept
    <3>4. QED
      BY <2>4, <3>1, <3>2, <3>3
  <2>6. QED
    BY <2>5 DEF Arrived
<1>28. CASE import_restore
  <2>1. job.id \in OperationIds /\ journals[job.id] \in Journal
    BY <1>28, RunningJournal DEF import_restore, At, Typing
  <2>2. journals'[i] = journals[i] \/ (i = job.id /\ journals'[i].status # "completed")
    BY <1>28, <2>1, RecordFacts DEF import_restore, Typing, Statuses
  <2>3. QED
    BY <2>2, NotCompleted DEF Completes
<1>29. CASE recover_incomplete_operation
  <2>1. job.id \in OperationIds /\ journals[job.id] \in Journal
    BY <1>29, RunningJournal DEF recover_incomplete_operation, At, Typing
  <2>2. journals'[i] = journals[i] \/ (i = job.id /\ journals'[i].status # "completed")
    BY <1>29, <2>1, RecordFacts DEF recover_incomplete_operation, Typing, Statuses
  <2>3. QED
    BY <2>2, NotCompleted DEF Completes
<1>30. CASE recover_database
  <2>1. job.id \in OperationIds /\ journals[job.id] \in Journal
    BY <1>30, RunningJournal DEF recover_database, At, Typing
  <2>2. journals'[i] = journals[i] \/ (i = job.id /\ journals'[i].status # "completed")
    BY <1>30, <2>1, RecordFacts DEF recover_database, Typing, Statuses
  <2>3. QED
    BY <2>2, NotCompleted DEF Completes
<1>31. CASE start_provider_sync
  <2>1. NextId \in OperationIds /\ NextId \in Nat
    BY <1>31, NextIdFacts DEF start_provider_sync, Spend, Typing
  <2>2. journals[NextId] = None
    BY <2>1 DEF Journaled, Numbered
  <2>3. i # NextId => journals'[i] = journals[i]
    BY <1>31, <2>1 DEF start_provider_sync, Typing, RecordTyping
  <2>4. QED
    BY <2>2, <2>3, NotCompleted DEF Completes, Unfinished
<1>32. CASE provider_install_fails
  <2>1. job.kind = "provider" /\ job.id \in OperationIds /\ journals[job.id] \in Journal
    BY <1>32, RunningJournal DEF provider_install_fails, At, Typing
  <2>2. journals'[i] = journals[i] \/ (i = job.id /\ journals[i].kind = "provider")
    BY <1>32, <2>1, RecordFacts DEF provider_install_fails, Typing, Statuses, Journaled, Running
  <2>3. QED
    BY <2>2, NotCompleted DEF Completes, Unfinished
<1>33. CASE validate_provider_sync
  <2>1. job.kind = "provider" /\ job.id \in OperationIds /\ journals[job.id] \in Journal
    BY <1>33, RunningJournal DEF validate_provider_sync, At, Typing
  <2>2. journals'[i] = journals[i] \/ (i = job.id /\ journals[i].kind = "provider")
    BY <1>33, <2>1, RecordFacts DEF validate_provider_sync, Typing, Statuses, Journaled, Running
  <2>3. QED
    BY <2>2, NotCompleted DEF Completes, Unfinished
<1>34. CASE provider_nothing_to_do
  <2>1. job.kind = "provider" /\ job.id \in OperationIds /\ journals[job.id] \in Journal
    BY <1>34, RunningJournal DEF provider_nothing_to_do, At, Typing
  <2>2. journals'[i] = journals[i] \/ (i = job.id /\ journals[i].kind = "provider")
    BY <1>34, <2>1, RecordFacts DEF provider_nothing_to_do, Typing, Statuses, Journaled, Running
  <2>3. QED
    BY <2>2, NotCompleted DEF Completes, Unfinished
<1>35. CASE provider_fails
  <2>1. job.kind = "provider" /\ job.id \in OperationIds /\ journals[job.id] \in Journal
    BY <1>35, RunningJournal DEF provider_fails, At, Typing
  <2>2. journals'[i] = journals[i] \/ (i = job.id /\ journals[i].kind = "provider")
    BY <1>35, <2>1, RecordFacts DEF provider_fails, Typing, Statuses, Journaled, Running
  <2>3. QED
    BY <2>2, NotCompleted DEF Completes, Unfinished
<1>36. ASSUME UNCHANGED homevars PROVE UNCHANGED journals
  BY <1>36 DEF homevars
<1>37. QED
  BY <1>1, <1>2, <1>3, <1>4, <1>5, <1>6, <1>7, <1>8, <1>9, <1>10, <1>11, <1>12, <1>13,
     <1>14, <1>15, <1>16, <1>17, <1>18, <1>19, <1>20, <1>21, <1>22, <1>23, <1>24, <1>25,
     <1>26, <1>27, <1>28, <1>29, <1>30, <1>31, <1>32, <1>33, <1>34, <1>35, <1>36 DEF Next,
         Codex, Import, ProviderSync, Mutate

\* An import is journaled as completed only with every conversation it planned in the
\* home, in its table and in its stored form (apply_import's validation against what is
\* done between it and the journal).
THEOREM CompletedImportsArrived == Spec => CompletedMeansImported
<1>1. ASSUME HomeInv, [Next]_homevars
      PROVE  [\A id \in OperationIds :
                (Unfinished(id) /\ journals'[id].status = "completed") =>
                  \A t \in DOMAIN journals[id].plan :
                    /\ Listed(t)' /\ rows'[t] # None
                    /\ normalize_rollout(Rollout(t))' = journals[id].plan[t].lines]_homevars
  BY <1>1, CompletionStep DEF HomeInv, Completes, Arrived
<1>2. QED
  BY <1>1, HomeInvariant, PTL DEF Spec, CompletedMeansImported
=============================================================================
