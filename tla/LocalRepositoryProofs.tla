------------------------ MODULE LocalRepositoryProofs ------------------------
(***************************************************************************)
(* Proofs about the local repository, for any number of conversations,     *)
(* processes, versions, snapshots, trash directories, treasures and        *)
(* faults.  What depends on it is stated for CollectsUnrecovered = FALSE:  *)
(* a purge that was interrupted is recovered before the next collection.   *)
(***************************************************************************)
EXTENDS LocalRepository, TLAPS, WellFoundedInduction

(***************************************************************************)
(* Types of the files.                                                     *)
(***************************************************************************)
FileTyping ==
    /\ home \in [Threads -> Version]
    /\ objects \subseteq Object
    /\ index \in [Threads -> IndexEntry \cup {None}]
    /\ journal \in PurgeJournal \cup {None}
    /\ vault \in [TreasureIds -> Contents \cup {None}]
    /\ trash \in [TrashIds -> TrashDir \cup {None}]
RootTyping ==
    /\ DOMAIN roots \subseteq SnapshotIds
    /\ \A s \in DOMAIN roots : roots[s] \in Contents
    /\ listed \subseteq DOMAIN roots
    /\ \A o \in TrashIds : trash[o] # None => trash[o].snap \in DOMAIN roots
    /\ \A s \in DOMAIN roots, r \in SnapshotIds : r < s => r \in DOMAIN roots

(***************************************************************************)
(* Jobs and their leases.                                                  *)
(***************************************************************************)
SnapshotJobs ==
    [kind : {"snapshot"}, lease : {"shared"},
     at : {"thread", "read", "install", "build", "root"}, selected : SUBSET Threads,
     todo : SUBSET Threads, fingerprint : Contents, contents : Contents,
     base : [Threads -> Version]]
ReadJobs == [kind : {"read"}, lease : {"shared"}, at : {"read"}, snap : SnapshotIds]
DownloadJobs == [kind : {"download"}, lease : {"shared"}, at : {"thread", "build", "root"}]
TrashJobs == [kind : {"trash"}, lease : {"exclusive"}, at : {"entry", "manifest"},
              dir : TrashIds]
RestoreJobs == [kind : {"restore"}, lease : {"exclusive"}, at : {"entry"}, dir : TrashIds]
GcJobs(todo) == [kind : {"gc"}, lease : {"exclusive"}, at : {"move"}, todo : {todo}]
PurgeJobs(ops) ==
    [kind : {"purge"}, lease : {"exclusive"},
     at : {"recover", "plan", "stage", "rollback", "finish"},
     goal : {"plan", "execute", "fail"}, ops : {ops}]
ImportJobs == [kind : {"import"}, lease : {"exclusive"}, at : {"objects", "root"},
               treasure : TreasureIds]

JobOK(j) ==
    \/ j \in {Idle} \cup SnapshotJobs \cup ReadJobs \cup DownloadJobs \cup TrashJobs
             \cup RestoreJobs \cup ImportJobs
    \/ j.kind = "gc" /\ j \in GcJobs(j.todo)
    \/ j.kind = "purge" /\ j \in PurgeJobs(j.ops)
JobTyping == job = [p \in Procs |-> job[p]] /\ \A p \in Procs : JobOK(job[p])
Typing == FileTyping /\ RootTyping /\ JobTyping

Leases == \A p, q \in Procs : p # q /\ Holds(p, "exclusive") => job[q].lease = "none"

(***************************************************************************)
(* An unfinished purge, and the jobs that meet it.                         *)
(***************************************************************************)
Revocable == {"Preparing", "EntriesStaged"}
PurgeOK(j) ==
    /\ j.kind = "purge" /\ j.at = "plan" => journal = None
    /\ j.kind = "purge" /\ j.at = "stage" =>
         /\ journal # None /\ journal.status \in Revocable
         /\ \A o \in journal.ops : trash[o] # None
    /\ j.kind = "purge" /\ j.at = "rollback" => journal # None /\ journal.status \in Revocable
    /\ j.kind = "purge" /\ j.at = "finish" => journal # None /\ journal.status \notin Revocable
StagedByPurge ==
    \A o \in TrashIds : trash[o] # None /\ trash[o].staged => journal # None /\ o \in journal.ops
Purging == StagedByPurge /\ \A p \in Procs : PurgeOK(job[p])

(***************************************************************************)
(* A snapshot on its way to the trash and back.                            *)
(***************************************************************************)
TrashOK(j) ==
    /\ j.kind = "trash" =>
         /\ trash[j.dir] # None /\ ~ trash[j.dir].staged /\ ~ trash[j.dir].manifest
         /\ trash[j.dir].snap \in listed /\ trash[j.dir].snap \notin pinned
         /\ j.at = "manifest" => trash[j.dir].entry
    /\ j.kind = "restore" =>
         trash[j.dir] # None /\ ~ trash[j.dir].staged /\ ~ trash[j.dir].manifest
    /\ j.kind = "read" => j.snap \in listed
Trashing == \A p \in Procs : TrashOK(job[p])
\* entry.json is written before the manifest comes and removed after it left.
Entered == \A o \in TrashIds : trash[o] # None /\ trash[o].manifest => trash[o].entry

(***************************************************************************)
(* What a job that writes a snapshot has stored and read so far.           *)
(***************************************************************************)
Stored(f) == collect_snapshot_graph_objects(f) \subseteq objects
Ingested(j) ==
    /\ DOMAIN j.fingerprint = Threads \ j.todo
    /\ j.at \in {"build", "root"} => j.todo = {}
    /\ IF j.at = "read"
       THEN \E t \in DOMAIN j.fingerprint : DOMAIN j.contents = DOMAIN j.fingerprint \ {t}
       ELSE DOMAIN j.contents = DOMAIN j.fingerprint
    /\ j.at # "install" =>
         \A t \in DOMAIN j.contents : content_objects_present(t, j.contents[t])
    /\ j.at = "root" => Stored(Restrict(j.contents, j.selected))
BuildOK(j) ==
    /\ j.kind = "snapshot" => Ingested(j)
    /\ j.kind = "download" /\ j.at \in {"build", "root"} => ThreadGraph(Remote) \subseteq objects
    /\ j.kind = "download" /\ j.at = "root" => Overlay(Remote) \in objects
    /\ j.kind = "import" => vault[j.treasure] # None
    /\ j.kind = "import" /\ j.at = "root" => Stored(vault[j.treasure])
Building == \A p \in Procs : BuildOK(job[p])

ReadOK(j) ==
    j.kind = "snapshot" =>
      /\ \A t \in DOMAIN j.fingerprint : j.base[t] <= j.fingerprint[t] /\ j.fingerprint[t] <= home[t]
      /\ \A t \in DOMAIN j.contents \cap DOMAIN j.fingerprint :
           j.fingerprint[t] <= j.contents[t] /\ j.contents[t] <= home[t]
      /\ \A t \in Threads : j.base[t] <= home[t]
IndexTimely ==
    \A t \in Threads : index[t] # None =>
      index[t].fingerprint <= index[t].content /\ index[t].content <= home[t]
Timely == IndexTimely /\ \A p \in Procs : ReadOK(job[p])

RepositoryInv ==
    Typing /\ Leases /\ Purging /\ Trashing /\ Entered /\ Building /\ Timely

\* With an interrupted purge recovered before a collection.
Collecting == \A p \in Procs : job[p].kind = "gc" => journal = None
StorageInv == Collecting /\ StoredSnapshotsComplete
-----------------------------------------------------------------------------
(***************************************************************************)
(* Contents, and the functions that hold them.                             *)
(***************************************************************************)
LEMMA Constants ==
    /\ MaxVersion \in Nat /\ MaxSnapshots \in Nat /\ MaxTrash \in Nat /\ MaxTreasures \in Nat
    /\ Version \subseteq Nat /\ SnapshotIds \subseteq Nat /\ TrashIds \subseteq Nat
    /\ 0 \in Version /\ MaxVersion \in Version /\ \A v \in Version : v <= MaxVersion
    /\ \A v \in Nat : v <= MaxVersion => v \in Version
    /\ None \notin Contents /\ None \notin IndexEntry /\ None \notin TrashDir
    /\ None \notin PurgeJournal
  BY RepositoryAssumption DEF Version, SnapshotIds, TrashIds

LEMMA ContentsFacts ==
    ASSUME NEW f
    PROVE  f \in Contents <=> /\ DOMAIN f \subseteq Threads
                              /\ f \in [DOMAIN f -> Version]
  BY DEF Contents

LEMMA ContentsValue ==
    ASSUME NEW f \in Contents
    PROVE  DOMAIN f \subseteq Threads /\ \A t \in DOMAIN f : f[t] \in Version
  BY ContentsFacts

LEMMA ExtendFacts ==
    ASSUME NEW f, NEW t, NEW v
    PROVE  /\ DOMAIN Extend(f, t, v) = DOMAIN f \cup {t}
           /\ Extend(f, t, v)[t] = v
           /\ \A x \in DOMAIN f : x # t => Extend(f, t, v)[x] = f[x]
  BY DEF Extend

LEMMA ExtendContents ==
    ASSUME NEW f \in Contents, NEW t \in Threads, NEW v \in Version
    PROVE  Extend(f, t, v) \in Contents
<1>1. DOMAIN f \subseteq Threads /\ \A x \in DOMAIN f : f[x] \in Version
  BY ContentsValue
<1>2. Extend(f, t, v) \in [DOMAIN f \cup {t} -> Version]
  BY <1>1 DEF Extend
<1>3. DOMAIN f \cup {t} \in SUBSET Threads
  BY <1>1
<1>4. QED
  BY <1>2, <1>3 DEF Contents

LEMMA EmptyContents == <<>> \in Contents /\ DOMAIN <<>> = {}
<1>1. <<>> \in [{} -> Version] /\ DOMAIN <<>> = {}
  OBVIOUS
<1>2. {} \in SUBSET Threads
  OBVIOUS
<1>3. QED
  BY <1>1, <1>2 DEF Contents

LEMMA RestrictFacts ==
    ASSUME NEW f \in Contents, NEW S, S \subseteq DOMAIN f
    PROVE  /\ Restrict(f, S) \in Contents /\ DOMAIN Restrict(f, S) = S
           /\ \A t \in S : Restrict(f, S)[t] = f[t]
<1>1. DOMAIN f \subseteq Threads /\ \A x \in DOMAIN f : f[x] \in Version
  BY ContentsValue
<1>2. Restrict(f, S) \in [S -> Version] /\ DOMAIN Restrict(f, S) = S
      /\ \A t \in S : Restrict(f, S)[t] = f[t]
  BY <1>1 DEF Restrict
<1>3. S \in SUBSET Threads
  BY <1>1
<1>4. QED
  BY <1>2, <1>3 DEF Contents

LEMMA RemoteContents == Remote \in Contents /\ DOMAIN Remote = Threads
<1>1. Remote \in [Threads -> Version] /\ DOMAIN Remote = Threads
  BY Constants DEF Remote
<1>2. Threads \in SUBSET Threads
  OBVIOUS
<1>3. QED
  BY <1>1, <1>2 DEF Contents

(***************************************************************************)
(* The graph of a snapshot, and what deletion may not touch.               *)
(***************************************************************************)
LEMMA ContentObjects ==
    ASSUME NEW t \in Threads, NEW v \in Version
    PROVE  content_objects(t, v) \cup {Descriptor(t, v)} \subseteq Object
<1>1. 0..v \subseteq Version
  BY Constants
<1>2. QED
  BY <1>1 DEF content_objects, Chunks, ChunkManifest, Descriptor, Object

LEMMA GraphObjects ==
    ASSUME NEW f \in Contents
    PROVE  /\ ThreadGraph(f) \subseteq Object
           /\ Overlay(f) \in Object /\ RevisionRoot(f) \in Object
           /\ collect_snapshot_graph_objects(f) \subseteq Object
<1>1. \A t \in DOMAIN f : t \in Threads /\ f[t] \in Version
  BY ContentsValue
<1>2. ThreadGraph(f) \subseteq Object
  <2>1. \A t \in DOMAIN f : content_objects(t, f[t]) \cup {Descriptor(t, f[t])} \subseteq Object
    BY <1>1, ContentObjects
  <2>2. QED
    BY <2>1 DEF ThreadGraph
<1>3. Overlay(f) \in Object /\ RevisionRoot(f) \in Object
  BY DEF Overlay, RevisionRoot, Object
<1>4. QED
  BY <1>2, <1>3 DEF collect_snapshot_graph_objects

LEMMA GraphStored ==
    ASSUME NEW f, NEW os
    PROVE  collect_snapshot_graph_objects(f) \subseteq os <=>
             /\ \A t \in DOMAIN f :
                  content_objects(t, f[t]) \subseteq os /\ Descriptor(t, f[t]) \in os
             /\ Overlay(f) \in os
<1>1. ThreadGraph(f) \subseteq os <=>
        \A t \in DOMAIN f : content_objects(t, f[t]) \subseteq os /\ Descriptor(t, f[t]) \in os
  BY DEF ThreadGraph
<1>2. collect_snapshot_graph_objects(f) \subseteq os <=> ThreadGraph(f) \subseteq os /\ Overlay(f) \in os
  BY DEF collect_snapshot_graph_objects
<1>3. QED
  BY <1>1, <1>2

LEMMA ReachableFacts ==
    /\ \A s \in listed : collect_snapshot_graph_objects(roots[s]) \subseteq collect_reachable_objects({})
    /\ \A o \in InTrash :
         collect_snapshot_graph_objects(roots[trash[o].snap]) \subseteq collect_reachable_objects({})
  BY DEF collect_reachable_objects

(***************************************************************************)
(* What the kind of a job says of it.                                      *)
(***************************************************************************)
LEMMA JobShapes ==
    ASSUME JobTyping, NEW p \in Procs
    PROVE  /\ job[p].kind = "idle" => job[p] = Idle
           /\ job[p].kind = "snapshot" => job[p] \in SnapshotJobs
           /\ job[p].kind = "read" => job[p] \in ReadJobs
           /\ job[p].kind = "download" => job[p] \in DownloadJobs
           /\ job[p].kind = "trash" => job[p] \in TrashJobs
           /\ job[p].kind = "restore" => job[p] \in RestoreJobs
           /\ job[p].kind = "import" => job[p] \in ImportJobs
           /\ job[p].kind = "gc" => job[p] \in GcJobs(job[p].todo)
           /\ job[p].kind = "purge" => job[p] \in PurgeJobs(job[p].ops)
<1>1. JobOK(job[p])
  BY DEF JobTyping
<1>2. CASE job[p] \in {Idle}
  BY <1>2 DEF Idle
<1>3. CASE job[p] \in SnapshotJobs
  BY <1>3 DEF SnapshotJobs
<1>4. CASE job[p] \in ReadJobs
  BY <1>4 DEF ReadJobs
<1>5. CASE job[p] \in DownloadJobs
  BY <1>5 DEF DownloadJobs
<1>6. CASE job[p] \in TrashJobs
  BY <1>6 DEF TrashJobs
<1>7. CASE job[p] \in RestoreJobs
  BY <1>7 DEF RestoreJobs
<1>8. CASE job[p] \in ImportJobs
  BY <1>8 DEF ImportJobs
<1>9. CASE job[p].kind = "gc" /\ job[p] \in GcJobs(job[p].todo)
  BY <1>9
<1>10. CASE job[p].kind = "purge" /\ job[p] \in PurgeJobs(job[p].ops)
  BY <1>10
<1>11. QED
  BY <1>1, <1>2, <1>3, <1>4, <1>5, <1>6, <1>7, <1>8, <1>9, <1>10 DEF JobOK

Kinds == {"idle", "snapshot", "read", "download", "trash", "restore", "import", "gc", "purge"}

LEMMA JobLeases ==
    ASSUME JobTyping, NEW p \in Procs
    PROVE  /\ job[p].kind \in Kinds
           /\ job[p].lease \in {"none", "shared", "exclusive"}
           /\ job[p].lease = "none" => job[p] = Idle
           /\ job[p].lease = "shared" <=> job[p].kind \in {"snapshot", "read", "download"}
           /\ job[p].lease = "exclusive" <=> job[p].kind \in {"trash", "restore", "import", "gc", "purge"}
<1>1. JobOK(job[p])
  BY DEF JobTyping
<1> USE DEF Kinds
<1>2. CASE job[p] \in {Idle}
  BY <1>2 DEF Idle
<1>3. CASE job[p] \in SnapshotJobs
  BY <1>3 DEF SnapshotJobs
<1>4. CASE job[p] \in ReadJobs
  BY <1>4 DEF ReadJobs
<1>5. CASE job[p] \in DownloadJobs
  BY <1>5 DEF DownloadJobs
<1>6. CASE job[p] \in TrashJobs
  BY <1>6 DEF TrashJobs
<1>7. CASE job[p] \in RestoreJobs
  BY <1>7 DEF RestoreJobs
<1>8. CASE job[p] \in ImportJobs
  BY <1>8 DEF ImportJobs
<1>9. CASE job[p].kind = "gc" /\ job[p] \in GcJobs(job[p].todo)
  BY <1>9 DEF GcJobs
<1>10. CASE job[p].kind = "purge" /\ job[p] \in PurgeJobs(job[p].ops)
  BY <1>10 DEF PurgeJobs
<1>11. QED
  BY <1>1, <1>2, <1>3, <1>4, <1>5, <1>6, <1>7, <1>8, <1>9, <1>10 DEF JobOK

\* What a job may become.
LEMMA JobsStay ==
    ASSUME JobTyping, NEW p \in Procs, NEW j, JobOK(j), Run(p, j)
    PROVE  /\ JobTyping' /\ job'[p] = j
           /\ \A q \in Procs : q # p => job'[q] = job[q]
<1>1. job' = [job EXCEPT ![p] = j] /\ job = [q \in Procs |-> job[q]]
  BY DEF Run, JobTyping
<1>2. /\ job' = [q \in Procs |-> job'[q]] /\ job'[p] = j
      /\ \A q \in Procs : q # p => job'[q] = job[q]
  BY <1>1
<1>3. \A q \in Procs : JobOK(job[q])
  BY DEF JobTyping
<1>4. \A q \in Procs : JobOK(job'[q])
  BY <1>2, <1>3
<1>5. QED
  BY <1>2, <1>4 DEF JobTyping, JobOK

LEMMA IdleIsOK == JobOK(Idle)
  BY DEF JobOK

LEMMA DoneFacts ==
    ASSUME JobTyping, NEW p \in Procs, Done(p)
    PROVE  JobTyping' /\ job'[p] = Idle /\ \A q \in Procs : q # p => job'[q] = job[q]
  BY IdleIsOK, JobsStay DEF Done

LEMMA AcquireFacts ==
    ASSUME JobTyping, NEW p \in Procs, NEW exclusive \in BOOLEAN,
           try_acquire_repository(p, exclusive)
    PROVE  /\ job[p] = Idle
           /\ \A q \in Procs : job[q].lease \in {"none", "shared"}
           /\ exclusive => \A q \in Procs : job[q] = Idle
  BY JobShapes, JobLeases DEF try_acquire_repository, Holds

LEMMA ExclusiveFacts ==
    ASSUME JobTyping, Leases, NEW p \in Procs, job[p].lease = "exclusive"
    PROVE  \A q \in Procs : q # p => job[q] = Idle
  BY JobLeases DEF Leases, Holds

(***************************************************************************)
(* The first and the last of a set of numbers.                             *)
(***************************************************************************)
LEMMA HasLeast ==
    ASSUME NEW S, S \subseteq Nat, S # {} PROVE \E o \in S : \A q \in S : o <= q
<1>1. \E x \in S : \A y \in S : ~ (<<y, x>> \in OpToRel(<, Nat))
  BY NatLessThanWellFounded, WFMin
<1>2. PICK x \in S : \A y \in S : ~ (<<y, x>> \in OpToRel(<, Nat))
  BY <1>1
<1>3. \A y \in S : ~ (y < x)
  BY <1>2 DEF OpToRel
<1>4. QED
  BY <1>3

LEMMA LeastFacts ==
    ASSUME NEW S, S \subseteq Nat, S # {} PROVE Least(S) \in S /\ \A q \in S : Least(S) <= q
  BY HasLeast DEF Least

LEMMA GreatestFacts ==
    ASSUME NEW S, NEW n \in Nat, S \subseteq 1..n, S # {}
    PROVE  Greatest(S) \in S /\ \A q \in S : q <= Greatest(S)
<1>1. {n - x : x \in S} \subseteq Nat /\ {n - x : x \in S} # {}
  <2>1. \A x \in S : n - x \in Nat
    OBVIOUS
  <2>2. PICK x \in S : TRUE
    OBVIOUS
  <2>3. n - x \in {n - z : z \in S}
    BY <2>2
  <2>4. QED
    BY <2>1, <2>3
<1>2. PICK y \in {n - x : x \in S} : \A z \in {n - x : x \in S} : y <= z
  BY <1>1, HasLeast
<1>3. PICK x \in S : y = n - x
  BY <1>2
<1>4. \A q \in S : n - q \in {n - z : z \in S}
  OBVIOUS
<1>5. \A q \in S : n - x <= n - q
  BY <1>2, <1>3, <1>4
<1>6. \A q \in S : q <= x
  BY <1>5
<1>7. QED
  BY <1>6 DEF Greatest

LEMMA FreeDirFacts ==
    ASSUME \E o \in TrashIds : trash[o] = None
    PROVE  FreeDir \in TrashIds /\ trash[FreeDir] = None
<1> DEFINE S == {o \in TrashIds : trash[o] = None}
<1>1. S \subseteq Nat /\ S # {}
  BY Constants
<1>2. PICK o \in S : \A q \in S : o <= q
  BY <1>1, HasLeast
<1>3. \A q \in TrashIds : q < o => trash[q] # None
  BY <1>2, Constants
<1>4. QED
  BY <1>2, <1>3 DEF FreeDir

(***************************************************************************)
(* The types are kept.                                                     *)
(***************************************************************************)
LEMMA BuildFacts ==
    ASSUME JobTyping, Building, NEW p \in Procs, job[p].kind = "snapshot"
    PROVE  /\ job[p] \in SnapshotJobs /\ Ingested(job[p])
           /\ job[p].contents \in Contents /\ job[p].fingerprint \in Contents
           /\ job[p].todo = {} => DOMAIN job[p].fingerprint = Threads
           /\ job[p].todo = {} /\ job[p].at # "read" =>
                /\ DOMAIN job[p].contents = Threads
                /\ Selected(p) \in Contents /\ DOMAIN Selected(p) = job[p].selected
                /\ \A t \in job[p].selected : Selected(p)[t] = job[p].contents[t]
           /\ job[p].at \in {"build", "root"} => job[p].todo = {}
<1>1. job[p] \in SnapshotJobs /\ Ingested(job[p])
  BY JobShapes DEF Building, BuildOK
<1>2. /\ job[p].contents \in Contents /\ job[p].fingerprint \in Contents
      /\ job[p].selected \subseteq Threads
  BY <1>1 DEF SnapshotJobs
<1>3. /\ job[p].todo = {} => DOMAIN job[p].fingerprint = Threads
      /\ job[p].at # "read" => DOMAIN job[p].contents = DOMAIN job[p].fingerprint
      /\ job[p].at \in {"build", "root"} => job[p].todo = {}
  BY <1>1 DEF Ingested
<1>4. QED
  BY <1>1, <1>2, <1>3, RestrictFacts DEF Selected

\* Codex edits what it may edit.
LEMMA HomeTyped ==
    ASSUME RepositoryInv, [Next]_vars
    PROVE  home' \in [Threads -> Version]
<1>1. CASE UNCHANGED home
  BY <1>1 DEF RepositoryInv, Typing, FileTyping
<1>2. ASSUME NEW p \in Procs, start_snapshot(p) PROVE UNCHANGED home
  BY <1>2 DEF start_snapshot, filevars, Run
<1>3. ASSUME NEW p \in Procs, OpenRollout(p) PROVE UNCHANGED home
  BY <1>3 DEF OpenRollout, filevars, Run, At
<1>4. ASSUME NEW p \in Procs, normalize_and_ingest_rollout(p) PROVE UNCHANGED home
  BY <1>4 DEF normalize_and_ingest_rollout, At, Step, Run
<1>5. ASSUME NEW p \in Procs, NEW t \in Threads, source_fingerprint(p, t)
      PROVE  UNCHANGED home
  BY <1>5 DEF source_fingerprint, filevars, Run, At
<1>6. ASSUME NEW p \in Procs, atomic_write_source_index(p) PROVE UNCHANGED home
  BY <1>6 DEF atomic_write_source_index, At, Done, Step, Run
<1>7. ASSUME NEW p \in Procs, build_v4_snapshot_root(p) PROVE UNCHANGED home
  BY <1>7 DEF build_v4_snapshot_root, At, Step, Run
<1>8. ASSUME NEW p \in Procs, write_v4_snapshot(p) PROVE UNCHANGED home
  BY <1>8 DEF write_v4_snapshot, At, Done, Run
<1>9. ASSUME NEW p \in Procs, NEW s \in SnapshotIds, update_snapshot_metadata(p, s)
      PROVE  UNCHANGED home
  BY <1>9 DEF update_snapshot_metadata
<1>10. ASSUME NEW p \in Procs, NEW s \in SnapshotIds, validate_local_snapshot(p, s)
       PROVE  UNCHANGED home
  BY <1>10 DEF validate_local_snapshot, filevars, Run
<1>11. ASSUME NEW p \in Procs, EndRead(p) PROVE UNCHANGED home
  BY <1>11 DEF EndRead, filevars, At, Done, Run
<1>12. ASSUME NEW p \in Procs, load_revision_root(p) PROVE UNCHANGED home
  BY <1>12 DEF load_revision_root, Run
<1>13. ASSUME NEW p \in Procs, download_revision_graph(p) PROVE UNCHANGED home
  BY <1>13 DEF download_revision_graph, At, Step, Run
<1>14. ASSUME NEW p \in Procs, EndDownload(p) PROVE UNCHANGED home
  BY <1>14 DEF EndDownload, filevars, Done, Run
<1>15. ASSUME NEW p \in Procs, download_remote_revision_as_snapshot(p) PROVE UNCHANGED home
  BY <1>15 DEF download_remote_revision_as_snapshot, Step, Done, Run
<1>16. ASSUME NEW p \in Procs, NEW s \in SnapshotIds, plan_snapshot_deletion(p, s)
       PROVE  UNCHANGED home
  BY <1>16 DEF plan_snapshot_deletion, filevars
<1>17. ASSUME NEW p \in Procs, trash_local_snapshot(p) PROVE UNCHANGED home
  BY <1>17 DEF trash_local_snapshot, Run
<1>18. ASSUME NEW p \in Procs, TrashStep(p) PROVE UNCHANGED home
  BY <1>18 DEF TrashStep, Step, Done, Run
<1>19. ASSUME NEW p \in Procs, RestoreStep(p) PROVE UNCHANGED home
  BY <1>19 DEF RestoreStep, At, Done, Run
<1>20. ASSUME NEW p \in Procs, NEW o \in TrashIds, restore_trashed_snapshot(p, o)
       PROVE  UNCHANGED home
  BY <1>20 DEF restore_trashed_snapshot, Run
<1>21. ASSUME NEW p \in Procs, plan_local_gc(p) PROVE UNCHANGED home
  BY <1>21 DEF plan_local_gc, filevars
<1>22. ASSUME NEW p \in Procs, quarantine_local_gc_plan(p) PROVE UNCHANGED home
  BY <1>22 DEF quarantine_local_gc_plan, filevars, Run
<1>23. ASSUME NEW p \in Procs, MoveToQuarantine(p) PROVE UNCHANGED home
  BY <1>23 DEF MoveToQuarantine, At, Done, Run
<1>24. ASSUME NEW p \in Procs, start_purge(p) PROVE UNCHANGED home
  BY <1>24 DEF start_purge, filevars, Run
<1>25. ASSUME NEW p \in Procs, recover_local_trash_purges(p) PROVE UNCHANGED home
  BY <1>25 DEF recover_local_trash_purges, filevars, At, Step, Run
<1>26. ASSUME NEW p \in Procs, plan_local_trash_purge(p) PROVE UNCHANGED home
  BY <1>26 DEF plan_local_trash_purge, At, Step, Done, Run
<1>27. ASSUME NEW p \in Procs, purge_local_trash(p) PROVE UNCHANGED home
  BY <1>27 DEF purge_local_trash, At, Step, Run
<1>28. ASSUME NEW p \in Procs, rollback_local_trash_purge(p) PROVE UNCHANGED home
  BY <1>28 DEF rollback_local_trash_purge, At, Step, Done, Run
<1>29. ASSUME NEW p \in Procs, finish_local_trash_purge(p) PROVE UNCHANGED home
  BY <1>29 DEF finish_local_trash_purge, At, Step, Done, Run
<1>30. ASSUME NEW p \in Procs, export_treasure_to_vault(p) PROVE UNCHANGED home
  BY <1>30 DEF export_treasure_to_vault
<1>31. ASSUME NEW p \in Procs, trash_treasure(p) PROVE UNCHANGED home
  BY <1>31 DEF trash_treasure
<1>32. ASSUME NEW p \in Procs, start_treasure_import(p) PROVE UNCHANGED home
  BY <1>32 DEF start_treasure_import, filevars, Run
<1>33. ASSUME NEW p \in Procs, import_treasure_as_snapshot(p) PROVE UNCHANGED home
  BY <1>33 DEF import_treasure_as_snapshot, At, Step, Run
<1>34. ASSUME NEW p \in Procs, WriteImportedRoot(p) PROVE UNCHANGED home
  BY <1>34 DEF WriteImportedRoot, At, Done, Run
<1>35. ASSUME NEW p \in Procs, JobFails(p) PROVE UNCHANGED home
  BY <1>35 DEF JobFails, filevars, At, Done, Run
<1>36. ASSUME Decline PROVE UNCHANGED home
  BY <1>36 DEF Decline, filevars
<1>37. ASSUME Crash PROVE UNCHANGED home
  BY <1>37 DEF Crash, filevars
<1>38. ASSUME NEW t \in Threads, EditThread(t) PROVE home' \in [Threads -> Version]
  <2>1. home \in [Threads -> Version] /\ home[t] < MaxVersion
    BY <1>38 DEF EditThread, RepositoryInv, Typing, FileTyping
  <2>2. home[t] + 1 \in Version
    <3>1. home[t] \in Nat /\ MaxVersion \in Nat
      BY <2>1, Constants
    <3>2. home[t] + 1 \in Nat /\ home[t] + 1 <= MaxVersion
      BY <2>1, <3>1
    <3>3. QED
      BY <3>2, Constants
  <2>3. QED
    BY <1>38, <2>1, <2>2 DEF EditThread
<1>39. ASSUME UNCHANGED vars PROVE UNCHANGED home
  BY <1>39 DEF vars, filevars
<1>40. QED
  BY <1>1, <1>2, <1>3, <1>4, <1>5, <1>6, <1>7, <1>8, <1>9, <1>10, <1>11, <1>12, <1>13,
     <1>14, <1>15, <1>16, <1>17, <1>18, <1>19, <1>20, <1>21, <1>22, <1>23, <1>24, <1>25,
     <1>26, <1>27, <1>28, <1>29, <1>30, <1>31, <1>32, <1>33, <1>34, <1>35, <1>36, <1>37,
     <1>38, <1>39 DEF Next, SnapshotStep, CleanupStep

\* A treasure holds one version of each conversation.
LEMMA ChosenContents ==
    ASSUME RootTyping, NEW sources, sources \subseteq listed, NEW f \in choose_candidates(sources)
    PROVE  f \in Contents
<1> DEFINE covered == UNION {DOMAIN roots[s] : s \in sources}
<1>1. \A s \in sources : DOMAIN roots[s] \subseteq Threads
  BY ContentsValue DEF RootTyping
<1>2. covered \in SUBSET Threads
  BY <1>1
<1>3. f \in [covered -> Version]
  BY DEF choose_candidates
<1> HIDE DEF covered
<1>4. QED
  BY <1>2, <1>3 DEF Contents

LEMMA ImportFacts ==
    ASSUME RepositoryInv, NEW p \in Procs, job[p].kind = "import"
    PROVE  job[p].treasure \in TreasureIds /\ vault[job[p].treasure] \in Contents
<1>1. job[p].treasure \in TreasureIds
  BY JobShapes DEF RepositoryInv, Typing, ImportJobs
<1>2. vault[job[p].treasure] # None
  BY DEF RepositoryInv, Building, BuildOK
<1>3. QED
  BY <1>1, <1>2 DEF RepositoryInv, Typing, FileTyping

\* Only objects are stored.
LEMMA ObjectsTyped ==
    ASSUME RepositoryInv, [Next]_vars
    PROVE  objects' \subseteq Object
<1>1. CASE UNCHANGED objects
  BY <1>1 DEF RepositoryInv, Typing, FileTyping
<1>2. ASSUME NEW t \in Threads, EditThread(t) PROVE UNCHANGED objects
  BY <1>2 DEF EditThread, filevars
<1>3. ASSUME NEW p \in Procs, start_snapshot(p) PROVE UNCHANGED objects
  BY <1>3 DEF start_snapshot, filevars, Run
<1>4. ASSUME NEW p \in Procs, OpenRollout(p) PROVE UNCHANGED objects
  BY <1>4 DEF OpenRollout, filevars, Run, At
<1>5. ASSUME NEW p \in Procs, NEW t \in Threads, source_fingerprint(p, t)
      PROVE  UNCHANGED objects
  BY <1>5 DEF source_fingerprint, filevars, Run, At
<1>6. ASSUME NEW p \in Procs, atomic_write_source_index(p) PROVE UNCHANGED objects
  BY <1>6 DEF atomic_write_source_index, At, Done, Step, Run
<1>7. ASSUME NEW p \in Procs, write_v4_snapshot(p) PROVE UNCHANGED objects
  BY <1>7 DEF write_v4_snapshot, At, Done, Run
<1>8. ASSUME NEW p \in Procs, NEW s \in SnapshotIds, update_snapshot_metadata(p, s)
      PROVE  UNCHANGED objects
  BY <1>8 DEF update_snapshot_metadata
<1>9. ASSUME NEW p \in Procs, NEW s \in SnapshotIds, validate_local_snapshot(p, s)
      PROVE  UNCHANGED objects
  BY <1>9 DEF validate_local_snapshot, filevars, Run
<1>10. ASSUME NEW p \in Procs, EndRead(p) PROVE UNCHANGED objects
  BY <1>10 DEF EndRead, filevars, At, Done, Run
<1>11. ASSUME NEW p \in Procs, EndDownload(p) PROVE UNCHANGED objects
  BY <1>11 DEF EndDownload, filevars, Done, Run
<1>12. ASSUME NEW p \in Procs, NEW s \in SnapshotIds, plan_snapshot_deletion(p, s)
       PROVE  UNCHANGED objects
  BY <1>12 DEF plan_snapshot_deletion, filevars
<1>13. ASSUME NEW p \in Procs, trash_local_snapshot(p) PROVE UNCHANGED objects
  BY <1>13 DEF trash_local_snapshot, Run
<1>14. ASSUME NEW p \in Procs, TrashStep(p) PROVE UNCHANGED objects
  BY <1>14 DEF TrashStep, Step, Done, Run
<1>15. ASSUME NEW p \in Procs, RestoreStep(p) PROVE UNCHANGED objects
  BY <1>15 DEF RestoreStep, At, Done, Run
<1>16. ASSUME NEW p \in Procs, NEW o \in TrashIds, restore_trashed_snapshot(p, o)
       PROVE  UNCHANGED objects
  BY <1>16 DEF restore_trashed_snapshot, Run
<1>17. ASSUME NEW p \in Procs, plan_local_gc(p) PROVE UNCHANGED objects
  BY <1>17 DEF plan_local_gc, filevars
<1>18. ASSUME NEW p \in Procs, quarantine_local_gc_plan(p) PROVE UNCHANGED objects
  BY <1>18 DEF quarantine_local_gc_plan, filevars, Run
<1>19. ASSUME NEW p \in Procs, start_purge(p) PROVE UNCHANGED objects
  BY <1>19 DEF start_purge, filevars, Run
<1>20. ASSUME NEW p \in Procs, recover_local_trash_purges(p) PROVE UNCHANGED objects
  BY <1>20 DEF recover_local_trash_purges, filevars, At, Step, Run
<1>21. ASSUME NEW p \in Procs, plan_local_trash_purge(p) PROVE UNCHANGED objects
  BY <1>21 DEF plan_local_trash_purge, At, Step, Done, Run
<1>22. ASSUME NEW p \in Procs, purge_local_trash(p) PROVE UNCHANGED objects
  BY <1>22 DEF purge_local_trash, At, Step, Run
<1>23. ASSUME NEW p \in Procs, rollback_local_trash_purge(p) PROVE UNCHANGED objects
  BY <1>23 DEF rollback_local_trash_purge, At, Step, Done, Run
<1>24. ASSUME NEW p \in Procs, trash_treasure(p) PROVE UNCHANGED objects
  BY <1>24 DEF trash_treasure
<1>25. ASSUME NEW p \in Procs, start_treasure_import(p) PROVE UNCHANGED objects
  BY <1>25 DEF start_treasure_import, filevars, Run
<1>26. ASSUME NEW p \in Procs, WriteImportedRoot(p) PROVE UNCHANGED objects
  BY <1>26 DEF WriteImportedRoot, At, Done, Run
<1>27. ASSUME NEW p \in Procs, JobFails(p) PROVE UNCHANGED objects
  BY <1>27 DEF JobFails, filevars, At, Done, Run
<1>28. ASSUME Decline PROVE UNCHANGED objects
  BY <1>28 DEF Decline, filevars
<1>29. ASSUME Crash PROVE UNCHANGED objects
  BY <1>29 DEF Crash, filevars
<1>30. ASSUME NEW p \in Procs, normalize_and_ingest_rollout(p)
       PROVE  objects' \subseteq Object
  <2>1. CASE UNCHANGED objects
    BY <2>1 DEF RepositoryInv, Typing, FileTyping
  <2>2. CASE \E t \in Missing(p) :
               \/ \E c \in Lacking(t, job[p].contents[t]) : install_bytes({c})
               \/ install_bytes({ChunkManifest(t, job[p].contents[t])})
    <3>1. job[p].contents \in Contents
      BY <1>30, BuildFacts DEF normalize_and_ingest_rollout, At, RepositoryInv, Typing
    <3>2. PICK t \in DOMAIN job[p].contents :
               \/ \E c \in Lacking(t, job[p].contents[t]) : install_bytes({c})
               \/ install_bytes({ChunkManifest(t, job[p].contents[t])})
      BY <2>2 DEF Missing
    <3>3. t \in Threads /\ job[p].contents[t] \in Version
      BY <3>1, ContentsValue
    <3>4. content_objects(t, job[p].contents[t]) \subseteq Object
      BY <3>3, ContentObjects
    <3>5. QED
      BY <3>2, <3>4 DEF Lacking, install_bytes, content_objects, RepositoryInv, Typing, FileTyping
  <2>3. QED
    BY <1>30, <2>1, <2>2 DEF normalize_and_ingest_rollout
<1>31. ASSUME NEW p \in Procs, build_v4_snapshot_root(p) PROVE objects' \subseteq Object
  <2>1. /\ Selected(p) \in Contents /\ DOMAIN Selected(p) = job[p].selected
    BY <1>31, BuildFacts DEF build_v4_snapshot_root, At, RepositoryInv, Typing
  <2>2. \A t \in job[p].selected : Descriptor(t, Selected(p)[t]) \in Object
    BY <2>1, ContentsValue, ContentObjects
  <2>3. Overlay(Selected(p)) \in Object
    BY <2>1, GraphObjects
  <2>4. QED
    BY <1>31, <2>2, <2>3 DEF build_v4_snapshot_root, install_bytes, RepositoryInv, Typing, FileTyping
<1>32. ASSUME NEW p \in Procs, load_revision_root(p) PROVE objects' \subseteq Object
  BY <1>32, RemoteContents, GraphObjects DEF load_revision_root, install_bytes, RepositoryInv, Typing, FileTyping
<1>33. ASSUME NEW p \in Procs, download_revision_graph(p) PROVE objects' \subseteq Object
  <2>1. \A t \in Threads : ThreadGraph(Restrict(Remote, {t})) \subseteq Object
    BY RemoteContents, RestrictFacts, GraphObjects
  <2>2. \A t \in Threads : FirstLacking(ThreadGraph(Restrict(Remote, {t}))) \subseteq Object
    BY <2>1 DEF FirstLacking
  <2>3. \/ UNCHANGED objects
        \/ \E t \in Threads : \E o \in FirstLacking(ThreadGraph(Restrict(Remote, {t}))) :
             objects' = objects \cup {o}
    BY <1>33 DEF download_revision_graph, install_bytes
  <2>4. objects \subseteq Object
    BY DEF RepositoryInv, Typing, FileTyping
  <2>5. CASE \E t \in Threads : \E o \in FirstLacking(ThreadGraph(Restrict(Remote, {t}))) :
               objects' = objects \cup {o}
    <3>1. PICK t \in Threads : \E o \in FirstLacking(ThreadGraph(Restrict(Remote, {t}))) :
               objects' = objects \cup {o}
      BY <2>5
    <3>2. FirstLacking(ThreadGraph(Restrict(Remote, {t}))) \subseteq Object
      BY <2>2
    <3>3. QED
      BY <2>4, <3>1, <3>2
  <2>6. QED
    BY <2>3, <2>4, <2>5
<1>34. ASSUME NEW p \in Procs, download_remote_revision_as_snapshot(p)
       PROVE  objects' \subseteq Object
  BY <1>34, RemoteContents, GraphObjects
     DEF download_remote_revision_as_snapshot, install_bytes, RepositoryInv, Typing, FileTyping
<1>35. ASSUME NEW p \in Procs, MoveToQuarantine(p) PROVE objects' \subseteq Object
  BY <1>35 DEF MoveToQuarantine, RepositoryInv, Typing, FileTyping
<1>36. ASSUME NEW p \in Procs, finish_local_trash_purge(p) PROVE objects' \subseteq Object
  BY <1>36 DEF finish_local_trash_purge, RepositoryInv, Typing, FileTyping
<1>37. ASSUME NEW p \in Procs, export_treasure_to_vault(p) PROVE objects' \subseteq Object
  <2>1. PICK f : /\ objects' = objects \cup {Overlay(f)} /\ f \in Contents
    BY <1>37, ChosenContents DEF export_treasure_to_vault, install_bytes, RepositoryInv, Typing
  <2>2. QED
    BY <2>1, GraphObjects DEF RepositoryInv, Typing, FileTyping
<1>38. ASSUME NEW p \in Procs, import_treasure_as_snapshot(p)
       PROVE  objects' \subseteq Object
  <2>1. vault[job[p].treasure] \in Contents
    BY <1>38, ImportFacts DEF import_treasure_as_snapshot, At
  <2>2. QED
    BY <1>38, <2>1, GraphObjects DEF import_treasure_as_snapshot, install_bytes, RepositoryInv, Typing, FileTyping
<1>39. ASSUME UNCHANGED vars PROVE UNCHANGED objects
  BY <1>39 DEF vars, filevars
<1>40. QED
  BY <1>1, <1>2, <1>3, <1>4, <1>5, <1>6, <1>7, <1>8, <1>9, <1>10, <1>11, <1>12, <1>13,
     <1>14, <1>15, <1>16, <1>17, <1>18, <1>19, <1>20, <1>21, <1>22, <1>23, <1>24, <1>25,
     <1>26, <1>27, <1>28, <1>29, <1>30, <1>31, <1>32, <1>33, <1>34, <1>35, <1>36, <1>37,
     <1>38, <1>39 DEF Next, SnapshotStep, CleanupStep

\* The source index.
LEMMA IndexTyped ==
    ASSUME RepositoryInv, [Next]_vars
    PROVE  index' \in [Threads -> IndexEntry \cup {None}]
<1>1. CASE UNCHANGED index
  BY <1>1 DEF RepositoryInv, Typing, FileTyping
<1>2. ASSUME NEW t \in Threads, EditThread(t) PROVE UNCHANGED index
  BY <1>2 DEF EditThread, filevars
<1>3. ASSUME NEW p \in Procs, start_snapshot(p) PROVE UNCHANGED index
  BY <1>3 DEF start_snapshot, filevars, Run
<1>4. ASSUME NEW p \in Procs, OpenRollout(p) PROVE UNCHANGED index
  BY <1>4 DEF OpenRollout, filevars, Run, At
<1>5. ASSUME NEW p \in Procs, normalize_and_ingest_rollout(p) PROVE UNCHANGED index
  BY <1>5 DEF normalize_and_ingest_rollout, At, Step, Run
<1>6. ASSUME NEW p \in Procs, NEW t \in Threads, source_fingerprint(p, t)
      PROVE  UNCHANGED index
  BY <1>6 DEF source_fingerprint, filevars, Run, At
<1>7. ASSUME NEW p \in Procs, build_v4_snapshot_root(p) PROVE UNCHANGED index
  BY <1>7 DEF build_v4_snapshot_root, At, Step, Run
<1>8. ASSUME NEW p \in Procs, write_v4_snapshot(p) PROVE UNCHANGED index
  BY <1>8 DEF write_v4_snapshot, At, Done, Run
<1>9. ASSUME NEW p \in Procs, NEW s \in SnapshotIds, update_snapshot_metadata(p, s)
      PROVE  UNCHANGED index
  BY <1>9 DEF update_snapshot_metadata
<1>10. ASSUME NEW p \in Procs, NEW s \in SnapshotIds, validate_local_snapshot(p, s)
       PROVE  UNCHANGED index
  BY <1>10 DEF validate_local_snapshot, filevars, Run
<1>11. ASSUME NEW p \in Procs, EndRead(p) PROVE UNCHANGED index
  BY <1>11 DEF EndRead, filevars, At, Done, Run
<1>12. ASSUME NEW p \in Procs, load_revision_root(p) PROVE UNCHANGED index
  BY <1>12 DEF load_revision_root, Run
<1>13. ASSUME NEW p \in Procs, download_revision_graph(p) PROVE UNCHANGED index
  BY <1>13 DEF download_revision_graph, At, Step, Run
<1>14. ASSUME NEW p \in Procs, EndDownload(p) PROVE UNCHANGED index
  BY <1>14 DEF EndDownload, filevars, Done, Run
<1>15. ASSUME NEW p \in Procs, download_remote_revision_as_snapshot(p) PROVE UNCHANGED index
  BY <1>15 DEF download_remote_revision_as_snapshot, Step, Done, Run
<1>16. ASSUME NEW p \in Procs, NEW s \in SnapshotIds, plan_snapshot_deletion(p, s)
       PROVE  UNCHANGED index
  BY <1>16 DEF plan_snapshot_deletion, filevars
<1>17. ASSUME NEW p \in Procs, trash_local_snapshot(p) PROVE UNCHANGED index
  BY <1>17 DEF trash_local_snapshot, Run
<1>18. ASSUME NEW p \in Procs, TrashStep(p) PROVE UNCHANGED index
  BY <1>18 DEF TrashStep, Step, Done, Run
<1>19. ASSUME NEW p \in Procs, RestoreStep(p) PROVE UNCHANGED index
  BY <1>19 DEF RestoreStep, At, Done, Run
<1>20. ASSUME NEW p \in Procs, NEW o \in TrashIds, restore_trashed_snapshot(p, o)
       PROVE  UNCHANGED index
  BY <1>20 DEF restore_trashed_snapshot, Run
<1>21. ASSUME NEW p \in Procs, plan_local_gc(p) PROVE UNCHANGED index
  BY <1>21 DEF plan_local_gc, filevars
<1>22. ASSUME NEW p \in Procs, quarantine_local_gc_plan(p) PROVE UNCHANGED index
  BY <1>22 DEF quarantine_local_gc_plan, filevars, Run
<1>23. ASSUME NEW p \in Procs, MoveToQuarantine(p) PROVE UNCHANGED index
  BY <1>23 DEF MoveToQuarantine, At, Done, Run
<1>24. ASSUME NEW p \in Procs, start_purge(p) PROVE UNCHANGED index
  BY <1>24 DEF start_purge, filevars, Run
<1>25. ASSUME NEW p \in Procs, recover_local_trash_purges(p) PROVE UNCHANGED index
  BY <1>25 DEF recover_local_trash_purges, filevars, At, Step, Run
<1>26. ASSUME NEW p \in Procs, plan_local_trash_purge(p) PROVE UNCHANGED index
  BY <1>26 DEF plan_local_trash_purge, At, Step, Done, Run
<1>27. ASSUME NEW p \in Procs, purge_local_trash(p) PROVE UNCHANGED index
  BY <1>27 DEF purge_local_trash, At, Step, Run
<1>28. ASSUME NEW p \in Procs, rollback_local_trash_purge(p) PROVE UNCHANGED index
  BY <1>28 DEF rollback_local_trash_purge, At, Step, Done, Run
<1>29. ASSUME NEW p \in Procs, export_treasure_to_vault(p) PROVE UNCHANGED index
  BY <1>29 DEF export_treasure_to_vault
<1>30. ASSUME NEW p \in Procs, trash_treasure(p) PROVE UNCHANGED index
  BY <1>30 DEF trash_treasure
<1>31. ASSUME NEW p \in Procs, start_treasure_import(p) PROVE UNCHANGED index
  BY <1>31 DEF start_treasure_import, filevars, Run
<1>32. ASSUME NEW p \in Procs, import_treasure_as_snapshot(p) PROVE UNCHANGED index
  BY <1>32 DEF import_treasure_as_snapshot, At, Step, Run
<1>33. ASSUME NEW p \in Procs, WriteImportedRoot(p) PROVE UNCHANGED index
  BY <1>33 DEF WriteImportedRoot, At, Done, Run
<1>34. ASSUME NEW p \in Procs, JobFails(p) PROVE UNCHANGED index
  BY <1>34 DEF JobFails, filevars, At, Done, Run
<1>35. ASSUME Decline PROVE UNCHANGED index
  BY <1>35 DEF Decline, filevars
<1>36. ASSUME Crash PROVE UNCHANGED index
  BY <1>36 DEF Crash, filevars
<1>37. ASSUME NEW p \in Procs, atomic_write_source_index(p)
       PROVE  index' \in [Threads -> IndexEntry \cup {None}]
  <2>1. /\ DOMAIN job[p].fingerprint = Threads /\ DOMAIN job[p].contents = Threads
        /\ job[p].contents \in Contents /\ job[p].fingerprint \in Contents
    BY <1>37, BuildFacts DEF atomic_write_source_index, At, RepositoryInv, Typing
  <2>2. \A t \in Threads : [fingerprint |-> job[p].fingerprint[t],
                            content |-> job[p].contents[t]] \in IndexEntry
    BY <2>1, ContentsValue DEF IndexEntry
  <2>3. QED
    BY <1>37, <2>2 DEF atomic_write_source_index
<1>38. ASSUME NEW p \in Procs, finish_local_trash_purge(p)
       PROVE  index' \in [Threads -> IndexEntry \cup {None}]
  BY <1>38 DEF finish_local_trash_purge, At, Step, Done, Run, RepositoryInv, Typing,
         FileTyping
<1>39. ASSUME UNCHANGED vars PROVE UNCHANGED index
  BY <1>39 DEF vars, filevars
<1>40. QED
  BY <1>1, <1>2, <1>3, <1>4, <1>5, <1>6, <1>7, <1>8, <1>9, <1>10, <1>11, <1>12, <1>13,
     <1>14, <1>15, <1>16, <1>17, <1>18, <1>19, <1>20, <1>21, <1>22, <1>23, <1>24, <1>25,
     <1>26, <1>27, <1>28, <1>29, <1>30, <1>31, <1>32, <1>33, <1>34, <1>35, <1>36, <1>37,
     <1>38, <1>39 DEF Next, SnapshotStep, CleanupStep

\* The journal of a purge.
LEMMA JournalTyped ==
    ASSUME RepositoryInv, [Next]_vars
    PROVE  journal' \in PurgeJournal \cup {None}
<1>1. CASE UNCHANGED journal
  BY <1>1 DEF RepositoryInv, Typing, FileTyping
<1>2. ASSUME NEW t \in Threads, EditThread(t) PROVE UNCHANGED journal
  BY <1>2 DEF EditThread, filevars
<1>3. ASSUME NEW p \in Procs, start_snapshot(p) PROVE UNCHANGED journal
  BY <1>3 DEF start_snapshot, filevars, Run
<1>4. ASSUME NEW p \in Procs, OpenRollout(p) PROVE UNCHANGED journal
  BY <1>4 DEF OpenRollout, filevars, Run, At
<1>5. ASSUME NEW p \in Procs, normalize_and_ingest_rollout(p) PROVE UNCHANGED journal
  BY <1>5 DEF normalize_and_ingest_rollout, At, Step, Run
<1>6. ASSUME NEW p \in Procs, NEW t \in Threads, source_fingerprint(p, t)
      PROVE  UNCHANGED journal
  BY <1>6 DEF source_fingerprint, filevars, Run, At
<1>7. ASSUME NEW p \in Procs, atomic_write_source_index(p) PROVE UNCHANGED journal
  BY <1>7 DEF atomic_write_source_index, At, Done, Step, Run
<1>8. ASSUME NEW p \in Procs, build_v4_snapshot_root(p) PROVE UNCHANGED journal
  BY <1>8 DEF build_v4_snapshot_root, At, Step, Run
<1>9. ASSUME NEW p \in Procs, write_v4_snapshot(p) PROVE UNCHANGED journal
  BY <1>9 DEF write_v4_snapshot, At, Done, Run
<1>10. ASSUME NEW p \in Procs, NEW s \in SnapshotIds, update_snapshot_metadata(p, s)
       PROVE  UNCHANGED journal
  BY <1>10 DEF update_snapshot_metadata
<1>11. ASSUME NEW p \in Procs, NEW s \in SnapshotIds, validate_local_snapshot(p, s)
       PROVE  UNCHANGED journal
  BY <1>11 DEF validate_local_snapshot, filevars, Run
<1>12. ASSUME NEW p \in Procs, EndRead(p) PROVE UNCHANGED journal
  BY <1>12 DEF EndRead, filevars, At, Done, Run
<1>13. ASSUME NEW p \in Procs, load_revision_root(p) PROVE UNCHANGED journal
  BY <1>13 DEF load_revision_root, Run
<1>14. ASSUME NEW p \in Procs, download_revision_graph(p) PROVE UNCHANGED journal
  BY <1>14 DEF download_revision_graph, At, Step, Run
<1>15. ASSUME NEW p \in Procs, EndDownload(p) PROVE UNCHANGED journal
  BY <1>15 DEF EndDownload, filevars, Done, Run
<1>16. ASSUME NEW p \in Procs, download_remote_revision_as_snapshot(p)
       PROVE  UNCHANGED journal
  BY <1>16 DEF download_remote_revision_as_snapshot, Step, Done, Run
<1>17. ASSUME NEW p \in Procs, NEW s \in SnapshotIds, plan_snapshot_deletion(p, s)
       PROVE  UNCHANGED journal
  BY <1>17 DEF plan_snapshot_deletion, filevars
<1>18. ASSUME NEW p \in Procs, trash_local_snapshot(p) PROVE UNCHANGED journal
  BY <1>18 DEF trash_local_snapshot, Run
<1>19. ASSUME NEW p \in Procs, TrashStep(p) PROVE UNCHANGED journal
  BY <1>19 DEF TrashStep, Step, Done, Run
<1>20. ASSUME NEW p \in Procs, RestoreStep(p) PROVE UNCHANGED journal
  BY <1>20 DEF RestoreStep, At, Done, Run
<1>21. ASSUME NEW p \in Procs, NEW o \in TrashIds, restore_trashed_snapshot(p, o)
       PROVE  UNCHANGED journal
  BY <1>21 DEF restore_trashed_snapshot, Run
<1>22. ASSUME NEW p \in Procs, plan_local_gc(p) PROVE UNCHANGED journal
  BY <1>22 DEF plan_local_gc, filevars
<1>23. ASSUME NEW p \in Procs, quarantine_local_gc_plan(p) PROVE UNCHANGED journal
  BY <1>23 DEF quarantine_local_gc_plan, filevars, Run
<1>24. ASSUME NEW p \in Procs, MoveToQuarantine(p) PROVE UNCHANGED journal
  BY <1>24 DEF MoveToQuarantine, At, Done, Run
<1>25. ASSUME NEW p \in Procs, start_purge(p) PROVE UNCHANGED journal
  BY <1>25 DEF start_purge, filevars, Run
<1>26. ASSUME NEW p \in Procs, recover_local_trash_purges(p) PROVE UNCHANGED journal
  BY <1>26 DEF recover_local_trash_purges, filevars, At, Step, Run
<1>27. ASSUME NEW p \in Procs, export_treasure_to_vault(p) PROVE UNCHANGED journal
  BY <1>27 DEF export_treasure_to_vault
<1>28. ASSUME NEW p \in Procs, trash_treasure(p) PROVE UNCHANGED journal
  BY <1>28 DEF trash_treasure
<1>29. ASSUME NEW p \in Procs, start_treasure_import(p) PROVE UNCHANGED journal
  BY <1>29 DEF start_treasure_import, filevars, Run
<1>30. ASSUME NEW p \in Procs, import_treasure_as_snapshot(p) PROVE UNCHANGED journal
  BY <1>30 DEF import_treasure_as_snapshot, At, Step, Run
<1>31. ASSUME NEW p \in Procs, WriteImportedRoot(p) PROVE UNCHANGED journal
  BY <1>31 DEF WriteImportedRoot, At, Done, Run
<1>32. ASSUME NEW p \in Procs, JobFails(p) PROVE UNCHANGED journal
  BY <1>32 DEF JobFails, filevars, At, Done, Run
<1>33. ASSUME Decline PROVE UNCHANGED journal
  BY <1>33 DEF Decline, filevars
<1>34. ASSUME Crash PROVE UNCHANGED journal
  BY <1>34 DEF Crash, filevars
<1>35. ASSUME NEW p \in Procs, plan_local_trash_purge(p)
       PROVE  journal' \in PurgeJournal \cup {None}
  <2>1. CASE UNCHANGED journal
    BY <2>1 DEF RepositoryInv, Typing, FileTyping
  <2>2. CASE /\ job[p].ops \subseteq InTrash /\ PurgePlan(job[p].ops) = plan
             /\ journal' = [status |-> "Preparing", ops |-> plan.ops, candidates |-> plan.candidates]
    <3>1. plan.ops = job[p].ops /\ plan.candidates \subseteq objects
      BY <2>2 DEF PurgePlan
    <3>2. plan.ops \subseteq TrashIds /\ plan.candidates \subseteq Object
      BY <3>1, <2>2 DEF InTrash, RepositoryInv, Typing, FileTyping
    <3>3. QED
      BY <2>2, <3>2 DEF PurgeJournal
  <2>3. QED
    BY <1>35, <2>1, <2>2 DEF plan_local_trash_purge
<1>36. ASSUME NEW p \in Procs, purge_local_trash(p)
       PROVE  journal' \in PurgeJournal \cup {None}
  <2>1. journal \in PurgeJournal
    BY <1>36 DEF purge_local_trash, At, RepositoryInv, Typing, FileTyping, Purging, PurgeOK
  <2>2. QED
    BY <1>36, <2>1 DEF purge_local_trash, Journal, PurgeJournal
<1>37. ASSUME NEW p \in Procs, rollback_local_trash_purge(p)
       PROVE  journal' \in PurgeJournal \cup {None}
  BY <1>37 DEF rollback_local_trash_purge, Settle, RepositoryInv, Typing, FileTyping
<1>38. ASSUME NEW p \in Procs, finish_local_trash_purge(p)
       PROVE  journal' \in PurgeJournal \cup {None}
  <2>1. journal \in PurgeJournal
    BY <1>38 DEF finish_local_trash_purge, At, RepositoryInv, Typing, FileTyping, Purging, PurgeOK
  <2>2. QED
    BY <1>38, <2>1 DEF finish_local_trash_purge, Journal, Settle, PurgeJournal
<1>39. ASSUME UNCHANGED vars PROVE UNCHANGED journal
  BY <1>39 DEF vars, filevars
<1>40. QED
  BY <1>1, <1>2, <1>3, <1>4, <1>5, <1>6, <1>7, <1>8, <1>9, <1>10, <1>11, <1>12, <1>13,
     <1>14, <1>15, <1>16, <1>17, <1>18, <1>19, <1>20, <1>21, <1>22, <1>23, <1>24, <1>25,
     <1>26, <1>27, <1>28, <1>29, <1>30, <1>31, <1>32, <1>33, <1>34, <1>35, <1>36, <1>37,
     <1>38, <1>39 DEF Next, SnapshotStep, CleanupStep

\* The vault.
LEMMA VaultTyped ==
    ASSUME RepositoryInv, [Next]_vars
    PROVE  vault' \in [TreasureIds -> Contents \cup {None}]
<1>1. CASE UNCHANGED vault
  BY <1>1 DEF RepositoryInv, Typing, FileTyping
<1>2. ASSUME NEW t \in Threads, EditThread(t) PROVE UNCHANGED vault
  BY <1>2 DEF EditThread, filevars
<1>3. ASSUME NEW p \in Procs, start_snapshot(p) PROVE UNCHANGED vault
  BY <1>3 DEF start_snapshot, filevars, Run
<1>4. ASSUME NEW p \in Procs, OpenRollout(p) PROVE UNCHANGED vault
  BY <1>4 DEF OpenRollout, filevars, Run, At
<1>5. ASSUME NEW p \in Procs, normalize_and_ingest_rollout(p) PROVE UNCHANGED vault
  BY <1>5 DEF normalize_and_ingest_rollout, At, Step, Run
<1>6. ASSUME NEW p \in Procs, NEW t \in Threads, source_fingerprint(p, t)
      PROVE  UNCHANGED vault
  BY <1>6 DEF source_fingerprint, filevars, Run, At
<1>7. ASSUME NEW p \in Procs, atomic_write_source_index(p) PROVE UNCHANGED vault
  BY <1>7 DEF atomic_write_source_index, At, Done, Step, Run
<1>8. ASSUME NEW p \in Procs, build_v4_snapshot_root(p) PROVE UNCHANGED vault
  BY <1>8 DEF build_v4_snapshot_root, At, Step, Run
<1>9. ASSUME NEW p \in Procs, write_v4_snapshot(p) PROVE UNCHANGED vault
  BY <1>9 DEF write_v4_snapshot, At, Done, Run
<1>10. ASSUME NEW p \in Procs, NEW s \in SnapshotIds, update_snapshot_metadata(p, s)
       PROVE  UNCHANGED vault
  BY <1>10 DEF update_snapshot_metadata
<1>11. ASSUME NEW p \in Procs, NEW s \in SnapshotIds, validate_local_snapshot(p, s)
       PROVE  UNCHANGED vault
  BY <1>11 DEF validate_local_snapshot, filevars, Run
<1>12. ASSUME NEW p \in Procs, EndRead(p) PROVE UNCHANGED vault
  BY <1>12 DEF EndRead, filevars, At, Done, Run
<1>13. ASSUME NEW p \in Procs, load_revision_root(p) PROVE UNCHANGED vault
  BY <1>13 DEF load_revision_root, Run
<1>14. ASSUME NEW p \in Procs, download_revision_graph(p) PROVE UNCHANGED vault
  BY <1>14 DEF download_revision_graph, At, Step, Run
<1>15. ASSUME NEW p \in Procs, EndDownload(p) PROVE UNCHANGED vault
  BY <1>15 DEF EndDownload, filevars, Done, Run
<1>16. ASSUME NEW p \in Procs, download_remote_revision_as_snapshot(p) PROVE UNCHANGED vault
  BY <1>16 DEF download_remote_revision_as_snapshot, Step, Done, Run
<1>17. ASSUME NEW p \in Procs, NEW s \in SnapshotIds, plan_snapshot_deletion(p, s)
       PROVE  UNCHANGED vault
  BY <1>17 DEF plan_snapshot_deletion, filevars
<1>18. ASSUME NEW p \in Procs, trash_local_snapshot(p) PROVE UNCHANGED vault
  BY <1>18 DEF trash_local_snapshot, Run
<1>19. ASSUME NEW p \in Procs, TrashStep(p) PROVE UNCHANGED vault
  BY <1>19 DEF TrashStep, Step, Done, Run
<1>20. ASSUME NEW p \in Procs, RestoreStep(p) PROVE UNCHANGED vault
  BY <1>20 DEF RestoreStep, At, Done, Run
<1>21. ASSUME NEW p \in Procs, NEW o \in TrashIds, restore_trashed_snapshot(p, o)
       PROVE  UNCHANGED vault
  BY <1>21 DEF restore_trashed_snapshot, Run
<1>22. ASSUME NEW p \in Procs, plan_local_gc(p) PROVE UNCHANGED vault
  BY <1>22 DEF plan_local_gc, filevars
<1>23. ASSUME NEW p \in Procs, quarantine_local_gc_plan(p) PROVE UNCHANGED vault
  BY <1>23 DEF quarantine_local_gc_plan, filevars, Run
<1>24. ASSUME NEW p \in Procs, MoveToQuarantine(p) PROVE UNCHANGED vault
  BY <1>24 DEF MoveToQuarantine, At, Done, Run
<1>25. ASSUME NEW p \in Procs, start_purge(p) PROVE UNCHANGED vault
  BY <1>25 DEF start_purge, filevars, Run
<1>26. ASSUME NEW p \in Procs, recover_local_trash_purges(p) PROVE UNCHANGED vault
  BY <1>26 DEF recover_local_trash_purges, filevars, At, Step, Run
<1>27. ASSUME NEW p \in Procs, plan_local_trash_purge(p) PROVE UNCHANGED vault
  BY <1>27 DEF plan_local_trash_purge, At, Step, Done, Run
<1>28. ASSUME NEW p \in Procs, purge_local_trash(p) PROVE UNCHANGED vault
  BY <1>28 DEF purge_local_trash, At, Step, Run
<1>29. ASSUME NEW p \in Procs, rollback_local_trash_purge(p) PROVE UNCHANGED vault
  BY <1>29 DEF rollback_local_trash_purge, At, Step, Done, Run
<1>30. ASSUME NEW p \in Procs, finish_local_trash_purge(p) PROVE UNCHANGED vault
  BY <1>30 DEF finish_local_trash_purge, At, Step, Done, Run
<1>31. ASSUME NEW p \in Procs, start_treasure_import(p) PROVE UNCHANGED vault
  BY <1>31 DEF start_treasure_import, filevars, Run
<1>32. ASSUME NEW p \in Procs, import_treasure_as_snapshot(p) PROVE UNCHANGED vault
  BY <1>32 DEF import_treasure_as_snapshot, At, Step, Run
<1>33. ASSUME NEW p \in Procs, WriteImportedRoot(p) PROVE UNCHANGED vault
  BY <1>33 DEF WriteImportedRoot, At, Done, Run
<1>34. ASSUME NEW p \in Procs, JobFails(p) PROVE UNCHANGED vault
  BY <1>34 DEF JobFails, filevars, At, Done, Run
<1>35. ASSUME Decline PROVE UNCHANGED vault
  BY <1>35 DEF Decline, filevars
<1>36. ASSUME Crash PROVE UNCHANGED vault
  BY <1>36 DEF Crash, filevars
<1>37. ASSUME NEW p \in Procs, export_treasure_to_vault(p)
       PROVE  vault' \in [TreasureIds -> Contents \cup {None}]
  <2>1. PICK k \in TreasureIds, f \in Contents : vault' = [vault EXCEPT ![k] = f]
    BY <1>37, ChosenContents DEF export_treasure_to_vault, RepositoryInv, Typing
  <2>2. QED
    BY <2>1 DEF RepositoryInv, Typing, FileTyping
<1>38. ASSUME NEW p \in Procs, trash_treasure(p)
       PROVE  vault' \in [TreasureIds -> Contents \cup {None}]
  BY <1>38 DEF trash_treasure, RepositoryInv, Typing, FileTyping
<1>39. ASSUME UNCHANGED vars PROVE UNCHANGED vault
  BY <1>39 DEF vars, filevars
<1>40. QED
  BY <1>1, <1>2, <1>3, <1>4, <1>5, <1>6, <1>7, <1>8, <1>9, <1>10, <1>11, <1>12, <1>13,
     <1>14, <1>15, <1>16, <1>17, <1>18, <1>19, <1>20, <1>21, <1>22, <1>23, <1>24, <1>25,
     <1>26, <1>27, <1>28, <1>29, <1>30, <1>31, <1>32, <1>33, <1>34, <1>35, <1>36, <1>37,
     <1>38, <1>39 DEF Next, SnapshotStep, CleanupStep

(***************************************************************************)
(* The directories a job works on.                                         *)
(***************************************************************************)
LEMMA DirFacts ==
    ASSUME RepositoryInv, NEW p \in Procs, job[p].kind \in {"trash", "restore"}
    PROVE  /\ job[p].dir \in TrashIds /\ trash[job[p].dir] \in TrashDir
           /\ ~ trash[job[p].dir].staged /\ ~ trash[job[p].dir].manifest
<1>1. job[p].dir \in TrashIds
  BY JobShapes DEF RepositoryInv, Typing, TrashJobs, RestoreJobs
<1>2. trash[job[p].dir] # None /\ ~ trash[job[p].dir].staged /\ ~ trash[job[p].dir].manifest
  BY DEF RepositoryInv, Trashing, TrashOK
<1>3. QED
  BY <1>1, <1>2 DEF RepositoryInv, Typing, FileTyping

LEMMA PurgeFacts ==
    ASSUME RepositoryInv, NEW p \in Procs, job[p].kind = "purge",
           job[p].at \in {"stage", "rollback", "finish"}
    PROVE  /\ journal \in PurgeJournal /\ journal # None /\ journal.ops \subseteq TrashIds
           /\ StagedDirs \subseteq journal.ops
           /\ job[p].at = "stage" /\ StagedDirs # journal.ops =>
                LET o == Least(journal.ops \ StagedDirs) IN
                o \in journal.ops /\ o \notin StagedDirs /\ trash[o] \in TrashDir
           /\ StagedDirs # {} =>
                LET o == Greatest(StagedDirs) IN
                o \in journal.ops /\ o \in StagedDirs /\ trash[o] \in TrashDir
<1>1. /\ journal \in PurgeJournal /\ journal # None
      /\ job[p].at = "stage" => \A o \in journal.ops : trash[o] # None
  BY DEF RepositoryInv, Typing, FileTyping, Purging, PurgeOK
<1>2. journal.ops \subseteq TrashIds
  BY <1>1 DEF PurgeJournal
<1>3. StagedDirs \subseteq journal.ops /\ \A o \in StagedDirs : trash[o] # None
  BY DEF StagedDirs
<1>4. \A o \in TrashIds : trash[o] # None => trash[o] \in TrashDir
  BY DEF RepositoryInv, Typing, FileTyping
<1>5. ASSUME job[p].at = "stage", StagedDirs # journal.ops
      PROVE  LET o == Least(journal.ops \ StagedDirs) IN
             o \in journal.ops /\ o \notin StagedDirs /\ trash[o] \in TrashDir
  <2>1. journal.ops \ StagedDirs # {} /\ journal.ops \ StagedDirs \subseteq Nat
    BY <1>2, <1>3, <1>5, Constants
  <2>2. Least(journal.ops \ StagedDirs) \in journal.ops \ StagedDirs
    BY <2>1, LeastFacts
  <2>3. QED
    BY <1>1, <1>2, <1>4, <1>5, <2>2
<1>6. ASSUME StagedDirs # {}
      PROVE  LET o == Greatest(StagedDirs) IN
             o \in journal.ops /\ o \in StagedDirs /\ trash[o] \in TrashDir
  <2>1. StagedDirs \subseteq 1..MaxTrash /\ MaxTrash \in Nat
    BY <1>2, <1>3, Constants DEF TrashIds
  <2>2. Greatest(StagedDirs) \in StagedDirs
    BY <2>1, <1>6, GreatestFacts
  <2>3. QED
    BY <1>2, <1>3, <1>4, <2>2
<1>7. QED
  BY <1>1, <1>2, <1>3, <1>5, <1>6

\* The directories of the trash.
LEMMA TrashTyped ==
    ASSUME RepositoryInv, [Next]_vars
    PROVE  trash' \in [TrashIds -> TrashDir \cup {None}]
<1>1. CASE UNCHANGED trash
  BY <1>1 DEF RepositoryInv, Typing, FileTyping
<1>2. ASSUME NEW t \in Threads, EditThread(t) PROVE UNCHANGED trash
  BY <1>2 DEF EditThread, filevars
<1>3. ASSUME NEW p \in Procs, start_snapshot(p) PROVE UNCHANGED trash
  BY <1>3 DEF start_snapshot, filevars, Run
<1>4. ASSUME NEW p \in Procs, OpenRollout(p) PROVE UNCHANGED trash
  BY <1>4 DEF OpenRollout, filevars, Run, At
<1>5. ASSUME NEW p \in Procs, normalize_and_ingest_rollout(p) PROVE UNCHANGED trash
  BY <1>5 DEF normalize_and_ingest_rollout, At, Step, Run
<1>6. ASSUME NEW p \in Procs, NEW t \in Threads, source_fingerprint(p, t)
      PROVE  UNCHANGED trash
  BY <1>6 DEF source_fingerprint, filevars, Run, At
<1>7. ASSUME NEW p \in Procs, atomic_write_source_index(p) PROVE UNCHANGED trash
  BY <1>7 DEF atomic_write_source_index, At, Done, Step, Run
<1>8. ASSUME NEW p \in Procs, build_v4_snapshot_root(p) PROVE UNCHANGED trash
  BY <1>8 DEF build_v4_snapshot_root, At, Step, Run
<1>9. ASSUME NEW p \in Procs, write_v4_snapshot(p) PROVE UNCHANGED trash
  BY <1>9 DEF write_v4_snapshot, At, Done, Run
<1>10. ASSUME NEW p \in Procs, NEW s \in SnapshotIds, update_snapshot_metadata(p, s)
       PROVE  UNCHANGED trash
  BY <1>10 DEF update_snapshot_metadata
<1>11. ASSUME NEW p \in Procs, NEW s \in SnapshotIds, validate_local_snapshot(p, s)
       PROVE  UNCHANGED trash
  BY <1>11 DEF validate_local_snapshot, filevars, Run
<1>12. ASSUME NEW p \in Procs, EndRead(p) PROVE UNCHANGED trash
  BY <1>12 DEF EndRead, filevars, At, Done, Run
<1>13. ASSUME NEW p \in Procs, load_revision_root(p) PROVE UNCHANGED trash
  BY <1>13 DEF load_revision_root, Run
<1>14. ASSUME NEW p \in Procs, download_revision_graph(p) PROVE UNCHANGED trash
  BY <1>14 DEF download_revision_graph, At, Step, Run
<1>15. ASSUME NEW p \in Procs, EndDownload(p) PROVE UNCHANGED trash
  BY <1>15 DEF EndDownload, filevars, Done, Run
<1>16. ASSUME NEW p \in Procs, download_remote_revision_as_snapshot(p) PROVE UNCHANGED trash
  BY <1>16 DEF download_remote_revision_as_snapshot, Step, Done, Run
<1>17. ASSUME NEW p \in Procs, NEW s \in SnapshotIds, plan_snapshot_deletion(p, s)
       PROVE  UNCHANGED trash
  BY <1>17 DEF plan_snapshot_deletion, filevars
<1>18. ASSUME NEW p \in Procs, plan_local_gc(p) PROVE UNCHANGED trash
  BY <1>18 DEF plan_local_gc, filevars
<1>19. ASSUME NEW p \in Procs, quarantine_local_gc_plan(p) PROVE UNCHANGED trash
  BY <1>19 DEF quarantine_local_gc_plan, filevars, Run
<1>20. ASSUME NEW p \in Procs, MoveToQuarantine(p) PROVE UNCHANGED trash
  BY <1>20 DEF MoveToQuarantine, At, Done, Run
<1>21. ASSUME NEW p \in Procs, start_purge(p) PROVE UNCHANGED trash
  BY <1>21 DEF start_purge, filevars, Run
<1>22. ASSUME NEW p \in Procs, recover_local_trash_purges(p) PROVE UNCHANGED trash
  BY <1>22 DEF recover_local_trash_purges, filevars, At, Step, Run
<1>23. ASSUME NEW p \in Procs, plan_local_trash_purge(p) PROVE UNCHANGED trash
  BY <1>23 DEF plan_local_trash_purge, At, Step, Done, Run
<1>24. ASSUME NEW p \in Procs, export_treasure_to_vault(p) PROVE UNCHANGED trash
  BY <1>24 DEF export_treasure_to_vault
<1>25. ASSUME NEW p \in Procs, trash_treasure(p) PROVE UNCHANGED trash
  BY <1>25 DEF trash_treasure
<1>26. ASSUME NEW p \in Procs, start_treasure_import(p) PROVE UNCHANGED trash
  BY <1>26 DEF start_treasure_import, filevars, Run
<1>27. ASSUME NEW p \in Procs, import_treasure_as_snapshot(p) PROVE UNCHANGED trash
  BY <1>27 DEF import_treasure_as_snapshot, At, Step, Run
<1>28. ASSUME NEW p \in Procs, WriteImportedRoot(p) PROVE UNCHANGED trash
  BY <1>28 DEF WriteImportedRoot, At, Done, Run
<1>29. ASSUME NEW p \in Procs, JobFails(p) PROVE UNCHANGED trash
  BY <1>29 DEF JobFails, filevars, At, Done, Run
<1>30. ASSUME Decline PROVE UNCHANGED trash
  BY <1>30 DEF Decline, filevars
<1>31. ASSUME Crash PROVE UNCHANGED trash
  BY <1>31 DEF Crash, filevars
<1>32. ASSUME NEW p \in Procs, trash_local_snapshot(p)
       PROVE  trash' \in [TrashIds -> TrashDir \cup {None}]
  <2>1. plan.snap \in SnapshotIds /\ FreeDir \in TrashIds
    BY <1>32, FreeDirFacts DEF trash_local_snapshot, MayTrash, RepositoryInv, Typing, RootTyping
  <2>2. [snap |-> plan.snap, entry |-> FALSE, manifest |-> FALSE, staged |-> FALSE] \in TrashDir
    BY <2>1 DEF TrashDir
  <2>3. QED
    BY <1>32, <2>1, <2>2 DEF trash_local_snapshot, RepositoryInv, Typing, FileTyping
<1>33. ASSUME NEW p \in Procs, TrashStep(p)
       PROVE  trash' \in [TrashIds -> TrashDir \cup {None}]
  <2>1. job[p].dir \in TrashIds /\ trash[job[p].dir] \in TrashDir
    BY <1>33, DirFacts DEF TrashStep
  <2>2. /\ [trash[job[p].dir] EXCEPT !.entry = TRUE] \in TrashDir
        /\ [trash[job[p].dir] EXCEPT !.manifest = TRUE] \in TrashDir
    BY <2>1 DEF TrashDir
  <2>3. \/ trash' = [trash EXCEPT ![job[p].dir] = [trash[job[p].dir] EXCEPT !.entry = TRUE]]
        \/ trash' = [trash EXCEPT ![job[p].dir] = [trash[job[p].dir] EXCEPT !.manifest = TRUE]]
    BY <1>33 DEF TrashStep, MoveManifest
  <2>4. QED
    BY <2>1, <2>2, <2>3 DEF RepositoryInv, Typing, FileTyping
<1>34. ASSUME NEW p \in Procs, RestoreStep(p)
       PROVE  trash' \in [TrashIds -> TrashDir \cup {None}]
  <2>1. job[p].dir \in TrashIds /\ trash[job[p].dir] \in TrashDir
    BY <1>34, DirFacts DEF RestoreStep, At
  <2>2. [trash[job[p].dir] EXCEPT !.entry = FALSE] \in TrashDir
    BY <2>1 DEF TrashDir
  <2>3. \/ trash' = [trash EXCEPT ![job[p].dir] = [trash[job[p].dir] EXCEPT !.entry = FALSE]]
        \/ trash' = [trash EXCEPT ![job[p].dir] = None]
    BY <1>34 DEF RestoreStep
  <2>4. QED
    BY <2>1, <2>2, <2>3 DEF RepositoryInv, Typing, FileTyping
<1>35. ASSUME NEW p \in Procs, NEW o \in TrashIds, restore_trashed_snapshot(p, o)
       PROVE  trash' \in [TrashIds -> TrashDir \cup {None}]
  <2>1. trash[o] \in TrashDir
    BY <1>35 DEF restore_trashed_snapshot, InTrash, RepositoryInv, Typing, FileTyping
  <2>2. [trash[o] EXCEPT !.manifest = FALSE] \in TrashDir
    BY <2>1 DEF TrashDir
  <2>3. trash' = [trash EXCEPT ![o] = [trash[o] EXCEPT !.manifest = FALSE]]
    BY <1>35 DEF restore_trashed_snapshot, MoveManifest
  <2>4. QED
    BY <2>2, <2>3 DEF RepositoryInv, Typing, FileTyping
<1>36. ASSUME NEW p \in Procs, purge_local_trash(p)
       PROVE  trash' \in [TrashIds -> TrashDir \cup {None}]
  <2> DEFINE o == Least(journal.ops \ StagedDirs)
  <2>1. CASE trash' = [trash EXCEPT ![o].staged = TRUE] /\ StagedDirs # journal.ops
    <3>1. o \in TrashIds /\ trash[o] \in TrashDir
      BY <1>36, <2>1, PurgeFacts DEF purge_local_trash, At
    <3>2. [trash[o] EXCEPT !.staged = TRUE] \in TrashDir
      BY <3>1 DEF TrashDir
    <3> HIDE DEF o
    <3>3. trash' = [trash EXCEPT ![o] = [trash[o] EXCEPT !.staged = TRUE]]
      BY <2>1
    <3>4. QED
      BY <3>1, <3>2, <3>3 DEF RepositoryInv, Typing, FileTyping
  <2>2. CASE UNCHANGED trash
    BY <2>2 DEF RepositoryInv, Typing, FileTyping
  <2>3. QED
    BY <1>36, <2>1, <2>2 DEF purge_local_trash
<1>37. ASSUME NEW p \in Procs, rollback_local_trash_purge(p)
       PROVE  trash' \in [TrashIds -> TrashDir \cup {None}]
  <2> DEFINE o == Greatest(StagedDirs)
  <2>1. CASE trash' = [trash EXCEPT ![o].staged = FALSE] /\ StagedDirs # {}
    <3>1. o \in TrashIds /\ trash[o] \in TrashDir
      BY <1>37, <2>1, PurgeFacts DEF rollback_local_trash_purge, At
    <3>2. [trash[o] EXCEPT !.staged = FALSE] \in TrashDir
      BY <3>1 DEF TrashDir
    <3> HIDE DEF o
    <3>3. trash' = [trash EXCEPT ![o] = [trash[o] EXCEPT !.staged = FALSE]]
      BY <2>1
    <3>4. QED
      BY <3>1, <3>2, <3>3 DEF RepositoryInv, Typing, FileTyping
  <2>2. CASE UNCHANGED trash
    BY <2>2 DEF RepositoryInv, Typing, FileTyping
  <2>3. QED
    BY <1>37, <2>1, <2>2 DEF rollback_local_trash_purge
<1>38. ASSUME NEW p \in Procs, finish_local_trash_purge(p)
       PROVE  trash' \in [TrashIds -> TrashDir \cup {None}]
  BY <1>38 DEF finish_local_trash_purge, At, Step, Done, Run, RepositoryInv, Typing,
         FileTyping
<1>39. ASSUME UNCHANGED vars PROVE UNCHANGED trash
  BY <1>39 DEF vars, filevars
<1>40. QED
  BY <1>1, <1>2, <1>3, <1>4, <1>5, <1>6, <1>7, <1>8, <1>9, <1>10, <1>11, <1>12, <1>13,
     <1>14, <1>15, <1>16, <1>17, <1>18, <1>19, <1>20, <1>21, <1>22, <1>23, <1>24, <1>25,
     <1>26, <1>27, <1>28, <1>29, <1>30, <1>31, <1>32, <1>33, <1>34, <1>35, <1>36, <1>37,
     <1>38, <1>39 DEF Next, SnapshotStep, CleanupStep

(***************************************************************************)
(* Snapshots are numbered one after the other.                             *)
(***************************************************************************)
LEMMA NewSnapshotFacts ==
    ASSUME RootTyping, NEW f \in Contents, NewSnapshot(f)
    PROVE  \E s \in SnapshotIds \ DOMAIN roots :
             /\ roots' = Extend(roots, s, f) /\ listed' = listed \cup {s}
             /\ DOMAIN roots' = DOMAIN roots \cup {s} /\ roots'[s] = f
             /\ \A r \in DOMAIN roots : roots'[r] = roots[r] /\ r < s
             /\ \A r \in SnapshotIds : r < s => r \in DOMAIN roots
<1>1. PICK s \in SnapshotIds \ DOMAIN roots :
        /\ \A r \in SnapshotIds \ DOMAIN roots : s <= r
        /\ roots' = Extend(roots, s, f) /\ listed' = listed \cup {s}
  BY DEF NewSnapshot
<1>2. /\ DOMAIN roots' = DOMAIN roots \cup {s} /\ roots'[s] = f
      /\ \A r \in DOMAIN roots : roots'[r] = roots[r]
  BY <1>1 DEF Extend
<1>3. \A r \in DOMAIN roots : r \in Nat /\ r < s
  <2>1. \A r \in DOMAIN roots : r \in Nat /\ s \in Nat /\ r # s
    BY <1>1, Constants DEF RootTyping
  <2>2. \A r \in DOMAIN roots : ~ (s < r)
    BY <1>1 DEF RootTyping
  <2>3. QED
    BY <2>1, <2>2
<1>4. \A r \in SnapshotIds : r < s => r \in DOMAIN roots
  BY <1>1, Constants
<1>5. QED
  BY <1>1, <1>2, <1>3, <1>4

LEMMA NewSnapshotTyped ==
    ASSUME RootTyping, NEW f \in Contents, NewSnapshot(f), UNCHANGED trash PROVE RootTyping'
<1>1. PICK s \in SnapshotIds \ DOMAIN roots :
             /\ listed' = listed \cup {s}
             /\ DOMAIN roots' = DOMAIN roots \cup {s} /\ roots'[s] = f
             /\ \A r \in DOMAIN roots : roots'[r] = roots[r] /\ r < s
             /\ \A r \in SnapshotIds : r < s => r \in DOMAIN roots
  BY NewSnapshotFacts
<1>2. QED
  BY <1>1 DEF RootTyping

\* The entries of the trash are entries of snapshots that were written.
LEMMA TrashRooted ==
    ASSUME RootTyping, trash' \in [TrashIds -> TrashDir \cup {None}], NEW o, NEW d,
           trash' = [trash EXCEPT ![o] = d], d # None => d.snap \in DOMAIN roots, o \in TrashIds,
           trash \in [TrashIds -> TrashDir \cup {None}], UNCHANGED roots, listed' \subseteq DOMAIN roots
    PROVE  RootTyping'
  BY DEF RootTyping

\* The list and the trash name snapshots that were written.
LEMMA RootsTyped ==
    ASSUME RepositoryInv, [Next]_vars
    PROVE  RootTyping'
<1>1. CASE UNCHANGED <<roots, listed, trash>>
  BY <1>1 DEF RepositoryInv, Typing, RootTyping
<1>2. ASSUME NEW t \in Threads, EditThread(t) PROVE UNCHANGED <<roots, listed, trash>>
  BY <1>2 DEF EditThread, filevars
<1>3. ASSUME NEW p \in Procs, start_snapshot(p) PROVE UNCHANGED <<roots, listed, trash>>
  BY <1>3 DEF start_snapshot, filevars, Run
<1>4. ASSUME NEW p \in Procs, OpenRollout(p) PROVE UNCHANGED <<roots, listed, trash>>
  BY <1>4 DEF OpenRollout, filevars, Run, At
<1>5. ASSUME NEW p \in Procs, normalize_and_ingest_rollout(p)
      PROVE  UNCHANGED <<roots, listed, trash>>
  BY <1>5 DEF normalize_and_ingest_rollout, At, Step, Run
<1>6. ASSUME NEW p \in Procs, NEW t \in Threads, source_fingerprint(p, t)
      PROVE  UNCHANGED <<roots, listed, trash>>
  BY <1>6 DEF source_fingerprint, filevars, Run, At
<1>7. ASSUME NEW p \in Procs, atomic_write_source_index(p)
      PROVE  UNCHANGED <<roots, listed, trash>>
  BY <1>7 DEF atomic_write_source_index, At, Done, Step, Run
<1>8. ASSUME NEW p \in Procs, build_v4_snapshot_root(p)
      PROVE  UNCHANGED <<roots, listed, trash>>
  BY <1>8 DEF build_v4_snapshot_root, At, Step, Run
<1>9. ASSUME NEW p \in Procs, NEW s \in SnapshotIds, update_snapshot_metadata(p, s)
      PROVE  UNCHANGED <<roots, listed, trash>>
  BY <1>9 DEF update_snapshot_metadata
<1>10. ASSUME NEW p \in Procs, NEW s \in SnapshotIds, validate_local_snapshot(p, s)
       PROVE  UNCHANGED <<roots, listed, trash>>
  BY <1>10 DEF validate_local_snapshot, filevars, Run
<1>11. ASSUME NEW p \in Procs, EndRead(p) PROVE UNCHANGED <<roots, listed, trash>>
  BY <1>11 DEF EndRead, filevars, At, Done, Run
<1>12. ASSUME NEW p \in Procs, load_revision_root(p)
       PROVE  UNCHANGED <<roots, listed, trash>>
  BY <1>12 DEF load_revision_root, Run
<1>13. ASSUME NEW p \in Procs, download_revision_graph(p)
       PROVE  UNCHANGED <<roots, listed, trash>>
  BY <1>13 DEF download_revision_graph, At, Step, Run
<1>14. ASSUME NEW p \in Procs, EndDownload(p) PROVE UNCHANGED <<roots, listed, trash>>
  BY <1>14 DEF EndDownload, filevars, Done, Run
<1>15. ASSUME NEW p \in Procs, NEW s \in SnapshotIds, plan_snapshot_deletion(p, s)
       PROVE  UNCHANGED <<roots, listed, trash>>
  BY <1>15 DEF plan_snapshot_deletion, filevars
<1>16. ASSUME NEW p \in Procs, plan_local_gc(p) PROVE UNCHANGED <<roots, listed, trash>>
  BY <1>16 DEF plan_local_gc, filevars
<1>17. ASSUME NEW p \in Procs, quarantine_local_gc_plan(p)
       PROVE  UNCHANGED <<roots, listed, trash>>
  BY <1>17 DEF quarantine_local_gc_plan, filevars, Run
<1>18. ASSUME NEW p \in Procs, MoveToQuarantine(p) PROVE UNCHANGED <<roots, listed, trash>>
  BY <1>18 DEF MoveToQuarantine, At, Done, Run
<1>19. ASSUME NEW p \in Procs, start_purge(p) PROVE UNCHANGED <<roots, listed, trash>>
  BY <1>19 DEF start_purge, filevars, Run
<1>20. ASSUME NEW p \in Procs, recover_local_trash_purges(p)
       PROVE  UNCHANGED <<roots, listed, trash>>
  BY <1>20 DEF recover_local_trash_purges, filevars, At, Step, Run
<1>21. ASSUME NEW p \in Procs, plan_local_trash_purge(p)
       PROVE  UNCHANGED <<roots, listed, trash>>
  BY <1>21 DEF plan_local_trash_purge, At, Step, Done, Run
<1>22. ASSUME NEW p \in Procs, export_treasure_to_vault(p)
       PROVE  UNCHANGED <<roots, listed, trash>>
  BY <1>22 DEF export_treasure_to_vault
<1>23. ASSUME NEW p \in Procs, trash_treasure(p) PROVE UNCHANGED <<roots, listed, trash>>
  BY <1>23 DEF trash_treasure
<1>24. ASSUME NEW p \in Procs, start_treasure_import(p)
       PROVE  UNCHANGED <<roots, listed, trash>>
  BY <1>24 DEF start_treasure_import, filevars, Run
<1>25. ASSUME NEW p \in Procs, import_treasure_as_snapshot(p)
       PROVE  UNCHANGED <<roots, listed, trash>>
  BY <1>25 DEF import_treasure_as_snapshot, At, Step, Run
<1>26. ASSUME NEW p \in Procs, JobFails(p) PROVE UNCHANGED <<roots, listed, trash>>
  BY <1>26 DEF JobFails, filevars, At, Done, Run
<1>27. ASSUME Decline PROVE UNCHANGED <<roots, listed, trash>>
  BY <1>27 DEF Decline, filevars
<1>28. ASSUME Crash PROVE UNCHANGED <<roots, listed, trash>>
  BY <1>28 DEF Crash, filevars
<1>29. ASSUME NEW p \in Procs, write_v4_snapshot(p) PROVE RootTyping'
  BY <1>29, BuildFacts, NewSnapshotTyped DEF write_v4_snapshot, At, RepositoryInv, Typing
<1>30. ASSUME NEW p \in Procs, download_remote_revision_as_snapshot(p) PROVE RootTyping'
  BY <1>30, RemoteContents, NewSnapshotTyped DEF download_remote_revision_as_snapshot, RepositoryInv, Typing, RootTyping
<1>31. ASSUME NEW p \in Procs, trash_local_snapshot(p) PROVE RootTyping'
  <2>1. /\ trash' \in [TrashIds -> TrashDir \cup {None}] /\ RootTyping
        /\ trash \in [TrashIds -> TrashDir \cup {None}] /\ UNCHANGED roots
    BY <1>31, TrashTyped DEF trash_local_snapshot, RepositoryInv, Typing, FileTyping
  <2>2. plan.snap \in DOMAIN roots /\ FreeDir \in TrashIds /\ UNCHANGED listed
    BY <1>31, FreeDirFacts DEF trash_local_snapshot, MayTrash, RepositoryInv, Typing, RootTyping
  <2> DEFINE d == [snap |-> plan.snap, entry |-> FALSE, manifest |-> FALSE, staged |-> FALSE]
  <2>3. trash' = [trash EXCEPT ![FreeDir] = d] /\ d.snap = plan.snap
    BY <1>31 DEF trash_local_snapshot
  <2> HIDE DEF d
  <2>4. listed' \subseteq DOMAIN roots
    BY <2>1, <2>2 DEF RootTyping
  <2>5. QED
    BY <2>1, <2>2, <2>3, <2>4, TrashRooted
<1>32. ASSUME NEW p \in Procs, TrashStep(p) PROVE RootTyping'
  <2>1. /\ trash' \in [TrashIds -> TrashDir \cup {None}] /\ RootTyping
        /\ trash \in [TrashIds -> TrashDir \cup {None}] /\ UNCHANGED roots
    BY <1>32, TrashTyped DEF TrashStep, RepositoryInv, Typing, FileTyping
  <2>2. job[p].dir \in TrashIds /\ trash[job[p].dir] \in TrashDir /\ trash[job[p].dir] # None
    BY <1>32, DirFacts, Constants DEF TrashStep
  <2>3. trash[job[p].dir].snap \in DOMAIN roots
    BY <2>1, <2>2 DEF RootTyping
  <2>4. \E d \in {[trash[job[p].dir] EXCEPT !.entry = TRUE], [trash[job[p].dir] EXCEPT !.manifest = TRUE]} :
          trash' = [trash EXCEPT ![job[p].dir] = d]
    BY <1>32 DEF TrashStep, MoveManifest
  <2>5. PICK d : trash' = [trash EXCEPT ![job[p].dir] = d] /\ d.snap = trash[job[p].dir].snap
    BY <2>2, <2>4 DEF TrashDir
  <2>6. listed' \subseteq DOMAIN roots
    BY <1>32, <2>1 DEF TrashStep, MoveManifest, RootTyping
  <2>7. QED
    BY <2>1, <2>2, <2>3, <2>5, <2>6, TrashRooted
<1>33. ASSUME NEW p \in Procs, RestoreStep(p) PROVE RootTyping'
  <2>1. /\ trash' \in [TrashIds -> TrashDir \cup {None}] /\ RootTyping
        /\ trash \in [TrashIds -> TrashDir \cup {None}] /\ UNCHANGED roots
    BY <1>33, TrashTyped DEF RestoreStep, RepositoryInv, Typing, FileTyping
  <2>2. job[p].dir \in TrashIds /\ trash[job[p].dir] \in TrashDir /\ trash[job[p].dir] # None
    BY <1>33, DirFacts, Constants DEF RestoreStep, At
  <2>3. trash[job[p].dir].snap \in DOMAIN roots
    BY <2>1, <2>2 DEF RootTyping
  <2>4. PICK d \in {None, [trash[job[p].dir] EXCEPT !.entry = FALSE]} :
          trash' = [trash EXCEPT ![job[p].dir] = d]
    BY <1>33 DEF RestoreStep
  <2>5. d # None => d.snap = trash[job[p].dir].snap
    BY <2>2, <2>4 DEF TrashDir
  <2>6. listed' \subseteq DOMAIN roots
    BY <1>33, <2>1 DEF RestoreStep, RootTyping
  <2>7. QED
    BY <2>1, <2>2, <2>3, <2>4, <2>5, <2>6, TrashRooted
<1>34. ASSUME NEW p \in Procs, NEW o \in TrashIds, restore_trashed_snapshot(p, o)
       PROVE  RootTyping'
  <2>1. /\ trash' \in [TrashIds -> TrashDir \cup {None}] /\ RootTyping
        /\ trash \in [TrashIds -> TrashDir \cup {None}] /\ UNCHANGED roots
    BY <1>34, TrashTyped DEF restore_trashed_snapshot, RepositoryInv, Typing, FileTyping
  <2>2. trash[o] \in TrashDir /\ trash[o] # None
    BY <1>34, Constants DEF restore_trashed_snapshot, InTrash, RepositoryInv, Typing, FileTyping
  <2>3. trash[o].snap \in DOMAIN roots
    BY <2>1, <2>2 DEF RootTyping
  <2>4. trash' = [trash EXCEPT ![o] = [trash[o] EXCEPT !.manifest = FALSE]]
    BY <1>34 DEF restore_trashed_snapshot, MoveManifest
  <2>5. PICK d : trash' = [trash EXCEPT ![o] = d] /\ d.snap = trash[o].snap
    BY <2>2, <2>4 DEF TrashDir
  <2>6. listed' \subseteq DOMAIN roots
    BY <1>34, <2>1, <2>3 DEF restore_trashed_snapshot, MoveManifest, RootTyping
  <2>7. QED
    BY <2>1, <2>2, <2>3, <2>5, <2>6, TrashRooted
<1>35. ASSUME NEW p \in Procs, purge_local_trash(p) PROVE RootTyping'
  <2>1. /\ trash' \in [TrashIds -> TrashDir \cup {None}] /\ RootTyping
        /\ trash \in [TrashIds -> TrashDir \cup {None}] /\ UNCHANGED roots
    BY <1>35, TrashTyped DEF purge_local_trash, RepositoryInv, Typing, FileTyping
  <2>2. listed' \subseteq DOMAIN roots
    BY <1>35, <2>1 DEF purge_local_trash, RootTyping
  <2> DEFINE o == Least(journal.ops \ StagedDirs)
  <2>3. CASE trash' = [trash EXCEPT ![o].staged = TRUE] /\ StagedDirs # journal.ops
    <3>1. o \in TrashIds /\ trash[o] \in TrashDir /\ trash[o] # None
      BY <1>35, <2>3, PurgeFacts, Constants DEF purge_local_trash, At
    <3> HIDE DEF o
    <3>2. trash' = [trash EXCEPT ![o] = [trash[o] EXCEPT !.staged = TRUE]]
      BY <2>3
    <3>3. [trash[o] EXCEPT !.staged = TRUE].snap = trash[o].snap
      BY <3>1 DEF TrashDir
    <3>4. PICK d : trash' = [trash EXCEPT ![o] = d] /\ d.snap = trash[o].snap
      BY <3>2, <3>3
    <3>5. trash[o].snap \in DOMAIN roots
      BY <2>1, <3>1 DEF RootTyping
    <3>6. QED
      BY <2>1, <2>2, <3>1, <3>4, <3>5, TrashRooted
  <2>4. CASE UNCHANGED trash
    BY <2>1, <2>2, <2>4 DEF RootTyping
  <2>5. QED
    BY <1>35, <2>3, <2>4 DEF purge_local_trash
<1>36. ASSUME NEW p \in Procs, rollback_local_trash_purge(p) PROVE RootTyping'
  <2>1. /\ trash' \in [TrashIds -> TrashDir \cup {None}] /\ RootTyping
        /\ trash \in [TrashIds -> TrashDir \cup {None}] /\ UNCHANGED roots
    BY <1>36, TrashTyped DEF rollback_local_trash_purge, RepositoryInv, Typing, FileTyping
  <2>2. listed' \subseteq DOMAIN roots
    BY <1>36, <2>1 DEF rollback_local_trash_purge, RootTyping
  <2> DEFINE o == Greatest(StagedDirs)
  <2>3. CASE trash' = [trash EXCEPT ![o].staged = FALSE] /\ StagedDirs # {}
    <3>1. o \in TrashIds /\ trash[o] \in TrashDir /\ trash[o] # None
      BY <1>36, <2>3, PurgeFacts, Constants DEF rollback_local_trash_purge, At
    <3> HIDE DEF o
    <3>2. trash' = [trash EXCEPT ![o] = [trash[o] EXCEPT !.staged = FALSE]]
      BY <2>3
    <3>3. [trash[o] EXCEPT !.staged = FALSE].snap = trash[o].snap
      BY <3>1 DEF TrashDir
    <3>4. PICK d : trash' = [trash EXCEPT ![o] = d] /\ d.snap = trash[o].snap
      BY <3>2, <3>3
    <3>5. trash[o].snap \in DOMAIN roots
      BY <2>1, <3>1 DEF RootTyping
    <3>6. QED
      BY <2>1, <2>2, <3>1, <3>4, <3>5, TrashRooted
  <2>4. CASE UNCHANGED trash
    BY <2>1, <2>2, <2>4 DEF RootTyping
  <2>5. QED
    BY <1>36, <2>3, <2>4 DEF rollback_local_trash_purge
<1>37. ASSUME NEW p \in Procs, finish_local_trash_purge(p) PROVE RootTyping'
  <2>1. UNCHANGED <<roots, listed>> /\ \A o \in TrashIds : trash'[o] # None => trash'[o] = trash[o]
    BY <1>37 DEF finish_local_trash_purge
  <2>2. QED
    BY <2>1 DEF RepositoryInv, Typing, RootTyping
<1>38. ASSUME NEW p \in Procs, WriteImportedRoot(p) PROVE RootTyping'
  BY <1>38, ImportFacts, NewSnapshotTyped DEF WriteImportedRoot, At, RepositoryInv, Typing
<1>39. ASSUME UNCHANGED vars PROVE UNCHANGED <<roots, listed, trash>>
  BY <1>39 DEF vars, filevars
<1>40. QED
  BY <1>1, <1>2, <1>3, <1>4, <1>5, <1>6, <1>7, <1>8, <1>9, <1>10, <1>11, <1>12, <1>13,
     <1>14, <1>15, <1>16, <1>17, <1>18, <1>19, <1>20, <1>21, <1>22, <1>23, <1>24, <1>25,
     <1>26, <1>27, <1>28, <1>29, <1>30, <1>31, <1>32, <1>33, <1>34, <1>35, <1>36, <1>37,
     <1>38, <1>39 DEF Next, SnapshotStep, CleanupStep

(***************************************************************************)
(* Jobs.                                                                   *)
(***************************************************************************)
LEMMA JobKinds ==
    ASSUME NEW j
    PROVE  /\ j \in SnapshotJobs => JobOK(j)
           /\ j \in ReadJobs => JobOK(j)
           /\ j \in DownloadJobs => JobOK(j)
           /\ j \in TrashJobs => JobOK(j)
           /\ j \in RestoreJobs => JobOK(j)
           /\ j \in ImportJobs => JobOK(j)
           /\ j.kind = "gc" /\ j \in GcJobs(j.todo) => JobOK(j)
           /\ j.kind = "purge" /\ j \in PurgeJobs(j.ops) => JobOK(j)
  BY DEF JobOK

LEMMA StepFacts ==
    ASSUME JobTyping, NEW p \in Procs, NEW at, Step(p, at), job[p].kind # "idle",
           \/ job[p].kind = "snapshot" /\ at \in {"thread", "build", "root"}
           \/ job[p].kind = "download" /\ at \in {"build", "root"}
           \/ job[p].kind = "trash" /\ at = "manifest"
           \/ job[p].kind = "purge" /\ at \in {"recover", "plan", "stage", "rollback", "finish"}
           \/ job[p].kind = "import" /\ at = "root"
    PROVE  /\ JobTyping' /\ job'[p] = [job[p] EXCEPT !.at = at]
           /\ \A q \in Procs : q # p => job'[q] = job[q]
<1> DEFINE j == [job[p] EXCEPT !.at = at]
<1>1. CASE job[p].kind = "snapshot" /\ at \in {"thread", "build", "root"}
  <2>1. job[p] \in SnapshotJobs
    BY <1>1, JobShapes
  <2>2. j \in SnapshotJobs
    BY <1>1, <2>1 DEF SnapshotJobs
  <2>3. QED
    BY <2>2, JobKinds, JobsStay DEF Step
<1>2. CASE job[p].kind = "download" /\ at \in {"build", "root"}
  <2>1. job[p] \in DownloadJobs
    BY <1>2, JobShapes
  <2>2. j \in DownloadJobs
    BY <1>2, <2>1 DEF DownloadJobs
  <2>3. QED
    BY <2>2, JobKinds, JobsStay DEF Step
<1>3. CASE job[p].kind = "trash" /\ at = "manifest"
  <2>1. job[p] \in TrashJobs
    BY <1>3, JobShapes
  <2>2. j \in TrashJobs
    BY <1>3, <2>1 DEF TrashJobs
  <2>3. QED
    BY <2>2, JobKinds, JobsStay DEF Step
<1>4. CASE job[p].kind = "purge" /\ at \in {"recover", "plan", "stage", "rollback", "finish"}
  <2>1. job[p] \in PurgeJobs(job[p].ops)
    BY <1>4, JobShapes
  <2>2. j.kind = "purge" /\ j \in PurgeJobs(j.ops)
    BY <1>4, <2>1 DEF PurgeJobs
  <2>3. QED
    BY <2>2, JobKinds, JobsStay DEF Step
<1>5. CASE job[p].kind = "import" /\ at = "root"
  <2>1. job[p] \in ImportJobs
    BY <1>5, JobShapes
  <2>2. j \in ImportJobs
    BY <1>5, <2>1 DEF ImportJobs
  <2>3. QED
    BY <2>2, JobKinds, JobsStay DEF Step
<1>6. QED
  BY <1>1, <1>2, <1>3, <1>4, <1>5

\* A job goes from one of its steps to the next.
LEMMA JobsTyped ==
    ASSUME RepositoryInv, [Next]_vars
    PROVE  JobTyping'
<1>1. CASE UNCHANGED job
  BY <1>1 DEF RepositoryInv, Typing, JobTyping, JobOK
<1>2. ASSUME NEW t \in Threads, EditThread(t) PROVE UNCHANGED job
  BY <1>2 DEF EditThread, filevars
<1>3. ASSUME NEW p \in Procs, NEW s \in SnapshotIds, update_snapshot_metadata(p, s)
      PROVE  UNCHANGED job
  BY <1>3 DEF update_snapshot_metadata
<1>4. ASSUME NEW p \in Procs, NEW s \in SnapshotIds, plan_snapshot_deletion(p, s)
      PROVE  UNCHANGED job
  BY <1>4 DEF plan_snapshot_deletion, filevars
<1>5. ASSUME NEW p \in Procs, plan_local_gc(p) PROVE UNCHANGED job
  BY <1>5 DEF plan_local_gc, filevars
<1>6. ASSUME NEW p \in Procs, export_treasure_to_vault(p) PROVE UNCHANGED job
  BY <1>6 DEF export_treasure_to_vault
<1>7. ASSUME NEW p \in Procs, trash_treasure(p) PROVE UNCHANGED job
  BY <1>7 DEF trash_treasure
<1>8. ASSUME Decline PROVE UNCHANGED job
  BY <1>8 DEF Decline, filevars
<1>9. ASSUME NEW p \in Procs, start_snapshot(p) PROVE JobTyping'
  <2>1. PICK selected \in SUBSET Threads : Run(p, SnapshotJob(selected))
    BY <1>9 DEF start_snapshot
  <2>2. SnapshotJob(selected) \in SnapshotJobs
    BY EmptyContents DEF SnapshotJob, SnapshotJobs, RepositoryInv, Typing, FileTyping
  <2>3. QED
    BY <2>1, <2>2, JobKinds, JobsStay DEF RepositoryInv, Typing
<1>10. ASSUME NEW p \in Procs, OpenRollout(p) PROVE JobTyping'
  <2>1. job[p] \in SnapshotJobs
    BY <1>10, BuildFacts DEF OpenRollout, At, RepositoryInv, Typing
  <2>2. PICK t \in Unread(p) :
          Run(p, [job[p] EXCEPT !.contents = Extend(@, t, home[t]), !.at = "install"])
    BY <1>10 DEF OpenRollout
  <2>3. job[p].contents \in Contents /\ job[p].fingerprint \in Contents
    BY <2>1 DEF SnapshotJobs
  <2>4. t \in Threads /\ home[t] \in Version
    BY <2>2, <2>3, ContentsValue DEF Unread, RepositoryInv, Typing, FileTyping
  <2>5. Extend(job[p].contents, t, home[t]) \in Contents
    BY <2>3, <2>4, ExtendContents
  <2>6. [job[p] EXCEPT !.contents = Extend(@, t, home[t]), !.at = "install"] \in SnapshotJobs
    BY <2>1, <2>5 DEF SnapshotJobs
  <2>7. QED
    BY <2>2, <2>6, JobKinds, JobsStay DEF RepositoryInv, Typing
<1>11. ASSUME NEW p \in Procs, normalize_and_ingest_rollout(p) PROVE JobTyping'
  BY <1>11, StepFacts DEF normalize_and_ingest_rollout, At, RepositoryInv, Typing, JobTyping, JobOK
<1>12. ASSUME NEW p \in Procs, NEW t \in Threads, source_fingerprint(p, t) PROVE JobTyping'
  <2> DEFINE j == [job[p] EXCEPT
              !.fingerprint = Extend(@, t, home[t]),
              !.contents = IF Cached(t) THEN Extend(@, t, index[t].content) ELSE @,
              !.todo = @ \ {t},
              !.at = IF Cached(t) THEN "thread" ELSE "read"]
  <2>1. job[p] \in SnapshotJobs /\ Run(p, j)
    BY <1>12, BuildFacts DEF source_fingerprint, At, RepositoryInv, Typing
  <2>2. job[p].contents \in Contents /\ job[p].fingerprint \in Contents
    BY <2>1 DEF SnapshotJobs
  <2>3. home[t] \in Version /\ (Cached(t) => index[t].content \in Version)
    BY DEF Cached, IndexEntry, RepositoryInv, Typing, FileTyping
  <2>4. Extend(job[p].fingerprint, t, home[t]) \in Contents
    BY <2>2, <2>3, ExtendContents
  <2>5. Cached(t) => Extend(job[p].contents, t, index[t].content) \in Contents
    BY <2>2, <2>3, ExtendContents
  <2>6. j \in SnapshotJobs
    BY <2>1, <2>2, <2>4, <2>5 DEF SnapshotJobs
  <2>7. QED
    BY <2>1, <2>6, JobKinds, JobsStay DEF RepositoryInv, Typing
<1>13. ASSUME NEW p \in Procs, atomic_write_source_index(p) PROVE JobTyping'
  BY <1>13, StepFacts, DoneFacts DEF atomic_write_source_index, At, RepositoryInv, Typing
<1>14. ASSUME NEW p \in Procs, build_v4_snapshot_root(p) PROVE JobTyping'
  BY <1>14, StepFacts DEF build_v4_snapshot_root, At, RepositoryInv, Typing
<1>15. ASSUME NEW p \in Procs, write_v4_snapshot(p) PROVE JobTyping'
  BY <1>15, DoneFacts DEF write_v4_snapshot, RepositoryInv, Typing
<1>16. ASSUME NEW p \in Procs, NEW s \in SnapshotIds, validate_local_snapshot(p, s)
       PROVE  JobTyping'
  <2>1. [kind |-> "read", lease |-> "shared", at |-> "read", snap |-> s] \in ReadJobs
    BY <1>16 DEF ReadJobs
  <2>2. QED
    BY <1>16, <2>1, JobKinds, JobsStay DEF validate_local_snapshot, RepositoryInv, Typing
<1>17. ASSUME NEW p \in Procs, EndRead(p) PROVE JobTyping'
  BY <1>17, DoneFacts DEF EndRead, RepositoryInv, Typing
<1>18. ASSUME NEW p \in Procs, load_revision_root(p) PROVE JobTyping'
  <2>1. [kind |-> "download", lease |-> "shared", at |-> "thread"] \in DownloadJobs
    BY <1>18 DEF DownloadJobs
  <2>2. QED
    BY <1>18, <2>1, JobKinds, JobsStay DEF load_revision_root, RepositoryInv, Typing
<1>19. ASSUME NEW p \in Procs, download_revision_graph(p) PROVE JobTyping'
  BY <1>19, StepFacts DEF download_revision_graph, At, RepositoryInv, Typing, JobTyping, JobOK
<1>20. ASSUME NEW p \in Procs, EndDownload(p) PROVE JobTyping'
  BY <1>20, DoneFacts DEF EndDownload, RepositoryInv, Typing
<1>21. ASSUME NEW p \in Procs, download_remote_revision_as_snapshot(p) PROVE JobTyping'
  BY <1>21, StepFacts, DoneFacts DEF download_remote_revision_as_snapshot, RepositoryInv, Typing
<1>22. ASSUME NEW p \in Procs, trash_local_snapshot(p) PROVE JobTyping'
  <2>1. [kind |-> "trash", lease |-> "exclusive", at |-> "entry", dir |-> FreeDir] \in TrashJobs
    BY <1>22, FreeDirFacts DEF TrashJobs, trash_local_snapshot
  <2>2. QED
    BY <1>22, <2>1, JobKinds, JobsStay DEF trash_local_snapshot, RepositoryInv, Typing
<1>23. ASSUME NEW p \in Procs, TrashStep(p) PROVE JobTyping'
  BY <1>23, StepFacts, DoneFacts DEF TrashStep, RepositoryInv, Typing
<1>24. ASSUME NEW p \in Procs, RestoreStep(p) PROVE JobTyping'
  BY <1>24, DoneFacts DEF RestoreStep, RepositoryInv, Typing
<1>25. ASSUME NEW p \in Procs, NEW o \in TrashIds, restore_trashed_snapshot(p, o)
       PROVE  JobTyping'
  <2>1. [kind |-> "restore", lease |-> "exclusive", at |-> "entry", dir |-> o] \in RestoreJobs
    BY <1>25 DEF RestoreJobs
  <2>2. QED
    BY <1>25, <2>1, JobKinds, JobsStay DEF restore_trashed_snapshot, RepositoryInv, Typing
<1>26. ASSUME NEW p \in Procs, quarantine_local_gc_plan(p) PROVE JobTyping'
  <2> DEFINE j == [kind |-> "gc", lease |-> "exclusive", at |-> "move", todo |-> plan.objects]
  <2>1. j.kind = "gc" /\ j \in GcJobs(j.todo)
    BY DEF GcJobs
  <2>2. QED
    BY <1>26, <2>1, JobKinds, JobsStay DEF quarantine_local_gc_plan, RepositoryInv, Typing
<1>27. ASSUME NEW p \in Procs, MoveToQuarantine(p) PROVE JobTyping'
  <2>1. JobTyping
    BY DEF RepositoryInv, Typing
  <2>2. CASE Done(p)
    BY <2>1, <2>2, DoneFacts
  <2>3. CASE \E o \in FirstOf(job[p].todo) : Run(p, [job[p] EXCEPT !.todo = @ \ {o}])
    <3>1. PICK o : Run(p, [job[p] EXCEPT !.todo = @ \ {o}])
      BY <2>3
    <3> DEFINE j == [job[p] EXCEPT !.todo = @ \ {o}]
    <3>2. job[p] \in GcJobs(job[p].todo)
      BY <1>27, <2>1, JobShapes DEF MoveToQuarantine, At
    <3>3. j.kind = "gc" /\ j \in GcJobs(j.todo)
      BY <3>2 DEF GcJobs
    <3>4. QED
      BY <2>1, <3>1, <3>3, JobKinds, JobsStay
  <2>4. QED
    BY <1>27, <2>2, <2>3 DEF MoveToQuarantine
<1>28. ASSUME NEW p \in Procs, start_purge(p) PROVE JobTyping'
  <2>1. PICK goal, ops : goal \in {"plan", "execute"} /\ Run(p, PurgeJob(goal, ops))
    BY <1>28 DEF start_purge
  <2>2. PurgeJob(goal, ops).kind = "purge" /\ PurgeJob(goal, ops) \in PurgeJobs(PurgeJob(goal, ops).ops)
    BY <2>1 DEF PurgeJob, PurgeJobs
  <2>3. QED
    BY <2>1, <2>2, JobKinds, JobsStay DEF RepositoryInv, Typing
<1>29. ASSUME NEW p \in Procs, recover_local_trash_purges(p) PROVE JobTyping'
  BY <1>29, StepFacts DEF recover_local_trash_purges, At, RepositoryInv, Typing
<1>30. ASSUME NEW p \in Procs, plan_local_trash_purge(p) PROVE JobTyping'
  BY <1>30, StepFacts, DoneFacts DEF plan_local_trash_purge, At, RepositoryInv, Typing
<1>31. ASSUME NEW p \in Procs, purge_local_trash(p) PROVE JobTyping'
  <2>1. JobTyping
    BY DEF RepositoryInv, Typing
  <2>2. CASE UNCHANGED job
    BY <2>1, <2>2 DEF JobTyping, JobOK
  <2>3. CASE Done(p)
    BY <2>1, <2>3, DoneFacts
  <2>4. CASE \E at \in {"recover", "finish"} : Step(p, at)
    BY <1>31, <2>1, <2>4, StepFacts DEF purge_local_trash, At
  <2>5. QED
    BY <1>31, <2>2, <2>3, <2>4 DEF purge_local_trash
<1>32. ASSUME NEW p \in Procs, rollback_local_trash_purge(p) PROVE JobTyping'
  <2>1. JobTyping
    BY DEF RepositoryInv, Typing
  <2>2. CASE UNCHANGED job
    BY <2>1, <2>2 DEF JobTyping, JobOK
  <2>3. CASE Done(p)
    BY <2>1, <2>3, DoneFacts
  <2>4. CASE \E at \in {"recover", "finish"} : Step(p, at)
    BY <1>32, <2>1, <2>4, StepFacts DEF rollback_local_trash_purge, At
  <2>5. QED
    BY <1>32, <2>2, <2>3, <2>4 DEF rollback_local_trash_purge
<1>33. ASSUME NEW p \in Procs, finish_local_trash_purge(p) PROVE JobTyping'
  <2>1. JobTyping
    BY DEF RepositoryInv, Typing
  <2>2. CASE UNCHANGED job
    BY <2>1, <2>2 DEF JobTyping, JobOK
  <2>3. CASE Done(p)
    BY <2>1, <2>3, DoneFacts
  <2>4. CASE \E at \in {"recover", "finish"} : Step(p, at)
    BY <1>33, <2>1, <2>4, StepFacts DEF finish_local_trash_purge, At
  <2>5. QED
    BY <1>33, <2>2, <2>3, <2>4 DEF finish_local_trash_purge
<1>34. ASSUME NEW p \in Procs, start_treasure_import(p) PROVE JobTyping'
  <2>1. PICK k \in TreasureIds :
          Run(p, [kind |-> "import", lease |-> "exclusive", at |-> "objects", treasure |-> k])
    BY <1>34 DEF start_treasure_import
  <2>2. [kind |-> "import", lease |-> "exclusive", at |-> "objects", treasure |-> k] \in ImportJobs
    BY DEF ImportJobs
  <2>3. QED
    BY <2>1, <2>2, JobKinds, JobsStay DEF RepositoryInv, Typing
<1>35. ASSUME NEW p \in Procs, import_treasure_as_snapshot(p) PROVE JobTyping'
  BY <1>35, StepFacts DEF import_treasure_as_snapshot, At, RepositoryInv, Typing
<1>36. ASSUME NEW p \in Procs, WriteImportedRoot(p) PROVE JobTyping'
  BY <1>36, DoneFacts DEF WriteImportedRoot, RepositoryInv, Typing
<1>37. ASSUME NEW p \in Procs, JobFails(p) PROVE JobTyping'
  <2>1. JobTyping
    BY DEF RepositoryInv, Typing
  <2>2. CASE Done(p)
    BY <2>1, <2>2, DoneFacts
  <2>3. CASE /\ job[p].kind = "purge"
             /\ Run(p, [job[p] EXCEPT !.at = "rollback", !.goal = "fail"])
    <3> DEFINE j == [job[p] EXCEPT !.at = "rollback", !.goal = "fail"]
    <3>1. job[p] \in PurgeJobs(job[p].ops)
      BY <2>1, <2>3, JobShapes
    <3>2. j.kind = "purge" /\ j \in PurgeJobs(j.ops)
      BY <3>1 DEF PurgeJobs
    <3>3. QED
      BY <2>1, <2>3, <3>2, JobKinds, JobsStay
  <2>4. QED
    BY <1>37, <2>2, <2>3 DEF JobFails, At
<1>38. CASE Crash
  <2>1. job' = [q \in Procs |-> Idle]
    BY <1>38 DEF Crash
  <2>2. \A q \in Procs : job'[q] = Idle
    BY <2>1
  <2>3. \A q \in Procs : JobOK(job'[q])
    BY <2>2, IdleIsOK
  <2>4. QED
    BY <2>1, <2>2, <2>3 DEF JobTyping, JobOK
<1>39. ASSUME UNCHANGED vars PROVE UNCHANGED job
  BY <1>39 DEF vars, filevars
<1>40. QED
  BY <1>1, <1>2, <1>3, <1>4, <1>5, <1>6, <1>7, <1>8, <1>9, <1>10, <1>11, <1>12, <1>13,
     <1>14, <1>15, <1>16, <1>17, <1>18, <1>19, <1>20, <1>21, <1>22, <1>23, <1>24, <1>25,
     <1>26, <1>27, <1>28, <1>29, <1>30, <1>31, <1>32, <1>33, <1>34, <1>35, <1>36, <1>37,
     <1>38, <1>39 DEF Next, SnapshotStep, CleanupStep

(***************************************************************************)
(* The lease table.                                                        *)
(***************************************************************************)
LEMMA RunFacts ==
    ASSUME RepositoryInv, NEW p \in Procs, NEW j, Run(p, j)
    PROVE  job'[p] = j /\ \A q \in Procs : q # p => job'[q] = job[q]
  BY DEF Run, RepositoryInv, Typing, JobTyping

LEMMA JobFields ==
    ASSUME RepositoryInv, NEW p \in Procs
    PROVE  "kind" \in DOMAIN job[p] /\ "lease" \in DOMAIN job[p]
<1>1. JobOK(job[p])
  BY DEF RepositoryInv, Typing, JobTyping
<1>2. CASE job[p] \in {Idle}
  BY <1>2 DEF Idle
<1>3. CASE job[p] \in SnapshotJobs
  BY <1>3 DEF SnapshotJobs
<1>4. CASE job[p] \in ReadJobs \cup DownloadJobs
  BY <1>4 DEF ReadJobs, DownloadJobs
<1>5. CASE job[p] \in TrashJobs \cup RestoreJobs \cup ImportJobs
  BY <1>5 DEF TrashJobs, RestoreJobs, ImportJobs
<1>6. CASE job[p] \in GcJobs(job[p].todo) \cup PurgeJobs(job[p].ops)
  BY <1>6 DEF GcJobs, PurgeJobs
<1>7. QED
  BY <1>1, <1>2, <1>3, <1>4, <1>5, <1>6 DEF JobOK

LEMMA IdleFacts == Idle.lease = "none" /\ Idle.kind = "idle"
  BY DEF Idle

\* What a job becomes.
LEMMA OpenFacts ==
    ASSUME RepositoryInv, NEW p \in Procs, OpenRollout(p)
    PROVE  \E t \in Unread(p) :
             job'[p] = [job[p] EXCEPT !.contents = Extend(@, t, home[t]), !.at = "install"]
<1>1. PICK t \in Unread(p) :
        Run(p, [job[p] EXCEPT !.contents = Extend(@, t, home[t]), !.at = "install"])
  BY DEF OpenRollout
<1>2. QED
  BY <1>1, RunFacts

LEMMA FingerprintFacts ==
    ASSUME RepositoryInv, NEW p \in Procs, NEW t \in Threads, source_fingerprint(p, t)
    PROVE  /\ job'[p] = [job[p] EXCEPT
                 !.fingerprint = Extend(@, t, home[t]),
                 !.contents = IF Cached(t) THEN Extend(@, t, index[t].content) ELSE @,
                 !.todo = @ \ {t},
                 !.at = IF Cached(t) THEN "thread" ELSE "read"]
           /\ job'[p].lease = job[p].lease /\ job'[p].kind = job[p].kind
<1> DEFINE fs == Extend(job[p].fingerprint, t, home[t])
<1> DEFINE cs == IF Cached(t) THEN Extend(job[p].contents, t, index[t].content) ELSE job[p].contents
<1> DEFINE ts == job[p].todo \ {t}
<1> DEFINE at == IF Cached(t) THEN "thread" ELSE "read"
<1>1. Run(p, [job[p] EXCEPT
              !.fingerprint = Extend(@, t, home[t]),
              !.contents = IF Cached(t) THEN Extend(@, t, index[t].content) ELSE @,
              !.todo = @ \ {t},
              !.at = IF Cached(t) THEN "thread" ELSE "read"])
  BY DEF source_fingerprint
<1>2. job'[p] = [job[p] EXCEPT !.fingerprint = fs, !.contents = cs, !.todo = ts, !.at = at]
  BY <1>1, RunFacts
<1>3. "kind" \in DOMAIN job[p] /\ "lease" \in DOMAIN job[p]
  BY JobFields
<1>4. job'[p].lease = job[p].lease /\ job'[p].kind = job[p].kind
  <2> HIDE DEF fs, cs, ts, at
  <2>1. QED
    BY <1>2, <1>3
<1>5. QED
  BY <1>2, <1>4

LEMMA MoveFacts ==
    ASSUME RepositoryInv, NEW p \in Procs, MoveToQuarantine(p)
    PROVE  \/ job'[p] = Idle
           \/ job'[p].lease = job[p].lease /\ job'[p].kind = job[p].kind
<1>1. CASE Done(p)
  BY <1>1, RunFacts DEF Done
<1>2. CASE \E o : Run(p, [job[p] EXCEPT !.todo = @ \ {o}])
  <2>1. PICK o : Run(p, [job[p] EXCEPT !.todo = @ \ {o}])
    BY <1>2
  <2>2. job'[p] = [job[p] EXCEPT !.todo = @ \ {o}]
    BY <2>1, RunFacts
  <2>3. QED
    BY <2>2, JobFields
<1>3. QED
  BY <1>1, <1>2 DEF MoveToQuarantine

LEMMA FailFacts ==
    ASSUME RepositoryInv, NEW p \in Procs, JobFails(p)
    PROVE  \/ job'[p] = Idle
           \/ /\ At(p, "purge", "stage") /\ journal.status = "Preparing"
              /\ job'[p] = [job[p] EXCEPT !.at = "rollback", !.goal = "fail"]
              /\ job'[p].lease = job[p].lease /\ job'[p].kind = job[p].kind
<1>1. CASE Done(p)
  BY <1>1, RunFacts DEF Done
<1>2. CASE /\ At(p, "purge", "stage") /\ journal.status = "Preparing"
           /\ Run(p, [job[p] EXCEPT !.at = "rollback", !.goal = "fail"])
  <2>1. job'[p] = [job[p] EXCEPT !.at = "rollback", !.goal = "fail"]
    BY <1>2, RunFacts
  <2>2. QED
    BY <1>2, <2>1, JobFields
<1>3. QED
  BY <1>1, <1>2 DEF JobFails

LEMMA LeaseKept ==
    ASSUME Leases, NEW p \in Procs, \A q \in Procs : q # p => job'[q] = job[q],
           job'[p].lease = job[p].lease \/ job'[p].lease = "none"
    PROVE  Leases'
  BY DEF Leases, Holds

LEMMA LeaseShared ==
    ASSUME Leases, JobTyping, NEW p \in Procs, \A q \in Procs : q # p => job'[q] = job[q],
           try_acquire_repository(p, FALSE), job'[p].lease = "shared"
    PROVE  Leases'
  BY DEF Leases, Holds, try_acquire_repository

LEMMA LeaseTaken ==
    ASSUME Leases, JobTyping, NEW p \in Procs, \A q \in Procs : q # p => job'[q] = job[q],
           try_acquire_repository(p, TRUE)
    PROVE  Leases'
<1>1. \A q \in Procs : q # p => job'[q].lease = "none"
  <2>1. TRUE \in BOOLEAN
    OBVIOUS
  <2>2. \A q \in Procs : job[q] = Idle
    BY <2>1, AcquireFacts
  <2>3. QED
    BY <2>2 DEF Idle
<1>2. QED
  BY <1>1 DEF Leases, Holds

\* Every step of a job that has its lease keeps it or gives it back.
LEMMA StepKeepsLease ==
    ASSUME RepositoryInv, NEW p \in Procs, job[p].kind # "idle",
           Done(p) \/ UNCHANGED job \/ \E at : Step(p, at)
    PROVE  Leases'
<1>1. CASE UNCHANGED job
  BY <1>1 DEF RepositoryInv, Leases, Holds
<1>2. CASE Done(p)
  BY <1>2, RunFacts, LeaseKept DEF Done, Idle, RepositoryInv
<1>3. CASE \E at : Step(p, at)
  <2>1. PICK at : Run(p, [job[p] EXCEPT !.at = at])
    BY <1>3 DEF Step
  <2>2. job'[p].lease = job[p].lease
    BY <2>1, RunFacts, JobFields
  <2>3. QED
    BY <2>1, <2>2, RunFacts, LeaseKept DEF RepositoryInv
<1>4. QED
  BY <1>1, <1>2, <1>3

\* An exclusive lease excludes every other job.
LEMMA LeasesKept ==
    ASSUME RepositoryInv, [Next]_vars
    PROVE  Leases'
<1>1. CASE UNCHANGED job
  BY <1>1 DEF RepositoryInv, Leases, Holds
<1>2. ASSUME NEW t \in Threads, EditThread(t) PROVE UNCHANGED job
  BY <1>2 DEF EditThread, filevars
<1>3. ASSUME NEW p \in Procs, NEW s \in SnapshotIds, update_snapshot_metadata(p, s)
      PROVE  UNCHANGED job
  BY <1>3 DEF update_snapshot_metadata
<1>4. ASSUME NEW p \in Procs, NEW s \in SnapshotIds, plan_snapshot_deletion(p, s)
      PROVE  UNCHANGED job
  BY <1>4 DEF plan_snapshot_deletion, filevars
<1>5. ASSUME NEW p \in Procs, plan_local_gc(p) PROVE UNCHANGED job
  BY <1>5 DEF plan_local_gc, filevars
<1>6. ASSUME NEW p \in Procs, export_treasure_to_vault(p) PROVE UNCHANGED job
  BY <1>6 DEF export_treasure_to_vault
<1>7. ASSUME NEW p \in Procs, trash_treasure(p) PROVE UNCHANGED job
  BY <1>7 DEF trash_treasure
<1>8. ASSUME Decline PROVE UNCHANGED job
  BY <1>8 DEF Decline, filevars
<1>9. ASSUME NEW p \in Procs, start_snapshot(p) PROVE Leases'
  <2>1. \A q \in Procs : q # p => job'[q] = job[q]
    BY <1>9, RunFacts DEF start_snapshot
  <2>2. job'[p].lease = "shared"
    BY <1>9, RunFacts DEF start_snapshot, SnapshotJob
  <2>3. QED
    BY <1>9, <2>1, <2>2, LeaseShared DEF start_snapshot, RepositoryInv, Typing
<1>10. ASSUME NEW p \in Procs, OpenRollout(p) PROVE Leases'
  <2>1. \A q \in Procs : q # p => job'[q] = job[q]
    BY <1>10, RunFacts DEF OpenRollout, Done
  <2>2. job'[p].lease = job[p].lease \/ job'[p].lease = "none"
    BY <1>10, OpenFacts, IdleFacts, JobFields
  <2>3. QED
    BY <2>1, <2>2, LeaseKept DEF RepositoryInv
<1>11. ASSUME NEW p \in Procs, normalize_and_ingest_rollout(p) PROVE Leases'
  BY <1>11, StepKeepsLease DEF normalize_and_ingest_rollout, At
<1>12. ASSUME NEW p \in Procs, NEW t \in Threads, source_fingerprint(p, t) PROVE Leases'
  <2>1. \A q \in Procs : q # p => job'[q] = job[q]
    BY <1>12, RunFacts DEF source_fingerprint, Done
  <2>2. job'[p].lease = job[p].lease \/ job'[p].lease = "none"
    BY <1>12, FingerprintFacts, IdleFacts
  <2>3. QED
    BY <2>1, <2>2, LeaseKept DEF RepositoryInv
<1>13. ASSUME NEW p \in Procs, atomic_write_source_index(p) PROVE Leases'
  BY <1>13, StepKeepsLease DEF atomic_write_source_index, At
<1>14. ASSUME NEW p \in Procs, build_v4_snapshot_root(p) PROVE Leases'
  BY <1>14, StepKeepsLease DEF build_v4_snapshot_root, At
<1>15. ASSUME NEW p \in Procs, write_v4_snapshot(p) PROVE Leases'
  BY <1>15, StepKeepsLease DEF write_v4_snapshot, At
<1>16. ASSUME NEW p \in Procs, NEW s \in SnapshotIds, validate_local_snapshot(p, s)
       PROVE  Leases'
  <2>1. \A q \in Procs : q # p => job'[q] = job[q]
    BY <1>16, RunFacts DEF validate_local_snapshot
  <2>2. job'[p].lease = "shared"
    BY <1>16, RunFacts DEF validate_local_snapshot
  <2>3. QED
    BY <1>16, <2>1, <2>2, LeaseShared DEF validate_local_snapshot, RepositoryInv, Typing
<1>17. ASSUME NEW p \in Procs, EndRead(p) PROVE Leases'
  BY <1>17, StepKeepsLease DEF EndRead, At
<1>18. ASSUME NEW p \in Procs, load_revision_root(p) PROVE Leases'
  <2>1. \A q \in Procs : q # p => job'[q] = job[q]
    BY <1>18, RunFacts DEF load_revision_root
  <2>2. job'[p].lease = "shared"
    BY <1>18, RunFacts DEF load_revision_root
  <2>3. QED
    BY <1>18, <2>1, <2>2, LeaseShared DEF load_revision_root, RepositoryInv, Typing
<1>19. ASSUME NEW p \in Procs, download_revision_graph(p) PROVE Leases'
  BY <1>19, StepKeepsLease DEF download_revision_graph, At
<1>20. ASSUME NEW p \in Procs, EndDownload(p) PROVE Leases'
  BY <1>20, StepKeepsLease DEF EndDownload
<1>21. ASSUME NEW p \in Procs, download_remote_revision_as_snapshot(p) PROVE Leases'
  BY <1>21, StepKeepsLease DEF download_remote_revision_as_snapshot
<1>22. ASSUME NEW p \in Procs, trash_local_snapshot(p) PROVE Leases'
  <2>1. \A q \in Procs : q # p => job'[q] = job[q]
    BY <1>22, RunFacts DEF trash_local_snapshot
  <2>2. QED
    BY <1>22, <2>1, LeaseTaken DEF trash_local_snapshot, RepositoryInv, Typing
<1>23. ASSUME NEW p \in Procs, TrashStep(p) PROVE Leases'
  BY <1>23, StepKeepsLease DEF TrashStep
<1>24. ASSUME NEW p \in Procs, RestoreStep(p) PROVE Leases'
  BY <1>24, StepKeepsLease DEF RestoreStep, At
<1>25. ASSUME NEW p \in Procs, NEW o \in TrashIds, restore_trashed_snapshot(p, o)
       PROVE  Leases'
  <2>1. \A q \in Procs : q # p => job'[q] = job[q]
    BY <1>25, RunFacts DEF restore_trashed_snapshot
  <2>2. QED
    BY <1>25, <2>1, LeaseTaken DEF restore_trashed_snapshot, RepositoryInv, Typing
<1>26. ASSUME NEW p \in Procs, quarantine_local_gc_plan(p) PROVE Leases'
  <2>1. \A q \in Procs : q # p => job'[q] = job[q]
    BY <1>26, RunFacts DEF quarantine_local_gc_plan
  <2>2. QED
    BY <1>26, <2>1, LeaseTaken DEF quarantine_local_gc_plan, RepositoryInv, Typing
<1>27. ASSUME NEW p \in Procs, MoveToQuarantine(p) PROVE Leases'
  <2>1. \A q \in Procs : q # p => job'[q] = job[q]
    BY <1>27, RunFacts DEF MoveToQuarantine, Done
  <2>2. job'[p].lease = job[p].lease \/ job'[p].lease = "none"
    BY <1>27, MoveFacts, IdleFacts
  <2>3. QED
    BY <2>1, <2>2, LeaseKept DEF RepositoryInv
<1>28. ASSUME NEW p \in Procs, start_purge(p) PROVE Leases'
  <2>1. \A q \in Procs : q # p => job'[q] = job[q]
    BY <1>28, RunFacts DEF start_purge
  <2>2. QED
    BY <1>28, <2>1, LeaseTaken DEF start_purge, RepositoryInv, Typing
<1>29. ASSUME NEW p \in Procs, recover_local_trash_purges(p) PROVE Leases'
  BY <1>29, StepKeepsLease DEF recover_local_trash_purges, At
<1>30. ASSUME NEW p \in Procs, plan_local_trash_purge(p) PROVE Leases'
  BY <1>30, StepKeepsLease DEF plan_local_trash_purge, At
<1>31. ASSUME NEW p \in Procs, purge_local_trash(p) PROVE Leases'
  BY <1>31, StepKeepsLease DEF purge_local_trash, At
<1>32. ASSUME NEW p \in Procs, rollback_local_trash_purge(p) PROVE Leases'
  BY <1>32, StepKeepsLease DEF rollback_local_trash_purge, At
<1>33. ASSUME NEW p \in Procs, finish_local_trash_purge(p) PROVE Leases'
  BY <1>33, StepKeepsLease DEF finish_local_trash_purge, At
<1>34. ASSUME NEW p \in Procs, start_treasure_import(p) PROVE Leases'
  <2>1. \A q \in Procs : q # p => job'[q] = job[q]
    BY <1>34, RunFacts DEF start_treasure_import
  <2>2. QED
    BY <1>34, <2>1, LeaseTaken DEF start_treasure_import, RepositoryInv, Typing
<1>35. ASSUME NEW p \in Procs, import_treasure_as_snapshot(p) PROVE Leases'
  BY <1>35, StepKeepsLease DEF import_treasure_as_snapshot, At
<1>36. ASSUME NEW p \in Procs, WriteImportedRoot(p) PROVE Leases'
  BY <1>36, StepKeepsLease DEF WriteImportedRoot, At
<1>37. ASSUME NEW p \in Procs, JobFails(p) PROVE Leases'
  <2>1. \A q \in Procs : q # p => job'[q] = job[q]
    BY <1>37, RunFacts DEF JobFails, Done
  <2>2. job'[p].lease = job[p].lease \/ job'[p].lease = "none"
    BY <1>37, FailFacts, IdleFacts
  <2>3. QED
    BY <2>1, <2>2, LeaseKept DEF RepositoryInv
<1>38. CASE Crash
  BY <1>38 DEF Crash, Idle, Leases, Holds
<1>39. ASSUME UNCHANGED vars PROVE UNCHANGED job
  BY <1>39 DEF vars, filevars
<1>40. QED
  BY <1>1, <1>2, <1>3, <1>4, <1>5, <1>6, <1>7, <1>8, <1>9, <1>10, <1>11, <1>12, <1>13,
     <1>14, <1>15, <1>16, <1>17, <1>18, <1>19, <1>20, <1>21, <1>22, <1>23, <1>24, <1>25,
     <1>26, <1>27, <1>28, <1>29, <1>30, <1>31, <1>32, <1>33, <1>34, <1>35, <1>36, <1>37,
     <1>38, <1>39 DEF Next, SnapshotStep, CleanupStep

(***************************************************************************)
(* A job with an exclusive lease is alone.                                 *)
(***************************************************************************)
LEMMA Alone ==
    ASSUME RepositoryInv, NEW p \in Procs, \A q \in Procs : q # p => job'[q] = job[q],
           \/ try_acquire_repository(p, TRUE)
           \/ job[p].kind \in {"trash", "restore", "import", "gc", "purge"}
    PROVE  \A q \in Procs : q # p => job'[q] = Idle /\ job'[q].kind = "idle"
<1>1. JobTyping /\ Leases
  BY DEF RepositoryInv, Typing
<1>2. CASE try_acquire_repository(p, TRUE)
  <2>1. TRUE \in BOOLEAN
    OBVIOUS
  <2>2. \A q \in Procs : job[q] = Idle
    BY <1>1, <1>2, <2>1, AcquireFacts
  <2>3. QED
    BY <2>2, IdleFacts
<1>3. CASE job[p].kind \in {"trash", "restore", "import", "gc", "purge"}
  <2>1. job[p].lease = "exclusive"
    BY <1>1, <1>3, JobLeases
  <2>2. QED
    BY <1>1, <2>1, ExclusiveFacts, IdleFacts
<1>4. QED
  BY <1>2, <1>3

LEMMA DoneJob ==
    ASSUME RepositoryInv, NEW p \in Procs, Done(p)
    PROVE  job'[p] = Idle /\ job'[p].kind = "idle" /\ \A q \in Procs : q # p => job'[q] = job[q]
  BY RunFacts, IdleFacts DEF Done

LEMMA StepJob ==
    ASSUME RepositoryInv, NEW p \in Procs, NEW at, Step(p, at), job[p].kind # "idle"
    PROVE  /\ job'[p] = [job[p] EXCEPT !.at = at] /\ job'[p].at = at
           /\ job'[p].kind = job[p].kind
           /\ \A q \in Procs : q # p => job'[q] = job[q]
<1>1. /\ job'[p] = [job[p] EXCEPT !.at = at]
      /\ \A q \in Procs : q # p => job'[q] = job[q]
  BY RunFacts DEF Step
<1>2. "kind" \in DOMAIN job[p]
  BY JobFields
<1>3. "at" \in DOMAIN job[p]
  <2>1. JobOK(job[p]) /\ job[p] # Idle
    BY IdleFacts DEF RepositoryInv, Typing, JobTyping
  <2>3. CASE job[p] \in SnapshotJobs
    BY <2>3 DEF SnapshotJobs
  <2>4. CASE job[p] \in ReadJobs \cup DownloadJobs
    BY <2>4 DEF ReadJobs, DownloadJobs
  <2>5. CASE job[p] \in TrashJobs \cup RestoreJobs \cup ImportJobs
    BY <2>5 DEF TrashJobs, RestoreJobs, ImportJobs
  <2>6. CASE job[p] \in GcJobs(job[p].todo) \cup PurgeJobs(job[p].ops)
    BY <2>6 DEF GcJobs, PurgeJobs
  <2>7. QED
    BY <2>1, <2>3, <2>4, <2>5, <2>6 DEF JobOK
<1>4. QED
  BY <1>1, <1>2, <1>3

(***************************************************************************)
(* Staged directories belong to the journal.                               *)
(***************************************************************************)
LEMMA StagedCalm ==
    ASSUME RepositoryInv, UNCHANGED <<trash, journal>> PROVE StagedByPurge'
  BY DEF RepositoryInv, Purging, StagedByPurge

LEMMA StagedOne ==
    ASSUME RepositoryInv, NEW o \in TrashIds, NEW d, trash' = [trash EXCEPT ![o] = d],
           UNCHANGED journal, d # None /\ d.staged => journal # None /\ o \in journal.ops
    PROVE  StagedByPurge'
  BY DEF RepositoryInv, Purging, StagedByPurge, Typing, FileTyping

\* Only the purge of the journal stages directories.
LEMMA StagedKept ==
    ASSUME RepositoryInv, [Next]_vars
    PROVE  StagedByPurge'
<1>1. CASE UNCHANGED <<trash, journal>>
  BY <1>1 DEF RepositoryInv, Purging, StagedByPurge
<1>2. ASSUME NEW t \in Threads, EditThread(t) PROVE UNCHANGED <<trash, journal>>
  BY <1>2 DEF EditThread, filevars
<1>3. ASSUME NEW p \in Procs, start_snapshot(p) PROVE UNCHANGED <<trash, journal>>
  BY <1>3 DEF start_snapshot, filevars, Run
<1>4. ASSUME NEW p \in Procs, OpenRollout(p) PROVE UNCHANGED <<trash, journal>>
  BY <1>4 DEF OpenRollout, filevars, Run, At
<1>5. ASSUME NEW p \in Procs, normalize_and_ingest_rollout(p)
      PROVE  UNCHANGED <<trash, journal>>
  BY <1>5 DEF normalize_and_ingest_rollout, At, Step, Run
<1>6. ASSUME NEW p \in Procs, NEW t \in Threads, source_fingerprint(p, t)
      PROVE  UNCHANGED <<trash, journal>>
  BY <1>6 DEF source_fingerprint, filevars, Run, At
<1>7. ASSUME NEW p \in Procs, atomic_write_source_index(p)
      PROVE  UNCHANGED <<trash, journal>>
  BY <1>7 DEF atomic_write_source_index, At, Done, Step, Run
<1>8. ASSUME NEW p \in Procs, build_v4_snapshot_root(p) PROVE UNCHANGED <<trash, journal>>
  BY <1>8 DEF build_v4_snapshot_root, At, Step, Run
<1>9. ASSUME NEW p \in Procs, write_v4_snapshot(p) PROVE UNCHANGED <<trash, journal>>
  BY <1>9 DEF write_v4_snapshot, At, Done, Run
<1>10. ASSUME NEW p \in Procs, NEW s \in SnapshotIds, update_snapshot_metadata(p, s)
       PROVE  UNCHANGED <<trash, journal>>
  BY <1>10 DEF update_snapshot_metadata
<1>11. ASSUME NEW p \in Procs, NEW s \in SnapshotIds, validate_local_snapshot(p, s)
       PROVE  UNCHANGED <<trash, journal>>
  BY <1>11 DEF validate_local_snapshot, filevars, Run
<1>12. ASSUME NEW p \in Procs, EndRead(p) PROVE UNCHANGED <<trash, journal>>
  BY <1>12 DEF EndRead, filevars, At, Done, Run
<1>13. ASSUME NEW p \in Procs, load_revision_root(p) PROVE UNCHANGED <<trash, journal>>
  BY <1>13 DEF load_revision_root, Run
<1>14. ASSUME NEW p \in Procs, download_revision_graph(p) PROVE UNCHANGED <<trash, journal>>
  BY <1>14 DEF download_revision_graph, At, Step, Run
<1>15. ASSUME NEW p \in Procs, EndDownload(p) PROVE UNCHANGED <<trash, journal>>
  BY <1>15 DEF EndDownload, filevars, Done, Run
<1>16. ASSUME NEW p \in Procs, download_remote_revision_as_snapshot(p)
       PROVE  UNCHANGED <<trash, journal>>
  BY <1>16 DEF download_remote_revision_as_snapshot, Step, Done, Run
<1>17. ASSUME NEW p \in Procs, NEW s \in SnapshotIds, plan_snapshot_deletion(p, s)
       PROVE  UNCHANGED <<trash, journal>>
  BY <1>17 DEF plan_snapshot_deletion, filevars
<1>18. ASSUME NEW p \in Procs, plan_local_gc(p) PROVE UNCHANGED <<trash, journal>>
  BY <1>18 DEF plan_local_gc, filevars
<1>19. ASSUME NEW p \in Procs, quarantine_local_gc_plan(p)
       PROVE  UNCHANGED <<trash, journal>>
  BY <1>19 DEF quarantine_local_gc_plan, filevars, Run
<1>20. ASSUME NEW p \in Procs, MoveToQuarantine(p) PROVE UNCHANGED <<trash, journal>>
  BY <1>20 DEF MoveToQuarantine, At, Done, Run
<1>21. ASSUME NEW p \in Procs, start_purge(p) PROVE UNCHANGED <<trash, journal>>
  BY <1>21 DEF start_purge, filevars, Run
<1>22. ASSUME NEW p \in Procs, recover_local_trash_purges(p)
       PROVE  UNCHANGED <<trash, journal>>
  BY <1>22 DEF recover_local_trash_purges, filevars, At, Step, Run
<1>23. ASSUME NEW p \in Procs, export_treasure_to_vault(p)
       PROVE  UNCHANGED <<trash, journal>>
  BY <1>23 DEF export_treasure_to_vault
<1>24. ASSUME NEW p \in Procs, trash_treasure(p) PROVE UNCHANGED <<trash, journal>>
  BY <1>24 DEF trash_treasure
<1>25. ASSUME NEW p \in Procs, start_treasure_import(p) PROVE UNCHANGED <<trash, journal>>
  BY <1>25 DEF start_treasure_import, filevars, Run
<1>26. ASSUME NEW p \in Procs, import_treasure_as_snapshot(p)
       PROVE  UNCHANGED <<trash, journal>>
  BY <1>26 DEF import_treasure_as_snapshot, At, Step, Run
<1>27. ASSUME NEW p \in Procs, WriteImportedRoot(p) PROVE UNCHANGED <<trash, journal>>
  BY <1>27 DEF WriteImportedRoot, At, Done, Run
<1>28. ASSUME NEW p \in Procs, JobFails(p) PROVE UNCHANGED <<trash, journal>>
  BY <1>28 DEF JobFails, filevars, At, Done, Run
<1>29. ASSUME Decline PROVE UNCHANGED <<trash, journal>>
  BY <1>29 DEF Decline, filevars
<1>30. ASSUME Crash PROVE UNCHANGED <<trash, journal>>
  BY <1>30 DEF Crash, filevars
<1>31. ASSUME NEW p \in Procs, trash_local_snapshot(p) PROVE StagedByPurge'
  <2> DEFINE d == [snap |-> plan.snap, entry |-> FALSE, manifest |-> FALSE, staged |-> FALSE]
  <2>1. FreeDir \in TrashIds /\ UNCHANGED journal
    BY <1>31, FreeDirFacts DEF trash_local_snapshot
  <2>2. trash' = [trash EXCEPT ![FreeDir] = d]
    BY <1>31 DEF trash_local_snapshot
  <2>3. ~ d.staged
    OBVIOUS
  <2> HIDE DEF d
  <2>4. QED
    BY <2>1, <2>2, <2>3, StagedOne
<1>32. ASSUME NEW p \in Procs, TrashStep(p) PROVE StagedByPurge'
  <2>1. /\ job[p].dir \in TrashIds /\ trash[job[p].dir] \in TrashDir
        /\ ~ trash[job[p].dir].staged /\ UNCHANGED journal
    BY <1>32, DirFacts DEF TrashStep
  <2>2. PICK d \in {[trash[job[p].dir] EXCEPT !.entry = TRUE], [trash[job[p].dir] EXCEPT !.manifest = TRUE]} :
          trash' = [trash EXCEPT ![job[p].dir] = d]
    BY <1>32 DEF TrashStep, MoveManifest
  <2>3. ~ d.staged
    BY <2>1, <2>2 DEF TrashDir
  <2>4. QED
    BY <2>1, <2>2, <2>3, StagedOne
<1>33. ASSUME NEW p \in Procs, RestoreStep(p) PROVE StagedByPurge'
  <2>1. /\ job[p].dir \in TrashIds /\ trash[job[p].dir] \in TrashDir
        /\ ~ trash[job[p].dir].staged /\ UNCHANGED journal
    BY <1>33, DirFacts DEF RestoreStep, At
  <2>2. PICK d \in {None, [trash[job[p].dir] EXCEPT !.entry = FALSE]} :
          trash' = [trash EXCEPT ![job[p].dir] = d]
    BY <1>33 DEF RestoreStep
  <2>3. d # None => ~ d.staged
    BY <2>1, <2>2 DEF TrashDir
  <2>4. QED
    BY <2>1, <2>2, <2>3, StagedOne
<1>34. ASSUME NEW p \in Procs, NEW o \in TrashIds, restore_trashed_snapshot(p, o)
       PROVE  StagedByPurge'
  <2>1. trash[o] \in TrashDir /\ ~ trash[o].staged /\ UNCHANGED journal
    BY <1>34 DEF restore_trashed_snapshot, InTrash, RepositoryInv, Typing, FileTyping
  <2> DEFINE d == [trash[o] EXCEPT !.manifest = FALSE]
  <2>2. trash' = [trash EXCEPT ![o] = d]
    BY <1>34 DEF restore_trashed_snapshot, MoveManifest
  <2>3. ~ d.staged
    BY <2>1 DEF TrashDir
  <2> HIDE DEF d
  <2>4. QED
    BY <2>1, <2>2, <2>3, StagedOne
<1>35. ASSUME NEW p \in Procs, plan_local_trash_purge(p) PROVE StagedByPurge'
  <2>1. UNCHANGED trash /\ journal = None
    BY <1>35 DEF plan_local_trash_purge, At, RepositoryInv, Purging, PurgeOK
  <2>2. QED
    BY <2>1 DEF RepositoryInv, Purging, StagedByPurge
<1>36. ASSUME NEW p \in Procs, purge_local_trash(p) PROVE StagedByPurge'
  <2> DEFINE o == Least(journal.ops \ StagedDirs)
  <2>1. CASE trash' = [trash EXCEPT ![o].staged = TRUE] /\ UNCHANGED journal /\ StagedDirs # journal.ops
    <3>1. o \in TrashIds /\ o \in journal.ops /\ journal # None
      BY <1>36, <2>1, PurgeFacts DEF purge_local_trash, At
    <3> HIDE DEF o
    <3> DEFINE d == [trash[o] EXCEPT !.staged = TRUE]
    <3>2. trash' = [trash EXCEPT ![o] = d]
      BY <2>1
    <3> HIDE DEF d
    <3>3. QED
      BY <2>1, <3>1, <3>2, StagedOne
  <2>2. CASE UNCHANGED trash /\ \E status : Journal(status)
    <3>1. journal \in PurgeJournal
      BY <1>36, PurgeFacts DEF purge_local_trash, At
    <3>2. journal'.ops = journal.ops /\ journal' # None
      <4>1. PICK status : journal' = [journal EXCEPT !.status = status]
        BY <2>2 DEF Journal
      <4>2. journal'.ops = journal.ops
        BY <3>1, <4>1 DEF PurgeJournal
      <4>3. journal' \in PurgeJournal
        BY <1>36, <3>1 DEF purge_local_trash, Journal, PurgeJournal
      <4>4. QED
        BY <4>2, <4>3, Constants
    <3>3. QED
      BY <2>2, <3>2 DEF RepositoryInv, Purging, StagedByPurge
  <2>3. QED
    BY <1>36, <2>1, <2>2 DEF purge_local_trash
<1>37. ASSUME NEW p \in Procs, rollback_local_trash_purge(p) PROVE StagedByPurge'
  <2> DEFINE o == Greatest(StagedDirs)
  <2>1. CASE trash' = [trash EXCEPT ![o].staged = FALSE] /\ UNCHANGED journal /\ StagedDirs # {}
    <3>1. o \in TrashIds /\ trash[o] \in TrashDir
      BY <1>37, <2>1, PurgeFacts DEF rollback_local_trash_purge, At
    <3> HIDE DEF o
    <3> DEFINE d == [trash[o] EXCEPT !.staged = FALSE]
    <3>2. trash' = [trash EXCEPT ![o] = d]
      BY <2>1
    <3>3. ~ d.staged
      BY <3>1 DEF TrashDir
    <3> HIDE DEF d
    <3>4. QED
      BY <2>1, <3>1, <3>2, <3>3, StagedOne
  <2>2. CASE UNCHANGED trash /\ StagedDirs = {}
    BY <2>2 DEF StagedDirs, RepositoryInv, Purging, StagedByPurge
  <2>3. QED
    BY <1>37, <2>1, <2>2 DEF rollback_local_trash_purge
<1>38. ASSUME NEW p \in Procs, finish_local_trash_purge(p) PROVE StagedByPurge'
  <2>1. journal \in PurgeJournal
    BY <1>38, PurgeFacts DEF finish_local_trash_purge, At
  <2>2. CASE UNCHANGED journal /\ \A o \in TrashIds : trash'[o] # None => trash'[o] = trash[o]
    BY <2>2 DEF RepositoryInv, Purging, StagedByPurge
  <2>3. CASE UNCHANGED trash /\ Journal("ObjectsStaged")
    <3>1. journal'.ops = journal.ops /\ journal' \in PurgeJournal
      BY <2>1, <2>3 DEF Journal, PurgeJournal
    <3>2. QED
      BY <2>3, <3>1, Constants DEF RepositoryInv, Purging, StagedByPurge
  <2>4. CASE UNCHANGED trash /\ StagedDirs = {}
    BY <2>4 DEF StagedDirs, RepositoryInv, Purging, StagedByPurge
  <2>5. QED
    BY <1>38, <2>2, <2>3, <2>4 DEF finish_local_trash_purge
<1>39. ASSUME UNCHANGED vars PROVE UNCHANGED <<trash, journal>>
  BY <1>39 DEF vars, filevars
<1>40. QED
  BY <1>1, <1>2, <1>3, <1>4, <1>5, <1>6, <1>7, <1>8, <1>9, <1>10, <1>11, <1>12, <1>13,
     <1>14, <1>15, <1>16, <1>17, <1>18, <1>19, <1>20, <1>21, <1>22, <1>23, <1>24, <1>25,
     <1>26, <1>27, <1>28, <1>29, <1>30, <1>31, <1>32, <1>33, <1>34, <1>35, <1>36, <1>37,
     <1>38, <1>39 DEF Next, SnapshotStep, CleanupStep

(***************************************************************************)
(* The step of a purge fits its journal.                                   *)
(***************************************************************************)
LEMMA PurgeCalm ==
    ASSUME RepositoryInv, NEW p \in Procs, \A q \in Procs : q # p => job'[q] = job[q],
           UNCHANGED <<trash, journal>>, job'[p].kind # "purge"
    PROVE  \A q \in Procs : PurgeOK(job[q])'
<1>1. PurgeOK(job[p])'
  BY DEF PurgeOK
<1>2. \A q \in Procs : q # p => PurgeOK(job[q])'
  BY DEF RepositoryInv, Purging, PurgeOK
<1>3. QED
  BY <1>1, <1>2

LEMMA PurgeAlone ==
    ASSUME NEW p \in Procs, PurgeOK(job[p])',
           \A q \in Procs : q # p => job'[q] = Idle /\ job'[q].kind = "idle"
    PROVE  \A q \in Procs : PurgeOK(job[q])'
<1>1. \A q \in Procs : q # p => PurgeOK(job[q])'
  BY DEF PurgeOK
<1>2. QED
  BY <1>1

LEMMA JournalIsWritten ==
    ASSUME RepositoryInv, PurgePlan(plan.ops) = plan, plan.ops \subseteq InTrash,
           journal' = [status |-> "Preparing", ops |-> plan.ops, candidates |-> plan.candidates]
    PROVE  journal' # None
<1>1. plan.candidates \subseteq objects
  BY DEF PurgePlan
<1>2. plan.ops \subseteq TrashIds /\ plan.candidates \subseteq Object
  BY <1>1 DEF InTrash, RepositoryInv, Typing, FileTyping
<1>3. journal' \in PurgeJournal
  BY <1>2 DEF PurgeJournal
<1>4. QED
  BY <1>3, Constants

LEMMA StageEnds ==
    ASSUME RepositoryInv, NEW p \in Procs, job[p].kind = "purge", job[p].at = "stage",
           Step(p, "finish")
    PROVE  job' # job
<1>1. job[p].kind # "idle" /\ job[p].at # "finish"
  OBVIOUS
<1>2. job'[p].at = "finish"
  BY <1>1, StepJob
<1>3. QED
  BY <1>1, <1>2

\* A purge goes on where its journal says.
LEMMA PurgeKept ==
    ASSUME RepositoryInv, [Next]_vars
    PROVE  \A q \in Procs : PurgeOK(job[q])'
<1>1. CASE UNCHANGED <<trash, journal, job>>
  BY <1>1 DEF RepositoryInv, Purging, PurgeOK
<1>2. ASSUME NEW t \in Threads, EditThread(t) PROVE UNCHANGED <<trash, journal, job>>
  BY <1>2 DEF EditThread, filevars
<1>3. ASSUME NEW p \in Procs, NEW s \in SnapshotIds, update_snapshot_metadata(p, s)
      PROVE  UNCHANGED <<trash, journal, job>>
  BY <1>3 DEF update_snapshot_metadata
<1>4. ASSUME NEW p \in Procs, NEW s \in SnapshotIds, plan_snapshot_deletion(p, s)
      PROVE  UNCHANGED <<trash, journal, job>>
  BY <1>4 DEF plan_snapshot_deletion, filevars
<1>5. ASSUME NEW p \in Procs, plan_local_gc(p) PROVE UNCHANGED <<trash, journal, job>>
  BY <1>5 DEF plan_local_gc, filevars
<1>6. ASSUME NEW p \in Procs, export_treasure_to_vault(p)
      PROVE  UNCHANGED <<trash, journal, job>>
  BY <1>6 DEF export_treasure_to_vault
<1>7. ASSUME NEW p \in Procs, trash_treasure(p) PROVE UNCHANGED <<trash, journal, job>>
  BY <1>7 DEF trash_treasure
<1>8. ASSUME Decline PROVE UNCHANGED <<trash, journal, job>>
  BY <1>8 DEF Decline, filevars
<1>9. ASSUME NEW p \in Procs, start_snapshot(p) PROVE \A q \in Procs : PurgeOK(job[q])'
  <2>1. /\ \A q \in Procs : q # p => job'[q] = job[q]
        /\ job'[p].kind # "purge"
    BY <1>9, RunFacts DEF start_snapshot, SnapshotJob
  <2>2. UNCHANGED <<trash, journal>>
    BY <1>9 DEF start_snapshot, filevars
  <2>3. QED
    BY <2>1, <2>2, PurgeCalm
<1>10. ASSUME NEW p \in Procs, OpenRollout(p) PROVE \A q \in Procs : PurgeOK(job[q])'
  <2>1. /\ \A q \in Procs : q # p => job'[q] = job[q]
        /\ job'[p].kind # "purge"
    BY <1>10, OpenFacts, RunFacts, JobFields DEF OpenRollout, At
  <2>2. UNCHANGED <<trash, journal>>
    BY <1>10 DEF OpenRollout, filevars
  <2>3. QED
    BY <2>1, <2>2, PurgeCalm
<1>11. ASSUME NEW p \in Procs, normalize_and_ingest_rollout(p)
       PROVE  \A q \in Procs : PurgeOK(job[q])'
  <2>1. /\ \A q \in Procs : q # p => job'[q] = job[q]
        /\ job'[p].kind # "purge"
    BY <1>11, StepJob DEF normalize_and_ingest_rollout, At
  <2>2. UNCHANGED <<trash, journal>>
    BY <1>11 DEF normalize_and_ingest_rollout, filevars
  <2>3. QED
    BY <2>1, <2>2, PurgeCalm
<1>12. ASSUME NEW p \in Procs, NEW t \in Threads, source_fingerprint(p, t)
       PROVE  \A q \in Procs : PurgeOK(job[q])'
  <2>1. /\ \A q \in Procs : q # p => job'[q] = job[q]
        /\ job'[p].kind # "purge"
    BY <1>12, FingerprintFacts, RunFacts DEF source_fingerprint, At
  <2>2. UNCHANGED <<trash, journal>>
    BY <1>12 DEF source_fingerprint, filevars
  <2>3. QED
    BY <2>1, <2>2, PurgeCalm
<1>13. ASSUME NEW p \in Procs, atomic_write_source_index(p)
       PROVE  \A q \in Procs : PurgeOK(job[q])'
  <2>1. /\ \A q \in Procs : q # p => job'[q] = job[q]
        /\ job'[p].kind # "purge"
    BY <1>13, StepJob, DoneJob DEF atomic_write_source_index, At
  <2>2. UNCHANGED <<trash, journal>>
    BY <1>13 DEF atomic_write_source_index, filevars
  <2>3. QED
    BY <2>1, <2>2, PurgeCalm
<1>14. ASSUME NEW p \in Procs, build_v4_snapshot_root(p)
       PROVE  \A q \in Procs : PurgeOK(job[q])'
  <2>1. /\ \A q \in Procs : q # p => job'[q] = job[q]
        /\ job'[p].kind # "purge"
    BY <1>14, StepJob DEF build_v4_snapshot_root, At
  <2>2. UNCHANGED <<trash, journal>>
    BY <1>14 DEF build_v4_snapshot_root, filevars
  <2>3. QED
    BY <2>1, <2>2, PurgeCalm
<1>15. ASSUME NEW p \in Procs, write_v4_snapshot(p) PROVE \A q \in Procs : PurgeOK(job[q])'
  <2>1. /\ \A q \in Procs : q # p => job'[q] = job[q]
        /\ job'[p].kind # "purge"
    BY <1>15, DoneJob DEF write_v4_snapshot
  <2>2. UNCHANGED <<trash, journal>>
    BY <1>15 DEF write_v4_snapshot, filevars
  <2>3. QED
    BY <2>1, <2>2, PurgeCalm
<1>16. ASSUME NEW p \in Procs, NEW s \in SnapshotIds, validate_local_snapshot(p, s)
       PROVE  \A q \in Procs : PurgeOK(job[q])'
  <2>1. /\ \A q \in Procs : q # p => job'[q] = job[q]
        /\ job'[p].kind # "purge"
    BY <1>16, RunFacts DEF validate_local_snapshot
  <2>2. UNCHANGED <<trash, journal>>
    BY <1>16 DEF validate_local_snapshot, filevars
  <2>3. QED
    BY <2>1, <2>2, PurgeCalm
<1>17. ASSUME NEW p \in Procs, EndRead(p) PROVE \A q \in Procs : PurgeOK(job[q])'
  <2>1. /\ \A q \in Procs : q # p => job'[q] = job[q]
        /\ job'[p].kind # "purge"
    BY <1>17, DoneJob DEF EndRead
  <2>2. UNCHANGED <<trash, journal>>
    BY <1>17 DEF EndRead, filevars
  <2>3. QED
    BY <2>1, <2>2, PurgeCalm
<1>18. ASSUME NEW p \in Procs, load_revision_root(p) PROVE \A q \in Procs : PurgeOK(job[q])'
  <2>1. /\ \A q \in Procs : q # p => job'[q] = job[q]
        /\ job'[p].kind # "purge"
    BY <1>18, RunFacts DEF load_revision_root
  <2>2. UNCHANGED <<trash, journal>>
    BY <1>18 DEF load_revision_root, filevars
  <2>3. QED
    BY <2>1, <2>2, PurgeCalm
<1>19. ASSUME NEW p \in Procs, download_revision_graph(p)
       PROVE  \A q \in Procs : PurgeOK(job[q])'
  <2>1. /\ \A q \in Procs : q # p => job'[q] = job[q]
        /\ job'[p].kind # "purge"
    BY <1>19, StepJob DEF download_revision_graph, At
  <2>2. UNCHANGED <<trash, journal>>
    BY <1>19 DEF download_revision_graph, filevars
  <2>3. QED
    BY <2>1, <2>2, PurgeCalm
<1>20. ASSUME NEW p \in Procs, EndDownload(p) PROVE \A q \in Procs : PurgeOK(job[q])'
  <2>1. /\ \A q \in Procs : q # p => job'[q] = job[q]
        /\ job'[p].kind # "purge"
    BY <1>20, DoneJob DEF EndDownload
  <2>2. UNCHANGED <<trash, journal>>
    BY <1>20 DEF EndDownload, filevars
  <2>3. QED
    BY <2>1, <2>2, PurgeCalm
<1>21. ASSUME NEW p \in Procs, download_remote_revision_as_snapshot(p)
       PROVE  \A q \in Procs : PurgeOK(job[q])'
  <2>1. /\ \A q \in Procs : q # p => job'[q] = job[q]
        /\ job'[p].kind # "purge"
    BY <1>21, StepJob, DoneJob DEF download_remote_revision_as_snapshot
  <2>2. UNCHANGED <<trash, journal>>
    BY <1>21 DEF download_remote_revision_as_snapshot, filevars
  <2>3. QED
    BY <2>1, <2>2, PurgeCalm
<1>22. ASSUME NEW p \in Procs, trash_local_snapshot(p)
       PROVE  \A q \in Procs : PurgeOK(job[q])'
  <2>1. /\ \A q \in Procs : q # p => job'[q] = job[q]
        /\ job'[p].kind # "purge"
    BY <1>22, RunFacts DEF trash_local_snapshot
  <2>2. \A q \in Procs : q # p => job'[q] = Idle /\ job'[q].kind = "idle"
    BY <1>22, <2>1, Alone DEF trash_local_snapshot
  <2>3. PurgeOK(job[p])'
    BY <2>1 DEF PurgeOK
  <2>4. QED
    BY <2>2, <2>3, PurgeAlone
<1>23. ASSUME NEW p \in Procs, TrashStep(p) PROVE \A q \in Procs : PurgeOK(job[q])'
  <2>1. /\ \A q \in Procs : q # p => job'[q] = job[q]
        /\ job'[p].kind # "purge"
    BY <1>23, StepJob, DoneJob DEF TrashStep
  <2>2. \A q \in Procs : q # p => job'[q] = Idle /\ job'[q].kind = "idle"
    BY <1>23, <2>1, Alone DEF TrashStep
  <2>3. PurgeOK(job[p])'
    BY <2>1 DEF PurgeOK
  <2>4. QED
    BY <2>2, <2>3, PurgeAlone
<1>24. ASSUME NEW p \in Procs, RestoreStep(p) PROVE \A q \in Procs : PurgeOK(job[q])'
  <2>1. /\ \A q \in Procs : q # p => job'[q] = job[q]
        /\ job'[p].kind # "purge"
    BY <1>24, DoneJob DEF RestoreStep, At
  <2>2. \A q \in Procs : q # p => job'[q] = Idle /\ job'[q].kind = "idle"
    BY <1>24, <2>1, Alone DEF RestoreStep, At
  <2>3. PurgeOK(job[p])'
    BY <2>1 DEF PurgeOK
  <2>4. QED
    BY <2>2, <2>3, PurgeAlone
<1>25. ASSUME NEW p \in Procs, NEW o \in TrashIds, restore_trashed_snapshot(p, o)
       PROVE  \A q \in Procs : PurgeOK(job[q])'
  <2>1. /\ \A q \in Procs : q # p => job'[q] = job[q]
        /\ job'[p].kind # "purge"
    BY <1>25, RunFacts DEF restore_trashed_snapshot
  <2>2. \A q \in Procs : q # p => job'[q] = Idle /\ job'[q].kind = "idle"
    BY <1>25, <2>1, Alone DEF restore_trashed_snapshot
  <2>3. PurgeOK(job[p])'
    BY <2>1 DEF PurgeOK
  <2>4. QED
    BY <2>2, <2>3, PurgeAlone
<1>26. ASSUME NEW p \in Procs, quarantine_local_gc_plan(p)
       PROVE  \A q \in Procs : PurgeOK(job[q])'
  <2>1. /\ \A q \in Procs : q # p => job'[q] = job[q]
        /\ job'[p].kind # "purge"
    BY <1>26, RunFacts DEF quarantine_local_gc_plan
  <2>2. UNCHANGED <<trash, journal>>
    BY <1>26 DEF quarantine_local_gc_plan, filevars
  <2>3. QED
    BY <2>1, <2>2, PurgeCalm
<1>27. ASSUME NEW p \in Procs, MoveToQuarantine(p) PROVE \A q \in Procs : PurgeOK(job[q])'
  <2>1. /\ \A q \in Procs : q # p => job'[q] = job[q]
        /\ job'[p].kind # "purge"
    BY <1>27, MoveFacts, RunFacts, IdleFacts DEF MoveToQuarantine, At, Done
  <2>2. UNCHANGED <<trash, journal>>
    BY <1>27 DEF MoveToQuarantine, filevars
  <2>3. QED
    BY <2>1, <2>2, PurgeCalm
<1>28. ASSUME NEW p \in Procs, start_purge(p) PROVE \A q \in Procs : PurgeOK(job[q])'
  <2>1. /\ \A q \in Procs : q # p => job'[q] = job[q]
        /\ job'[p].kind = "purge" /\ job'[p].at = "recover"
    <3>1. PICK goal, ops : Run(p, PurgeJob(goal, ops))
      BY <1>28 DEF start_purge
    <3>2. PurgeJob(goal, ops).kind = "purge" /\ PurgeJob(goal, ops).at = "recover"
      BY DEF PurgeJob
    <3>3. QED
      BY <3>1, <3>2, RunFacts
  <2>2. \A q \in Procs : q # p => job'[q] = Idle /\ job'[q].kind = "idle"
    BY <1>28, <2>1, Alone DEF start_purge, PurgeJob
  <2>3. PurgeOK(job[p])'
    BY <2>1 DEF PurgeOK
  <2>4. QED
    BY <2>2, <2>3, PurgeAlone
<1>29. ASSUME NEW p \in Procs, recover_local_trash_purges(p)
       PROVE  \A q \in Procs : PurgeOK(job[q])'
  <2> DEFINE next == IF ~ UnfinishedPurge THEN "plan"
                     ELSE IF journal.status \in {"Preparing", "EntriesStaged"} THEN "rollback"
                     ELSE "finish"
  <2>1. Step(p, next) /\ job[p].kind = "purge" /\ UNCHANGED <<trash, journal>>
    BY <1>29 DEF recover_local_trash_purges, At, filevars
  <2>2. /\ \A q \in Procs : q # p => job'[q] = job[q]
        /\ job'[p].kind = "purge" /\ job'[p].at = next
    BY <2>1, StepJob
  <2>3. \A q \in Procs : q # p => job'[q] = Idle /\ job'[q].kind = "idle"
    BY <2>1, <2>2, Alone
  <2>4. PurgeOK(job[p])'
    BY <2>1, <2>2 DEF PurgeOK, UnfinishedPurge, Revocable
  <2>5. QED
    BY <2>3, <2>4, PurgeAlone
<1>30. ASSUME NEW p \in Procs, plan_local_trash_purge(p)
       PROVE  \A q \in Procs : PurgeOK(job[q])'
  <2>1. CASE Done(p)
    <3>1. \A q \in Procs : q # p => job'[q] = Idle /\ job'[q].kind = "idle"
      BY <1>30, <2>1, DoneJob, Alone DEF plan_local_trash_purge, At
    <3>2. job'[p].kind = "idle"
      BY <2>1, DoneJob
    <3>3. PurgeOK(job[p])'
      BY <3>2 DEF PurgeOK
    <3>4. QED
      BY <3>1, <3>3, PurgeAlone
  <2>2. CASE /\ job[p].ops \subseteq InTrash /\ PurgePlan(job[p].ops) = plan /\ Step(p, "stage")
             /\ journal' = [status |-> "Preparing", ops |-> plan.ops, candidates |-> plan.candidates]
    <3>1. job[p].kind = "purge" /\ UNCHANGED trash
      BY <1>30 DEF plan_local_trash_purge, At
    <3>2. /\ \A q \in Procs : q # p => job'[q] = job[q]
          /\ job'[p].kind = "purge" /\ job'[p].at = "stage"
      BY <2>2, <3>1, StepJob
    <3>3. \A q \in Procs : q # p => job'[q] = Idle /\ job'[q].kind = "idle"
      BY <3>1, <3>2, Alone
    <3>4. plan.ops = job[p].ops
      BY <2>2 DEF PurgePlan
    <3>5. journal' # None
      BY <1>30, <2>2, JournalIsWritten, <3>4
    <3>6. journal'.status = "Preparing" /\ journal'.ops \subseteq InTrash
      BY <2>2, <3>4
    <3>7. PurgeOK(job[p])'
      BY <3>1, <3>2, <3>5, <3>6 DEF PurgeOK, Revocable, InTrash
    <3>8. QED
      BY <3>3, <3>7, PurgeAlone
  <2>3. QED
    BY <1>30, <2>1, <2>2 DEF plan_local_trash_purge
<1>31. ASSUME NEW p \in Procs, purge_local_trash(p) PROVE \A q \in Procs : PurgeOK(job[q])'
  <2>0. /\ job[p].kind = "purge" /\ journal \in PurgeJournal /\ journal.status \in Revocable
        /\ \A o \in journal.ops : trash[o] # None
        /\ job[p].at = "stage" /\ journal.ops \subseteq TrashIds
    BY <1>31, PurgeFacts DEF purge_local_trash, At, RepositoryInv, Purging, PurgeOK
  <2>1. CASE UNCHANGED job
    <3>1. \A q \in Procs : q # p => job'[q] = Idle /\ job'[q].kind = "idle"
      BY <2>0, <2>1, Alone
    <3>2. \A o \in journal.ops : trash'[o] # None
      <4>1. trash' \in [TrashIds -> TrashDir \cup {None}]
        BY TrashTyped
      <4> DEFINE o == Least(journal.ops \ StagedDirs)
      <4>2. CASE trash' = [trash EXCEPT ![o].staged = TRUE] /\ StagedDirs # journal.ops
        <5>1. o \in TrashIds /\ trash[o] \in TrashDir
          BY <2>0, <4>2, PurgeFacts
        <5>2. [trash[o] EXCEPT !.staged = TRUE] \in TrashDir
          BY <5>1 DEF TrashDir
        <5> HIDE DEF o
        <5>3. [trash[o] EXCEPT !.staged = TRUE] # None
          BY <5>2, Constants
        <5>4. trash' = [trash EXCEPT ![o] = [trash[o] EXCEPT !.staged = TRUE]]
          BY <4>2
        <5>5. QED
          BY <2>0, <5>1, <5>3, <5>4 DEF RepositoryInv, Typing, FileTyping
      <4>3. QED
        BY <1>31, <2>0, <4>2 DEF purge_local_trash
    <3>3. journal' # None /\ journal'.status \in Revocable /\ journal'.ops = journal.ops
      <4>1. CASE UNCHANGED journal
        BY <2>0, <4>1, Constants
      <4>2. CASE Journal("EntriesStaged")
        <5>1. journal' \in PurgeJournal /\ journal'.status = "EntriesStaged" /\ journal'.ops = journal.ops
          BY <2>0, <4>2 DEF Journal, PurgeJournal
        <5>2. QED
          BY <5>1, Constants DEF Revocable
      <4>3. QED
        BY <1>31, <2>0, <2>1, <4>1, <4>2, StageEnds DEF purge_local_trash, At
    <3>4. PurgeOK(job[p])'
      BY <2>0, <2>1, <3>2, <3>3 DEF PurgeOK
    <3>5. QED
      BY <3>1, <3>4, PurgeAlone
  <2>2. CASE Step(p, "finish") /\ Journal("Committed")
    <3>1. /\ \A q \in Procs : q # p => job'[q] = job[q]
          /\ job'[p].kind = "purge" /\ job'[p].at = "finish"
      BY <2>0, <2>2, StepJob
    <3>2. \A q \in Procs : q # p => job'[q] = Idle /\ job'[q].kind = "idle"
      BY <2>0, <3>1, Alone
    <3>3. journal' \in PurgeJournal /\ journal'.status = "Committed"
      BY <2>0, <2>2 DEF Journal, PurgeJournal
    <3>4. PurgeOK(job[p])'
      BY <3>1, <3>3, Constants DEF PurgeOK, Revocable
    <3>5. QED
      BY <3>2, <3>4, PurgeAlone
  <2>3. QED
    BY <1>31, <2>1, <2>2 DEF purge_local_trash
<1>32. ASSUME NEW p \in Procs, rollback_local_trash_purge(p)
       PROVE  \A q \in Procs : PurgeOK(job[q])'
  <2>0. job[p].kind = "purge" /\ job[p].at = "rollback"
    BY <1>32 DEF rollback_local_trash_purge, At
  <2>1. CASE UNCHANGED <<job, journal>>
    <3>1. \A q \in Procs : q # p => job'[q] = Idle /\ job'[q].kind = "idle"
      BY <2>0, <2>1, Alone
    <3>2. PurgeOK(job[p])'
      BY <2>0, <2>1 DEF PurgeOK, RepositoryInv, Purging
    <3>3. QED
      BY <3>1, <3>2, PurgeAlone
  <2>2. CASE Done(p) \/ Step(p, "recover")
    <3>1. /\ \A q \in Procs : q # p => job'[q] = job[q]
          /\ job'[p].kind = "idle" \/ (job'[p].kind = "purge" /\ job'[p].at = "recover")
      <4>1. job[p].kind # "idle"
        BY <2>0
      <4>2. CASE Done(p)
        BY <4>2, DoneJob
      <4>3. CASE Step(p, "recover")
        BY <2>0, <4>1, <4>3, StepJob
      <4>4. QED
        BY <2>2, <4>2, <4>3
    <3>2. \A q \in Procs : q # p => job'[q] = Idle /\ job'[q].kind = "idle"
      BY <2>0, <3>1, Alone
    <3>3. PurgeOK(job[p])'
      BY <3>1 DEF PurgeOK
    <3>4. QED
      BY <3>2, <3>3, PurgeAlone
  <2>3. QED
    BY <1>32, <2>1, <2>2 DEF rollback_local_trash_purge
<1>33. ASSUME NEW p \in Procs, finish_local_trash_purge(p)
       PROVE  \A q \in Procs : PurgeOK(job[q])'
  <2>0. /\ job[p].kind = "purge" /\ job[p].at = "finish" /\ journal \in PurgeJournal
        /\ journal.status \notin Revocable
    BY <1>33, PurgeFacts DEF finish_local_trash_purge, At, RepositoryInv, Purging, PurgeOK
  <2>1. CASE UNCHANGED job /\ (UNCHANGED journal \/ Journal("ObjectsStaged"))
    <3>1. \A q \in Procs : q # p => job'[q] = Idle /\ job'[q].kind = "idle"
      BY <2>0, <2>1, Alone
    <3>2. journal' \in PurgeJournal /\ journal'.status \notin Revocable
      BY <2>0, <2>1 DEF Journal, PurgeJournal, Revocable
    <3>3. PurgeOK(job[p])'
      BY <2>0, <2>1, <3>2, Constants DEF PurgeOK
    <3>4. QED
      BY <3>1, <3>3, PurgeAlone
  <2>2. CASE Done(p) \/ Step(p, "recover")
    <3>1. /\ \A q \in Procs : q # p => job'[q] = job[q]
          /\ job'[p].kind = "idle" \/ (job'[p].kind = "purge" /\ job'[p].at = "recover")
      <4>1. job[p].kind # "idle"
        BY <2>0
      <4>2. CASE Done(p)
        BY <4>2, DoneJob
      <4>3. CASE Step(p, "recover")
        BY <2>0, <4>1, <4>3, StepJob
      <4>4. QED
        BY <2>2, <4>2, <4>3
    <3>2. \A q \in Procs : q # p => job'[q] = Idle /\ job'[q].kind = "idle"
      BY <2>0, <3>1, Alone
    <3>3. PurgeOK(job[p])'
      BY <3>1 DEF PurgeOK
    <3>4. QED
      BY <3>2, <3>3, PurgeAlone
  <2>3. QED
    BY <1>33, <2>1, <2>2 DEF finish_local_trash_purge
<1>34. ASSUME NEW p \in Procs, start_treasure_import(p)
       PROVE  \A q \in Procs : PurgeOK(job[q])'
  <2>1. /\ \A q \in Procs : q # p => job'[q] = job[q]
        /\ job'[p].kind # "purge"
    BY <1>34, RunFacts DEF start_treasure_import
  <2>2. UNCHANGED <<trash, journal>>
    BY <1>34 DEF start_treasure_import, filevars
  <2>3. QED
    BY <2>1, <2>2, PurgeCalm
<1>35. ASSUME NEW p \in Procs, import_treasure_as_snapshot(p)
       PROVE  \A q \in Procs : PurgeOK(job[q])'
  <2>1. /\ \A q \in Procs : q # p => job'[q] = job[q]
        /\ job'[p].kind # "purge"
    BY <1>35, StepJob DEF import_treasure_as_snapshot, At
  <2>2. UNCHANGED <<trash, journal>>
    BY <1>35 DEF import_treasure_as_snapshot, filevars
  <2>3. QED
    BY <2>1, <2>2, PurgeCalm
<1>36. ASSUME NEW p \in Procs, WriteImportedRoot(p) PROVE \A q \in Procs : PurgeOK(job[q])'
  <2>1. /\ \A q \in Procs : q # p => job'[q] = job[q]
        /\ job'[p].kind # "purge"
    BY <1>36, DoneJob DEF WriteImportedRoot
  <2>2. UNCHANGED <<trash, journal>>
    BY <1>36 DEF WriteImportedRoot, filevars
  <2>3. QED
    BY <2>1, <2>2, PurgeCalm
<1>37. ASSUME NEW p \in Procs, JobFails(p) PROVE \A q \in Procs : PurgeOK(job[q])'
  <2>1. \A q \in Procs : q # p => job'[q] = job[q]
    BY <1>37, RunFacts DEF JobFails, Done
  <2>2. UNCHANGED <<trash, journal>>
    BY <1>37 DEF JobFails, filevars
  <2>3. CASE job'[p] = Idle
    BY <2>1, <2>2, <2>3, PurgeCalm, IdleFacts
  <2>4. CASE /\ At(p, "purge", "stage") /\ journal.status = "Preparing"
             /\ job'[p] = [job[p] EXCEPT !.at = "rollback", !.goal = "fail"]
    <3>1. \A q \in Procs : q # p => job'[q] = Idle /\ job'[q].kind = "idle"
      BY <2>1, <2>4, Alone DEF At
    <3>2. journal # None
      BY <2>4 DEF At, RepositoryInv, Purging, PurgeOK
    <3>3. job[p] \in PurgeJobs(job[p].ops)
      BY <2>4, JobShapes DEF At, RepositoryInv, Typing
    <3>4. job'[p].kind = "purge" /\ job'[p].at = "rollback"
      BY <2>4, <3>3 DEF PurgeJobs
    <3>5. PurgeOK(job[p])'
      BY <2>2, <2>4, <3>2, <3>4 DEF PurgeOK, Revocable
    <3>6. QED
      BY <3>1, <3>5, PurgeAlone
  <2>5. QED
    BY <1>37, <2>3, <2>4, FailFacts
<1>38. CASE Crash
  <2>1. \A q \in Procs : job'[q].kind = "idle"
    BY <1>38, IdleFacts DEF Crash
  <2>2. QED
    BY <2>1 DEF PurgeOK
<1>39. ASSUME UNCHANGED vars PROVE UNCHANGED <<trash, journal, job>>
  BY <1>39 DEF vars, filevars
<1>40. QED
  BY <1>1, <1>2, <1>3, <1>4, <1>5, <1>6, <1>7, <1>8, <1>9, <1>10, <1>11, <1>12, <1>13,
     <1>14, <1>15, <1>16, <1>17, <1>18, <1>19, <1>20, <1>21, <1>22, <1>23, <1>24, <1>25,
     <1>26, <1>27, <1>28, <1>29, <1>30, <1>31, <1>32, <1>33, <1>34, <1>35, <1>36, <1>37,
     <1>38, <1>39 DEF Next, SnapshotStep, CleanupStep

(***************************************************************************)
(* The snapshot a job reads, trashes or restores.                          *)
(***************************************************************************)
LEMMA TrashCalm ==
    ASSUME RepositoryInv, NEW p \in Procs, \A q \in Procs : q # p => job'[q] = job[q],
           UNCHANGED <<trash, pinned>>, listed \subseteq listed',
           job'[p].kind \notin {"trash", "restore", "read"}
    PROVE  \A q \in Procs : TrashOK(job[q])'
<1>1. TrashOK(job[p])'
  BY DEF TrashOK
<1>2. \A q \in Procs : q # p => TrashOK(job[q])'
  BY DEF RepositoryInv, Trashing, TrashOK
<1>3. QED
  BY <1>1, <1>2

LEMMA TrashAlone ==
    ASSUME NEW p \in Procs, TrashOK(job[p])',
           \A q \in Procs : q # p => job'[q] = Idle /\ job'[q].kind = "idle"
    PROVE  \A q \in Procs : TrashOK(job[q])'
<1>1. \A q \in Procs : q # p => TrashOK(job[q])'
  BY DEF TrashOK
<1>2. QED
  BY <1>1

\* The list grows when a snapshot is written.
LEMMA ListGrows == ASSUME NEW f, NewSnapshot(f) PROVE listed \subseteq listed'
  BY DEF NewSnapshot

\* What the steps of a purge, the end of a restore and a failure leave of a job.
LEMMA PurgeJobKinds ==
    ASSUME RepositoryInv, NEW p \in Procs,
           \/ RestoreStep(p) \/ start_purge(p) \/ recover_local_trash_purges(p)
           \/ plan_local_trash_purge(p) \/ purge_local_trash(p) \/ rollback_local_trash_purge(p)
           \/ finish_local_trash_purge(p) \/ JobFails(p)
    PROVE  (\A q \in Procs : q # p => job'[q] = job[q]) /\ job'[p].kind \in {"idle", "purge"}
<1>1. CASE Done(p)
  BY <1>1, DoneJob
<1>2. CASE job[p].kind = "purge" /\ UNCHANGED job
  BY <1>2
<1>3. CASE job[p].kind = "purge" /\ \E at : Step(p, at)
  BY <1>3, StepJob
<1>4. CASE start_purge(p)
  <2>1. PICK goal, ops : Run(p, PurgeJob(goal, ops))
    BY <1>4 DEF start_purge
  <2>2. PurgeJob(goal, ops).kind = "purge"
    BY DEF PurgeJob
  <2>3. QED
    BY <2>1, <2>2, RunFacts
<1>5. CASE JobFails(p)
  <2>1. \A q \in Procs : q # p => job'[q] = job[q]
    BY <1>5, RunFacts DEF JobFails, Done
  <2>2. job'[p].kind \in {"idle", "purge"}
    BY <1>5, FailFacts, IdleFacts DEF At
  <2>3. QED
    BY <2>1, <2>2
<1>6. QED
  BY <1>1, <1>2, <1>3, <1>4, <1>5 DEF RestoreStep, recover_local_trash_purges,
     plan_local_trash_purge, purge_local_trash, rollback_local_trash_purge,
     finish_local_trash_purge, At

\* What a job reads, trashes or restores stays where it found it.
LEMMA TrashKept ==
    ASSUME RepositoryInv, [Next]_vars
    PROVE  \A q \in Procs : TrashOK(job[q])'
<1>1. CASE UNCHANGED <<trash, listed, pinned, job>>
  BY <1>1 DEF RepositoryInv, Trashing, TrashOK
<1>2. ASSUME NEW t \in Threads, EditThread(t) PROVE UNCHANGED <<trash, listed, pinned, job>>
  BY <1>2 DEF EditThread, filevars
<1>3. ASSUME NEW p \in Procs, NEW s \in SnapshotIds, plan_snapshot_deletion(p, s)
      PROVE  UNCHANGED <<trash, listed, pinned, job>>
  BY <1>3 DEF plan_snapshot_deletion, filevars
<1>4. ASSUME NEW p \in Procs, plan_local_gc(p)
      PROVE  UNCHANGED <<trash, listed, pinned, job>>
  BY <1>4 DEF plan_local_gc, filevars
<1>5. ASSUME NEW p \in Procs, export_treasure_to_vault(p)
      PROVE  UNCHANGED <<trash, listed, pinned, job>>
  BY <1>5 DEF export_treasure_to_vault
<1>6. ASSUME NEW p \in Procs, trash_treasure(p)
      PROVE  UNCHANGED <<trash, listed, pinned, job>>
  BY <1>6 DEF trash_treasure
<1>7. ASSUME Decline PROVE UNCHANGED <<trash, listed, pinned, job>>
  BY <1>7 DEF Decline, filevars
<1>8. ASSUME NEW p \in Procs, start_snapshot(p) PROVE \A q \in Procs : TrashOK(job[q])'
  <2>1. /\ \A q \in Procs : q # p => job'[q] = job[q]
        /\ job'[p].kind \notin {"trash", "restore", "read"}
    BY <1>8, RunFacts DEF start_snapshot, SnapshotJob
  <2>2. UNCHANGED <<trash, pinned, listed>>
    BY <1>8 DEF start_snapshot, filevars
  <2>3. QED
    BY <2>1, <2>2, TrashCalm
<1>9. ASSUME NEW p \in Procs, OpenRollout(p) PROVE \A q \in Procs : TrashOK(job[q])'
  <2>1. /\ \A q \in Procs : q # p => job'[q] = job[q]
        /\ job'[p].kind \notin {"trash", "restore", "read"}
    BY <1>9, OpenFacts, RunFacts, JobFields DEF OpenRollout, At
  <2>2. UNCHANGED <<trash, pinned, listed>>
    BY <1>9 DEF OpenRollout, filevars
  <2>3. QED
    BY <2>1, <2>2, TrashCalm
<1>10. ASSUME NEW p \in Procs, normalize_and_ingest_rollout(p)
       PROVE  \A q \in Procs : TrashOK(job[q])'
  <2>1. /\ \A q \in Procs : q # p => job'[q] = job[q]
        /\ job'[p].kind \notin {"trash", "restore", "read"}
    BY <1>10, StepJob DEF normalize_and_ingest_rollout, At
  <2>2. UNCHANGED <<trash, pinned, listed>>
    BY <1>10 DEF normalize_and_ingest_rollout, filevars
  <2>3. QED
    BY <2>1, <2>2, TrashCalm
<1>11. ASSUME NEW p \in Procs, NEW t \in Threads, source_fingerprint(p, t)
       PROVE  \A q \in Procs : TrashOK(job[q])'
  <2>1. /\ \A q \in Procs : q # p => job'[q] = job[q]
        /\ job'[p].kind \notin {"trash", "restore", "read"}
    BY <1>11, FingerprintFacts, RunFacts DEF source_fingerprint, At
  <2>2. UNCHANGED <<trash, pinned, listed>>
    BY <1>11 DEF source_fingerprint, filevars
  <2>3. QED
    BY <2>1, <2>2, TrashCalm
<1>12. ASSUME NEW p \in Procs, atomic_write_source_index(p)
       PROVE  \A q \in Procs : TrashOK(job[q])'
  <2>1. /\ \A q \in Procs : q # p => job'[q] = job[q]
        /\ job'[p].kind \notin {"trash", "restore", "read"}
    BY <1>12, StepJob, DoneJob DEF atomic_write_source_index, At
  <2>2. UNCHANGED <<trash, pinned, listed>>
    BY <1>12 DEF atomic_write_source_index, filevars
  <2>3. QED
    BY <2>1, <2>2, TrashCalm
<1>13. ASSUME NEW p \in Procs, build_v4_snapshot_root(p)
       PROVE  \A q \in Procs : TrashOK(job[q])'
  <2>1. /\ \A q \in Procs : q # p => job'[q] = job[q]
        /\ job'[p].kind \notin {"trash", "restore", "read"}
    BY <1>13, StepJob DEF build_v4_snapshot_root, At
  <2>2. UNCHANGED <<trash, pinned, listed>>
    BY <1>13 DEF build_v4_snapshot_root, filevars
  <2>3. QED
    BY <2>1, <2>2, TrashCalm
<1>14. ASSUME NEW p \in Procs, write_v4_snapshot(p) PROVE \A q \in Procs : TrashOK(job[q])'
  <2>1. /\ \A q \in Procs : q # p => job'[q] = job[q]
        /\ job'[p].kind \notin {"trash", "restore", "read"}
    BY <1>14, DoneJob DEF write_v4_snapshot
  <2>2. UNCHANGED <<trash, pinned>> /\ listed \subseteq listed'
    BY <1>14, ListGrows DEF write_v4_snapshot
  <2>3. QED
    BY <2>1, <2>2, TrashCalm
<1>15. ASSUME NEW p \in Procs, NEW s \in SnapshotIds, update_snapshot_metadata(p, s)
       PROVE  \A q \in Procs : TrashOK(job[q])'
  <2>1. /\ try_acquire_repository(p, TRUE) /\ UNCHANGED job
    BY <1>15 DEF update_snapshot_metadata
  <2>2. \A q \in Procs : q # p => job'[q] = Idle /\ job'[q].kind = "idle"
    BY <2>1, Alone
  <2>3. TrashOK(job[p])'
    BY <2>1 DEF TrashOK, try_acquire_repository
  <2>4. QED
    BY <2>2, <2>3, TrashAlone
<1>16. ASSUME NEW p \in Procs, NEW s \in SnapshotIds, validate_local_snapshot(p, s)
       PROVE  \A q \in Procs : TrashOK(job[q])'
  <2>1. /\ \A q \in Procs : q # p => job'[q] = job[q]
        /\ job'[p].kind = "read" /\ job'[p].snap = s
    BY <1>16, RunFacts DEF validate_local_snapshot
  <2>2. UNCHANGED <<trash, pinned, listed>> /\ s \in listed
    BY <1>16 DEF validate_local_snapshot, filevars
  <2>3. TrashOK(job[p])'
    BY <2>1, <2>2 DEF TrashOK
  <2>4. \A q \in Procs : q # p => TrashOK(job[q])'
    BY <2>1, <2>2 DEF RepositoryInv, Trashing, TrashOK
  <2>5. QED
    BY <2>3, <2>4
<1>17. ASSUME NEW p \in Procs, EndRead(p) PROVE \A q \in Procs : TrashOK(job[q])'
  <2>1. /\ \A q \in Procs : q # p => job'[q] = job[q]
        /\ job'[p].kind \notin {"trash", "restore", "read"}
    BY <1>17, DoneJob DEF EndRead
  <2>2. UNCHANGED <<trash, pinned, listed>>
    BY <1>17 DEF EndRead, filevars
  <2>3. QED
    BY <2>1, <2>2, TrashCalm
<1>18. ASSUME NEW p \in Procs, load_revision_root(p) PROVE \A q \in Procs : TrashOK(job[q])'
  <2>1. /\ \A q \in Procs : q # p => job'[q] = job[q]
        /\ job'[p].kind \notin {"trash", "restore", "read"}
    BY <1>18, RunFacts DEF load_revision_root
  <2>2. UNCHANGED <<trash, pinned, listed>>
    BY <1>18 DEF load_revision_root, filevars
  <2>3. QED
    BY <2>1, <2>2, TrashCalm
<1>19. ASSUME NEW p \in Procs, download_revision_graph(p)
       PROVE  \A q \in Procs : TrashOK(job[q])'
  <2>1. /\ \A q \in Procs : q # p => job'[q] = job[q]
        /\ job'[p].kind \notin {"trash", "restore", "read"}
    BY <1>19, StepJob DEF download_revision_graph, At
  <2>2. UNCHANGED <<trash, pinned, listed>>
    BY <1>19 DEF download_revision_graph, filevars
  <2>3. QED
    BY <2>1, <2>2, TrashCalm
<1>20. ASSUME NEW p \in Procs, EndDownload(p) PROVE \A q \in Procs : TrashOK(job[q])'
  <2>1. /\ \A q \in Procs : q # p => job'[q] = job[q]
        /\ job'[p].kind \notin {"trash", "restore", "read"}
    BY <1>20, DoneJob DEF EndDownload
  <2>2. UNCHANGED <<trash, pinned, listed>>
    BY <1>20 DEF EndDownload, filevars
  <2>3. QED
    BY <2>1, <2>2, TrashCalm
<1>21. ASSUME NEW p \in Procs, download_remote_revision_as_snapshot(p)
       PROVE  \A q \in Procs : TrashOK(job[q])'
  <2>1. /\ \A q \in Procs : q # p => job'[q] = job[q]
        /\ job'[p].kind \notin {"trash", "restore", "read"}
    BY <1>21, StepJob, DoneJob DEF download_remote_revision_as_snapshot
  <2>2. UNCHANGED <<trash, pinned>> /\ listed \subseteq listed'
    BY <1>21, ListGrows DEF download_remote_revision_as_snapshot
  <2>3. QED
    BY <2>1, <2>2, TrashCalm
<1>22. ASSUME NEW p \in Procs, trash_local_snapshot(p)
       PROVE  \A q \in Procs : TrashOK(job[q])'
  <2> DEFINE d == [snap |-> plan.snap, entry |-> FALSE, manifest |-> FALSE, staged |-> FALSE]
  <2>1. /\ \A q \in Procs : q # p => job'[q] = job[q]
        /\ job'[p].kind = "trash" /\ job'[p].at = "entry" /\ job'[p].dir = FreeDir
    BY <1>22, RunFacts DEF trash_local_snapshot
  <2>2. \A q \in Procs : q # p => job'[q] = Idle /\ job'[q].kind = "idle"
    BY <1>22, <2>1, Alone DEF trash_local_snapshot
  <2>3. FreeDir \in TrashIds /\ trash' = [trash EXCEPT ![FreeDir] = d] /\ UNCHANGED <<listed, pinned>>
    BY <1>22, FreeDirFacts DEF trash_local_snapshot
  <2>4. trash'[FreeDir] = d
    BY <2>3 DEF RepositoryInv, Typing, FileTyping
  <2>5. plan.snap \in listed /\ plan.snap \notin pinned
    <3>1. plan.snap \in listed /\ plan = DeletionPlan(plan.snap) /\ ~ plan.pinned
      BY <1>22 DEF trash_local_snapshot, MayTrash
    <3>2. ~ DeletionPlan(plan.snap).pinned
      BY <3>1
    <3>3. DeletionPlan(plan.snap).pinned = (plan.snap \in pinned)
      BY DEF DeletionPlan
    <3>4. QED
      BY <3>1, <3>2, <3>3
  <2>6. d \in TrashDir
    BY <2>5 DEF TrashDir, RepositoryInv, Typing, RootTyping
  <2>7. d # None /\ ~ d.staged /\ ~ d.manifest /\ d.snap = plan.snap
    BY <2>6, Constants
  <2> HIDE DEF d
  <2>8. TrashOK(job[p])'
    BY <2>1, <2>3, <2>4, <2>5, <2>7 DEF TrashOK
  <2>9. QED
    BY <2>2, <2>8, TrashAlone
<1>23. ASSUME NEW p \in Procs, TrashStep(p) PROVE \A q \in Procs : TrashOK(job[q])'
  <2>1. CASE Done(p)
    <3>1. \A q \in Procs : q # p => job'[q] = Idle /\ job'[q].kind = "idle"
      BY <1>23, <2>1, DoneJob, Alone DEF TrashStep
    <3>2. job'[p].kind = "idle"
      BY <2>1, DoneJob
    <3>3. TrashOK(job[p])'
      BY <3>2 DEF TrashOK
    <3>4. QED
      BY <3>1, <3>3, TrashAlone
  <2>2. CASE /\ trash' = [trash EXCEPT ![job[p].dir].entry = TRUE]
             /\ Step(p, "manifest") /\ UNCHANGED listed
    <3>1. /\ job[p].dir \in TrashIds /\ trash[job[p].dir] \in TrashDir
          /\ ~ trash[job[p].dir].staged /\ ~ trash[job[p].dir].manifest
          /\ job[p] \in TrashJobs /\ job[p].kind = "trash" /\ UNCHANGED pinned
      BY <1>23, DirFacts, JobShapes DEF TrashStep, RepositoryInv, Typing
    <3>2. /\ \A q \in Procs : q # p => job'[q] = job[q]
          /\ job'[p].kind = "trash" /\ job'[p] = [job[p] EXCEPT !.at = "manifest"]
      BY <2>2, <3>1, StepJob
    <3>3. job'[p].dir = job[p].dir
      BY <3>1, <3>2 DEF TrashJobs
    <3>4. \A q \in Procs : q # p => job'[q] = Idle /\ job'[q].kind = "idle"
      BY <3>1, <3>2, Alone
    <3> DEFINE o == job[p].dir
    <3> DEFINE d == [trash[o] EXCEPT !.entry = TRUE]
    <3>5. d \in TrashDir /\ d.entry /\ ~ d.staged /\ ~ d.manifest /\ d.snap = trash[o].snap
      BY <3>1 DEF TrashDir
    <3>6. trash'[o] = d
      BY <2>2, <3>1 DEF RepositoryInv, Typing, FileTyping
    <3>7. trash[o].snap \in listed /\ trash[o].snap \notin pinned
      BY <3>1 DEF RepositoryInv, Trashing, TrashOK
    <3>8. d # None
      BY <3>5, Constants
    <3> HIDE DEF d, o
    <3>9. job'[p].dir = o
      BY <3>3 DEF o
    <3>10. listed' = listed /\ pinned' = pinned
      BY <2>2, <3>1
    <3>11. /\ trash'[o] # None /\ trash'[o].entry /\ ~ trash'[o].staged /\ ~ trash'[o].manifest
           /\ trash'[o].snap \in listed' /\ trash'[o].snap \notin pinned'
      BY <3>10, <3>5, <3>6, <3>7, <3>8
    <3>12. TrashOK(job[p])'
      BY <3>2, <3>9, <3>11 DEF TrashOK
    <3>13. QED
      BY <3>4, <3>12, TrashAlone
  <2>3. QED
    BY <1>23, <2>1, <2>2 DEF TrashStep
<1>24. ASSUME NEW p \in Procs, RestoreStep(p) PROVE \A q \in Procs : TrashOK(job[q])'
  <2>1. (\A q \in Procs : q # p => job'[q] = job[q]) /\ job'[p].kind \in {"idle", "purge"}
    BY <1>24, PurgeJobKinds
  <2>2. \A q \in Procs : q # p => job'[q] = Idle /\ job'[q].kind = "idle"
    BY <1>24, <2>1, Alone DEF RestoreStep, At
  <2>3. TrashOK(job[p])'
    BY <2>1 DEF TrashOK
  <2>4. QED
    BY <2>2, <2>3, TrashAlone
<1>25. ASSUME NEW p \in Procs, NEW o \in TrashIds, restore_trashed_snapshot(p, o)
       PROVE  \A q \in Procs : TrashOK(job[q])'
  <2>1. /\ \A q \in Procs : q # p => job'[q] = job[q]
        /\ job'[p].kind = "restore" /\ job'[p].dir = o
    BY <1>25, RunFacts DEF restore_trashed_snapshot
  <2>2. \A q \in Procs : q # p => job'[q] = Idle /\ job'[q].kind = "idle"
    BY <1>25, <2>1, Alone DEF restore_trashed_snapshot
  <2>3. trash[o] \in TrashDir /\ ~ trash[o].staged
    BY <1>25 DEF restore_trashed_snapshot, InTrash, RepositoryInv, Typing, FileTyping
  <2> DEFINE d == [trash[o] EXCEPT !.manifest = FALSE]
  <2>4. d \in TrashDir /\ ~ d.staged /\ ~ d.manifest
    BY <2>3 DEF TrashDir
  <2>5. trash'[o] = d
    BY <1>25 DEF restore_trashed_snapshot, MoveManifest, RepositoryInv, Typing, FileTyping
  <2>6. d # None
    BY <2>4, Constants
  <2> HIDE DEF d
  <2>7. TrashOK(job[p])'
    BY <2>1, <2>4, <2>5, <2>6 DEF TrashOK
  <2>8. QED
    BY <2>2, <2>7, TrashAlone
<1>26. ASSUME NEW p \in Procs, quarantine_local_gc_plan(p)
       PROVE  \A q \in Procs : TrashOK(job[q])'
  <2>1. /\ \A q \in Procs : q # p => job'[q] = job[q]
        /\ job'[p].kind \notin {"trash", "restore", "read"}
    BY <1>26, RunFacts DEF quarantine_local_gc_plan
  <2>2. UNCHANGED <<trash, pinned, listed>>
    BY <1>26 DEF quarantine_local_gc_plan, filevars
  <2>3. QED
    BY <2>1, <2>2, TrashCalm
<1>27. ASSUME NEW p \in Procs, MoveToQuarantine(p) PROVE \A q \in Procs : TrashOK(job[q])'
  <2>1. /\ \A q \in Procs : q # p => job'[q] = job[q]
        /\ job'[p].kind \notin {"trash", "restore", "read"}
    BY <1>27, MoveFacts, RunFacts, IdleFacts DEF MoveToQuarantine, At, Done
  <2>2. UNCHANGED <<trash, pinned, listed>>
    BY <1>27 DEF MoveToQuarantine, filevars
  <2>3. QED
    BY <2>1, <2>2, TrashCalm
<1>28. ASSUME NEW p \in Procs, start_purge(p) PROVE \A q \in Procs : TrashOK(job[q])'
  <2>1. (\A q \in Procs : q # p => job'[q] = job[q]) /\ job'[p].kind \in {"idle", "purge"}
    BY <1>28, PurgeJobKinds
  <2>2. \A q \in Procs : q # p => job'[q] = Idle /\ job'[q].kind = "idle"
    BY <1>28, <2>1, Alone DEF start_purge
  <2>3. TrashOK(job[p])'
    BY <2>1 DEF TrashOK
  <2>4. QED
    BY <2>2, <2>3, TrashAlone
<1>29. ASSUME NEW p \in Procs, recover_local_trash_purges(p)
       PROVE  \A q \in Procs : TrashOK(job[q])'
  <2>1. (\A q \in Procs : q # p => job'[q] = job[q]) /\ job'[p].kind \in {"idle", "purge"}
    BY <1>29, PurgeJobKinds
  <2>2. \A q \in Procs : q # p => job'[q] = Idle /\ job'[q].kind = "idle"
    BY <1>29, <2>1, Alone DEF recover_local_trash_purges, At
  <2>3. TrashOK(job[p])'
    BY <2>1 DEF TrashOK
  <2>4. QED
    BY <2>2, <2>3, TrashAlone
<1>30. ASSUME NEW p \in Procs, plan_local_trash_purge(p)
       PROVE  \A q \in Procs : TrashOK(job[q])'
  <2>1. (\A q \in Procs : q # p => job'[q] = job[q]) /\ job'[p].kind \in {"idle", "purge"}
    BY <1>30, PurgeJobKinds
  <2>2. \A q \in Procs : q # p => job'[q] = Idle /\ job'[q].kind = "idle"
    BY <1>30, <2>1, Alone DEF plan_local_trash_purge, At
  <2>3. TrashOK(job[p])'
    BY <2>1 DEF TrashOK
  <2>4. QED
    BY <2>2, <2>3, TrashAlone
<1>31. ASSUME NEW p \in Procs, purge_local_trash(p) PROVE \A q \in Procs : TrashOK(job[q])'
  <2>1. (\A q \in Procs : q # p => job'[q] = job[q]) /\ job'[p].kind \in {"idle", "purge"}
    BY <1>31, PurgeJobKinds
  <2>2. \A q \in Procs : q # p => job'[q] = Idle /\ job'[q].kind = "idle"
    BY <1>31, <2>1, Alone DEF purge_local_trash, At
  <2>3. TrashOK(job[p])'
    BY <2>1 DEF TrashOK
  <2>4. QED
    BY <2>2, <2>3, TrashAlone
<1>32. ASSUME NEW p \in Procs, rollback_local_trash_purge(p)
       PROVE  \A q \in Procs : TrashOK(job[q])'
  <2>1. (\A q \in Procs : q # p => job'[q] = job[q]) /\ job'[p].kind \in {"idle", "purge"}
    BY <1>32, PurgeJobKinds
  <2>2. \A q \in Procs : q # p => job'[q] = Idle /\ job'[q].kind = "idle"
    BY <1>32, <2>1, Alone DEF rollback_local_trash_purge, At
  <2>3. TrashOK(job[p])'
    BY <2>1 DEF TrashOK
  <2>4. QED
    BY <2>2, <2>3, TrashAlone
<1>33. ASSUME NEW p \in Procs, finish_local_trash_purge(p)
       PROVE  \A q \in Procs : TrashOK(job[q])'
  <2>1. (\A q \in Procs : q # p => job'[q] = job[q]) /\ job'[p].kind \in {"idle", "purge"}
    BY <1>33, PurgeJobKinds
  <2>2. \A q \in Procs : q # p => job'[q] = Idle /\ job'[q].kind = "idle"
    BY <1>33, <2>1, Alone DEF finish_local_trash_purge, At
  <2>3. TrashOK(job[p])'
    BY <2>1 DEF TrashOK
  <2>4. QED
    BY <2>2, <2>3, TrashAlone
<1>34. ASSUME NEW p \in Procs, start_treasure_import(p)
       PROVE  \A q \in Procs : TrashOK(job[q])'
  <2>1. /\ \A q \in Procs : q # p => job'[q] = job[q]
        /\ job'[p].kind \notin {"trash", "restore", "read"}
    BY <1>34, RunFacts DEF start_treasure_import
  <2>2. UNCHANGED <<trash, pinned, listed>>
    BY <1>34 DEF start_treasure_import, filevars
  <2>3. QED
    BY <2>1, <2>2, TrashCalm
<1>35. ASSUME NEW p \in Procs, import_treasure_as_snapshot(p)
       PROVE  \A q \in Procs : TrashOK(job[q])'
  <2>1. /\ \A q \in Procs : q # p => job'[q] = job[q]
        /\ job'[p].kind \notin {"trash", "restore", "read"}
    BY <1>35, StepJob DEF import_treasure_as_snapshot, At
  <2>2. UNCHANGED <<trash, pinned, listed>>
    BY <1>35 DEF import_treasure_as_snapshot, filevars
  <2>3. QED
    BY <2>1, <2>2, TrashCalm
<1>36. ASSUME NEW p \in Procs, WriteImportedRoot(p) PROVE \A q \in Procs : TrashOK(job[q])'
  <2>1. /\ \A q \in Procs : q # p => job'[q] = job[q]
        /\ job'[p].kind \notin {"trash", "restore", "read"}
    BY <1>36, DoneJob DEF WriteImportedRoot
  <2>2. UNCHANGED <<trash, pinned>> /\ listed \subseteq listed'
    BY <1>36, ListGrows DEF WriteImportedRoot
  <2>3. QED
    BY <2>1, <2>2, TrashCalm
<1>37. ASSUME NEW p \in Procs, JobFails(p) PROVE \A q \in Procs : TrashOK(job[q])'
  <2>1. (\A q \in Procs : q # p => job'[q] = job[q]) /\ job'[p].kind \in {"idle", "purge"}
    BY <1>37, PurgeJobKinds
  <2>2. UNCHANGED <<trash, pinned, listed>>
    BY <1>37 DEF JobFails, filevars
  <2>3. QED
    BY <2>1, <2>2, TrashCalm
<1>38. CASE Crash
  <2>1. \A q \in Procs : job'[q].kind = "idle"
    BY <1>38, IdleFacts DEF Crash
  <2>2. QED
    BY <2>1 DEF TrashOK
<1>39. ASSUME UNCHANGED vars PROVE UNCHANGED <<trash, listed, pinned, job>>
  BY <1>39 DEF vars, filevars
<1>40. QED
  BY <1>1, <1>2, <1>3, <1>4, <1>5, <1>6, <1>7, <1>8, <1>9, <1>10, <1>11, <1>12, <1>13,
     <1>14, <1>15, <1>16, <1>17, <1>18, <1>19, <1>20, <1>21, <1>22, <1>23, <1>24, <1>25,
     <1>26, <1>27, <1>28, <1>29, <1>30, <1>31, <1>32, <1>33, <1>34, <1>35, <1>36, <1>37,
     <1>38, <1>39 DEF Next, SnapshotStep, CleanupStep

(***************************************************************************)
(* What a job that writes a snapshot relies on.                            *)
(***************************************************************************)
LEMMA BuildMonotone ==
    ASSUME NEW q \in Procs, BuildOK(job[q]), job'[q] = job[q], objects \subseteq objects',
           UNCHANGED vault
    PROVE  BuildOK(job[q])'
<1>1. job[q].kind = "snapshot" => Ingested(job[q])'
  <2>1. ASSUME job[q].kind = "snapshot" PROVE Ingested(job[q])
    BY <2>1 DEF BuildOK
  <2>2. QED
    BY <2>1 DEF Ingested, Stored, content_objects_present
<1>2. job[q].kind = "import" /\ job[q].at = "root" => Stored(vault[job[q].treasure])'
  BY DEF BuildOK, Stored
<1>3. QED
  BY <1>1, <1>2 DEF BuildOK

LEMMA BuildCalm ==
    ASSUME RepositoryInv, NEW p \in Procs, \A q \in Procs : q # p => job'[q] = job[q],
           objects \subseteq objects', UNCHANGED vault, BuildOK(job[p])'
    PROVE  \A q \in Procs : BuildOK(job[q])'
<1>1. \A q \in Procs : BuildOK(job[q])
  BY DEF RepositoryInv, Building
<1>2. \A q \in Procs : q # p => BuildOK(job[q])'
  BY <1>1, BuildMonotone
<1>3. QED
  BY <1>2

LEMMA BuildsNothing ==
    ASSUME NEW q \in Procs, job'[q].kind \notin {"snapshot", "download", "import"}
    PROVE  BuildOK(job[q])'
  BY DEF BuildOK

LEMMA BuildAlone ==
    ASSUME NEW p \in Procs, BuildOK(job[p])',
           \A q \in Procs : q # p => job'[q] = Idle /\ job'[q].kind = "idle"
    PROVE  \A q \in Procs : BuildOK(job[q])'
<1>1. \A q \in Procs : q # p => BuildOK(job[q])'
  BY BuildsNothing
<1>2. QED
  BY <1>1

\* No step takes away what a job has stored.
LEMMA BuildKept ==
    ASSUME RepositoryInv, [Next]_vars
    PROVE  \A q \in Procs : BuildOK(job[q])'
<1>1. CASE UNCHANGED <<objects, vault, job>>
  BY <1>1 DEF RepositoryInv, Building, BuildOK, Ingested, Stored, content_objects_present
<1>2. ASSUME NEW t \in Threads, EditThread(t) PROVE UNCHANGED <<objects, vault, job>>
  BY <1>2 DEF EditThread, filevars
<1>3. ASSUME NEW p \in Procs, NEW s \in SnapshotIds, update_snapshot_metadata(p, s)
      PROVE  UNCHANGED <<objects, vault, job>>
  BY <1>3 DEF update_snapshot_metadata
<1>4. ASSUME NEW p \in Procs, NEW s \in SnapshotIds, plan_snapshot_deletion(p, s)
      PROVE  UNCHANGED <<objects, vault, job>>
  BY <1>4 DEF plan_snapshot_deletion, filevars
<1>5. ASSUME NEW p \in Procs, plan_local_gc(p) PROVE UNCHANGED <<objects, vault, job>>
  BY <1>5 DEF plan_local_gc, filevars
<1>6. ASSUME Decline PROVE UNCHANGED <<objects, vault, job>>
  BY <1>6 DEF Decline, filevars
<1>7. ASSUME NEW p \in Procs, start_snapshot(p) PROVE \A q \in Procs : BuildOK(job[q])'
  <2>1. PICK selected \in SUBSET Threads : Run(p, SnapshotJob(selected))
    BY <1>7 DEF start_snapshot
  <2>2. job'[p] = SnapshotJob(selected) /\ \A q \in Procs : q # p => job'[q] = job[q]
    BY <2>1, RunFacts
  <2>3. UNCHANGED <<objects, vault>>
    BY <1>7 DEF start_snapshot, filevars
  <2>4. /\ job'[p].kind = "snapshot" /\ job'[p].at = "thread" /\ job'[p].todo = Threads
        /\ job'[p].fingerprint = <<>> /\ job'[p].contents = <<>>
    BY <2>2 DEF SnapshotJob
  <2>5. DOMAIN job'[p].fingerprint = {} /\ DOMAIN job'[p].contents = {}
    BY <2>4, EmptyContents
  <2>6. Ingested(job[p])'
    BY <2>4, <2>5 DEF Ingested
  <2>7. BuildOK(job[p])'
    BY <2>4, <2>6 DEF BuildOK
  <2>8. QED
    BY <2>2, <2>3, <2>7, BuildCalm
<1>8. ASSUME NEW p \in Procs, OpenRollout(p) PROVE \A q \in Procs : BuildOK(job[q])'
  <2>1. job[p].kind = "snapshot" /\ job[p].at = "read" /\ UNCHANGED <<objects, vault>>
    BY <1>8 DEF OpenRollout, At, filevars
  <2>2. PICK t \in Unread(p) :
          job'[p] = [job[p] EXCEPT !.contents = Extend(@, t, home[t]), !.at = "install"]
    BY <1>8, OpenFacts
  <2>3. job[p] \in SnapshotJobs /\ Ingested(job[p])
    BY <2>1, BuildFacts DEF RepositoryInv, Typing
  <2>4. /\ job'[p].kind = "snapshot" /\ job'[p].at = "install" /\ job'[p].todo = job[p].todo
        /\ job'[p].fingerprint = job[p].fingerprint
        /\ job'[p].contents = Extend(job[p].contents, t, home[t])
    BY <2>1, <2>2, <2>3 DEF SnapshotJobs
  <2>5. DOMAIN job'[p].contents = DOMAIN job[p].contents \cup {t}
    BY <2>4 DEF Extend
  <2>6. DOMAIN job'[p].contents = DOMAIN job'[p].fingerprint
    BY <2>1, <2>2, <2>3, <2>4, <2>5 DEF Ingested, Unread
  <2>7. Ingested(job[p])'
    BY <2>3, <2>4, <2>6 DEF Ingested
  <2>8. BuildOK(job[p])'
    BY <2>4, <2>7 DEF BuildOK
  <2>9. \A q \in Procs : q # p => job'[q] = job[q]
    BY <1>8, RunFacts DEF OpenRollout
  <2>10. QED
    BY <2>1, <2>8, <2>9, BuildCalm
<1>9. ASSUME NEW p \in Procs, normalize_and_ingest_rollout(p)
      PROVE  \A q \in Procs : BuildOK(job[q])'
  <2>1. /\ job[p].kind = "snapshot" /\ job[p].at = "install" /\ objects \subseteq objects'
        /\ UNCHANGED vault
    BY <1>9 DEF normalize_and_ingest_rollout, At, install_bytes
  <2>2. CASE UNCHANGED job
    BY <2>1, <2>2, BuildMonotone DEF RepositoryInv, Building
  <2>3. CASE Missing(p) = {} /\ Step(p, "thread")
    <3>1. job[p] \in SnapshotJobs /\ Ingested(job[p])
      BY <2>1, BuildFacts DEF RepositoryInv, Typing
    <3>2. /\ job'[p] = [job[p] EXCEPT !.at = "thread"] /\ job'[p].kind = "snapshot"
          /\ \A q \in Procs : q # p => job'[q] = job[q]
      BY <2>1, <2>3, StepJob
    <3>3. /\ job'[p].at = "thread" /\ job'[p].todo = job[p].todo
          /\ job'[p].fingerprint = job[p].fingerprint /\ job'[p].contents = job[p].contents
      BY <3>1, <3>2 DEF SnapshotJobs
    <3>4. \A t \in DOMAIN job[p].contents : content_objects_present(t, job[p].contents[t])
      BY <2>3 DEF Missing
    <3>5. \A t \in DOMAIN job[p].contents : content_objects_present(t, job[p].contents[t])'
      BY <2>1, <3>3, <3>4 DEF content_objects_present
    <3>6. Ingested(job[p])'
      BY <2>1, <3>1, <3>3, <3>5 DEF Ingested
    <3>7. BuildOK(job[p])'
      BY <3>2, <3>6 DEF BuildOK
    <3>8. QED
      BY <2>1, <3>2, <3>7, BuildCalm
  <2>4. QED
    BY <1>9, <2>2, <2>3 DEF normalize_and_ingest_rollout
<1>10. ASSUME NEW p \in Procs, NEW t \in Threads, source_fingerprint(p, t)
       PROVE  \A q \in Procs : BuildOK(job[q])'
  <2>1. /\ job[p].kind = "snapshot" /\ job[p].at = "thread" /\ UNCHANGED <<objects, vault>>
        /\ t \in job[p].todo
    BY <1>10 DEF source_fingerprint, At, filevars
  <2>2. job[p] \in SnapshotJobs /\ Ingested(job[p])
    BY <2>1, BuildFacts DEF RepositoryInv, Typing
  <2>3. \A q \in Procs : q # p => job'[q] = job[q]
    BY <1>10, RunFacts DEF source_fingerprint
  <2> DEFINE fs == Extend(job[p].fingerprint, t, home[t])
  <2> DEFINE cs == IF Cached(t) THEN Extend(job[p].contents, t, index[t].content) ELSE job[p].contents
  <2> DEFINE at == IF Cached(t) THEN "thread" ELSE "read"
  <2>4. job'[p] = [job[p] EXCEPT !.fingerprint = fs, !.contents = cs, !.todo = job[p].todo \ {t},
                                !.at = at]
    BY <1>10, FingerprintFacts
  <2>5. DOMAIN fs = DOMAIN job[p].fingerprint \cup {t}
    BY ExtendFacts
  <2>6. /\ Cached(t) => DOMAIN cs = DOMAIN job[p].contents \cup {t} /\ at = "thread"
        /\ ~ Cached(t) => cs = job[p].contents /\ at = "read"
    BY ExtendFacts
  <2>7. \A x \in DOMAIN cs : content_objects_present(x, cs[x])
    <3>1. \A x \in DOMAIN job[p].contents : content_objects_present(x, job[p].contents[x])
      BY <2>1, <2>2 DEF Ingested
    <3>2. CASE Cached(t)
      <4>1. /\ cs[t] = index[t].content
            /\ \A x \in DOMAIN job[p].contents : x # t => cs[x] = job[p].contents[x]
        BY <3>2 DEF Extend
      <4>2. content_objects_present(t, index[t].content)
        BY <3>2 DEF Cached
      <4>3. QED
        BY <2>6, <3>1, <3>2, <4>1, <4>2
    <3>3. CASE ~ Cached(t)
      BY <2>6, <3>1, <3>3
    <3>4. QED
      BY <3>2, <3>3
  <2> HIDE DEF fs, cs, at
  <2>8. /\ job'[p].kind = "snapshot" /\ job'[p].at = at /\ job'[p].todo = job[p].todo \ {t}
        /\ job'[p].fingerprint = fs /\ job'[p].contents = cs
    BY <2>1, <2>2, <2>4 DEF SnapshotJobs
  <2>9. /\ DOMAIN job[p].contents = DOMAIN job[p].fingerprint
        /\ DOMAIN job[p].fingerprint = Threads \ job[p].todo
    BY <2>1, <2>2 DEF Ingested
  <2>10. DOMAIN fs = Threads \ (job[p].todo \ {t})
    BY <2>1, <2>5, <2>9
  <2>11. IF at = "read" THEN \E x \in DOMAIN fs : DOMAIN cs = DOMAIN fs \ {x}
         ELSE DOMAIN cs = DOMAIN fs
    <3>1. CASE Cached(t)
      BY <2>5, <2>6, <2>9, <3>1
    <3>2. CASE ~ Cached(t)
      <4>1. at = "read" /\ DOMAIN cs = DOMAIN job[p].fingerprint
        BY <2>6, <2>9, <3>2
      <4>2. t \in DOMAIN fs /\ DOMAIN cs = DOMAIN fs \ {t}
        BY <2>1, <2>5, <2>9, <4>1
      <4>3. QED
        BY <4>1, <4>2
    <3>3. QED
      BY <3>1, <3>2
  <2>12. at \in {"thread", "read"}
    BY <2>6
  <2>13. Ingested(job[p])'
    <3>1. \A x \in DOMAIN cs : content_objects(x, cs[x]) \subseteq objects'
      BY <2>1, <2>7 DEF content_objects_present
    <3>2. QED
      BY <2>8, <2>10, <2>11, <2>12, <3>1 DEF Ingested, content_objects_present
  <2>14. BuildOK(job[p])'
    BY <2>8, <2>13 DEF BuildOK
  <2>15. QED
    BY <2>1, <2>3, <2>14, BuildCalm
<1>11. ASSUME NEW p \in Procs, atomic_write_source_index(p)
       PROVE  \A q \in Procs : BuildOK(job[q])'
  <2>1. /\ job[p].kind = "snapshot" /\ job[p].at = "thread" /\ UNCHANGED <<objects, vault>>
        /\ job[p].todo = {}
    BY <1>11 DEF atomic_write_source_index, At
  <2>2. CASE Done(p)
    BY <2>1, <2>2, DoneJob, BuildsNothing, BuildCalm
  <2>3. CASE Step(p, "build")
    <3>1. job[p] \in SnapshotJobs /\ Ingested(job[p])
      BY <2>1, BuildFacts DEF RepositoryInv, Typing
    <3>2. /\ job'[p] = [job[p] EXCEPT !.at = "build"] /\ job'[p].kind = "snapshot"
          /\ \A q \in Procs : q # p => job'[q] = job[q]
      BY <2>1, <2>3, StepJob
    <3>3. /\ job'[p].at = "build" /\ job'[p].todo = job[p].todo
          /\ job'[p].fingerprint = job[p].fingerprint /\ job'[p].contents = job[p].contents
      BY <3>1, <3>2 DEF SnapshotJobs
    <3>4. Ingested(job[p])'
      BY <2>1, <3>1, <3>3 DEF Ingested, content_objects_present
    <3>5. BuildOK(job[p])'
      BY <3>2, <3>4 DEF BuildOK
    <3>6. QED
      BY <2>1, <3>2, <3>5, BuildCalm
  <2>4. QED
    BY <1>11, <2>2, <2>3 DEF atomic_write_source_index
<1>12. ASSUME NEW p \in Procs, build_v4_snapshot_root(p)
       PROVE  \A q \in Procs : BuildOK(job[q])'
  <2>1. /\ job[p].kind = "snapshot" /\ job[p].at = "build" /\ UNCHANGED vault /\ Step(p, "root")
        /\ objects' = objects \cup ({Descriptor(t, Selected(p)[t]) : t \in job[p].selected}
                                      \cup {Overlay(Selected(p))})
    BY <1>12 DEF build_v4_snapshot_root, At, install_bytes
  <2>2. /\ job[p] \in SnapshotJobs /\ Ingested(job[p]) /\ job[p].todo = {}
        /\ DOMAIN job[p].contents = Threads /\ DOMAIN Selected(p) = job[p].selected
        /\ \A t \in job[p].selected : Selected(p)[t] = job[p].contents[t]
    BY <2>1, BuildFacts DEF RepositoryInv, Typing
  <2>3. /\ job'[p] = [job[p] EXCEPT !.at = "root"] /\ job'[p].kind = "snapshot"
        /\ \A q \in Procs : q # p => job'[q] = job[q]
    BY <2>1, StepJob
  <2>4. /\ job'[p].at = "root" /\ job'[p].todo = job[p].todo /\ job'[p].selected = job[p].selected
        /\ job'[p].fingerprint = job[p].fingerprint /\ job'[p].contents = job[p].contents
    BY <2>2, <2>3 DEF SnapshotJobs
  <2>5. \A t \in Threads : content_objects(t, job[p].contents[t]) \subseteq objects'
    BY <2>1, <2>2 DEF Ingested, content_objects_present
  <2>6. \A t \in job[p].selected : content_objects(t, Selected(p)[t]) \subseteq objects'
    BY <2>2, <2>5 DEF SnapshotJobs
  <2>7. /\ \A t \in job[p].selected : Descriptor(t, Selected(p)[t]) \in objects'
        /\ Overlay(Selected(p)) \in objects'
    BY <2>1
  <2>8. collect_snapshot_graph_objects(Selected(p)) \subseteq objects'
    BY <2>2, <2>6, <2>7, GraphStored
  <2>9. Stored(Restrict(job[p].contents, job[p].selected))'
    BY <2>4, <2>8 DEF Stored, Selected
  <2>10. Ingested(job[p])'
    BY <2>2, <2>1, <2>4, <2>5, <2>9 DEF Ingested, content_objects_present
  <2>11. BuildOK(job[p])'
    BY <2>3, <2>10 DEF BuildOK
  <2>12. objects \subseteq objects'
    BY <2>1
  <2>13. QED
    BY <2>1, <2>3, <2>11, <2>12, BuildCalm
<1>13. ASSUME NEW p \in Procs, write_v4_snapshot(p) PROVE \A q \in Procs : BuildOK(job[q])'
  <2>1. /\ \A q \in Procs : q # p => job'[q] = job[q]
        /\ job'[p].kind \notin {"snapshot", "download", "import"}
    BY <1>13, DoneJob DEF write_v4_snapshot
  <2>2. objects \subseteq objects' /\ UNCHANGED vault
    BY <1>13 DEF write_v4_snapshot, filevars
  <2>3. QED
    BY <2>1, <2>2, BuildCalm, BuildsNothing
<1>14. ASSUME NEW p \in Procs, NEW s \in SnapshotIds, validate_local_snapshot(p, s)
       PROVE  \A q \in Procs : BuildOK(job[q])'
  <2>1. /\ \A q \in Procs : q # p => job'[q] = job[q]
        /\ job'[p].kind \notin {"snapshot", "download", "import"}
    BY <1>14, RunFacts DEF validate_local_snapshot
  <2>2. objects \subseteq objects' /\ UNCHANGED vault
    BY <1>14 DEF validate_local_snapshot, filevars
  <2>3. QED
    BY <2>1, <2>2, BuildCalm, BuildsNothing
<1>15. ASSUME NEW p \in Procs, EndRead(p) PROVE \A q \in Procs : BuildOK(job[q])'
  <2>1. /\ \A q \in Procs : q # p => job'[q] = job[q]
        /\ job'[p].kind \notin {"snapshot", "download", "import"}
    BY <1>15, DoneJob DEF EndRead
  <2>2. objects \subseteq objects' /\ UNCHANGED vault
    BY <1>15 DEF EndRead, filevars
  <2>3. QED
    BY <2>1, <2>2, BuildCalm, BuildsNothing
<1>16. ASSUME NEW p \in Procs, load_revision_root(p) PROVE \A q \in Procs : BuildOK(job[q])'
  <2>1. /\ \A q \in Procs : q # p => job'[q] = job[q]
        /\ job'[p].kind = "download" /\ job'[p].at = "thread"
    BY <1>16, RunFacts DEF load_revision_root
  <2>2. objects \subseteq objects' /\ UNCHANGED vault
    BY <1>16 DEF load_revision_root, install_bytes
  <2>3. BuildOK(job[p])'
    BY <2>1 DEF BuildOK
  <2>4. QED
    BY <2>1, <2>2, <2>3, BuildCalm
<1>17. ASSUME NEW p \in Procs, download_revision_graph(p)
       PROVE  \A q \in Procs : BuildOK(job[q])'
  <2>1. job[p].kind = "download" /\ objects \subseteq objects' /\ UNCHANGED vault
    BY <1>17 DEF download_revision_graph, At, install_bytes
  <2>2. CASE UNCHANGED job
    BY <2>1, <2>2, BuildMonotone DEF RepositoryInv, Building
  <2>3. CASE ThreadGraph(Remote) \subseteq objects /\ Step(p, "build")
    <3>1. /\ \A q \in Procs : q # p => job'[q] = job[q]
          /\ job'[p].kind = "download" /\ job'[p].at = "build"
      BY <2>1, <2>3, StepJob
    <3>2. BuildOK(job[p])'
      BY <2>1, <2>3, <3>1 DEF BuildOK
    <3>3. QED
      BY <2>1, <3>1, <3>2, BuildCalm
  <2>4. QED
    BY <1>17, <2>2, <2>3 DEF download_revision_graph
<1>18. ASSUME NEW p \in Procs, EndDownload(p) PROVE \A q \in Procs : BuildOK(job[q])'
  <2>1. /\ \A q \in Procs : q # p => job'[q] = job[q]
        /\ job'[p].kind \notin {"snapshot", "download", "import"}
    BY <1>18, DoneJob DEF EndDownload
  <2>2. objects \subseteq objects' /\ UNCHANGED vault
    BY <1>18 DEF EndDownload, filevars
  <2>3. QED
    BY <2>1, <2>2, BuildCalm, BuildsNothing
<1>19. ASSUME NEW p \in Procs, download_remote_revision_as_snapshot(p)
       PROVE  \A q \in Procs : BuildOK(job[q])'
  <2>1. job[p].kind = "download" /\ objects \subseteq objects' /\ UNCHANGED vault
    BY <1>19 DEF download_remote_revision_as_snapshot, install_bytes
  <2>2. CASE Done(p)
    BY <2>1, <2>2, DoneJob, BuildsNothing, BuildCalm
  <2>3. CASE job[p].at = "build" /\ Step(p, "root") /\ install_bytes({Overlay(Remote)})
    <3>1. /\ \A q \in Procs : q # p => job'[q] = job[q]
          /\ job'[p].kind = "download" /\ job'[p].at = "root"
      BY <2>1, <2>3, StepJob
    <3>2. ThreadGraph(Remote) \subseteq objects
      BY <2>1, <2>3 DEF RepositoryInv, Building, BuildOK
    <3>3. BuildOK(job[p])'
      BY <2>1, <2>3, <3>1, <3>2 DEF BuildOK, install_bytes
    <3>4. QED
      BY <2>1, <3>1, <3>3, BuildCalm
  <2>4. QED
    BY <1>19, <2>2, <2>3 DEF download_remote_revision_as_snapshot
<1>20. ASSUME NEW p \in Procs, trash_local_snapshot(p)
       PROVE  \A q \in Procs : BuildOK(job[q])'
  <2>1. /\ \A q \in Procs : q # p => job'[q] = job[q]
        /\ job'[p].kind \notin {"snapshot", "download", "import"}
    BY <1>20, RunFacts DEF trash_local_snapshot
  <2>2. objects \subseteq objects' /\ UNCHANGED vault
    BY <1>20 DEF trash_local_snapshot, filevars
  <2>3. QED
    BY <2>1, <2>2, BuildCalm, BuildsNothing
<1>21. ASSUME NEW p \in Procs, TrashStep(p) PROVE \A q \in Procs : BuildOK(job[q])'
  <2>1. /\ \A q \in Procs : q # p => job'[q] = job[q]
        /\ job'[p].kind \notin {"snapshot", "download", "import"}
    BY <1>21, StepJob, DoneJob DEF TrashStep
  <2>2. objects \subseteq objects' /\ UNCHANGED vault
    BY <1>21 DEF TrashStep, filevars
  <2>3. QED
    BY <2>1, <2>2, BuildCalm, BuildsNothing
<1>22. ASSUME NEW p \in Procs, RestoreStep(p) PROVE \A q \in Procs : BuildOK(job[q])'
  <2>1. /\ \A q \in Procs : q # p => job'[q] = job[q]
        /\ job'[p].kind \notin {"snapshot", "download", "import"}
    BY <1>22, PurgeJobKinds
  <2>2. objects \subseteq objects' /\ UNCHANGED vault
    BY <1>22 DEF RestoreStep, filevars
  <2>3. QED
    BY <2>1, <2>2, BuildCalm, BuildsNothing
<1>23. ASSUME NEW p \in Procs, NEW o \in TrashIds, restore_trashed_snapshot(p, o)
       PROVE  \A q \in Procs : BuildOK(job[q])'
  <2>1. /\ \A q \in Procs : q # p => job'[q] = job[q]
        /\ job'[p].kind \notin {"snapshot", "download", "import"}
    BY <1>23, RunFacts DEF restore_trashed_snapshot
  <2>2. objects \subseteq objects' /\ UNCHANGED vault
    BY <1>23 DEF restore_trashed_snapshot, filevars
  <2>3. QED
    BY <2>1, <2>2, BuildCalm, BuildsNothing
<1>24. ASSUME NEW p \in Procs, quarantine_local_gc_plan(p)
       PROVE  \A q \in Procs : BuildOK(job[q])'
  <2>1. /\ \A q \in Procs : q # p => job'[q] = job[q]
        /\ job'[p].kind \notin {"snapshot", "download", "import"}
    BY <1>24, RunFacts DEF quarantine_local_gc_plan
  <2>2. objects \subseteq objects' /\ UNCHANGED vault
    BY <1>24 DEF quarantine_local_gc_plan, filevars
  <2>3. QED
    BY <2>1, <2>2, BuildCalm, BuildsNothing
<1>25. ASSUME NEW p \in Procs, MoveToQuarantine(p) PROVE \A q \in Procs : BuildOK(job[q])'
  <2>1. (\A q \in Procs : q # p => job'[q] = job[q]) /\ job'[p].kind \in {"idle", "gc"}
    BY <1>25, MoveFacts, RunFacts, IdleFacts DEF MoveToQuarantine, At, Done
  <2>2. \A q \in Procs : q # p => job'[q] = Idle /\ job'[q].kind = "idle"
    BY <1>25, <2>1, Alone DEF MoveToQuarantine, At
  <2>3. QED
    BY <2>1, <2>2, BuildsNothing, BuildAlone
<1>26. ASSUME NEW p \in Procs, start_purge(p) PROVE \A q \in Procs : BuildOK(job[q])'
  <2>1. /\ \A q \in Procs : q # p => job'[q] = job[q]
        /\ job'[p].kind \notin {"snapshot", "download", "import"}
    BY <1>26, PurgeJobKinds
  <2>2. objects \subseteq objects' /\ UNCHANGED vault
    BY <1>26 DEF start_purge, filevars
  <2>3. QED
    BY <2>1, <2>2, BuildCalm, BuildsNothing
<1>27. ASSUME NEW p \in Procs, recover_local_trash_purges(p)
       PROVE  \A q \in Procs : BuildOK(job[q])'
  <2>1. /\ \A q \in Procs : q # p => job'[q] = job[q]
        /\ job'[p].kind \notin {"snapshot", "download", "import"}
    BY <1>27, PurgeJobKinds
  <2>2. objects \subseteq objects' /\ UNCHANGED vault
    BY <1>27 DEF recover_local_trash_purges, filevars
  <2>3. QED
    BY <2>1, <2>2, BuildCalm, BuildsNothing
<1>28. ASSUME NEW p \in Procs, plan_local_trash_purge(p)
       PROVE  \A q \in Procs : BuildOK(job[q])'
  <2>1. /\ \A q \in Procs : q # p => job'[q] = job[q]
        /\ job'[p].kind \notin {"snapshot", "download", "import"}
    BY <1>28, PurgeJobKinds
  <2>2. objects \subseteq objects' /\ UNCHANGED vault
    BY <1>28 DEF plan_local_trash_purge, filevars
  <2>3. QED
    BY <2>1, <2>2, BuildCalm, BuildsNothing
<1>29. ASSUME NEW p \in Procs, purge_local_trash(p) PROVE \A q \in Procs : BuildOK(job[q])'
  <2>1. /\ \A q \in Procs : q # p => job'[q] = job[q]
        /\ job'[p].kind \notin {"snapshot", "download", "import"}
    BY <1>29, PurgeJobKinds
  <2>2. objects \subseteq objects' /\ UNCHANGED vault
    BY <1>29 DEF purge_local_trash, filevars
  <2>3. QED
    BY <2>1, <2>2, BuildCalm, BuildsNothing
<1>30. ASSUME NEW p \in Procs, rollback_local_trash_purge(p)
       PROVE  \A q \in Procs : BuildOK(job[q])'
  <2>1. /\ \A q \in Procs : q # p => job'[q] = job[q]
        /\ job'[p].kind \notin {"snapshot", "download", "import"}
    BY <1>30, PurgeJobKinds
  <2>2. objects \subseteq objects' /\ UNCHANGED vault
    BY <1>30 DEF rollback_local_trash_purge, filevars
  <2>3. QED
    BY <2>1, <2>2, BuildCalm, BuildsNothing
<1>31. ASSUME NEW p \in Procs, finish_local_trash_purge(p)
       PROVE  \A q \in Procs : BuildOK(job[q])'
  <2>1. (\A q \in Procs : q # p => job'[q] = job[q]) /\ job'[p].kind \in {"idle", "purge"}
    BY <1>31, PurgeJobKinds
  <2>2. \A q \in Procs : q # p => job'[q] = Idle /\ job'[q].kind = "idle"
    BY <1>31, <2>1, Alone DEF finish_local_trash_purge, At
  <2>3. QED
    BY <2>1, <2>2, BuildsNothing, BuildAlone
<1>32. ASSUME NEW p \in Procs, export_treasure_to_vault(p)
       PROVE  \A q \in Procs : BuildOK(job[q])'
  <2>1. try_acquire_repository(p, TRUE) /\ UNCHANGED job
    BY <1>32 DEF export_treasure_to_vault
  <2>2. \A q \in Procs : q # p => job'[q] = Idle /\ job'[q].kind = "idle"
    BY <2>1, Alone
  <2>3. job'[p].kind = "idle"
    BY <2>1 DEF try_acquire_repository
  <2>4. QED
    BY <2>2, <2>3, BuildsNothing, BuildAlone
<1>33. ASSUME NEW p \in Procs, trash_treasure(p) PROVE \A q \in Procs : BuildOK(job[q])'
  <2>1. try_acquire_repository(p, TRUE) /\ UNCHANGED job
    BY <1>33 DEF trash_treasure
  <2>2. \A q \in Procs : q # p => job'[q] = Idle /\ job'[q].kind = "idle"
    BY <2>1, Alone
  <2>3. job'[p].kind = "idle"
    BY <2>1 DEF try_acquire_repository
  <2>4. QED
    BY <2>2, <2>3, BuildsNothing, BuildAlone
<1>34. ASSUME NEW p \in Procs, start_treasure_import(p)
       PROVE  \A q \in Procs : BuildOK(job[q])'
  <2>1. PICK k \in TreasureIds :
          /\ vault[k] # None
          /\ Run(p, [kind |-> "import", lease |-> "exclusive", at |-> "objects", treasure |-> k])
    BY <1>34 DEF start_treasure_import
  <2>2. /\ \A q \in Procs : q # p => job'[q] = job[q]
        /\ job'[p].kind = "import" /\ job'[p].at = "objects" /\ job'[p].treasure = k
    BY <2>1, RunFacts
  <2>3. UNCHANGED <<objects, vault>>
    BY <1>34 DEF start_treasure_import, filevars
  <2>4. BuildOK(job[p])'
    BY <2>1, <2>2, <2>3 DEF BuildOK
  <2>5. QED
    BY <2>2, <2>3, <2>4, BuildCalm
<1>35. ASSUME NEW p \in Procs, import_treasure_as_snapshot(p)
       PROVE  \A q \in Procs : BuildOK(job[q])'
  <2>1. /\ job[p].kind = "import" /\ Step(p, "root") /\ UNCHANGED vault
        /\ objects' = objects \cup collect_snapshot_graph_objects(vault[job[p].treasure])
    BY <1>35 DEF import_treasure_as_snapshot, At, install_bytes
  <2>2. /\ \A q \in Procs : q # p => job'[q] = job[q]
        /\ job'[p].kind = "import" /\ job'[p].at = "root"
        /\ job'[p] = [job[p] EXCEPT !.at = "root"]
    BY <2>1, StepJob
  <2>3. job[p] \in ImportJobs /\ vault[job[p].treasure] # None
    BY <2>1, JobShapes DEF RepositoryInv, Typing, Building, BuildOK
  <2>4. job'[p].treasure = job[p].treasure
    BY <2>2, <2>3 DEF ImportJobs
  <2>5. Stored(vault[job[p].treasure])'
    BY <2>1, <2>4 DEF Stored
  <2>6. BuildOK(job[p])'
    BY <2>1, <2>2, <2>3, <2>4, <2>5 DEF BuildOK
  <2>7. objects \subseteq objects'
    BY <2>1
  <2>8. QED
    BY <2>1, <2>2, <2>6, <2>7, BuildCalm
<1>36. ASSUME NEW p \in Procs, WriteImportedRoot(p) PROVE \A q \in Procs : BuildOK(job[q])'
  <2>1. /\ \A q \in Procs : q # p => job'[q] = job[q]
        /\ job'[p].kind \notin {"snapshot", "download", "import"}
    BY <1>36, DoneJob DEF WriteImportedRoot
  <2>2. objects \subseteq objects' /\ UNCHANGED vault
    BY <1>36 DEF WriteImportedRoot, filevars
  <2>3. QED
    BY <2>1, <2>2, BuildCalm, BuildsNothing
<1>37. ASSUME NEW p \in Procs, JobFails(p) PROVE \A q \in Procs : BuildOK(job[q])'
  <2>1. /\ \A q \in Procs : q # p => job'[q] = job[q]
        /\ job'[p].kind \notin {"snapshot", "download", "import"}
    BY <1>37, PurgeJobKinds
  <2>2. objects \subseteq objects' /\ UNCHANGED vault
    BY <1>37 DEF JobFails, filevars
  <2>3. QED
    BY <2>1, <2>2, BuildCalm, BuildsNothing
<1>38. CASE Crash
  <2>1. \A q \in Procs : job'[q].kind = "idle"
    BY <1>38, IdleFacts DEF Crash
  <2>2. QED
    BY <2>1, BuildsNothing
<1>39. ASSUME UNCHANGED vars PROVE UNCHANGED <<objects, vault, job>>
  BY <1>39 DEF vars, filevars
<1>40. QED
  BY <1>1, <1>2, <1>3, <1>4, <1>5, <1>6, <1>7, <1>8, <1>9, <1>10, <1>11, <1>12, <1>13,
     <1>14, <1>15, <1>16, <1>17, <1>18, <1>19, <1>20, <1>21, <1>22, <1>23, <1>24, <1>25,
     <1>26, <1>27, <1>28, <1>29, <1>30, <1>31, <1>32, <1>33, <1>34, <1>35, <1>36, <1>37,
     <1>38, <1>39 DEF Next, SnapshotStep, CleanupStep

(***************************************************************************)
(* What a job has read is no older than its request, no newer than the     *)
(* file.                                                                   *)
(***************************************************************************)
\* Only Codex changes the Home.
LEMMA HomeMoves ==
    ASSUME RepositoryInv, [Next]_vars
    PROVE  (\E x \in Threads : EditThread(x)) \/ UNCHANGED home
<1>1. CASE UNCHANGED home
  BY <1>1
<1>2. ASSUME NEW p \in Procs, start_snapshot(p) PROVE UNCHANGED home
  BY <1>2 DEF start_snapshot, filevars, Run
<1>3. ASSUME NEW p \in Procs, OpenRollout(p) PROVE UNCHANGED home
  BY <1>3 DEF OpenRollout, filevars, Run, At
<1>4. ASSUME NEW p \in Procs, normalize_and_ingest_rollout(p) PROVE UNCHANGED home
  BY <1>4 DEF normalize_and_ingest_rollout, At, Step, Run
<1>5. ASSUME NEW p \in Procs, NEW t \in Threads, source_fingerprint(p, t)
      PROVE  UNCHANGED home
  BY <1>5 DEF source_fingerprint, filevars, Run, At
<1>6. ASSUME NEW p \in Procs, atomic_write_source_index(p) PROVE UNCHANGED home
  BY <1>6 DEF atomic_write_source_index, At, Done, Step, Run
<1>7. ASSUME NEW p \in Procs, build_v4_snapshot_root(p) PROVE UNCHANGED home
  BY <1>7 DEF build_v4_snapshot_root, At, Step, Run
<1>8. ASSUME NEW p \in Procs, write_v4_snapshot(p) PROVE UNCHANGED home
  BY <1>8 DEF write_v4_snapshot, At, Done, Run
<1>9. ASSUME NEW p \in Procs, NEW s \in SnapshotIds, update_snapshot_metadata(p, s)
      PROVE  UNCHANGED home
  BY <1>9 DEF update_snapshot_metadata
<1>10. ASSUME NEW p \in Procs, NEW s \in SnapshotIds, validate_local_snapshot(p, s)
       PROVE  UNCHANGED home
  BY <1>10 DEF validate_local_snapshot, filevars, Run
<1>11. ASSUME NEW p \in Procs, EndRead(p) PROVE UNCHANGED home
  BY <1>11 DEF EndRead, filevars, At, Done, Run
<1>12. ASSUME NEW p \in Procs, load_revision_root(p) PROVE UNCHANGED home
  BY <1>12 DEF load_revision_root, Run
<1>13. ASSUME NEW p \in Procs, download_revision_graph(p) PROVE UNCHANGED home
  BY <1>13 DEF download_revision_graph, At, Step, Run
<1>14. ASSUME NEW p \in Procs, EndDownload(p) PROVE UNCHANGED home
  BY <1>14 DEF EndDownload, filevars, Done, Run
<1>15. ASSUME NEW p \in Procs, download_remote_revision_as_snapshot(p) PROVE UNCHANGED home
  BY <1>15 DEF download_remote_revision_as_snapshot, Step, Done, Run
<1>16. ASSUME NEW p \in Procs, NEW s \in SnapshotIds, plan_snapshot_deletion(p, s)
       PROVE  UNCHANGED home
  BY <1>16 DEF plan_snapshot_deletion, filevars
<1>17. ASSUME NEW p \in Procs, trash_local_snapshot(p) PROVE UNCHANGED home
  BY <1>17 DEF trash_local_snapshot, Run
<1>18. ASSUME NEW p \in Procs, TrashStep(p) PROVE UNCHANGED home
  BY <1>18 DEF TrashStep, Step, Done, Run
<1>19. ASSUME NEW p \in Procs, RestoreStep(p) PROVE UNCHANGED home
  BY <1>19 DEF RestoreStep, At, Done, Run
<1>20. ASSUME NEW p \in Procs, NEW o \in TrashIds, restore_trashed_snapshot(p, o)
       PROVE  UNCHANGED home
  BY <1>20 DEF restore_trashed_snapshot, Run
<1>21. ASSUME NEW p \in Procs, plan_local_gc(p) PROVE UNCHANGED home
  BY <1>21 DEF plan_local_gc, filevars
<1>22. ASSUME NEW p \in Procs, quarantine_local_gc_plan(p) PROVE UNCHANGED home
  BY <1>22 DEF quarantine_local_gc_plan, filevars, Run
<1>23. ASSUME NEW p \in Procs, MoveToQuarantine(p) PROVE UNCHANGED home
  BY <1>23 DEF MoveToQuarantine, At, Done, Run
<1>24. ASSUME NEW p \in Procs, start_purge(p) PROVE UNCHANGED home
  BY <1>24 DEF start_purge, filevars, Run
<1>25. ASSUME NEW p \in Procs, recover_local_trash_purges(p) PROVE UNCHANGED home
  BY <1>25 DEF recover_local_trash_purges, filevars, At, Step, Run
<1>26. ASSUME NEW p \in Procs, plan_local_trash_purge(p) PROVE UNCHANGED home
  BY <1>26 DEF plan_local_trash_purge, At, Step, Done, Run
<1>27. ASSUME NEW p \in Procs, purge_local_trash(p) PROVE UNCHANGED home
  BY <1>27 DEF purge_local_trash, At, Step, Run
<1>28. ASSUME NEW p \in Procs, rollback_local_trash_purge(p) PROVE UNCHANGED home
  BY <1>28 DEF rollback_local_trash_purge, At, Step, Done, Run
<1>29. ASSUME NEW p \in Procs, finish_local_trash_purge(p) PROVE UNCHANGED home
  BY <1>29 DEF finish_local_trash_purge, At, Step, Done, Run
<1>30. ASSUME NEW p \in Procs, export_treasure_to_vault(p) PROVE UNCHANGED home
  BY <1>30 DEF export_treasure_to_vault
<1>31. ASSUME NEW p \in Procs, trash_treasure(p) PROVE UNCHANGED home
  BY <1>31 DEF trash_treasure
<1>32. ASSUME NEW p \in Procs, start_treasure_import(p) PROVE UNCHANGED home
  BY <1>32 DEF start_treasure_import, filevars, Run
<1>33. ASSUME NEW p \in Procs, import_treasure_as_snapshot(p) PROVE UNCHANGED home
  BY <1>33 DEF import_treasure_as_snapshot, At, Step, Run
<1>34. ASSUME NEW p \in Procs, WriteImportedRoot(p) PROVE UNCHANGED home
  BY <1>34 DEF WriteImportedRoot, At, Done, Run
<1>35. ASSUME NEW p \in Procs, JobFails(p) PROVE UNCHANGED home
  BY <1>35 DEF JobFails, filevars, At, Done, Run
<1>36. ASSUME Decline PROVE UNCHANGED home
  BY <1>36 DEF Decline, filevars
<1>37. ASSUME Crash PROVE UNCHANGED home
  BY <1>37 DEF Crash, filevars
<1>38. ASSUME NEW t \in Threads, EditThread(t)
       PROVE  (\E x \in Threads : EditThread(x)) \/ UNCHANGED home
  BY <1>38
<1>39. ASSUME UNCHANGED vars PROVE UNCHANGED home
  BY <1>39 DEF vars, filevars
<1>40. QED
  BY <1>1, <1>2, <1>3, <1>4, <1>5, <1>6, <1>7, <1>8, <1>9, <1>10, <1>11, <1>12, <1>13,
     <1>14, <1>15, <1>16, <1>17, <1>18, <1>19, <1>20, <1>21, <1>22, <1>23, <1>24, <1>25,
     <1>26, <1>27, <1>28, <1>29, <1>30, <1>31, <1>32, <1>33, <1>34, <1>35, <1>36, <1>37,
     <1>38, <1>39 DEF Next, SnapshotStep, CleanupStep

LEMMA HomeGrows ==
    ASSUME RepositoryInv, [Next]_vars
    PROVE  \A t \in Threads : home[t] \in Nat /\ home'[t] \in Nat /\ home[t] <= home'[t]
<1>1. home \in [Threads -> Version] /\ home' \in [Threads -> Version]
  BY HomeTyped DEF RepositoryInv, Typing, FileTyping
<1>2. \A t \in Threads : home[t] \in Nat /\ home'[t] \in Nat
  BY <1>1, Constants
<1>3. CASE UNCHANGED home
  BY <1>2, <1>3
<1>4. CASE \E t \in Threads : home' = [home EXCEPT ![t] = home[t] + 1]
  BY <1>1, <1>2, <1>4
<1>5. (\E t \in Threads : EditThread(t)) \/ UNCHANGED home
  BY HomeMoves
<1>6. QED
  BY <1>3, <1>4, <1>5 DEF EditThread

LEMMA ReadTyped ==
    ASSUME RepositoryInv, NEW q \in Procs, job[q].kind = "snapshot"
    PROVE  /\ \A t \in Threads : job[q].base[t] \in Nat
           /\ DOMAIN job[q].fingerprint \subseteq Threads /\ DOMAIN job[q].contents \subseteq Threads
           /\ \A t \in DOMAIN job[q].fingerprint : job[q].fingerprint[t] \in Nat
           /\ \A t \in DOMAIN job[q].contents : job[q].contents[t] \in Nat
           /\ ReadOK(job[q])
<1>1. job[q] \in SnapshotJobs
  BY JobShapes DEF RepositoryInv, Typing
<1>2. /\ job[q].fingerprint \in Contents /\ job[q].contents \in Contents
      /\ job[q].base \in [Threads -> Version]
  BY <1>1 DEF SnapshotJobs
<1>3. ReadOK(job[q])
  BY DEF RepositoryInv, Timely
<1>4. QED
  BY <1>2, <1>3, ContentsValue, Constants

LEMMA ReadMonotone ==
    ASSUME RepositoryInv, [Next]_vars, NEW q \in Procs, job'[q] = job[q] PROVE ReadOK(job[q])'
<1>1. CASE job[q].kind # "snapshot"
  BY <1>1 DEF ReadOK
<1>2. CASE job[q].kind = "snapshot"
  <2>1. \A t \in Threads : home[t] \in Nat /\ home'[t] \in Nat /\ home[t] <= home'[t]
    BY HomeGrows
  <2>2. QED
    BY <1>2, <2>1, ReadTyped DEF ReadOK
<1>3. QED
  BY <1>1, <1>2

LEMMA ReadCalm ==
    ASSUME RepositoryInv, [Next]_vars, NEW p \in Procs, \A q \in Procs : q # p => job'[q] = job[q],
           ReadOK(job[p])'
    PROVE  \A q \in Procs : ReadOK(job[q])'
  BY ReadMonotone

LEMMA ReadsNothing ==
    ASSUME NEW q \in Procs, job'[q].kind # "snapshot" PROVE ReadOK(job[q])'
  BY DEF ReadOK

\* A step that only moves the job on.
LEMMA ReadStep ==
    ASSUME RepositoryInv, [Next]_vars, NEW p \in Procs, NEW at, Step(p, at), UNCHANGED home,
           job[p].kind = "snapshot"
    PROVE  \A q \in Procs : ReadOK(job[q])'
<1>1. /\ job'[p] = [job[p] EXCEPT !.at = at] /\ \A q \in Procs : q # p => job'[q] = job[q]
  BY StepJob
<1>2. job[p] \in SnapshotJobs
  BY JobShapes DEF RepositoryInv, Typing
<1>3. /\ job'[p].fingerprint = job[p].fingerprint /\ job'[p].contents = job[p].contents
      /\ job'[p].base = job[p].base /\ job'[p].kind = "snapshot"
  BY <1>1, <1>2 DEF SnapshotJobs
<1>4. ReadOK(job[p])'
  BY <1>3, ReadTyped DEF ReadOK
<1>5. QED
  BY <1>1, <1>4, ReadCalm

\* Versions read only grow.
LEMMA ReadKept ==
    ASSUME RepositoryInv, [Next]_vars
    PROVE  \A q \in Procs : ReadOK(job[q])'
<1>1. CASE UNCHANGED <<home, job>>
  BY <1>1 DEF RepositoryInv, Timely, ReadOK
<1>2. ASSUME NEW p \in Procs, NEW s \in SnapshotIds, update_snapshot_metadata(p, s)
      PROVE  UNCHANGED <<home, job>>
  BY <1>2 DEF update_snapshot_metadata
<1>3. ASSUME NEW p \in Procs, NEW s \in SnapshotIds, plan_snapshot_deletion(p, s)
      PROVE  UNCHANGED <<home, job>>
  BY <1>3 DEF plan_snapshot_deletion, filevars
<1>4. ASSUME NEW p \in Procs, plan_local_gc(p) PROVE UNCHANGED <<home, job>>
  BY <1>4 DEF plan_local_gc, filevars
<1>5. ASSUME NEW p \in Procs, export_treasure_to_vault(p) PROVE UNCHANGED <<home, job>>
  BY <1>5 DEF export_treasure_to_vault
<1>6. ASSUME NEW p \in Procs, trash_treasure(p) PROVE UNCHANGED <<home, job>>
  BY <1>6 DEF trash_treasure
<1>7. ASSUME Decline PROVE UNCHANGED <<home, job>>
  BY <1>7 DEF Decline, filevars
<1>8. ASSUME NEW t \in Threads, EditThread(t) PROVE \A q \in Procs : ReadOK(job[q])'
  <2>1. UNCHANGED job
    BY <1>8 DEF EditThread
  <2>2. QED
    BY <2>1, ReadMonotone
<1>9. ASSUME NEW p \in Procs, start_snapshot(p) PROVE \A q \in Procs : ReadOK(job[q])'
  <2>1. PICK selected \in SUBSET Threads : Run(p, SnapshotJob(selected))
    BY <1>9 DEF start_snapshot
  <2>2. job'[p] = SnapshotJob(selected) /\ \A q \in Procs : q # p => job'[q] = job[q]
    BY <2>1, RunFacts
  <2>3. job'[p].base = home /\ job'[p].fingerprint = <<>> /\ job'[p].contents = <<>>
    BY <2>2 DEF SnapshotJob
  <2>4. DOMAIN job'[p].fingerprint = {} /\ DOMAIN job'[p].contents = {}
    BY <2>3, EmptyContents
  <2>5. \A t \in Threads : home[t] \in Nat /\ home'[t] \in Nat /\ home[t] <= home'[t]
    BY HomeGrows
  <2>6. ReadOK(job[p])'
    BY <2>3, <2>4, <2>5 DEF ReadOK
  <2>7. QED
    BY <2>2, <2>6, ReadCalm
<1>10. ASSUME NEW p \in Procs, OpenRollout(p) PROVE \A q \in Procs : ReadOK(job[q])'
  <2>1. job[p].kind = "snapshot" /\ UNCHANGED home
    BY <1>10 DEF OpenRollout, At
  <2>2. PICK t \in Unread(p) :
          job'[p] = [job[p] EXCEPT !.contents = Extend(@, t, home[t]), !.at = "install"]
    BY <1>10, OpenFacts
  <2>3. job[p] \in SnapshotJobs
    BY <2>1, JobShapes DEF RepositoryInv, Typing
  <2>4. /\ job'[p].base = job[p].base /\ job'[p].fingerprint = job[p].fingerprint
        /\ job'[p].contents = Extend(job[p].contents, t, home[t])
    BY <2>2, <2>3 DEF SnapshotJobs
  <2>5. /\ DOMAIN job'[p].contents = DOMAIN job[p].contents \cup {t} /\ job'[p].contents[t] = home[t]
        /\ \A x \in DOMAIN job[p].contents : x # t => job'[p].contents[x] = job[p].contents[x]
    BY <2>4 DEF Extend
  <2>6. t \in DOMAIN job[p].fingerprint /\ DOMAIN job[p].fingerprint \subseteq Threads
    BY <2>1, <2>2, ReadTyped DEF Unread
  <2>7. \A x \in Threads : home[x] \in Nat
    BY HomeGrows
  <2>8. ReadOK(job[p])
    BY <2>1, ReadTyped
  <2>9. /\ \A x \in DOMAIN job[p].fingerprint :
             job[p].base[x] <= job[p].fingerprint[x] /\ job[p].fingerprint[x] <= home[x]
        /\ \A x \in DOMAIN job[p].contents \cap DOMAIN job[p].fingerprint :
             job[p].fingerprint[x] <= job[p].contents[x] /\ job[p].contents[x] <= home[x]
        /\ \A x \in Threads : job[p].base[x] <= home[x]
    BY <2>1, <2>8 DEF ReadOK
  <2>10. \A x \in DOMAIN job'[p].contents \cap DOMAIN job'[p].fingerprint :
           job'[p].fingerprint[x] <= job'[p].contents[x] /\ job'[p].contents[x] <= home[x]
    <3>1. job'[p].fingerprint[t] <= job'[p].contents[t] /\ job'[p].contents[t] <= home[t]
      BY <2>4, <2>5, <2>6, <2>7, <2>9
    <3>2. QED
      BY <2>4, <2>5, <2>9, <3>1
  <2>11. ReadOK(job[p])'
    BY <2>1, <2>4, <2>9, <2>10 DEF ReadOK
  <2>12. \A q \in Procs : q # p => job'[q] = job[q]
    BY <1>10, RunFacts DEF OpenRollout
  <2>13. QED
    BY <2>11, <2>12, ReadCalm
<1>11. ASSUME NEW p \in Procs, normalize_and_ingest_rollout(p)
       PROVE  \A q \in Procs : ReadOK(job[q])'
  <2>1. CASE UNCHANGED job
    BY <2>1, ReadMonotone
  <2>2. CASE Step(p, "thread")
    BY <1>11, <2>2, ReadStep DEF normalize_and_ingest_rollout, At
  <2>3. QED
    BY <1>11, <2>1, <2>2 DEF normalize_and_ingest_rollout
<1>12. ASSUME NEW p \in Procs, NEW t \in Threads, source_fingerprint(p, t)
       PROVE  \A q \in Procs : ReadOK(job[q])'
  <2>1. job[p].kind = "snapshot" /\ UNCHANGED home
    BY <1>12 DEF source_fingerprint, At
  <2>2. job[p] \in SnapshotJobs
    BY <2>1, JobShapes DEF RepositoryInv, Typing
  <2>3. \A q \in Procs : q # p => job'[q] = job[q]
    BY <1>12, RunFacts DEF source_fingerprint
  <2> DEFINE fs == Extend(job[p].fingerprint, t, home[t])
  <2> DEFINE cs == IF Cached(t) THEN Extend(job[p].contents, t, index[t].content) ELSE job[p].contents
  <2> DEFINE at == IF Cached(t) THEN "thread" ELSE "read"
  <2>4. job'[p] = [job[p] EXCEPT !.fingerprint = fs, !.contents = cs, !.todo = job[p].todo \ {t},
                                !.at = at]
    BY <1>12, FingerprintFacts
  <2>5. /\ DOMAIN fs = DOMAIN job[p].fingerprint \cup {t} /\ fs[t] = home[t]
        /\ \A x \in DOMAIN job[p].fingerprint : x # t => fs[x] = job[p].fingerprint[x]
    BY DEF Extend
  <2>6. /\ Cached(t) => DOMAIN cs = DOMAIN job[p].contents \cup {t} /\ cs[t] = index[t].content
        /\ ~ Cached(t) => cs = job[p].contents
        /\ \A x \in DOMAIN job[p].contents : x # t => cs[x] = job[p].contents[x]
    BY DEF Extend
  <2> HIDE DEF fs, cs, at
  <2>7. job'[p].base = job[p].base /\ job'[p].fingerprint = fs /\ job'[p].contents = cs
    BY <2>2, <2>4 DEF SnapshotJobs
  <2>8. ReadOK(job[p])
    BY <2>1, ReadTyped
  <2>9. /\ \A x \in DOMAIN job[p].fingerprint :
             job[p].base[x] <= job[p].fingerprint[x] /\ job[p].fingerprint[x] <= home[x]
        /\ \A x \in DOMAIN job[p].contents \cap DOMAIN job[p].fingerprint :
             job[p].fingerprint[x] <= job[p].contents[x] /\ job[p].contents[x] <= home[x]
        /\ \A x \in Threads : job[p].base[x] <= home[x]
    BY <2>1, <2>8 DEF ReadOK
  <2>10. home[t] \in Nat
    BY HomeGrows
  <2>11. Cached(t) => home[t] <= index[t].content /\ index[t].content <= home[t]
    BY DEF Cached, RepositoryInv, Timely, IndexTimely
  <2>12. t \notin DOMAIN job[p].contents
    <3>1. t \in job[p].todo /\ job[p].at = "thread"
      BY <1>12 DEF source_fingerprint, At
    <3>2. Ingested(job[p])
      BY <2>1, BuildFacts DEF RepositoryInv, Typing
    <3>3. QED
      BY <3>1, <3>2 DEF Ingested
  <2>13. \A x \in DOMAIN fs : job[p].base[x] <= fs[x] /\ fs[x] <= home[x]
    <3>1. job[p].base[t] <= fs[t] /\ fs[t] <= home[t]
      BY <2>5, <2>9, <2>10
    <3>2. QED
      BY <2>5, <2>9, <3>1
  <2>14. \A x \in DOMAIN cs \cap DOMAIN fs : fs[x] <= cs[x] /\ cs[x] <= home[x]
    <3>1. t \in DOMAIN cs => Cached(t) /\ fs[t] <= cs[t] /\ cs[t] <= home[t]
      BY <2>5, <2>6, <2>11, <2>12
    <3>2. \A x \in DOMAIN cs : x # t => x \in DOMAIN job[p].contents /\ cs[x] = job[p].contents[x]
      BY <2>6
    <3>3. \A x \in DOMAIN fs : x # t => x \in DOMAIN job[p].fingerprint /\ fs[x] = job[p].fingerprint[x]
      BY <2>5
    <3>4. QED
      BY <2>9, <3>1, <3>2, <3>3
  <2>15. ReadOK(job[p])'
    BY <2>1, <2>7, <2>9, <2>13, <2>14 DEF ReadOK
  <2>16. QED
    BY <2>3, <2>15, ReadCalm
<1>13. ASSUME NEW p \in Procs, atomic_write_source_index(p)
       PROVE  \A q \in Procs : ReadOK(job[q])'
  <2>1. CASE Done(p)
    BY <2>1, DoneJob, ReadCalm, ReadsNothing
  <2>2. CASE Step(p, "build")
    BY <1>13, <2>2, ReadStep DEF atomic_write_source_index, At
  <2>3. QED
    BY <1>13, <2>1, <2>2 DEF atomic_write_source_index
<1>14. ASSUME NEW p \in Procs, build_v4_snapshot_root(p)
       PROVE  \A q \in Procs : ReadOK(job[q])'
  BY <1>14, ReadStep DEF build_v4_snapshot_root, At
<1>15. ASSUME NEW p \in Procs, write_v4_snapshot(p) PROVE \A q \in Procs : ReadOK(job[q])'
  <2>1. /\ \A q \in Procs : q # p => job'[q] = job[q]
        /\ job'[p].kind # "snapshot"
    BY <1>15, DoneJob DEF write_v4_snapshot
  <2>2. QED
    BY <2>1, ReadCalm, ReadsNothing
<1>16. ASSUME NEW p \in Procs, NEW s \in SnapshotIds, validate_local_snapshot(p, s)
       PROVE  \A q \in Procs : ReadOK(job[q])'
  <2>1. /\ \A q \in Procs : q # p => job'[q] = job[q]
        /\ job'[p].kind # "snapshot"
    BY <1>16, RunFacts DEF validate_local_snapshot
  <2>2. QED
    BY <2>1, ReadCalm, ReadsNothing
<1>17. ASSUME NEW p \in Procs, EndRead(p) PROVE \A q \in Procs : ReadOK(job[q])'
  <2>1. /\ \A q \in Procs : q # p => job'[q] = job[q]
        /\ job'[p].kind # "snapshot"
    BY <1>17, DoneJob DEF EndRead
  <2>2. QED
    BY <2>1, ReadCalm, ReadsNothing
<1>18. ASSUME NEW p \in Procs, load_revision_root(p) PROVE \A q \in Procs : ReadOK(job[q])'
  <2>1. /\ \A q \in Procs : q # p => job'[q] = job[q]
        /\ job'[p].kind # "snapshot"
    BY <1>18, RunFacts DEF load_revision_root
  <2>2. QED
    BY <2>1, ReadCalm, ReadsNothing
<1>19. ASSUME NEW p \in Procs, download_revision_graph(p)
       PROVE  \A q \in Procs : ReadOK(job[q])'
  <2>1. /\ \A q \in Procs : q # p => job'[q] = job[q]
        /\ job'[p].kind # "snapshot"
    BY <1>19, StepJob DEF download_revision_graph, At
  <2>2. QED
    BY <2>1, ReadCalm, ReadsNothing
<1>20. ASSUME NEW p \in Procs, EndDownload(p) PROVE \A q \in Procs : ReadOK(job[q])'
  <2>1. /\ \A q \in Procs : q # p => job'[q] = job[q]
        /\ job'[p].kind # "snapshot"
    BY <1>20, DoneJob DEF EndDownload
  <2>2. QED
    BY <2>1, ReadCalm, ReadsNothing
<1>21. ASSUME NEW p \in Procs, download_remote_revision_as_snapshot(p)
       PROVE  \A q \in Procs : ReadOK(job[q])'
  <2>1. /\ \A q \in Procs : q # p => job'[q] = job[q]
        /\ job'[p].kind # "snapshot"
    BY <1>21, StepJob, DoneJob DEF download_remote_revision_as_snapshot
  <2>2. QED
    BY <2>1, ReadCalm, ReadsNothing
<1>22. ASSUME NEW p \in Procs, trash_local_snapshot(p)
       PROVE  \A q \in Procs : ReadOK(job[q])'
  <2>1. /\ \A q \in Procs : q # p => job'[q] = job[q]
        /\ job'[p].kind # "snapshot"
    BY <1>22, RunFacts DEF trash_local_snapshot
  <2>2. QED
    BY <2>1, ReadCalm, ReadsNothing
<1>23. ASSUME NEW p \in Procs, TrashStep(p) PROVE \A q \in Procs : ReadOK(job[q])'
  <2>1. /\ \A q \in Procs : q # p => job'[q] = job[q]
        /\ job'[p].kind # "snapshot"
    BY <1>23, StepJob, DoneJob DEF TrashStep
  <2>2. QED
    BY <2>1, ReadCalm, ReadsNothing
<1>24. ASSUME NEW p \in Procs, RestoreStep(p) PROVE \A q \in Procs : ReadOK(job[q])'
  <2>1. /\ \A q \in Procs : q # p => job'[q] = job[q]
        /\ job'[p].kind # "snapshot"
    BY <1>24, PurgeJobKinds
  <2>2. QED
    BY <2>1, ReadCalm, ReadsNothing
<1>25. ASSUME NEW p \in Procs, NEW o \in TrashIds, restore_trashed_snapshot(p, o)
       PROVE  \A q \in Procs : ReadOK(job[q])'
  <2>1. /\ \A q \in Procs : q # p => job'[q] = job[q]
        /\ job'[p].kind # "snapshot"
    BY <1>25, RunFacts DEF restore_trashed_snapshot
  <2>2. QED
    BY <2>1, ReadCalm, ReadsNothing
<1>26. ASSUME NEW p \in Procs, quarantine_local_gc_plan(p)
       PROVE  \A q \in Procs : ReadOK(job[q])'
  <2>1. /\ \A q \in Procs : q # p => job'[q] = job[q]
        /\ job'[p].kind # "snapshot"
    BY <1>26, RunFacts DEF quarantine_local_gc_plan
  <2>2. QED
    BY <2>1, ReadCalm, ReadsNothing
<1>27. ASSUME NEW p \in Procs, MoveToQuarantine(p) PROVE \A q \in Procs : ReadOK(job[q])'
  <2>1. /\ \A q \in Procs : q # p => job'[q] = job[q]
        /\ job'[p].kind # "snapshot"
    BY <1>27, MoveFacts, RunFacts, IdleFacts DEF MoveToQuarantine, At, Done
  <2>2. QED
    BY <2>1, ReadCalm, ReadsNothing
<1>28. ASSUME NEW p \in Procs, start_purge(p) PROVE \A q \in Procs : ReadOK(job[q])'
  <2>1. /\ \A q \in Procs : q # p => job'[q] = job[q]
        /\ job'[p].kind # "snapshot"
    BY <1>28, PurgeJobKinds
  <2>2. QED
    BY <2>1, ReadCalm, ReadsNothing
<1>29. ASSUME NEW p \in Procs, recover_local_trash_purges(p)
       PROVE  \A q \in Procs : ReadOK(job[q])'
  <2>1. /\ \A q \in Procs : q # p => job'[q] = job[q]
        /\ job'[p].kind # "snapshot"
    BY <1>29, PurgeJobKinds
  <2>2. QED
    BY <2>1, ReadCalm, ReadsNothing
<1>30. ASSUME NEW p \in Procs, plan_local_trash_purge(p)
       PROVE  \A q \in Procs : ReadOK(job[q])'
  <2>1. /\ \A q \in Procs : q # p => job'[q] = job[q]
        /\ job'[p].kind # "snapshot"
    BY <1>30, PurgeJobKinds
  <2>2. QED
    BY <2>1, ReadCalm, ReadsNothing
<1>31. ASSUME NEW p \in Procs, purge_local_trash(p) PROVE \A q \in Procs : ReadOK(job[q])'
  <2>1. /\ \A q \in Procs : q # p => job'[q] = job[q]
        /\ job'[p].kind # "snapshot"
    BY <1>31, PurgeJobKinds
  <2>2. QED
    BY <2>1, ReadCalm, ReadsNothing
<1>32. ASSUME NEW p \in Procs, rollback_local_trash_purge(p)
       PROVE  \A q \in Procs : ReadOK(job[q])'
  <2>1. /\ \A q \in Procs : q # p => job'[q] = job[q]
        /\ job'[p].kind # "snapshot"
    BY <1>32, PurgeJobKinds
  <2>2. QED
    BY <2>1, ReadCalm, ReadsNothing
<1>33. ASSUME NEW p \in Procs, finish_local_trash_purge(p)
       PROVE  \A q \in Procs : ReadOK(job[q])'
  <2>1. /\ \A q \in Procs : q # p => job'[q] = job[q]
        /\ job'[p].kind # "snapshot"
    BY <1>33, PurgeJobKinds
  <2>2. QED
    BY <2>1, ReadCalm, ReadsNothing
<1>34. ASSUME NEW p \in Procs, start_treasure_import(p)
       PROVE  \A q \in Procs : ReadOK(job[q])'
  <2>1. /\ \A q \in Procs : q # p => job'[q] = job[q]
        /\ job'[p].kind # "snapshot"
    BY <1>34, RunFacts DEF start_treasure_import
  <2>2. QED
    BY <2>1, ReadCalm, ReadsNothing
<1>35. ASSUME NEW p \in Procs, import_treasure_as_snapshot(p)
       PROVE  \A q \in Procs : ReadOK(job[q])'
  <2>1. /\ \A q \in Procs : q # p => job'[q] = job[q]
        /\ job'[p].kind # "snapshot"
    BY <1>35, StepJob DEF import_treasure_as_snapshot, At
  <2>2. QED
    BY <2>1, ReadCalm, ReadsNothing
<1>36. ASSUME NEW p \in Procs, WriteImportedRoot(p) PROVE \A q \in Procs : ReadOK(job[q])'
  <2>1. /\ \A q \in Procs : q # p => job'[q] = job[q]
        /\ job'[p].kind # "snapshot"
    BY <1>36, DoneJob DEF WriteImportedRoot
  <2>2. QED
    BY <2>1, ReadCalm, ReadsNothing
<1>37. ASSUME NEW p \in Procs, JobFails(p) PROVE \A q \in Procs : ReadOK(job[q])'
  <2>1. /\ \A q \in Procs : q # p => job'[q] = job[q]
        /\ job'[p].kind # "snapshot"
    BY <1>37, PurgeJobKinds
  <2>2. QED
    BY <2>1, ReadCalm, ReadsNothing
<1>38. CASE Crash
  <2>1. \A q \in Procs : job'[q].kind = "idle"
    BY <1>38, IdleFacts DEF Crash
  <2>2. QED
    BY <2>1, ReadsNothing
<1>39. ASSUME UNCHANGED vars PROVE UNCHANGED <<home, job>>
  BY <1>39 DEF vars, filevars
<1>40. QED
  BY <1>1, <1>2, <1>3, <1>4, <1>5, <1>6, <1>7, <1>8, <1>9, <1>10, <1>11, <1>12, <1>13,
     <1>14, <1>15, <1>16, <1>17, <1>18, <1>19, <1>20, <1>21, <1>22, <1>23, <1>24, <1>25,
     <1>26, <1>27, <1>28, <1>29, <1>30, <1>31, <1>32, <1>33, <1>34, <1>35, <1>36, <1>37,
     <1>38, <1>39 DEF Next, SnapshotStep, CleanupStep

\* The index is as old as the jobs that wrote it.
LEMMA IndexKept ==
    ASSUME RepositoryInv, [Next]_vars
    PROVE  IndexTimely'
<1>1. CASE UNCHANGED <<home, index>>
  BY <1>1 DEF IndexTimely, RepositoryInv, Timely
<1>2. ASSUME NEW p \in Procs, start_snapshot(p) PROVE UNCHANGED <<home, index>>
  BY <1>2 DEF start_snapshot, filevars, Run
<1>3. ASSUME NEW p \in Procs, OpenRollout(p) PROVE UNCHANGED <<home, index>>
  BY <1>3 DEF OpenRollout, filevars, Run, At
<1>4. ASSUME NEW p \in Procs, normalize_and_ingest_rollout(p)
      PROVE  UNCHANGED <<home, index>>
  BY <1>4 DEF normalize_and_ingest_rollout, At, Step, Run
<1>5. ASSUME NEW p \in Procs, NEW t \in Threads, source_fingerprint(p, t)
      PROVE  UNCHANGED <<home, index>>
  BY <1>5 DEF source_fingerprint, filevars, Run, At
<1>6. ASSUME NEW p \in Procs, build_v4_snapshot_root(p) PROVE UNCHANGED <<home, index>>
  BY <1>6 DEF build_v4_snapshot_root, At, Step, Run
<1>7. ASSUME NEW p \in Procs, write_v4_snapshot(p) PROVE UNCHANGED <<home, index>>
  BY <1>7 DEF write_v4_snapshot, At, Done, Run
<1>8. ASSUME NEW p \in Procs, NEW s \in SnapshotIds, update_snapshot_metadata(p, s)
      PROVE  UNCHANGED <<home, index>>
  BY <1>8 DEF update_snapshot_metadata
<1>9. ASSUME NEW p \in Procs, NEW s \in SnapshotIds, validate_local_snapshot(p, s)
      PROVE  UNCHANGED <<home, index>>
  BY <1>9 DEF validate_local_snapshot, filevars, Run
<1>10. ASSUME NEW p \in Procs, EndRead(p) PROVE UNCHANGED <<home, index>>
  BY <1>10 DEF EndRead, filevars, At, Done, Run
<1>11. ASSUME NEW p \in Procs, load_revision_root(p) PROVE UNCHANGED <<home, index>>
  BY <1>11 DEF load_revision_root, Run
<1>12. ASSUME NEW p \in Procs, download_revision_graph(p) PROVE UNCHANGED <<home, index>>
  BY <1>12 DEF download_revision_graph, At, Step, Run
<1>13. ASSUME NEW p \in Procs, EndDownload(p) PROVE UNCHANGED <<home, index>>
  BY <1>13 DEF EndDownload, filevars, Done, Run
<1>14. ASSUME NEW p \in Procs, download_remote_revision_as_snapshot(p)
       PROVE  UNCHANGED <<home, index>>
  BY <1>14 DEF download_remote_revision_as_snapshot, Step, Done, Run
<1>15. ASSUME NEW p \in Procs, NEW s \in SnapshotIds, plan_snapshot_deletion(p, s)
       PROVE  UNCHANGED <<home, index>>
  BY <1>15 DEF plan_snapshot_deletion, filevars
<1>16. ASSUME NEW p \in Procs, trash_local_snapshot(p) PROVE UNCHANGED <<home, index>>
  BY <1>16 DEF trash_local_snapshot, Run
<1>17. ASSUME NEW p \in Procs, TrashStep(p) PROVE UNCHANGED <<home, index>>
  BY <1>17 DEF TrashStep, Step, Done, Run
<1>18. ASSUME NEW p \in Procs, RestoreStep(p) PROVE UNCHANGED <<home, index>>
  BY <1>18 DEF RestoreStep, At, Done, Run
<1>19. ASSUME NEW p \in Procs, NEW o \in TrashIds, restore_trashed_snapshot(p, o)
       PROVE  UNCHANGED <<home, index>>
  BY <1>19 DEF restore_trashed_snapshot, Run
<1>20. ASSUME NEW p \in Procs, plan_local_gc(p) PROVE UNCHANGED <<home, index>>
  BY <1>20 DEF plan_local_gc, filevars
<1>21. ASSUME NEW p \in Procs, quarantine_local_gc_plan(p) PROVE UNCHANGED <<home, index>>
  BY <1>21 DEF quarantine_local_gc_plan, filevars, Run
<1>22. ASSUME NEW p \in Procs, MoveToQuarantine(p) PROVE UNCHANGED <<home, index>>
  BY <1>22 DEF MoveToQuarantine, At, Done, Run
<1>23. ASSUME NEW p \in Procs, start_purge(p) PROVE UNCHANGED <<home, index>>
  BY <1>23 DEF start_purge, filevars, Run
<1>24. ASSUME NEW p \in Procs, recover_local_trash_purges(p) PROVE UNCHANGED <<home, index>>
  BY <1>24 DEF recover_local_trash_purges, filevars, At, Step, Run
<1>25. ASSUME NEW p \in Procs, plan_local_trash_purge(p) PROVE UNCHANGED <<home, index>>
  BY <1>25 DEF plan_local_trash_purge, At, Step, Done, Run
<1>26. ASSUME NEW p \in Procs, purge_local_trash(p) PROVE UNCHANGED <<home, index>>
  BY <1>26 DEF purge_local_trash, At, Step, Run
<1>27. ASSUME NEW p \in Procs, rollback_local_trash_purge(p) PROVE UNCHANGED <<home, index>>
  BY <1>27 DEF rollback_local_trash_purge, At, Step, Done, Run
<1>28. ASSUME NEW p \in Procs, export_treasure_to_vault(p) PROVE UNCHANGED <<home, index>>
  BY <1>28 DEF export_treasure_to_vault
<1>29. ASSUME NEW p \in Procs, trash_treasure(p) PROVE UNCHANGED <<home, index>>
  BY <1>29 DEF trash_treasure
<1>30. ASSUME NEW p \in Procs, start_treasure_import(p) PROVE UNCHANGED <<home, index>>
  BY <1>30 DEF start_treasure_import, filevars, Run
<1>31. ASSUME NEW p \in Procs, import_treasure_as_snapshot(p)
       PROVE  UNCHANGED <<home, index>>
  BY <1>31 DEF import_treasure_as_snapshot, At, Step, Run
<1>32. ASSUME NEW p \in Procs, WriteImportedRoot(p) PROVE UNCHANGED <<home, index>>
  BY <1>32 DEF WriteImportedRoot, At, Done, Run
<1>33. ASSUME NEW p \in Procs, JobFails(p) PROVE UNCHANGED <<home, index>>
  BY <1>33 DEF JobFails, filevars, At, Done, Run
<1>34. ASSUME Decline PROVE UNCHANGED <<home, index>>
  BY <1>34 DEF Decline, filevars
<1>35. ASSUME Crash PROVE UNCHANGED <<home, index>>
  BY <1>35 DEF Crash, filevars
<1>36. ASSUME NEW t \in Threads, EditThread(t) PROVE IndexTimely'
  <2>1. UNCHANGED index
    BY <1>36 DEF EditThread, filevars
  <2>2. \A x \in Threads : home[x] \in Nat /\ home'[x] \in Nat /\ home[x] <= home'[x]
    BY HomeGrows
  <2>3. \A x \in Threads : index[x] # None => index[x].content \in Nat
    BY Constants DEF RepositoryInv, Typing, FileTyping, IndexEntry
  <2>4. QED
    BY <2>1, <2>2, <2>3 DEF IndexTimely, RepositoryInv, Timely
<1>37. ASSUME NEW p \in Procs, atomic_write_source_index(p) PROVE IndexTimely'
  <2>1. job[p].kind = "snapshot" /\ job[p].at = "thread" /\ job[p].todo = {} /\ UNCHANGED home
    BY <1>37 DEF atomic_write_source_index, At
  <2>2. DOMAIN job[p].fingerprint = Threads /\ DOMAIN job[p].contents = Threads
    BY <2>1, BuildFacts DEF RepositoryInv, Typing
  <2>3. \A x \in Threads : job[p].fingerprint[x] <= job[p].contents[x] /\ job[p].contents[x] <= home[x]
    BY <2>1, <2>2, ReadTyped DEF ReadOK
  <2>4. \A x \in Threads : /\ index'[x].fingerprint = job[p].fingerprint[x]
                           /\ index'[x].content = job[p].contents[x]
    BY <1>37 DEF atomic_write_source_index
  <2>5. QED
    BY <2>1, <2>3, <2>4 DEF IndexTimely
<1>38. ASSUME NEW p \in Procs, finish_local_trash_purge(p) PROVE IndexTimely'
  <2>1. UNCHANGED home /\ (UNCHANGED index \/ \A t \in Threads : index'[t] = None)
    BY <1>38 DEF finish_local_trash_purge
  <2>2. QED
    BY <2>1 DEF IndexTimely, RepositoryInv, Timely
<1>39. ASSUME UNCHANGED vars PROVE UNCHANGED <<home, index>>
  BY <1>39 DEF vars, filevars
<1>40. QED
  BY <1>1, <1>2, <1>3, <1>4, <1>5, <1>6, <1>7, <1>8, <1>9, <1>10, <1>11, <1>12, <1>13,
     <1>14, <1>15, <1>16, <1>17, <1>18, <1>19, <1>20, <1>21, <1>22, <1>23, <1>24, <1>25,
     <1>26, <1>27, <1>28, <1>29, <1>30, <1>31, <1>32, <1>33, <1>34, <1>35, <1>36, <1>37,
     <1>38, <1>39 DEF Next, SnapshotStep, CleanupStep

(***************************************************************************)
(* The trash as its user sees it.                                          *)
(***************************************************************************)
LEMMA EnteredOne ==
    ASSUME RepositoryInv, NEW o \in TrashIds, NEW d, trash' = [trash EXCEPT ![o] = d],
           d # None /\ d.manifest => d.entry
    PROVE  Entered'
  BY DEF RepositoryInv, Entered, Typing, FileTyping

\* The manifest is never in the trash without its entry.
LEMMA EnteredKept ==
    ASSUME RepositoryInv, [Next]_vars
    PROVE  Entered'
<1>1. CASE UNCHANGED trash
  BY <1>1 DEF RepositoryInv, Entered
<1>2. ASSUME NEW t \in Threads, EditThread(t) PROVE UNCHANGED trash
  BY <1>2 DEF EditThread, filevars
<1>3. ASSUME NEW p \in Procs, start_snapshot(p) PROVE UNCHANGED trash
  BY <1>3 DEF start_snapshot, filevars, Run
<1>4. ASSUME NEW p \in Procs, OpenRollout(p) PROVE UNCHANGED trash
  BY <1>4 DEF OpenRollout, filevars, Run, At
<1>5. ASSUME NEW p \in Procs, normalize_and_ingest_rollout(p) PROVE UNCHANGED trash
  BY <1>5 DEF normalize_and_ingest_rollout, At, Step, Run
<1>6. ASSUME NEW p \in Procs, NEW t \in Threads, source_fingerprint(p, t)
      PROVE  UNCHANGED trash
  BY <1>6 DEF source_fingerprint, filevars, Run, At
<1>7. ASSUME NEW p \in Procs, atomic_write_source_index(p) PROVE UNCHANGED trash
  BY <1>7 DEF atomic_write_source_index, At, Done, Step, Run
<1>8. ASSUME NEW p \in Procs, build_v4_snapshot_root(p) PROVE UNCHANGED trash
  BY <1>8 DEF build_v4_snapshot_root, At, Step, Run
<1>9. ASSUME NEW p \in Procs, write_v4_snapshot(p) PROVE UNCHANGED trash
  BY <1>9 DEF write_v4_snapshot, At, Done, Run
<1>10. ASSUME NEW p \in Procs, NEW s \in SnapshotIds, update_snapshot_metadata(p, s)
       PROVE  UNCHANGED trash
  BY <1>10 DEF update_snapshot_metadata
<1>11. ASSUME NEW p \in Procs, NEW s \in SnapshotIds, validate_local_snapshot(p, s)
       PROVE  UNCHANGED trash
  BY <1>11 DEF validate_local_snapshot, filevars, Run
<1>12. ASSUME NEW p \in Procs, EndRead(p) PROVE UNCHANGED trash
  BY <1>12 DEF EndRead, filevars, At, Done, Run
<1>13. ASSUME NEW p \in Procs, load_revision_root(p) PROVE UNCHANGED trash
  BY <1>13 DEF load_revision_root, Run
<1>14. ASSUME NEW p \in Procs, download_revision_graph(p) PROVE UNCHANGED trash
  BY <1>14 DEF download_revision_graph, At, Step, Run
<1>15. ASSUME NEW p \in Procs, EndDownload(p) PROVE UNCHANGED trash
  BY <1>15 DEF EndDownload, filevars, Done, Run
<1>16. ASSUME NEW p \in Procs, download_remote_revision_as_snapshot(p) PROVE UNCHANGED trash
  BY <1>16 DEF download_remote_revision_as_snapshot, Step, Done, Run
<1>17. ASSUME NEW p \in Procs, NEW s \in SnapshotIds, plan_snapshot_deletion(p, s)
       PROVE  UNCHANGED trash
  BY <1>17 DEF plan_snapshot_deletion, filevars
<1>18. ASSUME NEW p \in Procs, plan_local_gc(p) PROVE UNCHANGED trash
  BY <1>18 DEF plan_local_gc, filevars
<1>19. ASSUME NEW p \in Procs, quarantine_local_gc_plan(p) PROVE UNCHANGED trash
  BY <1>19 DEF quarantine_local_gc_plan, filevars, Run
<1>20. ASSUME NEW p \in Procs, MoveToQuarantine(p) PROVE UNCHANGED trash
  BY <1>20 DEF MoveToQuarantine, At, Done, Run
<1>21. ASSUME NEW p \in Procs, start_purge(p) PROVE UNCHANGED trash
  BY <1>21 DEF start_purge, filevars, Run
<1>22. ASSUME NEW p \in Procs, recover_local_trash_purges(p) PROVE UNCHANGED trash
  BY <1>22 DEF recover_local_trash_purges, filevars, At, Step, Run
<1>23. ASSUME NEW p \in Procs, plan_local_trash_purge(p) PROVE UNCHANGED trash
  BY <1>23 DEF plan_local_trash_purge, At, Step, Done, Run
<1>24. ASSUME NEW p \in Procs, export_treasure_to_vault(p) PROVE UNCHANGED trash
  BY <1>24 DEF export_treasure_to_vault
<1>25. ASSUME NEW p \in Procs, trash_treasure(p) PROVE UNCHANGED trash
  BY <1>25 DEF trash_treasure
<1>26. ASSUME NEW p \in Procs, start_treasure_import(p) PROVE UNCHANGED trash
  BY <1>26 DEF start_treasure_import, filevars, Run
<1>27. ASSUME NEW p \in Procs, import_treasure_as_snapshot(p) PROVE UNCHANGED trash
  BY <1>27 DEF import_treasure_as_snapshot, At, Step, Run
<1>28. ASSUME NEW p \in Procs, WriteImportedRoot(p) PROVE UNCHANGED trash
  BY <1>28 DEF WriteImportedRoot, At, Done, Run
<1>29. ASSUME NEW p \in Procs, JobFails(p) PROVE UNCHANGED trash
  BY <1>29 DEF JobFails, filevars, At, Done, Run
<1>30. ASSUME Decline PROVE UNCHANGED trash
  BY <1>30 DEF Decline, filevars
<1>31. ASSUME Crash PROVE UNCHANGED trash
  BY <1>31 DEF Crash, filevars
<1>32. ASSUME NEW p \in Procs, trash_local_snapshot(p) PROVE Entered'
  <2> DEFINE d == [snap |-> plan.snap, entry |-> FALSE, manifest |-> FALSE, staged |-> FALSE]
  <2>1. FreeDir \in TrashIds /\ trash' = [trash EXCEPT ![FreeDir] = d]
    BY <1>32, FreeDirFacts DEF trash_local_snapshot
  <2>2. ~ d.manifest
    OBVIOUS
  <2> HIDE DEF d
  <2>3. QED
    BY <2>1, <2>2, EnteredOne
<1>33. ASSUME NEW p \in Procs, TrashStep(p) PROVE Entered'
  <2>1. job[p].dir \in TrashIds /\ trash[job[p].dir] \in TrashDir /\ ~ trash[job[p].dir].manifest
    BY <1>33, DirFacts DEF TrashStep
  <2>2. CASE trash' = [trash EXCEPT ![job[p].dir] = [trash[job[p].dir] EXCEPT !.entry = TRUE]]
    <3> DEFINE d == [trash[job[p].dir] EXCEPT !.entry = TRUE]
    <3>1. d.entry
      BY <2>1 DEF TrashDir
    <3>2. trash' = [trash EXCEPT ![job[p].dir] = d]
      BY <2>2
    <3> HIDE DEF d
    <3>3. QED
      BY <2>1, <3>1, <3>2, EnteredOne
  <2>3. CASE /\ job[p].at = "manifest"
             /\ trash' = [trash EXCEPT ![job[p].dir] = [trash[job[p].dir] EXCEPT !.manifest = TRUE]]
    <3> DEFINE d == [trash[job[p].dir] EXCEPT !.manifest = TRUE]
    <3>1. trash[job[p].dir].entry
      BY <1>33, <2>3 DEF TrashStep, RepositoryInv, Trashing, TrashOK
    <3>2. d.entry
      BY <2>1, <3>1 DEF TrashDir
    <3>3. trash' = [trash EXCEPT ![job[p].dir] = d]
      BY <2>3
    <3> HIDE DEF d
    <3>4. QED
      BY <2>1, <3>2, <3>3, EnteredOne
  <2>4. QED
    BY <1>33, <2>2, <2>3 DEF TrashStep, MoveManifest
<1>34. ASSUME NEW p \in Procs, RestoreStep(p) PROVE Entered'
  <2>1. job[p].dir \in TrashIds /\ trash[job[p].dir] \in TrashDir /\ ~ trash[job[p].dir].manifest
    BY <1>34, DirFacts DEF RestoreStep, At
  <2>2. PICK d \in {None, [trash[job[p].dir] EXCEPT !.entry = FALSE]} :
          trash' = [trash EXCEPT ![job[p].dir] = d]
    BY <1>34 DEF RestoreStep
  <2>3. d # None => ~ d.manifest
    BY <2>1, <2>2 DEF TrashDir
  <2>4. QED
    BY <2>1, <2>2, <2>3, EnteredOne
<1>35. ASSUME NEW p \in Procs, NEW o \in TrashIds, restore_trashed_snapshot(p, o)
       PROVE  Entered'
  <2>1. trash[o] \in TrashDir
    BY <1>35 DEF restore_trashed_snapshot, InTrash, RepositoryInv, Typing, FileTyping
  <2> DEFINE d == [trash[o] EXCEPT !.manifest = FALSE]
  <2>2. trash' = [trash EXCEPT ![o] = d]
    BY <1>35 DEF restore_trashed_snapshot, MoveManifest
  <2>3. ~ d.manifest
    BY <2>1 DEF TrashDir
  <2> HIDE DEF d
  <2>4. QED
    BY <2>2, <2>3, EnteredOne
<1>36. ASSUME NEW p \in Procs, purge_local_trash(p) PROVE Entered'
  <2> DEFINE o == Least(journal.ops \ StagedDirs)
  <2>1. CASE trash' = [trash EXCEPT ![o].staged = TRUE] /\ StagedDirs # journal.ops
    <3>1. o \in TrashIds /\ trash[o] \in TrashDir
      BY <1>36, <2>1, PurgeFacts DEF purge_local_trash, At
    <3> HIDE DEF o
    <3> DEFINE d == [trash[o] EXCEPT !.staged = TRUE]
    <3>2. trash' = [trash EXCEPT ![o] = d]
      BY <2>1
    <3>3. d.manifest = trash[o].manifest /\ d.entry = trash[o].entry
      BY <3>1 DEF TrashDir
    <3>4. trash[o].manifest => trash[o].entry
      BY <3>1, Constants DEF RepositoryInv, Entered
    <3> HIDE DEF d
    <3>5. QED
      BY <3>1, <3>2, <3>3, <3>4, EnteredOne
  <2>2. CASE UNCHANGED trash
    BY <2>2 DEF RepositoryInv, Entered
  <2>3. QED
    BY <1>36, <2>1, <2>2 DEF purge_local_trash
<1>37. ASSUME NEW p \in Procs, rollback_local_trash_purge(p) PROVE Entered'
  <2> DEFINE o == Greatest(StagedDirs)
  <2>1. CASE trash' = [trash EXCEPT ![o].staged = FALSE] /\ StagedDirs # {}
    <3>1. o \in TrashIds /\ trash[o] \in TrashDir
      BY <1>37, <2>1, PurgeFacts DEF rollback_local_trash_purge, At
    <3> HIDE DEF o
    <3> DEFINE d == [trash[o] EXCEPT !.staged = FALSE]
    <3>2. trash' = [trash EXCEPT ![o] = d]
      BY <2>1
    <3>3. d.manifest = trash[o].manifest /\ d.entry = trash[o].entry
      BY <3>1 DEF TrashDir
    <3>4. trash[o].manifest => trash[o].entry
      BY <3>1, Constants DEF RepositoryInv, Entered
    <3> HIDE DEF d
    <3>5. QED
      BY <3>1, <3>2, <3>3, <3>4, EnteredOne
  <2>2. CASE UNCHANGED trash
    BY <2>2 DEF RepositoryInv, Entered
  <2>3. QED
    BY <1>37, <2>1, <2>2 DEF rollback_local_trash_purge
<1>38. ASSUME NEW p \in Procs, finish_local_trash_purge(p) PROVE Entered'
  <2>1. \A o \in TrashIds : trash'[o] # None => trash'[o] = trash[o]
    BY <1>38 DEF finish_local_trash_purge
  <2>2. QED
    BY <2>1 DEF RepositoryInv, Entered
<1>39. ASSUME UNCHANGED vars PROVE UNCHANGED trash
  BY <1>39 DEF vars, filevars
<1>40. QED
  BY <1>1, <1>2, <1>3, <1>4, <1>5, <1>6, <1>7, <1>8, <1>9, <1>10, <1>11, <1>12, <1>13,
     <1>14, <1>15, <1>16, <1>17, <1>18, <1>19, <1>20, <1>21, <1>22, <1>23, <1>24, <1>25,
     <1>26, <1>27, <1>28, <1>29, <1>30, <1>31, <1>32, <1>33, <1>34, <1>35, <1>36, <1>37,
     <1>38, <1>39 DEF Next, SnapshotStep, CleanupStep

\* The snapshots that can be brought back from the trash.
Bin == {trash[o].snap : o \in {x \in TrashIds : Restorable(x)}}

LEMMA BinFacts == ASSUME NEW s PROVE s \in Bin <=> \E o \in TrashIds : Restorable(o) /\ trash[o].snap = s
  BY DEF Bin

LEMMA BinSame ==
    ASSUME \A x \in TrashIds : /\ Restorable(x)' <=> Restorable(x)
                               /\ Restorable(x) => trash'[x].snap = trash[x].snap
    PROVE  Bin' = Bin
  BY DEF Bin

LEMMA BinCalm == ASSUME UNCHANGED <<trash, journal>> PROVE Bin' = Bin
  BY DEF Bin, Restorable

\* A directory without a manifest comes or goes.
LEMMA BinOne ==
    ASSUME RepositoryInv, NEW o \in TrashIds, NEW d, trash' = [trash EXCEPT ![o] = d],
           UNCHANGED journal, ~ Restorable(o), d # None => ~ d.manifest
    PROVE  Bin' = Bin
<1>1. \A x \in TrashIds : x # o => trash'[x] = trash[x]
  BY DEF RepositoryInv, Typing, FileTyping
<1>2. trash'[o] = d
  BY DEF RepositoryInv, Typing, FileTyping
<1>3. ~ Restorable(o)'
  BY <1>2 DEF Restorable
<1>4. \A x \in TrashIds : x # o => (Restorable(x)' <=> Restorable(x)) /\ trash'[x].snap = trash[x].snap
  BY <1>1 DEF Restorable
<1>5. QED
  BY <1>3, <1>4, BinSame

(***************************************************************************)
(* What a step may do to the list and the trash.                           *)
(***************************************************************************)
Creates ==
    \E s \in SnapshotIds \ DOMAIN roots, f \in Contents :
      /\ roots' = Extend(roots, s, f) /\ listed' = listed \cup {s} /\ Bin' = Bin
      /\ collect_snapshot_graph_objects(f) \subseteq objects /\ UNCHANGED objects
Discards ==
    \E s \in listed : /\ listed' = listed \ {s} /\ Bin' = Bin \cup {s}
                      /\ UNCHANGED <<roots, objects>>
PutsBack ==
    \E s \in Bin \ listed : /\ listed' = listed \cup {s} /\ Bin \ {s} \subseteq Bin' /\ Bin' \subseteq Bin
                            /\ UNCHANGED <<roots, objects>>
Destroys == Bin' \subseteq Bin /\ UNCHANGED <<roots, listed, objects>>
Leaves == Bin' = Bin /\ UNCHANGED <<roots, listed>>
ShelfStep == Creates \/ Discards \/ PutsBack \/ Destroys \/ Leaves

LEMMA CreatesFacts ==
    ASSUME RepositoryInv, NEW f \in Contents, NewSnapshot(f), Stored(f),
           UNCHANGED <<objects, trash, journal>>
    PROVE  Creates
<1>1. Bin' = Bin
  BY BinCalm
<1>2. QED
  BY <1>1 DEF Creates, NewSnapshot, Stored

\* Every step is one of those.
LEMMA ShelfSteps ==
    ASSUME RepositoryInv, [Next]_vars
    PROVE  ShelfStep
<1>1. CASE UNCHANGED <<roots, listed, trash, journal>>
  BY <1>1, BinCalm DEF ShelfStep, Leaves
<1>2. ASSUME NEW t \in Threads, EditThread(t)
      PROVE  UNCHANGED <<roots, listed, trash, journal>>
  BY <1>2 DEF EditThread, filevars
<1>3. ASSUME NEW p \in Procs, start_snapshot(p)
      PROVE  UNCHANGED <<roots, listed, trash, journal>>
  BY <1>3 DEF start_snapshot, filevars, Run
<1>4. ASSUME NEW p \in Procs, OpenRollout(p)
      PROVE  UNCHANGED <<roots, listed, trash, journal>>
  BY <1>4 DEF OpenRollout, filevars, Run, At
<1>5. ASSUME NEW p \in Procs, normalize_and_ingest_rollout(p)
      PROVE  UNCHANGED <<roots, listed, trash, journal>>
  BY <1>5 DEF normalize_and_ingest_rollout, At, Step, Run
<1>6. ASSUME NEW p \in Procs, NEW t \in Threads, source_fingerprint(p, t)
      PROVE  UNCHANGED <<roots, listed, trash, journal>>
  BY <1>6 DEF source_fingerprint, filevars, Run, At
<1>7. ASSUME NEW p \in Procs, atomic_write_source_index(p)
      PROVE  UNCHANGED <<roots, listed, trash, journal>>
  BY <1>7 DEF atomic_write_source_index, At, Done, Step, Run
<1>8. ASSUME NEW p \in Procs, build_v4_snapshot_root(p)
      PROVE  UNCHANGED <<roots, listed, trash, journal>>
  BY <1>8 DEF build_v4_snapshot_root, At, Step, Run
<1>9. ASSUME NEW p \in Procs, NEW s \in SnapshotIds, update_snapshot_metadata(p, s)
      PROVE  UNCHANGED <<roots, listed, trash, journal>>
  BY <1>9 DEF update_snapshot_metadata
<1>10. ASSUME NEW p \in Procs, NEW s \in SnapshotIds, validate_local_snapshot(p, s)
       PROVE  UNCHANGED <<roots, listed, trash, journal>>
  BY <1>10 DEF validate_local_snapshot, filevars, Run
<1>11. ASSUME NEW p \in Procs, EndRead(p) PROVE UNCHANGED <<roots, listed, trash, journal>>
  BY <1>11 DEF EndRead, filevars, At, Done, Run
<1>12. ASSUME NEW p \in Procs, load_revision_root(p)
       PROVE  UNCHANGED <<roots, listed, trash, journal>>
  BY <1>12 DEF load_revision_root, Run
<1>13. ASSUME NEW p \in Procs, download_revision_graph(p)
       PROVE  UNCHANGED <<roots, listed, trash, journal>>
  BY <1>13 DEF download_revision_graph, At, Step, Run
<1>14. ASSUME NEW p \in Procs, EndDownload(p)
       PROVE  UNCHANGED <<roots, listed, trash, journal>>
  BY <1>14 DEF EndDownload, filevars, Done, Run
<1>15. ASSUME NEW p \in Procs, NEW s \in SnapshotIds, plan_snapshot_deletion(p, s)
       PROVE  UNCHANGED <<roots, listed, trash, journal>>
  BY <1>15 DEF plan_snapshot_deletion, filevars
<1>16. ASSUME NEW p \in Procs, plan_local_gc(p)
       PROVE  UNCHANGED <<roots, listed, trash, journal>>
  BY <1>16 DEF plan_local_gc, filevars
<1>17. ASSUME NEW p \in Procs, quarantine_local_gc_plan(p)
       PROVE  UNCHANGED <<roots, listed, trash, journal>>
  BY <1>17 DEF quarantine_local_gc_plan, filevars, Run
<1>18. ASSUME NEW p \in Procs, MoveToQuarantine(p)
       PROVE  UNCHANGED <<roots, listed, trash, journal>>
  BY <1>18 DEF MoveToQuarantine, At, Done, Run
<1>19. ASSUME NEW p \in Procs, start_purge(p)
       PROVE  UNCHANGED <<roots, listed, trash, journal>>
  BY <1>19 DEF start_purge, filevars, Run
<1>20. ASSUME NEW p \in Procs, recover_local_trash_purges(p)
       PROVE  UNCHANGED <<roots, listed, trash, journal>>
  BY <1>20 DEF recover_local_trash_purges, filevars, At, Step, Run
<1>21. ASSUME NEW p \in Procs, export_treasure_to_vault(p)
       PROVE  UNCHANGED <<roots, listed, trash, journal>>
  BY <1>21 DEF export_treasure_to_vault
<1>22. ASSUME NEW p \in Procs, trash_treasure(p)
       PROVE  UNCHANGED <<roots, listed, trash, journal>>
  BY <1>22 DEF trash_treasure
<1>23. ASSUME NEW p \in Procs, start_treasure_import(p)
       PROVE  UNCHANGED <<roots, listed, trash, journal>>
  BY <1>23 DEF start_treasure_import, filevars, Run
<1>24. ASSUME NEW p \in Procs, import_treasure_as_snapshot(p)
       PROVE  UNCHANGED <<roots, listed, trash, journal>>
  BY <1>24 DEF import_treasure_as_snapshot, At, Step, Run
<1>25. ASSUME NEW p \in Procs, JobFails(p) PROVE UNCHANGED <<roots, listed, trash, journal>>
  BY <1>25 DEF JobFails, filevars, At, Done, Run
<1>26. ASSUME Decline PROVE UNCHANGED <<roots, listed, trash, journal>>
  BY <1>26 DEF Decline, filevars
<1>27. ASSUME Crash PROVE UNCHANGED <<roots, listed, trash, journal>>
  BY <1>27 DEF Crash, filevars
<1>28. ASSUME NEW p \in Procs, write_v4_snapshot(p) PROVE ShelfStep
  <2>1. job[p].kind = "snapshot" /\ job[p].at = "root" /\ NewSnapshot(Selected(p))
        /\ UNCHANGED <<objects, trash, journal>>
    BY <1>28 DEF write_v4_snapshot, At
  <2>2. Selected(p) \in Contents /\ Ingested(job[p])
    BY <2>1, BuildFacts DEF RepositoryInv, Typing
  <2>3. Stored(Selected(p))
    BY <2>1, <2>2 DEF Ingested, Selected
  <2>4. Creates
    BY <2>1, <2>2, <2>3, CreatesFacts
  <2>5. QED
    BY <2>4 DEF ShelfStep
<1>29. ASSUME NEW p \in Procs, download_remote_revision_as_snapshot(p) PROVE ShelfStep
  <2>1. CASE UNCHANGED <<roots, listed, trash, journal>>
    BY <2>1, BinCalm DEF ShelfStep, Leaves
  <2>2. CASE job[p].at = "root" /\ NewSnapshot(Remote) /\ UNCHANGED objects
    <3>1. job[p].kind = "download" /\ UNCHANGED <<trash, journal>>
      BY <1>29 DEF download_remote_revision_as_snapshot
    <3>2. ThreadGraph(Remote) \subseteq objects /\ Overlay(Remote) \in objects
      BY <2>2, <3>1 DEF RepositoryInv, Building, BuildOK
    <3>3. Stored(Remote)
      BY <3>2 DEF Stored, collect_snapshot_graph_objects
    <3>4. Creates
      BY <2>2, <3>1, <3>3, RemoteContents, CreatesFacts
    <3>5. QED
      BY <3>4 DEF ShelfStep
  <2>3. QED
    BY <1>29, <2>1, <2>2 DEF download_remote_revision_as_snapshot
<1>30. ASSUME NEW p \in Procs, trash_local_snapshot(p) PROVE ShelfStep
  <2> DEFINE d == [snap |-> plan.snap, entry |-> FALSE, manifest |-> FALSE, staged |-> FALSE]
  <2>1. /\ FreeDir \in TrashIds /\ trash[FreeDir] = None /\ trash' = [trash EXCEPT ![FreeDir] = d]
        /\ UNCHANGED <<roots, listed, journal>>
    BY <1>30, FreeDirFacts DEF trash_local_snapshot
  <2>2. ~ d.manifest /\ ~ Restorable(FreeDir)
    BY <2>1 DEF Restorable
  <2> HIDE DEF d
  <2>3. Bin' = Bin
    BY <2>1, <2>2, BinOne
  <2>4. QED
    BY <2>1, <2>3 DEF ShelfStep, Leaves
<1>31. ASSUME NEW p \in Procs, TrashStep(p) PROVE ShelfStep
  <2> DEFINE o == job[p].dir
  <2>1. /\ o \in TrashIds /\ trash[o] \in TrashDir /\ ~ trash[o].manifest /\ ~ trash[o].staged
        /\ UNCHANGED <<roots, objects, journal>>
    BY <1>31, DirFacts DEF TrashStep
  <2>2. ~ Restorable(o)
    BY <2>1 DEF Restorable
  <2>3. CASE trash' = [trash EXCEPT ![o].entry = TRUE] /\ UNCHANGED listed
    <3> DEFINE d == [trash[o] EXCEPT !.entry = TRUE]
    <3>1. ~ d.manifest
      BY <2>1 DEF TrashDir
    <3>2. trash' = [trash EXCEPT ![o] = d]
      BY <2>3
    <3> HIDE DEF d, o
    <3>3. Bin' = Bin
      BY <2>1, <2>2, <3>1, <3>2, BinOne
    <3>4. QED
      BY <2>1, <2>3, <3>3 DEF ShelfStep, Leaves
  <2>4. CASE MoveManifest(o, TRUE)
    <3> DEFINE d == [trash[o] EXCEPT !.manifest = TRUE]
    <3>1. trash[o].snap \in listed
      BY <1>31 DEF TrashStep, RepositoryInv, Trashing, TrashOK
    <3>2. d \in TrashDir /\ d.manifest /\ ~ d.staged /\ d.snap = trash[o].snap
      BY <2>1 DEF TrashDir
    <3>3. trash' = [trash EXCEPT ![o] = d] /\ listed' = listed \ {trash[o].snap}
      BY <2>4 DEF MoveManifest
    <3>4. d # None
      BY <3>2, Constants
    <3> HIDE DEF d, o
    <3>5. trash'[o] = d /\ \A x \in TrashIds : x # o => trash'[x] = trash[x]
      BY <2>1, <3>3 DEF RepositoryInv, Typing, FileTyping
    <3>6. /\ \A x \in TrashIds : x # o => (Restorable(x)' <=> Restorable(x))
          /\ \A x \in TrashIds : x = o => Restorable(x)'
      BY <2>1, <3>2, <3>4, <3>5 DEF Restorable
    <3>7. Bin' = Bin \cup {trash[o].snap}
      BY <2>1, <2>2, <3>2, <3>5, <3>6 DEF Bin
    <3>8. Discards
      BY <2>1, <3>1, <3>3, <3>7 DEF Discards
    <3>9. QED
      BY <3>8 DEF ShelfStep
  <2>5. QED
    BY <1>31, <2>3, <2>4 DEF TrashStep
<1>32. ASSUME NEW p \in Procs, RestoreStep(p) PROVE ShelfStep
  <2> DEFINE o == job[p].dir
  <2>1. /\ o \in TrashIds /\ trash[o] \in TrashDir /\ ~ trash[o].manifest
        /\ UNCHANGED <<roots, listed, journal>>
    BY <1>32, DirFacts DEF RestoreStep, At
  <2>2. ~ Restorable(o)
    BY <2>1 DEF Restorable
  <2>3. PICK d \in {None, [trash[o] EXCEPT !.entry = FALSE]} : trash' = [trash EXCEPT ![o] = d]
    BY <1>32 DEF RestoreStep
  <2>4. d # None => ~ d.manifest
    BY <2>1, <2>3 DEF TrashDir
  <2> HIDE DEF o
  <2>5. Bin' = Bin
    BY <2>1, <2>2, <2>3, <2>4, BinOne
  <2>6. QED
    BY <2>1, <2>5 DEF ShelfStep, Leaves
<1>33. ASSUME NEW p \in Procs, NEW o \in TrashIds, restore_trashed_snapshot(p, o)
       PROVE  ShelfStep
  <2>1. /\ trash[o] \in TrashDir /\ trash[o] # None /\ ~ trash[o].staged /\ trash[o].manifest
        /\ trash[o].snap \notin listed /\ UNCHANGED <<roots, objects, journal>>
    BY <1>33 DEF restore_trashed_snapshot, InTrash, RepositoryInv, Typing, FileTyping
  <2>2. Restorable(o)
    BY <2>1 DEF Restorable
  <2> DEFINE d == [trash[o] EXCEPT !.manifest = FALSE]
  <2>3. trash' = [trash EXCEPT ![o] = d] /\ listed' = listed \cup {trash[o].snap}
    BY <1>33 DEF restore_trashed_snapshot, MoveManifest
  <2>4. ~ d.manifest
    BY <2>1 DEF TrashDir
  <2> HIDE DEF d
  <2>5. trash'[o] = d /\ \A x \in TrashIds : x # o => trash'[x] = trash[x]
    BY <2>3 DEF RepositoryInv, Typing, FileTyping
  <2>6. /\ \A x \in TrashIds : x # o => (Restorable(x)' <=> Restorable(x))
        /\ \A x \in TrashIds : x = o => ~ Restorable(x)'
    BY <2>1, <2>4, <2>5 DEF Restorable
  <2>7. trash[o].snap \in Bin
    BY <2>2 DEF Bin
  <2>8. Bin \ {trash[o].snap} \subseteq Bin' /\ Bin' \subseteq Bin
    BY <2>5, <2>6 DEF Bin
  <2>9. PutsBack
    BY <2>1, <2>3, <2>7, <2>8 DEF PutsBack
  <2>10. QED
    BY <2>9 DEF ShelfStep
<1>34. ASSUME NEW p \in Procs, plan_local_trash_purge(p) PROVE ShelfStep
  <2>1. UNCHANGED <<trash, roots, listed>> /\ journal = None
    BY <1>34 DEF plan_local_trash_purge, At, RepositoryInv, Purging, PurgeOK
  <2>2. \A x \in TrashIds : trash[x] # None => ~ trash[x].staged
    BY <2>1 DEF RepositoryInv, Purging, StagedByPurge
  <2>3. \A x \in TrashIds : Restorable(x)' <=> Restorable(x)
    BY <2>1, <2>2 DEF Restorable
  <2>4. Bin' = Bin
    BY <2>1, <2>3, BinSame
  <2>5. QED
    BY <2>1, <2>4 DEF ShelfStep, Leaves
<1>35. ASSUME NEW p \in Procs, purge_local_trash(p) PROVE ShelfStep
  <2>1. /\ job[p].kind = "purge" /\ job[p].at = "stage" /\ UNCHANGED <<roots, listed, objects>>
        /\ journal \in PurgeJournal /\ journal.status \in Revocable
    BY <1>35, PurgeFacts DEF purge_local_trash, At, RepositoryInv, Purging, PurgeOK
  <2> DEFINE o == Least(journal.ops \ StagedDirs)
  <2>2. CASE trash' = [trash EXCEPT ![o].staged = TRUE] /\ UNCHANGED journal /\ StagedDirs # journal.ops
    <3>1. o \in TrashIds /\ trash[o] \in TrashDir
      BY <1>35, <2>1, <2>2, PurgeFacts
    <3> HIDE DEF o
    <3> DEFINE d == [trash[o] EXCEPT !.staged = TRUE]
    <3>2. d \in TrashDir /\ d.snap = trash[o].snap /\ d.manifest = trash[o].manifest
      BY <3>1 DEF TrashDir
    <3>3. trash' = [trash EXCEPT ![o] = d]
      BY <2>2
    <3>4. d # None /\ trash[o] # None
      BY <3>1, <3>2, Constants
    <3> HIDE DEF d
    <3>5. trash'[o] = d /\ \A x \in TrashIds : x # o => trash'[x] = trash[x]
      BY <3>1, <3>3 DEF RepositoryInv, Typing, FileTyping
    <3>6. Restorable(o) <=> trash[o].manifest
      BY <2>1, <3>4 DEF Restorable, Revocable
    <3>7. \A x \in TrashIds : /\ x # o => (Restorable(x)' <=> Restorable(x))
                              /\ x = o => (Restorable(x)' <=> d.manifest)
      BY <2>1, <2>2, <3>4, <3>5 DEF Restorable, Revocable
    <3>8. \A x \in TrashIds : /\ Restorable(x)' <=> Restorable(x)
                              /\ Restorable(x) => trash'[x].snap = trash[x].snap
      BY <3>2, <3>5, <3>6, <3>7
    <3>9. Bin' = Bin
      BY <3>8, BinSame
    <3>10. QED
      BY <2>1, <3>9 DEF ShelfStep, Leaves
  <2>3. CASE UNCHANGED trash /\ Journal("EntriesStaged")
    <3>1. journal'.status = "EntriesStaged"
      BY <2>1, <2>3 DEF Journal, PurgeJournal
    <3>2. \A x \in TrashIds : Restorable(x)' <=> Restorable(x)
      BY <2>1, <2>3, <3>1 DEF Restorable, Revocable
    <3>3. Bin' = Bin
      BY <2>3, <3>2, BinSame
    <3>4. QED
      BY <2>1, <3>3 DEF ShelfStep, Leaves
  <2>4. CASE UNCHANGED trash /\ Journal("Committed")
    <3>1. \A x \in TrashIds : Restorable(x)' => Restorable(x)
      BY <2>1, <2>4 DEF Restorable, Revocable
    <3>2. Bin' \subseteq Bin
      BY <2>4, <3>1 DEF Bin
    <3>3. QED
      BY <2>1, <3>2 DEF ShelfStep, Destroys
  <2>5. QED
    BY <1>35, <2>2, <2>3, <2>4 DEF purge_local_trash
<1>36. ASSUME NEW p \in Procs, rollback_local_trash_purge(p) PROVE ShelfStep
  <2>1. /\ job[p].kind = "purge" /\ job[p].at = "rollback" /\ UNCHANGED <<roots, listed, objects>>
        /\ journal \in PurgeJournal /\ journal.status \in Revocable
    BY <1>36, PurgeFacts DEF rollback_local_trash_purge, At, RepositoryInv, Purging, PurgeOK
  <2> DEFINE o == Greatest(StagedDirs)
  <2>2. CASE trash' = [trash EXCEPT ![o].staged = FALSE] /\ UNCHANGED journal /\ StagedDirs # {}
    <3>1. o \in TrashIds /\ trash[o] \in TrashDir
      BY <1>36, <2>1, <2>2, PurgeFacts
    <3> HIDE DEF o
    <3> DEFINE d == [trash[o] EXCEPT !.staged = FALSE]
    <3>2. d \in TrashDir /\ d.snap = trash[o].snap /\ d.manifest = trash[o].manifest
      BY <3>1 DEF TrashDir
    <3>3. trash' = [trash EXCEPT ![o] = d]
      BY <2>2
    <3>4. d # None /\ trash[o] # None
      BY <3>1, <3>2, Constants
    <3> HIDE DEF d
    <3>5. trash'[o] = d /\ \A x \in TrashIds : x # o => trash'[x] = trash[x]
      BY <3>1, <3>3 DEF RepositoryInv, Typing, FileTyping
    <3>6. Restorable(o) <=> trash[o].manifest
      BY <2>1, <3>4 DEF Restorable, Revocable
    <3>7. \A x \in TrashIds : /\ x # o => (Restorable(x)' <=> Restorable(x))
                              /\ x = o => (Restorable(x)' <=> d.manifest)
      BY <2>1, <2>2, <3>4, <3>5 DEF Restorable, Revocable
    <3>8. \A x \in TrashIds : /\ Restorable(x)' <=> Restorable(x)
                              /\ Restorable(x) => trash'[x].snap = trash[x].snap
      BY <3>2, <3>5, <3>6, <3>7
    <3>9. Bin' = Bin
      BY <3>8, BinSame
    <3>10. QED
      BY <2>1, <3>9 DEF ShelfStep, Leaves
  <2>3. CASE UNCHANGED trash /\ StagedDirs = {}
    <3>1. \A x \in TrashIds : trash[x] # None => ~ trash[x].staged
      BY <2>3 DEF StagedDirs, RepositoryInv, Purging, StagedByPurge
    <3>2. \A x \in TrashIds : Restorable(x)' <=> Restorable(x)
      BY <2>3, <3>1 DEF Restorable
    <3>3. Bin' = Bin
      BY <2>3, <3>2, BinSame
    <3>4. QED
      BY <2>1, <3>3 DEF ShelfStep, Leaves
  <2>4. QED
    BY <1>36, <2>2, <2>3 DEF rollback_local_trash_purge
<1>37. ASSUME NEW p \in Procs, finish_local_trash_purge(p) PROVE ShelfStep
  <2>1. /\ job[p].kind = "purge" /\ job[p].at = "finish" /\ UNCHANGED <<roots, listed>>
        /\ journal \in PurgeJournal /\ journal.status \notin Revocable
    BY <1>37, PurgeFacts DEF finish_local_trash_purge, At, RepositoryInv, Purging, PurgeOK
  <2>2. CASE UNCHANGED <<trash, journal>>
    BY <2>1, <2>2, BinCalm DEF ShelfStep, Leaves
  <2>3. CASE UNCHANGED trash /\ Journal("ObjectsStaged")
    <3>1. journal'.status = "ObjectsStaged"
      BY <2>1, <2>3 DEF Journal, PurgeJournal
    <3>2. \A x \in TrashIds : Restorable(x)' <=> Restorable(x)
      BY <2>1, <2>3, <3>1 DEF Restorable, Revocable
    <3>3. Bin' = Bin
      BY <2>3, <3>2, BinSame
    <3>4. QED
      BY <2>1, <3>3 DEF ShelfStep, Leaves
  <2>4. CASE UNCHANGED trash /\ StagedDirs = {}
    <3>1. \A x \in TrashIds : trash[x] # None => ~ trash[x].staged
      BY <2>4 DEF StagedDirs, RepositoryInv, Purging, StagedByPurge
    <3>2. \A x \in TrashIds : Restorable(x)' <=> Restorable(x)
      BY <2>4, <3>1 DEF Restorable
    <3>3. Bin' = Bin
      BY <2>4, <3>2, BinSame
    <3>4. QED
      BY <2>1, <3>3 DEF ShelfStep, Leaves
  <2>5. CASE /\ trash' = [o \in TrashIds |-> IF o \in StagedDirs THEN None ELSE trash[o]]
             /\ UNCHANGED journal
    <3>1. \A x \in StagedDirs : ~ Restorable(x)
      BY <2>1 DEF StagedDirs, Restorable, Revocable
    <3>2. \A x \in TrashIds : /\ x \in StagedDirs => trash'[x] = None
                              /\ x \notin StagedDirs => trash'[x] = trash[x]
      BY <2>5
    <3>3. \A x \in TrashIds : /\ Restorable(x)' <=> Restorable(x)
                              /\ Restorable(x) => trash'[x].snap = trash[x].snap
      BY <2>5, <3>1, <3>2 DEF Restorable
    <3>4. Bin' = Bin
      BY <3>3, BinSame
    <3>5. QED
      BY <2>1, <3>4 DEF ShelfStep, Leaves
  <2>6. QED
    BY <1>37, <2>2, <2>3, <2>4, <2>5 DEF finish_local_trash_purge
<1>38. ASSUME NEW p \in Procs, WriteImportedRoot(p) PROVE ShelfStep
  <2>1. /\ job[p].kind = "import" /\ job[p].at = "root" /\ NewSnapshot(vault[job[p].treasure])
        /\ UNCHANGED <<objects, trash, journal>>
    BY <1>38 DEF WriteImportedRoot, At
  <2>2. vault[job[p].treasure] \in Contents
    BY <2>1, ImportFacts
  <2>3. Stored(vault[job[p].treasure])
    BY <2>1 DEF RepositoryInv, Building, BuildOK
  <2>4. Creates
    BY <2>1, <2>2, <2>3, CreatesFacts
  <2>5. QED
    BY <2>4 DEF ShelfStep
<1>39. ASSUME UNCHANGED vars PROVE UNCHANGED <<roots, listed, trash, journal>>
  BY <1>39 DEF vars, filevars
<1>40. QED
  BY <1>1, <1>2, <1>3, <1>4, <1>5, <1>6, <1>7, <1>8, <1>9, <1>10, <1>11, <1>12, <1>13,
     <1>14, <1>15, <1>16, <1>17, <1>18, <1>19, <1>20, <1>21, <1>22, <1>23, <1>24, <1>25,
     <1>26, <1>27, <1>28, <1>29, <1>30, <1>31, <1>32, <1>33, <1>34, <1>35, <1>36, <1>37,
     <1>38, <1>39 DEF Next, SnapshotStep, CleanupStep

(***************************************************************************)
(* Deletion spares what the list and the trash need.                       *)
(***************************************************************************)
LEMMA CompleteFacts ==
    StoredSnapshotsComplete <=>
      \A s \in listed \cup Bin : collect_snapshot_graph_objects(roots[s]) \subseteq objects
  BY DEF StoredSnapshotsComplete, Bin

LEMMA UnstagedReachable ==
    ASSUME RepositoryInv, journal = None \/ journal.status \notin Revocable
    PROVE  \A s \in listed \cup Bin :
             collect_snapshot_graph_objects(roots[s]) \subseteq collect_reachable_objects({})
<1>1. \A o \in TrashIds : Restorable(o) => o \in InTrash
  <2>1. \A o \in TrashIds : Restorable(o) => trash[o] # None /\ ~ trash[o].staged
    BY DEF Restorable, Revocable, RepositoryInv, Purging, StagedByPurge
  <2>2. QED
    BY <2>1 DEF InTrash
<1>2. \A s \in Bin : \E o \in InTrash : trash[o].snap = s
  BY <1>1 DEF Bin
<1>3. QED
  BY <1>2, ReachableFacts

Spares == \A s \in listed \cup Bin :
            collect_snapshot_graph_objects(roots[s]) \subseteq objects =>
              collect_snapshot_graph_objects(roots[s]) \subseteq objects'

LEMMA GrowingSpares == ASSUME objects \subseteq objects' PROVE Spares
  BY DEF Spares

LEMMA OneLess ==
    ASSUME RepositoryInv, journal = None \/ journal.status \notin Revocable,
           NEW o, o \notin collect_reachable_objects({}), objects' = objects \ {o}
    PROVE  Spares
<1>1. \A s \in listed \cup Bin :
        collect_snapshot_graph_objects(roots[s]) \subseteq collect_reachable_objects({})
  BY UnstagedReachable
<1>2. QED
  BY <1>1 DEF Spares

\* Only the collector and a committed purge delete objects, and they
\* delete what nothing reaches.
LEMMA SparesKept ==
    ASSUME RepositoryInv, Collecting, [Next]_vars
    PROVE  Spares
<1>1. CASE UNCHANGED objects
  BY <1>1, GrowingSpares
<1>2. ASSUME NEW t \in Threads, EditThread(t) PROVE UNCHANGED objects
  BY <1>2 DEF EditThread, filevars
<1>3. ASSUME NEW p \in Procs, start_snapshot(p) PROVE UNCHANGED objects
  BY <1>3 DEF start_snapshot, filevars, Run
<1>4. ASSUME NEW p \in Procs, OpenRollout(p) PROVE UNCHANGED objects
  BY <1>4 DEF OpenRollout, filevars, Run, At
<1>5. ASSUME NEW p \in Procs, NEW t \in Threads, source_fingerprint(p, t)
      PROVE  UNCHANGED objects
  BY <1>5 DEF source_fingerprint, filevars, Run, At
<1>6. ASSUME NEW p \in Procs, atomic_write_source_index(p) PROVE UNCHANGED objects
  BY <1>6 DEF atomic_write_source_index, At, Done, Step, Run
<1>7. ASSUME NEW p \in Procs, write_v4_snapshot(p) PROVE UNCHANGED objects
  BY <1>7 DEF write_v4_snapshot, At, Done, Run
<1>8. ASSUME NEW p \in Procs, NEW s \in SnapshotIds, update_snapshot_metadata(p, s)
      PROVE  UNCHANGED objects
  BY <1>8 DEF update_snapshot_metadata
<1>9. ASSUME NEW p \in Procs, NEW s \in SnapshotIds, validate_local_snapshot(p, s)
      PROVE  UNCHANGED objects
  BY <1>9 DEF validate_local_snapshot, filevars, Run
<1>10. ASSUME NEW p \in Procs, EndRead(p) PROVE UNCHANGED objects
  BY <1>10 DEF EndRead, filevars, At, Done, Run
<1>11. ASSUME NEW p \in Procs, EndDownload(p) PROVE UNCHANGED objects
  BY <1>11 DEF EndDownload, filevars, Done, Run
<1>12. ASSUME NEW p \in Procs, NEW s \in SnapshotIds, plan_snapshot_deletion(p, s)
       PROVE  UNCHANGED objects
  BY <1>12 DEF plan_snapshot_deletion, filevars
<1>13. ASSUME NEW p \in Procs, trash_local_snapshot(p) PROVE UNCHANGED objects
  BY <1>13 DEF trash_local_snapshot, Run
<1>14. ASSUME NEW p \in Procs, TrashStep(p) PROVE UNCHANGED objects
  BY <1>14 DEF TrashStep, Step, Done, Run
<1>15. ASSUME NEW p \in Procs, RestoreStep(p) PROVE UNCHANGED objects
  BY <1>15 DEF RestoreStep, At, Done, Run
<1>16. ASSUME NEW p \in Procs, NEW o \in TrashIds, restore_trashed_snapshot(p, o)
       PROVE  UNCHANGED objects
  BY <1>16 DEF restore_trashed_snapshot, Run
<1>17. ASSUME NEW p \in Procs, plan_local_gc(p) PROVE UNCHANGED objects
  BY <1>17 DEF plan_local_gc, filevars
<1>18. ASSUME NEW p \in Procs, quarantine_local_gc_plan(p) PROVE UNCHANGED objects
  BY <1>18 DEF quarantine_local_gc_plan, filevars, Run
<1>19. ASSUME NEW p \in Procs, start_purge(p) PROVE UNCHANGED objects
  BY <1>19 DEF start_purge, filevars, Run
<1>20. ASSUME NEW p \in Procs, recover_local_trash_purges(p) PROVE UNCHANGED objects
  BY <1>20 DEF recover_local_trash_purges, filevars, At, Step, Run
<1>21. ASSUME NEW p \in Procs, plan_local_trash_purge(p) PROVE UNCHANGED objects
  BY <1>21 DEF plan_local_trash_purge, At, Step, Done, Run
<1>22. ASSUME NEW p \in Procs, purge_local_trash(p) PROVE UNCHANGED objects
  BY <1>22 DEF purge_local_trash, At, Step, Run
<1>23. ASSUME NEW p \in Procs, rollback_local_trash_purge(p) PROVE UNCHANGED objects
  BY <1>23 DEF rollback_local_trash_purge, At, Step, Done, Run
<1>24. ASSUME NEW p \in Procs, trash_treasure(p) PROVE UNCHANGED objects
  BY <1>24 DEF trash_treasure
<1>25. ASSUME NEW p \in Procs, start_treasure_import(p) PROVE UNCHANGED objects
  BY <1>25 DEF start_treasure_import, filevars, Run
<1>26. ASSUME NEW p \in Procs, WriteImportedRoot(p) PROVE UNCHANGED objects
  BY <1>26 DEF WriteImportedRoot, At, Done, Run
<1>27. ASSUME NEW p \in Procs, JobFails(p) PROVE UNCHANGED objects
  BY <1>27 DEF JobFails, filevars, At, Done, Run
<1>28. ASSUME Decline PROVE UNCHANGED objects
  BY <1>28 DEF Decline, filevars
<1>29. ASSUME Crash PROVE UNCHANGED objects
  BY <1>29 DEF Crash, filevars
<1>30. ASSUME NEW p \in Procs, normalize_and_ingest_rollout(p) PROVE Spares
  <2>1. objects \subseteq objects'
    BY <1>30 DEF normalize_and_ingest_rollout, install_bytes
  <2>2. QED
    BY <2>1, GrowingSpares
<1>31. ASSUME NEW p \in Procs, build_v4_snapshot_root(p) PROVE Spares
  <2>1. objects \subseteq objects'
    BY <1>31 DEF build_v4_snapshot_root, install_bytes
  <2>2. QED
    BY <2>1, GrowingSpares
<1>32. ASSUME NEW p \in Procs, load_revision_root(p) PROVE Spares
  <2>1. objects \subseteq objects'
    BY <1>32 DEF load_revision_root, install_bytes
  <2>2. QED
    BY <2>1, GrowingSpares
<1>33. ASSUME NEW p \in Procs, download_revision_graph(p) PROVE Spares
  <2>1. objects \subseteq objects'
    BY <1>33 DEF download_revision_graph, install_bytes
  <2>2. QED
    BY <2>1, GrowingSpares
<1>34. ASSUME NEW p \in Procs, download_remote_revision_as_snapshot(p) PROVE Spares
  <2>1. objects \subseteq objects'
    BY <1>34 DEF download_remote_revision_as_snapshot, install_bytes
  <2>2. QED
    BY <2>1, GrowingSpares
<1>35. ASSUME NEW p \in Procs, MoveToQuarantine(p) PROVE Spares
  <2>1. CASE UNCHANGED objects
    BY <2>1, GrowingSpares
  <2>2. CASE \E o \in FirstOf(job[p].todo) : StillGarbage(o) /\ objects' = objects \ {o}
    <3>1. PICK o : StillGarbage(o) /\ objects' = objects \ {o}
      BY <2>2
    <3>2. o \notin collect_reachable_objects({})
      BY <3>1 DEF StillGarbage, Unreachable
    <3>3. journal = None
      BY <1>35 DEF MoveToQuarantine, At, Collecting
    <3>4. QED
      BY <3>1, <3>2, <3>3, OneLess
  <2>3. QED
    BY <1>35, <2>1, <2>2 DEF MoveToQuarantine
<1>36. ASSUME NEW p \in Procs, finish_local_trash_purge(p) PROVE Spares
  <2>1. CASE UNCHANGED objects
    BY <2>1, GrowingSpares
  <2>2. CASE \E o \in FirstOf(Doomed) : objects' = objects \ {o}
    <3>1. PICK o \in Doomed : objects' = objects \ {o}
      BY <2>2 DEF FirstOf
    <3>2. o \notin collect_reachable_objects({})
      BY <3>1 DEF Doomed
    <3>3. journal.status \notin Revocable
      BY <1>36 DEF finish_local_trash_purge, At, RepositoryInv, Purging, PurgeOK
    <3>4. QED
      BY <3>1, <3>2, <3>3, OneLess
  <2>3. QED
    BY <1>36, <2>1, <2>2 DEF finish_local_trash_purge
<1>37. ASSUME NEW p \in Procs, export_treasure_to_vault(p) PROVE Spares
  <2>1. objects \subseteq objects'
    BY <1>37 DEF export_treasure_to_vault, install_bytes
  <2>2. QED
    BY <2>1, GrowingSpares
<1>38. ASSUME NEW p \in Procs, import_treasure_as_snapshot(p) PROVE Spares
  <2>1. objects \subseteq objects'
    BY <1>38 DEF import_treasure_as_snapshot, install_bytes
  <2>2. QED
    BY <2>1, GrowingSpares
<1>39. ASSUME UNCHANGED vars PROVE UNCHANGED objects
  BY <1>39 DEF vars, filevars
<1>40. QED
  BY <1>1, <1>2, <1>3, <1>4, <1>5, <1>6, <1>7, <1>8, <1>9, <1>10, <1>11, <1>12, <1>13,
     <1>14, <1>15, <1>16, <1>17, <1>18, <1>19, <1>20, <1>21, <1>22, <1>23, <1>24, <1>25,
     <1>26, <1>27, <1>28, <1>29, <1>30, <1>31, <1>32, <1>33, <1>34, <1>35, <1>36, <1>37,
     <1>38, <1>39 DEF Next, SnapshotStep, CleanupStep

\* Unless it collects over an unfinished purge, a collection finds none.
LEMMA CollectCalm ==
    ASSUME Collecting, NEW p \in Procs, \A q \in Procs : q # p => job'[q] = job[q],
           UNCHANGED journal, job'[p].kind # "gc"
    PROVE  Collecting'
  BY DEF Collecting

\* A collection runs while no purge is unfinished.
LEMMA CollectKept ==
    ASSUME ~ CollectsUnrecovered, RepositoryInv, Collecting, [Next]_vars
    PROVE  Collecting'
<1>1. CASE UNCHANGED <<journal, job>>
  BY <1>1 DEF Collecting
<1>2. ASSUME NEW t \in Threads, EditThread(t) PROVE UNCHANGED <<journal, job>>
  BY <1>2 DEF EditThread, filevars
<1>3. ASSUME NEW p \in Procs, NEW s \in SnapshotIds, update_snapshot_metadata(p, s)
      PROVE  UNCHANGED <<journal, job>>
  BY <1>3 DEF update_snapshot_metadata
<1>4. ASSUME NEW p \in Procs, NEW s \in SnapshotIds, plan_snapshot_deletion(p, s)
      PROVE  UNCHANGED <<journal, job>>
  BY <1>4 DEF plan_snapshot_deletion, filevars
<1>5. ASSUME NEW p \in Procs, plan_local_gc(p) PROVE UNCHANGED <<journal, job>>
  BY <1>5 DEF plan_local_gc, filevars
<1>6. ASSUME NEW p \in Procs, export_treasure_to_vault(p) PROVE UNCHANGED <<journal, job>>
  BY <1>6 DEF export_treasure_to_vault
<1>7. ASSUME NEW p \in Procs, trash_treasure(p) PROVE UNCHANGED <<journal, job>>
  BY <1>7 DEF trash_treasure
<1>8. ASSUME Decline PROVE UNCHANGED <<journal, job>>
  BY <1>8 DEF Decline, filevars
<1>9. ASSUME NEW p \in Procs, start_snapshot(p) PROVE Collecting'
  <2>1. /\ \A q \in Procs : q # p => job'[q] = job[q]
        /\ job'[p].kind # "gc"
    BY <1>9, RunFacts DEF start_snapshot, SnapshotJob
  <2>2. UNCHANGED journal
    BY <1>9 DEF start_snapshot, filevars
  <2>3. QED
    BY <2>1, <2>2, CollectCalm
<1>10. ASSUME NEW p \in Procs, OpenRollout(p) PROVE Collecting'
  <2>1. /\ \A q \in Procs : q # p => job'[q] = job[q]
        /\ job'[p].kind # "gc"
    BY <1>10, OpenFacts, RunFacts, JobFields DEF OpenRollout, At
  <2>2. UNCHANGED journal
    BY <1>10 DEF OpenRollout, filevars
  <2>3. QED
    BY <2>1, <2>2, CollectCalm
<1>11. ASSUME NEW p \in Procs, normalize_and_ingest_rollout(p) PROVE Collecting'
  <2>1. /\ \A q \in Procs : q # p => job'[q] = job[q]
        /\ job'[p].kind # "gc"
    BY <1>11, StepJob DEF normalize_and_ingest_rollout, At
  <2>2. UNCHANGED journal
    BY <1>11 DEF normalize_and_ingest_rollout, filevars
  <2>3. QED
    BY <2>1, <2>2, CollectCalm
<1>12. ASSUME NEW p \in Procs, NEW t \in Threads, source_fingerprint(p, t) PROVE Collecting'
  <2>1. /\ \A q \in Procs : q # p => job'[q] = job[q]
        /\ job'[p].kind # "gc"
    BY <1>12, FingerprintFacts, RunFacts DEF source_fingerprint, At
  <2>2. UNCHANGED journal
    BY <1>12 DEF source_fingerprint, filevars
  <2>3. QED
    BY <2>1, <2>2, CollectCalm
<1>13. ASSUME NEW p \in Procs, atomic_write_source_index(p) PROVE Collecting'
  <2>1. /\ \A q \in Procs : q # p => job'[q] = job[q]
        /\ job'[p].kind # "gc"
    BY <1>13, StepJob, DoneJob DEF atomic_write_source_index, At
  <2>2. UNCHANGED journal
    BY <1>13 DEF atomic_write_source_index, filevars
  <2>3. QED
    BY <2>1, <2>2, CollectCalm
<1>14. ASSUME NEW p \in Procs, build_v4_snapshot_root(p) PROVE Collecting'
  <2>1. /\ \A q \in Procs : q # p => job'[q] = job[q]
        /\ job'[p].kind # "gc"
    BY <1>14, StepJob DEF build_v4_snapshot_root, At
  <2>2. UNCHANGED journal
    BY <1>14 DEF build_v4_snapshot_root, filevars
  <2>3. QED
    BY <2>1, <2>2, CollectCalm
<1>15. ASSUME NEW p \in Procs, write_v4_snapshot(p) PROVE Collecting'
  <2>1. /\ \A q \in Procs : q # p => job'[q] = job[q]
        /\ job'[p].kind # "gc"
    BY <1>15, DoneJob DEF write_v4_snapshot
  <2>2. UNCHANGED journal
    BY <1>15 DEF write_v4_snapshot, filevars
  <2>3. QED
    BY <2>1, <2>2, CollectCalm
<1>16. ASSUME NEW p \in Procs, NEW s \in SnapshotIds, validate_local_snapshot(p, s)
       PROVE  Collecting'
  <2>1. /\ \A q \in Procs : q # p => job'[q] = job[q]
        /\ job'[p].kind # "gc"
    BY <1>16, RunFacts DEF validate_local_snapshot
  <2>2. UNCHANGED journal
    BY <1>16 DEF validate_local_snapshot, filevars
  <2>3. QED
    BY <2>1, <2>2, CollectCalm
<1>17. ASSUME NEW p \in Procs, EndRead(p) PROVE Collecting'
  <2>1. /\ \A q \in Procs : q # p => job'[q] = job[q]
        /\ job'[p].kind # "gc"
    BY <1>17, DoneJob DEF EndRead
  <2>2. UNCHANGED journal
    BY <1>17 DEF EndRead, filevars
  <2>3. QED
    BY <2>1, <2>2, CollectCalm
<1>18. ASSUME NEW p \in Procs, load_revision_root(p) PROVE Collecting'
  <2>1. /\ \A q \in Procs : q # p => job'[q] = job[q]
        /\ job'[p].kind # "gc"
    BY <1>18, RunFacts DEF load_revision_root
  <2>2. UNCHANGED journal
    BY <1>18 DEF load_revision_root, filevars
  <2>3. QED
    BY <2>1, <2>2, CollectCalm
<1>19. ASSUME NEW p \in Procs, download_revision_graph(p) PROVE Collecting'
  <2>1. /\ \A q \in Procs : q # p => job'[q] = job[q]
        /\ job'[p].kind # "gc"
    BY <1>19, StepJob DEF download_revision_graph, At
  <2>2. UNCHANGED journal
    BY <1>19 DEF download_revision_graph, filevars
  <2>3. QED
    BY <2>1, <2>2, CollectCalm
<1>20. ASSUME NEW p \in Procs, EndDownload(p) PROVE Collecting'
  <2>1. /\ \A q \in Procs : q # p => job'[q] = job[q]
        /\ job'[p].kind # "gc"
    BY <1>20, DoneJob DEF EndDownload
  <2>2. UNCHANGED journal
    BY <1>20 DEF EndDownload, filevars
  <2>3. QED
    BY <2>1, <2>2, CollectCalm
<1>21. ASSUME NEW p \in Procs, download_remote_revision_as_snapshot(p) PROVE Collecting'
  <2>1. /\ \A q \in Procs : q # p => job'[q] = job[q]
        /\ job'[p].kind # "gc"
    BY <1>21, StepJob, DoneJob DEF download_remote_revision_as_snapshot
  <2>2. UNCHANGED journal
    BY <1>21 DEF download_remote_revision_as_snapshot, filevars
  <2>3. QED
    BY <2>1, <2>2, CollectCalm
<1>22. ASSUME NEW p \in Procs, trash_local_snapshot(p) PROVE Collecting'
  <2>1. /\ \A q \in Procs : q # p => job'[q] = job[q]
        /\ job'[p].kind # "gc"
    BY <1>22, RunFacts DEF trash_local_snapshot
  <2>2. UNCHANGED journal
    BY <1>22 DEF trash_local_snapshot, filevars
  <2>3. QED
    BY <2>1, <2>2, CollectCalm
<1>23. ASSUME NEW p \in Procs, TrashStep(p) PROVE Collecting'
  <2>1. /\ \A q \in Procs : q # p => job'[q] = job[q]
        /\ job'[p].kind # "gc"
    BY <1>23, StepJob, DoneJob DEF TrashStep
  <2>2. UNCHANGED journal
    BY <1>23 DEF TrashStep, filevars
  <2>3. QED
    BY <2>1, <2>2, CollectCalm
<1>24. ASSUME NEW p \in Procs, RestoreStep(p) PROVE Collecting'
  <2>1. /\ \A q \in Procs : q # p => job'[q] = job[q]
        /\ job'[p].kind # "gc"
    BY <1>24, PurgeJobKinds
  <2>2. UNCHANGED journal
    BY <1>24 DEF RestoreStep, filevars
  <2>3. QED
    BY <2>1, <2>2, CollectCalm
<1>25. ASSUME NEW p \in Procs, NEW o \in TrashIds, restore_trashed_snapshot(p, o)
       PROVE  Collecting'
  <2>1. /\ \A q \in Procs : q # p => job'[q] = job[q]
        /\ job'[p].kind # "gc"
    BY <1>25, RunFacts DEF restore_trashed_snapshot
  <2>2. UNCHANGED journal
    BY <1>25 DEF restore_trashed_snapshot, filevars
  <2>3. QED
    BY <2>1, <2>2, CollectCalm
<1>26. ASSUME NEW p \in Procs, quarantine_local_gc_plan(p) PROVE Collecting'
  <2>1. UNCHANGED journal /\ journal = None
    BY <1>26 DEF quarantine_local_gc_plan, filevars, MayCollect, UnfinishedPurge
  <2>2. QED
    BY <2>1 DEF Collecting
<1>27. ASSUME NEW p \in Procs, MoveToQuarantine(p) PROVE Collecting'
  <2>1. (\A q \in Procs : q # p => job'[q] = job[q]) /\ job[p].kind = "gc" /\ UNCHANGED journal
    BY <1>27, RunFacts DEF MoveToQuarantine, At, Done
  <2>2. QED
    BY <2>1 DEF Collecting
<1>28. ASSUME NEW p \in Procs, start_purge(p) PROVE Collecting'
  <2>1. /\ \A q \in Procs : q # p => job'[q] = job[q]
        /\ job'[p].kind # "gc"
    BY <1>28, PurgeJobKinds
  <2>2. UNCHANGED journal
    BY <1>28 DEF start_purge, filevars
  <2>3. QED
    BY <2>1, <2>2, CollectCalm
<1>29. ASSUME NEW p \in Procs, recover_local_trash_purges(p) PROVE Collecting'
  <2>1. /\ \A q \in Procs : q # p => job'[q] = job[q]
        /\ job'[p].kind # "gc"
    BY <1>29, PurgeJobKinds
  <2>2. UNCHANGED journal
    BY <1>29 DEF recover_local_trash_purges, filevars
  <2>3. QED
    BY <2>1, <2>2, CollectCalm
<1>30. ASSUME NEW p \in Procs, plan_local_trash_purge(p) PROVE Collecting'
  <2>1. (\A q \in Procs : q # p => job'[q] = job[q]) /\ job'[p].kind \in {"idle", "purge"}
    BY <1>30, PurgeJobKinds
  <2>2. \A q \in Procs : q # p => job'[q] = Idle /\ job'[q].kind = "idle"
    BY <1>30, <2>1, Alone DEF plan_local_trash_purge, At
  <2>3. QED
    BY <2>1, <2>2 DEF Collecting
<1>31. ASSUME NEW p \in Procs, purge_local_trash(p) PROVE Collecting'
  <2>1. (\A q \in Procs : q # p => job'[q] = job[q]) /\ job'[p].kind \in {"idle", "purge"}
    BY <1>31, PurgeJobKinds
  <2>2. \A q \in Procs : q # p => job'[q] = Idle /\ job'[q].kind = "idle"
    BY <1>31, <2>1, Alone DEF purge_local_trash, At
  <2>3. QED
    BY <2>1, <2>2 DEF Collecting
<1>32. ASSUME NEW p \in Procs, rollback_local_trash_purge(p) PROVE Collecting'
  <2>1. (\A q \in Procs : q # p => job'[q] = job[q]) /\ job'[p].kind \in {"idle", "purge"}
    BY <1>32, PurgeJobKinds
  <2>2. \A q \in Procs : q # p => job'[q] = Idle /\ job'[q].kind = "idle"
    BY <1>32, <2>1, Alone DEF rollback_local_trash_purge, At
  <2>3. QED
    BY <2>1, <2>2 DEF Collecting
<1>33. ASSUME NEW p \in Procs, finish_local_trash_purge(p) PROVE Collecting'
  <2>1. (\A q \in Procs : q # p => job'[q] = job[q]) /\ job'[p].kind \in {"idle", "purge"}
    BY <1>33, PurgeJobKinds
  <2>2. \A q \in Procs : q # p => job'[q] = Idle /\ job'[q].kind = "idle"
    BY <1>33, <2>1, Alone DEF finish_local_trash_purge, At
  <2>3. QED
    BY <2>1, <2>2 DEF Collecting
<1>34. ASSUME NEW p \in Procs, start_treasure_import(p) PROVE Collecting'
  <2>1. /\ \A q \in Procs : q # p => job'[q] = job[q]
        /\ job'[p].kind # "gc"
    BY <1>34, RunFacts DEF start_treasure_import
  <2>2. UNCHANGED journal
    BY <1>34 DEF start_treasure_import, filevars
  <2>3. QED
    BY <2>1, <2>2, CollectCalm
<1>35. ASSUME NEW p \in Procs, import_treasure_as_snapshot(p) PROVE Collecting'
  <2>1. /\ \A q \in Procs : q # p => job'[q] = job[q]
        /\ job'[p].kind # "gc"
    BY <1>35, StepJob DEF import_treasure_as_snapshot, At
  <2>2. UNCHANGED journal
    BY <1>35 DEF import_treasure_as_snapshot, filevars
  <2>3. QED
    BY <2>1, <2>2, CollectCalm
<1>36. ASSUME NEW p \in Procs, WriteImportedRoot(p) PROVE Collecting'
  <2>1. /\ \A q \in Procs : q # p => job'[q] = job[q]
        /\ job'[p].kind # "gc"
    BY <1>36, DoneJob DEF WriteImportedRoot
  <2>2. UNCHANGED journal
    BY <1>36 DEF WriteImportedRoot, filevars
  <2>3. QED
    BY <2>1, <2>2, CollectCalm
<1>37. ASSUME NEW p \in Procs, JobFails(p) PROVE Collecting'
  <2>1. /\ \A q \in Procs : q # p => job'[q] = job[q]
        /\ job'[p].kind # "gc"
    BY <1>37, PurgeJobKinds
  <2>2. UNCHANGED journal
    BY <1>37 DEF JobFails, filevars
  <2>3. QED
    BY <2>1, <2>2, CollectCalm
<1>38. CASE Crash
  <2>1. \A q \in Procs : job'[q].kind = "idle"
    BY <1>38, IdleFacts DEF Crash
  <2>2. QED
    BY <2>1 DEF Collecting
<1>39. ASSUME UNCHANGED vars PROVE UNCHANGED <<journal, job>>
  BY <1>39 DEF vars, filevars
<1>40. QED
  BY <1>1, <1>2, <1>3, <1>4, <1>5, <1>6, <1>7, <1>8, <1>9, <1>10, <1>11, <1>12, <1>13,
     <1>14, <1>15, <1>16, <1>17, <1>18, <1>19, <1>20, <1>21, <1>22, <1>23, <1>24, <1>25,
     <1>26, <1>27, <1>28, <1>29, <1>30, <1>31, <1>32, <1>33, <1>34, <1>35, <1>36, <1>37,
     <1>38, <1>39 DEF Next, SnapshotStep, CleanupStep

\* No step leaves a snapshot without its objects.
LEMMA CompleteKept ==
    ASSUME RepositoryInv, StorageInv, [Next]_vars PROVE StoredSnapshotsComplete'
<1>1. \A s \in listed \cup Bin : collect_snapshot_graph_objects(roots[s]) \subseteq objects'
  BY SparesKept, CompleteFacts DEF Spares, StorageInv
<1>2. \A s \in listed' \cup Bin' : collect_snapshot_graph_objects(roots'[s]) \subseteq objects'
  <2>1. CASE Creates
    <3>1. PICK s \in SnapshotIds \ DOMAIN roots, f \in Contents :
            /\ roots' = Extend(roots, s, f) /\ listed' = listed \cup {s} /\ Bin' = Bin
            /\ collect_snapshot_graph_objects(f) \subseteq objects /\ UNCHANGED objects
      BY <2>1 DEF Creates
    <3>2. roots'[s] = f /\ \A r \in DOMAIN roots : roots'[r] = roots[r]
      BY <3>1 DEF Extend
    <3>3. listed \cup Bin \subseteq DOMAIN roots
      BY DEF Bin, Restorable, RepositoryInv, Typing, RootTyping
    <3>4. QED
      BY <1>1, <3>1, <3>2, <3>3
  <2>2. CASE Discards
    BY <1>1, <2>2 DEF Discards
  <2>3. CASE PutsBack
    BY <1>1, <2>3 DEF PutsBack
  <2>4. CASE Destroys
    BY <1>1, <2>4 DEF Destroys
  <2>5. CASE Leaves
    BY <1>1, <2>5 DEF Leaves
  <2>6. QED
    BY <2>1, <2>2, <2>3, <2>4, <2>5, ShelfSteps DEF ShelfStep
<1>3. QED
  BY <1>2 DEF StoredSnapshotsComplete, Bin, Restorable

(***************************************************************************)
(* The first state.                                                        *)
(***************************************************************************)
LEMMA RepositoryInit == Init => RepositoryInv
<1> SUFFICES ASSUME Init PROVE RepositoryInv
  OBVIOUS
<1>1. FileTyping
  BY Constants DEF Init, FileTyping
<1>2. RootTyping
  BY EmptyContents DEF Init, RootTyping
<1>3. \A p \in Procs : job[p] = Idle
  BY DEF Init
<1>4. JobTyping
  BY <1>3, IdleIsOK DEF Init, JobTyping
<1>5. Leases
  BY <1>3, IdleFacts DEF Leases, Holds
<1>6. Purging
  BY <1>3, IdleFacts DEF Init, Purging, StagedByPurge, PurgeOK
<1>7. Trashing /\ Entered
  BY <1>3, IdleFacts DEF Init, Trashing, TrashOK, Entered
<1>8. Building
  BY <1>3, IdleFacts DEF Building, BuildOK
<1>9. Timely
  BY <1>3, IdleFacts DEF Init, Timely, IndexTimely, ReadOK
<1>10. QED
  BY <1>1, <1>2, <1>4, <1>5, <1>6, <1>7, <1>8, <1>9 DEF RepositoryInv, Typing

LEMMA StorageInit == Init => StorageInv
<1> SUFFICES ASSUME Init PROVE StorageInv
  OBVIOUS
<1>1. Collecting
  BY IdleFacts DEF Init, Collecting
<1>2. StoredSnapshotsComplete
  BY DEF Init, StoredSnapshotsComplete, Restorable
<1>3. QED
  BY <1>1, <1>2 DEF StorageInv

LEMMA RepositoryStep == RepositoryInv /\ [Next]_vars => RepositoryInv'
<1> SUFFICES ASSUME RepositoryInv, [Next]_vars PROVE RepositoryInv'
  OBVIOUS
<1>1. FileTyping'
  BY HomeTyped, ObjectsTyped, IndexTyped, JournalTyped, VaultTyped, TrashTyped DEF FileTyping
<1>2. Typing'
  BY <1>1, RootsTyped, JobsTyped DEF Typing
<1>3. Purging'
  BY StagedKept, PurgeKept DEF Purging
<1>4. Trashing'
  BY TrashKept DEF Trashing
<1>5. Building'
  BY BuildKept DEF Building
<1>6. Timely'
  BY IndexKept, ReadKept DEF Timely
<1>7. QED
  BY <1>2, <1>3, <1>4, <1>5, <1>6, LeasesKept, EnteredKept DEF RepositoryInv

(***************************************************************************)
(* In every reachable state the files have their types, a job that changes *)
(* the repository runs alone, a staged directory belongs to the unfinished *)
(* purge, a directory with a manifest has its entry, a job that is about   *)
(* to write a root has stored everything the root names, and what it read  *)
(* is no older than its request.                                           *)
(***************************************************************************)
THEOREM RepositoryInvariant == Spec => []RepositoryInv
<1>1. QED
  BY RepositoryInit, RepositoryStep, PTL DEF Spec

LEMMA StorageStep ==
    ~ CollectsUnrecovered /\ RepositoryInv /\ StorageInv /\ [Next]_vars => StorageInv'
<1> SUFFICES ASSUME ~ CollectsUnrecovered, RepositoryInv, StorageInv, [Next]_vars
             PROVE  StorageInv'
  OBVIOUS
<1>1. Collecting'
  BY CollectKept DEF StorageInv
<1>2. StoredSnapshotsComplete'
  BY CompleteKept
<1>3. QED
  BY <1>1, <1>2 DEF StorageInv

\* Both invariants of the storage, when an interrupted purge is recovered first.
LEMMA StorageInvariant == ASSUME ~ CollectsUnrecovered PROVE Spec => []StorageInv
<1>1. RepositoryInv /\ StorageInv /\ [Next]_vars => StorageInv'
  BY StorageStep
<1>2. QED
  BY <1>1, StorageInit, RepositoryInvariant, PTL DEF Spec

(***************************************************************************)
(* Every snapshot in the list, and every one the trash can give back, has  *)
(* all its objects, whatever collect_reachable_objects_v4 let a collection *)
(* or a purge delete, and wherever a job or the program stopped, provided  *)
(* that an interrupted purge is recovered before the next collection.      *)
(***************************************************************************)
THEOREM SnapshotsStayComplete ==
    ASSUME ~ CollectsUnrecovered PROVE Spec => []StoredSnapshotsComplete
<1>1. StorageInv => StoredSnapshotsComplete
  BY DEF StorageInv
<1>2. QED
  BY <1>1, StorageInvariant, PTL

(***************************************************************************)
(* Under the leases of try_acquire_repository a job that reads a snapshot  *)
(* finds it in the list, with all its objects, until it ends.              *)
(***************************************************************************)
THEOREM LeasesProtectReads ==
    ASSUME ~ CollectsUnrecovered PROVE Spec => []LeasedReadsSucceed
<1>1. RepositoryInv /\ StorageInv => LeasedReadsSucceed
  <2> SUFFICES ASSUME RepositoryInv, StorageInv, NEW p \in Procs, job[p].kind = "read"
               PROVE  /\ job[p].snap \in listed
                      /\ collect_snapshot_graph_objects(roots[job[p].snap]) \subseteq objects
    BY DEF LeasedReadsSucceed
  <2>1. job[p].snap \in listed
    BY DEF RepositoryInv, Trashing, TrashOK
  <2>2. QED
    BY <2>1 DEF StorageInv, StoredSnapshotsComplete
<1>2. QED
  BY <1>1, RepositoryInvariant, StorageInvariant, PTL

(***************************************************************************)
(* The trusted source index names the content a rollout has whenever it    *)
(* vouches for it: source_fingerprint_v4 is taken before the file is read, *)
(* so a later edit only makes the entry useless.                           *)
(***************************************************************************)
THEOREM IndexStaysTruthful == Spec => []IndexIsTruthful
<1>1. RepositoryInv => IndexIsTruthful
  <2> SUFFICES ASSUME RepositoryInv, NEW t \in Threads, index[t] # None,
                      index[t].fingerprint = home[t]
               PROVE  index[t].content = home[t]
    BY DEF IndexIsTruthful
  <2>1. index[t].fingerprint <= index[t].content /\ index[t].content <= home[t]
    BY DEF RepositoryInv, Timely, IndexTimely
  <2>2. home[t] \in Nat /\ index[t].content \in Nat
    BY Constants DEF RepositoryInv, Typing, FileTyping, IndexEntry
  <2>3. QED
    BY <2>1, <2>2
<1>2. QED
  BY <1>1, RepositoryInvariant, PTL

\* A root is written by a snapshot, a download or an import.
LEMMA RootWriters ==
    ASSUME RepositoryInv, [Next]_vars
    PROVE  (\E q \in Procs : write_v4_snapshot(q) \/ download_remote_revision_as_snapshot(q) \/ WriteImportedRoot(q)) \/ UNCHANGED roots
<1>1. CASE UNCHANGED roots
  BY <1>1
<1>2. ASSUME NEW t \in Threads, EditThread(t) PROVE UNCHANGED roots
  BY <1>2 DEF EditThread, filevars
<1>3. ASSUME NEW p \in Procs, start_snapshot(p) PROVE UNCHANGED roots
  BY <1>3 DEF start_snapshot, filevars, Run
<1>4. ASSUME NEW p \in Procs, OpenRollout(p) PROVE UNCHANGED roots
  BY <1>4 DEF OpenRollout, filevars, Run, At
<1>5. ASSUME NEW p \in Procs, normalize_and_ingest_rollout(p) PROVE UNCHANGED roots
  BY <1>5 DEF normalize_and_ingest_rollout, At, Step, Run
<1>6. ASSUME NEW p \in Procs, NEW t \in Threads, source_fingerprint(p, t)
      PROVE  UNCHANGED roots
  BY <1>6 DEF source_fingerprint, filevars, Run, At
<1>7. ASSUME NEW p \in Procs, atomic_write_source_index(p) PROVE UNCHANGED roots
  BY <1>7 DEF atomic_write_source_index, At, Done, Step, Run
<1>8. ASSUME NEW p \in Procs, build_v4_snapshot_root(p) PROVE UNCHANGED roots
  BY <1>8 DEF build_v4_snapshot_root, At, Step, Run
<1>9. ASSUME NEW p \in Procs, NEW s \in SnapshotIds, update_snapshot_metadata(p, s)
      PROVE  UNCHANGED roots
  BY <1>9 DEF update_snapshot_metadata
<1>10. ASSUME NEW p \in Procs, NEW s \in SnapshotIds, validate_local_snapshot(p, s)
       PROVE  UNCHANGED roots
  BY <1>10 DEF validate_local_snapshot, filevars, Run
<1>11. ASSUME NEW p \in Procs, EndRead(p) PROVE UNCHANGED roots
  BY <1>11 DEF EndRead, filevars, At, Done, Run
<1>12. ASSUME NEW p \in Procs, load_revision_root(p) PROVE UNCHANGED roots
  BY <1>12 DEF load_revision_root, Run
<1>13. ASSUME NEW p \in Procs, download_revision_graph(p) PROVE UNCHANGED roots
  BY <1>13 DEF download_revision_graph, At, Step, Run
<1>14. ASSUME NEW p \in Procs, EndDownload(p) PROVE UNCHANGED roots
  BY <1>14 DEF EndDownload, filevars, Done, Run
<1>15. ASSUME NEW p \in Procs, NEW s \in SnapshotIds, plan_snapshot_deletion(p, s)
       PROVE  UNCHANGED roots
  BY <1>15 DEF plan_snapshot_deletion, filevars
<1>16. ASSUME NEW p \in Procs, trash_local_snapshot(p) PROVE UNCHANGED roots
  BY <1>16 DEF trash_local_snapshot, Run
<1>17. ASSUME NEW p \in Procs, TrashStep(p) PROVE UNCHANGED roots
  BY <1>17 DEF TrashStep, Step, Done, Run
<1>18. ASSUME NEW p \in Procs, RestoreStep(p) PROVE UNCHANGED roots
  BY <1>18 DEF RestoreStep, At, Done, Run
<1>19. ASSUME NEW p \in Procs, NEW o \in TrashIds, restore_trashed_snapshot(p, o)
       PROVE  UNCHANGED roots
  BY <1>19 DEF restore_trashed_snapshot, Run
<1>20. ASSUME NEW p \in Procs, plan_local_gc(p) PROVE UNCHANGED roots
  BY <1>20 DEF plan_local_gc, filevars
<1>21. ASSUME NEW p \in Procs, quarantine_local_gc_plan(p) PROVE UNCHANGED roots
  BY <1>21 DEF quarantine_local_gc_plan, filevars, Run
<1>22. ASSUME NEW p \in Procs, MoveToQuarantine(p) PROVE UNCHANGED roots
  BY <1>22 DEF MoveToQuarantine, At, Done, Run
<1>23. ASSUME NEW p \in Procs, start_purge(p) PROVE UNCHANGED roots
  BY <1>23 DEF start_purge, filevars, Run
<1>24. ASSUME NEW p \in Procs, recover_local_trash_purges(p) PROVE UNCHANGED roots
  BY <1>24 DEF recover_local_trash_purges, filevars, At, Step, Run
<1>25. ASSUME NEW p \in Procs, plan_local_trash_purge(p) PROVE UNCHANGED roots
  BY <1>25 DEF plan_local_trash_purge, At, Step, Done, Run
<1>26. ASSUME NEW p \in Procs, purge_local_trash(p) PROVE UNCHANGED roots
  BY <1>26 DEF purge_local_trash, At, Step, Run
<1>27. ASSUME NEW p \in Procs, rollback_local_trash_purge(p) PROVE UNCHANGED roots
  BY <1>27 DEF rollback_local_trash_purge, At, Step, Done, Run
<1>28. ASSUME NEW p \in Procs, finish_local_trash_purge(p) PROVE UNCHANGED roots
  BY <1>28 DEF finish_local_trash_purge, At, Step, Done, Run
<1>29. ASSUME NEW p \in Procs, export_treasure_to_vault(p) PROVE UNCHANGED roots
  BY <1>29 DEF export_treasure_to_vault
<1>30. ASSUME NEW p \in Procs, trash_treasure(p) PROVE UNCHANGED roots
  BY <1>30 DEF trash_treasure
<1>31. ASSUME NEW p \in Procs, start_treasure_import(p) PROVE UNCHANGED roots
  BY <1>31 DEF start_treasure_import, filevars, Run
<1>32. ASSUME NEW p \in Procs, import_treasure_as_snapshot(p) PROVE UNCHANGED roots
  BY <1>32 DEF import_treasure_as_snapshot, At, Step, Run
<1>33. ASSUME NEW p \in Procs, JobFails(p) PROVE UNCHANGED roots
  BY <1>33 DEF JobFails, filevars, At, Done, Run
<1>34. ASSUME Decline PROVE UNCHANGED roots
  BY <1>34 DEF Decline, filevars
<1>35. ASSUME Crash PROVE UNCHANGED roots
  BY <1>35 DEF Crash, filevars
<1>36. ASSUME NEW p \in Procs, write_v4_snapshot(p)
       PROVE  (\E q \in Procs : write_v4_snapshot(q) \/ download_remote_revision_as_snapshot(q) \/ WriteImportedRoot(q)) \/ UNCHANGED roots
  BY <1>36
<1>37. ASSUME NEW p \in Procs, download_remote_revision_as_snapshot(p)
       PROVE  (\E q \in Procs : write_v4_snapshot(q) \/ download_remote_revision_as_snapshot(q) \/ WriteImportedRoot(q)) \/ UNCHANGED roots
  BY <1>37
<1>38. ASSUME NEW p \in Procs, WriteImportedRoot(p)
       PROVE  (\E q \in Procs : write_v4_snapshot(q) \/ download_remote_revision_as_snapshot(q) \/ WriteImportedRoot(q)) \/ UNCHANGED roots
  BY <1>38
<1>39. ASSUME UNCHANGED vars PROVE UNCHANGED roots
  BY <1>39 DEF vars, filevars
<1>40. QED
  BY <1>1, <1>2, <1>3, <1>4, <1>5, <1>6, <1>7, <1>8, <1>9, <1>10, <1>11, <1>12, <1>13,
     <1>14, <1>15, <1>16, <1>17, <1>18, <1>19, <1>20, <1>21, <1>22, <1>23, <1>24, <1>25,
     <1>26, <1>27, <1>28, <1>29, <1>30, <1>31, <1>32, <1>33, <1>34, <1>35, <1>36, <1>37,
     <1>38, <1>39 DEF Next, SnapshotStep, CleanupStep

\* A snapshot leaves the list with its manifest, on the way to the trash.
LEMMA ListLeaves ==
    ASSUME RepositoryInv, [Next]_vars
    PROVE  (\E q \in Procs : TrashStep(q) /\ job[q].at = "manifest") \/ listed \subseteq listed'
<1>1. CASE UNCHANGED listed
  BY <1>1
<1>2. ASSUME NEW t \in Threads, EditThread(t) PROVE UNCHANGED listed
  BY <1>2 DEF EditThread, filevars
<1>3. ASSUME NEW p \in Procs, start_snapshot(p) PROVE UNCHANGED listed
  BY <1>3 DEF start_snapshot, filevars, Run
<1>4. ASSUME NEW p \in Procs, OpenRollout(p) PROVE UNCHANGED listed
  BY <1>4 DEF OpenRollout, filevars, Run, At
<1>5. ASSUME NEW p \in Procs, normalize_and_ingest_rollout(p) PROVE UNCHANGED listed
  BY <1>5 DEF normalize_and_ingest_rollout, At, Step, Run
<1>6. ASSUME NEW p \in Procs, NEW t \in Threads, source_fingerprint(p, t)
      PROVE  UNCHANGED listed
  BY <1>6 DEF source_fingerprint, filevars, Run, At
<1>7. ASSUME NEW p \in Procs, atomic_write_source_index(p) PROVE UNCHANGED listed
  BY <1>7 DEF atomic_write_source_index, At, Done, Step, Run
<1>8. ASSUME NEW p \in Procs, build_v4_snapshot_root(p) PROVE UNCHANGED listed
  BY <1>8 DEF build_v4_snapshot_root, At, Step, Run
<1>9. ASSUME NEW p \in Procs, NEW s \in SnapshotIds, update_snapshot_metadata(p, s)
      PROVE  UNCHANGED listed
  BY <1>9 DEF update_snapshot_metadata
<1>10. ASSUME NEW p \in Procs, NEW s \in SnapshotIds, validate_local_snapshot(p, s)
       PROVE  UNCHANGED listed
  BY <1>10 DEF validate_local_snapshot, filevars, Run
<1>11. ASSUME NEW p \in Procs, EndRead(p) PROVE UNCHANGED listed
  BY <1>11 DEF EndRead, filevars, At, Done, Run
<1>12. ASSUME NEW p \in Procs, load_revision_root(p) PROVE UNCHANGED listed
  BY <1>12 DEF load_revision_root, Run
<1>13. ASSUME NEW p \in Procs, download_revision_graph(p) PROVE UNCHANGED listed
  BY <1>13 DEF download_revision_graph, At, Step, Run
<1>14. ASSUME NEW p \in Procs, EndDownload(p) PROVE UNCHANGED listed
  BY <1>14 DEF EndDownload, filevars, Done, Run
<1>15. ASSUME NEW p \in Procs, NEW s \in SnapshotIds, plan_snapshot_deletion(p, s)
       PROVE  UNCHANGED listed
  BY <1>15 DEF plan_snapshot_deletion, filevars
<1>16. ASSUME NEW p \in Procs, trash_local_snapshot(p) PROVE UNCHANGED listed
  BY <1>16 DEF trash_local_snapshot, Run
<1>17. ASSUME NEW p \in Procs, RestoreStep(p) PROVE UNCHANGED listed
  BY <1>17 DEF RestoreStep, At, Done, Run
<1>18. ASSUME NEW p \in Procs, plan_local_gc(p) PROVE UNCHANGED listed
  BY <1>18 DEF plan_local_gc, filevars
<1>19. ASSUME NEW p \in Procs, quarantine_local_gc_plan(p) PROVE UNCHANGED listed
  BY <1>19 DEF quarantine_local_gc_plan, filevars, Run
<1>20. ASSUME NEW p \in Procs, MoveToQuarantine(p) PROVE UNCHANGED listed
  BY <1>20 DEF MoveToQuarantine, At, Done, Run
<1>21. ASSUME NEW p \in Procs, start_purge(p) PROVE UNCHANGED listed
  BY <1>21 DEF start_purge, filevars, Run
<1>22. ASSUME NEW p \in Procs, recover_local_trash_purges(p) PROVE UNCHANGED listed
  BY <1>22 DEF recover_local_trash_purges, filevars, At, Step, Run
<1>23. ASSUME NEW p \in Procs, plan_local_trash_purge(p) PROVE UNCHANGED listed
  BY <1>23 DEF plan_local_trash_purge, At, Step, Done, Run
<1>24. ASSUME NEW p \in Procs, purge_local_trash(p) PROVE UNCHANGED listed
  BY <1>24 DEF purge_local_trash, At, Step, Run
<1>25. ASSUME NEW p \in Procs, rollback_local_trash_purge(p) PROVE UNCHANGED listed
  BY <1>25 DEF rollback_local_trash_purge, At, Step, Done, Run
<1>26. ASSUME NEW p \in Procs, finish_local_trash_purge(p) PROVE UNCHANGED listed
  BY <1>26 DEF finish_local_trash_purge, At, Step, Done, Run
<1>27. ASSUME NEW p \in Procs, export_treasure_to_vault(p) PROVE UNCHANGED listed
  BY <1>27 DEF export_treasure_to_vault
<1>28. ASSUME NEW p \in Procs, trash_treasure(p) PROVE UNCHANGED listed
  BY <1>28 DEF trash_treasure
<1>29. ASSUME NEW p \in Procs, start_treasure_import(p) PROVE UNCHANGED listed
  BY <1>29 DEF start_treasure_import, filevars, Run
<1>30. ASSUME NEW p \in Procs, import_treasure_as_snapshot(p) PROVE UNCHANGED listed
  BY <1>30 DEF import_treasure_as_snapshot, At, Step, Run
<1>31. ASSUME NEW p \in Procs, JobFails(p) PROVE UNCHANGED listed
  BY <1>31 DEF JobFails, filevars, At, Done, Run
<1>32. ASSUME Decline PROVE UNCHANGED listed
  BY <1>32 DEF Decline, filevars
<1>33. ASSUME Crash PROVE UNCHANGED listed
  BY <1>33 DEF Crash, filevars
<1>34. ASSUME NEW p \in Procs, write_v4_snapshot(p)
       PROVE  (\E q \in Procs : TrashStep(q) /\ job[q].at = "manifest") \/ listed \subseteq listed'
  BY <1>34 DEF write_v4_snapshot, NewSnapshot
<1>35. ASSUME NEW p \in Procs, download_remote_revision_as_snapshot(p)
       PROVE  (\E q \in Procs : TrashStep(q) /\ job[q].at = "manifest") \/ listed \subseteq listed'
  BY <1>35 DEF download_remote_revision_as_snapshot, NewSnapshot
<1>36. ASSUME NEW p \in Procs, TrashStep(p)
       PROVE  (\E q \in Procs : TrashStep(q) /\ job[q].at = "manifest") \/ listed \subseteq listed'
  BY <1>36 DEF TrashStep
<1>37. ASSUME NEW p \in Procs, NEW o \in TrashIds, restore_trashed_snapshot(p, o)
       PROVE  (\E q \in Procs : TrashStep(q) /\ job[q].at = "manifest") \/ listed \subseteq listed'
  BY <1>37 DEF restore_trashed_snapshot, MoveManifest
<1>38. ASSUME NEW p \in Procs, WriteImportedRoot(p)
       PROVE  (\E q \in Procs : TrashStep(q) /\ job[q].at = "manifest") \/ listed \subseteq listed'
  BY <1>38 DEF WriteImportedRoot, NewSnapshot
<1>39. ASSUME UNCHANGED vars PROVE UNCHANGED listed
  BY <1>39 DEF vars, filevars
<1>40. QED
  BY <1>1, <1>2, <1>3, <1>4, <1>5, <1>6, <1>7, <1>8, <1>9, <1>10, <1>11, <1>12, <1>13,
     <1>14, <1>15, <1>16, <1>17, <1>18, <1>19, <1>20, <1>21, <1>22, <1>23, <1>24, <1>25,
     <1>26, <1>27, <1>28, <1>29, <1>30, <1>31, <1>32, <1>33, <1>34, <1>35, <1>36, <1>37,
     <1>38, <1>39 DEF Next, SnapshotStep, CleanupStep

(***************************************************************************)
(* No step takes a pinned snapshot out of the list: trash_local_snapshot   *)
(* looks at the pin under its exclusive lease, and nobody can set it until *)
(* the manifest has been moved.                                            *)
(***************************************************************************)
THEOREM PinsProtect == Spec => PinnedStaysListed
<1>1. RepositoryInv /\ [Next]_vars => \A s \in listed : s \in pinned => s \in listed'
  <2> SUFFICES ASSUME RepositoryInv, [Next]_vars, NEW s \in listed, s \in pinned
               PROVE  s \in listed'
    OBVIOUS
  <2>1. ASSUME NEW q \in Procs, TrashStep(q), job[q].at = "manifest" PROVE s \in listed'
    <3>1. job[q].kind = "trash" /\ listed' = listed \ {trash[job[q].dir].snap}
      BY <2>1 DEF TrashStep, MoveManifest
    <3>2. trash[job[q].dir].snap \notin pinned
      BY <3>1 DEF RepositoryInv, Trashing, TrashOK
    <3>3. QED
      BY <3>1, <3>2
  <2>2. QED
    BY <2>1, ListLeaves
<1>2. QED
  BY <1>1, RepositoryInvariant, PTL DEF Spec, PinnedStaysListed

LEMMA NewestRoot ==
    ASSUME RepositoryInv, NEW f \in Contents, NewSnapshot(f)
    PROVE  roots'[Greatest(DOMAIN roots')] = f
<1>1. PICK s \in SnapshotIds \ DOMAIN roots :
        /\ DOMAIN roots' = DOMAIN roots \cup {s} /\ roots'[s] = f
        /\ \A r \in DOMAIN roots : r < s
  BY NewSnapshotFacts DEF RepositoryInv, Typing
<1>2. s \in Nat /\ \A r \in DOMAIN roots : r \in Nat
  BY Constants DEF RepositoryInv, Typing, RootTyping
<1>3. s \in DOMAIN roots' /\ \A r \in DOMAIN roots' : r \in Nat /\ r <= s
  BY <1>1, <1>2
<1>4. Greatest(DOMAIN roots') \in DOMAIN roots' /\ s <= Greatest(DOMAIN roots')
  BY <1>3 DEF Greatest
<1>5. Greatest(DOMAIN roots') = s
  BY <1>2, <1>3, <1>4
<1>6. QED
  BY <1>1, <1>5

(***************************************************************************)
(* A snapshot of the Home holds no conversation older than it was when     *)
(* create_local_snapshot or create_selection_snapshot started, although    *)
(* contents may come from the source index and Codex edits meanwhile.      *)
(***************************************************************************)
THEOREM SnapshotsHoldWhatWasThere == Spec => SnapshotsAreCurrent
<1>1. RepositoryInv /\ [Next]_vars =>
        \A p \in Procs :
          (At(p, "snapshot", "root") /\ job'[p] # job[p] /\ roots' # roots) =>
            \A t \in job[p].selected : roots'[Greatest(DOMAIN roots')][t] >= job[p].base[t]
  <2> SUFFICES ASSUME RepositoryInv, [Next]_vars, NEW p \in Procs, At(p, "snapshot", "root"),
                      job'[p] # job[p], roots' # roots, NEW t \in job[p].selected
               PROVE  roots'[Greatest(DOMAIN roots')][t] >= job[p].base[t]
    OBVIOUS
  <2>1. job[p].kind = "snapshot" /\ job[p].at = "root"
    BY DEF At
  <2>2. ASSUME NEW q \in Procs, q # p, Done(q) PROVE FALSE
    BY <2>2 DEF Done, Run, RepositoryInv, Typing, JobTyping
  <2>3. write_v4_snapshot(p)
    <3>1. PICK q \in Procs : \/ write_v4_snapshot(q) \/ download_remote_revision_as_snapshot(q)
                             \/ WriteImportedRoot(q)
      BY RootWriters
    <3>2. Done(q)
      BY <3>1 DEF write_v4_snapshot, download_remote_revision_as_snapshot, WriteImportedRoot
    <3>3. q = p
      BY <2>2, <3>2
    <3>4. QED
      BY <2>1, <3>1, <3>3 DEF download_remote_revision_as_snapshot, WriteImportedRoot, At
  <2>4. Selected(p) \in Contents /\ Ingested(job[p])
    BY <2>1, BuildFacts DEF RepositoryInv, Typing
  <2>5. roots'[Greatest(DOMAIN roots')] = Selected(p)
    BY <2>3, <2>4, NewestRoot DEF write_v4_snapshot
  <2>6. job[p].selected \subseteq Threads
    BY <2>1, JobShapes DEF RepositoryInv, Typing, SnapshotJobs
  <2>7. DOMAIN job[p].contents = Threads /\ DOMAIN job[p].fingerprint = Threads
    BY <2>1, <2>4 DEF Ingested
  <2>8. Selected(p)[t] = job[p].contents[t]
    BY <2>6, <2>7 DEF Selected, Restrict
  <2>9. /\ job[p].base[t] <= job[p].fingerprint[t] /\ job[p].fingerprint[t] <= job[p].contents[t]
        /\ job[p].base[t] \in Nat /\ job[p].fingerprint[t] \in Nat /\ job[p].contents[t] \in Nat
    BY <2>1, <2>6, <2>7, ReadTyped DEF ReadOK
  <2>10. QED
    BY <2>5, <2>8, <2>9
<1>2. QED
  BY <1>1, RepositoryInvariant, PTL DEF Spec, SnapshotsAreCurrent

(***************************************************************************)
(* SnapshotShelf, the promise.  The mapping in terms of the list, the bin  *)
(* and the roots.                                                          *)
(***************************************************************************)
ShelfView ==
    /\ Shelf = [s \in SnapshotIds |-> Shelf[s]] /\ Kept = [s \in SnapshotIds |-> Kept[s]]
    /\ listed \subseteq DOMAIN roots /\ Bin \subseteq DOMAIN roots
    /\ DOMAIN roots \subseteq SnapshotIds
    /\ \A s \in SnapshotIds :
         /\ s \notin DOMAIN roots => Shelf[s] = "absent" /\ Kept[s] = None
         /\ s \in DOMAIN roots => Kept[s] = roots[s]
         /\ s \in listed => Shelf[s] = "listed"
         /\ s \in Bin \ listed => Shelf[s] = "trashed"
         /\ s \in DOMAIN roots \ (listed \cup Bin) => Shelf[s] = "deleted"

LEMMA ShelfFacts == RepositoryInv => ShelfView
<1> SUFFICES ASSUME RepositoryInv PROVE ShelfView
  OBVIOUS
<1>1. /\ listed \subseteq DOMAIN roots /\ Bin \subseteq DOMAIN roots
      /\ DOMAIN roots \subseteq SnapshotIds
  BY DEF Bin, Restorable, RepositoryInv, Typing, RootTyping
<1>2. \A s : s \in Bin <=> \E o \in TrashIds : /\ Restorable(o) /\ trash[o].entry
                                               /\ trash[o].snap = s
  <2>1. \A o \in TrashIds : Restorable(o) => trash[o].entry
    BY DEF Restorable, RepositoryInv, Entered
  <2>2. QED
    BY <2>1, BinFacts
<1>3. \A s \in SnapshotIds :
        Shelf[s] = IF s \notin DOMAIN roots THEN "absent"
                   ELSE IF s \in listed THEN "listed"
                   ELSE IF s \in Bin THEN "trashed" ELSE "deleted"
  BY <1>2 DEF Shelf
<1>4. \A s \in SnapshotIds : Kept[s] = IF s \in DOMAIN roots THEN roots[s] ELSE None
  BY DEF Kept
<1>5. Shelf = [s \in SnapshotIds |-> Shelf[s]] /\ Kept = [s \in SnapshotIds |-> Kept[s]]
  BY DEF Shelf, Kept
<1>6. QED
  BY <1>1, <1>3, <1>4, <1>5 DEF ShelfView

LEMMA KeptSame == ASSUME UNCHANGED roots PROVE UNCHANGED Kept
  BY DEF Kept

\* A step maps to one of the promise, or to none.
LEMMA ShelfRefines ==
    ASSUME RepositoryInv, ShelfView, ShelfView', [Next]_vars
    PROVE  [PromisedShelf!ShelfNext]_<<Shelf, Kept>>
<1>a. /\ Shelf = [s \in SnapshotIds |-> Shelf[s]] /\ Kept = [s \in SnapshotIds |-> Kept[s]]
      /\ listed \subseteq DOMAIN roots /\ Bin \subseteq DOMAIN roots
      /\ DOMAIN roots \subseteq SnapshotIds
      /\ \A s \in SnapshotIds :
           /\ s \notin DOMAIN roots => Shelf[s] = "absent" /\ Kept[s] = None
           /\ s \in DOMAIN roots => Kept[s] = roots[s]
           /\ s \in listed => Shelf[s] = "listed"
           /\ s \in Bin \ listed => Shelf[s] = "trashed"
           /\ s \in DOMAIN roots \ (listed \cup Bin) => Shelf[s] = "deleted"
  BY DEF ShelfView
<1>b. /\ Shelf' = [s \in SnapshotIds |-> Shelf'[s]] /\ Kept' = [s \in SnapshotIds |-> Kept'[s]]
       /\ listed' \subseteq DOMAIN roots' /\ Bin' \subseteq DOMAIN roots'
       /\ DOMAIN roots' \subseteq SnapshotIds
       /\ \A s \in SnapshotIds :
            /\ s \notin DOMAIN roots' => Shelf'[s] = "absent" /\ Kept'[s] = None
            /\ s \in DOMAIN roots' => Kept'[s] = roots'[s]
            /\ s \in listed' => Shelf'[s] = "listed"
            /\ s \in Bin' \ listed' => Shelf'[s] = "trashed"
            /\ s \in DOMAIN roots' \ (listed' \cup Bin') => Shelf'[s] = "deleted"
  BY DEF ShelfView
<1>1. CASE Creates
  <2>1. PICK s \in SnapshotIds \ DOMAIN roots, f \in Contents :
          roots' = Extend(roots, s, f) /\ listed' = listed \cup {s} /\ Bin' = Bin
    BY <1>1 DEF Creates
  <2>2. /\ DOMAIN roots' = DOMAIN roots \cup {s} /\ roots'[s] = f
        /\ \A r \in DOMAIN roots : roots'[r] = roots[r]
    BY <2>1 DEF Extend
  <2>3. Shelf' = [Shelf EXCEPT ![s] = "listed"]
    <3>1. \A r \in SnapshotIds : Shelf'[r] = IF r = s THEN "listed" ELSE Shelf[r]
      BY <1>a, <1>b, <2>1, <2>2
    <3>2. QED
      BY <1>a, <1>b, <3>1
  <2>4. Kept' = [Kept EXCEPT ![s] = f]
    <3>1. \A r \in SnapshotIds : Kept'[r] = IF r = s THEN f ELSE Kept[r]
      BY <1>a, <1>b, <2>1, <2>2
    <3>2. QED
      BY <1>a, <1>b, <3>1
  <2>5. PromisedShelf!Create(s, f)
    BY <1>a, <2>1, <2>3, <2>4 DEF PromisedShelf!Create
  <2>6. QED
    BY <2>5 DEF PromisedShelf!ShelfNext
<1>2. CASE Discards
  <2>1. PICK s \in listed : /\ listed' = listed \ {s} /\ Bin' = Bin \cup {s}
                            /\ UNCHANGED roots
    BY <1>2 DEF Discards
  <2>2. \A r \in SnapshotIds : Shelf'[r] = IF r = s THEN "trashed" ELSE Shelf[r]
    BY <1>a, <1>b, <2>1
  <2>3. Shelf' = [Shelf EXCEPT ![s] = "trashed"]
    BY <1>a, <1>b, <2>2
  <2>4. PromisedShelf!Discard(s)
    BY <1>a, <2>1, <2>3, KeptSame DEF PromisedShelf!Discard
  <2>5. QED
    BY <1>a, <2>1, <2>4 DEF PromisedShelf!ShelfNext
<1>3. CASE PutsBack
  <2>1. PICK s \in Bin \ listed : /\ listed' = listed \cup {s} /\ Bin \ {s} \subseteq Bin'
                                  /\ Bin' \subseteq Bin /\ UNCHANGED roots
    BY <1>3 DEF PutsBack
  <2>2. \A r \in SnapshotIds : Shelf'[r] = IF r = s THEN "listed" ELSE Shelf[r]
    BY <1>a, <1>b, <2>1
  <2>3. Shelf' = [Shelf EXCEPT ![s] = "listed"]
    BY <1>a, <1>b, <2>2
  <2>4. PromisedShelf!PutBack(s)
    BY <1>a, <2>1, <2>3, KeptSame DEF PromisedShelf!PutBack
  <2>5. QED
    BY <1>a, <2>1, <2>4 DEF PromisedShelf!ShelfNext
<1>4. CASE Bin' \subseteq Bin /\ UNCHANGED <<roots, listed>>
  <2> DEFINE doomed == (Bin \ Bin') \ listed
  <2>1. doomed \in SUBSET SnapshotIds /\ \A s \in doomed : Shelf[s] = "trashed"
    BY <1>a
  <2>2. \A r \in SnapshotIds : Shelf'[r] = IF r \in doomed THEN "deleted" ELSE Shelf[r]
    BY <1>a, <1>b, <1>4
  <2>3. Shelf' = [s \in SnapshotIds |-> IF s \in doomed THEN "deleted" ELSE Shelf[s]]
    <3> HIDE DEF doomed
    <3>1. QED
      BY <1>a, <1>b, <2>2
  <2>4. PromisedShelf!Destroy(doomed)
    BY <1>4, <2>1, <2>3, KeptSame DEF PromisedShelf!Destroy
  <2> HIDE DEF doomed
  <2>5. QED
    BY <2>1, <2>4 DEF PromisedShelf!ShelfNext
<1>5. Creates \/ Discards \/ PutsBack \/ (Bin' \subseteq Bin /\ UNCHANGED <<roots, listed>>)
  BY ShelfSteps DEF ShelfStep, Destroys, Leaves
<1>6. QED
  BY <1>1, <1>2, <1>3, <1>4, <1>5

LEMMA ShelfStart == Init => PromisedShelf!ShelfInit
<1> SUFFICES ASSUME Init PROVE PromisedShelf!ShelfInit
  OBVIOUS
<1>1. DOMAIN roots = {}
  BY EmptyContents DEF Init
<1>2. Shelf = [s \in SnapshotIds |-> "absent"] /\ Kept = [s \in SnapshotIds |-> None]
  BY <1>1 DEF Shelf, Kept
<1>3. QED
  BY <1>2 DEF PromisedShelf!ShelfInit

(***************************************************************************)
(* The repository implements SnapshotShelf: the renames of one manifest or *)
(* directory at a time, the journal of a purge and its recovery add up to  *)
(* snapshots that move whole, keep their contents, and are deleted only    *)
(* from the trash, together with the other entries of the same request.    *)
(***************************************************************************)
THEOREM RepositoryKeepsThePromise == Spec => ImplementsShelf
<1>1. RepositoryInv /\ ShelfView /\ ShelfView' /\ [Next]_vars =>
        [PromisedShelf!ShelfNext]_<<Shelf, Kept>>
  BY ShelfRefines
<1>2. QED
  BY <1>1, ShelfStart, ShelfFacts, RepositoryInvariant, PTL
     DEF Spec, ImplementsShelf, PromisedShelf!ShelfSpec

=============================================================================
