--------------------------- MODULE LocalRepository ---------------------------
(***************************************************************************)
(* The local v4 repository of sync-core (storage_v4.rs, the live parts of  *)
(* storage_v3.rs, local.rs and treasure.rs) under the leases of the        *)
(* desktop's job manager (jobs.rs).                                        *)
(*                                                                         *)
(* Contents are versions of conversations.  Version v of thread t is made  *)
(* of the chunks 0..v, so two versions share chunks, a manifest that names *)
(* the chunks and a descriptor that names the manifest.  A snapshot root   *)
(* names descriptors and an overlay, a revision root only descriptors.     *)
(* Every object installed, every rename and every journal write is a step  *)
(* of its own; a job that fails, is cancelled or dies stops between two.   *)
(***************************************************************************)
EXTENDS Integers, FiniteSets, Functions

CONSTANTS Threads,
          Procs,            \* the jobs and commands that run at the same time
          MaxVersion,       \* edits Codex makes to a conversation
          MaxSnapshots, MaxTrash, MaxTreasures,
          MaxSide,          \* pins, downloads and treasure exports, together
          MaxFaults,        \* crashes, and jobs that fail or are cancelled
          None,
          CollectsUnrecovered \* may GC run while an interrupted purge is unfinished?

Version == 0..MaxVersion
SnapshotIds == 1..MaxSnapshots
TrashIds == 1..MaxTrash
TreasureIds == 1..MaxTreasures
Contents == UNION {[S -> Version] : S \in SUBSET Threads}

Object == ({"chunk", "manifest", "thread"} \X Threads \X Version)
            \cup ({"overlay", "root"} \X Contents)
IndexEntry == [fingerprint : Version, content : Version]
TrashDir == [snap : SnapshotIds, entry : BOOLEAN, manifest : BOOLEAN, staged : BOOLEAN]
PurgeJournal == [status : {"Preparing", "EntriesStaged", "Committed", "ObjectsStaged"},
                 ops : SUBSET TrashIds, candidates : SUBSET Object]

ASSUME RepositoryAssumption ==
    /\ IsFiniteSet(Threads) /\ Threads # {} /\ Procs # {}
    /\ {MaxVersion, MaxSnapshots, MaxTrash, MaxTreasures, MaxSide, MaxFaults} \subseteq Nat
    /\ CollectsUnrecovered \in BOOLEAN
    /\ None \notin Contents \cup IndexEntry \cup TrashDir \cup PurgeJournal

VARIABLES home,     \* the version of each conversation in the Codex Home
          objects,  \* the object files
          index,    \* source-objects-v4.json: fingerprint and content of a rollout
          roots,    \* the contents of every snapshot ever written
          listed,   \* the snapshots whose manifest is in snapshots/
          pinned,   \* the snapshots whose metadata file has the pin
          trash,    \* the directories of trash/snapshots and of a purge's staging
          journal,  \* the journal of an unfinished purge, or None
          vault,    \* the treasure files
          plan,     \* the plan the user is asked to confirm, or None
          job,      \* what each process does
          left      \* what is left of the bounds

filevars == <<objects, index, roots, listed, pinned, trash, journal, vault>>
vars == <<home, filevars, plan, job, left>>

\* A behaviour has side operations or faults, to bound the state space.
Spend(what) ==
    /\ left[what] > 0
    /\ left' = [x \in DOMAIN left |-> IF x = what THEN left[x] - 1 ELSE 0]

Idle == [kind |-> "idle", lease |-> "none"]

(***************************************************************************)
(* Objects and their graphs.                                               *)
(***************************************************************************)
Chunks(t, v) == {<<"chunk", t, i>> : i \in 0..v}
ChunkManifest(t, v) == <<"manifest", t, v>>
Descriptor(t, v) == <<"thread", t, v>>
Overlay(f) == <<"overlay", f>>
RevisionRoot(f) == <<"root", f>>

content_objects(t, v) == Chunks(t, v) \cup {ChunkManifest(t, v)}
ThreadGraph(f) ==
    UNION {content_objects(t, f[t]) \cup {Descriptor(t, f[t])} : t \in DOMAIN f}
collect_snapshot_graph_objects(f) == ThreadGraph(f) \cup {Overlay(f)}
collect_revision_graph_objects(f) == ThreadGraph(f) \cup {RevisionRoot(f)}

\* Walking a graph opens descriptors and manifests; chunks are only named.
Walkable(f) ==
    \A t \in DOMAIN f : {Descriptor(t, f[t]), ChunkManifest(t, f[t])} \subseteq objects

content_objects_present(t, v) == content_objects(t, v) \subseteq objects

StoredRevisions == {o[2] : o \in {x \in objects : x[1] = "root"}}

(***************************************************************************)
(* The trash directories.  load_local_trash_roots_v4 fails as a whole on a *)
(* directory that lacks its entry or its manifest.                         *)
(***************************************************************************)
InTrash == {o \in TrashIds : trash[o] # None /\ ~ trash[o].staged}
load_local_trash_roots == \A o \in InTrash : trash[o].entry /\ trash[o].manifest

RootsReadable ==
    /\ load_local_trash_roots
    /\ \A s \in listed : Walkable(roots[s]) /\ Overlay(roots[s]) \in objects
    /\ \A o \in InTrash :
         Walkable(roots[trash[o].snap]) /\ Overlay(roots[trash[o].snap]) \in objects
    /\ \A f \in StoredRevisions : Walkable(f)

collect_reachable_objects(excluded) ==
    UNION ({collect_snapshot_graph_objects(roots[s]) : s \in listed}
             \cup {collect_snapshot_graph_objects(roots[trash[o].snap]) :
                     o \in InTrash \ excluded}
             \cup {collect_revision_graph_objects(f) : f \in StoredRevisions})

RemoteKinds == {o \in objects : o[1] # "overlay"}

(***************************************************************************)
(* jobs.rs: the lease table of the one process that runs the jobs.         *)
(***************************************************************************)
Holds(p, lease) == job[p].lease = lease
HomeFree == \A p \in Procs : job[p].kind \notin {"snapshot", "download"}

try_acquire_repository_Slip(p, exclusive) ==
    /\ job[p].kind = "idle"
    /\ ~ \E q \in Procs : Holds(q, "exclusive")
try_acquire_repository(p, exclusive) ==
    /\ job[p].kind = "idle"
    /\ ~ \E q \in Procs : Holds(q, "exclusive")
    /\ exclusive => ~ \E q \in Procs : Holds(q, "shared")

Run(p, j) == job' = [job EXCEPT ![p] = j]
Done(p) == Run(p, Idle)
At(p, kind, step) == job[p].kind = kind /\ job[p].at = step
Step(p, step) == Run(p, [job[p] EXCEPT !.at = step])

install_bytes(os) == objects' = objects \cup os

(***************************************************************************)
(* Snapshots: create_local_snapshot, create_selection_snapshot and, with   *)
(* no selection, prepare_workspace_snapshot, which stops before the root.  *)
(* The job holds the home lease and a shared lease.  Codex may be started  *)
(* and edit a conversation while it runs.                                  *)
(***************************************************************************)
EditThread(t) ==
    /\ home[t] < MaxVersion
    /\ home' = [home EXCEPT ![t] = @ + 1]
    /\ UNCHANGED <<filevars, plan, job, left>>

SnapshotJob(selected) ==
    [kind |-> "snapshot", lease |-> "shared", at |-> "thread", selected |-> selected,
     todo |-> Threads, fingerprint |-> <<>>, contents |-> <<>>, base |-> home]

start_snapshot(p) ==
    /\ HomeFree
    /\ try_acquire_repository(p, FALSE)
    /\ \E selected \in SUBSET Threads : Run(p, SnapshotJob(selected))
    /\ UNCHANGED <<home, filevars, plan, left>>

\* The user declines what a plan shows.
Decline ==
    /\ plan # None
    /\ \A p \in Procs : job[p].kind # "purge"
    /\ plan' = None
    /\ UNCHANGED <<home, filevars, job, left>>

Extend(f, t, v) == [x \in DOMAIN f \cup {t} |-> IF x = t THEN v ELSE f[x]]

\* source_fingerprint_v4 and the lookup of the trusted index.
Cached_Slip(t) == index[t] # None /\ content_objects_present(t, index[t].content)
Cached(t) ==
    /\ index[t] # None
    /\ index[t].fingerprint = home[t]
    /\ content_objects_present(t, index[t].content)

source_fingerprint(p, t) ==
    /\ At(p, "snapshot", "thread")
    /\ t \in job[p].todo
    /\ Run(p, [job[p] EXCEPT
              !.fingerprint = Extend(@, t, home[t]),
              !.contents = IF Cached(t) THEN Extend(@, t, index[t].content) ELSE @,
              !.todo = @ \ {t},
              !.at = IF Cached(t) THEN "thread" ELSE "read"])
    /\ UNCHANGED <<home, filevars, plan, left>>

\* The rollout is opened after its fingerprint was taken.
Unread(p) == DOMAIN job[p].fingerprint \ DOMAIN job[p].contents

OpenRollout(p) ==
    /\ At(p, "snapshot", "read")
    /\ \E t \in Unread(p) :
         Run(p, [job[p] EXCEPT !.contents = Extend(@, t, home[t]), !.at = "install"])
    /\ UNCHANGED <<home, filevars, plan, left>>

\* normalize_and_ingest_rollout: the chunks one by one, then the manifest.
Missing(p) == {t \in DOMAIN job[p].contents :
                 ~ content_objects_present(t, job[p].contents[t])}
Lacking(t, v) == Chunks(t, v) \ objects
normalize_and_ingest_rollout(p) ==
    /\ At(p, "snapshot", "install")
    /\ \/ \E t \in Missing(p) :
            LET v == job[p].contents[t] IN
            /\ \/ \E c \in Lacking(t, v) :
                    (\A d \in Lacking(t, v) : c[3] <= d[3]) /\ install_bytes({c})
               \/ Lacking(t, v) = {} /\ install_bytes({ChunkManifest(t, v)})
            /\ UNCHANGED job
       \/ Missing(p) = {} /\ Step(p, "thread") /\ UNCHANGED objects
    /\ UNCHANGED <<home, index, roots, listed, pinned, trash, journal, vault, plan, left>>

atomic_write_source_index_Slip(p) ==
    /\ At(p, "snapshot", "thread")
    /\ job[p].todo = {}
    /\ index' = [t \in Threads |-> [fingerprint |-> home[t], content |-> job[p].contents[t]]]
    /\ IF job[p].selected = {} THEN Done(p) ELSE Step(p, "build")
    /\ UNCHANGED <<home, objects, roots, listed, pinned, trash, journal, vault, plan, left>>
atomic_write_source_index(p) ==
    /\ At(p, "snapshot", "thread")
    /\ job[p].todo = {}
    /\ index' = [t \in Threads |-> [fingerprint |-> job[p].fingerprint[t],
                                    content |-> job[p].contents[t]]]
    /\ IF job[p].selected = {} THEN Done(p) ELSE Step(p, "build")
    /\ UNCHANGED <<home, objects, roots, listed, pinned, trash, journal, vault, plan, left>>

Selected(p) == Restrict(job[p].contents, job[p].selected)

build_v4_snapshot_root(p) ==
    /\ At(p, "snapshot", "build")
    /\ install_bytes({Descriptor(t, Selected(p)[t]) : t \in job[p].selected}
                       \cup {Overlay(Selected(p))})
    /\ Step(p, "root")
    /\ UNCHANGED <<home, index, roots, listed, pinned, trash, journal, vault, plan, left>>

\* write_v4_root: the manifest of a new snapshot appears in snapshots/.
NewSnapshot(f) ==
    \E s \in SnapshotIds \ DOMAIN roots :
      /\ \A r \in SnapshotIds \ DOMAIN roots : s <= r
      /\ roots' = Extend(roots, s, f)
      /\ listed' = listed \cup {s}

write_v4_snapshot(p) ==
    /\ At(p, "snapshot", "root")
    /\ NewSnapshot(Selected(p))
    /\ Done(p)
    /\ UNCHANGED <<home, objects, index, pinned, trash, journal, vault, plan, left>>

\* Of a metadata file only the pin matters here; a new snapshot's has none.
update_snapshot_metadata(p, s) ==
    /\ try_acquire_repository(p, TRUE)
    /\ s \in listed
    /\ Spend("side")
    /\ pinned' = IF s \in pinned THEN pinned \ {s} ELSE pinned \cup {s}
    /\ UNCHANGED <<home, objects, index, roots, listed, trash, journal, vault, plan, job>>

(***************************************************************************)
(* A job that reads a snapshot under a shared lease: validation, preview,  *)
(* restore into a Home, treasure planning, upload.                         *)
(***************************************************************************)
validate_local_snapshot(p, s) ==
    /\ try_acquire_repository(p, FALSE)
    /\ s \in listed
    /\ Run(p, [kind |-> "read", lease |-> "shared", at |-> "read", snap |-> s])
    /\ UNCHANGED <<home, filevars, plan, left>>

EndRead(p) ==
    /\ At(p, "read", "read")
    /\ Done(p)
    /\ UNCHANGED <<home, filevars, plan, left>>

(***************************************************************************)
(* A revision is downloaded root first, then thread by thread descriptor,  *)
(* manifest and chunks.  The job may end after the root (a push that only  *)
(* compares roots), after the descriptors (the staging plan), after the    *)
(* contents (a pull), or write a snapshot root of what it downloaded.      *)
(***************************************************************************)
Remote == [t \in Threads |-> MaxVersion]

load_revision_root(p) ==
    /\ HomeFree
    /\ try_acquire_repository(p, FALSE)
    /\ Spend("side")
    /\ install_bytes({RevisionRoot(Remote)})
    /\ Run(p, [kind |-> "download", lease |-> "shared", at |-> "thread"])
    /\ UNCHANGED <<home, index, roots, listed, pinned, trash, journal, vault, plan>>

\* The next object of the graph that is not stored yet, in download order.
FirstLacking(os) ==
    LET rank(o) == CASE o[1] = "thread" -> 0 [] o[1] = "manifest" -> 1 [] OTHER -> 2
    IN {o \in os \ objects : \A x \in os \ objects : rank(o) <= rank(x)}

download_revision_graph(p) ==
    /\ At(p, "download", "thread")
    /\ \/ \E t \in Threads :
            \E o \in FirstLacking(ThreadGraph(Restrict(Remote, {t}))) :
              install_bytes({o}) /\ UNCHANGED job
       \/ /\ ThreadGraph(Remote) \subseteq objects
          /\ Step(p, "build")
          /\ UNCHANGED objects
    /\ UNCHANGED <<home, index, roots, listed, pinned, trash, journal, vault, plan, left>>

\* A push, a staging plan and a pull make no snapshot of the revision.
EndDownload(p) ==
    /\ job[p].kind = "download" /\ job[p].at \in {"thread", "build"}
    /\ Done(p)
    /\ UNCHANGED <<home, filevars, plan, left>>

\* store_local_snapshot, after a complete download.
download_remote_revision_as_snapshot(p) ==
    /\ job[p].kind = "download"
    /\ \/ /\ job[p].at = "build"
          /\ install_bytes({Overlay(Remote)})
          /\ Step(p, "root")
          /\ UNCHANGED <<roots, listed>>
       \/ /\ job[p].at = "root"
          /\ NewSnapshot(Remote)
          /\ Done(p)
          /\ UNCHANGED objects
    /\ UNCHANGED <<home, index, pinned, trash, journal, vault, plan, left>>

(***************************************************************************)
(* The trash.  The plan the user confirmed is compared with a new one.     *)
(***************************************************************************)
DeletionPlan(s) == [kind |-> "deletion", snap |-> s, pinned |-> s \in pinned]

plan_snapshot_deletion(p, s) ==
    /\ try_acquire_repository(p, FALSE)
    /\ s \in listed
    /\ plan = None
    /\ plan' = DeletionPlan(s)
    /\ UNCHANGED <<home, filevars, job, left>>

FreeDir == CHOOSE o \in TrashIds : trash[o] = None /\ \A q \in TrashIds : q < o => trash[q] # None

Confirmed(kind) == plan # None /\ plan.kind = kind

MayTrash_Slip == plan.snap \in listed /\ ~ plan.pinned
MayTrash ==
    /\ plan.snap \in listed
    /\ plan = DeletionPlan(plan.snap)
    /\ ~ plan.pinned

\* trash_local_snapshot: the directory, entry.json, then the manifest (and the
\* metadata, of which the model keeps only the pin).
trash_local_snapshot(p) ==
    /\ try_acquire_repository(p, TRUE)
    /\ Confirmed("deletion")
    /\ MayTrash
    /\ \E o \in TrashIds : trash[o] = None
    /\ trash' = [trash EXCEPT ![FreeDir] =
                   [snap |-> plan.snap, entry |-> FALSE, manifest |-> FALSE,
                    staged |-> FALSE]]
    /\ Run(p, [kind |-> "trash", lease |-> "exclusive", at |-> "entry", dir |-> FreeDir])
    /\ plan' = None
    /\ UNCHANGED <<home, objects, index, roots, listed, pinned, journal, vault, left>>

\* fs::rename of a manifest between snapshots/ and its trash directory.
MoveManifest(o, into) ==
    /\ trash' = [trash EXCEPT ![o].manifest = into]
    /\ listed' = IF into THEN listed \ {trash[o].snap} ELSE listed \cup {trash[o].snap}

TrashStep(p) ==
    /\ job[p].kind = "trash"
    /\ \/ /\ job[p].at = "entry"
          /\ trash' = [trash EXCEPT ![job[p].dir].entry = TRUE]
          /\ Step(p, "manifest")
          /\ UNCHANGED listed
       \/ /\ job[p].at = "manifest"
          /\ MoveManifest(job[p].dir, TRUE)
          /\ Done(p)
    /\ UNCHANGED <<home, objects, index, roots, pinned, journal, vault, plan, left>>

\* restore_trashed_snapshot: the manifest, then entry.json.  The directory is
\* removed last, and an error there is ignored.
restore_trashed_snapshot(p, o) ==
    /\ try_acquire_repository(p, TRUE)
    /\ o \in InTrash /\ trash[o].entry /\ trash[o].manifest
    /\ trash[o].snap \notin listed
    /\ MoveManifest(o, FALSE)
    /\ Run(p, [kind |-> "restore", lease |-> "exclusive", at |-> "entry", dir |-> o])
    /\ UNCHANGED <<home, objects, index, roots, pinned, journal, vault, plan, left>>

RestoreStep(p) ==
    /\ At(p, "restore", "entry")
    /\ \E kept \in {None, [trash[job[p].dir] EXCEPT !.entry = FALSE]} :
         trash' = [trash EXCEPT ![job[p].dir] = kept]
    /\ Done(p)
    /\ UNCHANGED <<home, objects, index, roots, listed, pinned, journal, vault, plan, left>>

(***************************************************************************)
(* Garbage collection: a plan under a shared lease, carried out under an   *)
(* exclusive one after it was computed again.  Objects go to trash/gc, from *)
(* where nothing brings them back.                                         *)
(***************************************************************************)
UnfinishedPurge == journal # None
MayCollect == RootsReadable /\ (UnfinishedPurge => CollectsUnrecovered)
Unreachable == RemoteKinds \ collect_reachable_objects({})

plan_local_gc(p) ==
    /\ try_acquire_repository(p, FALSE)
    /\ MayCollect
    /\ plan = None /\ Unreachable # {}
    /\ plan' = [kind |-> "gc", objects |-> Unreachable]
    /\ UNCHANGED <<home, filevars, job, left>>

quarantine_local_gc_plan(p) ==
    /\ try_acquire_repository(p, TRUE)
    /\ Confirmed("gc")
    /\ MayCollect
    /\ Run(p, [kind |-> "gc", lease |-> "exclusive", at |-> "move", todo |-> plan.objects])
    /\ plan' = None
    /\ UNCHANGED <<home, filevars, left>>

\* Objects are moved in the order of their kinds.
Rank(o) == CASE o[1] = "chunk" -> 0 [] o[1] = "manifest" -> 1 [] o[1] = "thread" -> 2
             [] o[1] = "root" -> 3 [] OTHER -> 4
FirstOf(os) == {o \in os : \A x \in os : Rank(o) <= Rank(x)}

\* The loop stops at the first planned object that is no longer unreachable.
StillGarbage(o) == o \in Unreachable

MoveToQuarantine(p) ==
    /\ At(p, "gc", "move")
    /\ \/ \E o \in FirstOf(job[p].todo) :
            /\ StillGarbage(o)
            /\ objects' = objects \ {o}
            /\ Run(p, [job[p] EXCEPT !.todo = @ \ {o}])
       \/ /\ \A o \in FirstOf(job[p].todo) : ~ StillGarbage(o)
          /\ Done(p)
          /\ UNCHANGED objects
    /\ UNCHANGED <<home, index, roots, listed, pinned, trash, journal, vault, plan, left>>

(***************************************************************************)
(* Permanent deletion.  Planning and executing both recover what an        *)
(* earlier purge left, and both compute the plan; the execution compares   *)
(* it with the plan the user confirmed.                                    *)
(***************************************************************************)
PurgeJob(goal, ops) == [kind |-> "purge", lease |-> "exclusive", at |-> "recover",
                        goal |-> goal, ops |-> ops]

start_purge(p) ==
    /\ try_acquire_repository(p, TRUE)
    /\ \/ /\ plan = None
          /\ UnfinishedPurge \/ InTrash # {}
          /\ \E ops \in SUBSET InTrash : Run(p, PurgeJob("plan", ops))
       \/ Confirmed("purge") /\ Run(p, PurgeJob("execute", plan.ops))
    /\ UNCHANGED <<home, filevars, plan, left>>

recover_local_trash_purges_Slip(p) ==
    /\ At(p, "purge", "recover")
    /\ Step(p, IF ~ UnfinishedPurge THEN "plan" ELSE "rollback")
    /\ UNCHANGED <<home, filevars, plan, left>>
recover_local_trash_purges(p) ==
    /\ At(p, "purge", "recover")
    /\ Step(p, IF ~ UnfinishedPurge THEN "plan"
               ELSE IF journal.status \in {"Preparing", "EntriesStaged"} THEN "rollback"
               ELSE "finish")
    /\ UNCHANGED <<home, filevars, plan, left>>

PurgePlan(ops) ==
    [kind |-> "purge", ops |-> ops, candidates |-> objects \ collect_reachable_objects(ops)]

plan_local_trash_purge(p) ==
    /\ At(p, "purge", "plan")
    /\ LET current == PurgePlan(job[p].ops)
           sound == job[p].ops # {} /\ job[p].ops \subseteq InTrash /\ RootsReadable
       IN \/ /\ sound /\ job[p].goal = "plan"
             /\ plan' = current
             /\ Done(p)
             /\ UNCHANGED journal
          \/ /\ sound /\ job[p].goal = "execute" /\ current = plan
             /\ journal' = [status |-> "Preparing", ops |-> plan.ops,
                           candidates |-> plan.candidates]
             /\ plan' = None
             /\ Step(p, "stage")
          \/ /\ ~ sound \/ (job[p].goal = "execute" /\ current # plan)
             /\ plan' = None
             /\ Done(p)
             /\ UNCHANGED journal
    /\ UNCHANGED <<home, objects, index, roots, listed, pinned, trash, vault, left>>

StagedDirs == {o \in journal.ops : trash[o] # None /\ trash[o].staged}
Least(S) == CHOOSE o \in S : \A q \in S : o <= q
Greatest(S) == CHOOSE o \in S : \A q \in S : q <= o
Journal(status) == journal' = [journal EXCEPT !.status = status]
\* RolledBack or Completed: the journal is not acted on again.
Settle == journal' = None

\* purge_local_trash: the entries are staged one by one, then committed.
purge_local_trash(p) ==
    /\ At(p, "purge", "stage")
    /\ \/ /\ StagedDirs # journal.ops
          /\ trash' = [trash EXCEPT ![Least(journal.ops \ StagedDirs)].staged = TRUE]
          /\ UNCHANGED <<journal, job>>
       \/ /\ StagedDirs = journal.ops /\ journal.status = "Preparing"
          /\ Journal("EntriesStaged")
          /\ UNCHANGED <<trash, job>>
       \/ /\ journal.status = "EntriesStaged"
          /\ Journal("Committed")
          /\ Step(p, "finish")
          /\ UNCHANGED trash
    /\ UNCHANGED <<home, objects, index, roots, listed, pinned, vault, plan, left>>

\* rollback_local_trash_purge: in reverse; an error in it ends the job.
rollback_local_trash_purge(p) ==
    /\ At(p, "purge", "rollback")
    /\ \/ /\ StagedDirs # {}
          /\ trash' = [trash EXCEPT ![Greatest(StagedDirs)].staged = FALSE]
          /\ UNCHANGED <<journal, job>>
       \/ /\ StagedDirs = {}
          /\ Settle
          /\ IF job[p].goal = "fail" THEN Done(p) ELSE Step(p, "recover")
          /\ UNCHANGED trash
    /\ UNCHANGED <<home, objects, index, roots, listed, pinned, vault, plan, left>>

Doomed_Slip == journal.candidates \cap objects
Doomed == (journal.candidates \cap objects) \ collect_reachable_objects({})

finish_local_trash_purge(p) ==
    /\ At(p, "purge", "finish")
    /\ \/ /\ RootsReadable /\ Doomed # {}
          /\ \E o \in FirstOf(Doomed) : objects' = objects \ {o}
          /\ UNCHANGED <<index, trash, journal, job>>
       \/ /\ RootsReadable /\ Doomed = {} /\ journal.status = "Committed"
          /\ Journal("ObjectsStaged")
          /\ UNCHANGED <<objects, index, trash, job>>
       \/ /\ RootsReadable /\ journal.status = "ObjectsStaged" /\ StagedDirs # {}
          /\ Doomed = {}
          /\ trash' = [o \in TrashIds |-> IF o \in StagedDirs THEN None ELSE trash[o]]
          /\ UNCHANGED <<objects, index, journal, job>>
       \/ /\ RootsReadable /\ journal.status = "ObjectsStaged" /\ StagedDirs = {}
          /\ Doomed = {}
          /\ index' = [t \in Threads |-> None]
          /\ Settle
          /\ IF job[p].goal = "execute" /\ plan = None THEN Done(p) ELSE Step(p, "recover")
          /\ UNCHANGED <<objects, trash>>
       \/ /\ ~ RootsReadable
          /\ Done(p)
          /\ UNCHANGED <<objects, index, trash, journal>>
    /\ UNCHANGED <<home, roots, listed, pinned, vault, plan, left>>

(***************************************************************************)
(* Treasures: a vault file holds one version of every conversation of its  *)
(* source snapshots, with all their objects, and becomes a snapshot again. *)
(***************************************************************************)
Candidates(sources, t) == {roots[s][t] : s \in {x \in sources : t \in DOMAIN roots[x]}}
choose_candidates(sources) ==
    LET covered == UNION {DOMAIN roots[s] : s \in sources}
    IN {f \in [covered -> Version] : \A t \in covered : f[t] \in Candidates(sources, t)}

\* The bundle is written to a temporary file and renamed into the vault.
export_treasure_to_vault(p) ==
    /\ try_acquire_repository(p, TRUE)
    /\ \E k \in TreasureIds, sources \in (SUBSET listed) \ {{}} :
         /\ vault[k] = None
         /\ \A s \in sources : collect_snapshot_graph_objects(roots[s]) \subseteq objects
         /\ \E f \in choose_candidates(sources) :
              /\ install_bytes({Overlay(f)})
              /\ vault' = [vault EXCEPT ![k] = f]
    /\ Spend("side")
    /\ UNCHANGED <<home, index, roots, listed, pinned, trash, journal, plan, job>>

trash_treasure(p) ==
    /\ try_acquire_repository(p, TRUE)
    /\ \E k \in TreasureIds : vault[k] # None /\ vault' = [vault EXCEPT ![k] = None]
    /\ UNCHANGED <<home, objects, index, roots, listed, pinned, trash, journal, plan, job, left>>

import_treasure_as_snapshot(p) ==
    /\ At(p, "import", "objects")
    /\ install_bytes(collect_snapshot_graph_objects(vault[job[p].treasure]))
    /\ Step(p, "root")
    /\ UNCHANGED <<home, index, roots, listed, pinned, trash, journal, vault, plan, left>>

start_treasure_import(p) ==
    /\ try_acquire_repository(p, TRUE)
    /\ \E k \in TreasureIds :
         /\ vault[k] # None
         /\ Run(p, [kind |-> "import", lease |-> "exclusive", at |-> "objects", treasure |-> k])
    /\ UNCHANGED <<home, filevars, plan, left>>

WriteImportedRoot(p) ==
    /\ At(p, "import", "root")
    /\ NewSnapshot(vault[job[p].treasure])
    /\ Done(p)
    /\ UNCHANGED <<home, objects, index, pinned, trash, journal, vault, plan, left>>

(***************************************************************************)
(* A job fails or is cancelled: its leases are dropped.  Only the staging  *)
(* of a purge has work to do on the way out.                               *)
(***************************************************************************)
JobFails(p) ==
    /\ job[p].kind # "idle"
    /\ Spend("faults")
    /\ IF At(p, "purge", "stage") /\ journal.status = "Preparing"
       THEN Run(p, [job[p] EXCEPT !.at = "rollback", !.goal = "fail"])
       ELSE Done(p)
    /\ UNCHANGED <<home, filevars, plan>>

Crash ==
    /\ Spend("faults")
    /\ job' = [p \in Procs |-> Idle]
    /\ plan' = None
    /\ UNCHANGED <<home, filevars>>

Init ==
    /\ home = [t \in Threads |-> 0]
    /\ objects = {}
    /\ index = [t \in Threads |-> None]
    /\ roots = <<>>
    /\ listed = {}
    /\ pinned = {}
    /\ trash = [o \in TrashIds |-> None]
    /\ journal = None
    /\ vault = [k \in TreasureIds |-> None]
    /\ plan = None
    /\ job = [p \in Procs |-> Idle]
    /\ left = [side |-> MaxSide, faults |-> MaxFaults]

SnapshotStep(p) ==
    \/ start_snapshot(p) \/ OpenRollout(p) \/ normalize_and_ingest_rollout(p)
    \/ \E t \in Threads : source_fingerprint(p, t)
    \/ atomic_write_source_index(p) \/ build_v4_snapshot_root(p) \/ write_v4_snapshot(p)
    \/ \E s \in SnapshotIds : update_snapshot_metadata(p, s) \/ validate_local_snapshot(p, s)
    \/ EndRead(p)
    \/ load_revision_root(p) \/ download_revision_graph(p) \/ EndDownload(p)
    \/ download_remote_revision_as_snapshot(p)

CleanupStep(p) ==
    \/ \E s \in SnapshotIds : plan_snapshot_deletion(p, s)
    \/ trash_local_snapshot(p) \/ TrashStep(p) \/ RestoreStep(p)
    \/ \E o \in TrashIds : restore_trashed_snapshot(p, o)
    \/ plan_local_gc(p) \/ quarantine_local_gc_plan(p) \/ MoveToQuarantine(p)
    \/ start_purge(p) \/ recover_local_trash_purges(p) \/ plan_local_trash_purge(p)
    \/ purge_local_trash(p) \/ rollback_local_trash_purge(p) \/ finish_local_trash_purge(p)
    \/ export_treasure_to_vault(p) \/ trash_treasure(p) \/ start_treasure_import(p)
    \/ import_treasure_as_snapshot(p) \/ WriteImportedRoot(p)

Next ==
    \/ \E t \in Threads : EditThread(t)
    \/ \E p \in Procs : SnapshotStep(p) \/ CleanupStep(p) \/ JobFails(p)
    \/ Decline \/ Crash

Spec == Init /\ [][Next]_vars

-----------------------------------------------------------------------------
(***************************************************************************)
(* Every snapshot the user can open or bring back has all its objects:     *)
(* collect_reachable_objects_v4 decides what may be deleted, while jobs    *)
(* write, a purge is interrupted, and plans grow stale.                    *)
(***************************************************************************)
Restorable(o) ==
    /\ trash[o] # None /\ trash[o].manifest
    /\ trash[o].staged => journal.status \in {"Preparing", "EntriesStaged"}
StoredSnapshotsComplete ==
    /\ \A s \in listed : collect_snapshot_graph_objects(roots[s]) \subseteq objects
    /\ \A o \in TrashIds :
         Restorable(o) => collect_snapshot_graph_objects(roots[trash[o].snap]) \subseteq objects

(***************************************************************************)
(* A job that reads a snapshot under a shared lease finds every object it  *)
(* may still open, whatever other jobs and commands were started meanwhile *)
(* (try_acquire_repository).                                               *)
(***************************************************************************)
LeasedReadsSucceed ==
    \A p \in Procs : job[p].kind = "read" =>
      /\ job[p].snap \in listed
      /\ collect_snapshot_graph_objects(roots[job[p].snap]) \subseteq objects

(***************************************************************************)
(* The trusted source index never vouches for other bytes than the file    *)
(* has: an entry whose fingerprint is the file's names the file's content, *)
(* although Codex may edit the file while the snapshot reads it.           *)
(***************************************************************************)
IndexIsTruthful ==
    \A t \in Threads :
      (index[t] # None /\ index[t].fingerprint = home[t]) => index[t].content = home[t]

(***************************************************************************)
(* A snapshot of the Home holds no conversation older than it was when the *)
(* snapshot was requested.                                                 *)
(***************************************************************************)
SnapshotsAreCurrent ==
    [][\A p \in Procs :
         (At(p, "snapshot", "root") /\ job'[p] # job[p] /\ roots' # roots) =>
           \A t \in job[p].selected : roots'[Greatest(DOMAIN roots')][t] >= job[p].base[t]]_vars

(***************************************************************************)
(* A pinned snapshot stays in the list, even when its deletion was planned *)
(* before it was pinned.                                                   *)
(***************************************************************************)
PinnedStaysListed ==
    [][\A s \in listed : s \in pinned => s \in listed']_vars

(***************************************************************************)
(* The files and journals keep the promise of SnapshotShelf: an entry that *)
(* is staged by a purge is still in the trash until the purge commits, and *)
(* deleted for good from then on.                                          *)
(***************************************************************************)
Shelf ==
    [s \in SnapshotIds |->
       IF s \notin DOMAIN roots THEN "absent"
       ELSE IF s \in listed THEN "listed"
       ELSE IF \E o \in TrashIds : /\ Restorable(o) /\ trash[o].entry
                                   /\ trash[o].snap = s
            THEN "trashed" ELSE "deleted"]
Kept == [s \in SnapshotIds |-> IF s \in DOMAIN roots THEN roots[s] ELSE None]
PromisedShelf == INSTANCE SnapshotShelf WITH
    shelf <- Shelf, contents <- Kept, NoContents <- None
ImplementsShelf == PromisedShelf!ShelfSpec
=============================================================================
