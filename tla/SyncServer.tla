----------------------------- MODULE SyncServer -----------------------------
(***************************************************************************)
(* The sync server process around the metadata store: the content-         *)
(* addressed object files, the rows and edges that describe them, garbage  *)
(* collection with its persistent queue and quarantine, the gc_gate, the   *)
(* request handlers that run concurrently under it, crashes and restarts   *)
(* (apps/sync-server/src/api.rs, object_store.rs, metadata.rs).            *)
(*                                                                         *)
(* A handler is a sequence of awaited effects: a SQLite transaction or a   *)
(* file system call, each run by spawn_blocking.  One action is one effect *)
(* of one handler.  The lock is not a variable: a handler that is neither  *)
(* idle nor orphaned holds gc_gate, for reading or writing by its kind.    *)
(*                                                                         *)
(* An operator named X_Slip is X with a mistake a maintainer could make.   *)
(***************************************************************************)
EXTENDS MetadataStore

CONSTANTS
    Obj,          \* object ids; a revision id is the id of its root object
    Refs,         \* the object ids inside each object (hash links)
    Proc,         \* requests that can be in flight together
    Boot,         \* the start-up sequence, a process of its own
    Disconnects,  \* may a client's disconnect drop its handler's future
    MaxGcOps,     \* bound: garbage collections that enqueue something
    MaxFaults,    \* bound: handlers that fail or are dropped half-way
    MaxCrashes    \* bound: crashes of the server process or machine

ASSUME ServerAssumption ==
    /\ Rev \subseteq Obj
    /\ Refs \in [Obj -> SUBSET Obj]
    /\ Boot \notin Proc
    /\ Disconnects \in BOOLEAN
    /\ {MaxGcOps, MaxFaults, MaxCrashes} \subseteq Nat

GcOp == 1 .. MaxGcOps
Entry == [op : GcOp, obj : Obj]  \* gc_queue rows: one per operation and object
Everyone == Proc \cup {Boot}

VARIABLES
    files,    \* objects with a file in the typed store
    synced,   \* those whose directory entry would survive a power loss
    rows,     \* storage_objects: "none", "fresh" (under an hour), "old"
    edges,    \* object_edges, as the targets of each owner
    queue,    \* gc_queue.state of each entry
    dels,     \* GC operations with delete_after_quarantine = 1
    gcops,    \* GC operations so far
    qfiles,   \* entries whose file is in the gc directory
    pc,       \* the next effect of each handler
    arg,      \* what it is about
    todo,     \* what the handler still has to go through
    orphan,   \* the future was dropped, its submitted effect will still run
    faults, crashes

ovars == <<files, synced, rows, edges>>
gvars == <<queue, dels, gcops, qfiles>>
pvars == <<pc, arg, todo, orphan>>
svars == <<hvars, ovars, gvars, pvars, faults, crashes>>

-----------------------------------------------------------------------------
(* Reachability.                                                           *)

\* The least set that holds S and is closed under the links L.
Reach(L, S) ==
    {o \in Obj : \A T \in SUBSET Obj :
        S \subseteq T /\ (\A x \in T : L[x] \subseteq T) => o \in T}

\* Revisions whose content must be kept: active, or in unexpired trash.
Protected ==
    {r \in roots : \/ rstate[r] = "active"
                   \/ /\ rstate[r] = "trashed"
                      /\ trash[rop[r]].state = "active"
                      /\ rop[r] > lapsed}

\* What the revision roots name, followed through the hash links themselves.
Content(S) == Reach(Refs, S)

reachable_objects == Reach(edges, Protected)

\* build_gc_plan: recorded more than an hour ago and not reachable.
GcPlan == {o \in Obj : rows[o] = "old"} \ reachable_objects

-----------------------------------------------------------------------------
(* Handlers and the gate.                                                  *)

ReadSide == {"put_rename", "put_record", "commit_edges", "commit_sync", "commit_tx"}

Holds(p) == pc[p] # "idle" /\ ~orphan[p]
gate_read(p) ==
    /\ pc[p] = "idle"
    /\ \A q \in Proc : Holds(q) => pc[q] \in ReadSide
gate_write_Slip(p) ==
    /\ pc[p] = "idle"
    /\ \A q \in Proc : Holds(q) => pc[q] \in ReadSide
gate_write(p) ==
    /\ pc[p] = "idle"
    /\ \A q \in Proc : ~Holds(q)

End(p) ==
    /\ pc' = [pc EXCEPT ![p] = "idle"]
    /\ arg' = [arg EXCEPT ![p] = None]
    /\ todo' = [todo EXCEPT ![p] = {}]
    /\ orphan' = [orphan EXCEPT ![p] = FALSE]

\* Await the next effect, unless nobody is left to await it.
Then(p, l, a, t) ==
    IF orphan[p] THEN End(p)
    ELSE /\ pc' = [pc EXCEPT ![p] = l]
         /\ arg' = [arg EXCEPT ![p] = a]
         /\ todo' = [todo EXCEPT ![p] = t]
         /\ UNCHANGED orphan

Begin(p, l, a, t) ==
    /\ Then(p, l, a, t)
    /\ UNCHANGED <<hvars, ovars, gvars, faults, crashes>>

\* put_typed_object: the verified temporary file is renamed into place unless
\* the object is there by now, then its row is recorded.  Clients upload what
\* missing_typed_objects answered; two of them may upload the same object.
StartPut(p, o) == gate_read(p) /\ o \notin files /\ Begin(p, "put_rename", o, {})

PutRename(p) ==
    /\ pc[p] = "put_rename"
    /\ files' = files \cup {arg[p]}
    /\ Then(p, "put_record", arg[p], {})
    /\ UNCHANGED <<hvars, synced, rows, edges, gvars, faults, crashes>>

PutRecord(p) ==
    /\ pc[p] = "put_record"
    /\ rows' = [rows EXCEPT ![arg[p]] = IF @ = "none" THEN "fresh" ELSE @]
    /\ End(p)
    /\ UNCHANGED <<hvars, files, synced, edges, gvars, faults, crashes>>

-----------------------------------------------------------------------------
(* commit_revision_root_v4: walk the graph of the uploaded root, replace    *)
(* the edges of every object that has links, make the directories durable, *)
(* then move the head.                                                     *)

\* The objects it opens below the root: the descriptors the root names, and
\* the manifests, which have links.
Opened(r) == (Refs[r] \cup {o \in Content({r}) : Refs[o] # {}}) \ {r}

StartCommit(p, n, r) ==
    /\ gate_read(p)
    /\ n \in namespaces
    /\ r \in files
    /\ Begin(p, "commit_edges", [rev |-> r, view |-> get_head_state(n)], Opened(r))

\* One descriptor or manifest: it and what it names must have files.
ReplaceEdges_Slip(o) ==
    edges' = [edges EXCEPT ![o] = {t \in Refs[o] : rows[t] # "none"}]
ReplaceEdges(o) == edges' = [edges EXCEPT ![o] = Refs[o]]

CommitEdges(p) ==
    /\ pc[p] = "commit_edges"
    /\ \E o \in todo[p] :
          /\ {o} \cup Refs[o] \subseteq files
          /\ ReplaceEdges(o)
          /\ Then(p, "commit_edges", arg[p], todo[p] \ {o})
    /\ UNCHANGED <<hvars, files, synced, rows, gvars, faults, crashes>>

\* missing_objects: the commit is refused and the client has to upload.
CommitMissing(p) ==
    /\ pc[p] = "commit_edges"
    /\ \E o \in todo[p] : ~({o} \cup Refs[o] \subseteq files)
    /\ End(p)
    /\ UNCHANGED <<hvars, ovars, gvars, faults, crashes>>

RootEdges(p) ==
    /\ pc[p] = "commit_edges"
    /\ todo[p] = {}
    /\ ReplaceEdges(arg[p].rev)
    /\ Then(p, "commit_sync", arg[p], {})
    /\ UNCHANGED <<hvars, files, synced, rows, gvars, faults, crashes>>

sync_revision_graph_directories(r) == synced' = synced \cup (Content({r}) \cap files)

CommitSync(p) ==
    /\ pc[p] = "commit_sync"
    /\ sync_revision_graph_directories(arg[p].rev)
    /\ Then(p, "commit_tx", arg[p], {})
    /\ UNCHANGED <<hvars, files, rows, edges, gvars, faults, crashes>>

\* Created, AlreadyCommitted, or one of the conflicts.
CommitTx(p) ==
    /\ pc[p] = "commit_tx"
    /\ IF Committable(arg[p].view, arg[p].rev)
       THEN commit_revision_root(arg[p].view, arg[p].rev)
       ELSE UNCHANGED hvars
    /\ End(p)
    /\ UNCHANGED <<ovars, gvars, faults, crashes>>

-----------------------------------------------------------------------------
(* truncate_history and restore_history_trash, under the write gate.       *)

StartTruncate(p, n, h) ==
    /\ gate_write(p)
    /\ n \in namespaces
    /\ Begin(p, "truncate_tx", [view |-> get_head_state(n), to |-> h], {})

TruncateTx(p) ==
    /\ pc[p] = "truncate_tx"
    /\ IF nops < MaxOps /\ Truncatable(arg[p].view, arg[p].to)
       THEN truncate_history(arg[p].view, arg[p].to)
       ELSE UNCHANGED hvars
    /\ End(p)
    /\ UNCHANGED <<ovars, gvars, faults, crashes>>

StartRestore(p, n, o) ==
    /\ gate_write(p)
    /\ n \in namespaces
    /\ o <= nops
    /\ Begin(p, "restore_tx", [view |-> get_head_state(n), op |-> o], {})

RestoreTx(p) ==
    /\ pc[p] = "restore_tx"
    /\ IF Restorable(arg[p].view, arg[p].op)
       THEN restore_history_trash(arg[p].view, arg[p].op)
       ELSE UNCHANGED hvars
    /\ End(p)
    /\ UNCHANGED <<ovars, gvars, faults, crashes>>

-----------------------------------------------------------------------------
(* quarantine_server_gc and purge_history_trash: enqueue under the write   *)
(* gate, then take the entries through the quarantine one by one.          *)

Enqueue(g, objects) ==
    /\ queue' = [e \in Entry |->
                    IF e.op = g /\ e.obj \in objects THEN "pending" ELSE queue[e]]
    /\ gcops' = g
    /\ UNCHANGED qfiles

StartGc(p) == gate_write(p) /\ Begin(p, "gc_enqueue", None, {})

\* A plan whose fingerprint is still current; an outdated one is a conflict.
EnqueueGc(p) ==
    /\ pc[p] = "gc_enqueue"
    /\ gcops < MaxGcOps
    /\ GcPlan # {}
    /\ Enqueue(gcops + 1, GcPlan)
    /\ Then(p, "gc_next", None, [op : {gcops + 1}, obj : GcPlan])
    /\ UNCHANGED <<hvars, ovars, dels, faults, crashes>>

\* Nothing to collect (or the bound on collections is reached).
EnqueueNothing(p) ==
    /\ pc[p] = "gc_enqueue"
    /\ gcops = MaxGcOps \/ GcPlan = {}
    /\ End(p)
    /\ UNCHANGED <<hvars, ovars, gvars, faults, crashes>>

StartPurge(p, n, S) ==
    /\ gate_write(p)
    /\ n \in namespaces
    /\ S # {}
    /\ Begin(p, "purge_tx", [ns |-> n, ops |-> S], {})

\* What the purged roots reach through the recorded edges and has a row...
PurgePlan(n, S) ==
    {o \in Reach(edges, TrashedBy(n, S) \cap roots) : rows[o] # "none"}

\* ...without what other revisions reach, once the purged ones are gone.
PurgeTargets(n, S) == PurgePlan(n, S) \ reachable_objects'

PurgeTx(p) ==
    /\ pc[p] = "purge_tx"
    /\ gcops < MaxGcOps
    /\ Purgeable(arg[p].ns, arg[p].ops)
    /\ UNCHANGED <<ovars, faults, crashes>>
    /\ purge_history_trash(arg[p].ns, arg[p].ops)
    /\ Enqueue(gcops + 1, PurgeTargets(arg[p].ns, arg[p].ops))
    /\ dels' = dels \cup {gcops + 1}
    /\ Then(p, "gc_next", None, [op : {gcops + 1}, obj : PurgeTargets(arg[p].ns, arg[p].ops)])

\* The selection is not active, or other trash depends on it: conflict.
PurgeConflict(p) ==
    /\ pc[p] = "purge_tx"
    /\ gcops = MaxGcOps \/ ~Purgeable(arg[p].ns, arg[p].ops)
    /\ End(p)
    /\ UNCHANGED <<hvars, ovars, gvars, faults, crashes>>

-----------------------------------------------------------------------------
(* process_gc_entries.                                                     *)

\* gc_object_is_reachable, asked again just before the quarantine.
GcRecheck_Slip(p, e) == Then(p, "gc_quarantine", e, todo[p] \ {e})
GcRecheck(p, e) ==
    Then(p, IF e.obj \in reachable_objects THEN "gc_cancel" ELSE "gc_quarantine",
         e, todo[p] \ {e})

GcNext(p) ==
    /\ pc[p] = "gc_next"
    /\ \E e \in todo[p] : GcRecheck(p, e)
    /\ UNCHANGED <<hvars, ovars, gvars, faults, crashes>>

GcDone(p) ==
    /\ pc[p] = "gc_next"
    /\ todo[p] = {}
    /\ IF p = Boot THEN Then(p, "boot_purge", None, {}) ELSE End(p)
    /\ UNCHANGED <<hvars, ovars, gvars, faults, crashes>>

Mark(e, from, to) == queue' = [queue EXCEPT ![e] = IF @ = from THEN to ELSE @]

GcCancel(p) ==
    /\ pc[p] = "gc_cancel"
    /\ Mark(arg[p], "pending", "cancelled")
    /\ Then(p, "gc_next", None, todo[p])
    /\ UNCHANGED <<hvars, ovars, dels, gcops, qfiles, faults, crashes>>

\* The file moves, if it is there: a resumed entry may have been moved before
\* a crash, and an uploaded one may be back.
GcQuarantine(p) ==
    /\ pc[p] = "gc_quarantine"
    /\ LET o == arg[p].obj
       IN  /\ files' = files \ {o}
           /\ synced' = synced \ {o}
           /\ qfiles' = IF o \in files THEN qfiles \cup {arg[p]} ELSE qfiles
    /\ Then(p, "gc_complete", arg[p], todo[p])
    /\ UNCHANGED <<hvars, rows, edges, queue, dels, gcops, faults, crashes>>

complete_gc_entry(e) ==
    /\ edges' = [x \in Obj |-> IF x = e.obj THEN {} ELSE edges[x] \ {e.obj}]
    /\ rows' = [rows EXCEPT ![e.obj] = "none"]
    /\ Mark(e, "pending", "quarantined")

GcComplete(p) ==
    /\ pc[p] = "gc_complete"
    /\ complete_gc_entry(arg[p])
    /\ IF arg[p].op \in dels THEN Then(p, "gc_remove", arg[p], todo[p])
       ELSE Then(p, "gc_next", None, todo[p])
    /\ UNCHANGED <<hvars, files, synced, dels, gcops, qfiles, faults, crashes>>

\* purge_gc_entry: the quarantined file goes, then the entry says so.
GcRemove(p) ==
    /\ pc[p] = "gc_remove"
    /\ qfiles' = qfiles \ {arg[p]}
    /\ Then(p, "gc_mark", arg[p], todo[p])
    /\ UNCHANGED <<hvars, ovars, queue, dels, gcops, faults, crashes>>

GcMark(p) ==
    /\ pc[p] = "gc_mark"
    /\ Mark(arg[p], "quarantined", "purged")
    /\ Then(p, "gc_next", None, todo[p])
    /\ UNCHANGED <<hvars, ovars, dels, gcops, qfiles, faults, crashes>>

-----------------------------------------------------------------------------
(* Start-up: resume_pending_gc runs before the listener serves anything.   *)

Pending == {e \in Entry : queue[e] = "pending"}
Undeleted == {e \in Entry : queue[e] = "quarantined" /\ e.op \in dels}

BootPending(p) ==
    /\ pc[p] = "boot_pending"
    /\ Then(p, "gc_next", None, Pending)
    /\ UNCHANGED <<hvars, ovars, gvars, faults, crashes>>

quarantined_gc_entries_for_purge_Slip == {}
quarantined_gc_entries_for_purge == Undeleted

BootPurge(p) ==
    /\ pc[p] = "boot_purge"
    /\ \E e \in quarantined_gc_entries_for_purge : Then(p, "gc_remove", e, {})
    /\ UNCHANGED <<hvars, ovars, gvars, faults, crashes>>

BootDone(p) ==
    /\ pc[p] = "boot_purge"
    /\ quarantined_gc_entries_for_purge = {}
    /\ End(p)
    /\ UNCHANGED <<hvars, ovars, gvars, faults, crashes>>

-----------------------------------------------------------------------------
(* What goes wrong, and time.                                              *)

\* An effect returns an error: the handler answers it and stops half-way.
Fail(p) ==
    /\ faults < MaxFaults
    /\ pc[p] # "idle"
    /\ ~orphan[p]
    /\ faults' = faults + 1
    /\ End(p)
    /\ UNCHANGED <<hvars, ovars, gvars, crashes>>

\* The connection goes away while the handler awaits an effect: its future is
\* dropped, and gc_gate with it, but spawn_blocking runs what was submitted.
Disconnect(p) ==
    /\ Disconnects
    /\ faults < MaxFaults
    /\ pc[p] # "idle"
    /\ ~orphan[p]
    /\ faults' = faults + 1
    /\ orphan' = [orphan EXCEPT ![p] = TRUE]
    /\ UNCHANGED <<hvars, ovars, gvars, pc, arg, todo, crashes>>

\* The process dies, perhaps with the machine: the renames that no directory
\* sync followed may be undone.  The database is durable.
Crash ==
    /\ crashes < MaxCrashes
    /\ crashes' = crashes + 1
    /\ \E lost \in SUBSET (files \ synced) : files' = files \ lost
    /\ pc' = [p \in Everyone |-> IF p = Boot THEN "boot_pending" ELSE "idle"]
    /\ arg' = [p \in Everyone |-> None]
    /\ todo' = [p \in Everyone |-> {}]
    /\ orphan' = [p \in Everyone |-> FALSE]
    /\ UNCHANGED <<hvars, synced, rows, edges, gvars, faults>>

\* An hour passes for a recorded object; thirty days for a trash operation.
Age(o) ==
    /\ rows[o] = "fresh"
    /\ rows' = [rows EXCEPT ![o] = "old"]
    /\ UNCHANGED <<hvars, files, synced, edges, gvars, pvars, faults, crashes>>

Expire == Lapse /\ UNCHANGED <<ovars, gvars, pvars, faults, crashes>>

CreateNamespace(n) ==
    create_namespace(n) /\ UNCHANGED <<ovars, gvars, pvars, faults, crashes>>

-----------------------------------------------------------------------------
SInit ==
    /\ InitTables
    /\ files = {} /\ synced = {}
    /\ rows = [o \in Obj |-> "none"]
    /\ edges = [o \in Obj |-> {}]
    /\ queue = [e \in Entry |-> "none"]
    /\ dels = {} /\ gcops = 0 /\ qfiles = {}
    /\ pc = [p \in Everyone |-> "idle"]
    /\ arg = [p \in Everyone |-> None]
    /\ todo = [p \in Everyone |-> {}]
    /\ orphan = [p \in Everyone |-> FALSE]
    /\ faults = 0 /\ crashes = 0

\* The listener is bound only after AppState::initialize returned.
Serving_Slip == TRUE
Serving == pc[Boot] = "idle"

Request(p) ==
    /\ Serving
    /\ \/ \E o \in Obj : StartPut(p, o)
       \/ \E n \in Ns, r \in Rev : StartCommit(p, n, r)
       \/ \E n \in Ns, h \in RevOrNone : StartTruncate(p, n, h)
       \/ \E n \in Ns, o \in Op : StartRestore(p, n, o)
       \/ StartGc(p)
       \/ \E n \in Ns, S \in SUBSET Op : StartPurge(p, n, S)

\* The next effect of a handler that is running.
Effect(p) ==
    \/ PutRename(p) \/ PutRecord(p)
    \/ CommitEdges(p) \/ CommitMissing(p) \/ RootEdges(p) \/ CommitSync(p) \/ CommitTx(p)
    \/ TruncateTx(p) \/ RestoreTx(p)
    \/ EnqueueGc(p) \/ EnqueueNothing(p) \/ PurgeTx(p) \/ PurgeConflict(p)
    \/ GcNext(p) \/ GcDone(p) \/ GcCancel(p) \/ GcQuarantine(p) \/ GcComplete(p)
    \/ GcRemove(p) \/ GcMark(p)
    \/ BootPending(p) \/ BootPurge(p) \/ BootDone(p)

SNext ==
    \/ \E n \in Ns : CreateNamespace(n)
    \/ \E p \in Proc : Request(p) \/ Fail(p) \/ Disconnect(p)
    \/ \E p \in Everyone : Effect(p)
    \/ \E o \in Obj : Age(o)
    \/ Expire
    \/ Crash

\* A submitted effect is run: the blocking pool starts every task it is given.
ServerSpec == SInit /\ [][SNext]_svars /\ \A p \in Everyone : WF_svars(Effect(p))

-----------------------------------------------------------------------------
(* Properties.                                                             *)

\* The tables, the store and every handler hold values of their types, and
\* nothing is served while start-up runs.
ServerTypeOK ==
    /\ TablesOK
    /\ synced \subseteq files /\ files \subseteq Obj
    /\ rows \in [Obj -> {"none", "fresh", "old"}]
    /\ edges \in [Obj -> SUBSET Obj]
    /\ queue \in [Entry -> {"none", "pending", "quarantined", "cancelled", "purged"}]
    /\ dels \subseteq 1 .. gcops /\ gcops \in 0 .. MaxGcOps /\ qfiles \subseteq Entry
    /\ pc[Boot] # "idle" => \A p \in Proc : pc[p] = "idle"

\* Whatever a revision that is active, or can still be restored from the
\* trash, links to, directly or through other objects, has its file: no
\* collection, purge, crash or half-finished handler removes it.  ("Permanent
\* deletion removes only objects that are globally unreachable; shared
\* objects remain intact.")
ProtectedContentStored == Content(Protected) \subseteq files

\* The edge table leads from a protected revision to exactly its content, so
\* that the collector's view of what is reachable is the true one, whatever
\* edges collections removed and commits replaced in between.
EdgesTellTheTruth == reachable_objects = Content(Protected)

\* A restart finishes what the queue holds: no entry stays pending, and no
\* object of a permanent deletion stays in the quarantine.
RestartDrainsQueue == pc[Boot] = "boot_pending" ~> Pending = {} /\ Undeleted = {}

=============================================================================
