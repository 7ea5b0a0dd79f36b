------------------------------ MODULE SyncClient ------------------------------
(***************************************************************************)
(* Desktop clients that synchronise the conversations of their Codex homes *)
(* through the namespaces of one server: push, staged push, pull, conflict *)
(* resolution, initial merge, exact switch, restore of an older revision   *)
(* and workspace remap.  A client works on what it read earlier while      *)
(* users edit, other clients publish and administrators rewrite history.   *)
(*                                                                         *)
(* The server is the register that module NamespaceRegister specifies and  *)
(* HistoryStore implements.  One job at a time works on a home, because    *)
(* every job holds the home's write lease.  A checkout replaces the home   *)
(* and then the tracking record; what a crash leaves of one is settled by  *)
(* its journal, as module Checkout shows, and Recover is that settlement.  *)
(***************************************************************************)
EXTENDS ThreadMerge, Sequences, FiniteSets

CONSTANTS
    Client,         \* a Codex home with the application that serves it
    Ns,             \* namespaces of the server
    None,           \* no head, no record, no journal, no active namespace
    MaxRevs,        \* bound: revision roots built
    MaxRewrites,    \* bound: history rewrites by administrators
    MaxRestores,    \* bound: restores of older revisions and workspace remaps
    MaxCrashes,     \* bound: client crashes
    MaxLost,        \* bound: commit answers that are lost
    MaxGeneration,  \* bound: generation after which a home is not switched
    UnrecoveredPush \* do users push while a checkout of their home is unfinished

Ops == {"pull", "resolve", "merge", "switch", "restore", "remap"}
Record == [head : Nat \cup {None}, epoch : Nat, generation : Nat \ {0}]
Journal == [status : {"applied"}, op : Ops, ns : Ns, generation : Nat, head : Nat \cup {None}]
               \cup [status : {"torn"}, backup : Tree]

ASSUME ClientAssumption ==
    /\ None \notin Nat \cup Ns \cup Record \cup Journal
    /\ {MaxRevs, MaxRewrites, MaxRestores, MaxCrashes, MaxLost} \subseteq Nat
    /\ UnrecoveredPush \in BOOLEAN

VARIABLES
    revs,       \* revision roots in the order they were built
    published,  \* indices of those the server committed
    head,       \* head of each namespace, an index of revs
    epoch,      \* epoch of each namespace
    delayed,    \* commit requests of clients that gave up waiting
    home,       \* the tree in each Codex home
    track,      \* tracking record of each home for each namespace
    active,     \* active namespace of each home
    journal,    \* the unfinished checkout of each home
    job,        \* the job that works on each home
    shown,      \* conflicts on each client's screen
    preview,    \* the initial merge on each client's screen
    used,       \* history: user edits made so far
    discarded,  \* history: edits that a user chose to give up
    seen,       \* history: edits behind what is on each client's screen
    rewrites, restores, crashes, lost

server == <<revs, published, head, epoch, delayed>>
screen == <<shown, preview, seen>>
counters == <<rewrites, restores, crashes, lost>>
vars == <<server, home, track, active, journal, job, screen, used, discarded, counters>>

Idle == [step |-> "idle"]
EditsOf(tree) == UNION {tree.e[t] : t \in Thread}
EditsLacking(x, y) == UNION {y.e[t] \ x.e[t] : t \in Thread}

TreeOf(h) == IF h = None THEN EmptyTree ELSE revs[h].tree

\* The head h and everything it descends from.
WithParents(S) == \A i \in S : revs[i].parent # None => revs[i].parent \in S
Chain(h) ==
    IF h = None THEN {}
    ELSE {i \in DOMAIN revs :
            \A S \in SUBSET DOMAIN revs : h \in S /\ WithParents(S) => i \in S}

TrackedHead(c, n) == IF track[c][n] = None THEN None ELSE track[c][n].head
Generation(c, n) == IF track[c][n] = None THEN 0 ELSE track[c][n].generation

Init ==
    /\ revs = <<>>
    /\ published = {}
    /\ head = [n \in Ns |-> None]
    /\ epoch = [n \in Ns |-> 0]
    /\ delayed = {}
    /\ home = [c \in Client |-> EmptyTree]
    /\ track = [c \in Client |-> [n \in Ns |-> None]]
    /\ active = [c \in Client |-> None]
    /\ journal = [c \in Client |-> None]
    /\ job = [c \in Client |-> Idle]
    /\ shown = [c \in Client |-> {}]
    /\ preview = [c \in Client |-> None]
    /\ used = {}
    /\ discarded = {}
    /\ seen = [c \in Client |-> {}]
    /\ rewrites = 0 /\ restores = 0 /\ crashes = 0 /\ lost = 0

----------------------------------------------------------------------------
(* Codex and its user, who may work at any time: a job that has read the   *)
(* home does not notice.                                                   *)

EditThread(c, t) ==
    /\ used # Edit
    /\ journal[c] # None => journal[c].status # "torn"
    /\ LET new == CHOOSE x \in Edit : x \notin used
       IN  /\ used' = used \cup {new}
           /\ \E version \in {new, Absent} :
                /\ version = new => home[c].v[t] # Absent \/ home[c].e[t] = {}
                /\ version = Absent => home[c].v[t] # Absent
                /\ home' = [home EXCEPT ![c].v[t] = version,
                                        ![c].e[t] = @ \cup {new}]
    /\ UNCHANGED <<server, track, active, journal, job, screen, discarded, counters>>

(* An administrator cuts the history of a namespace back to an ancestor of *)
(* its head, or puts a cut part back on top of it.                         *)
RewriteHistory(n, h) ==
    /\ rewrites < MaxRewrites
    /\ h # head[n]
    /\ \/ h = None
       \/ h \in published /\ revs[h].ns = n
            /\ (h \in Chain(head[n]) \/ head[n] = None \/ head[n] \in Chain(h))
    /\ head' = [head EXCEPT ![n] = h]
    /\ epoch' = [epoch EXCEPT ![n] = @ + 1]
    /\ rewrites' = rewrites + 1
    /\ UNCHANGED <<revs, published, delayed, home, track, active, journal, job, screen,
                   used, discarded, restores, crashes, lost>>

----------------------------------------------------------------------------
(* The tracking database.                                                  *)

\* reconcile_checkout's compare-and-set.
Reconcilable(c, n, generation, h) ==
    \/ Generation(c, n) = generation
    \/ Generation(c, n) = generation + 1 /\ TrackedHead(c, n) = h /\ active[c] = n

reconcile_checkout(c, n, generation, h) ==
    /\ track' = [track EXCEPT ![c][n] =
                    [head |-> h,
                     epoch |-> IF @ = None THEN 0 ELSE @.epoch,
                     generation |-> generation + 1]]
    /\ active' = [active EXCEPT ![c] = n]

RecordEpoch_Slip(j) == epoch[j.ns]

\* The epoch that was read together with the head that the record now has.
RecordEpoch(j) == j.epoch

update_remote_epoch(c) ==
    LET j == job[c] IN
    /\ j.step = "epoch"
    /\ Generation(c, j.ns) = j.generation
    /\ track' = [track EXCEPT ![c][j.ns].epoch = RecordEpoch(j)]
    /\ job' = [job EXCEPT ![c] = Idle]
    /\ UNCHANGED <<server, home, active, journal, screen, used, discarded, counters>>

EpochAgrees(c, n) == track[c][n] # None => track[c][n].epoch = epoch[n]

----------------------------------------------------------------------------
(* Push.                                                                   *)

\* No push looks for an unfinished checkout; the client only lists it.
MayPush(c, n) ==
    /\ job[c].step = "idle" \/ job[c] = [step |-> "publish", ns |-> n]
    /\ UnrecoveredPush \/ journal[c] = None

Build(n, tree) ==
    /\ Len(revs) < MaxRevs
    /\ revs' = Append(revs, [ns |-> n, parent |-> head[n], tree |-> tree])

CommitJob(c, n, op) ==
    [step |-> "commit", op |-> op, ns |-> n, generation |-> Generation(c, n),
     rev |-> Len(revs) + 1, head |-> head[n], epoch |-> epoch[n]]

HeadIntegrated_Slip(c, n) == TRUE

\* Nothing was published since this home last integrated the namespace.
HeadIntegrated(c, n) == head[n] = TrackedHead(c, n)

Publishable(c, n) ==
    /\ active[c] \in {None, n}
    /\ EpochAgrees(c, n)

\* The home is what the head is already: only the record is brought up to date.
\* (Equal copies have the same edits behind them, hence home'.)
PushNothing(c, n) ==
    /\ MayPush(c, n)
    /\ Publishable(c, n)
    /\ head[n] # None
    /\ thread_states_equal(revs[head[n]].tree, home[c])
    /\ IF HeadIntegrated(c, n) /\ active[c] = n
       THEN job' = [job EXCEPT ![c] =
                [step |-> "epoch", ns |-> n, generation |-> Generation(c, n),
                 epoch |-> epoch[n]]]
       ELSE job' = [job EXCEPT ![c] =
                [step |-> "reconcile", ns |-> n, generation |-> Generation(c, n),
                 head |-> head[n], epoch |-> epoch[n]]]
    /\ home' = [home EXCEPT ![c].e = [t \in Thread |-> @[t] \cup revs[head[n]].tree.e[t]]]
    /\ UNCHANGED <<server, track, active, journal, screen, used, discarded, counters>>

push_namespace(c, n) ==
    /\ MayPush(c, n)
    /\ Publishable(c, n)
    /\ head[n] # None => ~thread_states_equal(revs[head[n]].tree, home[c])
    /\ HeadIntegrated(c, n)
    /\ Build(n, home[c])
    /\ job' = [job EXCEPT ![c] = CommitJob(c, n, "push")]
    /\ UNCHANGED <<published, head, epoch, delayed, home, track, active, journal, screen,
                   used, discarded, counters>>

\* A push that ends a resolution or a restore and is refused.
PublishRefused(c) ==
    /\ job[c].step = "publish"
    /\ LET n == job[c].ns IN
        \/ ~Publishable(c, n)
        \/ ~HeadIntegrated(c, n)
            /\ head[n] # None => ~thread_states_equal(revs[head[n]].tree, home[c])
    /\ job' = [job EXCEPT ![c] = Idle]
    /\ UNCHANGED <<server, home, track, active, journal, screen, used, discarded, counters>>

\* The user picks changes of the plan.  Picking a thread that the home lacks
\* is the decision to delete it.
push_staged_namespace(c, n, staged) ==
    /\ MayPush(c, n) /\ job[c] = Idle
    /\ Publishable(c, n)
    /\ HeadIntegrated(c, n)
    /\ staged # {}
    /\ LET base == TreeOf(head[n]) IN
        /\ staged \subseteq build_change_plan(base, home[c])
        /\ Build(n, compose_staged(base, home[c], staged))
        /\ discarded' = discarded \cup
             UNION {base.e[t] \ home[c].e[t] : t \in {s \in staged : home[c].v[s] = Absent}}
    /\ job' = [job EXCEPT ![c] = CommitJob(c, n, "staged")]
    /\ UNCHANGED <<published, head, epoch, delayed, home, track, active, journal, screen,
                   used, counters>>

----------------------------------------------------------------------------
(* The commit request and its answer.                                      *)

Accepts_Slip(j) == epoch[j.ns] = j.epoch

\* commit_revision_root's comparison.
Accepts(j) == head[j.ns] = j.head /\ epoch[j.ns] = j.epoch

ServerCommit_Slip(j) ==
    /\ head' = [head EXCEPT ![j.ns] = j.rev]
    /\ UNCHANGED <<published, revs, epoch>>

ServerCommit(j) ==
    /\ head' = [head EXCEPT ![j.ns] = j.rev]
    /\ published' = published \cup {j.rev}
    /\ UNCHANGED <<revs, epoch>>

Committed(c) ==
    LET j == job[c] IN
    /\ j.step = "commit"
    /\ Accepts(j)
    /\ ServerCommit(j)
    /\ job' = [job EXCEPT ![c] =
            [step |-> "reconcile", ns |-> j.ns, generation |-> j.generation,
             head |-> j.rev, epoch |-> j.epoch]]
    /\ UNCHANGED <<delayed, home, track, active, journal, screen, used, discarded, counters>>

Rejected(c) ==
    /\ job[c].step = "commit"
    /\ ~Accepts(job[c])
    /\ job' = [job EXCEPT ![c] = Idle]
    /\ UNCHANGED <<server, home, track, active, journal, screen, used, discarded, counters>>

\* No answer reaches the client.  The request may still be on its way.  A
\* whole push then asks for the head; a staged one gives up.
AnswerLost(c) ==
    LET j == job[c] IN
    /\ j.step = "commit"
    /\ lost < MaxLost
    /\ lost' = lost + 1
    /\ \/ Accepts(j) /\ ServerCommit(j) /\ UNCHANGED delayed
       \/ delayed' = delayed \cup {j} /\ UNCHANGED <<revs, published, head, epoch>>
    /\ job' = [job EXCEPT ![c] =
            IF j.op = "push" THEN [j EXCEPT !.step = "lookup"] ELSE Idle]
    /\ UNCHANGED <<home, track, active, journal, screen, used, discarded,
                   rewrites, restores, crashes>>

\* A request whose client has given up reaches the server.
CommitLate(j) ==
    /\ delayed' = delayed \ {j}
    /\ IF Accepts(j) THEN ServerCommit(j) ELSE UNCHANGED <<revs, published, head, epoch>>
    /\ UNCHANGED <<home, track, active, journal, job, screen, used, discarded, counters>>

LookUpHead(c) ==
    LET j == job[c] IN
    /\ j.step = "lookup"
    /\ job' = [job EXCEPT ![c] =
            IF head[j.ns] = j.rev
            THEN [step |-> "reconcile", ns |-> j.ns, generation |-> j.generation,
                  head |-> j.rev, epoch |-> j.epoch]
            ELSE Idle]
    /\ UNCHANGED <<server, home, track, active, journal, screen, used, discarded, counters>>

RecordPush(c) ==
    LET j == job[c] IN
    /\ j.step = "reconcile"
    /\ Reconcilable(c, j.ns, j.generation, j.head)
    /\ reconcile_checkout(c, j.ns, j.generation, j.head)
    /\ job' = [job EXCEPT ![c] =
            [step |-> "epoch", ns |-> j.ns, generation |-> j.generation + 1,
             epoch |-> j.epoch]]
    /\ UNCHANGED <<server, home, journal, screen, used, discarded, counters>>

----------------------------------------------------------------------------
(* Checkouts.  A checkout job holds the tree to install, the tree it was   *)
(* planned from and what its user gave up.  The record is to have head h;  *)
(* a restore leaves the record alone.                                      *)

CheckoutJob(c, op, n, h, tree, dropped, then) ==
    [step |-> "checkout", op |-> op, ns |-> n, generation |-> Generation(c, n), head |-> h,
     epoch |-> epoch[n], tree |-> tree, local |-> home[c], dropped |-> dropped, then |-> then]

ClearScreen(c) ==
    /\ shown' = [shown EXCEPT ![c] = {}]
    /\ preview' = [preview EXCEPT ![c] = None]
    /\ seen' = [seen EXCEPT ![c] = {}]

StartCheckout(c, j) ==
    /\ job' = [job EXCEPT ![c] = j]
    /\ UNCHANGED <<server, home, track, active, journal, used, discarded>>

\* The home is replaced; the journal says LocalApplied until the record is.
ApplyHome(c) ==
    LET j == job[c] IN
    /\ j.step = "checkout"
    /\ journal[c] = None
    /\ home' = [home EXCEPT ![c] = j.tree]
    /\ discarded' = discarded \cup j.dropped
    /\ job' = [job EXCEPT ![c] =
            [step |-> "applied", op |-> j.op, ns |-> j.ns, generation |-> j.generation,
             head |-> j.head, epoch |-> j.epoch, then |-> j.then]]
    /\ journal' = [journal EXCEPT ![c] =
            [status |-> "applied", op |-> j.op, ns |-> j.ns,
             generation |-> j.generation, head |-> j.head]]
    /\ ClearScreen(c)
    /\ UNCHANGED <<server, track, active, used, counters>>

\* A home with an unfinished checkout refuses another.
RefuseCheckout(c) ==
    /\ job[c].step = "checkout"
    /\ journal[c] # None
    /\ job' = [job EXCEPT ![c] = Idle]
    /\ UNCHANGED <<server, home, track, active, journal, screen, used, discarded, counters>>

\* The record follows, and the checkout is complete.
ApplyRecord(c) ==
    LET j == job[c] IN
    /\ j.step = "applied"
    /\ IF j.op # "restore"
       THEN /\ Reconcilable(c, j.ns, j.generation, j.head)
            /\ reconcile_checkout(c, j.ns, j.generation, j.head)
       ELSE UNCHANGED <<track, active>>
    /\ journal' = [journal EXCEPT ![c] = None]
    /\ job' = [job EXCEPT ![c] =
            CASE j.then = "epoch" -> [step |-> "epoch", ns |-> j.ns,
                                      generation |-> j.generation + 1, epoch |-> j.epoch]
              [] j.then = "publish" -> [step |-> "publish", ns |-> j.ns]
              [] j.then = "done" -> Idle]
    /\ UNCHANGED <<server, home, screen, used, discarded, counters>>

----------------------------------------------------------------------------
(* Pull and the resolution of its conflicts.                               *)

MayPull_Slip(c, n) ==
    /\ job[c] = Idle
    /\ active[c] = n
    /\ TrackedHead(c, n) # None
    /\ EpochAgrees(c, n)
    /\ head[n] \notin {TrackedHead(c, n), None}
    /\ TrackedHead(c, n) \in Chain(head[n])

\* prepare_pull up to the merge.
MayPull(c, n) ==
    /\ job[c] = Idle
    /\ active[c] = n
    /\ track[c][n] # None
    /\ EpochAgrees(c, n)
    /\ head[n] \notin {TrackedHead(c, n), None}
    /\ TrackedHead(c, n) # None => TrackedHead(c, n) \in Chain(head[n])

PullBase_Slip(c, n) == TreeOf(head[n])

\* The common base is the revision that this home integrated last.
PullBase(c, n) == TreeOf(TrackedHead(c, n))

pull_namespace(c, n) ==
    LET base == PullBase(c, n)
        remote == revs[head[n]].tree
    IN
    /\ MayPull(c, n)
    /\ Conflicting(base, home[c], remote) = {}
    /\ StartCheckout(c, CheckoutJob(c, "pull", n, head[n],
                            merge_thread_sets(base, home[c], remote), {}, "epoch"))
    /\ UNCHANGED <<screen, counters>>

\* Conflicts are displayed and nothing is changed.
ShowConflicts(c, n) ==
    LET base == PullBase(c, n)
        remote == revs[head[n]].tree
    IN
    /\ MayPull(c, n)
    /\ Conflicting(base, home[c], remote) # {}
    /\ shown' = [shown EXCEPT ![c] = Conflicts(base, home[c], remote)]
    /\ seen' = [seen EXCEPT ![c] = EditsOf(home[c]) \cup EditsOf(remote)]
    /\ UNCHANGED <<server, home, track, active, journal, job, preview, used, discarded,
                   counters>>

\* What the user gives up by his choices.
GivenUp(local, remote, resolutions) ==
    UNION {IF r.choice = "local"
           THEN remote.e[r.conflict.thread] \ local.e[r.conflict.thread]
           ELSE local.e[r.conflict.thread] \ remote.e[r.conflict.thread] : r \in resolutions}

Choices(conflicts) ==
    {{[conflict |-> k, choice |-> f[k]] : k \in conflicts} : f \in [conflicts -> {"local", "remote"}]}

resolve_pull_conflicts(c, n, resolutions) ==
    LET base == PullBase(c, n)
        remote == revs[head[n]].tree
        conflicts == Conflicts(base, home[c], remote)
    IN
    /\ MayPull(c, n)
    /\ conflicts # {}
    /\ Valid(resolutions, conflicts)
    /\ StartCheckout(c, CheckoutJob(c, "resolve", n, head[n],
                            resolve_thread_sets(base, home[c], remote, resolutions),
                            GivenUp(home[c], remote, resolutions), "publish"))
    /\ UNCHANGED <<screen, counters>>

----------------------------------------------------------------------------
(* First attachment to a namespace that already has conversations.         *)

MayMerge(c, n) ==
    /\ job[c] = Idle
    /\ active[c] = None
    /\ track[c][n] = None
    /\ head[n] # None

initial_merge_fingerprint(c, n) ==
    [ns |-> n, head |-> head[n], local |-> home[c].v, remote |-> revs[head[n]].tree.v]

prepare_initial_namespace_merge(c, n) ==
    /\ MayMerge(c, n)
    /\ preview' = [preview EXCEPT ![c] = initial_merge_fingerprint(c, n)]
    /\ shown' = [shown EXCEPT ![c] = Conflicts(EmptyTree, home[c], revs[head[n]].tree)]
    /\ seen' = [seen EXCEPT ![c] = EditsOf(home[c]) \cup EditsOf(revs[head[n]].tree)]
    /\ UNCHANGED <<server, home, track, active, journal, job, used, discarded, counters>>

apply_initial_namespace_merge(c, n, resolutions) ==
    LET remote == revs[head[n]].tree IN
    /\ MayMerge(c, n)
    /\ preview[c] = initial_merge_fingerprint(c, n)
    /\ Valid(resolutions, Conflicts(EmptyTree, home[c], remote))
    /\ StartCheckout(c, CheckoutJob(c, "merge", n, head[n],
                            resolve_thread_sets(EmptyTree, home[c], remote, resolutions),
                            GivenUp(home[c], remote, resolutions), "epoch"))
    /\ UNCHANGED <<screen, counters>>

----------------------------------------------------------------------------
(* Checkouts that replace the home without a merge.                        *)

ActiveClean_Slip(c, n) == TRUE

\* ensure_active_namespace_clean: another namespace is left only when its
\* conversations are those of the revision that was integrated.
ActiveClean(c, n) ==
    active[c] \notin {None, n} =>
        thread_states_equal(home[c], TreeOf(TrackedHead(c, active[c])))

\* Exact switch.  In the active namespace it is a pull unless the history
\* was rewritten.
switch_namespace(c, n) ==
    /\ job[c] = Idle
    /\ Generation(c, n) < MaxGeneration
    /\ active[c] = n => ~EpochAgrees(c, n)
    /\ ActiveClean(c, n)
    /\ StartCheckout(c, CheckoutJob(c, "switch", n, head[n], TreeOf(head[n]), {}, "epoch"))
    /\ UNCHANGED <<screen, counters>>

\* An older revision is put into the home, and published if asked; the user
\* gives up what that revision lacks.
restore_remote_revision(c, n, r, then) ==
    /\ job[c] = Idle
    /\ restores < MaxRestores
    /\ restores' = restores + 1
    /\ track[c][n] # None
    /\ head[n] # None
    /\ HeadIntegrated(c, n)
    /\ r \in published /\ revs[r].ns = n
    /\ StartCheckout(c, CheckoutJob(c, "restore", n, head[n], revs[r].tree,
            EditsLacking(revs[r].tree, home[c])
                \cup EditsLacking(revs[r].tree, revs[head[n]].tree),
            then))
    /\ UNCHANGED <<screen, rewrites, crashes, lost>>

\* The home's own conversations, with their paths rewritten.
reapply_workspace_mappings(c, n) ==
    /\ job[c] = Idle
    /\ restores < MaxRestores
    /\ restores' = restores + 1
    /\ active[c] = n
    /\ track[c][n] # None
    /\ StartCheckout(c, CheckoutJob(c, "remap", n, TrackedHead(c, n), home[c], {}, "done"))
    /\ UNCHANGED <<screen, rewrites, crashes, lost>>

----------------------------------------------------------------------------
(* The application stops, or its job fails or is cancelled.  A request it   *)
(* has sent may still arrive.  Before its local writes a checkout leaves    *)
(* nothing; between them, a home where each thread is the old one, is       *)
(* missing or is the new one; after them, a home that is replaced.          *)
Crash(c) ==
    /\ crashes < MaxCrashes
    /\ job[c] # Idle
    /\ crashes' = crashes + 1
    /\ job' = [job EXCEPT ![c] = Idle]
    /\ \/ UNCHANGED <<home, journal>>
       \/ /\ job[c].step = "checkout"
          /\ journal[c] = None
          /\ \E from \in [Thread -> {home[c], EmptyTree, job[c].tree}] :
                home' = [home EXCEPT ![c].v = [t \in Thread |-> from[t].v[t]],
                                     ![c].e = [t \in Thread |-> from[t].e[t]]]
          /\ journal' = [journal EXCEPT ![c] = [status |-> "torn", backup |-> home[c]]]
    /\ ClearScreen(c)
    /\ delayed' \in {delayed} \cup
            (IF job[c].step = "commit" THEN {delayed \cup {job[c]}} ELSE {})
    /\ UNCHANGED <<revs, published, head, epoch, track, active, used, discarded,
                   rewrites, restores, lost>>

\* The recovery point of an unfinished checkout is completed or rolled back.
Recover(c) ==
    LET k == journal[c] IN
    /\ job[c] = Idle
    /\ k # None
    /\ journal' = [journal EXCEPT ![c] = None]
    /\ \/ /\ k.status = "applied"
          /\ IF k.op # "restore"
             THEN /\ Reconcilable(c, k.ns, k.generation, k.head)
                  /\ reconcile_checkout(c, k.ns, k.generation, k.head)
             ELSE UNCHANGED <<track, active>>
          /\ UNCHANGED home
       \/ /\ k.status = "torn"
          /\ home' = [home EXCEPT ![c] = k.backup]
          /\ UNCHANGED <<track, active>>
    /\ UNCHANGED <<server, job, screen, used, discarded, counters>>

----------------------------------------------------------------------------
\* The steps of a job that has started, and of recovery.
Proceed(c) ==
    \/ Committed(c)
    \/ Rejected(c)
    \/ LookUpHead(c)
    \/ RecordPush(c)
    \/ update_remote_epoch(c)
    \/ PublishRefused(c)
    \/ ApplyHome(c)
    \/ RefuseCheckout(c)
    \/ ApplyRecord(c)
    \/ Recover(c)

\* What a user asks for to bring his home and the namespace together.
Synchronise(c, n) ==
    \/ PushNothing(c, n)
    \/ push_namespace(c, n)
    \/ pull_namespace(c, n)
    \/ ShowConflicts(c, n)
    \/ \E resolutions \in Choices(shown[c]) : resolve_pull_conflicts(c, n, resolutions)
    \/ prepare_initial_namespace_merge(c, n)
    \/ \E resolutions \in Choices(shown[c]) : apply_initial_namespace_merge(c, n, resolutions)

Other(c, n) ==
    \/ \E staged \in SUBSET Thread : push_staged_namespace(c, n, staged)
    \/ switch_namespace(c, n)
    \/ \E r \in published, then \in {"done", "publish"} : restore_remote_revision(c, n, r, then)
    \/ reapply_workspace_mappings(c, n)

Next ==
    \/ \E c \in Client, t \in Thread : EditThread(c, t)
    \/ \E n \in Ns : \E h \in published \cup {None} : RewriteHistory(n, h)
    \/ \E j \in delayed : CommitLate(j)
    \/ \E c \in Client : Proceed(c)
    \/ \E c \in Client, n \in Ns : Synchronise(c, n)
    \/ \E c \in Client, n \in Ns : Other(c, n)
    \/ \E c \in Client : AnswerLost(c)
    \/ \E c \in Client : Crash(c)

Spec == Init /\ [][Next]_vars

\* A job that runs goes on, and a user who sees that his home differs from
\* the namespace keeps asking for the operation that the client offers.
FairSpec ==
    /\ Spec
    /\ \A c \in Client :
        /\ WF_vars(Proceed(c))
        /\ \A n \in Ns :
            /\ WF_vars(Synchronise(c, n))
            /\ WF_vars(track[c][n] # None /\ switch_namespace(c, n))

----------------------------------------------------------------------------
(* Properties.                                                             *)

\* Shape of the state: heads and records point at revisions that exist, and
\* no more revisions, edits or faults than the bounds allow.
TypeOK ==
    /\ \A i \in DOMAIN revs :
        /\ revs[i].ns \in Ns
        /\ revs[i].parent \in {None} \cup 1..(i - 1)
        /\ revs[i].tree \in Tree
    /\ published \subseteq DOMAIN revs
    /\ head \in [Ns -> published \cup {None}]
    /\ epoch \in [Ns -> 0..MaxRewrites]
    /\ home \in [Client -> Tree]
    /\ track \in [Client -> [Ns -> Record \cup {None}]]
    /\ active \in [Client -> Ns \cup {None}]
    /\ used \subseteq Edit /\ discarded \subseteq used

\* Tree x has every edit of a thread of tree y that no user gave up.
Keeps(x, y, t) == y.v[t] # Absent => y.e[t] \subseteq x.e[t] \cup discarded

\* A published revision has every edit of its parent's threads, or a deletion
\* that was made knowing them, unless some user chose to give that edit up: no push by a client
\* that did not know of an edit removes it from the history.
HistoryKeepsEdits ==
    \A r \in published : revs[r].parent # None =>
        \A t \in Thread : Keeps(revs[r].tree, revs[revs[r].parent].tree, t)

\* A home without an unfinished checkout has everything of the revision that
\* its record says it integrated.
\* If it lacked an edit, the next three-way merge or push would take the gap
\* for the user's own deletion.
IntegratedIsInHome ==
    \A c \in Client :
        /\ journal[c] = None
        /\ active[c] # None
        /\ TrackedHead(c, active[c]) # None
        => \A t \in Thread : Keeps(home[c], revs[TrackedHead(c, active[c])].tree, t)

\* A record whose epoch is the namespace's refers to the head or to one of
\* its ancestors: with equal epochs the three-way merge has a common base,
\* and no client takes a rewritten history for a continued one.
EpochMatchMeansAncestor ==
    \A c \in Client, n \in Ns :
        /\ track[c][n] # None
        /\ track[c][n].epoch = epoch[n]
        /\ track[c][n].head # None
        => track[c][n].head \in Chain(head[n])

\* Installing a tree keeps every edit that was in the home when the tree was
\* planned, unless its user gave the edit up, restored an older revision, or
\* confirmed that the home be replaced; a switch to another namespace drops
\* only versions that are published.  A deletion is kept like an edit if the
\* thread is in the base; the code has no other way to tell it from a thread
\* that never was there.  An edit may also be gone because some revision deleted
\* the thread knowing that edit, even if another home brought the thread back.
LocalWorkKept ==
    [][\A c \in Client : job[c].step = "checkout" /\ job'[c].step = "applied" =>
        LET j == job[c] IN
        \/ j.op = "restore"
        \/ j.op = "switch" /\ active[c] \in {None, j.ns}
        \/ j.op = "switch" /\ \A t \in Thread : j.local.v[t] # Absent =>
                \E r \in published : revs[r].tree.v[t] = j.local.v[t]
        \/ \A t \in Thread :
             \/ j.local.e[t] \subseteq home'[c].e[t] \cup discarded'
             \/ j.local.v[t] = Absent /\ TreeOf(TrackedHead(c, j.ns)).v[t] = Absent
             \/ \E d \in Chain(j.head) : /\ revs[d].tree.v[t] = Absent
                                        /\ j.local.e[t] \subseteq revs[d].tree.e[t] \cup discarded']_vars

\* Where both sides changed a thread, the copy that is installed lacks an edit
\* behind a version of either side only if that version was on the screen when
\* the user chose.  The screen shows a missing thread as missing, whatever was
\* in it, so the property is about versions that are there.
ChoicesAreInformed ==
    [][\A c \in Client :
        job[c].step = "checkout" /\ job'[c].step = "applied" /\ job[c].op \in {"resolve", "merge"} =>
        LET j == job[c]
            base == IF j.op = "merge" THEN EmptyTree ELSE TreeOf(TrackedHead(c, j.ns))
            remote == revs[j.head].tree
        IN  \A t \in Conflicting(base, j.local, remote) : \A side \in {j.local, remote} :
                side.v[t] # Absent => side.e[t] \ home'[c].e[t] \subseteq seen[c]]_vars

\* When edits, rewrites and faults have ended, every home comes to have the
\* conversations of the namespace's head.
HomesConverge ==
    <>[](\A c \in Client : \E n \in Ns : thread_states_equal(home[c], TreeOf(head[n])))
=============================================================================
