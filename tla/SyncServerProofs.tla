-------------------------- MODULE SyncServerProofs --------------------------
(***************************************************************************)
(* Proofs about the sync server, for every set of namespaces, revisions,   *)
(* objects and requests, every link structure and every bound.             *)
(***************************************************************************)
EXTENDS SyncServer, TLAPS

(***************************************************************************)
(* Shapes: the tables, the store, and what each step of a handler is about. *)
(***************************************************************************)
Putting == {"put_rename", "put_record"}
Committing == {"commit_edges", "commit_sync", "commit_tx"}
Collecting == {"gc_cancel", "gc_quarantine", "gc_complete", "gc_remove", "gc_mark"}
StepOK(l, a, t) ==
    /\ l \in Putting => a \in Obj
    /\ l \in Committing => a \in [rev : Rev, view : HeadView] /\ t \subseteq Obj
    /\ l = "truncate_tx" => a \in [view : HeadView, to : RevOrNone]
    /\ l = "restore_tx" => a \in [view : HeadView, op : Op]
    /\ l = "purge_tx" => a \in [ns : Ns, ops : SUBSET Op]
    /\ l \in Collecting => a \in Entry
    /\ l \in Collecting \cup {"gc_next"} => t \subseteq Entry
Handlers ==
    /\ pc = [p \in Everyone |-> pc[p]] /\ arg = [p \in Everyone |-> arg[p]]
    /\ todo = [p \in Everyone |-> todo[p]] /\ orphan \in [Everyone -> BOOLEAN]
    /\ \A p \in Everyone : StepOK(pc[p], arg[p], todo[p])
Store ==
    /\ synced \subseteq files /\ files \subseteq Obj
    /\ rows \in [Obj -> {"none", "fresh", "old"}]
    /\ edges \in [Obj -> SUBSET Obj]
Queue ==
    /\ queue \in [Entry -> {"none", "pending", "quarantined", "cancelled", "purged"}]
    /\ dels \subseteq 1 .. gcops /\ gcops \in 0 .. MaxGcOps /\ qfiles \subseteq Entry
StartsAlone == pc[Boot] # "idle" => \A p \in Proc : pc[p] = "idle"
TypeInv == TablesOK /\ Store /\ Queue /\ Handlers /\ StartsAlone

(***************************************************************************)
(* The gate: whoever is not on its read side is alone.                     *)
(***************************************************************************)
Writes(p) == pc[p] \notin ReadSide \cup {"idle"}
Gated == \A p, q \in Everyone : p # q /\ Writes(p) => pc[q] = "idle"
Awaited == \A p \in Everyone : ~ orphan[p]

(***************************************************************************)
(* The trash operation a revision carries.                                 *)
(***************************************************************************)
Owned ==
    \A r \in Rev :
        /\ rstate[r] = "trashed" => rop[r] # 0
        /\ rop[r] # 0 => rop[r] <= nops /\ (trash[rop[r]].state = "active" => rstate[r] = "trashed")

(***************************************************************************)
(* Content: that of protected revisions, of a commit on its way, and what  *)
(* is about to be collected.                                               *)
(***************************************************************************)
Linked(o) == edges[o] = Refs[o]
Kept == \A o \in Content(Protected) : o \in synced /\ Linked(o)
Harmless == \A o \in Obj : edges[o] \subseteq Refs[o]
Validated(p) ==
    /\ pc[p] \in Committing => arg[p].rev \in files
    /\ pc[p] = "commit_edges" =>
         \A o \in Opened(arg[p].rev) \ todo[p] : {o} \cup Refs[o] \subseteq files /\ Linked(o)
    /\ pc[p] = "commit_sync" => \A o \in Content({arg[p].rev}) : o \in files /\ Linked(o)
    /\ pc[p] = "commit_tx" => \A o \in Content({arg[p].rev}) : o \in synced /\ Linked(o)
Doomed(p) == pc[p] \in {"gc_quarantine", "gc_complete"} => arg[p].obj \notin Content(Protected)
ContentInv ==
    /\ Gated /\ Awaited /\ Owned /\ Kept /\ Harmless
    /\ \A p \in Everyone : Validated(p) /\ Doomed(p)
-----------------------------------------------------------------------------
(***************************************************************************)
(* Reachability.                                                           *)
(***************************************************************************)
\* What one starts from is reached.
LEMMA ReachSelf == ASSUME NEW L, NEW S \in SUBSET Obj PROVE S \subseteq Reach(L, S)
BY DEF Reach

\* A set that is closed under the links holds all that is reached from inside.
LEMMA ReachLeast ==
    ASSUME NEW L, NEW S, NEW T \in SUBSET Obj, S \subseteq T, \A x \in T : L[x] \subseteq T
    PROVE  Reach(L, S) \subseteq T
BY DEF Reach

\* The links of what is reached lead to what is reached.
LEMMA ReachClosed ==
    ASSUME NEW L \in [Obj -> SUBSET Obj], NEW S, NEW x \in Reach(L, S)
    PROVE  L[x] \subseteq Reach(L, S)
<1> SUFFICES ASSUME NEW y \in L[x] PROVE y \in Reach(L, S)
    OBVIOUS
<1>1. x \in Obj /\ y \in Obj
    BY DEF Reach
<1>2. ASSUME NEW T \in SUBSET Obj, S \subseteq T, \A z \in T : L[z] \subseteq T PROVE y \in T
    <2>1. x \in T
        BY <1>2, ReachLeast
    <2> QED
        BY <1>2, <2>1
<1> QED
    BY <1>1, <1>2 DEF Reach

LEMMA ReachType == ASSUME NEW L, NEW S PROVE Reach(L, S) \in SUBSET Obj
BY DEF Reach

\* More to start from reaches more.
LEMMA ReachMono ==
    ASSUME NEW L \in [Obj -> SUBSET Obj], NEW S, NEW T \in SUBSET Obj, S \subseteq T
    PROVE  Reach(L, S) \subseteq Reach(L, T)
<1>1. S \subseteq Reach(L, T)
    BY ReachSelf
<1>2. \A x \in Reach(L, T) : L[x] \subseteq Reach(L, T)
    BY ReachClosed
<1> QED
    BY <1>1, <1>2, ReachType, ReachLeast

\* From two sets one reaches what one reaches from either.
LEMMA ReachBoth ==
    ASSUME NEW L \in [Obj -> SUBSET Obj], NEW S \in SUBSET Obj, NEW T \in SUBSET Obj
    PROVE  Reach(L, S \cup T) \subseteq Reach(L, S) \cup Reach(L, T)
<1> DEFINE B == Reach(L, S) \cup Reach(L, T)
<1>1. S \cup T \subseteq B
    BY ReachSelf
<1>2. \A x \in B : L[x] \subseteq B
    BY ReachClosed
<1>3. B \in SUBSET Obj
    BY ReachType
<1> QED
    BY <1>1, <1>2, <1>3, ReachLeast

\* The edge table reaches what the links reach if it agrees with them there.
LEMMA ReachAgree ==
    ASSUME NEW L \in [Obj -> SUBSET Obj], NEW M \in [Obj -> SUBSET Obj], NEW S \in SUBSET Obj,
           \A x \in Reach(M, S) : L[x] = M[x]
    PROVE  Reach(L, S) = Reach(M, S)
<1>1. Reach(L, S) \subseteq Reach(M, S)
    <2>1. \A x \in Reach(M, S) : L[x] \subseteq Reach(M, S)
        BY ReachClosed
    <2> QED
        BY <2>1, ReachSelf, ReachType, ReachLeast
<1>2. Reach(M, S) \subseteq Reach(L, S)
    <2>1. \A x \in Reach(L, S) : M[x] \subseteq Reach(L, S)
        BY <1>1, ReachClosed
    <2> QED
        BY <2>1, ReachSelf, ReachType, ReachLeast
<1> QED
    BY <1>1, <1>2

LEMMA ContentType ==
    ASSUME NEW S PROVE Content(S) \in SUBSET Obj
BY ReachType DEF Content

LEMMA ContentMono ==
    ASSUME NEW S, NEW T \in SUBSET Obj, S \subseteq T PROVE Content(S) \subseteq Content(T)
BY ServerAssumption, ReachMono DEF Content

LEMMA ContentBoth ==
    ASSUME NEW S \in SUBSET Obj, NEW T \in SUBSET Obj
    PROVE  Content(S \cup T) \subseteq Content(S) \cup Content(T)
BY ServerAssumption, ReachBoth DEF Content

LEMMA ProtectedType == ASSUME TablesOK PROVE Protected \in SUBSET Obj
BY ServerAssumption DEF TablesOK, Protected

\* While the edges of protected content are its links, the collector sees them all.
LEMMA ReachableIsContent ==
    ASSUME TablesOK, Store, Kept PROVE reachable_objects = Content(Protected)
<1>1. Protected \in SUBSET Obj
    BY ProtectedType
<1>2. \A x \in Reach(Refs, Protected) : edges[x] = Refs[x]
    BY DEF Kept, Content, Linked
<1> QED
    BY <1>1, <1>2, ServerAssumption, ReachAgree DEF reachable_objects, Content, Store

(***************************************************************************)
(* The tables.                                                             *)
(***************************************************************************)
\* A row of the trash table is not the missing one.
LEMMA RowFacts == NoRow \notin TrashRow
BY DEF NoRow, TrashRow

LEMMA CommitTables ==
    ASSUME TablesOK, NEW v \in HeadView, NEW r \in Rev, commit_revision_root(v, r)
    PROVE  TablesOK'
BY ConstantsAssumption DEF TablesOK, commit_revision_root, RevOrNone

LEMMA TruncateTables ==
    ASSUME TablesOK, NEW v \in HeadView, NEW h \in RevOrNone, truncate_history(v, h)
    PROVE  TablesOK'
<1>1. v.ns \in Ns /\ nops \in 0 .. MaxOps /\ nops < MaxOps /\ MaxOps \in Nat /\ nops' = nops + 1
    BY ConstantsAssumption DEF HeadView, truncate_history, TablesOK
<1>2. nops + 1 \in Op /\ nops' \in 0 .. MaxOps
    BY <1>1 DEF Op
<1>3. head' \in [Ns -> RevOrNone] /\ epoch' \in [Ns -> Nat]
    BY <1>1 DEF truncate_history, NextEpoch, TablesOK
<1>4. rstate' \in [Rev -> {"absent", "active", "trashed", "purged"}] /\ rop' \in [Rev -> 0 .. MaxOps]
    BY <1>1 DEF truncate_history, TablesOK
<1> DEFINE row == [ns |-> v.ns, oldHead |-> head[v.ns], newHead |-> h, state |-> "active"]
<1>5. row \in TrashRow
    BY <1>1 DEF TrashRow, TablesOK
<1>6. trash' = [trash EXCEPT ![nops + 1] = row]
    BY DEF truncate_history
<1> HIDE DEF row
<1>7. trash' \in [Op -> TrashRow \cup {NoRow}]
    BY <1>2, <1>5, <1>6 DEF TablesOK
<1>8. \A o \in Op : o <= nops' <=> trash'[o] \in TrashRow
    <2> SUFFICES ASSUME NEW o \in Op PROVE o <= nops' <=> trash'[o] \in TrashRow
        OBVIOUS
    <2>1. CASE o = nops + 1
        BY <1>1, <1>2, <1>5, <1>6, <2>1 DEF TablesOK
    <2>2. CASE o # nops + 1
        <3>1. trash'[o] = trash[o] /\ (o <= nops <=> trash[o] \in TrashRow)
            BY <1>6, <2>2 DEF TablesOK
        <3>2. o <= nops' <=> o <= nops
            BY <1>1, <2>2 DEF Op
        <3> QED
            BY <3>1, <3>2
    <2> QED
        BY <2>1, <2>2
<1>9. lapsed' \in 0 .. nops' /\ namespaces' \subseteq Ns /\ roots' \subseteq Rev
    BY <1>1 DEF truncate_history, TablesOK
<1> QED
    BY <1>2, <1>3, <1>4, <1>7, <1>8, <1>9 DEF TablesOK

LEMMA RestoreTables ==
    ASSUME TablesOK, NEW v \in HeadView, NEW o \in Op, restore_history_trash(v, o)
    PROVE  TablesOK'
<1>1. v.ns \in Ns /\ o <= nops /\ trash[o] \in TrashRow
    BY DEF HeadView, restore_history_trash, TablesOK
<1>2. trash[o].oldHead \in RevOrNone /\ [trash[o] EXCEPT !.state = "restored"] \in TrashRow
    BY <1>1 DEF TrashRow
<1>3. head' \in [Ns -> RevOrNone] /\ epoch' \in [Ns -> Nat]
    BY <1>1, <1>2 DEF restore_history_trash, NextEpoch, TablesOK
<1>4. rstate' \in [Rev -> {"absent", "active", "trashed", "purged"}] /\ rop' \in [Rev -> 0 .. MaxOps]
    BY ConstantsAssumption DEF restore_history_trash, Untrash, TablesOK
<1>5. trash' = [trash EXCEPT ![o] = [trash[o] EXCEPT !.state = "restored"]]
    BY DEF restore_history_trash
<1>6. trash' \in [Op -> TrashRow \cup {NoRow}] /\ \A x \in Op : x <= nops <=> trash'[x] \in TrashRow
    BY <1>1, <1>2, <1>5 DEF TablesOK
<1> QED
    BY <1>3, <1>4, <1>6 DEF restore_history_trash, TablesOK

LEMMA PurgeTables ==
    ASSUME TablesOK, NEW n \in Ns, NEW S \in SUBSET Op, purge_history_trash(n, S)
    PROVE  TablesOK'
<1>1. \A o \in S : o \in Op /\ trash[o] \in TrashRow
    BY DEF purge_history_trash, Purgeable, ActiveOps, TablesOK
<1>2. \A o \in S : [trash[o] EXCEPT !.state = "purged"] \in TrashRow
    BY <1>1 DEF TrashRow
<1>3. trash' = [o \in Op |-> IF o \in S THEN [trash[o] EXCEPT !.state = "purged"] ELSE trash[o]]
    BY DEF purge_history_trash, MarkPurged
<1>4. trash' \in [Op -> TrashRow \cup {NoRow}] /\ \A x \in Op : x <= nops <=> trash'[x] \in TrashRow
    BY <1>1, <1>2, <1>3 DEF TablesOK
<1>5. rstate' \in [Rev -> {"absent", "active", "trashed", "purged"}] /\ roots' \subseteq Rev
    BY DEF purge_history_trash, TablesOK
<1> QED
    BY <1>4, <1>5 DEF purge_history_trash, TablesOK

LEMMA OtherTables ==
    ASSUME TablesOK, Lapse \/ (\E n \in Ns : create_namespace(n)) \/ UNCHANGED hvars
    PROVE  TablesOK'
<1>1. CASE Lapse
    BY <1>1 DEF Lapse, TablesOK
<1>2. CASE \E n \in Ns : create_namespace(n)
    BY <1>2 DEF create_namespace, TablesOK
<1>3. CASE UNCHANGED hvars
    BY <1>3 DEF hvars, TablesOK
<1> QED
    BY <1>1, <1>2, <1>3

(***************************************************************************)
(* Handlers.                                                               *)
(***************************************************************************)
Others(p) ==
    \A q \in Everyone : q # p =>
        pc'[q] = pc[q] /\ arg'[q] = arg[q] /\ todo'[q] = todo[q] /\ orphan'[q] = orphan[q]

LEMMA EndShape ==
    ASSUME Handlers, NEW p \in Everyone, End(p)
    PROVE  Handlers' /\ Others(p) /\ pc'[p] = "idle" /\ ~ orphan'[p]
<1>1. Others(p) /\ pc'[p] = "idle" /\ todo'[p] = {} /\ ~ orphan'[p]
    BY DEF Handlers, End, Others
<1>2. /\ pc' = [q \in Everyone |-> pc'[q]] /\ arg' = [q \in Everyone |-> arg'[q]]
      /\ todo' = [q \in Everyone |-> todo'[q]] /\ orphan' \in [Everyone -> BOOLEAN]
    BY DEF Handlers, End
<1>3. StepOK(pc'[p], arg'[p], todo'[p])
    BY <1>1 DEF StepOK, Putting, Committing, Collecting
<1>4. \A q \in Everyone : StepOK(pc'[q], arg'[q], todo'[q])
    BY <1>1, <1>3 DEF Others, Handlers
<1> QED
    BY <1>1, <1>2, <1>4 DEF Handlers

LEMMA ThenShape ==
    ASSUME Handlers, NEW p \in Everyone, NEW l, NEW a, NEW t, StepOK(l, a, t), Then(p, l, a, t)
    PROVE  /\ Handlers' /\ Others(p) /\ (~ orphan[p] => ~ orphan'[p])
           /\ ~ orphan[p] => pc'[p] = l /\ arg'[p] = a /\ todo'[p] = t
           /\ orphan[p] => pc'[p] = "idle"
<1>1. CASE orphan[p]
    BY <1>1, EndShape DEF Then
<1>2. CASE ~ orphan[p]
    <2>1. /\ Others(p) /\ ~ orphan'[p] /\ pc'[p] = l /\ arg'[p] = a /\ todo'[p] = t
        BY <1>2 DEF Handlers, Then, Others
    <2>2. /\ pc' = [q \in Everyone |-> pc'[q]] /\ arg' = [q \in Everyone |-> arg'[q]]
          /\ todo' = [q \in Everyone |-> todo'[q]] /\ orphan' \in [Everyone -> BOOLEAN]
        BY <1>2 DEF Handlers, Then
    <2>3. StepOK(pc'[p], arg'[p], todo'[p])
        BY <2>1
    <2>4. \A q \in Everyone : StepOK(pc'[q], arg'[q], todo'[q])
        BY <2>1, <2>3 DEF Others, Handlers
    <2> QED
        BY <1>2, <2>1, <2>2, <2>4 DEF Handlers
<1> QED
    BY <1>1, <1>2

\* Nothing else runs while start-up does: a request waits for the listener.
LEMMA TypesKept ==
    ASSUME TypeInv, NEW p \in Everyone, pc[p] # "idle" \/ (Serving /\ p \in Proc),
           TablesOK', Store', Queue', Handlers', Others(p)
    PROVE  TypeInv'
<1>1. StartsAlone'
    BY ServerAssumption DEF TypeInv, StartsAlone, Others, Serving, Everyone
<1> QED
    BY <1>1 DEF TypeInv

LEMMA StoreSame == ASSUME Store, UNCHANGED ovars PROVE Store'
BY DEF Store, ovars

LEMMA QueueSame == ASSUME Queue, UNCHANGED gvars PROVE Queue'
BY DEF Queue, gvars

LEMMA HeadStateType == ASSUME TablesOK, NEW n \in Ns PROVE get_head_state(n) \in HeadView
BY DEF TablesOK, get_head_state, HeadView

LEMMA OpenedType == ASSUME NEW r \in Rev PROVE Opened(r) \subseteq Obj
BY ServerAssumption, ContentType DEF Opened

\* What a request starts with has the shape its first effect expects.
LEMMA BeginShape ==
    ASSUME TypeInv, NEW p \in Proc, Request(p)
    PROVE  \E l \in {"put_rename", "commit_edges", "truncate_tx", "restore_tx", "gc_enqueue",
                     "purge_tx"} :
              \E a, t : /\ StepOK(l, a, t) /\ Begin(p, l, a, t)
                        /\ pc[p] = "idle" /\ Serving
                        /\ IF l \in ReadSide THEN gate_read(p) ELSE gate_write(p)
                        /\ l = "commit_edges" => a.rev \in files /\ t = Opened(a.rev)
<1>1. ASSUME NEW o \in Obj, StartPut(p, o) PROVE StepOK("put_rename", o, {}) /\ Begin(p, "put_rename", o, {}) /\ gate_read(p)
    BY <1>1 DEF StartPut, StepOK, Putting, Committing, Collecting
<1>2. ASSUME NEW n \in Ns, NEW r \in Rev, StartCommit(p, n, r)
      PROVE  LET a == [rev |-> r, view |-> get_head_state(n)] IN
             /\ StepOK("commit_edges", a, Opened(r)) /\ Begin(p, "commit_edges", a, Opened(r))
             /\ gate_read(p) /\ a.rev \in files /\ a.rev = r
    BY <1>2, HeadStateType, OpenedType DEF StartCommit, StepOK, Putting, Committing, Collecting, TypeInv
<1>3. ASSUME NEW n \in Ns, NEW h \in RevOrNone, StartTruncate(p, n, h)
      PROVE  LET a == [view |-> get_head_state(n), to |-> h] IN
             StepOK("truncate_tx", a, {}) /\ Begin(p, "truncate_tx", a, {}) /\ gate_write(p)
    BY <1>3, HeadStateType DEF StartTruncate, StepOK, Putting, Committing, Collecting, TypeInv
<1>4. ASSUME NEW n \in Ns, NEW o \in Op, StartRestore(p, n, o)
      PROVE  LET a == [view |-> get_head_state(n), op |-> o] IN
             StepOK("restore_tx", a, {}) /\ Begin(p, "restore_tx", a, {}) /\ gate_write(p)
    BY <1>4, HeadStateType DEF StartRestore, StepOK, Putting, Committing, Collecting, TypeInv
<1>5. ASSUME StartGc(p)
      PROVE  StepOK("gc_enqueue", None, {}) /\ Begin(p, "gc_enqueue", None, {}) /\ gate_write(p)
    BY <1>5 DEF StartGc, StepOK, Putting, Committing, Collecting
<1>6. ASSUME NEW n \in Ns, NEW S \in SUBSET Op, StartPurge(p, n, S)
      PROVE  LET a == [ns |-> n, ops |-> S] IN
             StepOK("purge_tx", a, {}) /\ Begin(p, "purge_tx", a, {}) /\ gate_write(p)
    BY <1>6 DEF StartPurge, StepOK, Putting, Committing, Collecting
<1>7. Serving /\ pc[p] = "idle"
    BY DEF Request, StartPut, StartCommit, StartTruncate, StartRestore, StartGc, StartPurge,
       gate_read, gate_write
<1>8. CASE \E o \in Obj : StartPut(p, o)
    BY <1>1, <1>7, <1>8 DEF ReadSide
<1>9. CASE \E n \in Ns, r \in Rev : StartCommit(p, n, r)
    BY <1>2, <1>7, <1>9 DEF ReadSide
<1>10. CASE \E n \in Ns, h \in RevOrNone : StartTruncate(p, n, h)
    BY <1>3, <1>7, <1>10 DEF ReadSide
<1>11. CASE \E n \in Ns, o \in Op : StartRestore(p, n, o)
    BY <1>4, <1>7, <1>11 DEF ReadSide
<1>12. CASE StartGc(p)
    BY <1>5, <1>7, <1>12 DEF ReadSide
<1>13. CASE \E n \in Ns, S \in SUBSET Op : StartPurge(p, n, S)
    BY <1>6, <1>7, <1>13 DEF ReadSide
<1> QED
    BY <1>8, <1>9, <1>10, <1>11, <1>12, <1>13 DEF Request

(***************************************************************************)
(* Every effect keeps the shapes, whether or not somebody awaits it.       *)
(***************************************************************************)
LEMMA IdleShape == ASSUME NEW a, NEW t PROVE StepOK("idle", a, t)
BY DEF StepOK, Putting, Committing, Collecting

LEMMA MyStep == ASSUME TypeInv, NEW p \in Everyone PROVE StepOK(pc[p], arg[p], todo[p])
BY DEF TypeInv, Handlers

LEMMA PutTypes ==
    ASSUME TypeInv, NEW p \in Everyone, PutRename(p) \/ PutRecord(p)
    PROVE  TablesOK' /\ Store' /\ Queue' /\ Handlers' /\ Others(p)
<1>1. arg[p] \in Obj /\ TablesOK' /\ Queue'
    BY MyStep, OtherTables, QueueSame DEF PutRename, PutRecord, StepOK, Putting, TypeInv
<1>2. Store'
    BY <1>1 DEF PutRename, PutRecord, TypeInv, Store
<1>3. StepOK("put_record", arg[p], {})
    BY <1>1 DEF StepOK, Putting, Committing, Collecting
<1> QED
    BY <1>1, <1>2, <1>3, EndShape, ThenShape DEF PutRename, PutRecord, TypeInv

LEMMA CommitTypes ==
    ASSUME TypeInv, NEW p \in Everyone,
           \/ CommitEdges(p) \/ CommitMissing(p) \/ RootEdges(p) \/ CommitSync(p) \/ CommitTx(p)
    PROVE  TablesOK' /\ Store' /\ Queue' /\ Handlers' /\ Others(p)
<1>1. arg[p] \in [rev : Rev, view : HeadView] /\ todo[p] \subseteq Obj /\ Queue'
    BY MyStep, QueueSame DEF CommitEdges, CommitMissing, RootEdges, CommitSync, CommitTx, StepOK,
       Committing, TypeInv
<1>2. arg[p].rev \in Rev /\ arg[p].rev \in Obj /\ arg[p].view \in HeadView
    BY <1>1, ServerAssumption
<1>3. \A l \in Committing, t \in SUBSET Obj : StepOK(l, arg[p], t)
    BY <1>1 DEF StepOK, Putting, Committing, Collecting
<1>4. CASE CommitEdges(p)
    <2>1. PICK o \in todo[p] : /\ ReplaceEdges(o)
                               /\ Then(p, "commit_edges", arg[p], todo[p] \ {o})
        BY <1>4 DEF CommitEdges
    <2>2. TablesOK' /\ Store'
        BY <1>1, <1>4, <2>1, OtherTables, ServerAssumption DEF CommitEdges, ReplaceEdges, Store, TypeInv
    <2>3. StepOK("commit_edges", arg[p], todo[p] \ {o})
        BY <1>1, <1>3 DEF Committing
    <2> QED
        BY <1>1, <2>1, <2>2, <2>3, ThenShape DEF TypeInv
<1>5. CASE CommitMissing(p)
    BY <1>1, <1>5, OtherTables, StoreSame, EndShape DEF CommitMissing, TypeInv
<1>6. CASE RootEdges(p)
    <2>1. TablesOK' /\ Store'
        BY <1>2, <1>6, OtherTables, ServerAssumption DEF RootEdges, ReplaceEdges, Store, TypeInv
    <2>2. StepOK("commit_sync", arg[p], {})
        BY <1>3 DEF Committing
    <2> QED
        BY <1>1, <1>6, <2>1, <2>2, ThenShape DEF RootEdges, TypeInv
<1>7. CASE CommitSync(p)
    <2>1. TablesOK' /\ Store'
        BY <1>7, OtherTables DEF CommitSync, sync_revision_graph_directories, Store, TypeInv
    <2>2. StepOK("commit_tx", arg[p], {})
        BY <1>3 DEF Committing
    <2> QED
        BY <1>1, <1>7, <2>1, <2>2, ThenShape DEF CommitSync, TypeInv
<1>8. CASE CommitTx(p)
    <2>1. TablesOK'
        BY <1>2, <1>8, CommitTables, OtherTables DEF CommitTx, TypeInv
    <2> QED
        BY <1>1, <1>8, <2>1, StoreSame, EndShape DEF CommitTx, TypeInv
<1> QED
    BY <1>4, <1>5, <1>6, <1>7, <1>8

LEMMA HistoryTypes ==
    ASSUME TypeInv, NEW p \in Everyone, TruncateTx(p) \/ RestoreTx(p)
    PROVE  TablesOK' /\ Store' /\ Queue' /\ Handlers' /\ Others(p)
<1>1. Store' /\ Queue' /\ Handlers' /\ Others(p)
    BY StoreSame, QueueSame, EndShape DEF TruncateTx, RestoreTx, TypeInv
<1>2. CASE TruncateTx(p)
    <2>1. arg[p] \in [view : HeadView, to : RevOrNone]
        BY <1>2, MyStep DEF TruncateTx, StepOK
    <2>2. arg[p].view \in HeadView /\ arg[p].to \in RevOrNone
        BY <2>1
    <2> QED
        BY <1>1, <1>2, <2>2, TruncateTables, OtherTables DEF TruncateTx, TypeInv
<1>3. CASE RestoreTx(p)
    <2>1. arg[p] \in [view : HeadView, op : Op]
        BY <1>3, MyStep DEF RestoreTx, StepOK
    <2>2. arg[p].view \in HeadView /\ arg[p].op \in Op
        BY <2>1
    <2> QED
        BY <1>1, <1>3, <2>2, RestoreTables, OtherTables DEF RestoreTx, TypeInv
<1> QED
    BY <1>2, <1>3

LEMMA EnqueueTypes ==
    ASSUME TypeInv, gcops < MaxGcOps, NEW objects \in SUBSET Obj, Enqueue(gcops + 1, objects),
           dels' \in {dels, dels \cup {gcops + 1}}
    PROVE  /\ Queue'
           /\ \A a : StepOK("gc_next", a, [op : {gcops + 1}, obj : objects])
<1>1. gcops \in Nat /\ MaxGcOps \in Nat /\ gcops + 1 \in GcOp
    BY ServerAssumption DEF TypeInv, Queue, GcOp
<1>2. [op : {gcops + 1}, obj : objects] \subseteq Entry
    BY <1>1 DEF Entry
<1>3. queue' \in [Entry -> {"none", "pending", "quarantined", "cancelled", "purged"}]
    BY DEF Enqueue, TypeInv, Queue
<1>4. dels' \subseteq 1 .. gcops' /\ gcops' \in 0 .. MaxGcOps /\ qfiles' \subseteq Entry
    BY <1>1 DEF Enqueue, TypeInv, Queue
<1> QED
    BY <1>2, <1>3, <1>4 DEF Queue, StepOK, Putting, Committing, Collecting

LEMMA PlanTypes ==
    ASSUME TypeInv, NEW p \in Everyone,
           EnqueueGc(p) \/ EnqueueNothing(p) \/ PurgeTx(p) \/ PurgeConflict(p)
    PROVE  TablesOK' /\ Store' /\ Queue' /\ Handlers' /\ Others(p)
<1>1. Store'
    BY StoreSame DEF EnqueueGc, EnqueueNothing, PurgeTx, PurgeConflict, TypeInv
<1>2. CASE EnqueueGc(p)
    <2>1. GcPlan \in SUBSET Obj
        BY DEF GcPlan
    <2>2. Queue' /\ StepOK("gc_next", None, [op : {gcops + 1}, obj : GcPlan])
        BY <1>2, <2>1, EnqueueTypes DEF EnqueueGc
    <2> QED
        BY <1>1, <1>2, <2>2, OtherTables, ThenShape DEF EnqueueGc, TypeInv
<1>3. CASE EnqueueNothing(p) \/ PurgeConflict(p)
    BY <1>1, <1>3, QueueSame, OtherTables, EndShape DEF EnqueueNothing, PurgeConflict, TypeInv
<1>4. CASE PurgeTx(p)
    <2> DEFINE T == PurgeTargets(arg[p].ns, arg[p].ops)
    <2>1. T \in SUBSET Obj
        BY ReachType DEF PurgeTargets, PurgePlan
    <2>2. /\ gcops < MaxGcOps /\ Enqueue(gcops + 1, T) /\ dels' = dels \cup {gcops + 1}
          /\ Then(p, "gc_next", None, [op : {gcops + 1}, obj : T])
          /\ purge_history_trash(arg[p].ns, arg[p].ops)
        BY <1>4 DEF PurgeTx
    <2> HIDE DEF T
    <2>3. Queue' /\ StepOK("gc_next", None, [op : {gcops + 1}, obj : T])
        BY <2>1, <2>2, EnqueueTypes
    <2>4. arg[p] \in [ns : Ns, ops : SUBSET Op]
        BY <1>4, MyStep DEF PurgeTx, StepOK
    <2>5. TablesOK'
        BY <2>2, <2>4, PurgeTables DEF TypeInv
    <2> QED
        BY <1>1, <2>2, <2>3, <2>5, ThenShape DEF TypeInv
<1> QED
    BY <1>2, <1>3, <1>4

LEMMA MarkTypes ==
    ASSUME TypeInv, NEW e \in Entry, NEW from,
           NEW to \in {"quarantined", "cancelled", "purged"}, Mark(e, from, to),
           UNCHANGED <<dels, gcops>>, qfiles' \subseteq Entry
    PROVE  Queue'
BY DEF Mark, TypeInv, Queue

LEMMA CollectTypes ==
    ASSUME TypeInv, NEW p \in Everyone,
           \/ GcNext(p) \/ GcDone(p) \/ GcCancel(p) \/ GcQuarantine(p) \/ GcComplete(p)
           \/ GcRemove(p) \/ GcMark(p)
    PROVE  TablesOK' /\ Store' /\ Queue' /\ Handlers' /\ Others(p)
<1>1. TablesOK' /\ todo[p] \subseteq Entry
    BY MyStep, OtherTables DEF GcNext, GcDone, GcCancel, GcQuarantine, GcComplete, GcRemove,
       GcMark, StepOK, Collecting, TypeInv
<1>2. \A l \in Collecting, e \in Entry, t \in SUBSET Entry : StepOK(l, e, t)
    BY DEF StepOK, Putting, Committing, Collecting
<1>3. StepOK("gc_next", None, todo[p]) /\ StepOK("boot_purge", None, {})
    BY <1>1 DEF StepOK, Putting, Committing, Collecting
<1>4. CASE GcNext(p)
    <2>1. PICK e \in todo[p], l \in {"gc_cancel", "gc_quarantine"} : Then(p, l, e, todo[p] \ {e})
        BY <1>4 DEF GcNext, GcRecheck
    <2>2. StepOK(l, e, todo[p] \ {e})
        BY <1>1, <1>2 DEF Collecting
    <2> QED
        BY <1>1, <1>4, <2>1, <2>2, StoreSame, QueueSame, ThenShape DEF GcNext, TypeInv
<1>5. CASE GcDone(p)
    BY <1>1, <1>3, <1>5, StoreSame, QueueSame, ThenShape, EndShape DEF GcDone, TypeInv
<1>6. CASE GcCancel(p) \/ GcMark(p)
    <2>1. arg[p] \in Entry
        BY <1>6, MyStep DEF GcCancel, GcMark, StepOK, Collecting
    <2>2. Queue'
        BY <1>6, <2>1, MarkTypes DEF GcCancel, GcMark, TypeInv, Queue
    <2> QED
        BY <1>1, <1>3, <1>6, <2>2, StoreSame, ThenShape DEF GcCancel, GcMark, TypeInv
<1>7. CASE GcQuarantine(p)
    <2>1. arg[p] \in Entry
        BY <1>7, MyStep DEF GcQuarantine, StepOK, Collecting
    <2>2. Store' /\ Queue'
        BY <1>7, <2>1 DEF GcQuarantine, TypeInv, Store, Queue
    <2>3. StepOK("gc_complete", arg[p], todo[p])
        BY <1>1, <1>2, <2>1 DEF Collecting
    <2> QED
        BY <1>1, <1>7, <2>2, <2>3, ThenShape DEF GcQuarantine, TypeInv
<1>8. CASE GcComplete(p)
    <2>1. arg[p] \in Entry
        BY <1>8, MyStep DEF GcComplete, StepOK, Collecting
    <2>2. arg[p].obj \in Obj
        BY <2>1 DEF Entry
    <2>3. Store'
        BY <1>8, <2>2 DEF GcComplete, complete_gc_entry, TypeInv, Store
    <2>4. Queue'
        BY <1>8, <2>1, MarkTypes DEF GcComplete, complete_gc_entry, TypeInv, Queue
    <2>5. StepOK("gc_remove", arg[p], todo[p])
        BY <1>1, <1>2, <2>1 DEF Collecting
    <2> QED
        BY <1>1, <1>3, <1>8, <2>3, <2>4, <2>5, ThenShape DEF GcComplete, TypeInv
<1>9. CASE GcRemove(p)
    <2>1. arg[p] \in Entry
        BY <1>9, MyStep DEF GcRemove, StepOK, Collecting
    <2>2. Queue'
        BY <1>9 DEF GcRemove, TypeInv, Queue
    <2>3. StepOK("gc_mark", arg[p], todo[p])
        BY <1>1, <1>2, <2>1 DEF Collecting
    <2> QED
        BY <1>1, <1>9, <2>2, <2>3, StoreSame, ThenShape DEF GcRemove, TypeInv
<1> QED
    BY <1>4, <1>5, <1>6, <1>7, <1>8, <1>9

LEMMA BootTypes ==
    ASSUME TypeInv, NEW p \in Everyone, BootPending(p) \/ BootPurge(p) \/ BootDone(p)
    PROVE  TablesOK' /\ Store' /\ Queue' /\ Handlers' /\ Others(p)
<1>1. TablesOK' /\ Store' /\ Queue'
    BY OtherTables, StoreSame, QueueSame DEF BootPending, BootPurge, BootDone, TypeInv
<1>2. StepOK("gc_next", None, Pending) /\ \A e \in Undeleted : StepOK("gc_remove", e, {})
    BY DEF StepOK, Putting, Committing, Collecting, Pending, Undeleted
<1> QED
    BY <1>1, <1>2, ThenShape, EndShape DEF BootPending, BootPurge, BootDone,
       quarantined_gc_entries_for_purge, TypeInv

LEMMA EffectBusy == ASSUME NEW p, Effect(p) PROVE pc[p] # "idle"
BY DEF Effect, PutRename, PutRecord, CommitEdges, CommitMissing, RootEdges, CommitSync, CommitTx,
   TruncateTx, RestoreTx, EnqueueGc, EnqueueNothing, PurgeTx, PurgeConflict, GcNext, GcDone,
   GcCancel, GcQuarantine, GcComplete, GcRemove, GcMark, BootPending, BootPurge, BootDone

LEMMA EffectTypes ==
    ASSUME TypeInv, NEW p \in Everyone, Effect(p) PROVE TypeInv' /\ Handlers' /\ Others(p)
<1>1. TablesOK' /\ Store' /\ Queue' /\ Handlers' /\ Others(p)
    BY PutTypes, CommitTypes, HistoryTypes, PlanTypes, CollectTypes, BootTypes DEF Effect
<1> QED
    BY <1>1, EffectBusy, TypesKept

LEMMA RequestTypes ==
    ASSUME TypeInv, NEW p \in Proc, Request(p) PROVE TypeInv'
<1>1. PICK l, a, t : StepOK(l, a, t) /\ Begin(p, l, a, t) /\ Serving
    BY BeginShape
<1>2. Handlers' /\ Others(p)
    BY <1>1, ThenShape DEF Begin, TypeInv, Everyone
<1> QED
    BY <1>1, <1>2, OtherTables, StoreSame, QueueSame, TypesKept DEF Begin, TypeInv, Everyone

LEMMA DropTypes ==
    ASSUME TypeInv, NEW p \in Proc, Fail(p) \/ Disconnect(p) PROVE TypeInv'
<1>1. TablesOK' /\ Store' /\ Queue' /\ p \in Everyone /\ pc[p] # "idle"
    BY OtherTables, StoreSame, QueueSame DEF Fail, Disconnect, TypeInv, Everyone
<1>2. CASE Fail(p)
    BY <1>1, <1>2, EndShape, TypesKept DEF Fail, TypeInv
<1>3. CASE Disconnect(p)
    <2>1. UNCHANGED <<pc, arg, todo>> /\ orphan' = [orphan EXCEPT ![p] = TRUE]
        BY <1>3 DEF Disconnect
    <2>2. Handlers' /\ StartsAlone'
        BY <2>1 DEF Handlers, TypeInv, StartsAlone
    <2> QED
        BY <1>1, <2>2 DEF TypeInv
<1> QED
    BY <1>2, <1>3

LEMMA CrashTypes == ASSUME TypeInv, Crash PROVE TypeInv'
<1>1. TablesOK' /\ Queue'
    BY OtherTables, QueueSame DEF Crash, TypeInv
<1>2. PICK lost \in SUBSET (files \ synced) : files' = files \ lost
    BY DEF Crash
<1>3. Store'
    BY <1>2 DEF Crash, TypeInv, Store
<1>4. Handlers'
    BY DEF Crash, Handlers, StepOK, Putting, Committing, Collecting
<1>5. StartsAlone'
    BY ServerAssumption DEF Crash, StartsAlone, Everyone
<1> QED
    BY <1>1, <1>3, <1>4, <1>5 DEF TypeInv

LEMMA TimeTypes ==
    ASSUME TypeInv,
           Expire \/ (\E n \in Ns : CreateNamespace(n)) \/ (\E o \in Obj : Age(o)) \/ UNCHANGED svars
    PROVE  TypeInv'
<1>1. TablesOK' /\ Queue' /\ UNCHANGED pvars
    BY OtherTables, QueueSame DEF Expire, CreateNamespace, Age, svars, TypeInv
<1>2. Store'
    BY StoreSame DEF Expire, CreateNamespace, Age, svars, TypeInv, Store, ovars
<1>3. Handlers' /\ StartsAlone'
    BY <1>1 DEF pvars, Handlers, TypeInv, StartsAlone
<1> QED
    BY <1>1, <1>2, <1>3 DEF TypeInv

LEMMA TypeStep == TypeInv /\ [SNext]_svars => TypeInv'
BY EffectTypes, RequestTypes, DropTypes, CrashTypes, TimeTypes DEF SNext

LEMMA TypeInit == SInit => TypeInv
<1> SUFFICES ASSUME SInit PROVE TypeInv
    OBVIOUS
<1>1. TablesOK
    BY RowFacts, ConstantsAssumption DEF SInit, InitTables, TablesOK, RevOrNone, Op
<1>2. Store /\ Queue
    BY ServerAssumption DEF SInit, Store, Queue
<1>3. Handlers /\ StartsAlone
    BY DEF SInit, Handlers, StartsAlone, StepOK, Putting, Committing, Collecting, Everyone
<1> QED
    BY <1>1, <1>2, <1>3 DEF TypeInv

\* The shapes of tables, store, queue and handlers, whoever is disconnected.
THEOREM ServerShapes == ServerSpec => []TypeInv
<1>1. SInit => TypeInv
    BY TypeInit
<1>2. TypeInv /\ [SNext]_svars => TypeInv'
    BY TypeStep
<1> QED
    BY <1>1, <1>2, PTL DEF ServerSpec

(***************************************************************************)
(* Every table, file set and queue keeps its type, and no request runs     *)
(* while AppState::initialize resumes collections: whatever handlers fail, *)
(* are dropped by their clients or die with the process.                   *)
(***************************************************************************)
THEOREM ServerTypeCorrect == ServerSpec => []ServerTypeOK
<1>1. TypeInv => ServerTypeOK
    BY DEF TypeInv, ServerTypeOK, Store, Queue, StartsAlone
<1> QED
    BY <1>1, ServerShapes, PTL

(***************************************************************************)
(* What the transactions on history do to the set of protected revisions.  *)
(***************************************************************************)
LEMMA OwnedTypes ==
    ASSUME TablesOK PROVE /\ nops \in Nat /\ lapsed \in Nat /\ lapsed <= nops
                          /\ \A r \in Rev : rop[r] \in Nat
                          /\ \A o \in 1 .. nops : o \in Op /\ trash[o] \in TrashRow
BY ConstantsAssumption DEF TablesOK, Op

LEMMA CommitProtects ==
    ASSUME TablesOK, Owned, NEW v \in HeadView, NEW r \in Rev, commit_revision_root(v, r)
    PROVE  Owned' /\ Protected' \subseteq Protected \cup {r}
<1>1. /\ rstate[r] = "absent" /\ rstate' = [rstate EXCEPT ![r] = "active"] /\ roots' = roots \cup {r}
      /\ UNCHANGED <<rop, trash, nops, lapsed>>
    BY DEF commit_revision_root, Committable
<1>2. Owned'
    BY <1>1 DEF Owned, TablesOK
<1>3. Protected' \subseteq Protected \cup {r}
    BY <1>1 DEF Protected, TablesOK
<1> QED
    BY <1>2, <1>3

LEMMA TruncateProtects ==
    ASSUME TablesOK, Owned, NEW v \in HeadView, NEW h \in RevOrNone, truncate_history(v, h)
    PROVE  Owned' /\ Protected' \subseteq Protected
<1> DEFINE gone == Removed(v.ns, h)
           row == [ns |-> v.ns, oldHead |-> head[v.ns], newHead |-> h, state |-> "active"]
<1>1. /\ rstate' = [r \in Rev |-> IF r \in gone THEN "trashed" ELSE rstate[r]]
      /\ rop' = [r \in Rev |-> IF r \in gone THEN nops + 1 ELSE rop[r]]
      /\ trash' = [trash EXCEPT ![nops + 1] = row]
      /\ nops' = nops + 1 /\ UNCHANGED <<roots, lapsed>>
      /\ \A r \in gone : rstate[r] = "active"
    BY DEF truncate_history, Truncatable
<1>2. row.state = "active"
    OBVIOUS
<1>3. nops \in Nat /\ lapsed <= nops /\ lapsed \in Nat /\ nops + 1 \in Op
    BY OwnedTypes, ConstantsAssumption DEF truncate_history, Op
<1>4. \A o \in Op : trash'[o] = IF o = nops + 1 THEN row ELSE trash[o]
    BY <1>1 DEF TablesOK
<1> HIDE DEF gone, row
<1>5. ASSUME NEW r \in Rev
      PROVE  /\ r \in gone => rstate'[r] = "trashed" /\ rop'[r] = nops + 1
             /\ r \notin gone => rstate'[r] = rstate[r] /\ rop'[r] = rop[r]
             /\ rop[r] # 0 => rop[r] \in Op /\ rop[r] <= nops /\ rop[r] # nops + 1
    BY <1>1, <1>3, OwnedTypes DEF Owned, Op, TablesOK
<1>6. Owned'
    <2> SUFFICES ASSUME NEW r \in Rev
                 PROVE  /\ rstate'[r] = "trashed" => rop'[r] # 0
                        /\ rop'[r] # 0 => /\ rop'[r] <= nops'
                                          /\ trash'[rop'[r]].state = "active" => rstate'[r] = "trashed"
        BY DEF Owned
    <2>1. CASE r \in gone
        BY <1>1, <1>3, <1>5, <2>1
    <2>2. CASE r \notin gone
        BY <1>1, <1>3, <1>4, <1>5, <2>2, OwnedTypes DEF Owned
    <2> QED
        BY <2>1, <2>2
<1>7. Protected' \subseteq Protected
    <2> SUFFICES ASSUME NEW r \in Protected' PROVE r \in Protected
        OBVIOUS
    <2>1. /\ r \in roots /\ r \in Rev
          /\ rstate'[r] = "active"
             \/ (rstate'[r] = "trashed" /\ trash'[rop'[r]].state = "active" /\ rop'[r] > lapsed)
        BY <1>1 DEF Protected, TablesOK
    <2>2. CASE r \in gone
        BY <1>1, <2>1, <2>2 DEF Protected
    <2>3. CASE r \notin gone
        BY <1>4, <1>5, <2>1, <2>3 DEF Protected, Owned
    <2> QED
        BY <2>2, <2>3
<1> QED
    BY <1>6, <1>7

LEMMA RestoreProtects ==
    ASSUME TablesOK, Owned, NEW v \in HeadView, NEW o \in Op, restore_history_trash(v, o)
    PROVE  Owned' /\ Protected' \subseteq Protected
<1>1. /\ rstate' = [r \in Rev |-> IF rop[r] = o THEN "active" ELSE rstate[r]]
      /\ rop' = [r \in Rev |-> IF rop[r] = o THEN 0 ELSE rop[r]]
      /\ trash' = [trash EXCEPT ![o] = [trash[o] EXCEPT !.state = "restored"]]
      /\ trash[o].state = "active" /\ o > lapsed /\ UNCHANGED <<roots, nops, lapsed>>
    BY DEF restore_history_trash, Untrash, Restorable
<1>2. o # 0 /\ \A x \in Op : x # o => trash'[x] = trash[x]
    BY <1>1 DEF Op, TablesOK
<1>3. \A r \in Rev : /\ rop[r] = o => rstate[r] = "trashed" /\ rstate'[r] = "active" /\ rop'[r] = 0
                     /\ rop[r] # o => rstate'[r] = rstate[r] /\ rop'[r] = rop[r]
                     /\ rop[r] # 0 => rop[r] \in Op
    BY <1>1, <1>2, OwnedTypes DEF Owned, Op
<1>4. Owned'
    BY <1>1, <1>2, <1>3 DEF Owned
<1>5. Protected' \subseteq Protected
    BY <1>1, <1>2, <1>3 DEF Protected, Owned, TablesOK
<1> QED
    BY <1>4, <1>5

LEMMA PurgeProtects ==
    ASSUME TablesOK, Owned, NEW n \in Ns, NEW S \in SUBSET Op, purge_history_trash(n, S)
    PROVE  Owned' /\ Protected' \subseteq Protected
<1>1. /\ rstate' = [r \in Rev |-> IF r \in TrashedBy(n, S) THEN "purged" ELSE rstate[r]]
      /\ trash' = [o \in Op |-> IF o \in S THEN [trash[o] EXCEPT !.state = "purged"] ELSE trash[o]]
      /\ roots' = roots \ TrashedBy(n, S) /\ UNCHANGED <<rop, nops, lapsed>>
    BY DEF purge_history_trash, MarkPurged
<1>2. \A o \in S : trash[o] \in TrashRow
    BY DEF purge_history_trash, Purgeable, ActiveOps, TablesOK
<1>3. \A o \in S : trash'[o].state = "purged"
    BY <1>1, <1>2 DEF TrashRow
<1>4. \A o \in Op : o \notin S => trash'[o] = trash[o]
    BY <1>1
<1>5. \A r \in Rev : /\ rop[r] # 0 => rop[r] \in Op
                     /\ r \in TrashedBy(n, S) => rstate[r] = "trashed" /\ rop[r] \in S /\ rstate'[r] = "purged"
                     /\ r \notin TrashedBy(n, S) => rstate'[r] = rstate[r]
    BY <1>1, OwnedTypes DEF Owned, Op, TrashedBy
<1>6. Owned'
    BY <1>1, <1>3, <1>4, <1>5 DEF Owned
<1>7. Protected' \subseteq Protected
    BY <1>1, <1>3, <1>4, <1>5 DEF Protected, Owned, TablesOK
<1> QED
    BY <1>6, <1>7

LEMMA OtherProtects ==
    ASSUME TablesOK, Owned, Lapse \/ (\E n \in Ns : create_namespace(n)) \/ UNCHANGED hvars
    PROVE  Owned' /\ Protected' \subseteq Protected
<1>1. UNCHANGED <<rstate, rop, roots, trash, nops>> /\ lapsed' >= lapsed /\ lapsed' \in Nat
    BY OwnedTypes DEF Lapse, create_namespace, hvars
<1>2. Owned'
    BY <1>1 DEF Owned
<1>3. Protected' \subseteq Protected
    BY <1>1, OwnedTypes DEF Protected, TablesOK
<1> QED
    BY <1>2, <1>3

(***************************************************************************)
(* The gate.                                                               *)
(***************************************************************************)
\* An effect leaves a handler on its side of the gate.
LEMMA EffectSide ==
    ASSUME TypeInv, Awaited, NEW p \in Everyone, Effect(p)
    PROVE  (pc'[p] \in ReadSide \cup {"idle"} \/ Writes(p)) /\ ~ orphan'[p]
<1>1. ~ orphan[p] /\ Handlers
    BY DEF Awaited, TypeInv
<1>2. ASSUME End(p) PROVE pc'[p] = "idle" /\ ~ orphan'[p]
    BY <1>1, <1>2, EndShape
<1>3. ASSUME NEW l, NEW a, NEW t, Then(p, l, a, t) PROVE pc'[p] = l /\ ~ orphan'[p]
    BY <1>1, <1>3 DEF Then, Handlers
<1>4. CASE \/ PutRename(p) \/ PutRecord(p) \/ CommitEdges(p) \/ CommitMissing(p) \/ RootEdges(p)
           \/ CommitSync(p) \/ CommitTx(p)
    BY <1>2, <1>3, <1>4 DEF PutRename, PutRecord, CommitEdges, CommitMissing, RootEdges,
       CommitSync, CommitTx, ReadSide
<1>5. CASE TruncateTx(p) \/ RestoreTx(p) \/ EnqueueNothing(p) \/ PurgeConflict(p) \/ BootDone(p)
    BY <1>2, <1>5 DEF TruncateTx, RestoreTx, EnqueueNothing, PurgeConflict, BootDone
<1>6. CASE EnqueueGc(p) \/ PurgeTx(p) \/ BootPending(p) \/ BootPurge(p)
    BY <1>3, <1>6 DEF EnqueueGc, PurgeTx, BootPending, BootPurge, Writes, ReadSide
<1>7. CASE GcNext(p) \/ GcDone(p)
    BY <1>2, <1>3, <1>7 DEF GcNext, GcDone, GcRecheck, Writes, ReadSide
<1>8. CASE GcCancel(p) \/ GcQuarantine(p) \/ GcComplete(p) \/ GcRemove(p) \/ GcMark(p)
    BY <1>3, <1>8 DEF GcCancel, GcQuarantine, GcComplete, GcRemove, GcMark, Writes, ReadSide
<1> QED
    BY <1>4, <1>5, <1>6, <1>7, <1>8 DEF Effect

LEMMA EffectGate ==
    ASSUME TypeInv, Gated, Awaited, NEW p \in Everyone, Effect(p)
    PROVE  Gated' /\ Awaited'
<1>1. /\ Others(p) /\ (pc'[p] \in ReadSide \cup {"idle"} \/ Writes(p)) /\ ~ orphan'[p]
      /\ pc[p] # "idle"
    BY EffectTypes, EffectSide, EffectBusy
<1> QED
    BY <1>1 DEF Others, Gated, Awaited, Writes

(***************************************************************************)
(* Handlers that only add files and put edges right disturb nobody.        *)
(***************************************************************************)
Adds ==
    /\ files \subseteq files' /\ synced \subseteq synced'
    /\ \A o \in Obj : edges'[o] \in {edges[o], Refs[o]}

LEMMA AddsKeep ==
    ASSUME TypeInv, ContentInv, Adds, UNCHANGED hvars
    PROVE  Owned' /\ Kept' /\ Harmless' /\ Protected' = Protected
<1>1. Protected' = Protected
    BY DEF hvars, Protected
<1>2. \A o \in Content(Protected) : o \in Obj
    BY ContentType
<1>3. Kept'
    BY <1>1, <1>2 DEF Kept, ContentInv, Adds, Linked, Content
<1>4. Owned' /\ Harmless'
    BY DEF ContentInv, hvars, Owned, Harmless, Adds
<1> QED
    BY <1>1, <1>3, <1>4

LEMMA AddsOthers ==
    ASSUME TypeInv, ContentInv, Adds, NEW q \in Everyone,
           pc'[q] = pc[q], arg'[q] = arg[q], todo'[q] = todo[q]
    PROVE  Validated(q)'
<1>1. pc[q] \in Committing => arg[q].rev \in Rev
    BY MyStep DEF StepOK
<1>2. \A r : Content({r}) \subseteq Obj
    BY ContentType
<1>3. pc[q] \in Committing => Opened(arg[q].rev) \subseteq Obj
    BY <1>1, OpenedType
<1>4. Validated(q)
    BY DEF ContentInv
<1>5. pc'[q] \in Committing => arg'[q].rev \in files'
    BY <1>4 DEF Validated, Adds
<1>6. ASSUME pc'[q] = "commit_edges", NEW o \in Opened(arg'[q].rev) \ todo'[q]
      PROVE  {o} \cup Refs[o] \subseteq files' /\ Linked(o)'
    BY <1>3, <1>4, <1>6 DEF Validated, Adds, Linked, Committing
<1>7. ASSUME pc'[q] = "commit_sync", NEW o \in Content({arg'[q].rev}) PROVE o \in files' /\ Linked(o)'
    BY <1>2, <1>4, <1>7 DEF Validated, Adds, Linked
<1>8. ASSUME pc'[q] = "commit_tx", NEW o \in Content({arg'[q].rev}) PROVE o \in synced' /\ Linked(o)'
    BY <1>2, <1>4, <1>8 DEF Validated, Adds, Linked
<1> QED
    BY <1>5, <1>6, <1>7, <1>8 DEF Validated

\* Fewer protected revisions, less that must not be collected.
LEMMA StillDoomed ==
    ASSUME TypeInv, ContentInv, Protected' \subseteq Protected, NEW q \in Everyone,
           pc'[q] = pc[q], arg'[q] = arg[q]
    PROVE  Doomed(q)'
<1>1. Content(Protected)' \subseteq Content(Protected)
    BY ProtectedType, ContentMono DEF TypeInv, Content
<1> QED
    BY <1>1 DEF ContentInv, Doomed

\* A handler that is on neither of these steps has nothing to show.
LEMMA NothingToShow ==
    ASSUME NEW q, pc'[q] \notin Committing \cup {"gc_quarantine", "gc_complete"}
    PROVE  Validated(q)' /\ Doomed(q)'
BY DEF Validated, Doomed, Committing

(***************************************************************************)
(* Effects under the read gate.                                            *)
(***************************************************************************)
LEMMA AddsEffect ==
    ASSUME TypeInv, ContentInv, NEW p \in Everyone, Effect(p), Adds, UNCHANGED hvars,
           Validated(p)', Doomed(p)'
    PROVE  ContentInv'
<1>1. Others(p) /\ Gated' /\ Awaited'
    BY EffectTypes, EffectGate DEF ContentInv
<1>2. Owned' /\ Kept' /\ Harmless' /\ Protected' = Protected
    BY AddsKeep
<1>3. \A q \in Everyone : q # p => Validated(q)' /\ Doomed(q)'
    BY <1>1, <1>2, AddsOthers, StillDoomed DEF Others
<1> QED
    BY <1>1, <1>2, <1>3 DEF ContentInv

LEMMA AddsSame == ASSUME UNCHANGED <<files, synced, edges>> PROVE Adds
BY DEF Adds

LEMMA PutContent ==
    ASSUME TypeInv, ContentInv, NEW p \in Everyone, PutRename(p) \/ PutRecord(p)
    PROVE  ContentInv'
<1>1. Effect(p) /\ Adds /\ UNCHANGED hvars
    BY DEF Effect, PutRename, PutRecord, Adds
<1>2. pc'[p] \in {"put_record", "idle"}
    BY DEF PutRename, PutRecord, Then, End, TypeInv, Handlers
<1> QED
    BY <1>1, <1>2, NothingToShow, AddsEffect DEF Committing

LEMMA CommitEdgesContent ==
    ASSUME TypeInv, ContentInv, NEW p \in Everyone, CommitEdges(p)
    PROVE  ContentInv'
<1>1. PICK o \in todo[p] : /\ {o} \cup Refs[o] \subseteq files /\ ReplaceEdges(o)
                           /\ Then(p, "commit_edges", arg[p], todo[p] \ {o})
    BY DEF CommitEdges
<1>2. /\ pc[p] = "commit_edges" /\ arg[p].rev \in Rev /\ todo[p] \subseteq Obj
      /\ UNCHANGED <<hvars, files, synced>>
    BY MyStep DEF CommitEdges, StepOK, Committing
<1>3. pc'[p] = "commit_edges" /\ arg'[p] = arg[p] /\ todo'[p] = todo[p] \ {o}
    BY <1>1 DEF Then, TypeInv, Handlers, ContentInv, Awaited
<1>4. \A x \in Obj : edges'[x] = IF x = o THEN Refs[o] ELSE edges[x]
    BY <1>1, <1>2 DEF ReplaceEdges, TypeInv, Store
<1>5. Effect(p) /\ Adds
    BY <1>2, <1>4 DEF Effect, Adds
<1>6. /\ arg[p].rev \in files
      /\ \A x \in Opened(arg[p].rev) \ todo[p] : {x} \cup Refs[x] \subseteq files /\ Linked(x)
    BY <1>2 DEF ContentInv, Validated, Committing
<1>7. \A x \in Opened(arg[p].rev) \ todo'[p] : {x} \cup Refs[x] \subseteq files' /\ Linked(x)'
    <2> SUFFICES ASSUME NEW x \in Opened(arg[p].rev), x \notin todo[p] \ {o}
                 PROVE  {x} \cup Refs[x] \subseteq files /\ Linked(x)'
        BY <1>2, <1>3
    <2>1. x \in Obj
        BY <1>2, OpenedType
    <2>2. CASE x = o
        BY <1>1, <1>4, <2>1, <2>2 DEF Linked
    <2>3. CASE x # o
        BY <1>4, <1>6, <2>1, <2>3 DEF Linked
    <2> QED
        BY <2>2, <2>3
<1>8. Validated(p)' /\ Doomed(p)'
    BY <1>2, <1>3, <1>6, <1>7 DEF Validated, Doomed
<1> QED
    BY <1>2, <1>5, <1>8, AddsEffect

\* The walk has opened everything with links, so all of the content is there.
LEMMA WalkIsComplete ==
    ASSUME NEW r \in Rev, r \in files, files \subseteq Obj,
           \A o \in Opened(r) : {o} \cup Refs[o] \subseteq files
    PROVE  Content({r}) \subseteq files
<1> DEFINE T == Content({r}) \cap files
<1>1. T \in SUBSET Obj /\ {r} \subseteq T
    BY ContentType, ReachSelf, ServerAssumption DEF Content
<1>2. ASSUME NEW x \in T PROVE Refs[x] \subseteq T
    <2>1. Refs[x] \subseteq Content({r})
        BY ReachClosed, ServerAssumption DEF Content
    <2>2. CASE x = r
        <3>1. \A y \in Refs[r] : y = r \/ y \in Opened(r)
            BY DEF Opened
        <3> QED
            BY <2>1, <2>2, <3>1
    <2>3. CASE x # r /\ Refs[x] # {}
        <3>1. x \in Opened(r)
            BY <2>3 DEF Opened
        <3> QED
            BY <2>1, <3>1
    <2> QED
        BY <2>2, <2>3
<1>3. Reach(Refs, {r}) \subseteq T
    BY <1>1, <1>2, ReachLeast
<1> QED
    BY <1>3 DEF Content

LEMMA RootEdgesContent ==
    ASSUME TypeInv, ContentInv, NEW p \in Everyone, RootEdges(p)
    PROVE  ContentInv'
<1> DEFINE r == arg[p].rev
<1>1. /\ pc[p] = "commit_edges" /\ r \in Rev /\ r \in Obj /\ todo[p] = {} /\ ReplaceEdges(r)
      /\ Then(p, "commit_sync", arg[p], {}) /\ UNCHANGED <<hvars, files, synced>>
    BY MyStep, ServerAssumption DEF RootEdges, StepOK, Committing
<1>2. pc'[p] = "commit_sync" /\ arg'[p] = arg[p]
    BY <1>1 DEF Then, TypeInv, Handlers, ContentInv, Awaited
<1>3. \A x \in Obj : edges'[x] = IF x = r THEN Refs[r] ELSE edges[x]
    BY <1>1 DEF ReplaceEdges, TypeInv, Store
<1>4. Effect(p) /\ Adds
    BY <1>1, <1>3 DEF Effect, Adds
<1>5. r \in files /\ \A x \in Opened(r) : {x} \cup Refs[x] \subseteq files /\ Linked(x)
    BY <1>1 DEF ContentInv, Validated, Committing
<1> HIDE DEF r
<1>6. Content({r}) \subseteq files /\ Content({r}) \subseteq Obj
    BY <1>1, <1>5, WalkIsComplete, ContentType DEF TypeInv, Store
<1>7. ASSUME NEW x \in Content({r}) PROVE Linked(x)'
    <2>1. x \in Obj /\ (edges[x] = Refs[x] => edges'[x] = Refs[x])
        BY <1>3, <1>6
    <2>2. CASE x = r
        BY <1>1, <1>3, <2>2 DEF Linked
    <2>3. CASE x # r /\ Refs[x] = {}
        BY <1>3, <2>1, <2>3 DEF ContentInv, Harmless, Linked
    <2>4. CASE x # r /\ Refs[x] # {}
        <3>1. x \in Opened(r)
            BY <2>4 DEF Opened
        <3> QED
            BY <1>5, <2>1, <3>1 DEF Linked
    <2> QED
        BY <2>2, <2>3, <2>4
<1>8. arg'[p].rev = r
    BY <1>2 DEF r
<1>9. Validated(p)' /\ Doomed(p)'
    BY <1>1, <1>2, <1>5, <1>6, <1>7, <1>8 DEF Validated, Doomed
<1> QED
    BY <1>1, <1>4, <1>9, AddsEffect

LEMMA CommitSyncContent ==
    ASSUME TypeInv, ContentInv, NEW p \in Everyone, CommitSync(p)
    PROVE  ContentInv'
<1>1. /\ pc[p] = "commit_sync" /\ synced' = synced \cup (Content({arg[p].rev}) \cap files)
      /\ Then(p, "commit_tx", arg[p], {}) /\ UNCHANGED <<hvars, files, edges>>
    BY DEF CommitSync, sync_revision_graph_directories
<1>2. pc'[p] = "commit_tx" /\ arg'[p] = arg[p]
    BY <1>1 DEF Then, TypeInv, Handlers, ContentInv, Awaited
<1>3. Effect(p) /\ Adds
    BY <1>1 DEF Effect, Adds
<1>4. arg[p].rev \in files /\ \A o \in Content({arg[p].rev}) : o \in files /\ Linked(o)
    BY <1>1 DEF ContentInv, Validated, Committing
<1>5. Validated(p)' /\ Doomed(p)'
    BY <1>1, <1>2, <1>4 DEF Validated, Doomed, Linked
<1> QED
    BY <1>1, <1>3, <1>5, AddsEffect

LEMMA CommitTxContent ==
    ASSUME TypeInv, ContentInv, NEW p \in Everyone, CommitTx(p)
    PROVE  ContentInv'
<1> DEFINE r == arg[p].rev
<1>1. /\ pc[p] = "commit_tx" /\ r \in Rev /\ r \in Obj /\ arg[p].view \in HeadView
      /\ End(p) /\ UNCHANGED <<files, synced, edges>> /\ Effect(p)
      /\ commit_revision_root(arg[p].view, r) \/ UNCHANGED hvars
    BY MyStep, ServerAssumption DEF CommitTx, StepOK, Committing, ovars, Effect
<1>2. Others(p) /\ pc'[p] = "idle" /\ Gated' /\ Awaited'
    BY <1>1, EndShape, EffectGate DEF TypeInv, ContentInv
<1>3. Owned' /\ Protected' \subseteq Protected \cup {r}
    BY <1>1, CommitProtects, OtherProtects DEF TypeInv, ContentInv
<1>4. \A o \in Content({r}) : o \in synced /\ Linked(o)
    BY <1>1 DEF ContentInv, Validated
<1> HIDE DEF r
<1>5. Content(Protected') \subseteq Content(Protected) \cup Content({r})
    <2>1. Protected \in SUBSET Obj /\ {r} \in SUBSET Obj /\ Protected \cup {r} \in SUBSET Obj
        BY <1>1, ProtectedType DEF TypeInv
    <2>2. Content(Protected') \subseteq Content(Protected \cup {r})
        BY <1>3, <2>1, ContentMono
    <2> QED
        BY <2>1, <2>2, ContentBoth
<1>6. Kept'
    BY <1>1, <1>4, <1>5 DEF Kept, ContentInv, Linked
<1>7. Harmless'
    BY <1>1 DEF ContentInv, Harmless
<1>8. \A q \in Everyone : q # p => ~ Writes(q)
    BY <1>1 DEF ContentInv, Gated
<1>9. ASSUME NEW q \in Everyone PROVE Validated(q)' /\ Doomed(q)'
    <2>1. CASE q = p
        BY <1>2, <2>1, NothingToShow DEF Committing
    <2>2. CASE q # p
        <3>1. Validated(q)'
            BY <1>1, <1>2, <2>2, AddsSame, AddsOthers DEF Others
        <3>2. Doomed(q)'
            BY <1>2, <1>8, <2>2 DEF Others, Doomed, Writes, ReadSide
        <3> QED
            BY <3>1, <3>2
    <2> QED
        BY <2>1, <2>2
<1> QED
    BY <1>2, <1>3, <1>6, <1>7, <1>9 DEF ContentInv

(***************************************************************************)
(* Effects that leave the store alone and protect no more than before.     *)
(***************************************************************************)
LEMMA ShrinkKeeps ==
    ASSUME TypeInv, ContentInv, Protected' \subseteq Protected, UNCHANGED <<synced, edges>>
    PROVE  Kept' /\ Harmless'
<1>1. Content(Protected') \subseteq Content(Protected)
    BY ProtectedType, ContentMono DEF TypeInv
<1> QED
    BY <1>1 DEF Kept, ContentInv, Linked, Harmless

LEMMA QuietEffect ==
    ASSUME TypeInv, ContentInv, NEW p \in Everyone, Effect(p), UNCHANGED <<files, synced, edges>>,
           Owned', Protected' \subseteq Protected, Validated(p)', Doomed(p)'
    PROVE  ContentInv'
<1>1. Others(p) /\ Gated' /\ Awaited'
    BY EffectTypes, EffectGate DEF ContentInv
<1>2. \A q \in Everyone : q # p => Validated(q)' /\ Doomed(q)'
    BY <1>1, AddsSame, AddsOthers, StillDoomed DEF Others
<1> QED
    BY <1>1, <1>2, ShrinkKeeps DEF ContentInv

LEMMA HistoryContent ==
    ASSUME TypeInv, ContentInv, NEW p \in Everyone, TruncateTx(p) \/ RestoreTx(p)
    PROVE  ContentInv'
<1>1. Effect(p) /\ UNCHANGED <<files, synced, edges>> /\ pc'[p] = "idle"
    BY EndShape DEF Effect, TruncateTx, RestoreTx, ovars, TypeInv
<1>2. Owned' /\ Protected' \subseteq Protected
    <2>1. CASE TruncateTx(p)
        <3>1. arg[p] \in [view : HeadView, to : RevOrNone]
            BY <2>1, MyStep DEF TruncateTx, StepOK
        <3>2. arg[p].view \in HeadView /\ arg[p].to \in RevOrNone
            BY <3>1
        <3> QED
            BY <2>1, <3>2, TruncateProtects, OtherProtects DEF TruncateTx, TypeInv, ContentInv
    <2>2. CASE RestoreTx(p)
        <3>1. arg[p] \in [view : HeadView, op : Op]
            BY <2>2, MyStep DEF RestoreTx, StepOK
        <3>2. arg[p].view \in HeadView /\ arg[p].op \in Op
            BY <3>1
        <3> QED
            BY <2>2, <3>2, RestoreProtects, OtherProtects DEF RestoreTx, TypeInv, ContentInv
    <2> QED
        BY <2>1, <2>2
<1> QED
    BY <1>1, <1>2, NothingToShow, QuietEffect DEF Committing

LEMMA PlanContent ==
    ASSUME TypeInv, ContentInv, NEW p \in Everyone,
           EnqueueGc(p) \/ EnqueueNothing(p) \/ PurgeTx(p) \/ PurgeConflict(p) \/ CommitMissing(p)
    PROVE  ContentInv'
<1>1. Effect(p) /\ UNCHANGED <<files, synced, edges>>
    BY DEF Effect, EnqueueGc, EnqueueNothing, PurgeTx, PurgeConflict, CommitMissing, ovars
<1>2. pc'[p] \in {"idle", "gc_next"}
    BY DEF EnqueueGc, EnqueueNothing, PurgeTx, PurgeConflict, CommitMissing, Then, End, TypeInv,
       Handlers
<1>3. Owned' /\ Protected' \subseteq Protected
    <2>1. CASE PurgeTx(p)
        <3>1. arg[p] \in [ns : Ns, ops : SUBSET Op]
            BY <2>1, MyStep DEF PurgeTx, StepOK
        <3>2. arg[p].ns \in Ns /\ arg[p].ops \in SUBSET Op
            BY <3>1
        <3> QED
            BY <2>1, <3>2, PurgeProtects DEF PurgeTx, TypeInv, ContentInv
    <2>2. CASE ~ PurgeTx(p)
        BY <2>2, OtherProtects DEF EnqueueGc, EnqueueNothing, PurgeConflict, CommitMissing,
           TypeInv, ContentInv
    <2> QED
        BY <2>1, <2>2
<1> QED
    BY <1>1, <1>2, <1>3, NothingToShow, QuietEffect DEF Committing

\* What goes into quarantine was not reachable a moment ago, and the collector is alone.
LEMMA GcNextContent ==
    ASSUME TypeInv, ContentInv, NEW p \in Everyone, GcNext(p)
    PROVE  ContentInv'
<1>1. Effect(p) /\ UNCHANGED <<hvars, files, synced, edges>>
    BY DEF Effect, GcNext, ovars
<1>2. Owned' /\ Protected' \subseteq Protected
    BY <1>1, OtherProtects DEF TypeInv, ContentInv
<1>3. PICK e \in todo[p] : GcRecheck(p, e)
    BY DEF GcNext
<1>4. CASE e.obj \in reachable_objects
    <2>1. pc'[p] = "gc_cancel"
        BY <1>3, <1>4 DEF GcRecheck, Then, TypeInv, Handlers, ContentInv, Awaited
    <2> QED
        BY <1>1, <1>2, <2>1, NothingToShow, QuietEffect DEF Committing
<1>5. CASE e.obj \notin reachable_objects
    <2>1. pc'[p] = "gc_quarantine" /\ arg'[p] = e
        BY <1>3, <1>5 DEF GcRecheck, Then, TypeInv, Handlers, ContentInv, Awaited
    <2>2. e.obj \notin Content(Protected)
        BY <1>5, ReachableIsContent DEF TypeInv, ContentInv
    <2>3. Protected' = Protected
        BY <1>1 DEF hvars, Protected
    <2>4. Validated(p)' /\ Doomed(p)'
        BY <2>1, <2>2, <2>3 DEF Validated, Doomed, Committing
    <2> QED
        BY <1>1, <1>2, <2>4, QuietEffect
<1> QED
    BY <1>4, <1>5

LEMMA QueueContent ==
    ASSUME TypeInv, ContentInv, NEW p \in Everyone,
           \/ GcDone(p) \/ GcCancel(p) \/ GcRemove(p) \/ GcMark(p)
           \/ BootPending(p) \/ BootPurge(p) \/ BootDone(p)
    PROVE  ContentInv'
<1>1. Effect(p) /\ UNCHANGED <<hvars, files, synced, edges>>
    BY DEF Effect, GcDone, GcCancel, GcRemove, GcMark, BootPending, BootPurge, BootDone, ovars
<1>2. Owned' /\ Protected' \subseteq Protected
    BY <1>1, OtherProtects DEF TypeInv, ContentInv
<1>3. pc'[p] \in {"idle", "boot_purge", "gc_next", "gc_mark", "gc_remove"}
    BY DEF GcDone, GcCancel, GcRemove, GcMark, BootPending, BootPurge, BootDone, Then, End,
       TypeInv, Handlers
<1> QED
    BY <1>1, <1>2, <1>3, NothingToShow, QuietEffect DEF Committing

(***************************************************************************)
(* The two effects that take an object away.                               *)
(***************************************************************************)
\* The collector is alone behind the gate.
LEMMA CollectorAlone ==
    ASSUME TypeInv, ContentInv, NEW p \in Everyone, Effect(p), Writes(p),
           NEW q \in Everyone, q # p
    PROVE  Validated(q)' /\ Doomed(q)'
<1>1. pc'[q] = "idle"
    BY EffectTypes DEF Others, ContentInv, Gated
<1> QED
    BY <1>1, NothingToShow DEF Committing

LEMMA GcQuarantineContent ==
    ASSUME TypeInv, ContentInv, NEW p \in Everyone, GcQuarantine(p)
    PROVE  ContentInv'
<1>1. /\ pc[p] = "gc_quarantine" /\ synced' = synced \ {arg[p].obj} /\ UNCHANGED <<hvars, edges>>
      /\ Then(p, "gc_complete", arg[p], todo[p]) /\ Effect(p) /\ Writes(p)
    BY DEF GcQuarantine, Effect, Writes, ReadSide
<1>2. pc'[p] = "gc_complete" /\ arg'[p] = arg[p] /\ Gated' /\ Awaited'
    BY <1>1, EffectGate DEF Then, TypeInv, Handlers, ContentInv, Awaited
<1>3. arg[p].obj \notin Content(Protected)
    BY <1>1 DEF ContentInv, Doomed
<1>4. Protected' = Protected /\ Owned'
    BY <1>1 DEF hvars, Protected, Owned, ContentInv
<1>5. Kept' /\ Harmless'
    BY <1>1, <1>3, <1>4 DEF Kept, ContentInv, Linked, Harmless
<1>6. Validated(p)' /\ Doomed(p)'
    BY <1>2, <1>3, <1>4 DEF Validated, Doomed, Committing
<1> QED
    BY <1>1, <1>2, <1>4, <1>5, <1>6, CollectorAlone DEF ContentInv

LEMMA GcCompleteContent ==
    ASSUME TypeInv, ContentInv, NEW p \in Everyone, GcComplete(p)
    PROVE  ContentInv'
<1> DEFINE o == arg[p].obj
<1>1. /\ pc[p] = "gc_complete" /\ edges' = [x \in Obj |-> IF x = o THEN {} ELSE edges[x] \ {o}]
      /\ UNCHANGED <<hvars, files, synced>> /\ Effect(p) /\ Writes(p)
    BY DEF GcComplete, complete_gc_entry, Effect, Writes, ReadSide
<1>2. pc'[p] \in {"idle", "gc_remove", "gc_next"} /\ Gated' /\ Awaited'
    BY <1>1, EffectGate DEF GcComplete, Then, End, TypeInv, Handlers, ContentInv
<1>3. o \notin Content(Protected)
    BY <1>1 DEF ContentInv, Doomed
<1> HIDE DEF o
<1>4. Protected' = Protected /\ Owned'
    BY <1>1 DEF hvars, Protected, Owned, ContentInv
<1>5. ASSUME NEW x \in Content(Protected) PROVE x \in synced' /\ edges'[x] = Refs[x]
    <2>1. x \in Obj /\ Refs[x] \subseteq Content(Protected)
        BY ContentType, ReachClosed, ServerAssumption DEF Content
    <2>2. x \in synced /\ edges[x] = Refs[x]
        BY DEF ContentInv, Kept, Linked
    <2> QED
        BY <1>1, <1>3, <2>1, <2>2
<1>6. Kept'
    BY <1>4, <1>5 DEF Kept, Linked
<1>7. Harmless'
    BY <1>1 DEF ContentInv, Harmless
<1> QED
    BY <1>1, <1>2, <1>4, <1>6, <1>7, CollectorAlone, NothingToShow DEF ContentInv, Committing

(***************************************************************************)
(* Requests, failures, crashes and time.                                   *)
(***************************************************************************)
LEMMA RequestContent ==
    ASSUME TypeInv, ContentInv, NEW p \in Proc, Request(p)
    PROVE  ContentInv'
<1>1. PICK l \in {"put_rename", "commit_edges", "truncate_tx", "restore_tx", "gc_enqueue", "purge_tx"} :
        \E a, t : /\ StepOK(l, a, t) /\ Begin(p, l, a, t) /\ pc[p] = "idle" /\ Serving
                  /\ IF l \in ReadSide THEN gate_read(p) ELSE gate_write(p)
                  /\ l = "commit_edges" => a.rev \in files /\ t = Opened(a.rev)
    BY BeginShape
<1>2. PICK a, t : /\ StepOK(l, a, t) /\ Begin(p, l, a, t) /\ pc[p] = "idle" /\ Serving
                  /\ IF l \in ReadSide THEN gate_read(p) ELSE gate_write(p)
                  /\ l = "commit_edges" => a.rev \in files /\ t = Opened(a.rev)
    BY <1>1
<1>3. p \in Everyone /\ ~ orphan[p] /\ Then(p, l, a, t) /\ UNCHANGED <<hvars, files, synced, edges>>
    BY <1>2 DEF Everyone, ContentInv, Awaited, Begin, ovars
<1>4. Others(p) /\ ~ orphan'[p] /\ pc'[p] = l /\ arg'[p] = a /\ todo'[p] = t
    BY <1>2, <1>3, ThenShape DEF TypeInv
<1>5. Awaited'
    BY <1>4 DEF Others, Awaited, ContentInv
<1>6. Gated'
    <2>1. \A q \in Everyone : q # p => pc[q] = "idle" \/ (l \in ReadSide /\ pc[q] \in ReadSide)
        BY <1>2 DEF Serving, Everyone, gate_read, gate_write, Holds, ContentInv, Awaited
    <2> QED
        BY <1>4, <2>1 DEF Gated, Others, Writes
<1>7. Owned' /\ Protected' \subseteq Protected
    BY <1>3, OtherProtects DEF TypeInv, ContentInv
<1>8. Validated(p)' /\ Doomed(p)'
    BY <1>2, <1>3, <1>4 DEF Validated, Doomed, Committing
<1>9. \A q \in Everyone : q # p => Validated(q)' /\ Doomed(q)'
    BY <1>3, <1>4, <1>7, AddsSame, AddsOthers, StillDoomed DEF Others
<1> QED
    BY <1>3, <1>5, <1>6, <1>7, <1>8, <1>9, ShrinkKeeps DEF ContentInv

LEMMA FailContent ==
    ASSUME TypeInv, ContentInv, NEW p \in Proc, Fail(p)
    PROVE  ContentInv'
<1>1. p \in Everyone /\ End(p) /\ UNCHANGED <<hvars, files, synced, edges>>
    BY DEF Everyone, Fail, ovars
<1>2. Others(p) /\ pc'[p] = "idle" /\ ~ orphan'[p]
    BY <1>1, EndShape DEF TypeInv
<1>3. Gated' /\ Awaited'
    BY <1>2 DEF Others, Gated, Awaited, Writes, ContentInv
<1>4. Owned' /\ Protected' \subseteq Protected
    BY <1>1, OtherProtects DEF TypeInv, ContentInv
<1>5. \A q \in Everyone : q # p => Validated(q)' /\ Doomed(q)'
    BY <1>1, <1>2, <1>4, AddsSame, AddsOthers, StillDoomed DEF Others
<1> QED
    BY <1>1, <1>2, <1>3, <1>4, <1>5, ShrinkKeeps, NothingToShow DEF ContentInv, Committing

\* A crash loses only files whose directory entries were not synced.
LEMMA CrashContent == ASSUME TypeInv, ContentInv, Crash PROVE ContentInv'
<1>1. /\ pc' = [p \in Everyone |-> IF p = Boot THEN "boot_pending" ELSE "idle"]
      /\ orphan' = [p \in Everyone |-> FALSE] /\ UNCHANGED <<hvars, synced, edges>>
    BY DEF Crash
<1>2. Owned' /\ Protected' \subseteq Protected
    BY <1>1, OtherProtects DEF TypeInv, ContentInv
<1>3. Gated' /\ Awaited'
    BY <1>1 DEF Gated, Awaited, Writes
<1>4. \A q \in Everyone : Validated(q)' /\ Doomed(q)'
    <2> SUFFICES ASSUME NEW q \in Everyone PROVE Validated(q)' /\ Doomed(q)'
        OBVIOUS
    <2>1. pc'[q] \in {"boot_pending", "idle"}
        BY <1>1
    <2> QED
        BY <2>1, NothingToShow DEF Committing
<1> QED
    BY <1>1, <1>2, <1>3, <1>4, ShrinkKeeps DEF ContentInv

LEMMA TimeContent ==
    ASSUME TypeInv, ContentInv,
           Expire \/ (\E n \in Ns : CreateNamespace(n)) \/ (\E o \in Obj : Age(o)) \/ UNCHANGED svars
    PROVE  ContentInv'
<1>1. UNCHANGED <<files, synced, edges, pc, arg, todo, orphan>>
    BY DEF Expire, CreateNamespace, Age, svars, ovars, pvars
<1>2. Owned' /\ Protected' \subseteq Protected
    BY OtherProtects DEF Expire, CreateNamespace, Age, svars, TypeInv, ContentInv
<1>3. Gated' /\ Awaited'
    BY <1>1 DEF Gated, Awaited, Writes, ContentInv
<1>4. \A q \in Everyone : Validated(q)' /\ Doomed(q)'
    BY <1>1, <1>2, AddsSame, AddsOthers, StillDoomed
<1> QED
    BY <1>1, <1>2, <1>3, <1>4, ShrinkKeeps DEF ContentInv

LEMMA ContentStep ==
    ASSUME ~ Disconnects, TypeInv, ContentInv, [SNext]_svars PROVE ContentInv'
<1>1. ASSUME NEW p \in Everyone, Effect(p) PROVE ContentInv'
    BY <1>1, PutContent, CommitEdgesContent, RootEdgesContent, CommitSyncContent, CommitTxContent,
       HistoryContent, PlanContent, GcNextContent, QueueContent, GcQuarantineContent,
       GcCompleteContent DEF Effect
<1>2. ASSUME NEW p \in Proc PROVE ~ Disconnect(p)
    BY DEF Disconnect
<1> QED
    BY <1>1, <1>2, RequestContent, FailContent, CrashContent, TimeContent DEF SNext

LEMMA ContentInit == SInit => ContentInv
<1> SUFFICES ASSUME SInit PROVE ContentInv
    OBVIOUS
<1>1. Gated /\ Awaited /\ Owned /\ Harmless
    BY DEF SInit, InitTables, Gated, Awaited, Owned, Harmless, Writes
<1>2. Protected = {}
    BY DEF SInit, InitTables, Protected
<1>3. Content({}) = {}
    BY ReachLeast DEF Content
<1>4. Kept
    BY <1>2, <1>3 DEF Kept
<1>5. \A p \in Everyone : Validated(p) /\ Doomed(p)
    BY DEF SInit, Validated, Doomed, Committing
<1> QED
    BY <1>1, <1>4, <1>5 DEF ContentInv

(***************************************************************************)
(* The inductive invariant of object storage: gc_gate separates those who  *)
(* validate a commit from those who collect; protected content is durable  *)
(* and its edges are its links; a commit on its way has what it validated; *)
(* what is being collected is nobody's.  It assumes that no client's       *)
(* disconnect drops a handler together with its gc_gate guard.             *)
(***************************************************************************)
THEOREM ContentInvariant == ASSUME ~ Disconnects PROVE ServerSpec => []ContentInv
<1>1. SInit => ContentInv
    BY ContentInit
<1>2. TypeInv /\ ContentInv /\ [SNext]_svars => ContentInv'
    BY ContentStep
<1> QED
    BY <1>1, <1>2, ServerShapes, PTL DEF ServerSpec

(***************************************************************************)
(* No collection, permanent deletion, half-finished handler, crash or loss *)
(* of power takes the file of an object that an active or restorable       *)
(* revision links to, however uploads, commits, truncations, restores and  *)
(* collections of concurrent requests interleave (process_gc_entries,      *)
(* commit_revision_root_v4), as long as no handler is dropped half-way.    *)
(***************************************************************************)
THEOREM ProtectedContentIsSafe ==
    ASSUME ~ Disconnects PROVE ServerSpec => []ProtectedContentStored
<1>1. TypeInv /\ ContentInv => ProtectedContentStored
    BY DEF TypeInv, Store, ContentInv, Kept, ProtectedContentStored
<1> QED
    BY <1>1, ServerShapes, ContentInvariant, PTL

(***************************************************************************)
(* reachable_objects, which walks the table object_edges, always finds     *)
(* exactly what the protected revisions link to: the edges collections     *)
(* delete and commits replace are never the ones it needs, nor too many.   *)
(***************************************************************************)
THEOREM EdgesAreTrue == ASSUME ~ Disconnects PROVE ServerSpec => []EdgesTellTheTruth
<1>1. TypeInv /\ ContentInv => EdgesTellTheTruth
    BY ReachableIsContent DEF TypeInv, ContentInv, EdgesTellTheTruth
<1> QED
    BY <1>1, ServerShapes, ContentInvariant, PTL

=============================================================================
