-------------------------- MODULE SyncClientProofs --------------------------
(***************************************************************************)
(* Proofs about the desktop clients, for any number of homes, namespaces,  *)
(* conversations, edits, revisions, rewrites, crashes and lost answers.    *)
(***************************************************************************)
EXTENDS SyncClient, WellFoundedInduction, TLAPS

(***************************************************************************)
(* Shapes.  The trees of a state hold edits made so far.                   *)
(***************************************************************************)
HeadOrNone == Nat \cup {None}
TreeOver(u) == [v : [Thread -> u \cup {Absent}], e : [Thread -> SUBSET u]]
Revision(u) == [ns : Ns, parent : HeadOrNone, tree : TreeOver(u)]

EpochJobs == [step : {"epoch"}, ns : Ns, generation : Nat, epoch : Nat]
PublishJobs == [step : {"publish"}, ns : Ns]
ReconcileJobs == [step : {"reconcile"}, ns : Ns, generation : Nat, head : HeadOrNone, epoch : Nat]
CommitJobs == [step : {"commit", "lookup"}, op : {"push", "staged"}, ns : Ns, generation : Nat,
               rev : Nat, head : HeadOrNone, epoch : Nat]
CheckoutJobs(u) ==
    [step : {"checkout"}, op : Ops, ns : Ns, generation : Nat, head : HeadOrNone, epoch : Nat,
     tree : TreeOver(u), local : TreeOver(u), dropped : SUBSET u,
     then : {"epoch", "publish", "done"}]
AppliedJobs ==
    [step : {"applied"}, op : Ops, ns : Ns, generation : Nat, head : HeadOrNone, epoch : Nat,
     then : {"epoch", "publish", "done"}]
Jobs(u) == {Idle} \cup EpochJobs \cup PublishJobs \cup ReconcileJobs \cup CommitJobs
               \cup CheckoutJobs(u) \cup AppliedJobs
AppliedJournals == [status : {"applied"}, op : Ops, ns : Ns, generation : Nat, head : HeadOrNone]
TornJournals(u) == [status : {"torn"}, backup : TreeOver(u)]

ServerTyping ==
    /\ revs \in Seq(Revision(used))
    /\ \A i \in DOMAIN revs : revs[i].parent \in {None} \cup 1 .. (i - 1)
    /\ published \subseteq DOMAIN revs
    /\ head \in [Ns -> published \cup {None}]
    /\ rewrites \in 0 .. MaxRewrites
    /\ epoch \in [Ns -> 0 .. rewrites]
    /\ used \subseteq Edit /\ discarded \subseteq used
ClientTyping ==
    /\ home \in [Client -> TreeOver(used)]
    /\ track \in [Client -> [Ns -> Record \cup {None}]]
    /\ active \in [Client -> Ns \cup {None}]
    /\ journal \in [Client -> AppliedJournals \cup TornJournals(used) \cup {None}]
    /\ job \in [Client -> Jobs(used)]
Typing == ServerTyping /\ ClientTyping

(***************************************************************************)
(* Epochs and ancestors.  A head that was read in epoch e of a namespace   *)
(* is in its history for as long as the epoch is e.                        *)
(***************************************************************************)
ParentsIn(R, S) == \A i \in S : R[i].parent # None => R[i].parent \in S
ChainOf(R, h) ==
    IF h = None THEN {}
    ELSE {i \in DOMAIN R : \A S \in SUBSET DOMAIN R : h \in S /\ ParentsIn(R, S) => i \in S}
WellParented(R) == \A i \in DOMAIN R : R[i].parent # None => R[i].parent \in DOMAIN R
Extends(R, Q) == DOMAIN R \subseteq DOMAIN Q /\ \A i \in DOMAIN R : Q[i] = R[i]

Known == published \cup {None}
RecordedEpoch(c, n) == IF track[c][n] = None THEN 0 ELSE track[c][n].epoch
Ahead(h, n, e) == e = epoch[n] /\ h # None => h \in ChainOf(revs, head[n])

Requested(j) == /\ j \in CommitJobs /\ j.rev \in DOMAIN revs
                /\ revs[j.rev].ns = j.ns /\ revs[j.rev].parent = j.head
Requests == \A j \in delayed : Requested(j)

RecordOK(c) ==
    \A n \in Ns : track[c][n] # None =>
        /\ track[c][n].head \in Known
        /\ track[c][n].epoch <= epoch[n]
        /\ Ahead(track[c][n].head, n, track[c][n].epoch)

Reads == {"commit", "lookup", "reconcile", "checkout", "applied", "epoch"}
JobOK(c) ==
    LET j == job[c] IN
    /\ j.step \in {"commit", "lookup"} => Requested(j)
    /\ j.step \in Reads =>
         /\ Generation(c, j.ns) = j.generation
         /\ RecordedEpoch(c, j.ns) <= j.epoch /\ j.epoch <= epoch[j.ns]
    /\ j.step \in {"reconcile", "checkout", "applied"} => j.head \in Known
    /\ j.step = "reconcile" => Ahead(j.head, j.ns, j.epoch)
    /\ j.step \in {"checkout", "applied"} =>
         /\ j.op \notin {"restore", "remap"} => Ahead(j.head, j.ns, j.epoch)
         /\ j.op = "remap" => j.head = TrackedHead(c, j.ns)
         /\ j.op \in {"restore", "remap"} => j.then # "epoch"
    /\ j.step = "applied" =>
         journal[c] = [status |-> "applied", op |-> j.op, ns |-> j.ns,
                       generation |-> j.generation, head |-> j.head]
    /\ j.step = "epoch" =>
         track[c][j.ns] # None /\ Ahead(track[c][j.ns].head, j.ns, j.epoch)

JournalOK(c) ==
    LET k == journal[c] IN
    k # None /\ k.status = "applied" =>
        /\ k.head \in Known
        /\ k.generation <= Generation(c, k.ns)
        /\ k.op # "restore" /\ Generation(c, k.ns) = k.generation =>
             Ahead(k.head, k.ns, RecordedEpoch(c, k.ns))
        /\ /\ job[c].step = "epoch" /\ job[c].ns = k.ns
           /\ Generation(c, k.ns) = k.generation
           => RecordedEpoch(c, k.ns) = job[c].epoch

Following(c) == RecordOK(c) /\ JobOK(c) /\ JournalOK(c)

ClientInv == Typing /\ Requests /\ \A c \in Client : Following(c)

(***************************************************************************)
(* Copies of a version have the same edits behind them: those that origin  *)
(* gives for it.                                                           *)
(***************************************************************************)
Origins == [Thread -> [Edit -> SUBSET Edit]]
Fits(x, origin) == \A t \in Thread : x.v[t] # Absent => x.e[t] = origin[t][x.v[t]]
FitAt(c, origin) ==
    /\ Fits(home[c], origin)
    /\ job[c].step = "checkout" => Fits(job[c].tree, origin) /\ Fits(job[c].local, origin)
    /\ journal[c] # None /\ journal[c].status = "torn" => Fits(journal[c].backup, origin)
AllFit(origin) ==
    /\ \A i \in DOMAIN revs : Fits(revs[i].tree, origin)
    /\ \A c \in Client : FitAt(c, origin)
Coherent == \E origin \in Origins : AllFit(origin)

(***************************************************************************)
(* Where the edits of the integrated revision are.                         *)
(***************************************************************************)
HoldsIn(R, gone, x, h, dropped) ==
    h # None =>
      \A t \in Thread : R[h].tree.v[t] # Absent =>
        R[h].tree.e[t] \subseteq x.e[t] \cup gone \cup dropped
Holds(x, h, dropped) == HoldsIn(revs, discarded, x, h, dropped)
Integrated(c) == IF active[c] = None THEN None ELSE TrackedHead(c, active[c])
Aim(c, op, h) == IF op = "restore" THEN Integrated(c) ELSE h

Attached(c) == active[c] = None => \A n \in Ns : track[c][n] = None
HomeOK(c) ==
    /\ journal[c] = None => Holds(home[c], Integrated(c), {})
    /\ journal[c] # None /\ journal[c].status = "applied" =>
         Holds(home[c], Aim(c, journal[c].op, journal[c].head), {})
    /\ journal[c] # None /\ journal[c].status = "torn" =>
         Holds(journal[c].backup, Integrated(c), {})
WorkOK(c) ==
    /\ job[c].step \in {"commit", "lookup"} => journal[c] = None /\ Holds(home[c], job[c].rev, {})
    /\ job[c].step = "reconcile" => journal[c] = None /\ Holds(home[c], job[c].head, {})
    /\ job[c].step = "checkout" /\ journal[c] = None =>
         Holds(job[c].tree, Aim(c, job[c].op, job[c].head), job[c].dropped)

Lineage == \A i \in DOMAIN revs : Holds(revs[i].tree, revs[i].parent, {})

(***************************************************************************)
(* What a planned checkout keeps of the home that it was planned from.     *)
(***************************************************************************)
DeletedKnowing(R, gone, h, edits, t) ==
    \E d \in ChainOf(R, h) : /\ R[d].tree.v[t] = Absent
                              /\ edits \subseteq R[d].tree.e[t] \cup gone
PlanOK(c) ==
    LET j == job[c] IN
    j.step = "checkout" =>
      /\ j.op = "switch" /\ active[c] \notin {None, j.ns} =>
           \A t \in Thread : j.local.v[t] # Absent =>
             \E r \in published : revs[r].tree.v[t] = j.local.v[t]
      /\ j.op \in {"pull", "resolve", "merge", "remap"} =>
           \A t \in Thread :
             \/ j.local.e[t] \subseteq j.tree.e[t] \cup discarded \cup j.dropped
             \/ j.local.v[t] = Absent /\ TreeOf(TrackedHead(c, j.ns)).v[t] = Absent
             \/ DeletedKnowing(revs, discarded \cup j.dropped, j.head, j.local.e[t], t)

Keeping(c) == Attached(c) /\ HomeOK(c) /\ WorkOK(c) /\ PlanOK(c)
EditsInv ==
    /\ Coherent /\ Lineage
    /\ \A c \in Client : Keeping(c)

----------------------------------------------------------------------------
(* The history of a namespace.                                             *)

LEMMA ChainMeans == \A h : Chain(h) = ChainOf(revs, h)
  BY DEF Chain, ChainOf, WithParents, ParentsIn

LEMMA ChainHasHead == ASSUME NEW R, NEW h \in DOMAIN R, h # None PROVE h \in ChainOf(R, h)
  BY DEF ChainOf

LEMMA ChainInside == ASSUME NEW R, NEW h PROVE ChainOf(R, h) \subseteq DOMAIN R
  BY DEF ChainOf

LEMMA ChainLeast ==
    ASSUME NEW R, NEW h, NEW S, S \subseteq DOMAIN R, h \in S, ParentsIn(R, S)
    PROVE  ChainOf(R, h) \subseteq S
  BY DEF ChainOf

LEMMA ChainClosed ==
    ASSUME NEW R, NEW h, WellParented(R)
    PROVE  ParentsIn(R, ChainOf(R, h))
<1> SUFFICES ASSUME NEW i \in ChainOf(R, h), R[i].parent # None
             PROVE  R[i].parent \in ChainOf(R, h)
  BY DEF ParentsIn
<1>1. h # None /\ i \in DOMAIN R
  BY DEF ChainOf
<1>2. ASSUME NEW S \in SUBSET DOMAIN R, h \in S, ParentsIn(R, S) PROVE R[i].parent \in S
  <2>1. i \in S
    BY <1>1, <1>2 DEF ChainOf
  <2>2. QED
    BY <2>1, <1>2 DEF ParentsIn
<1>3. R[i].parent \in DOMAIN R
  BY <1>1 DEF WellParented
<1>4. QED
  BY <1>1, <1>2, <1>3 DEF ChainOf

\* The ancestors of an ancestor are ancestors.
LEMMA ChainTransitive ==
    ASSUME NEW R, NEW h, WellParented(R), NEW g \in ChainOf(R, h)
    PROVE  ChainOf(R, g) \subseteq ChainOf(R, h)
<1> DEFINE S == ChainOf(R, h)
<1>1. S \subseteq DOMAIN R /\ ParentsIn(R, S) /\ g \in S
  BY ChainInside, ChainClosed
<1> HIDE DEF S
<1>2. ChainOf(R, g) \subseteq S
  BY <1>1, ChainLeast
<1>3. QED
  BY <1>2 DEF S

LEMMA ChainOfParent ==
    ASSUME NEW R, WellParented(R), NEW h \in DOMAIN R, h # None
    PROVE  ChainOf(R, R[h].parent) \subseteq ChainOf(R, h)
<1>1. CASE R[h].parent = None
  BY <1>1 DEF ChainOf
<1>2. CASE R[h].parent # None
  <2>1. R[h].parent \in ChainOf(R, h)
    BY <1>2, ChainHasHead, ChainClosed DEF ParentsIn
  <2>2. QED
    BY <2>1, ChainTransitive
<1>3. QED
  BY <1>1, <1>2

\* Building another revision changes no history.
LEMMA ChainKept ==
    ASSUME NEW R, NEW Q, WellParented(R), Extends(R, Q), NEW h \in DOMAIN R \cup {None}
    PROVE  ChainOf(Q, h) = ChainOf(R, h)
<1>1. CASE h = None
  BY <1>1 DEF ChainOf
<1>2. CASE h # None
  <2> DEFINE C == ChainOf(R, h)
  <2>1. C \subseteq DOMAIN R /\ ParentsIn(R, C) /\ h \in C
    BY <1>2, ChainInside, ChainClosed, ChainHasHead
  <2>2. ASSUME NEW i \in C PROVE i \in ChainOf(Q, h)
    <3>1. ASSUME NEW S \in SUBSET DOMAIN Q, h \in S, ParentsIn(Q, S) PROVE i \in S
      <4> DEFINE T == S \cap DOMAIN R
      <4>1. T \in SUBSET DOMAIN R /\ h \in T
        BY <1>2, <3>1
      <4>2. ParentsIn(R, T)
        BY <3>1 DEF ParentsIn, Extends, WellParented
      <4> HIDE DEF T
      <4>3. i \in T
        BY <2>2, <4>1, <4>2, <1>2 DEF ChainOf
      <4>4. QED
        BY <4>3 DEF T
    <3>2. i \in DOMAIN Q
      BY <2>1, <2>2 DEF Extends
    <3>3. QED
      BY <3>1, <3>2, <1>2 DEF ChainOf
  <2>3. C \subseteq DOMAIN Q /\ ParentsIn(Q, C)
    BY <2>1 DEF Extends, ParentsIn
  <2> HIDE DEF C
  <2>4. ChainOf(Q, h) \subseteq C
    BY <2>1, <2>3, ChainLeast
  <2>5. QED
    BY <2>2, <2>4 DEF C
<1>3. QED
  BY <1>1, <1>2

----------------------------------------------------------------------------
(* Shapes of jobs, journals and revisions.                                 *)

LEMMA TreesGrow ==
    ASSUME NEW u, NEW w, u \subseteq w PROVE TreeOver(u) \subseteq TreeOver(w)
<1> SUFFICES ASSUME NEW x \in TreeOver(u) PROVE x \in TreeOver(w)
  OBVIOUS
<1>1. x = [v |-> x.v, e |-> x.e] /\ x.v \in [Thread -> u \cup {Absent}]
        /\ x.e \in [Thread -> SUBSET u]
  BY DEF TreeOver
<1>2. x.v \in [Thread -> w \cup {Absent}] /\ x.e \in [Thread -> SUBSET w]
  BY <1>1
<1>3. QED
  BY <1>1, <1>2 DEF TreeOver

LEMMA EmptyTreeForm == ASSUME NEW u PROVE EmptyTree \in TreeOver(u)
  BY DEF EmptyTree, TreeOver

LEMMA TreeForm ==
    ASSUME NEW u, NEW x \in TreeOver(u)
    PROVE  /\ DOMAIN x.v = Thread /\ DOMAIN x.e = Thread
           /\ \A t \in Thread : x.v[t] \in u \cup {Absent} /\ x.e[t] \subseteq u
  BY DEF TreeOver

LEMMA TreeMade ==
    ASSUME NEW u, NEW v, NEW e, v \in [Thread -> u \cup {Absent}], e \in [Thread -> SUBSET u]
    PROVE  [v |-> v, e |-> e] \in TreeOver(u)
  BY DEF TreeOver

Rewritten(x, v, e) == [x EXCEPT !.v = v, !.e = e]

LEMMA TreeUpdate ==
    ASSUME NEW u, NEW x \in TreeOver(u),
           NEW v \in [Thread -> u \cup {Absent}], NEW e \in [Thread -> SUBSET u]
    PROVE  Rewritten(x, v, e) = [v |-> v, e |-> e]
<1> DEFINE y == Rewritten(x, v, e)
<1>1. y \in TreeOver(u) /\ y.v = v /\ y.e = e
  BY DEF TreeOver, Rewritten
<1> HIDE DEF y
<1>2. y = [v |-> y.v, e |-> y.e]
  BY <1>1 DEF TreeOver
<1>3. QED
  BY <1>1, <1>2 DEF y

LEMMA JobsGrow ==
    ASSUME NEW u, NEW w, u \subseteq w PROVE Jobs(u) \subseteq Jobs(w)
<1>1. TreeOver(u) \subseteq TreeOver(w) /\ SUBSET u \subseteq SUBSET w
  BY TreesGrow
<1>2. CheckoutJobs(u) \subseteq CheckoutJobs(w)
  BY <1>1 DEF CheckoutJobs
<1>3. QED
  BY <1>2 DEF Jobs

LEMMA TornGrow ==
    ASSUME NEW u, NEW w, u \subseteq w PROVE TornJournals(u) \subseteq TornJournals(w)
<1>1. TreeOver(u) \subseteq TreeOver(w)
  BY TreesGrow
<1>2. QED
  BY <1>1 DEF TornJournals

LEMMA RevisionsGrow ==
    ASSUME NEW u, NEW w, u \subseteq w PROVE Revision(u) \subseteq Revision(w)
<1>1. TreeOver(u) \subseteq TreeOver(w)
  BY TreesGrow
<1>2. QED
  BY <1>1 DEF Revision

\* The step of a job says which fields it has.
JobForm(u, j) ==
    /\ j.step = "idle" => j = Idle
    /\ j.step = "epoch" => j \in EpochJobs
    /\ j.step = "publish" => j \in PublishJobs
    /\ j.step = "reconcile" => j \in ReconcileJobs
    /\ j.step \in {"commit", "lookup"} => j \in CommitJobs
    /\ j.step = "checkout" => j \in CheckoutJobs(u)
    /\ j.step = "applied" => j \in AppliedJobs

LEMMA JobForms == ASSUME NEW u, NEW j \in Jobs(u) PROVE JobForm(u, j)
<1>1. CASE j = Idle
  BY <1>1 DEF Idle, JobForm
<1>2. CASE j \in EpochJobs
  BY <1>2 DEF EpochJobs, JobForm
<1>3. CASE j \in PublishJobs
  BY <1>3 DEF PublishJobs, JobForm
<1>4. CASE j \in ReconcileJobs
  BY <1>4 DEF ReconcileJobs, JobForm
<1>5. CASE j \in CommitJobs
  <2>1. j.step \in {"commit", "lookup"}
    BY <1>5 DEF CommitJobs
  <2>2. QED
    BY <1>5, <2>1 DEF JobForm
<1>6. CASE j \in CheckoutJobs(u)
  <2>1. j.step = "checkout"
    BY <1>6 DEF CheckoutJobs
  <2>2. QED
    BY <1>6, <2>1 DEF JobForm
<1>7. CASE j \in AppliedJobs
  <2>1. j.step = "applied"
    BY <1>7 DEF AppliedJobs
  <2>2. QED
    BY <1>7, <2>1 DEF JobForm
<1>8. QED
  BY <1>1, <1>2, <1>3, <1>4, <1>5, <1>6, <1>7 DEF Jobs

\* The server's part of the typing, in the form the proofs use.
LEMMA RevisionForm ==
    ASSUME ServerTyping
    PROVE  /\ Len(revs) \in Nat /\ DOMAIN revs = 1 .. Len(revs)
           /\ None \notin DOMAIN revs
           /\ WellParented(revs)
           /\ \A i \in DOMAIN revs : /\ revs[i] \in Revision(used)
                                      /\ revs[i].ns \in Ns /\ revs[i].parent \in HeadOrNone
                                      /\ revs[i].tree \in TreeOver(used)
<1>1. Len(revs) \in Nat /\ DOMAIN revs = 1 .. Len(revs)
        /\ \A i \in DOMAIN revs : revs[i] \in Revision(used)
  BY DEF ServerTyping
<1>2. None \notin DOMAIN revs
  BY <1>1, ClientAssumption
<1>3. \A i \in DOMAIN revs : revs[i].ns \in Ns /\ revs[i].parent \in HeadOrNone
                               /\ revs[i].tree \in TreeOver(used)
  BY <1>1 DEF Revision
<1>4. WellParented(revs)
  <2> SUFFICES ASSUME NEW i \in DOMAIN revs, revs[i].parent # None
               PROVE  revs[i].parent \in DOMAIN revs
    BY DEF WellParented
  <2>1. revs[i].parent \in 1 .. (i - 1)
    BY DEF ServerTyping
  <2>2. QED
    BY <2>1, <1>1
<1>5. QED
  BY <1>1, <1>2, <1>3, <1>4

----------------------------------------------------------------------------
(* What every step does to the server, and what a client that takes no     *)
(* part in a step may rely on.                                             *)

Evolves ==
    /\ Extends(revs, revs')
    /\ published \subseteq published'
    /\ used \subseteq used' /\ discarded \subseteq discarded'
    /\ \A n \in Ns : /\ epoch[n] <= epoch'[n]
                     /\ epoch'[n] = epoch[n] =>
                          ChainOf(revs, head[n]) \subseteq ChainOf(revs', head'[n])

Untouched(d) ==
    /\ home'[d] = home[d] /\ track'[d] = track[d] /\ active'[d] = active[d]
    /\ journal'[d] = journal[d] /\ job'[d] = job[d]

LEMMA AheadStays ==
    ASSUME Evolves, ServerTyping, ServerTyping', NEW n \in Ns, NEW h, NEW e \in Nat,
           e <= epoch[n], Ahead(h, n, e)
    PROVE  e <= epoch'[n] /\ Ahead(h, n, e)'
<1>1. epoch[n] \in Nat /\ epoch'[n] \in Nat /\ epoch[n] <= epoch'[n]
  BY DEF ServerTyping, Evolves
<1>2. ASSUME e = epoch'[n], h # None PROVE h \in ChainOf(revs', head'[n])
  <2>1. e = epoch[n]
    BY <1>1, <1>2
  <2>2. h \in ChainOf(revs, head[n])
    BY <1>2, <2>1 DEF Ahead
  <2>3. QED
    BY <1>2, <2>1, <2>2 DEF Evolves
<1>3. QED
  BY <1>1, <1>2 DEF Ahead

LEMMA RequestStays ==
    ASSUME Evolves, NEW j, Requested(j) PROVE Requested(j)'
  BY DEF Evolves, Requested, Extends

LEMMA RecordForm ==
    ASSUME ClientTyping, NEW c \in Client, NEW n \in Ns
    PROVE  /\ Generation(c, n) \in Nat /\ RecordedEpoch(c, n) \in Nat
           /\ track[c][n] # None => /\ track[c][n].head \in HeadOrNone
                                    /\ track[c][n].epoch \in Nat
                                    /\ track[c][n].generation \in Nat \ {0}
                                    /\ track[c][n] \in Record
<1>1. track[c][n] # None => track[c][n] \in Record
  BY DEF ClientTyping
<1>2. QED
  BY <1>1 DEF Record, Generation, RecordedEpoch, HeadOrNone

LEMMA JobFields ==
    ASSUME NEW u, NEW j \in Jobs(u), j.step \in Reads
    PROVE  j.ns \in Ns /\ j.generation \in Nat /\ j.epoch \in Nat
<1>1. JobForm(u, j)
  BY JobForms
<1>2. CASE j \in EpochJobs
  BY <1>2 DEF EpochJobs
<1>3. CASE j \in ReconcileJobs
  BY <1>3 DEF ReconcileJobs
<1>4. CASE j \in CommitJobs
  BY <1>4 DEF CommitJobs
<1>5. CASE j \in CheckoutJobs(u)
  BY <1>5 DEF CheckoutJobs
<1>6. CASE j \in AppliedJobs
  BY <1>6 DEF AppliedJobs
<1>7. QED
  BY <1>1, <1>2, <1>3, <1>4, <1>5, <1>6 DEF JobForm, Reads

LEMMA JournalForm ==
    ASSUME ClientTyping, NEW c \in Client, journal[c] # None
    PROVE  /\ journal[c].status \in {"applied", "torn"}
           /\ journal[c].status = "applied" =>
                /\ journal[c].op \in Ops /\ journal[c].ns \in Ns
                /\ journal[c].generation \in Nat /\ journal[c].head \in HeadOrNone
           /\ journal[c].status = "torn" => journal[c].backup \in TreeOver(used)
<1>1. journal[c] \in AppliedJournals \cup TornJournals(used)
  BY DEF ClientTyping
<1>2. CASE journal[c] \in AppliedJournals
  BY <1>2 DEF AppliedJournals
<1>3. CASE journal[c] \in TornJournals(used)
  BY <1>3 DEF TornJournals
<1>4. QED
  BY <1>1, <1>2, <1>3

LEMMA RecordStays ==
    ASSUME Typing, ServerTyping', Evolves, NEW d \in Client, RecordOK(d), track'[d] = track[d]
    PROVE  RecordOK(d)'
<1> SUFFICES ASSUME NEW n \in Ns, track[d][n] # None
             PROVE  /\ track[d][n].head \in Known' /\ track[d][n].epoch <= epoch'[n]
                    /\ (track[d][n].epoch = epoch'[n] /\ track[d][n].head # None
                          => track[d][n].head \in ChainOf(revs', head'[n]))
  BY DEF RecordOK, Ahead
<1> DEFINE h == track[d][n].head
           e == track[d][n].epoch
<1>1. e \in Nat /\ h \in Known /\ e <= epoch[n] /\ Ahead(h, n, e)
  BY RecordForm DEF Typing, RecordOK
<1>2. h \in Known'
  BY <1>1 DEF Evolves, Known
<1> HIDE DEF h, e
<1>3. e <= epoch'[n] /\ (e = epoch'[n] /\ h # None => h \in ChainOf(revs', head'[n]))
  BY <1>1, AheadStays DEF Typing, Ahead
<1>4. QED
  BY <1>2, <1>3 DEF h, e

LEMMA JournalStays ==
    ASSUME Typing, ServerTyping', Evolves, NEW d \in Client, JournalOK(d), RecordOK(d),
           track'[d] = track[d], journal'[d] = journal[d],
           \/ job'[d] = job[d]
           \/ job'[d].step # "epoch"
    PROVE  JournalOK(d)'
<1> DEFINE k == journal[d]
<1> SUFFICES ASSUME k # None, k.status = "applied"
             PROVE  JournalOK(d)'
  BY DEF JournalOK
<1>1. k.ns \in Ns /\ k.generation \in Nat
  BY JournalForm DEF Typing
<1>2. /\ Generation(d, k.ns)' = Generation(d, k.ns)
      /\ RecordedEpoch(d, k.ns)' = RecordedEpoch(d, k.ns)
  BY DEF Generation, RecordedEpoch
<1>3. RecordedEpoch(d, k.ns) <= epoch[k.ns] /\ RecordedEpoch(d, k.ns) \in Nat
  BY <1>1, RecordForm DEF RecordOK, RecordedEpoch, Typing, ServerTyping
<1>4. k.head \in Known /\ k.head \in Known'
  BY DEF JournalOK, Evolves, Known
<1>5. ASSUME k.op # "restore", Generation(d, k.ns) = k.generation
      PROVE  Ahead(k.head, k.ns, RecordedEpoch(d, k.ns))'
  <2> DEFINE e == RecordedEpoch(d, k.ns)
             h == k.head
             n == k.ns
  <2>1. Ahead(h, n, e) /\ e <= epoch[n] /\ e \in Nat /\ n \in Ns
    BY <1>1, <1>3, <1>5 DEF JournalOK
  <2>2. e' = e /\ h' = h /\ n' = n
    BY <1>2
  <2> HIDE DEF e, h, n
  <2>3. e = epoch'[n] /\ h # None => h \in ChainOf(revs', head'[n])
    BY <2>1, AheadStays DEF Typing, Ahead
  <2>4. Ahead(h, n, e)'
    BY <2>2, <2>3 DEF Ahead
  <2>5. QED
    BY <2>4 DEF h, n, e
<1>6. QED
  BY <1>2, <1>4, <1>5 DEF JournalOK

LEMMA JobStays ==
    ASSUME Typing, ServerTyping', Evolves, NEW d \in Client, JobOK(d),
           track'[d] = track[d], journal'[d] = journal[d], job'[d] = job[d]
    PROVE  JobOK(d)'
<1> DEFINE j == job[d]
<1> USE DEF Typing
<1>1. j \in Jobs(used)
  BY DEF ClientTyping
<1>2. j.step \in {"commit", "lookup"} => Requested(j)'
  <2>1. j' = j
    OBVIOUS
  <2> SUFFICES ASSUME j.step \in {"commit", "lookup"} PROVE Requested(j)'
    OBVIOUS
  <2>2. Requested(j)
    BY DEF JobOK
  <2> HIDE DEF j
  <2>3. /\ j \in CommitJobs /\ j.rev \in DOMAIN revs'
        /\ revs'[j.rev].ns = j.ns /\ revs'[j.rev].parent = j.head
    BY <2>2 DEF Requested, Evolves, Extends
  <2>4. QED
    BY <2>1, <2>3 DEF Requested
<1>3. ASSUME j.step \in Reads
      PROVE  /\ j.ns \in Ns /\ j.epoch \in Nat /\ j.epoch <= epoch[j.ns]
             /\ Generation(d, j.ns)' = j.generation
             /\ RecordedEpoch(d, j.ns)' <= j.epoch /\ j.epoch <= epoch'[j.ns]
  <2>1. j.ns \in Ns /\ j.generation \in Nat /\ j.epoch \in Nat
    BY <1>1, <1>3, JobFields
  <2>2. /\ Generation(d, j.ns)' = Generation(d, j.ns)
        /\ RecordedEpoch(d, j.ns)' = RecordedEpoch(d, j.ns)
    BY DEF Generation, RecordedEpoch
  <2>3. epoch[j.ns] \in Nat /\ epoch'[j.ns] \in Nat /\ epoch[j.ns] <= epoch'[j.ns]
    BY <2>1 DEF ServerTyping, Evolves
  <2>4. /\ Generation(d, j.ns) = j.generation
        /\ RecordedEpoch(d, j.ns) <= j.epoch /\ j.epoch <= epoch[j.ns]
    BY <1>3 DEF JobOK
  <2>5. QED
    BY <2>1, <2>2, <2>3, <2>4
<1>4. ASSUME NEW h, j.step \in Reads, Ahead(h, j.ns, j.epoch)
      PROVE  j.epoch = epoch'[j.ns] /\ h # None => h \in ChainOf(revs', head'[j.ns])
  <2>1. j.ns \in Ns /\ j.epoch \in Nat /\ j.epoch <= epoch[j.ns]
    BY <1>3, <1>4
  <2> DEFINE n == j.ns
             e == j.epoch
  <2> HIDE DEF n, e, j
  <2>2. e = epoch'[n] /\ h # None => h \in ChainOf(revs', head'[n])
    BY <2>1, <1>4, AheadStays DEF Ahead, n, e
  <2>3. QED
    BY <2>2 DEF n, e
<1>5. j.step \in {"reconcile", "checkout", "applied"} => j.head \in Known'
  BY DEF JobOK, Evolves, Known
<1>6. j.step = "reconcile" => Ahead(j.head, j.ns, j.epoch)'
  BY <1>4 DEF JobOK, Ahead, Reads
<1>7. j.step \in {"checkout", "applied"} =>
        /\ j.op \notin {"restore", "remap"} => Ahead(j.head, j.ns, j.epoch)'
        /\ j.op = "remap" => j.head = TrackedHead(d, j.ns)'
        /\ j.op \in {"restore", "remap"} => j.then # "epoch"
  BY <1>4 DEF JobOK, Ahead, Reads, TrackedHead
<1>8. j.step = "epoch" =>
        track'[d][j.ns] # None /\ Ahead(track[d][j.ns].head, j.ns, j.epoch)'
  BY <1>4 DEF JobOK, Ahead, Reads
<1>9. QED
  BY <1>2, <1>3, <1>5, <1>6, <1>7, <1>8 DEF JobOK

LEMMA OthersFollow ==
    ASSUME Typing, ServerTyping', Evolves, NEW d \in Client, Following(d), Untouched(d)
    PROVE  Following(d)'
  BY RecordStays, JobStays, JournalStays DEF Following, Untouched

LEMMA RequestsStay ==
    ASSUME Evolves, Requests, delayed' \subseteq delayed PROVE Requests'
<1> SUFFICES ASSUME NEW j \in delayed' PROVE Requested(j)'
  BY DEF Requests
<1>1. Requested(j)
  BY DEF Requests
<1>2. QED
  BY <1>1, RequestStays

\* A client that gives up its job, or fails, keeps its record and journal.
LEMMA IdleFollows ==
    ASSUME Typing, ServerTyping', Evolves, NEW c \in Client, Following(c),
           track'[c] = track[c], journal'[c] = journal[c],
           job'[c].step \in {"idle", "publish"}
    PROVE  Following(c)'
<1>1. JobOK(c)'
  BY DEF JobOK, Reads
<1>2. QED
  BY <1>1, RecordStays, JournalStays DEF Following

----------------------------------------------------------------------------
(* The four things a step may do to the server.                            *)

Histories ==
    /\ used \subseteq used' /\ used' \subseteq Edit
    /\ discarded \subseteq discarded' /\ discarded' \subseteq used'

LEMMA ServerSame ==
    ASSUME ServerTyping, UNCHANGED <<revs, published, head, epoch, rewrites>>, Histories
    PROVE  Evolves /\ ServerTyping'
<1>1. Extends(revs, revs')
  BY DEF Extends
<1>2. \A n \in Ns : epoch[n] <= epoch'[n]
  BY DEF ServerTyping
<1>3. revs' \in Seq(Revision(used'))
  <2>1. Revision(used) \subseteq Revision(used')
    BY RevisionsGrow DEF Histories
  <2>2. QED
    BY <2>1 DEF ServerTyping
<1>4. QED
  BY <1>1, <1>2, <1>3 DEF Evolves, ServerTyping, Histories

LEMMA ServerBuilds ==
    ASSUME ServerTyping, Histories, NEW n \in Ns, NEW tree \in TreeOver(used), Build(n, tree),
           UNCHANGED <<published, head, epoch, rewrites, used>>
    PROVE  /\ Evolves /\ ServerTyping'
           /\ Len(revs) + 1 \in DOMAIN revs'
           /\ revs'[Len(revs) + 1] = [ns |-> n, parent |-> head[n], tree |-> tree]
           /\ DOMAIN revs' = DOMAIN revs \cup {Len(revs) + 1}
<1> DEFINE r == [ns |-> n, parent |-> head[n], tree |-> tree]
           new == Len(revs) + 1
<1>1. /\ Len(revs) \in Nat /\ DOMAIN revs = 1 .. Len(revs) /\ None \notin DOMAIN revs
      /\ WellParented(revs)
  BY RevisionForm
<1>2. head[n] \in published \cup {None} /\ published \subseteq DOMAIN revs
  BY DEF ServerTyping
<1>3. r \in Revision(used)
  BY <1>1, <1>2 DEF Revision, HeadOrNone
<1>4. revs' = Append(revs, r) /\ revs \in Seq(Revision(used))
  BY DEF Build, ServerTyping
<1> HIDE DEF r
<1>5. /\ revs' \in Seq(Revision(used)) /\ DOMAIN revs' = 1 .. new
      /\ \A i \in 1 .. Len(revs) : revs'[i] = revs[i]
      /\ revs'[new] = r
  BY <1>1, <1>3, <1>4
<1>6. Extends(revs, revs')
  BY <1>1, <1>5 DEF Extends
<1>7. ASSUME NEW m \in Ns PROVE ChainOf(revs', head[m]) = ChainOf(revs, head[m])
  <2>1. head[m] \in DOMAIN revs \cup {None}
    BY DEF ServerTyping
  <2>2. QED
    BY <1>1, <1>6, <2>1, ChainKept
<1>8. Evolves
  BY <1>6, <1>7 DEF Evolves, Histories, ServerTyping
<1>9. \A i \in DOMAIN revs' : revs'[i].parent \in {None} \cup 1 .. (i - 1)
  <2> SUFFICES ASSUME NEW i \in 1 .. new PROVE revs'[i].parent \in {None} \cup 1 .. (i - 1)
    BY <1>5
  <2>1. CASE i = new
    <3>1. revs'[i].parent = head[n]
      BY <1>5, <2>1 DEF r
    <3>2. QED
      BY <3>1, <1>1, <1>2, <2>1
  <2>2. CASE i # new
    BY <2>2, <1>1, <1>5 DEF ServerTyping
  <2>3. QED
    BY <2>1, <2>2
<1>10. ServerTyping'
  BY <1>1, <1>5, <1>9 DEF ServerTyping, Histories
<1>11. QED
  BY <1>1, <1>5, <1>8, <1>10 DEF r

LEMMA ServerCommits ==
    ASSUME ServerTyping, NEW j, Requested(j), Accepts(j), ServerCommit(j),
           UNCHANGED <<used, discarded, rewrites>>
    PROVE  /\ Evolves /\ ServerTyping'
           /\ j.rev \in published' /\ j.rev # None
           /\ head'[j.ns] = j.rev /\ j.rev \in ChainOf(revs', head'[j.ns])
<1>1. WellParented(revs) /\ None \notin DOMAIN revs
  BY RevisionForm
<1>2. /\ j.rev \in DOMAIN revs /\ revs[j.rev].ns = j.ns /\ revs[j.rev].parent = j.head
      /\ j.ns \in Ns
  BY DEF Requested, CommitJobs
<1>3. head[j.ns] = j.head
  BY DEF Accepts
<1>4. ChainOf(revs, head[j.ns]) \subseteq ChainOf(revs, j.rev)
  BY <1>1, <1>2, <1>3, ChainOfParent
<1>5. /\ head' = [head EXCEPT ![j.ns] = j.rev] /\ published' = published \cup {j.rev}
      /\ revs' = revs /\ epoch' = epoch
  BY DEF ServerCommit
<1>6. \A n \in Ns : head'[n] = IF n = j.ns THEN j.rev ELSE head[n]
  BY <1>5 DEF ServerTyping
<1>7. Evolves
  BY <1>4, <1>5, <1>6 DEF Evolves, Extends, ServerTyping
<1>8. ServerTyping'
  BY <1>2, <1>5 DEF ServerTyping
<1>9. j.rev \in ChainOf(revs', head'[j.ns])
  BY <1>1, <1>2, <1>5, <1>6, ChainHasHead
<1>10. QED
  BY <1>1, <1>2, <1>5, <1>6, <1>7, <1>8, <1>9

LEMMA ServerRewrites ==
    ASSUME ServerTyping, NEW n \in Ns, NEW h \in published \cup {None}, RewriteHistory(n, h)
    PROVE  Evolves /\ ServerTyping'
<1>1. /\ rewrites < MaxRewrites /\ rewrites' = rewrites + 1
      /\ head' = [head EXCEPT ![n] = h]
      /\ epoch' = [epoch EXCEPT ![n] = @ + 1]
      /\ revs' = revs /\ published' = published /\ used' = used /\ discarded' = discarded
  BY DEF RewriteHistory
<1>2. rewrites \in Nat /\ MaxRewrites \in Nat
  BY ClientAssumption DEF ServerTyping
<1>3. \A m \in Ns : /\ epoch[m] \in 0 .. rewrites
                    /\ epoch'[m] = IF m = n THEN epoch[m] + 1 ELSE epoch[m]
                    /\ head'[m] = IF m = n THEN h ELSE head[m]
  BY <1>1 DEF ServerTyping
<1>4. Evolves
  BY <1>1, <1>2, <1>3 DEF Evolves, Extends
<1>5. epoch' \in [Ns -> 0 .. rewrites'] /\ rewrites' \in 0 .. MaxRewrites
  BY <1>1, <1>2, <1>3 DEF ServerTyping
<1>6. head' \in [Ns -> published' \cup {None}]
  BY <1>1 DEF ServerTyping
<1>7. QED
  BY <1>1, <1>4, <1>5, <1>6 DEF ServerTyping

----------------------------------------------------------------------------
(* A step of one client.                                                   *)

Only(c) ==
    /\ home' = [home EXCEPT ![c] = home'[c]]
    /\ track' = [track EXCEPT ![c] = track'[c]]
    /\ active' = [active EXCEPT ![c] = active'[c]]
    /\ journal' = [journal EXCEPT ![c] = journal'[c]]
    /\ job' = [job EXCEPT ![c] = job'[c]]

LEMMA OthersUntouched ==
    ASSUME ClientTyping, NEW c \in Client, Only(c), NEW d \in Client, d # c
    PROVE  Untouched(d)
  BY DEF ClientTyping, Only, Untouched

\* The values that a step gives to its client have their types.
Mine(c) ==
    /\ home'[c] \in TreeOver(used')
    /\ track'[c] \in [Ns -> Record \cup {None}]
    /\ active'[c] \in Ns \cup {None}
    /\ journal'[c] \in AppliedJournals \cup TornJournals(used') \cup {None}
    /\ job'[c] \in Jobs(used')

LEMMA MineUnchanged ==
    ASSUME ClientTyping, used \subseteq used', NEW c \in Client
    PROVE  /\ home'[c] = home[c] => home'[c] \in TreeOver(used')
           /\ track'[c] = track[c] => track'[c] \in [Ns -> Record \cup {None}]
           /\ active'[c] = active[c] => active'[c] \in Ns \cup {None}
           /\ journal'[c] = journal[c] =>
                journal'[c] \in AppliedJournals \cup TornJournals(used') \cup {None}
           /\ job'[c] = job[c] => job'[c] \in Jobs(used')
<1>1. /\ TreeOver(used) \subseteq TreeOver(used') /\ Jobs(used) \subseteq Jobs(used')
      /\ TornJournals(used) \subseteq TornJournals(used')
  BY TreesGrow, JobsGrow, TornGrow
<1>2. QED
  BY <1>1 DEF ClientTyping

LEMMA ClientsTyped ==
    ASSUME ClientTyping, used \subseteq used', NEW c \in Client, Only(c), Mine(c)
    PROVE  ClientTyping'
<1>1. /\ TreeOver(used) \subseteq TreeOver(used') /\ Jobs(used) \subseteq Jobs(used')
      /\ TornJournals(used) \subseteq TornJournals(used')
  BY TreesGrow, JobsGrow, TornGrow
<1>2. home' \in [Client -> TreeOver(used')]
  BY <1>1 DEF ClientTyping, Only, Mine
<1>3. track' \in [Client -> [Ns -> Record \cup {None}]]
  BY DEF ClientTyping, Only, Mine
<1>4. active' \in [Client -> Ns \cup {None}]
  BY DEF ClientTyping, Only, Mine
<1>5. journal' \in [Client -> AppliedJournals \cup TornJournals(used') \cup {None}]
  BY <1>1 DEF ClientTyping, Only, Mine
<1>6. job' \in [Client -> Jobs(used')]
  BY <1>1 DEF ClientTyping, Only, Mine
<1>7. QED
  BY <1>2, <1>3, <1>4, <1>5, <1>6 DEF ClientTyping

LEMMA OwnStep ==
    ASSUME ClientInv, Evolves, ServerTyping', Requests', NEW c \in Client, Only(c), Mine(c),
           Following(c)'
    PROVE  ClientInv'
<1>1. ClientTyping'
  BY ClientsTyped DEF ClientInv, Typing, Evolves
<1>2. ASSUME NEW d \in Client PROVE Following(d)'
  <2>1. CASE d = c
    BY <2>1
  <2>2. CASE d # c
    <3>1. Untouched(d)
      BY <2>2, OthersUntouched DEF ClientInv, Typing
    <3>2. QED
      BY <3>1, OthersFollow DEF ClientInv
  <2>3. QED
    BY <2>1, <2>2
<1>3. QED
  BY <1>1, <1>2 DEF ClientInv, Typing

\* Steps of a client that leave its record and its journal alone and end its job.
LEMMA EndsJob ==
    ASSUME ClientInv, Evolves, ServerTyping', Requests', NEW c \in Client,
           UNCHANGED <<home, track, active, journal>>, job' = [job EXCEPT ![c] = Idle]
    PROVE  ClientInv'
<1>1. job'[c] = Idle /\ Idle.step = "idle"
  BY DEF ClientInv, Typing, ClientTyping, Idle
<1>2. Only(c)
  BY DEF Only, ClientInv, Typing, ClientTyping
<1>3. Mine(c)
  BY <1>1, MineUnchanged DEF Mine, ClientInv, Typing, Evolves, Jobs
<1>4. Following(c)'
  BY <1>1, IdleFollows DEF ClientInv
<1>5. QED
  BY <1>2, <1>3, <1>4, OwnStep

\* Steps that only the server and the histories take part in.
LEMMA ServerOnly ==
    ASSUME ClientInv, Evolves, ServerTyping', Requests',
           UNCHANGED <<home, track, active, journal, job>>
    PROVE  ClientInv'
<1>1. ClientTyping'
  <2>1. /\ TreeOver(used) \subseteq TreeOver(used') /\ Jobs(used) \subseteq Jobs(used')
        /\ TornJournals(used) \subseteq TornJournals(used')
    BY TreesGrow, JobsGrow, TornGrow DEF Evolves
  <2>2. QED
    BY <2>1 DEF ClientInv, Typing, ClientTyping
<1>2. ASSUME NEW d \in Client PROVE Following(d)'
  BY OthersFollow DEF ClientInv, Untouched
<1>3. QED
  BY <1>1, <1>2 DEF ClientInv, Typing

LEMMA RewriteStep ==
    ASSUME ClientInv, NEW n \in Ns, NEW h \in published \cup {None}, RewriteHistory(n, h)
    PROVE  ClientInv' /\ Evolves
<1>1. Evolves /\ ServerTyping'
  BY ServerRewrites DEF ClientInv, Typing
<1>2. UNCHANGED <<home, track, active, journal, job, delayed>>
  BY DEF RewriteHistory
<1>3. Requests'
  BY <1>1, <1>2, RequestsStay DEF ClientInv
<1>4. QED
  BY <1>1, <1>2, <1>3, ServerOnly

LEMMA CommitLateStep ==
    ASSUME ClientInv, NEW j \in delayed, CommitLate(j)
    PROVE  ClientInv' /\ Evolves
<1>1. UNCHANGED <<home, track, active, journal, job, used, discarded, rewrites>>
  BY DEF CommitLate, counters
<1>2. Requested(j) /\ delayed' \subseteq delayed
  BY DEF ClientInv, Requests, CommitLate
<1>3. Evolves /\ ServerTyping'
  <2>1. CASE Accepts(j)
    <3>1. ServerCommit(j)
      BY <2>1 DEF CommitLate
    <3>2. QED
      BY <1>1, <1>2, <2>1, <3>1, ServerCommits DEF ClientInv, Typing
  <2>2. CASE ~ Accepts(j)
    <3>1. UNCHANGED <<revs, published, head, epoch>>
      BY <2>2 DEF CommitLate
    <3>2. Histories
      BY <1>1 DEF Histories, ClientInv, Typing, ServerTyping
    <3>3. QED
      BY <1>1, <3>1, <3>2, ServerSame DEF ClientInv, Typing
  <2>3. QED
    BY <2>1, <2>2
<1>4. Requests'
  BY <1>2, <1>3, RequestsStay DEF ClientInv
<1>5. QED
  BY <1>1, <1>3, <1>4, ServerOnly

----------------------------------------------------------------------------
(* The user's edits.                                                       *)

Edited(x, t, version, new) ==
    [v |-> [x.v EXCEPT ![t] = version], e |-> [x.e EXCEPT ![t] = @ \cup {new}]]

LEMMA EditMeans ==
    ASSUME Typing, NEW c \in Client, NEW t \in Thread, EditThread(c, t)
    PROVE  \E new \in Edit \ used : \E version \in {new, Absent} :
             /\ used' = used \cup {new}
             /\ version = new => home[c].v[t] # Absent \/ home[c].e[t] = {}
             /\ version = Absent => home[c].v[t] # Absent
             /\ home' = [home EXCEPT ![c] = Edited(home[c], t, version, new)]
<1> DEFINE new == CHOOSE x \in Edit : x \notin used
<1>1. new \in Edit \ used
  BY DEF EditThread, Typing, ServerTyping
<1>2. used' = used \cup {new}
  BY DEF EditThread
<1>3. PICK version \in {new, Absent} :
             /\ version = new => home[c].v[t] # Absent \/ home[c].e[t] = {}
             /\ version = Absent => home[c].v[t] # Absent
             /\ home' = [home EXCEPT ![c].v[t] = version, ![c].e[t] = @ \cup {new}]
  BY DEF EditThread
<1> HIDE DEF new
<1>4. home[c] = [v |-> home[c].v, e |-> home[c].e] /\ home \in [Client -> TreeOver(used)]
  BY DEF Typing, ClientTyping, TreeOver
<1>5. home' = [home EXCEPT ![c] = Edited(home[c], t, version, new)]
  <2> DEFINE x == home[c]
  <2>1. DOMAIN home = Client /\ DOMAIN x = {"v", "e"}
    BY <1>4
  <2>2. home' = [home EXCEPT ![c] = [x EXCEPT !.v = [x.v EXCEPT ![t] = version],
                                              !.e = [x.e EXCEPT ![t] = @ \cup {new}]]]
    BY <1>3, <2>1
  <2>3. [x EXCEPT !.v = [x.v EXCEPT ![t] = version], !.e = [x.e EXCEPT ![t] = @ \cup {new}]]
          = Edited(x, t, version, new)
    <3> DEFINE p == [x.v EXCEPT ![t] = version]
               q == [x.e EXCEPT ![t] = @ \cup {new}]
               w == used \cup {new}
    <3>1. x \in TreeOver(w) /\ p \in [Thread -> w \cup {Absent}] /\ q \in [Thread -> SUBSET w]
      BY <1>1, <1>3, <1>4 DEF TreeOver
    <3> HIDE DEF p, q, w, x
    <3>2. Rewritten(x, p, q) = [v |-> p, e |-> q]
      BY <3>1, TreeUpdate
    <3>3. QED
      BY <3>2 DEF p, q, Edited, Rewritten
  <2>4. QED
    BY <2>2, <2>3
<1>6. QED
  BY <1>1, <1>2, <1>3, <1>5

LEMMA EditStep ==
    ASSUME ClientInv, NEW c \in Client, NEW t \in Thread, EditThread(c, t)
    PROVE  ClientInv' /\ Evolves
<1> USE DEF ClientInv, Typing
<1>1. PICK new \in Edit \ used : \E version \in {new, Absent} :
             /\ used' = used \cup {new}
             /\ home' = [home EXCEPT ![c] = Edited(home[c], t, version, new)]
  BY EditMeans
<1>2. PICK version \in {new, Absent} :
             /\ used' = used \cup {new}
             /\ home' = [home EXCEPT ![c] = Edited(home[c], t, version, new)]
  BY <1>1
<1>3. UNCHANGED <<revs, published, head, epoch, delayed, track, active, journal, job,
                  discarded, rewrites>>
  BY DEF EditThread, server, counters
<1>4. Histories
  BY <1>2, <1>3 DEF Histories, ServerTyping
<1>5. Evolves /\ ServerTyping'
  BY <1>3, <1>4, ServerSame
<1>6. Requests'
  BY <1>3, <1>5, RequestsStay
<1>7. Only(c)
  BY <1>2, <1>3 DEF Only, ClientTyping
<1>8. home'[c] \in TreeOver(used')
  <2>1. home'[c] = Edited(home[c], t, version, new)
    BY <1>2 DEF ClientTyping
  <2>2. home[c] \in TreeOver(used)
    BY DEF ClientTyping
  <2>3. /\ [home[c].v EXCEPT ![t] = version] \in [Thread -> used' \cup {Absent}]
        /\ [home[c].e EXCEPT ![t] = @ \cup {new}] \in [Thread -> SUBSET used']
    BY <1>2, <2>2 DEF TreeOver
  <2>4. QED
    BY <2>1, <2>3, TreeMade DEF Edited
<1>9. Mine(c)
  BY <1>3, <1>5, <1>8, MineUnchanged DEF Mine, Evolves
<1>10. Following(c)'
  BY <1>3, <1>5, RecordStays, JobStays, JournalStays DEF Following
<1>11. QED
  BY <1>5, <1>6, <1>7, <1>9, <1>10, OwnStep

----------------------------------------------------------------------------
(* Steps that leave the server alone.                                      *)

Quiet == UNCHANGED <<revs, published, head, epoch, delayed, rewrites, used>>

LEMMA QuietServer ==
    ASSUME ClientInv, Quiet, discarded \subseteq discarded', discarded' \subseteq used
    PROVE  Evolves /\ ServerTyping' /\ Requests'
<1>1. Histories
  BY DEF Histories, ClientInv, Typing, ServerTyping, Quiet
<1>2. Evolves /\ ServerTyping'
  BY <1>1, ServerSame DEF Quiet, ClientInv, Typing
<1>3. QED
  BY <1>2, RequestsStay DEF ClientInv, Quiet

LEMMA NoChange ==
    ASSUME ClientInv, Quiet, UNCHANGED <<discarded, home, track, active, journal, job>>
    PROVE  ClientInv' /\ Evolves
<1>1. discarded \subseteq discarded' /\ discarded' \subseteq used
  BY DEF ClientInv, Typing, ServerTyping
<1>2. QED
  BY <1>1, QuietServer, ServerOnly

LEMMA GivesUpStep ==
    ASSUME ClientInv, Quiet, NEW c \in Client,
           UNCHANGED <<discarded, home, track, active, journal>>, job' = [job EXCEPT ![c] = Idle]
    PROVE  ClientInv' /\ Evolves
<1>1. discarded \subseteq discarded' /\ discarded' \subseteq used
  BY DEF ClientInv, Typing, ServerTyping
<1>2. QED
  BY <1>1, QuietServer, EndsJob

----------------------------------------------------------------------------
(* Trees that are planned.                                                 *)

LEMMA MergedForm ==
    ASSUME NEW u, NEW base, NEW local \in TreeOver(u), NEW remote \in TreeOver(u)
    PROVE  merge_thread_sets(base, local, remote) \in TreeOver(u)
<1> DEFINE clash == Conflicting(base, local, remote)
           vs == [t \in Thread |-> IF t \in clash THEN Absent
                                   ELSE MergedVersion(base, local, remote, t)]
           es == [t \in Thread |-> IF t \in clash THEN {}
                    ELSE EditsBehind(IF t \in clash THEN Absent
                                     ELSE MergedVersion(base, local, remote, t), local, remote, t)]
<1>1. merge_thread_sets(base, local, remote) = [v |-> vs, e |-> es]
  BY DEF merge_thread_sets
<1>2. \A t \in Thread : /\ local.v[t] \in u \cup {Absent} /\ remote.v[t] \in u \cup {Absent}
                        /\ local.e[t] \subseteq u /\ remote.e[t] \subseteq u
  BY DEF TreeOver
<1>3. vs \in [Thread -> u \cup {Absent}]
  BY <1>2 DEF MergedVersion
<1>4. es \in [Thread -> SUBSET u]
  BY <1>2 DEF EditsBehind
<1> HIDE DEF vs, es
<1>5. QED
  BY <1>1, <1>3, <1>4, TreeMade

LEMMA ResolvedForm ==
    ASSUME NEW u, NEW base, NEW local \in TreeOver(u), NEW remote \in TreeOver(u), NEW resolutions
    PROVE  resolve_thread_sets(base, local, remote, resolutions) \in TreeOver(u)
<1> DEFINE m == merge_thread_sets(base, local, remote)
           clash == Conflicting(base, local, remote)
           side(t) == IF \E r \in resolutions : r.conflict.thread = t /\ r.choice = "local"
                      THEN local ELSE remote
           vs == [t \in Thread |-> IF t \in clash THEN side(t).v[t] ELSE m.v[t]]
           es == [t \in Thread |-> IF t \in clash THEN side(t).e[t] ELSE m.e[t]]
<1>1. resolve_thread_sets(base, local, remote, resolutions) = [v |-> vs, e |-> es]
  BY DEF resolve_thread_sets
<1>2. m \in TreeOver(u)
  BY MergedForm
<1> HIDE DEF m
<1>3. \A t \in Thread : /\ local.v[t] \in u \cup {Absent} /\ remote.v[t] \in u \cup {Absent}
                        /\ local.e[t] \subseteq u /\ remote.e[t] \subseteq u
                        /\ m.v[t] \in u \cup {Absent} /\ m.e[t] \subseteq u
  BY <1>2 DEF TreeOver
<1>4. \A t \in Thread : side(t) \in {local, remote}
  OBVIOUS
<1> HIDE DEF side
<1>5. \A t \in Thread : side(t).v[t] \in u \cup {Absent} /\ side(t).e[t] \subseteq u
  BY <1>3, <1>4
<1>6. vs \in [Thread -> u \cup {Absent}] /\ es \in [Thread -> SUBSET u]
  BY <1>3, <1>5
<1> HIDE DEF vs, es
<1>7. QED
  BY <1>1, <1>6, TreeMade

LEMMA ComposedForm ==
    ASSUME NEW u, NEW remote \in TreeOver(u), NEW local \in TreeOver(u), NEW staged
    PROVE  compose_staged(remote, local, staged) \in TreeOver(u)
<1> DEFINE vs == [t \in Thread |-> IF t \in staged THEN local.v[t] ELSE remote.v[t]]
           es == [t \in Thread |-> IF t \in staged THEN local.e[t] ELSE remote.e[t]]
<1>1. compose_staged(remote, local, staged) = [v |-> vs, e |-> es]
  BY DEF compose_staged
<1>2. \A t \in Thread : /\ local.v[t] \in u \cup {Absent} /\ remote.v[t] \in u \cup {Absent}
                        /\ local.e[t] \subseteq u /\ remote.e[t] \subseteq u
  BY DEF TreeOver
<1>3. vs \in [Thread -> u \cup {Absent}] /\ es \in [Thread -> SUBSET u]
  BY <1>2
<1> HIDE DEF vs, es
<1>4. QED
  BY <1>1, <1>3, TreeMade

LEMMA TreeOfForm ==
    ASSUME ServerTyping, NEW h \in DOMAIN revs \cup {None} PROVE TreeOf(h) \in TreeOver(used)
  BY RevisionForm, EmptyTreeForm DEF TreeOf

\* The conversations of a resolution are threads.
LEMMA ResolvedThreads ==
    ASSUME NEW base, NEW local, NEW remote, NEW resolutions,
           Valid(resolutions, Conflicts(base, local, remote)), NEW r \in resolutions
    PROVE  r.conflict.thread \in Conflicting(base, local, remote) /\ r.conflict.thread \in Thread
<1>1. r.conflict \in Conflicts(base, local, remote)
  BY DEF Valid
<1>2. PICK t \in Conflicting(base, local, remote) :
        r.conflict = conflict_fingerprint(base, local, remote, t)
  BY <1>1 DEF Conflicts
<1>3. r.conflict.thread = t
  BY <1>2 DEF conflict_fingerprint
<1>4. QED
  BY <1>2, <1>3 DEF Conflicting

LEMMA GivenUpForm ==
    ASSUME NEW u, NEW base, NEW local \in TreeOver(u), NEW remote \in TreeOver(u), NEW resolutions,
           Valid(resolutions, Conflicts(base, local, remote))
    PROVE  GivenUp(local, remote, resolutions) \subseteq u
<1>1. \A r \in resolutions : r.conflict.thread \in Thread
  BY ResolvedThreads
<1>2. \A t \in Thread : local.e[t] \subseteq u /\ remote.e[t] \subseteq u
  BY DEF TreeOver
<1>3. QED
  BY <1>1, <1>2 DEF GivenUp

LEMMA LackingForm ==
    ASSUME NEW u, NEW x, NEW y \in TreeOver(u) PROVE EditsLacking(x, y) \subseteq u
  BY DEF EditsLacking, TreeOver

----------------------------------------------------------------------------
(* A checkout is planned.                                                  *)

\* What the plans have in common.
Planned(c, op, n, h, tree, dropped, then) ==
    /\ op \in Ops /\ n \in Ns /\ h \in Known
    /\ tree \in TreeOver(used) /\ dropped \subseteq used /\ then \in {"epoch", "publish", "done"}
    /\ op \notin {"restore", "remap"} => h = head[n]
    /\ op = "remap" => h = TrackedHead(c, n)
    /\ op \in {"restore", "remap"} => then # "epoch"

LEMMA KnownForm == ASSUME ServerTyping, NEW h \in Known PROVE h \in DOMAIN revs \cup {None} /\ h \in HeadOrNone
  BY RevisionForm DEF Known, ServerTyping, HeadOrNone

LEMMA HeadIsAhead ==
    ASSUME ServerTyping, NEW n \in Ns PROVE head[n] \in Known /\ Ahead(head[n], n, epoch[n])
<1>1. head[n] \in Known /\ head[n] \in DOMAIN revs \cup {None}
  BY KnownForm DEF ServerTyping, Known
<1>2. head[n] # None => head[n] \in ChainOf(revs, head[n])
  BY <1>1, ChainHasHead
<1>3. QED
  BY <1>1, <1>2 DEF Ahead

LEMMA CheckoutStarts ==
    ASSUME ClientInv, NEW c \in Client, NEW op, NEW n, NEW h, NEW tree, NEW dropped, NEW then,
           Planned(c, op, n, h, tree, dropped, then),
           StartCheckout(c, CheckoutJob(c, op, n, h, tree, dropped, then)), rewrites' = rewrites
    PROVE  ClientInv' /\ Evolves
<1> USE DEF ClientInv, Typing
<1> DEFINE j == CheckoutJob(c, op, n, h, tree, dropped, then)
<1>1. /\ Quiet
      /\ UNCHANGED <<home, track, active, journal, discarded>>
      /\ job' = [job EXCEPT ![c] = j]
  BY DEF StartCheckout, server, Quiet
<1>2. Evolves /\ ServerTyping' /\ Requests'
  BY <1>1, QuietServer DEF ServerTyping
<1>3. n \in Ns /\ h \in Known
  BY DEF Planned
<1>4. /\ Generation(c, n) \in Nat /\ RecordedEpoch(c, n) \in Nat /\ epoch[n] \in Nat
      /\ RecordedEpoch(c, n) <= epoch[n]
      /\ home[c] \in TreeOver(used) /\ h \in HeadOrNone
  <2>1. epoch[n] \in Nat
    BY <1>3 DEF ServerTyping
  <2>2. Generation(c, n) \in Nat /\ RecordedEpoch(c, n) \in Nat
    BY <1>3, RecordForm
  <2>3. RecordedEpoch(c, n) <= epoch[n]
    BY <1>3, <2>1 DEF Following, RecordOK, RecordedEpoch
  <2>4. QED
    BY <1>3, <2>1, <2>2, <2>3, KnownForm DEF ClientTyping
<1>5. j \in CheckoutJobs(used)
  BY <1>3, <1>4 DEF CheckoutJobs, CheckoutJob, Planned
<1>6. /\ job'[c] = j /\ j.step = "checkout" /\ j.op = op /\ j.ns = n /\ j.head = h
      /\ j.generation = Generation(c, n) /\ j.epoch = epoch[n] /\ j.then = then
  BY <1>1 DEF CheckoutJob, ClientTyping
<1> HIDE DEF j
<1>7. Only(c)
  BY <1>1 DEF Only, ClientTyping
<1>8. Mine(c)
  <2>1. j \in Jobs(used')
    BY <1>1, <1>5 DEF Jobs, Quiet
  <2>2. QED
    BY <1>1, <1>2, <1>6, <2>1, MineUnchanged DEF Mine, Evolves
<1>9. Ahead(head[n], n, epoch[n])
  BY <1>3, HeadIsAhead
<1>10. JobOK(c)'
  <2>1. /\ Generation(c, n)' = Generation(c, n) /\ RecordedEpoch(c, n)' = RecordedEpoch(c, n)
        /\ TrackedHead(c, n)' = TrackedHead(c, n) /\ epoch' = epoch /\ Known' = Known
    BY <1>1, <1>3 DEF Generation, RecordedEpoch, TrackedHead, Quiet, Known
  <2>2. op \notin {"restore", "remap"} =>
            (epoch[n] = epoch'[n] /\ h # None => h \in ChainOf(revs', head'[n]))
    BY <1>1, <1>9 DEF Ahead, Quiet, Planned
  <2>3. QED
    BY <1>3, <1>4, <1>6, <2>1, <2>2 DEF JobOK, Reads, Ahead, Planned
<1>11. Following(c)'
  BY <1>1, <1>2, <1>6, <1>10, RecordStays, JournalStays DEF Following
<1>12. QED
  BY <1>2, <1>7, <1>8, <1>11, OwnStep

LEMMA PullMeans ==
    ASSUME ClientInv, NEW c \in Client, NEW n \in Ns, MayPull(c, n)
    PROVE  /\ head[n] \in published /\ head[n] \in DOMAIN revs /\ head[n] # None
           /\ revs[head[n]].tree \in TreeOver(used)
           /\ home[c] \in TreeOver(used)
           /\ PullBase(c, n) \in TreeOver(used)
           /\ TrackedHead(c, n) \in Known
<1> USE DEF ClientInv, Typing
<1>1. head[n] \in published /\ head[n] \in DOMAIN revs /\ head[n] # None
  BY DEF MayPull, ServerTyping
<1>2. revs[head[n]].tree \in TreeOver(used) /\ home[c] \in TreeOver(used)
  BY <1>1, RevisionForm DEF ClientTyping
<1>3. TrackedHead(c, n) \in Known
  BY DEF Following, RecordOK, TrackedHead, Known
<1>4. TrackedHead(c, n) \in DOMAIN revs \cup {None}
  BY <1>3, KnownForm
<1>5. QED
  BY <1>1, <1>2, <1>3, <1>4, TreeOfForm DEF PullBase

LEMMA PullPlan ==
    ASSUME ClientInv, NEW c \in Client, NEW n \in Ns, MayPull(c, n)
    PROVE  Planned(c, "pull", n, head[n],
                   merge_thread_sets(PullBase(c, n), home[c], revs[head[n]].tree), {}, "epoch")
<1>1. merge_thread_sets(PullBase(c, n), home[c], revs[head[n]].tree) \in TreeOver(used)
  BY PullMeans, MergedForm
<1>2. head[n] \in Known
  BY HeadIsAhead DEF ClientInv, Typing
<1>3. QED
  BY <1>1, <1>2 DEF Planned, Ops

LEMMA ResolvePlan ==
    ASSUME ClientInv, NEW c \in Client, NEW n \in Ns, MayPull(c, n), NEW resolutions,
           Valid(resolutions, Conflicts(PullBase(c, n), home[c], revs[head[n]].tree))
    PROVE  Planned(c, "resolve", n, head[n],
                   resolve_thread_sets(PullBase(c, n), home[c], revs[head[n]].tree, resolutions),
                   GivenUp(home[c], revs[head[n]].tree, resolutions), "publish")
<1> DEFINE base == PullBase(c, n)
           remote == revs[head[n]].tree
           local == home[c]
<1>1. base \in TreeOver(used) /\ local \in TreeOver(used) /\ remote \in TreeOver(used)
  BY PullMeans
<1>2. Valid(resolutions, Conflicts(base, local, remote))
  OBVIOUS
<1>3. head[n] \in Known
  BY HeadIsAhead DEF ClientInv, Typing
<1> HIDE DEF base, remote, local
<1>4. resolve_thread_sets(base, local, remote, resolutions) \in TreeOver(used)
  BY <1>1, ResolvedForm
<1>5. GivenUp(local, remote, resolutions) \subseteq used
  BY <1>1, <1>2, GivenUpForm
<1>6. QED
  BY <1>3, <1>4, <1>5 DEF Planned, Ops, base, remote, local

LEMMA MergeMeans ==
    ASSUME ClientInv, NEW c \in Client, NEW n \in Ns, MayMerge(c, n)
    PROVE  /\ head[n] \in published /\ head[n] \in DOMAIN revs /\ head[n] # None
           /\ revs[head[n]].tree \in TreeOver(used)
           /\ home[c] \in TreeOver(used)
<1> USE DEF ClientInv, Typing
<1>1. head[n] \in published /\ head[n] \in DOMAIN revs /\ head[n] # None
  BY DEF MayMerge, ServerTyping
<1>2. QED
  BY <1>1, RevisionForm DEF ClientTyping

LEMMA MergePlan ==
    ASSUME ClientInv, NEW c \in Client, NEW n \in Ns, MayMerge(c, n), NEW resolutions,
           Valid(resolutions, Conflicts(EmptyTree, home[c], revs[head[n]].tree))
    PROVE  Planned(c, "merge", n, head[n],
                   resolve_thread_sets(EmptyTree, home[c], revs[head[n]].tree, resolutions),
                   GivenUp(home[c], revs[head[n]].tree, resolutions), "epoch")
<1> DEFINE remote == revs[head[n]].tree
           local == home[c]
<1>1. local \in TreeOver(used) /\ remote \in TreeOver(used)
  BY MergeMeans
<1>2. Valid(resolutions, Conflicts(EmptyTree, local, remote))
  OBVIOUS
<1>3. head[n] \in Known
  BY HeadIsAhead DEF ClientInv, Typing
<1> HIDE DEF remote, local
<1>4. resolve_thread_sets(EmptyTree, local, remote, resolutions) \in TreeOver(used)
  BY <1>1, ResolvedForm
<1>5. GivenUp(local, remote, resolutions) \subseteq used
  BY <1>1, <1>2, GivenUpForm
<1>6. QED
  BY <1>3, <1>4, <1>5 DEF Planned, Ops, remote, local

LEMMA SwitchPlan ==
    ASSUME ClientInv, NEW c \in Client, NEW n \in Ns
    PROVE  Planned(c, "switch", n, head[n], TreeOf(head[n]), {}, "epoch")
<1>1. head[n] \in Known /\ head[n] \in DOMAIN revs \cup {None}
  BY HeadIsAhead, KnownForm DEF ClientInv, Typing
<1>2. TreeOf(head[n]) \in TreeOver(used)
  BY <1>1, TreeOfForm DEF ClientInv, Typing
<1>3. QED
  BY <1>1, <1>2 DEF Planned, Ops

LEMMA RestorePlan ==
    ASSUME ClientInv, NEW c \in Client, NEW n \in Ns, NEW r \in published, head[n] # None,
           NEW then \in {"done", "publish"}
    PROVE  Planned(c, "restore", n, head[n], revs[r].tree,
                   EditsLacking(revs[r].tree, home[c])
                     \cup EditsLacking(revs[r].tree, revs[head[n]].tree), then)
<1>1. head[n] \in Known /\ head[n] \in DOMAIN revs
  BY HeadIsAhead, KnownForm DEF ClientInv, Typing
<1>2. /\ revs[r].tree \in TreeOver(used) /\ revs[head[n]].tree \in TreeOver(used)
      /\ home[c] \in TreeOver(used)
  BY <1>1, RevisionForm DEF ClientInv, Typing, ServerTyping, ClientTyping
<1>3. EditsLacking(revs[r].tree, home[c]) \subseteq used
        /\ EditsLacking(revs[r].tree, revs[head[n]].tree) \subseteq used
  BY <1>2, LackingForm
<1>4. QED
  BY <1>1, <1>2, <1>3 DEF Planned, Ops

LEMMA RemapPlan ==
    ASSUME ClientInv, NEW c \in Client, NEW n \in Ns
    PROVE  Planned(c, "remap", n, TrackedHead(c, n), home[c], {}, "done")
<1>1. TrackedHead(c, n) \in Known
  BY DEF ClientInv, Following, RecordOK, TrackedHead, Known
<1>2. QED
  BY <1>1 DEF Planned, Ops, ClientInv, Typing, ClientTyping

----------------------------------------------------------------------------
(* The record of a home is replaced.                                       *)

LEMMA AheadEarlier ==
    ASSUME NEW h, NEW n, NEW e \in Nat, NEW f \in Nat, epoch[n] \in Nat,
           f <= e, e <= epoch[n], Ahead(h, n, e)
    PROVE  Ahead(h, n, f)
<1>1. f = epoch[n] => e = epoch[n]
  OBVIOUS
<1>2. QED
  BY <1>1 DEF Ahead

\* The record after a reconciliation.
Recorded(c, n, h, e, g) ==
    /\ track' = [track EXCEPT ![c] = track'[c]]
    /\ track'[c] \in [Ns -> Record \cup {None}]
    /\ track'[c][n] = [head |-> h, epoch |-> e, generation |-> g]
    /\ \A m \in Ns \ {n} : track'[c][m] = track[c][m]

LEMMA Reconciles ==
    ASSUME Typing, NEW c \in Client, NEW n \in Ns, NEW g \in Nat, NEW h \in HeadOrNone,
           reconcile_checkout(c, n, g, h)
    PROVE  /\ Recorded(c, n, h, RecordedEpoch(c, n), g + 1)
           /\ active' = [active EXCEPT ![c] = n] /\ active'[c] = n
<1> USE DEF Typing
<1> DEFINE r == [head |-> h, epoch |-> RecordedEpoch(c, n), generation |-> g + 1]
<1>1. r \in Record
  BY RecordForm DEF Record, HeadOrNone
<1>2. track' = [track EXCEPT ![c] = [track[c] EXCEPT ![n] = r]]
  BY DEF reconcile_checkout, RecordedEpoch, ClientTyping
<1>3. track'[c] = [track[c] EXCEPT ![n] = r]
  BY <1>2 DEF ClientTyping
<1> HIDE DEF r
<1>4. /\ track'[c] \in [Ns -> Record \cup {None}] /\ track'[c][n] = r
      /\ \A m \in Ns \ {n} : track'[c][m] = track[c][m]
  BY <1>1, <1>3 DEF ClientTyping
<1>5. active' = [active EXCEPT ![c] = n] /\ active'[c] = n
  BY DEF reconcile_checkout, ClientTyping
<1>6. QED
  BY <1>2, <1>3, <1>4, <1>5 DEF Recorded, r

LEMMA RecordedFollows ==
    ASSUME ClientInv, Quiet, NEW c \in Client, NEW n \in Ns, NEW h \in Known, NEW e \in Nat, NEW g \in Nat,
           e <= epoch[n], Ahead(h, n, e), Recorded(c, n, h, e, g)
    PROVE  RecordOK(c)'
<1> SUFFICES ASSUME NEW m \in Ns, track'[c][m] # None
             PROVE  /\ track'[c][m].head \in Known' /\ track'[c][m].epoch <= epoch'[m]
                    /\ Ahead(track[c][m].head, m, track[c][m].epoch)'
  BY DEF RecordOK
<1>1. Known' = Known /\ epoch' = epoch
  BY DEF Quiet, Known
<1>2. CASE m = n
  <2>1. track'[c][m].head = h /\ track'[c][m].epoch = e
    BY <1>2 DEF Recorded
  <2>2. QED
    BY <1>1, <1>2, <2>1 DEF Ahead, Quiet
<1>3. CASE m # n
  <2>1. track'[c][m] = track[c][m]
    BY <1>3 DEF Recorded
  <2>2. /\ track[c][m].head \in Known /\ track[c][m].epoch <= epoch[m]
        /\ Ahead(track[c][m].head, m, track[c][m].epoch)
    BY <2>1 DEF ClientInv, Following, RecordOK
  <2>3. QED
    BY <1>1, <2>1, <2>2 DEF Ahead, Quiet
<1>4. QED
  BY <1>2, <1>3

\* The record's epoch is not newer than the namespace's.
LEMMA RecordedEpochs ==
    ASSUME ClientInv, NEW c \in Client, NEW n \in Ns
    PROVE  /\ RecordedEpoch(c, n) \in Nat /\ epoch[n] \in Nat /\ RecordedEpoch(c, n) <= epoch[n]
           /\ TrackedHead(c, n) \in Known /\ Ahead(TrackedHead(c, n), n, RecordedEpoch(c, n))
           /\ Generation(c, n) \in Nat
<1> USE DEF ClientInv, Typing
<1>1. epoch[n] \in Nat
  BY DEF ServerTyping
<1>2. Generation(c, n) \in Nat /\ RecordedEpoch(c, n) \in Nat
  BY RecordForm
<1>3. /\ RecordedEpoch(c, n) <= epoch[n] /\ TrackedHead(c, n) \in Known
      /\ Ahead(TrackedHead(c, n), n, RecordedEpoch(c, n))
  BY <1>1 DEF Following, RecordOK, RecordedEpoch, TrackedHead, Known, Ahead
<1>4. QED
  BY <1>1, <1>2, <1>3

LEMMA JobMeans ==
    ASSUME ClientInv, NEW c \in Client, job[c].step \in Reads
    PROVE  /\ job[c].ns \in Ns /\ job[c].generation \in Nat /\ job[c].epoch \in Nat
           /\ Generation(c, job[c].ns) = job[c].generation
           /\ RecordedEpoch(c, job[c].ns) <= job[c].epoch /\ job[c].epoch <= epoch[job[c].ns]
<1>1. job[c] \in Jobs(used)
  BY DEF ClientInv, Typing, ClientTyping
<1>2. QED
  BY <1>1, JobFields DEF ClientInv, Following, JobOK

LEMMA RecordPushStep ==
    ASSUME ClientInv, NEW c \in Client, RecordPush(c)
    PROVE  ClientInv' /\ Evolves
<1>0. PICK j : j = job[c]
  OBVIOUS
<1> DEFINE n == j.ns
           next == [step |-> "epoch", ns |-> n, generation |-> j.generation + 1, epoch |-> j.epoch]
<1>1. /\ j.step = "reconcile" /\ reconcile_checkout(c, n, j.generation, j.head)
      /\ job' = [job EXCEPT ![c] = next]
      /\ Quiet /\ UNCHANGED <<home, journal, discarded>>
  BY <1>0 DEF RecordPush, Quiet, server, counters
<1>2. /\ n \in Ns /\ j.generation \in Nat /\ j.epoch \in Nat
      /\ Generation(c, n) = j.generation
      /\ RecordedEpoch(c, n) <= j.epoch /\ j.epoch <= epoch[n]
  BY <1>0, <1>1, JobMeans DEF Reads
<1>3. j.head \in Known /\ Ahead(j.head, n, j.epoch) /\ j.head \in HeadOrNone
  BY <1>0, <1>1, KnownForm DEF ClientInv, Following, JobOK, Typing
<1>4. RecordedEpoch(c, n) \in Nat /\ epoch[n] \in Nat
  BY <1>2, RecordedEpochs
<1>5. Recorded(c, n, j.head, RecordedEpoch(c, n), j.generation + 1)
        /\ active' = [active EXCEPT ![c] = n] /\ active'[c] = n
  BY <1>1, <1>2, <1>3, Reconciles DEF ClientInv
<1>6. Ahead(j.head, n, RecordedEpoch(c, n))
  BY <1>2, <1>3, <1>4, AheadEarlier
<1>7. RecordOK(c)'
  <2> DEFINE h == j.head
             e == RecordedEpoch(c, n)
             g == j.generation + 1
             m == n
  <2>1. h \in Known /\ e \in Nat /\ g \in Nat /\ e <= epoch[m] /\ Ahead(h, m, e) /\ m \in Ns
          /\ Recorded(c, m, h, e, g)
    BY <1>2, <1>3, <1>4, <1>5, <1>6
  <2> HIDE DEF h, e, g, m
  <2>2. QED
    BY <1>1, <2>1, RecordedFollows
<1>8. /\ job'[c] = next /\ next \in EpochJobs
      /\ next.step = "epoch" /\ next.ns = n /\ next.generation = j.generation + 1
      /\ next.epoch = j.epoch
  BY <1>1, <1>2 DEF EpochJobs, ClientInv, Typing, ClientTyping
<1> HIDE DEF next
<1>9. /\ track'[c][n] # None /\ track'[c][n].head = j.head
      /\ Generation(c, n)' = j.generation + 1 /\ RecordedEpoch(c, n)' = RecordedEpoch(c, n)
  <2>1. track'[c][n] = [head |-> j.head, epoch |-> RecordedEpoch(c, n),
                        generation |-> j.generation + 1]
    BY <1>5 DEF Recorded
  <2>2. track'[c][n] # None
    <3>1. track'[c][n] \in Record
      BY <1>2, <1>3, <1>4, <2>1 DEF Record, HeadOrNone
    <3>2. QED
      BY <3>1, ClientAssumption
  <2>3. QED
    BY <2>1, <2>2 DEF Generation, RecordedEpoch
<1>10. JobOK(c)'
  <2>1. Ahead(j.head, n, j.epoch)
    BY <1>3
  <2>2. j.epoch = epoch'[n] /\ j.head # None => j.head \in ChainOf(revs', head'[n])
    BY <1>1, <2>1 DEF Ahead, Quiet
  <2>3. epoch' = epoch
    BY <1>1 DEF Quiet
  <2>4. QED
    BY <1>2, <1>8, <1>9, <2>2, <2>3 DEF JobOK, Reads, Ahead
<1>11. JournalOK(c)'
  <2>0. PICK k : k = journal[c]
    OBVIOUS
  <2> SUFFICES ASSUME k # None, k.status = "applied" PROVE JournalOK(c)'
    BY <1>1, <2>0 DEF JournalOK
  <2>1. k.ns \in Ns /\ k.generation \in Nat /\ k.generation <= Generation(c, k.ns) /\ k.head \in Known'
    BY <1>1, <2>0, JournalForm DEF ClientInv, Following, JournalOK, Typing, Known, Quiet
  <2>2. CASE k.ns = n
    <3>1. k.generation < Generation(c, k.ns)' /\ Generation(c, k.ns)' # k.generation
      BY <1>2, <1>9, <2>1, <2>2
    <3>2. k.generation <= Generation(c, k.ns)'
      BY <1>2, <1>9, <2>1, <2>2
    <3>3. QED
      BY <1>1, <2>0, <2>1, <3>1, <3>2 DEF JournalOK
  <2>3. CASE k.ns # n
    <3>1. track'[c][k.ns] = track[c][k.ns]
      BY <1>5, <2>1, <2>3 DEF Recorded
    <3>2. /\ Generation(c, k.ns)' = Generation(c, k.ns)
          /\ RecordedEpoch(c, k.ns)' = RecordedEpoch(c, k.ns)
      BY <1>1, <3>1 DEF Generation, RecordedEpoch
    <3>3. k.op # "restore" /\ Generation(c, k.ns) = k.generation =>
            Ahead(k.head, k.ns, RecordedEpoch(c, k.ns))
      BY <2>0 DEF ClientInv, Following, JournalOK
    <3>4. QED
      BY <1>1, <2>0, <1>8, <2>1, <2>3, <3>2, <3>3 DEF JournalOK, Ahead, Quiet
  <2>4. QED
    BY <2>2, <2>3
<1>12. Evolves /\ ServerTyping' /\ Requests'
  BY <1>1, QuietServer DEF ClientInv, Typing, ServerTyping
<1>13. Only(c)
  BY <1>1, <1>5, <1>8 DEF Only, Recorded, ClientInv, Typing, ClientTyping
<1>14. Mine(c)
  <2>1. next \in Jobs(used')
    BY <1>8 DEF Jobs
  <2>2. QED
    BY <1>1, <1>2, <1>5, <1>8, <1>12, <2>1, MineUnchanged
       DEF Mine, Evolves, Recorded, ClientInv, Typing
<1>15. QED
  BY <1>7, <1>10, <1>11, <1>12, <1>13, <1>14, OwnStep DEF Following

LEMMA EpochStep ==
    ASSUME ClientInv, NEW c \in Client, update_remote_epoch(c)
    PROVE  ClientInv' /\ Evolves
<1>0. PICK j : j = job[c]
  OBVIOUS
<1> DEFINE n == j.ns
<1>1. /\ j.step = "epoch" /\ track' = [track EXCEPT ![c][n].epoch = j.epoch]
      /\ job' = [job EXCEPT ![c] = Idle]
      /\ Quiet /\ UNCHANGED <<home, active, journal, discarded>>
  BY <1>0 DEF update_remote_epoch, Quiet, server, counters, RecordEpoch
<1>2. /\ n \in Ns /\ j.generation \in Nat /\ j.epoch \in Nat
      /\ Generation(c, n) = j.generation
      /\ RecordedEpoch(c, n) <= j.epoch /\ j.epoch <= epoch[n]
  BY <1>0, <1>1, JobMeans DEF Reads
<1>3. PICK h : h = track[c][n].head
  OBVIOUS
<1>4. track[c][n] # None /\ Ahead(h, n, j.epoch) /\ h \in Known
  BY <1>0, <1>1, <1>2, <1>3 DEF ClientInv, Following, JobOK, RecordOK
<1>5. track[c][n] \in Record /\ track[c][n] = [head |-> h, epoch |-> track[c][n].epoch,
                                               generation |-> j.generation]
  <2>1. track[c][n] \in Record /\ track[c][n].generation = j.generation
    BY <1>2, <1>4, RecordForm DEF ClientInv, Typing, Generation
  <2>2. QED
    BY <1>3, <2>1 DEF Record
<1>6. Recorded(c, n, h, j.epoch, j.generation)
  <2> DEFINE r == [track[c][n] EXCEPT !.epoch = j.epoch]
  <2>1. r = [head |-> h, epoch |-> j.epoch, generation |-> j.generation] /\ r \in Record
    BY <1>2, <1>5 DEF Record
  <2>2. track' = [track EXCEPT ![c] = [track[c] EXCEPT ![n] = r]]
    BY <1>1, <1>2 DEF ClientInv, Typing, ClientTyping
  <2>3. track'[c] = [track[c] EXCEPT ![n] = r]
    BY <2>2 DEF ClientInv, Typing, ClientTyping
  <2> HIDE DEF r
  <2>4. /\ track'[c] \in [Ns -> Record \cup {None}] /\ track'[c][n] = r
        /\ \A m \in Ns \ {n} : track'[c][m] = track[c][m]
    BY <1>2, <2>1, <2>3 DEF ClientInv, Typing, ClientTyping
  <2>5. QED
    BY <2>1, <2>2, <2>3, <2>4 DEF Recorded
<1>7. RecordOK(c)'
  BY <1>1, <1>2, <1>4, <1>6, RecordedFollows
<1>8. job'[c] = Idle /\ Idle.step = "idle"
  BY <1>1 DEF ClientInv, Typing, ClientTyping, Idle
<1>9. JobOK(c)'
  BY <1>8 DEF JobOK, Reads
<1>10. JournalOK(c)'
  <2>0. PICK k : k = journal[c]
    OBVIOUS
  <2> SUFFICES ASSUME k # None, k.status = "applied" PROVE JournalOK(c)'
    BY <1>1, <2>0 DEF JournalOK
  <2>1. k.ns \in Ns /\ k.generation \in Nat /\ k.generation <= Generation(c, k.ns) /\ k.head \in Known'
    BY <1>1, <2>0, JournalForm DEF ClientInv, Following, JournalOK, Typing, Known, Quiet
  <2>2. k.op # "restore" /\ Generation(c, k.ns) = k.generation =>
            Ahead(k.head, k.ns, RecordedEpoch(c, k.ns))
    BY <2>0 DEF ClientInv, Following, JournalOK
  <2>3. /\ Generation(c, k.ns)' = Generation(c, k.ns)
        /\ Generation(c, k.ns) = k.generation =>
             RecordedEpoch(c, k.ns)' = RecordedEpoch(c, k.ns)
    <3>1. CASE k.ns = n
      <4>1. track'[c][n] = [head |-> h, epoch |-> j.epoch, generation |-> j.generation]
              /\ track'[c][n] \in Record \cup {None}
        BY <1>2, <1>6 DEF Recorded
      <4>2. track'[c][n] # None
        <5>1. [head |-> h, epoch |-> j.epoch, generation |-> j.generation] \in Record
          BY <1>2, <1>5 DEF Record
        <5>2. QED
          BY <4>1, <5>1, ClientAssumption
      <4>3. Generation(c, n)' = j.generation /\ RecordedEpoch(c, n)' = j.epoch
        BY <4>1, <4>2 DEF Generation, RecordedEpoch
      <4>4. Generation(c, n) = k.generation => RecordedEpoch(c, n) = j.epoch
        BY <1>0, <1>1, <2>0, <3>1 DEF ClientInv, Following, JournalOK
      <4>5. QED
        BY <1>2, <3>1, <4>3, <4>4
    <3>2. CASE k.ns # n
      BY <1>6, <2>1, <3>2 DEF Recorded, Generation, RecordedEpoch
    <3>3. QED
      BY <3>1, <3>2
  <2>4. QED
    BY <1>1, <1>8, <2>0, <2>1, <2>2, <2>3 DEF JournalOK, Ahead, Quiet
<1>11. Evolves /\ ServerTyping' /\ Requests'
  BY <1>1, QuietServer DEF ClientInv, Typing, ServerTyping
<1>12. Only(c)
  BY <1>1, <1>6, <1>8 DEF Only, Recorded, ClientInv, Typing, ClientTyping
<1>13. Mine(c)
  BY <1>1, <1>6, <1>8, <1>11, MineUnchanged DEF Mine, Evolves, Recorded, ClientInv, Typing, Jobs
<1>14. QED
  BY <1>7, <1>9, <1>10, <1>11, <1>12, <1>13, OwnStep DEF Following

----------------------------------------------------------------------------
(* The commit request and its answer.                                      *)

LEMMA CommitMeans ==
    ASSUME ClientInv, NEW c \in Client, job[c].step \in {"commit", "lookup"}
    PROVE  Requested(job[c]) /\ job[c] \in CommitJobs /\ job[c].rev \in HeadOrNone
<1>1. Requested(job[c])
  BY DEF ClientInv, Following, JobOK
<1>2. QED
  BY <1>1, RevisionForm DEF Requested, CommitJobs, HeadOrNone

\* A job that has the answer waits for its record.
LEMMA AnsweredStep ==
    ASSUME ClientInv, Evolves, ServerTyping', Requests', NEW c \in Client, NEW j, j = job[c],
           j.step \in {"commit", "lookup"},
           job' = [job EXCEPT ![c] = [step |-> "reconcile", ns |-> j.ns,
                                      generation |-> j.generation, head |-> j.rev,
                                      epoch |-> j.epoch]],
           UNCHANGED <<home, track, active, journal>>, epoch' = epoch,
           j.rev \in Known', j.rev \in ChainOf(revs', head'[j.ns])
    PROVE  ClientInv'
<1> DEFINE n == j.ns
           next == [step |-> "reconcile", ns |-> n, generation |-> j.generation,
                    head |-> j.rev, epoch |-> j.epoch]
<1>1. /\ n \in Ns /\ j.generation \in Nat /\ j.epoch \in Nat
      /\ Generation(c, n) = j.generation
      /\ RecordedEpoch(c, n) <= j.epoch /\ j.epoch <= epoch[n]
  BY JobMeans DEF Reads
<1>2. j.rev \in HeadOrNone
  BY CommitMeans
<1>3. /\ job'[c] = next /\ next \in ReconcileJobs
      /\ next.step = "reconcile" /\ next.ns = n /\ next.generation = j.generation
      /\ next.epoch = j.epoch /\ next.head = j.rev
  BY <1>1, <1>2 DEF ReconcileJobs, ClientInv, Typing, ClientTyping
<1> HIDE DEF next
<1>4. Generation(c, n)' = Generation(c, n) /\ RecordedEpoch(c, n)' = RecordedEpoch(c, n)
  BY DEF Generation, RecordedEpoch
<1>5. JobOK(c)'
  BY <1>1, <1>3, <1>4 DEF JobOK, Reads, Ahead
<1>6. Following(c)'
  BY <1>3, <1>5, RecordStays, JournalStays DEF Following, ClientInv
<1>7. Only(c)
  BY <1>3 DEF Only, ClientInv, Typing, ClientTyping
<1>8. Mine(c)
  BY <1>3, MineUnchanged DEF Mine, Evolves, ClientInv, Typing, Jobs
<1>9. QED
  BY <1>6, <1>7, <1>8, OwnStep

LEMMA CommittedStep ==
    ASSUME ClientInv, NEW c \in Client, Committed(c)
    PROVE  ClientInv' /\ Evolves
<1>0. PICK j : j = job[c]
  OBVIOUS
<1>1. /\ j.step = "commit" /\ Accepts(j) /\ ServerCommit(j)
      /\ job' = [job EXCEPT ![c] = [step |-> "reconcile", ns |-> j.ns,
                                      generation |-> j.generation, head |-> j.rev,
                                      epoch |-> j.epoch]]
      /\ UNCHANGED <<home, track, active, journal, delayed, used, discarded, rewrites>>
  BY <1>0 DEF Committed, counters, Accepts, ServerCommit
<1>2. Requested(j)
  BY <1>0, <1>1, CommitMeans
<1>3. /\ Evolves /\ ServerTyping' /\ j.rev \in published'
      /\ j.rev \in ChainOf(revs', head'[j.ns])
  BY <1>1, <1>2, ServerCommits DEF ClientInv, Typing
<1>4. Requests'
  BY <1>1, <1>3, RequestsStay DEF ClientInv
<1>5. epoch' = epoch
  BY <1>1 DEF ServerCommit
<1>6. QED
  BY <1>0, <1>1, <1>3, <1>4, <1>5, AnsweredStep DEF Known

LEMMA LookUpStep ==
    ASSUME ClientInv, NEW c \in Client, LookUpHead(c)
    PROVE  ClientInv' /\ Evolves
<1>0. PICK j : j = job[c]
  OBVIOUS
<1>1. /\ j.step = "lookup" /\ Quiet /\ UNCHANGED <<home, track, active, journal, discarded>>
      /\ job' = [job EXCEPT ![c] =
            IF head[j.ns] = j.rev
            THEN [step |-> "reconcile", ns |-> j.ns, generation |-> j.generation,
                  head |-> j.rev, epoch |-> j.epoch]
            ELSE Idle]
  BY <1>0 DEF LookUpHead, Quiet, server, counters
<1>2. CASE head[j.ns] # j.rev
  BY <1>1, <1>2, GivesUpStep
<1>3. CASE head[j.ns] = j.rev
  <2>1. Evolves /\ ServerTyping' /\ Requests'
    BY <1>1, QuietServer DEF ClientInv, Typing, ServerTyping
  <2>2. j.ns \in Ns /\ j.rev \in DOMAIN revs /\ None \notin DOMAIN revs
    BY <1>0, <1>1, CommitMeans, RevisionForm DEF Requested, CommitJobs, ClientInv, Typing
  <2>3. j.rev \in Known /\ j.rev \in ChainOf(revs, head[j.ns])
    BY <1>3, <2>2, ChainHasHead, HeadIsAhead DEF ClientInv, Typing
  <2>4. epoch' = epoch /\ j.rev \in Known' /\ j.rev \in ChainOf(revs', head'[j.ns])
    BY <1>1, <2>3 DEF Quiet, Known
  <2>5. QED
    BY <1>0, <1>1, <1>3, <2>1, <2>4, AnsweredStep
<1>4. QED
  BY <1>2, <1>3

\* A request that no answer comes back for may still arrive.
LEMMA RequestsGrow ==
    ASSUME Evolves, Requests, NEW j, Requested(j), delayed' \subseteq delayed \cup {j}
    PROVE  Requests'
<1> SUFFICES ASSUME NEW i \in delayed' PROVE Requested(i)'
  BY DEF Requests
<1>1. Requested(i)
  BY DEF Requests
<1>2. QED
  BY <1>1, RequestStays

LEMMA AnswerLostStep ==
    ASSUME ClientInv, NEW c \in Client, AnswerLost(c)
    PROVE  ClientInv' /\ Evolves
<1>0. PICK j : j = job[c]
  OBVIOUS
<1>1. /\ j.step = "commit"
      /\ UNCHANGED <<home, track, active, journal, used, discarded, rewrites>>
      /\ job' = [job EXCEPT ![c] = IF j.op = "push" THEN [j EXCEPT !.step = "lookup"] ELSE Idle]
      /\ \/ Accepts(j) /\ ServerCommit(j) /\ delayed' = delayed
         \/ delayed' = delayed \cup {j} /\ UNCHANGED <<revs, published, head, epoch>>
  BY <1>0 DEF AnswerLost, Accepts, ServerCommit
<1>2. Requested(j) /\ j \in CommitJobs
  BY <1>0, <1>1, CommitMeans
<1>3. Evolves /\ ServerTyping' /\ epoch' = epoch
  <2>1. CASE Accepts(j) /\ ServerCommit(j)
    <3>1. epoch' = epoch
      BY <2>1 DEF ServerCommit
    <3>2. QED
      BY <1>1, <1>2, <2>1, <3>1, ServerCommits DEF ClientInv, Typing
  <2>2. CASE UNCHANGED <<revs, published, head, epoch>>
    <3>1. Histories
      BY <1>1 DEF Histories, ClientInv, Typing, ServerTyping
    <3>2. QED
      BY <1>1, <2>2, <3>1, ServerSame DEF ClientInv, Typing
  <2>3. QED
    BY <1>1, <2>1, <2>2
<1>4. Requests'
  BY <1>1, <1>2, <1>3, RequestsGrow DEF ClientInv
<1>5. CASE j.op # "push"
  BY <1>1, <1>3, <1>4, <1>5, EndsJob
<1>6. CASE j.op = "push"
  <2> DEFINE next == [j EXCEPT !.step = "lookup"]
  <2>1. /\ job'[c] = next /\ next \in CommitJobs /\ next.step = "lookup" /\ next.ns = j.ns
        /\ next.generation = j.generation /\ next.epoch = j.epoch /\ next.rev = j.rev
        /\ next.head = j.head
    BY <1>1, <1>2, <1>6 DEF CommitJobs, ClientInv, Typing, ClientTyping
  <2> HIDE DEF next
  <2>2. /\ j.ns \in Ns /\ j.generation \in Nat /\ j.epoch \in Nat
        /\ Generation(c, j.ns) = j.generation
        /\ RecordedEpoch(c, j.ns) <= j.epoch /\ j.epoch <= epoch[j.ns]
    BY <1>0, <1>1, JobMeans DEF Reads
  <2>3. Generation(c, j.ns)' = Generation(c, j.ns) /\ RecordedEpoch(c, j.ns)' = RecordedEpoch(c, j.ns)
    BY <1>1 DEF Generation, RecordedEpoch
  <2>5. JobOK(c)'
    <3>1. Requested(job[c])'
      BY <1>2, <1>3, <2>1, RequestStays DEF Requested
    <3>2. QED
      BY <1>3, <2>1, <2>2, <2>3, <3>1 DEF JobOK, Reads
  <2>6. Following(c)'
    BY <1>1, <1>3, <2>1, <2>5, RecordStays, JournalStays DEF Following, ClientInv
  <2>7. Only(c)
    BY <1>1, <1>6, <2>1 DEF Only, ClientInv, Typing, ClientTyping
  <2>8. Mine(c)
    BY <1>1, <1>3, <2>1, MineUnchanged DEF Mine, Evolves, ClientInv, Typing, Jobs
  <2>9. QED
    BY <1>3, <1>4, <2>6, <2>7, <2>8, OwnStep
<1>7. QED
  BY <1>5, <1>6

----------------------------------------------------------------------------
(* Pushes.                                                                 *)

LEMMA BuildStep ==
    ASSUME ClientInv, NEW c \in Client, NEW n \in Ns, NEW op \in {"push", "staged"},
           NEW tree \in TreeOver(used), Build(n, tree),
           job' = [job EXCEPT ![c] = CommitJob(c, n, op)],
           UNCHANGED <<published, head, epoch, delayed, home, track, active, journal, used, rewrites>>,
           discarded \subseteq discarded', discarded' \subseteq used
    PROVE  ClientInv' /\ Evolves
<1>1. Histories
  BY DEF Histories, ClientInv, Typing, ServerTyping
<1> DEFINE new == Len(revs) + 1
<1>2. /\ Evolves /\ ServerTyping'
      /\ new \in DOMAIN revs'
      /\ revs'[new] = [ns |-> n, parent |-> head[n], tree |-> tree]
  BY <1>1, ServerBuilds DEF ClientInv, Typing
<1>3. Requests'
  BY <1>2, RequestsStay DEF ClientInv
<1>4. PICK j : j = CommitJob(c, n, op)
  OBVIOUS
<1>5. /\ j.step = "commit" /\ j.op = op /\ j.ns = n /\ j.generation = Generation(c, n)
      /\ j.rev = new /\ j.head = head[n] /\ j.epoch = epoch[n] /\ job'[c] = j
  BY <1>4 DEF CommitJob, ClientInv, Typing, ClientTyping
<1>6. /\ Generation(c, n) \in Nat /\ RecordedEpoch(c, n) \in Nat /\ epoch[n] \in Nat
      /\ RecordedEpoch(c, n) <= epoch[n]
  BY RecordedEpochs
<1>7. j \in CommitJobs
  <2>1. new \in Nat /\ head[n] \in HeadOrNone
    BY RevisionForm, HeadIsAhead, KnownForm DEF ClientInv, Typing
  <2>2. QED
    BY <1>4, <1>6, <2>1 DEF CommitJob, CommitJobs
<1> HIDE DEF new
<1>8. Requested(job[c])'
  BY <1>2, <1>5, <1>7 DEF Requested
<1>9. Generation(c, n)' = Generation(c, n) /\ RecordedEpoch(c, n)' = RecordedEpoch(c, n)
  BY DEF Generation, RecordedEpoch
<1>10. JobOK(c)'
  BY <1>5, <1>6, <1>8, <1>9 DEF JobOK, Reads
<1>11. Following(c)'
  BY <1>2, <1>5, <1>10, RecordStays, JournalStays DEF Following, ClientInv
<1>12. Only(c)
  BY <1>5 DEF Only, ClientInv, Typing, ClientTyping
<1>13. Mine(c)
  BY <1>2, <1>5, <1>7, MineUnchanged DEF Mine, Evolves, ClientInv, Typing, Jobs
<1>14. QED
  BY <1>2, <1>3, <1>11, <1>12, <1>13, OwnStep

LEMMA PushStep ==
    ASSUME ClientInv, NEW c \in Client, NEW n \in Ns, push_namespace(c, n)
    PROVE  ClientInv' /\ Evolves
<1>1. /\ Build(n, home[c]) /\ job' = [job EXCEPT ![c] = CommitJob(c, n, "push")]
      /\ UNCHANGED <<published, head, epoch, delayed, home, track, active, journal, used,
                     rewrites, discarded>>
  BY DEF push_namespace, counters
<1>2. home[c] \in TreeOver(used) /\ discarded' \subseteq used
  BY <1>1 DEF ClientInv, Typing, ClientTyping, ServerTyping
<1>3. QED
  BY <1>1, <1>2, BuildStep

LEMMA StagedStep ==
    ASSUME ClientInv, NEW c \in Client, NEW n \in Ns, NEW staged \in SUBSET Thread,
           push_staged_namespace(c, n, staged)
    PROVE  ClientInv' /\ Evolves
<1> DEFINE base == TreeOf(head[n])
           tree == compose_staged(base, home[c], staged)
           gone == UNION {base.e[t] \ home[c].e[t] : t \in {s \in staged : home[c].v[s] = Absent}}
<1>1. /\ Build(n, tree) /\ job' = [job EXCEPT ![c] = CommitJob(c, n, "staged")]
      /\ discarded' = discarded \cup gone
      /\ UNCHANGED <<published, head, epoch, delayed, home, track, active, journal, used, rewrites>>
  BY DEF push_staged_namespace, counters
<1>2. home[c] \in TreeOver(used) /\ base \in TreeOver(used) /\ discarded \subseteq used
  BY HeadIsAhead, KnownForm, TreeOfForm DEF ClientInv, Typing, ClientTyping, ServerTyping
<1>3. tree \in TreeOver(used)
  BY <1>2, ComposedForm
<1>4. gone \subseteq used
  BY <1>2 DEF TreeOver
<1> HIDE DEF tree, gone
<1>5. QED
  BY <1>1, <1>2, <1>3, <1>4, BuildStep

LEMMA PushNothingStep ==
    ASSUME ClientInv, NEW c \in Client, NEW n \in Ns, PushNothing(c, n)
    PROVE  ClientInv' /\ Evolves
<1> DEFINE ep == [step |-> "epoch", ns |-> n, generation |-> Generation(c, n),
                  epoch |-> epoch[n]]
           re == [step |-> "reconcile", ns |-> n, generation |-> Generation(c, n),
                  head |-> head[n], epoch |-> epoch[n]]
           es == [t \in Thread |-> home[c].e[t] \cup revs[head[n]].tree.e[t]]
<1>1. /\ Quiet /\ UNCHANGED <<track, active, journal, discarded>>
      /\ head[n] # None /\ Publishable(c, n)
      /\ \/ HeadIntegrated(c, n) /\ active[c] = n /\ job' = [job EXCEPT ![c] = ep]
         \/ job' = [job EXCEPT ![c] = re]
      /\ home' = [home EXCEPT ![c].e = es]
  BY DEF PushNothing, Quiet, server, counters
<1>2. /\ Generation(c, n) \in Nat /\ RecordedEpoch(c, n) \in Nat /\ epoch[n] \in Nat
      /\ RecordedEpoch(c, n) <= epoch[n]
      /\ head[n] \in Known /\ head[n] \in HeadOrNone /\ head[n] \in DOMAIN revs
      /\ Ahead(head[n], n, epoch[n])
  BY <1>1, RecordedEpochs, HeadIsAhead, KnownForm DEF ClientInv, Typing
<1>3. Evolves /\ ServerTyping' /\ Requests'
  BY <1>1, QuietServer DEF ClientInv, Typing, ServerTyping
<1>4. /\ Generation(c, n)' = Generation(c, n) /\ RecordedEpoch(c, n)' = RecordedEpoch(c, n)
      /\ epoch' = epoch /\ Known' = Known /\ head' = head /\ revs' = revs
  BY <1>1 DEF Generation, RecordedEpoch, Quiet, Known
<1>5. ep \in EpochJobs /\ re \in ReconcileJobs
  BY <1>2 DEF EpochJobs, ReconcileJobs
<1>6. /\ job'[c] \in {ep, re} /\ job' = [job EXCEPT ![c] = job'[c]]
      /\ job'[c] = ep => HeadIntegrated(c, n) /\ active[c] = n
  <2>1. ep # re
    <3>1. ep.step # re.step
      OBVIOUS
    <3>2. QED
      BY <3>1
  <2> HIDE DEF ep, re
  <2>2. QED
    BY <1>1, <2>1 DEF ClientInv, Typing, ClientTyping
<1>7. Following(c)'
  <2>1. RecordOK(c)'
    BY <1>1, <1>3, RecordStays DEF ClientInv, Following
  <2>2. CASE job'[c] = re
    <3>1. /\ job'[c].step = "reconcile" /\ job'[c].ns = n /\ job'[c].generation = Generation(c, n)
          /\ job'[c].head = head[n] /\ job'[c].epoch = epoch[n]
      BY <2>2
    <3>2. JobOK(c)'
      BY <1>2, <1>4, <3>1 DEF JobOK, Reads, Ahead
    <3>3. JournalOK(c)'
      BY <1>1, <1>3, <3>1, JournalStays DEF ClientInv, Following
    <3>4. QED
      BY <2>1, <3>2, <3>3 DEF Following
  <2>3. CASE job'[c] = ep
    <3>1. /\ job'[c].step = "epoch" /\ job'[c].ns = n /\ job'[c].generation = Generation(c, n)
          /\ job'[c].epoch = epoch[n]
      BY <2>3
    <3>2. track[c][n] # None /\ track[c][n].head = head[n]
      BY <1>1, <1>6, <2>3 DEF HeadIntegrated, TrackedHead
    <3>3. RecordedEpoch(c, n) = epoch[n]
      BY <1>1, <3>2 DEF Publishable, EpochAgrees, RecordedEpoch
    <3>4. JobOK(c)'
      BY <1>1, <1>2, <1>4, <3>1, <3>2 DEF JobOK, Reads, Ahead
    <3>5. JournalOK(c)'
      <4>0. PICK k : k = journal[c]
        OBVIOUS
      <4> SUFFICES ASSUME k # None, k.status = "applied" PROVE JournalOK(c)'
        BY <1>1, <4>0 DEF JournalOK
      <4>1. /\ Generation(c, k.ns)' = Generation(c, k.ns)
            /\ RecordedEpoch(c, k.ns)' = RecordedEpoch(c, k.ns)
        BY <1>1 DEF Generation, RecordedEpoch
      <4>2. /\ k.head \in Known
            /\ k.generation <= Generation(c, k.ns)
            /\ k.op # "restore" /\ Generation(c, k.ns) = k.generation =>
                 Ahead(k.head, k.ns, RecordedEpoch(c, k.ns))
        BY <4>0 DEF ClientInv, Following, JournalOK
      <4>3. QED
        BY <1>1, <1>4, <3>1, <3>3, <4>0, <4>1, <4>2 DEF JournalOK, Ahead
    <3>6. QED
      BY <2>1, <3>4, <3>5 DEF Following
  <2>4. QED
    BY <1>6, <2>2, <2>3
<1>8. /\ home' = [home EXCEPT ![c] = home'[c]] /\ home'[c] \in TreeOver(used')
      /\ home'[c] = [v |-> home[c].v, e |-> es]
  <2>1. home[c] \in TreeOver(used) /\ revs[head[n]].tree \in TreeOver(used) /\ used' = used
    BY <1>1, <1>2, RevisionForm DEF ClientInv, Typing, ClientTyping, Quiet
  <2>2. es \in [Thread -> SUBSET used]
    BY <2>1 DEF TreeOver
  <2> HIDE DEF es
  <2>3. home' = [home EXCEPT ![c] = [home[c] EXCEPT !.e = es]]
    BY <1>1 DEF ClientInv, Typing, ClientTyping
  <2>4. [home[c] EXCEPT !.e = es] \in TreeOver(used)
          /\ [home[c] EXCEPT !.e = es] = [v |-> home[c].v, e |-> es]
    BY <2>1, <2>2 DEF TreeOver
  <2>5. QED
    BY <2>1, <2>3, <2>4 DEF ClientInv, Typing, ClientTyping
<1>9. Only(c)
  BY <1>1, <1>6, <1>8 DEF Only, ClientInv, Typing, ClientTyping
<1>10. Mine(c)
  <2> HIDE DEF ep, re
  <2>1. QED
    BY <1>1, <1>3, <1>5, <1>6, <1>8, MineUnchanged DEF Mine, Evolves, ClientInv, Typing, Jobs
<1>11. QED
  BY <1>3, <1>7, <1>9, <1>10, OwnStep

----------------------------------------------------------------------------
(* The two writes of a checkout, and the settlement of an unfinished one.  *)

LEMMA ApplyHomeStep ==
    ASSUME ClientInv, NEW c \in Client, ApplyHome(c)
    PROVE  ClientInv' /\ Evolves
<1>0. PICK j : j = job[c]
  OBVIOUS
<1> DEFINE next == [step |-> "applied", op |-> j.op, ns |-> j.ns, generation |-> j.generation,
                    head |-> j.head, epoch |-> j.epoch, then |-> j.then]
           entry == [status |-> "applied", op |-> j.op, ns |-> j.ns,
                     generation |-> j.generation, head |-> j.head]
<1>1. /\ j.step = "checkout" /\ home' = [home EXCEPT ![c] = j.tree]
      /\ discarded' = discarded \cup j.dropped
      /\ job' = [job EXCEPT ![c] = next] /\ journal' = [journal EXCEPT ![c] = entry]
      /\ Quiet /\ UNCHANGED <<track, active>>
  BY <1>0 DEF ApplyHome, Quiet, server, counters
<1>2. j \in CheckoutJobs(used)
  BY <1>0, <1>1, JobForms DEF JobForm, ClientInv, Typing, ClientTyping
<1>3. /\ j.op \in Ops /\ j.ns \in Ns /\ j.generation \in Nat /\ j.head \in HeadOrNone
      /\ j.epoch \in Nat /\ j.tree \in TreeOver(used) /\ j.dropped \subseteq used
      /\ j.then \in {"epoch", "publish", "done"}
  BY <1>2 DEF CheckoutJobs
<1>4. Evolves /\ ServerTyping' /\ Requests'
  BY <1>1, <1>3, QuietServer DEF ClientInv, Typing, ServerTyping
<1>5. /\ next \in AppliedJobs /\ entry \in AppliedJournals
      /\ job'[c] = next /\ journal'[c] = entry /\ home'[c] = j.tree
  BY <1>1, <1>3 DEF AppliedJobs, AppliedJournals, ClientInv, Typing, ClientTyping
<1>6. /\ next.step = "applied" /\ next.op = j.op /\ next.ns = j.ns /\ next.then = j.then
      /\ next.generation = j.generation /\ next.head = j.head /\ next.epoch = j.epoch
      /\ entry.status = "applied" /\ entry.op = j.op /\ entry.ns = j.ns
      /\ entry.generation = j.generation /\ entry.head = j.head
  OBVIOUS
<1>7. entry # None
  <2>1. entry \in Journal
    BY <1>3 DEF Journal, HeadOrNone
  <2>2. QED
    BY <2>1, ClientAssumption
<1>8. /\ Generation(c, j.ns) = j.generation /\ epoch[j.ns] \in Nat
      /\ RecordedEpoch(c, j.ns) <= j.epoch /\ j.epoch <= epoch[j.ns]
      /\ RecordedEpoch(c, j.ns) \in Nat
      /\ Ahead(TrackedHead(c, j.ns), j.ns, RecordedEpoch(c, j.ns))
  BY <1>0, <1>1, <1>3, JobMeans, RecordedEpochs DEF Reads
<1>9. /\ j.head \in Known
      /\ j.op \notin {"restore", "remap"} => Ahead(j.head, j.ns, j.epoch)
      /\ j.op = "remap" => j.head = TrackedHead(c, j.ns)
      /\ j.op \in {"restore", "remap"} => j.then # "epoch"
  BY <1>0, <1>1 DEF ClientInv, Following, JobOK
<1>10. /\ Generation(c, j.ns)' = Generation(c, j.ns) /\ RecordedEpoch(c, j.ns)' = RecordedEpoch(c, j.ns)
       /\ TrackedHead(c, j.ns)' = TrackedHead(c, j.ns)
       /\ epoch' = epoch /\ Known' = Known /\ head' = head /\ revs' = revs
  BY <1>1 DEF Generation, RecordedEpoch, TrackedHead, Quiet, Known
<1>11. JobOK(c)'
  <2>1. journal'[c] = [status |-> "applied", op |-> next.op, ns |-> next.ns,
                       generation |-> next.generation, head |-> next.head]
    BY <1>5, <1>6
  <2> HIDE DEF next, entry
  <2>2. QED
    BY <1>5, <1>6, <1>8, <1>9, <1>10, <2>1 DEF JobOK, Reads, Ahead
<1>12. JournalOK(c)'
  <2>1. j.op # "restore" => Ahead(j.head, j.ns, RecordedEpoch(c, j.ns))
    BY <1>3, <1>8, <1>9, AheadEarlier DEF Ops
  <2>2. Generation(c, j.ns)' = j.generation /\ j.generation <= Generation(c, j.ns)'
    BY <1>3, <1>8, <1>10
  <2> HIDE DEF next, entry
  <2>3. QED
    BY <1>5, <1>6, <1>9, <1>10, <2>1, <2>2 DEF JournalOK, Ahead
<1>13. Following(c)'
  BY <1>1, <1>4, <1>11, <1>12, RecordStays DEF Following, ClientInv
<1> HIDE DEF next, entry
<1>14. Only(c)
  BY <1>1, <1>5 DEF Only, ClientInv, Typing, ClientTyping
<1>15. Mine(c)
  BY <1>1, <1>3, <1>4, <1>5, MineUnchanged DEF Mine, Evolves, ClientInv, Typing, Jobs, Quiet
<1>16. QED
  BY <1>4, <1>13, <1>14, <1>15, OwnStep

LEMMA ApplyRecordStep ==
    ASSUME ClientInv, NEW c \in Client, ApplyRecord(c)
    PROVE  ClientInv' /\ Evolves
<1>0. PICK j : j = job[c]
  OBVIOUS
<1> DEFINE next == CASE j.then = "epoch" -> [step |-> "epoch", ns |-> j.ns,
                                      generation |-> j.generation + 1, epoch |-> j.epoch]
              [] j.then = "publish" -> [step |-> "publish", ns |-> j.ns]
              [] j.then = "done" -> Idle
           n == j.ns
           h == j.head
           e == RecordedEpoch(c, n)
           g == j.generation + 1
<1>1. /\ j.step = "applied"
      /\ j.op # "restore" => reconcile_checkout(c, j.ns, j.generation, j.head)
      /\ j.op = "restore" => UNCHANGED <<track, active>>
      /\ job' = [job EXCEPT ![c] = next] /\ journal' = [journal EXCEPT ![c] = None]
      /\ Quiet /\ UNCHANGED <<home, discarded>>
  BY <1>0 DEF ApplyRecord, Quiet, server, counters
<1>2. j \in AppliedJobs
  BY <1>0, <1>1, JobForms DEF JobForm, ClientInv, Typing, ClientTyping
<1>3. /\ j.op \in Ops /\ n \in Ns /\ j.generation \in Nat /\ h \in HeadOrNone
      /\ j.epoch \in Nat /\ j.then \in {"epoch", "publish", "done"} /\ g \in Nat
  BY <1>2 DEF AppliedJobs
<1>4. Evolves /\ ServerTyping' /\ Requests'
  BY <1>1, QuietServer DEF ClientInv, Typing, ServerTyping
<1>5. /\ Generation(c, n) = j.generation /\ epoch[n] \in Nat
      /\ e <= j.epoch /\ j.epoch <= epoch[n] /\ e \in Nat
      /\ Ahead(TrackedHead(c, n), n, e)
  BY <1>0, <1>1, <1>3, JobMeans, RecordedEpochs DEF Reads
<1>6. /\ h \in Known
      /\ j.op \notin {"restore", "remap"} => Ahead(h, n, j.epoch)
      /\ j.op = "remap" => h = TrackedHead(c, n)
      /\ j.op \in {"restore", "remap"} => j.then # "epoch"
  BY <1>0, <1>1 DEF ClientInv, Following, JobOK
<1>7. /\ epoch' = epoch /\ Known' = Known /\ head' = head /\ revs' = revs
      /\ job'[c] = next /\ journal'[c] = None
  BY <1>1 DEF Quiet, Known, ClientInv, Typing, ClientTyping
<1>8. /\ next \in Jobs(used')
      /\ next.step \in {"epoch", "publish", "idle"}
      /\ next.step = "epoch" => /\ j.op \notin {"restore", "remap"} /\ next.ns = n
                                /\ next.generation = g /\ next.epoch = j.epoch
  <2>1. CASE j.then = "epoch"
    <3>1. next = [step |-> "epoch", ns |-> n, generation |-> g, epoch |-> j.epoch]
      BY <2>1
    <3>2. next \in EpochJobs
      BY <1>3, <3>1 DEF EpochJobs
    <3>3. QED
      BY <1>6, <2>1, <3>1, <3>2 DEF Jobs
  <2>2. CASE j.then = "publish"
    <3>1. next = [step |-> "publish", ns |-> n]
      BY <2>2
    <3>2. next \in PublishJobs
      BY <1>3, <3>1 DEF PublishJobs
    <3> HIDE DEF next
    <3>3. QED
      BY <3>1, <3>2 DEF Jobs
  <2>3. CASE j.then = "done"
    <3>1. next = Idle
      BY <2>3
    <3> HIDE DEF next
    <3>2. QED
      BY <3>1 DEF Jobs, Idle
  <2>4. QED
    BY <1>3, <2>1, <2>2, <2>3
<1> HIDE DEF next
<1>9. JournalOK(c)'
  BY <1>7 DEF JournalOK
<1>10. CASE j.op = "restore"
  <2>1. JobOK(c)'
    BY <1>7, <1>8, <1>10 DEF JobOK, Reads
  <2>2. Following(c)'
    BY <1>1, <1>4, <1>9, <1>10, <2>1, RecordStays DEF Following, ClientInv
  <2>3. Only(c)
    BY <1>1, <1>7, <1>10 DEF Only, ClientInv, Typing, ClientTyping
  <2>4. Mine(c)
    BY <1>1, <1>4, <1>7, <1>8, <1>10, MineUnchanged DEF Mine, Evolves, ClientInv, Typing
  <2>5. QED
    BY <1>4, <2>2, <2>3, <2>4, OwnStep
<1>11. CASE j.op # "restore"
  <2>1. Recorded(c, n, h, e, g) /\ active' = [active EXCEPT ![c] = n] /\ active'[c] = n
    BY <1>1, <1>3, <1>11, Reconciles DEF ClientInv
  <2>2. Ahead(h, n, e)
    BY <1>3, <1>5, <1>6, <1>11, AheadEarlier
  <2>3. PICK f : f = e
    OBVIOUS
  <2>4. RecordOK(c)'
    BY <1>1, <1>3, <1>5, <1>6, <2>1, <2>2, <2>3, RecordedFollows
  <2>5. /\ track'[c][n] # None /\ track'[c][n].head = h
        /\ Generation(c, n)' = g /\ RecordedEpoch(c, n)' = f
    <3>1. track'[c][n] = [head |-> h, epoch |-> f, generation |-> g]
      BY <2>1, <2>3 DEF Recorded
    <3>2. track'[c][n] # None
      <4>1. track'[c][n] \in Record
        BY <1>3, <1>5, <2>3, <3>1 DEF Record, HeadOrNone
      <4>2. QED
        BY <4>1, ClientAssumption
    <3>3. QED
      BY <3>1, <3>2 DEF Generation, RecordedEpoch
  <2>6. JobOK(c)'
    <3>1. f <= j.epoch
      BY <1>5, <2>3
    <3> HIDE DEF e
    <3>2. QED
      BY <1>3, <1>5, <1>6, <1>7, <1>8, <2>5, <3>1 DEF JobOK, Reads, Ahead
  <2>7. Following(c)'
    BY <1>9, <2>4, <2>6 DEF Following
  <2>8. Only(c)
    BY <1>1, <1>7, <2>1 DEF Only, Recorded, ClientInv, Typing, ClientTyping
  <2>9. Mine(c)
    BY <1>1, <1>3, <1>4, <1>7, <1>8, <2>1, MineUnchanged
       DEF Mine, Evolves, Recorded, ClientInv, Typing
  <2>10. QED
    BY <1>4, <2>7, <2>8, <2>9, OwnStep
<1>12. QED
  BY <1>10, <1>11

LEMMA RecoverStep ==
    ASSUME ClientInv, NEW c \in Client, Recover(c)
    PROVE  ClientInv' /\ Evolves
<1>0. PICK k : k = journal[c]
  OBVIOUS
<1>1. /\ job[c] = Idle /\ k # None /\ journal' = [journal EXCEPT ![c] = None]
      /\ Quiet /\ UNCHANGED <<job, discarded>>
      /\ \/ /\ k.status = "applied" /\ home' = home
            /\ k.op # "restore" => /\ Reconcilable(c, k.ns, k.generation, k.head)
                                   /\ reconcile_checkout(c, k.ns, k.generation, k.head)
            /\ k.op = "restore" => UNCHANGED <<track, active>>
         \/ /\ k.status = "torn" /\ home' = [home EXCEPT ![c] = k.backup]
            /\ UNCHANGED <<track, active>>
  BY <1>0 DEF Recover, Quiet, server, counters
<1>2. Evolves /\ ServerTyping' /\ Requests'
  BY <1>1, QuietServer DEF ClientInv, Typing, ServerTyping
<1>3. job'[c] = Idle /\ Idle.step = "idle" /\ journal'[c] = None
  BY <1>1 DEF ClientInv, Typing, ClientTyping, Idle
<1>4. JobOK(c)' /\ JournalOK(c)'
  BY <1>3 DEF JobOK, Reads, JournalOK
<1>5. CASE UNCHANGED <<track, active>>
  <2>1. Following(c)'
    BY <1>2, <1>4, <1>5, RecordStays DEF Following, ClientInv
  <2>2. home' = [home EXCEPT ![c] = home'[c]] /\ home'[c] \in TreeOver(used')
    <3>1. k.status = "torn" => k.backup \in TreeOver(used)
      BY <1>0, <1>1, JournalForm DEF ClientInv, Typing
    <3>2. QED
      BY <1>1, <3>1 DEF ClientInv, Typing, ClientTyping, Quiet
  <2>3. Only(c)
    BY <1>1, <1>3, <1>5, <2>2 DEF Only, ClientInv, Typing, ClientTyping
  <2>4. Mine(c)
    BY <1>1, <1>2, <1>3, <1>5, <2>2, MineUnchanged DEF Mine, Evolves, ClientInv, Typing
  <2>5. QED
    BY <1>2, <2>1, <2>3, <2>4, OwnStep
<1>6. CASE k.status = "applied" /\ k.op # "restore"
  <2> DEFINE n == k.ns
             h == k.head
             g == k.generation
  <2>1. n \in Ns /\ g \in Nat /\ h \in HeadOrNone
    BY <1>0, <1>1, <1>6, JournalForm DEF ClientInv, Typing
  <2>2. home' = home /\ Reconcilable(c, n, g, h) /\ reconcile_checkout(c, n, g, h)
    BY <1>1, <1>6
  <2>3. PICK e : e = RecordedEpoch(c, n)
    OBVIOUS
  <2>4. Recorded(c, n, h, e, g + 1) /\ active' = [active EXCEPT ![c] = n] /\ active'[c] = n
    BY <2>1, <2>2, <2>3, Reconciles DEF ClientInv
  <2>5. h \in Known /\ Ahead(h, n, e)
    <3>1. /\ h \in Known
          /\ Generation(c, n) = g => Ahead(h, n, e)
      BY <1>0, <1>1, <1>6, <2>3 DEF ClientInv, Following, JournalOK
    <3>2. Ahead(TrackedHead(c, n), n, e)
      BY <2>1, <2>3, RecordedEpochs
    <3>3. QED
      BY <2>2, <3>1, <3>2 DEF Reconcilable
  <2>6. e \in Nat /\ e <= epoch[n]
    BY <2>1, <2>3, RecordedEpochs
  <2>7. RecordOK(c)'
    <3>1. g + 1 \in Nat
      BY <2>1
    <3>2. QED
      BY <1>1, <2>1, <2>4, <2>5, <2>6, <3>1, RecordedFollows
  <2>8. Following(c)'
    BY <1>4, <2>7 DEF Following
  <2>9. Only(c)
    BY <1>1, <1>3, <2>2, <2>4 DEF Only, Recorded, ClientInv, Typing, ClientTyping
  <2>10. Mine(c)
    BY <1>1, <1>2, <1>3, <2>1, <2>2, <2>4, MineUnchanged
       DEF Mine, Evolves, Recorded, ClientInv, Typing
  <2>11. QED
    BY <1>2, <2>8, <2>9, <2>10, OwnStep
<1>7. QED
  BY <1>1, <1>5, <1>6

\* What a crash leaves of a home: each conversation old, missing or new.
Torn(from) == [v |-> [t \in Thread |-> from[t].v[t]], e |-> [t \in Thread |-> from[t].e[t]]]

LEMMA CrashMeans ==
    ASSUME ClientInv, NEW c \in Client, Crash(c)
    PROVE  /\ job' = [job EXCEPT ![c] = Idle]
           /\ UNCHANGED <<revs, published, head, epoch, track, active, used, discarded, rewrites>>
           /\ delayed' \subseteq delayed \cup {job[c]}
           /\ job[c].step # "commit" => delayed' = delayed
           /\ \/ UNCHANGED <<home, journal>>
              \/ /\ job[c].step = "checkout" /\ journal[c] = None
                 /\ \E from \in [Thread -> {home[c], EmptyTree, job[c].tree}] :
                       home' = [home EXCEPT ![c] = Torn(from)] /\ Torn(from) \in TreeOver(used)
                 /\ journal' = [journal EXCEPT ![c] = [status |-> "torn", backup |-> home[c]]]
<1>1. /\ job' = [job EXCEPT ![c] = Idle]
      /\ UNCHANGED <<revs, published, head, epoch, track, active, used, discarded, rewrites>>
      /\ delayed' \subseteq delayed \cup {job[c]}
      /\ job[c].step # "commit" => delayed' = delayed
  BY DEF Crash
<1>2. CASE UNCHANGED <<home, journal>>
  BY <1>1, <1>2
<1>3. CASE ~ UNCHANGED <<home, journal>>
  <2>1. /\ job[c].step = "checkout" /\ journal[c] = None
        /\ journal' = [journal EXCEPT ![c] = [status |-> "torn", backup |-> home[c]]]
    BY <1>3 DEF Crash
  <2>2. PICK from \in [Thread -> {home[c], EmptyTree, job[c].tree}] :
              home' = [home EXCEPT ![c].v = [t \in Thread |-> from[t].v[t]],
                                   ![c].e = [t \in Thread |-> from[t].e[t]]]
    BY <1>3 DEF Crash
  <2>3. /\ home[c] \in TreeOver(used) /\ EmptyTree \in TreeOver(used)
        /\ job[c].tree \in TreeOver(used)
    <3>1. job[c] \in CheckoutJobs(used)
      BY <2>1, JobForms DEF JobForm, ClientInv, Typing, ClientTyping
    <3>2. QED
      BY <3>1, EmptyTreeForm DEF CheckoutJobs, ClientInv, Typing, ClientTyping
  <2> DEFINE vs == [t \in Thread |-> from[t].v[t]]
             es == [t \in Thread |-> from[t].e[t]]
             x == home[c]
  <2>4. \A t \in Thread : from[t] \in TreeOver(used)
    BY <2>2, <2>3
  <2>5. \A t \in Thread : from[t].v[t] \in used \cup {Absent} /\ from[t].e[t] \subseteq used
    BY <2>4, TreeForm
  <2>6. vs \in [Thread -> used \cup {Absent}] /\ es \in [Thread -> SUBSET used]
    BY <2>5
  <2>7. home' = [home EXCEPT ![c].v = vs, ![c].e = es]
    BY <2>2
  <2>8. Torn(from) = [v |-> vs, e |-> es]
    BY DEF Torn
  <2> HIDE DEF vs, es
  <2>9. home' = [home EXCEPT ![c] = Rewritten(x, vs, es)]
    BY <2>3, <2>7 DEF Rewritten, ClientInv, Typing, ClientTyping
  <2>10. Rewritten(x, vs, es) = [v |-> vs, e |-> es]
    BY <2>3, <2>6, TreeUpdate
  <2>11. Torn(from) \in TreeOver(used)
    BY <2>6, <2>8, TreeMade
  <2>12. QED
    BY <1>1, <2>1, <2>2, <2>8, <2>9, <2>10, <2>11
<1>4. QED
  BY <1>2, <1>3

LEMMA CrashStep ==
    ASSUME ClientInv, NEW c \in Client, Crash(c)
    PROVE  ClientInv' /\ Evolves
<1>1. /\ job' = [job EXCEPT ![c] = Idle]
      /\ UNCHANGED <<revs, published, head, epoch, track, active, used, discarded, rewrites>>
      /\ delayed' \subseteq delayed \cup {job[c]}
      /\ job[c].step # "commit" => delayed' = delayed
  BY CrashMeans
<1>2. Evolves /\ ServerTyping'
  <2>1. Histories
    BY <1>1 DEF Histories, ClientInv, Typing, ServerTyping
  <2>2. QED
    BY <1>1, <2>1, ServerSame DEF ClientInv, Typing
<1>3. Requests'
  <2>1. CASE job[c].step # "commit"
    BY <1>1, <1>2, <2>1, RequestsStay DEF ClientInv
  <2>2. CASE job[c].step = "commit"
    BY <1>1, <1>2, <2>2, CommitMeans, RequestsGrow DEF ClientInv
  <2>3. QED
    BY <2>1, <2>2
<1>4. CASE UNCHANGED <<home, journal>>
  BY <1>1, <1>2, <1>3, <1>4, EndsJob
<1>5. CASE ~ UNCHANGED <<home, journal>>
  <2>1. PICK from : home' = [home EXCEPT ![c] = Torn(from)] /\ Torn(from) \in TreeOver(used)
    BY <1>5, CrashMeans
  <2> DEFINE entry == [status |-> "torn", backup |-> home[c]]
  <2>2. journal' = [journal EXCEPT ![c] = entry]
    BY <1>5, CrashMeans
  <2>3. entry \in TornJournals(used') /\ entry.status = "torn"
    BY <1>1 DEF TornJournals, ClientInv, Typing, ClientTyping
  <2> HIDE DEF entry
  <2>4. /\ job'[c] = Idle /\ Idle.step = "idle" /\ journal'[c] = entry
        /\ home'[c] = Torn(from)
    BY <1>1, <2>1, <2>2 DEF ClientInv, Typing, ClientTyping, Idle
  <2>5. JobOK(c)' /\ JournalOK(c)'
    BY <2>3, <2>4 DEF JobOK, Reads, JournalOK
  <2>6. Following(c)'
    BY <1>1, <1>2, <2>5, RecordStays DEF Following, ClientInv
  <2>7. Only(c)
    BY <1>1, <2>1, <2>2, <2>4 DEF Only, ClientInv, Typing, ClientTyping
  <2>8. Mine(c)
    BY <1>1, <1>2, <2>1, <2>3, <2>4, MineUnchanged DEF Mine, Evolves, ClientInv, Typing, Jobs
  <2>9. QED
    BY <1>2, <1>3, <2>6, <2>7, <2>8, OwnStep
<1>6. QED
  BY <1>4, <1>5

----------------------------------------------------------------------------
(* Every step.                                                             *)

LEMMA ProceedStep ==
    ASSUME ClientInv, NEW c \in Client, Proceed(c) PROVE ClientInv' /\ Evolves
<1>1. CASE Rejected(c) \/ PublishRefused(c) \/ RefuseCheckout(c)
  <2>1. /\ Quiet /\ UNCHANGED <<discarded, home, track, active, journal>>
        /\ job' = [job EXCEPT ![c] = Idle]
    BY <1>1 DEF Rejected, PublishRefused, RefuseCheckout, Quiet, server, counters
  <2>2. QED
    BY <2>1, GivesUpStep
<1>2. QED
  BY <1>1, CommittedStep, LookUpStep, RecordPushStep, EpochStep, ApplyHomeStep, ApplyRecordStep,
     RecoverStep DEF Proceed

LEMMA PlanStep ==
    ASSUME ClientInv, NEW c \in Client, NEW n \in Ns
    PROVE  /\ pull_namespace(c, n) => ClientInv' /\ Evolves
           /\ \A resolutions : resolve_pull_conflicts(c, n, resolutions) => ClientInv' /\ Evolves
           /\ \A resolutions : apply_initial_namespace_merge(c, n, resolutions)
                => ClientInv' /\ Evolves
           /\ switch_namespace(c, n) => ClientInv' /\ Evolves
           /\ \A r \in published : \A then \in {"done", "publish"} :
                restore_remote_revision(c, n, r, then) => ClientInv' /\ Evolves
           /\ reapply_workspace_mappings(c, n) => ClientInv' /\ Evolves
<1>1. ASSUME pull_namespace(c, n) PROVE ClientInv' /\ Evolves
  <2> DEFINE tree == merge_thread_sets(PullBase(c, n), home[c], revs[head[n]].tree)
  <2>1. /\ MayPull(c, n) /\ rewrites' = rewrites
        /\ StartCheckout(c, CheckoutJob(c, "pull", n, head[n], tree, {}, "epoch"))
    BY <1>1 DEF pull_namespace, counters
  <2>2. Planned(c, "pull", n, head[n], tree, {}, "epoch")
    BY <2>1, PullPlan
  <2> HIDE DEF tree
  <2>3. QED
    BY <2>1, <2>2, CheckoutStarts
<1>2. ASSUME NEW resolutions, resolve_pull_conflicts(c, n, resolutions) PROVE ClientInv' /\ Evolves
  <2> DEFINE tree == resolve_thread_sets(PullBase(c, n), home[c], revs[head[n]].tree, resolutions)
             gone == GivenUp(home[c], revs[head[n]].tree, resolutions)
  <2>1. /\ MayPull(c, n) /\ rewrites' = rewrites
        /\ Valid(resolutions, Conflicts(PullBase(c, n), home[c], revs[head[n]].tree))
        /\ StartCheckout(c, CheckoutJob(c, "resolve", n, head[n], tree, gone, "publish"))
    BY <1>2 DEF resolve_pull_conflicts, counters
  <2>2. Planned(c, "resolve", n, head[n], tree, gone, "publish")
    BY <2>1, ResolvePlan
  <2> HIDE DEF tree, gone
  <2>3. QED
    BY <2>1, <2>2, CheckoutStarts
<1>3. ASSUME NEW resolutions, apply_initial_namespace_merge(c, n, resolutions)
      PROVE  ClientInv' /\ Evolves
  <2> DEFINE tree == resolve_thread_sets(EmptyTree, home[c], revs[head[n]].tree, resolutions)
             gone == GivenUp(home[c], revs[head[n]].tree, resolutions)
  <2>1. /\ MayMerge(c, n) /\ rewrites' = rewrites
        /\ Valid(resolutions, Conflicts(EmptyTree, home[c], revs[head[n]].tree))
        /\ StartCheckout(c, CheckoutJob(c, "merge", n, head[n], tree, gone, "epoch"))
    BY <1>3 DEF apply_initial_namespace_merge, counters
  <2>2. Planned(c, "merge", n, head[n], tree, gone, "epoch")
    BY <2>1, MergePlan
  <2> HIDE DEF tree, gone
  <2>3. QED
    BY <2>1, <2>2, CheckoutStarts
<1>4. ASSUME switch_namespace(c, n) PROVE ClientInv' /\ Evolves
  <2>1. /\ rewrites' = rewrites
        /\ StartCheckout(c, CheckoutJob(c, "switch", n, head[n], TreeOf(head[n]), {}, "epoch"))
    BY <1>4 DEF switch_namespace, counters
  <2>2. Planned(c, "switch", n, head[n], TreeOf(head[n]), {}, "epoch")
    BY SwitchPlan
  <2>3. QED
    BY <2>1, <2>2, CheckoutStarts
<1>5. ASSUME NEW r \in published, NEW then \in {"done", "publish"},
             restore_remote_revision(c, n, r, then)
      PROVE  ClientInv' /\ Evolves
  <2> DEFINE gone == EditsLacking(revs[r].tree, home[c])
                       \cup EditsLacking(revs[r].tree, revs[head[n]].tree)
  <2>1. /\ rewrites' = rewrites /\ head[n] # None
        /\ StartCheckout(c, CheckoutJob(c, "restore", n, head[n], revs[r].tree, gone, then))
    BY <1>5 DEF restore_remote_revision
  <2>2. Planned(c, "restore", n, head[n], revs[r].tree, gone, then)
    BY <2>1, RestorePlan
  <2> HIDE DEF gone
  <2>3. QED
    BY <2>1, <2>2, CheckoutStarts
<1>6. ASSUME reapply_workspace_mappings(c, n) PROVE ClientInv' /\ Evolves
  <2>1. /\ rewrites' = rewrites
        /\ StartCheckout(c, CheckoutJob(c, "remap", n, TrackedHead(c, n), home[c], {}, "done"))
    BY <1>6 DEF reapply_workspace_mappings
  <2>2. Planned(c, "remap", n, TrackedHead(c, n), home[c], {}, "done")
    BY RemapPlan
  <2>3. QED
    BY <2>1, <2>2, CheckoutStarts
<1>7. QED
  BY <1>1, <1>2, <1>3, <1>4, <1>5, <1>6

LEMMA ScreenStep ==
    ASSUME ClientInv, NEW c \in Client, NEW n \in Ns,
           ShowConflicts(c, n) \/ prepare_initial_namespace_merge(c, n)
    PROVE  ClientInv' /\ Evolves
<1>1. Quiet /\ UNCHANGED <<discarded, home, track, active, journal, job>>
  BY DEF ShowConflicts, prepare_initial_namespace_merge, Quiet, server, counters
<1>2. QED
  BY <1>1, NoChange

LEMMA NextStep == ASSUME ClientInv, Next PROVE ClientInv' /\ Evolves
<1>1. ASSUME NEW c \in Client, NEW n \in Ns, Synchronise(c, n) PROVE ClientInv' /\ Evolves
  BY <1>1, PushNothingStep, PushStep, PlanStep, ScreenStep DEF Synchronise
<1>2. ASSUME NEW c \in Client, NEW n \in Ns, Other(c, n) PROVE ClientInv' /\ Evolves
  BY <1>2, StagedStep, PlanStep DEF Other
<1>3. QED
  BY <1>1, <1>2, EditStep, RewriteStep, CommitLateStep, ProceedStep, AnswerLostStep, CrashStep
     DEF Next

LEMMA ClientInit == Init => ClientInv
<1> SUFFICES ASSUME Init PROVE ClientInv
  OBVIOUS
<1>1. ServerTyping
  BY ClientAssumption DEF Init, ServerTyping
<1>2. ClientTyping
  BY EmptyTreeForm DEF Init, ClientTyping, Jobs
<1>3. Requests
  BY DEF Init, Requests
<1>4. ASSUME NEW c \in Client PROVE Following(c)
  <2>1. job[c].step = "idle" /\ journal[c] = None /\ \A n \in Ns : track[c][n] = None
    BY DEF Init, Idle
  <2>2. QED
    BY <2>1 DEF Following, RecordOK, JobOK, JournalOK, Reads
<1>5. QED
  BY <1>1, <1>2, <1>3, <1>4 DEF ClientInv, Typing

LEMMA ClientNext == ClientInv /\ [Next]_vars => ClientInv'
<1>1. ASSUME ClientInv, UNCHANGED vars PROVE ClientInv'
  <2>1. Quiet /\ UNCHANGED <<discarded, home, track, active, journal, job>>
    BY <1>1 DEF vars, server, counters, Quiet
  <2>2. QED
    BY <1>1, <2>1, NoChange
<1>2. QED
  BY <1>1, NextStep

\* The invariant of the clients' bookkeeping: what a job has read is what the
\* record, the journal and the job itself say, whatever others do meanwhile.
THEOREM ClientInvariant == Spec => []ClientInv
<1>1. QED
  BY ClientInit, ClientNext, PTL DEF Spec

LEMMA ClientInvMeans == ClientInv => TypeOK /\ EpochMatchMeansAncestor
<1> SUFFICES ASSUME ClientInv PROVE TypeOK /\ EpochMatchMeansAncestor
  OBVIOUS
<1> USE DEF ClientInv, Typing
<1>1. TreeOver(used) \subseteq Tree
  BY DEF TreeOver, Tree, Version, ServerTyping
<1>2. /\ \A i \in DOMAIN revs : /\ revs[i].ns \in Ns
                               /\ revs[i].parent \in {None} \cup 1 .. (i - 1)
                               /\ revs[i].tree \in Tree
  BY <1>1, RevisionForm DEF ServerTyping
<1>3. epoch \in [Ns -> 0 .. MaxRewrites]
  <2>1. MaxRewrites \in Nat /\ rewrites \in 0 .. MaxRewrites
    BY ClientAssumption DEF ServerTyping
  <2>2. QED
    BY <2>1 DEF ServerTyping
<1>4. home \in [Client -> Tree]
  BY <1>1 DEF ClientTyping
<1>5. TypeOK
  BY <1>2, <1>3, <1>4 DEF TypeOK, ServerTyping, ClientTyping
<1>6. ASSUME NEW c \in Client, NEW n \in Ns, track[c][n] # None, track[c][n].epoch = epoch[n],
             track[c][n].head # None
      PROVE  track[c][n].head \in Chain(head[n])
  BY <1>6, ChainMeans DEF Following, RecordOK, Ahead
<1>7. QED
  BY <1>5, <1>6 DEF EpochMatchMeansAncestor

\* Type correctness of the clients.
THEOREM ClientTypes == Spec => []TypeOK
<1>1. QED
  BY ClientInvariant, ClientInvMeans, PTL

\* A record with the epoch of its namespace refers to the head or to one of its
\* ancestors: whatever the order of pushes, lost answers, crashes, recoveries
\* and rewrites, the three-way merge has a common base.
THEOREM EqualEpochsShareHistory == Spec => []EpochMatchMeansAncestor
<1>1. QED
  BY ClientInvariant, ClientInvMeans, PTL

----------------------------------------------------------------------------
(* Where edits are: what every step leaves true.                           *)

LEMMA HoldsStays ==
    ASSUME NEW R, NEW Q, NEW gone, NEW more, NEW x, NEW y, NEW h, NEW a, NEW b,
           Extends(R, Q), h \in DOMAIN R \cup {None}, gone \subseteq more,
           \A t \in Thread : x.e[t] \subseteq y.e[t], a \subseteq b \cup more,
           HoldsIn(R, gone, x, h, a)
    PROVE  HoldsIn(Q, more, y, h, b)
<1> SUFFICES ASSUME h # None, NEW t \in Thread, Q[h].tree.v[t] # Absent
             PROVE  Q[h].tree.e[t] \subseteq y.e[t] \cup more \cup b
  BY DEF HoldsIn
<1>1. Q[h] = R[h]
  BY DEF Extends
<1>2. R[h].tree.e[t] \subseteq x.e[t] \cup gone \cup a
  BY <1>1 DEF HoldsIn
<1>3. QED
  BY <1>1, <1>2

LEMMA IntegratedForm ==
    ASSUME ClientInv, NEW c \in Client
    PROVE  Integrated(c) \in Known /\ Integrated(c) \in DOMAIN revs \cup {None}
<1>1. Integrated(c) \in Known
  BY RecordedEpochs DEF Integrated, Known, ClientInv, Typing, ClientTyping
<1>2. QED
  BY <1>1, KnownForm DEF ClientInv, Typing

LEMMA DeletedStays ==
    ASSUME NEW R, NEW Q, NEW gone, NEW more, NEW h \in DOMAIN R \cup {None}, NEW edits, NEW t,
           WellParented(R), Extends(R, Q), gone \subseteq more, DeletedKnowing(R, gone, h, edits, t)
    PROVE  DeletedKnowing(Q, more, h, edits, t)
<1>1. PICK d \in ChainOf(R, h) : R[d].tree.v[t] = Absent /\ edits \subseteq R[d].tree.e[t] \cup gone
  BY DEF DeletedKnowing
<1>2. d \in ChainOf(Q, h) /\ Q[d] = R[d]
  BY <1>1, ChainKept, ChainInside DEF Extends
<1>3. QED
  BY <1>1, <1>2 DEF DeletedKnowing

LEMMA HomeStays ==
    ASSUME ClientInv, Evolves, NEW d \in Client, HomeOK(d), journal'[d] = journal[d],
           Integrated(d)' = Integrated(d), \A t \in Thread : home[d].e[t] \subseteq home'[d].e[t]
    PROVE  HomeOK(d)'
<1>1. Extends(revs, revs') /\ discarded \subseteq discarded'
  BY DEF Evolves
<1>2. PICK g : g = Integrated(d)
  OBVIOUS
<1>3. g \in DOMAIN revs \cup {None}
  BY <1>2, IntegratedForm
<1>4. PICK k : k = journal[d]
  OBVIOUS
<1>5. k = None => HoldsIn(revs', discarded', home'[d], g, {})
  <2> SUFFICES ASSUME k = None PROVE HoldsIn(revs', discarded', home'[d], g, {})
    OBVIOUS
  <2>1. HoldsIn(revs, discarded, home[d], g, {})
    BY <1>2, <1>4 DEF HomeOK, Holds
  <2>2. QED
    BY <1>1, <1>3, <2>1, HoldsStays
<1>6. ASSUME k # None, k.status = "applied"
      PROVE  HoldsIn(revs', discarded', home'[d], IF k.op = "restore" THEN g ELSE k.head, {})
  <2> DEFINE a == IF k.op = "restore" THEN g ELSE k.head
  <2>1. HoldsIn(revs, discarded, home[d], a, {})
    BY <1>2, <1>4, <1>6 DEF HomeOK, Holds, Aim
  <2>2. k.head \in DOMAIN revs \cup {None}
    BY <1>4, <1>6, KnownForm DEF ClientInv, Following, JournalOK, Typing
  <2>3. a \in DOMAIN revs \cup {None}
    BY <1>3, <2>2
  <2> HIDE DEF a
  <2>4. HoldsIn(revs', discarded', home'[d], a, {})
    BY <1>1, <2>1, <2>3, HoldsStays
  <2>5. QED
    BY <2>4 DEF a
<1>7. ASSUME k # None, k.status = "torn"
      PROVE  HoldsIn(revs', discarded', k.backup, g, {})
  <2>1. HoldsIn(revs, discarded, k.backup, g, {})
    BY <1>2, <1>4, <1>7 DEF HomeOK, Holds
  <2>2. QED
    BY <1>1, <1>3, <2>1, HoldsStays
<1>8. QED
  BY <1>2, <1>4, <1>5, <1>6, <1>7 DEF HomeOK, Holds, Aim

LEMMA WorkStays ==
    ASSUME ClientInv, Evolves, NEW d \in Client, WorkOK(d), journal'[d] = journal[d],
           job'[d] = job[d], Integrated(d)' = Integrated(d),
           \A t \in Thread : home[d].e[t] \subseteq home'[d].e[t]
    PROVE  WorkOK(d)'
<1>1. Extends(revs, revs') /\ discarded \subseteq discarded'
  BY DEF Evolves
<1>2. PICK g : g = Integrated(d)
  OBVIOUS
<1>3. g \in DOMAIN revs \cup {None}
  BY <1>2, IntegratedForm
<1>4. PICK j : j = job[d]
  OBVIOUS
<1>5. ASSUME j.step \in {"commit", "lookup"}
      PROVE  journal[d] = None /\ HoldsIn(revs', discarded', home'[d], j.rev, {})
  <2>1. journal[d] = None /\ HoldsIn(revs, discarded, home[d], j.rev, {})
    BY <1>4, <1>5 DEF WorkOK, Holds
  <2>2. j.rev \in DOMAIN revs \cup {None}
    BY <1>4, <1>5, CommitMeans DEF Requested
  <2>3. QED
    BY <1>1, <2>1, <2>2, HoldsStays
<1>6. j.step \in {"reconcile", "checkout"} => j.head \in DOMAIN revs \cup {None}
  BY <1>4, KnownForm DEF ClientInv, Following, JobOK, Typing
<1>7. ASSUME j.step = "reconcile"
      PROVE  journal[d] = None /\ HoldsIn(revs', discarded', home'[d], j.head, {})
  <2>1. journal[d] = None /\ HoldsIn(revs, discarded, home[d], j.head, {})
    BY <1>4, <1>7 DEF WorkOK, Holds
  <2>2. QED
    BY <1>1, <1>6, <1>7, <2>1, HoldsStays
<1>8. ASSUME j.step = "checkout", journal[d] = None
      PROVE  HoldsIn(revs', discarded', j.tree, IF j.op = "restore" THEN g ELSE j.head, j.dropped)
  <2> DEFINE a == IF j.op = "restore" THEN g ELSE j.head
  <2>1. HoldsIn(revs, discarded, j.tree, a, j.dropped)
    BY <1>2, <1>4, <1>8 DEF WorkOK, Holds, Aim
  <2>2. a \in DOMAIN revs \cup {None}
    BY <1>3, <1>6, <1>8
  <2> HIDE DEF a
  <2>3. HoldsIn(revs', discarded', j.tree, a, j.dropped)
    BY <1>1, <2>1, <2>2, HoldsStays
  <2>4. QED
    BY <2>3 DEF a
<1>9. QED
  BY <1>2, <1>4, <1>5, <1>7, <1>8 DEF WorkOK, Holds, Aim

LEMMA PlanStays ==
    ASSUME ClientInv, Evolves, NEW d \in Client, PlanOK(d),
           job'[d] = job[d], track'[d] = track[d], active'[d] = active[d]
    PROVE  PlanOK(d)'
<1>1. Extends(revs, revs') /\ discarded \subseteq discarded' /\ published \subseteq published'
  BY DEF Evolves
<1>2. PICK j : j = job[d]
  OBVIOUS
<1> SUFFICES ASSUME j.step = "checkout" PROVE PlanOK(d)'
  BY <1>2 DEF PlanOK
<1>3. /\ j.head \in DOMAIN revs \cup {None} /\ j.ns \in Ns
      /\ TrackedHead(d, j.ns) \in DOMAIN revs \cup {None}
  BY <1>2, JobMeans, RecordedEpochs, KnownForm DEF ClientInv, Following, JobOK, Typing, Reads
<1>4. TreeOf(TrackedHead(d, j.ns))' = TreeOf(TrackedHead(d, j.ns))
  BY <1>1, <1>3 DEF TreeOf, TrackedHead, Extends
<1>5. published \subseteq DOMAIN revs /\ WellParented(revs)
  BY RevisionForm DEF ClientInv, Typing, ServerTyping
<1>6. ASSUME j.op = "switch", active[d] \notin {None, j.ns},
             NEW t \in Thread, j.local.v[t] # Absent
      PROVE  \E r \in published' : revs'[r].tree.v[t] = j.local.v[t]
  <2>1. PICK r \in published : revs[r].tree.v[t] = j.local.v[t]
    BY <1>2, <1>6 DEF PlanOK
  <2>2. revs'[r] = revs[r]
    BY <1>1, <1>5 DEF Extends
  <2>3. QED
    BY <1>1, <2>1, <2>2
<1>7. ASSUME j.op \in {"pull", "resolve", "merge", "remap"}, NEW t \in Thread
      PROVE  \/ j.local.e[t] \subseteq j.tree.e[t] \cup discarded' \cup j.dropped
             \/ j.local.v[t] = Absent /\ TreeOf(TrackedHead(d, j.ns)).v[t] = Absent
             \/ DeletedKnowing(revs', discarded' \cup j.dropped, j.head, j.local.e[t], t)
  <2>1. \/ j.local.e[t] \subseteq j.tree.e[t] \cup discarded \cup j.dropped
        \/ j.local.v[t] = Absent /\ TreeOf(TrackedHead(d, j.ns)).v[t] = Absent
        \/ DeletedKnowing(revs, discarded \cup j.dropped, j.head, j.local.e[t], t)
    BY <1>2, <1>7 DEF PlanOK
  <2>2. DeletedKnowing(revs, discarded \cup j.dropped, j.head, j.local.e[t], t)
          => DeletedKnowing(revs', discarded' \cup j.dropped, j.head, j.local.e[t], t)
    <3> DEFINE gone == discarded \cup j.dropped
               more == discarded' \cup j.dropped
    <3>1. gone \subseteq more
      BY <1>1
    <3> HIDE DEF gone, more
    <3>2. DeletedKnowing(revs, gone, j.head, j.local.e[t], t)
            => DeletedKnowing(revs', more, j.head, j.local.e[t], t)
      BY <1>1, <1>3, <1>5, <3>1, DeletedStays
    <3>3. QED
      BY <3>2 DEF gone, more
  <2>3. QED
    BY <1>1, <2>1, <2>2
<1>8. QED
  BY <1>2, <1>4, <1>6, <1>7 DEF PlanOK

LEMMA OthersKeep ==
    ASSUME ClientInv, Evolves, NEW d \in Client, Keeping(d), Untouched(d) PROVE Keeping(d)'
<1>1. Integrated(d)' = Integrated(d)
  BY DEF Integrated, TrackedHead, Untouched
<1>2. Attached(d)'
  BY DEF Attached, Keeping, Untouched
<1>3. QED
  BY <1>1, <1>2, HomeStays, WorkStays, PlanStays DEF Keeping, Untouched

LEMMA LineageStays ==
    ASSUME ClientInv, Evolves, Lineage, NEW i \in DOMAIN revs
    PROVE  Holds(revs[i].tree, revs[i].parent, {})'
<1>1. /\ Extends(revs, revs') /\ discarded \subseteq discarded' /\ revs'[i] = revs[i]
  BY DEF Evolves, Extends
<1>2. PICK p : p = revs[i].parent
  OBVIOUS
<1>3. p \in DOMAIN revs \cup {None}
  BY <1>2, RevisionForm DEF WellParented, ClientInv, Typing
<1>4. HoldsIn(revs, discarded, revs[i].tree, p, {})
  BY <1>2 DEF Lineage, Holds
<1>5. HoldsIn(revs', discarded', revs[i].tree, p, {})
  BY <1>1, <1>3, <1>4, HoldsStays
<1>6. QED
  BY <1>1, <1>2, <1>5 DEF Holds

\* A step of client c that builds no revision.
LEMMA KeepsOwn ==
    ASSUME ClientInv, EditsInv, Evolves, NEW c \in Client, Only(c), Keeping(c)',
           DOMAIN revs' = DOMAIN revs, NEW origin \in Origins, AllFit(origin), FitAt(c, origin)'
    PROVE  EditsInv'
<1>1. Lineage'
  BY LineageStays DEF Lineage, EditsInv
<1>2. ASSUME NEW d \in Client, d # c PROVE Keeping(d)' /\ FitAt(d, origin)'
  <2>1. Untouched(d)
    BY <1>2, OthersUntouched DEF ClientInv, Typing
  <2>2. QED
    BY <2>1, OthersKeep DEF EditsInv, AllFit, FitAt, Untouched
<1>3. \A i \in DOMAIN revs' : Fits(revs'[i].tree, origin)
  BY DEF Evolves, Extends, AllFit
<1>4. AllFit(origin)'
  BY <1>2, <1>3 DEF AllFit
<1>5. QED
  BY <1>1, <1>2, <1>4 DEF EditsInv, Coherent

LEMMA KeepsServer ==
    ASSUME ClientInv, EditsInv, Evolves, UNCHANGED <<home, track, active, journal, job>>,
           DOMAIN revs' = DOMAIN revs
    PROVE  EditsInv'
<1>1. Lineage'
  BY LineageStays DEF Lineage, EditsInv
<1>2. PICK origin \in Origins : AllFit(origin)
  BY DEF EditsInv, Coherent
<1>3. \A d \in Client : Untouched(d)
  BY DEF Untouched
<1>4. ASSUME NEW d \in Client PROVE Keeping(d)' /\ FitAt(d, origin)'
  BY <1>2, <1>3, OthersKeep DEF EditsInv, AllFit, FitAt, Untouched
<1>5. \A i \in DOMAIN revs' : Fits(revs'[i].tree, origin)
  BY <1>2 DEF Evolves, Extends, AllFit
<1>6. QED
  BY <1>1, <1>2, <1>4, <1>5 DEF EditsInv, Coherent, AllFit

\* A client whose home, record and journal stay and whose job is at rest.
LEMMA RestKeeps ==
    ASSUME ClientInv, Evolves, NEW c \in Client, Keeping(c), home'[c] = home[c],
           journal'[c] = journal[c], active'[c] = active[c], Integrated(c)' = Integrated(c),
           \A n \in Ns : track[c][n] = None => track'[c][n] = None,
           job'[c].step \in {"idle", "publish", "epoch"}
    PROVE  Keeping(c)'
<1>1. HomeOK(c)'
  BY HomeStays DEF Keeping
<1>2. Attached(c)' /\ WorkOK(c)' /\ PlanOK(c)'
  BY DEF Attached, WorkOK, PlanOK, Keeping
<1>3. QED
  BY <1>1, <1>2 DEF Keeping

LEMMA GivesUpKeeps ==
    ASSUME ClientInv, EditsInv, Evolves, NEW c \in Client, DOMAIN revs' = DOMAIN revs,
           UNCHANGED <<home, track, active, journal>>, job' = [job EXCEPT ![c] = Idle]
    PROVE  EditsInv'
<1>1. job'[c] = Idle /\ Idle.step = "idle" /\ Only(c)
  BY DEF ClientInv, Typing, ClientTyping, Idle, Only
<1>2. PICK origin \in Origins : AllFit(origin)
  BY DEF EditsInv, Coherent
<1>3. Integrated(c)' = Integrated(c)
  BY DEF Integrated, TrackedHead
<1>4. Keeping(c)'
  BY <1>1, <1>3, RestKeeps DEF EditsInv
<1>5. FitAt(c, origin)'
  BY <1>1, <1>2 DEF FitAt, AllFit
<1>6. QED
  BY <1>1, <1>2, <1>4, <1>5, KeepsOwn

LEMMA RewriteKeeps ==
    ASSUME ClientInv, EditsInv, Evolves, NEW n, NEW h, RewriteHistory(n, h) PROVE EditsInv'
  BY KeepsServer DEF RewriteHistory

LEMMA CommitLateKeeps ==
    ASSUME ClientInv, EditsInv, Evolves, NEW j, CommitLate(j) PROVE EditsInv'
<1>1. UNCHANGED <<home, track, active, journal, job>> /\ revs' = revs
  BY DEF CommitLate, ServerCommit
<1>2. QED
  BY <1>1, KeepsServer

LEMMA EditKeeps ==
    ASSUME ClientInv, EditsInv, Evolves, NEW c \in Client, NEW t \in Thread, EditThread(c, t)
    PROVE  EditsInv'
<1>1. PICK new \in Edit \ used : \E version \in {new, Absent} :
             /\ used' = used \cup {new}
             /\ home' = [home EXCEPT ![c] = Edited(home[c], t, version, new)]
  BY EditMeans DEF ClientInv
<1>2. PICK version \in {new, Absent} : home' = [home EXCEPT ![c] = Edited(home[c], t, version, new)]
  BY <1>1
<1>3. UNCHANGED <<revs, published, head, epoch, track, active, journal, job, discarded>>
  BY DEF EditThread, server
<1>4. PICK origin \in Origins : AllFit(origin)
  BY DEF EditsInv, Coherent
<1> DEFINE x == home[c]
           edits == x.e[t] \cup {new}
<1>p. PICK later : later = [origin EXCEPT ![t] = [origin[t] EXCEPT ![new] = edits]]
  OBVIOUS
<1>5. x \in TreeOver(used) /\ used \subseteq Edit /\ new \notin used
  BY DEF ClientInv, Typing, ClientTyping, ServerTyping
<1>6. edits \subseteq Edit
  BY <1>5 DEF TreeOver
<1>7. /\ later \in Origins
      /\ \A s \in Thread : \A v \in Edit :
           later[s][v] = IF s = t /\ v = new THEN edits ELSE origin[s][v]
  <2> HIDE DEF edits
  <2>1. QED
    BY <1>p, <1>4, <1>6 DEF Origins
<1>8. ASSUME NEW y \in TreeOver(used), Fits(y, origin) PROVE Fits(y, later)
  <2> SUFFICES ASSUME NEW s \in Thread, y.v[s] # Absent PROVE y.e[s] = later[s][y.v[s]]
    BY DEF Fits
  <2>1. y.v[s] \in used
    BY DEF TreeOver
  <2>2. later[s][y.v[s]] = origin[s][y.v[s]]
    BY <1>5, <1>7, <2>1
  <2>3. QED
    BY <1>8, <2>2 DEF Fits
<1>9. home'[c] = Edited(x, t, version, new)
  BY <1>2 DEF ClientInv, Typing, ClientTyping
<1>10. Fits(home'[c], later) /\ \A s \in Thread : x.e[s] \subseteq home'[c].e[s]
  <2>1. \A s \in Thread : /\ home'[c].v[s] = IF s = t THEN version ELSE x.v[s]
                          /\ home'[c].e[s] = IF s = t THEN edits ELSE x.e[s]
    BY <1>5, <1>9 DEF Edited, TreeOver
  <2>2. Fits(x, later)
    BY <1>4, <1>5, <1>8 DEF AllFit, FitAt
  <2>3. ASSUME NEW s \in Thread, home'[c].v[s] # Absent
        PROVE  home'[c].e[s] = later[s][home'[c].v[s]]
    <3>1. CASE s = t
      <4>1. home'[c].v[s] = new /\ home'[c].e[s] = edits
        BY <1>2, <2>1, <2>3, <3>1
      <4>2. QED
        BY <1>7, <3>1, <4>1
    <3>2. CASE s # t
      <4>1. home'[c].v[s] = x.v[s] /\ home'[c].e[s] = x.e[s]
        BY <2>1, <3>2
      <4>2. QED
        BY <2>2, <2>3, <4>1 DEF Fits
    <3>3. QED
      BY <3>1, <3>2
  <2>4. QED
    BY <2>1, <2>3 DEF Fits
<1>11. ASSUME NEW d \in Client PROVE Keeping(d)' /\ FitAt(d, later)'
  <2>1. \A s \in Thread : home[d].e[s] \subseteq home'[d].e[s]
    BY <1>2, <1>10 DEF ClientInv, Typing, ClientTyping
  <2>2. Integrated(d)' = Integrated(d)
    BY <1>3 DEF Integrated, TrackedHead
  <2>3. HomeOK(d)' /\ WorkOK(d)' /\ PlanOK(d)' /\ Attached(d)'
    BY <1>3, <2>1, <2>2, HomeStays, WorkStays, PlanStays DEF EditsInv, Keeping, Attached
  <2>4. Fits(home'[d], later)
    <3>1. d # c => home'[d] = home[d] /\ home[d] \in TreeOver(used)
      BY <1>2 DEF ClientInv, Typing, ClientTyping
    <3>2. QED
      BY <1>4, <1>8, <1>10, <3>1 DEF AllFit, FitAt
  <2>5. job[d].step = "checkout" => Fits(job[d].tree, later) /\ Fits(job[d].local, later)
    <3>1. job[d].step = "checkout" => job[d] \in CheckoutJobs(used)
      BY JobForms DEF JobForm, ClientInv, Typing, ClientTyping
    <3>2. job[d].step = "checkout" =>
            job[d].tree \in TreeOver(used) /\ job[d].local \in TreeOver(used)
      BY <3>1 DEF CheckoutJobs
    <3>3. QED
      BY <1>4, <1>8, <3>2 DEF AllFit, FitAt
  <2>6. journal[d] # None /\ journal[d].status = "torn" => Fits(journal[d].backup, later)
    <3>1. journal[d] # None /\ journal[d].status = "torn" => journal[d].backup \in TreeOver(used)
      BY JournalForm DEF ClientInv, Typing
    <3>2. QED
      BY <1>4, <1>8, <3>1 DEF AllFit, FitAt
  <2>7. QED
    BY <1>3, <2>3, <2>4, <2>5, <2>6 DEF Keeping, FitAt
<1>12. \A i \in DOMAIN revs' : Fits(revs'[i].tree, later)
  <2>1. ASSUME NEW i \in DOMAIN revs PROVE Fits(revs[i].tree, later)
    <3>1. revs[i].tree \in TreeOver(used)
      BY RevisionForm DEF ClientInv, Typing
    <3>2. QED
      BY <1>4, <1>8, <3>1 DEF AllFit
  <2>2. QED
    BY <1>3, <2>1
<1>13. Lineage'
  BY <1>3, LineageStays DEF Lineage, EditsInv
<1>14. QED
  BY <1>7, <1>11, <1>12, <1>13 DEF EditsInv, Coherent, AllFit

----------------------------------------------------------------------------
(* Pushes keep the edits of the head.                                      *)

LEMMA HeadIsHeld ==
    ASSUME ClientInv, NEW c \in Client, NEW n \in Ns, Keeping(c), journal[c] = None,
           HeadIntegrated(c, n), active[c] \in {None, n}
    PROVE  HoldsIn(revs, discarded, home[c], head[n], {})
<1>1. CASE active[c] = None
  <2>1. head[n] = None
    BY <1>1 DEF Keeping, Attached, HeadIntegrated, TrackedHead
  <2>2. QED
    BY <2>1 DEF HoldsIn
<1>2. CASE active[c] # None
  <2>1. Integrated(c) = head[n]
    BY <1>2 DEF Integrated, HeadIntegrated
  <2>2. QED
    BY <2>1 DEF Keeping, HomeOK, Holds
<1>3. QED
  BY <1>1, <1>2

LEMMA BuildKeeps ==
    ASSUME ClientInv, EditsInv, Evolves, NEW c \in Client, NEW n \in Ns, NEW op \in {"push", "staged"},
           NEW tree \in TreeOver(used), Build(n, tree), journal[c] = None,
           job' = [job EXCEPT ![c] = CommitJob(c, n, op)],
           UNCHANGED <<published, head, epoch, home, track, active, journal, used, rewrites>>,
           discarded \subseteq discarded', discarded' \subseteq used,
           \A origin \in Origins : AllFit(origin) => Fits(tree, origin),
           HoldsIn(revs, discarded', tree, head[n], {}),
           \A t \in Thread : tree.v[t] # Absent => tree.e[t] \subseteq home[c].e[t] \cup discarded'
    PROVE  EditsInv'
<1>1. PICK new : new = Len(revs) + 1
  OBVIOUS
<1>2. Histories
  BY DEF Histories, ClientInv, Typing, ServerTyping
<1>3. /\ revs'[new] = [ns |-> n, parent |-> head[n], tree |-> tree]
      /\ DOMAIN revs' = DOMAIN revs \cup {new} /\ new \in DOMAIN revs'
  BY <1>1, <1>2, ServerBuilds DEF ClientInv, Typing
<1>4. new \notin DOMAIN revs /\ new # None /\ Extends(revs, revs')
  BY <1>1, RevisionForm, ClientAssumption DEF ClientInv, Typing, Evolves
<1>5. head[n] \in DOMAIN revs \cup {None}
  BY HeadIsAhead, KnownForm DEF ClientInv, Typing
<1>6. Lineage'
  <2>1. HoldsIn(revs', discarded', tree, head[n], {})
    BY <1>4, <1>5, HoldsStays
  <2>2. Holds(revs[new].tree, revs[new].parent, {})'
    BY <1>3, <2>1 DEF Holds
  <2>3. QED
    BY <1>3, <2>2, LineageStays DEF Lineage, EditsInv
<1>7. PICK origin \in Origins : AllFit(origin)
  BY DEF EditsInv, Coherent
<1>8. \A i \in DOMAIN revs' : Fits(revs'[i].tree, origin)
  <2>1. Fits(revs'[new].tree, origin)
    BY <1>3, <1>7
  <2>2. ASSUME NEW i \in DOMAIN revs PROVE Fits(revs'[i].tree, origin)
    BY <1>4, <1>7 DEF Extends, AllFit
  <2>3. QED
    BY <1>3, <2>1, <2>2
<1>9. PICK j : j = CommitJob(c, n, op)
  OBVIOUS
<1>10. j.step = "commit" /\ j.rev = new /\ job'[c] = j /\ Only(c)
  BY <1>1, <1>9 DEF CommitJob, ClientInv, Typing, ClientTyping, Only
<1>11. Keeping(c)'
  <2>1. Integrated(c)' = Integrated(c)
    BY DEF Integrated, TrackedHead
  <2>2. HomeOK(c)' /\ Attached(c)'
    BY <2>1, HomeStays DEF EditsInv, Keeping, Attached
  <2>3. HoldsIn(revs', discarded', home[c], new, {})
    BY <1>3 DEF HoldsIn
  <2>4. WorkOK(c)' /\ PlanOK(c)'
    BY <1>10, <2>3 DEF WorkOK, PlanOK, Holds
  <2>5. QED
    BY <2>2, <2>4 DEF Keeping
<1>12. ASSUME NEW d \in Client PROVE Keeping(d)' /\ FitAt(d, origin)'
  <2>1. CASE d = c
    BY <1>7, <1>10, <1>11, <2>1 DEF FitAt, AllFit
  <2>2. CASE d # c
    <3>1. Untouched(d)
      BY <1>10, <2>2, OthersUntouched DEF ClientInv, Typing
    <3>2. QED
      BY <1>7, <3>1, OthersKeep DEF EditsInv, AllFit, FitAt, Untouched
  <2>3. QED
    BY <2>1, <2>2
<1>13. QED
  BY <1>6, <1>7, <1>8, <1>12 DEF EditsInv, Coherent, AllFit

LEMMA PushKeeps ==
    ASSUME ~UnrecoveredPush, ClientInv, EditsInv, Evolves, NEW c \in Client, NEW n \in Ns,
           push_namespace(c, n)
    PROVE  EditsInv'
<1>1. /\ Build(n, home[c]) /\ job' = [job EXCEPT ![c] = CommitJob(c, n, "push")]
      /\ UNCHANGED <<published, head, epoch, home, track, active, journal, used,
                     rewrites, discarded>>
      /\ journal[c] = None /\ HeadIntegrated(c, n) /\ active[c] \in {None, n}
  BY DEF push_namespace, counters, MayPush, Publishable
<1>2. home[c] \in TreeOver(used) /\ discarded' \subseteq used /\ discarded \subseteq discarded'
  BY <1>1 DEF ClientInv, Typing, ClientTyping, ServerTyping
<1>3. HoldsIn(revs, discarded', home[c], head[n], {})
  BY <1>1, HeadIsHeld DEF EditsInv
<1>4. \A origin \in Origins : AllFit(origin) => Fits(home[c], origin)
  BY DEF AllFit, FitAt
<1>5. \A t \in Thread : home[c].v[t] # Absent => home[c].e[t] \subseteq home[c].e[t] \cup discarded'
  OBVIOUS
<1>6. QED
  BY <1>1, <1>2, <1>3, <1>4, <1>5, BuildKeeps

LEMMA StagedKeeps ==
    ASSUME ~UnrecoveredPush, ClientInv, EditsInv, Evolves, NEW c \in Client, NEW n \in Ns,
           NEW staged \in SUBSET Thread, push_staged_namespace(c, n, staged)
    PROVE  EditsInv'
<1> DEFINE base == TreeOf(head[n])
           local == home[c]
           tree == compose_staged(base, local, staged)
           gone == UNION {base.e[t] \ home[c].e[t] : t \in {s \in staged : home[c].v[s] = Absent}}
<1>1. /\ Build(n, tree) /\ job' = [job EXCEPT ![c] = CommitJob(c, n, "staged")]
      /\ discarded' = discarded \cup gone
      /\ UNCHANGED <<published, head, epoch, home, track, active, journal, used, rewrites>>
      /\ journal[c] = None /\ HeadIntegrated(c, n) /\ active[c] \in {None, n}
  BY DEF push_staged_namespace, counters, MayPush, Publishable
<1>2. /\ local \in TreeOver(used) /\ base \in TreeOver(used) /\ discarded \subseteq used
      /\ head[n] \in DOMAIN revs \cup {None}
  BY HeadIsAhead, KnownForm, TreeOfForm DEF ClientInv, Typing, ClientTyping, ServerTyping
<1>3. tree \in TreeOver(used)
  BY <1>2, ComposedForm
<1>4. gone \subseteq used
  BY <1>2 DEF TreeOver
<1>5. HoldsIn(revs, discarded, local, head[n], {})
  BY <1>1, HeadIsHeld DEF EditsInv
<1>6. \A t \in Thread : /\ tree.v[t] = IF t \in staged THEN local.v[t] ELSE base.v[t]
                        /\ tree.e[t] = IF t \in staged THEN local.e[t] ELSE base.e[t]
  BY DEF compose_staged
<1>7. \A t \in Thread : base.v[t] # Absent =>
         /\ head[n] # None /\ base.e[t] \subseteq local.e[t] \cup discarded
         /\ revs[head[n]].tree.v[t] # Absent
  BY <1>2, <1>5 DEF HoldsIn, TreeOf, EmptyTree
<1>8. head[n] # None => revs[head[n]].tree = base
  BY DEF TreeOf
<1> HIDE DEF base, local, tree, gone
<1>9. HoldsIn(revs, discarded', tree, head[n], {})
  BY <1>1, <1>6, <1>7, <1>8 DEF HoldsIn
<1>10. \A t \in Thread : tree.v[t] # Absent => tree.e[t] \subseteq home[c].e[t] \cup discarded'
  BY <1>1, <1>6, <1>7 DEF local
<1>11. ASSUME NEW origin \in Origins, AllFit(origin) PROVE Fits(tree, origin)
  <2>1. Fits(local, origin)
    BY <1>11 DEF AllFit, FitAt, local
  <2>2. Fits(base, origin)
    <3>1. CASE head[n] = None
      BY <3>1 DEF base, TreeOf, EmptyTree, Fits
    <3>2. CASE head[n] # None
      BY <1>2, <1>8, <1>11, <3>2 DEF AllFit
    <3>3. QED
      BY <3>1, <3>2
  <2>3. QED
    BY <1>6, <2>1, <2>2 DEF Fits
<1>12. QED
  BY <1>1, <1>2, <1>3, <1>4, <1>9, <1>10, <1>11, BuildKeeps

----------------------------------------------------------------------------
(* A commit and its answer.                                                *)

LEMMA AnsweredKeeps ==
    ASSUME ClientInv, EditsInv, Evolves, NEW c \in Client, NEW j, j = job[c], revs' = revs,
           j.step \in {"commit", "lookup"}, NEW next, job' = [job EXCEPT ![c] = next],
           \/ next.step = "reconcile" /\ next.head = j.rev
           \/ next.step = "lookup" /\ next.rev = j.rev,
           UNCHANGED <<home, track, active, journal>>
    PROVE  EditsInv'
<1>1. job'[c] = next /\ Only(c)
  BY DEF ClientInv, Typing, ClientTyping, Only
<1>2. PICK origin \in Origins : AllFit(origin)
  BY DEF EditsInv, Coherent
<1>3. Integrated(c)' = Integrated(c)
  BY DEF Integrated, TrackedHead
<1>4. HomeOK(c)' /\ Attached(c)'
  BY <1>3, HomeStays DEF EditsInv, Keeping, Attached
<1>5. journal[c] = None /\ HoldsIn(revs, discarded, home[c], j.rev, {})
  BY DEF EditsInv, Keeping, WorkOK, Holds
<1>6. j.rev \in DOMAIN revs \cup {None}
  BY CommitMeans DEF Requested
<1>7. HoldsIn(revs', discarded', home[c], j.rev, {})
  BY <1>5, <1>6, HoldsStays DEF Evolves
<1>8. WorkOK(c)' /\ PlanOK(c)'
  BY <1>1, <1>5, <1>7 DEF WorkOK, PlanOK, Holds
<1>9. FitAt(c, origin)'
  BY <1>1, <1>2 DEF FitAt, AllFit
<1>10. Keeping(c)'
  BY <1>4, <1>8 DEF Keeping
<1>11. QED
  BY <1>1, <1>2, <1>9, <1>10, KeepsOwn

LEMMA CommittedKeeps ==
    ASSUME ClientInv, EditsInv, Evolves, NEW c \in Client, Committed(c) PROVE EditsInv'
<1>0. PICK j : j = job[c]
  OBVIOUS
<1> DEFINE next == [step |-> "reconcile", ns |-> j.ns, generation |-> j.generation,
                    head |-> j.rev, epoch |-> j.epoch]
<1>1. /\ j.step = "commit" /\ job' = [job EXCEPT ![c] = next]
      /\ UNCHANGED <<home, track, active, journal>> /\ revs' = revs
  BY <1>0 DEF Committed, ServerCommit
<1>2. next.step = "reconcile" /\ next.head = j.rev
  OBVIOUS
<1> HIDE DEF next
<1>3. QED
  BY <1>0, <1>1, <1>2, AnsweredKeeps

LEMMA LookUpKeeps ==
    ASSUME ClientInv, EditsInv, Evolves, NEW c \in Client, LookUpHead(c) PROVE EditsInv'
<1>0. PICK j : j = job[c]
  OBVIOUS
<1> DEFINE next == [step |-> "reconcile", ns |-> j.ns, generation |-> j.generation,
                    head |-> j.rev, epoch |-> j.epoch]
<1>1. /\ j.step = "lookup"
      /\ job' = [job EXCEPT ![c] = next] \/ job' = [job EXCEPT ![c] = Idle]
      /\ UNCHANGED <<home, track, active, journal>> /\ revs' = revs
  BY <1>0 DEF LookUpHead, server
<1>2. next.step = "reconcile" /\ next.head = j.rev
  OBVIOUS
<1> HIDE DEF next
<1>3. QED
  BY <1>0, <1>1, <1>2, AnsweredKeeps, GivesUpKeeps

LEMMA AnswerLostKeeps ==
    ASSUME ClientInv, EditsInv, Evolves, NEW c \in Client, AnswerLost(c) PROVE EditsInv'
<1>0. PICK j : j = job[c]
  OBVIOUS
<1> DEFINE next == [j EXCEPT !.step = "lookup"]
<1>1. /\ j.step = "commit"
      /\ job' = [job EXCEPT ![c] = next] \/ job' = [job EXCEPT ![c] = Idle]
      /\ UNCHANGED <<home, track, active, journal>> /\ revs' = revs
  BY <1>0 DEF AnswerLost, ServerCommit
<1>2. j \in CommitJobs
  BY <1>0, <1>1, CommitMeans
<1>3. next.step = "lookup" /\ next.rev = j.rev
  BY <1>2 DEF CommitJobs
<1> HIDE DEF next
<1>4. QED
  BY <1>0, <1>1, <1>3, AnsweredKeeps, GivesUpKeeps

LEMMA PushNothingKeeps ==
    ASSUME ~UnrecoveredPush, ClientInv, EditsInv, Evolves, NEW c \in Client, NEW n \in Ns,
           PushNothing(c, n)
    PROVE  EditsInv'
<1> DEFINE ep == [step |-> "epoch", ns |-> n, generation |-> Generation(c, n),
                  epoch |-> epoch[n]]
           re == [step |-> "reconcile", ns |-> n, generation |-> Generation(c, n),
                  head |-> head[n], epoch |-> epoch[n]]
           es == [t \in Thread |-> home[c].e[t] \cup revs[head[n]].tree.e[t]]
<1>1. /\ UNCHANGED <<revs, track, active, journal, discarded>>
      /\ head[n] # None /\ journal[c] = None
      /\ thread_states_equal(revs[head[n]].tree, home[c])
      /\ job' = [job EXCEPT ![c] = ep] \/ job' = [job EXCEPT ![c] = re]
      /\ home' = [home EXCEPT ![c].e = es]
  BY DEF PushNothing, server, MayPush
<1>2. head[n] \in DOMAIN revs
  BY <1>1, HeadIsAhead, KnownForm DEF ClientInv, Typing
<1>3. home[c] \in TreeOver(used) /\ revs[head[n]].tree \in TreeOver(used)
  BY <1>2, RevisionForm DEF ClientInv, Typing, ClientTyping
<1>4. es \in [Thread -> SUBSET used] /\ \A t \in Thread : es[t] = home[c].e[t] \cup revs[head[n]].tree.e[t]
  BY <1>3 DEF TreeOver
<1> HIDE DEF es
<1>5. /\ home' = [home EXCEPT ![c] = home'[c]]
      /\ home'[c].v = home[c].v /\ home'[c].e = es
  <2>1. home' = [home EXCEPT ![c] = [home[c] EXCEPT !.e = es]]
    BY <1>1 DEF ClientInv, Typing, ClientTyping
  <2>2. [home[c] EXCEPT !.e = es].v = home[c].v /\ [home[c] EXCEPT !.e = es].e = es
    BY <1>3, <1>4 DEF TreeOver
  <2>3. home'[c] = [home[c] EXCEPT !.e = es]
    BY <2>1 DEF ClientInv, Typing, ClientTyping
  <2>4. QED
    BY <2>1, <2>2, <2>3
<1>6. PICK origin \in Origins : AllFit(origin)
  BY DEF EditsInv, Coherent
<1>7. Fits(home'[c], origin)
  <2> SUFFICES ASSUME NEW t \in Thread, home[c].v[t] # Absent
               PROVE  es[t] = origin[t][home[c].v[t]]
    BY <1>5 DEF Fits
  <2>1. home[c].e[t] = origin[t][home[c].v[t]]
    BY <1>6 DEF AllFit, FitAt, Fits
  <2>2. revs[head[n]].tree.v[t] = home[c].v[t]
    BY <1>1 DEF thread_states_equal, Same
  <2>3. revs[head[n]].tree.e[t] = origin[t][home[c].v[t]]
    BY <1>2, <1>6, <2>2 DEF AllFit, Fits
  <2>4. QED
    BY <1>4, <2>1, <2>3
<1>8. ep.step = "epoch" /\ re.step = "reconcile" /\ re.head = head[n]
  OBVIOUS
<1>9. job'[c].step = "epoch" \/ (job'[c].step = "reconcile" /\ job'[c].head = head[n])
  BY <1>1, <1>8 DEF ClientInv, Typing, ClientTyping
<1> HIDE DEF ep, re
<1>10. Only(c)
  BY <1>1, <1>5 DEF Only, ClientInv, Typing, ClientTyping
<1>11. Integrated(c)' = Integrated(c)
  BY <1>1 DEF Integrated, TrackedHead
<1>12. \A t \in Thread : home[c].e[t] \subseteq home'[c].e[t]
  BY <1>4, <1>5
<1>13. HomeOK(c)' /\ Attached(c)'
  BY <1>1, <1>11, <1>12, HomeStays DEF EditsInv, Keeping, Attached
<1>14. HoldsIn(revs', discarded', home'[c], head[n], {})
  BY <1>1, <1>4, <1>5 DEF HoldsIn
<1>15. WorkOK(c)' /\ PlanOK(c)'
  BY <1>1, <1>9, <1>14 DEF WorkOK, PlanOK, Holds
<1>16. Keeping(c)' /\ FitAt(c, origin)'
  BY <1>1, <1>6, <1>7, <1>9, <1>13, <1>15 DEF Keeping, FitAt, AllFit
<1>17. QED
  BY <1>1, <1>6, <1>10, <1>16, KeepsOwn

----------------------------------------------------------------------------
(* The record follows what the home holds.                                 *)

\* A home whose journal is done and whose record is the revision h it holds.
LEMMA FollowsKeeps ==
    ASSUME ClientInv, EditsInv, Evolves, NEW c \in Client, NEW n \in Ns, NEW h, NEW e, NEW g,
           Recorded(c, n, h, e, g), active' = [active EXCEPT ![c] = n], Quiet,
           HoldsIn(revs, discarded, home[c], h, {}),
           track'[c][n] # None, UNCHANGED <<home, discarded>>,
           journal' = [journal EXCEPT ![c] = None], NEW next, job' = [job EXCEPT ![c] = next],
           next.step \in {"idle", "publish", "epoch"}
    PROVE  EditsInv'
<1>1. /\ job'[c] = next /\ journal'[c] = None /\ active'[c] = n /\ Only(c)
      /\ revs' = revs
  BY DEF ClientInv, Typing, ClientTyping, Only, Recorded, Quiet
<1>2. PICK origin \in Origins : AllFit(origin)
  BY DEF EditsInv, Coherent
<1>3. n # None
  BY ClientAssumption
<1>4. Integrated(c)' = h
  BY <1>1, <1>3 DEF Integrated, TrackedHead, Recorded
<1>5. Keeping(c)'
  BY <1>1, <1>3, <1>4 DEF Keeping, Attached, HomeOK, WorkOK, PlanOK, Holds
<1>6. FitAt(c, origin)'
  BY <1>1, <1>2 DEF FitAt, AllFit
<1>7. QED
  BY <1>1, <1>2, <1>5, <1>6, KeepsOwn

LEMMA RecordIsSome ==
    ASSUME NEW c, NEW n, NEW h \in HeadOrNone, NEW e \in Nat, NEW g \in Nat, Recorded(c, n, h, e, g + 1)
    PROVE  track'[c][n] # None
<1>1. [head |-> h, epoch |-> e, generation |-> g + 1] \in Record
  BY DEF Record, HeadOrNone
<1>2. QED
  BY <1>1, ClientAssumption DEF Recorded

LEMMA RecordPushKeeps ==
    ASSUME ClientInv, EditsInv, Evolves, NEW c \in Client, RecordPush(c) PROVE EditsInv'
<1>0. PICK j : j = job[c]
  OBVIOUS
<1> DEFINE n == j.ns
           next == [step |-> "epoch", ns |-> n, generation |-> j.generation + 1, epoch |-> j.epoch]
<1>1. /\ j.step = "reconcile" /\ reconcile_checkout(c, n, j.generation, j.head)
      /\ job' = [job EXCEPT ![c] = next]
      /\ Quiet /\ UNCHANGED <<home, journal, discarded>>
  BY <1>0 DEF RecordPush, Quiet, server, counters
<1>2. n \in Ns /\ j.generation \in Nat /\ j.head \in HeadOrNone
  BY <1>0, <1>1, JobMeans, KnownForm DEF Reads, ClientInv, Following, JobOK, Typing
<1>3. PICK e : e = RecordedEpoch(c, n)
  OBVIOUS
<1>4. e \in Nat
  BY <1>2, <1>3, RecordedEpochs
<1>5. Recorded(c, n, j.head, e, j.generation + 1) /\ active' = [active EXCEPT ![c] = n]
  BY <1>1, <1>2, <1>3, Reconciles DEF ClientInv
<1>6. track'[c][n] # None
  BY <1>2, <1>4, <1>5, RecordIsSome
<1>7. journal[c] = None /\ HoldsIn(revs, discarded, home[c], j.head, {})
  BY <1>0, <1>1 DEF EditsInv, Keeping, WorkOK, Holds
<1>8. journal' = [journal EXCEPT ![c] = None]
  BY <1>1, <1>7 DEF ClientInv, Typing, ClientTyping
<1>9. next.step = "epoch"
  OBVIOUS
<1> DEFINE h == j.head
           g == j.generation + 1
<1> HIDE DEF next, n, h, g
<1>10. Recorded(c, n, h, e, g) /\ HoldsIn(revs, discarded, home[c], h, {})
  BY <1>5, <1>7 DEF h, g
<1>11. n \in Ns
  BY <1>2
<1>12. QED
  BY <1>1, <1>5, <1>6, <1>8, <1>9, <1>10, <1>11, FollowsKeeps

LEMMA EpochKeeps ==
    ASSUME ClientInv, EditsInv, Evolves, NEW c \in Client, update_remote_epoch(c) PROVE EditsInv'
<1>0. PICK j : j = job[c]
  OBVIOUS
<1> DEFINE n == j.ns
<1>1. /\ j.step = "epoch" /\ track' = [track EXCEPT ![c][n].epoch = j.epoch]
      /\ job' = [job EXCEPT ![c] = Idle]
      /\ UNCHANGED <<revs, home, active, journal, discarded>>
  BY <1>0 DEF update_remote_epoch, server, RecordEpoch
<1>2. n \in Ns
  BY <1>0, <1>1, JobMeans DEF Reads
<1>3. track[c][n] # None /\ track[c][n] \in Record
  BY <1>0, <1>1, <1>2, RecordForm DEF ClientInv, Following, JobOK, Typing
<1> DEFINE r == [track[c][n] EXCEPT !.epoch = j.epoch]
<1>4. track' = [track EXCEPT ![c] = [track[c] EXCEPT ![n] = r]]
  BY <1>1, <1>2 DEF ClientInv, Typing, ClientTyping
<1>5. r.head = track[c][n].head
  BY <1>3 DEF Record
<1> HIDE DEF r
<1>6. /\ track'[c] = [track[c] EXCEPT ![n] = r] /\ track' = [track EXCEPT ![c] = track'[c]]
      /\ job'[c] = Idle /\ Idle.step = "idle"
  BY <1>1, <1>4 DEF ClientInv, Typing, ClientTyping, Idle
<1>7. \A m \in Ns : /\ track[c][m] = None => track'[c][m] = None
                    /\ track'[c][m] = IF m = n THEN r ELSE track[c][m]
  BY <1>2, <1>3, <1>6 DEF ClientInv, Typing, ClientTyping
<1>8. Only(c)
  BY <1>1, <1>6 DEF Only, ClientInv, Typing, ClientTyping
<1>9. Integrated(c)' = Integrated(c)
  <2>1. CASE active[c] = None
    BY <1>1, <2>1 DEF Integrated
  <2>2. CASE active[c] # None
    <3>1. active[c] \in Ns
      BY <2>2 DEF ClientInv, Typing, ClientTyping
    <3>2. CASE active[c] = n
      <4>1. track'[c][n] = r /\ r # None
        <5>1. r \in Record
          <6>1. j.epoch \in Nat
            BY <1>0, <1>1, JobMeans DEF Reads
          <6>2. QED
            BY <1>3, <6>1 DEF Record, r
        <5>2. QED
          BY <1>2, <1>7, <5>1, ClientAssumption
      <4>2. QED
        BY <1>1, <1>3, <1>5, <2>2, <3>2, <4>1 DEF Integrated, TrackedHead
    <3>3. CASE active[c] # n
      BY <1>1, <1>7, <2>2, <3>1, <3>3 DEF Integrated, TrackedHead
    <3>4. QED
      BY <3>2, <3>3
  <2>3. QED
    BY <2>1, <2>2
<1>10. Keeping(c)'
  BY <1>1, <1>6, <1>7, <1>9, RestKeeps DEF EditsInv
<1>11. PICK origin \in Origins : AllFit(origin)
  BY DEF EditsInv, Coherent
<1>12. FitAt(c, origin)'
  BY <1>1, <1>6, <1>11 DEF FitAt, AllFit
<1>13. QED
  BY <1>1, <1>8, <1>10, <1>11, <1>12, KeepsOwn

LEMMA ApplyHomeKeeps ==
    ASSUME ClientInv, EditsInv, Evolves, NEW c \in Client, ApplyHome(c) PROVE EditsInv'
<1>0. PICK j : j = job[c]
  OBVIOUS
<1> DEFINE next == [step |-> "applied", op |-> j.op, ns |-> j.ns, generation |-> j.generation,
                    head |-> j.head, epoch |-> j.epoch, then |-> j.then]
           entry == [status |-> "applied", op |-> j.op, ns |-> j.ns,
                     generation |-> j.generation, head |-> j.head]
<1>1. /\ j.step = "checkout" /\ journal[c] = None /\ home' = [home EXCEPT ![c] = j.tree]
      /\ discarded' = discarded \cup j.dropped
      /\ job' = [job EXCEPT ![c] = next] /\ journal' = [journal EXCEPT ![c] = entry]
      /\ UNCHANGED <<revs, track, active>>
  BY <1>0 DEF ApplyHome, server
<1>2. /\ next.step = "applied" /\ entry.status = "applied" /\ entry.op = j.op
      /\ entry.head = j.head
  OBVIOUS
<1> HIDE DEF next, entry
<1>3. home'[c] = j.tree /\ job'[c] = next /\ journal'[c] = entry /\ Only(c)
  BY <1>1 DEF ClientInv, Typing, ClientTyping, Only
<1>4. PICK g : g = Integrated(c)
  OBVIOUS
<1>5. Integrated(c)' = g
  BY <1>1, <1>4 DEF Integrated, TrackedHead
<1> DEFINE a == IF j.op = "restore" THEN g ELSE j.head
<1>6. HoldsIn(revs, discarded, j.tree, a, j.dropped)
  BY <1>0, <1>1, <1>4 DEF EditsInv, Keeping, WorkOK, Holds, Aim
<1>7. HoldsIn(revs', discarded', j.tree, a, {})
  BY <1>1, <1>6 DEF HoldsIn
<1>8. Holds(home[c], Aim(c, journal[c].op, journal[c].head), {})'
  BY <1>2, <1>3, <1>5, <1>7 DEF Holds, Aim
<1>9. entry # None
  <2>1. j \in CheckoutJobs(used)
    BY <1>0, <1>1, JobForms DEF JobForm, ClientInv, Typing, ClientTyping
  <2>2. entry \in Journal
    BY <2>1 DEF CheckoutJobs, Journal, HeadOrNone, entry
  <2>3. QED
    BY <2>2, ClientAssumption
<1>10. HomeOK(c)'
  BY <1>2, <1>3, <1>8, <1>9 DEF HomeOK
<1>11. Keeping(c)'
  BY <1>1, <1>2, <1>3, <1>10 DEF Keeping, Attached, WorkOK, PlanOK, EditsInv
<1>12. PICK origin \in Origins : AllFit(origin)
  BY DEF EditsInv, Coherent
<1>13. FitAt(c, origin)'
  BY <1>0, <1>1, <1>2, <1>3, <1>12 DEF FitAt, AllFit
<1>14. QED
  BY <1>1, <1>3, <1>11, <1>12, <1>13, KeepsOwn

\* A home whose journal is done and whose record stays, because the home holds
\* what the record says.
LEMMA SettlesKeeps ==
    ASSUME ClientInv, EditsInv, Evolves, NEW c \in Client, UNCHANGED <<track, active, discarded, revs>>,
           home' = [home EXCEPT ![c] = home'[c]], HoldsIn(revs, discarded, home'[c], Integrated(c), {}),
           \A origin \in Origins : AllFit(origin) => Fits(home'[c], origin),
           journal' = [journal EXCEPT ![c] = None], NEW next, job' = [job EXCEPT ![c] = next],
           next.step \in {"idle", "publish"}
    PROVE  EditsInv'
<1>1. job'[c] = next /\ journal'[c] = None /\ Only(c)
  BY DEF ClientInv, Typing, ClientTyping, Only
<1>2. PICK origin \in Origins : AllFit(origin)
  BY DEF EditsInv, Coherent
<1>3. Integrated(c)' = Integrated(c)
  BY DEF Integrated, TrackedHead
<1>4. Keeping(c)'
  BY <1>1, <1>3 DEF Keeping, Attached, HomeOK, WorkOK, PlanOK, Holds, EditsInv
<1>5. FitAt(c, origin)'
  BY <1>1, <1>2 DEF FitAt
<1>6. QED
  BY <1>1, <1>2, <1>4, <1>5, KeepsOwn

LEMMA ApplyRecordKeeps ==
    ASSUME ClientInv, EditsInv, Evolves, NEW c \in Client, ApplyRecord(c) PROVE EditsInv'
<1>0. PICK j : j = job[c]
  OBVIOUS
<1> DEFINE next == CASE j.then = "epoch" -> [step |-> "epoch", ns |-> j.ns,
                                      generation |-> j.generation + 1, epoch |-> j.epoch]
              [] j.then = "publish" -> [step |-> "publish", ns |-> j.ns]
              [] j.then = "done" -> Idle
           n == j.ns
<1>1. /\ j.step = "applied"
      /\ j.op # "restore" => reconcile_checkout(c, j.ns, j.generation, j.head)
      /\ j.op = "restore" => UNCHANGED <<track, active>>
      /\ job' = [job EXCEPT ![c] = next] /\ journal' = [journal EXCEPT ![c] = None]
      /\ Quiet /\ UNCHANGED <<home, discarded>>
  BY <1>0 DEF ApplyRecord, Quiet, server, counters
<1>2. j \in AppliedJobs
  BY <1>0, <1>1, JobForms DEF JobForm, ClientInv, Typing, ClientTyping
<1>3. /\ j.op \in Ops /\ n \in Ns /\ j.generation \in Nat /\ j.head \in HeadOrNone
      /\ j.then \in {"epoch", "publish", "done"}
  BY <1>2 DEF AppliedJobs
<1>4. j.op = "restore" => j.then # "epoch"
  BY <1>0, <1>1 DEF ClientInv, Following, JobOK
<1>5. /\ next.step \in {"epoch", "publish", "idle"}
      /\ j.then # "epoch" => next.step \in {"publish", "idle"}
  <2>1. CASE j.then = "epoch"
    <3>1. next = [step |-> "epoch", ns |-> j.ns, generation |-> j.generation + 1, epoch |-> j.epoch]
      BY <2>1
    <3> HIDE DEF next
    <3>2. QED
      BY <2>1, <3>1
  <2>2. CASE j.then = "publish"
    <3>1. next = [step |-> "publish", ns |-> j.ns]
      BY <2>2
    <3> HIDE DEF next
    <3>2. QED
      BY <3>1
  <2>3. CASE j.then = "done"
    <3>1. next = Idle
      BY <2>3
    <3> HIDE DEF next
    <3>2. QED
      BY <3>1 DEF Idle
  <2>4. QED
    BY <1>3, <2>1, <2>2, <2>3
<1> HIDE DEF next
<1>6. PICK k : k = [status |-> "applied", op |-> j.op, ns |-> j.ns,
                       generation |-> j.generation, head |-> j.head]
  OBVIOUS
<1>7. journal[c] = k /\ k.status = "applied" /\ k.op = j.op /\ k.head = j.head /\ k # None
  <2>1. journal[c] = k
    BY <1>0, <1>1, <1>6 DEF ClientInv, Following, JobOK
  <2>2. k \in Journal
    BY <1>3, <1>6 DEF Journal, HeadOrNone
  <2>3. QED
    BY <1>6, <2>1, <2>2, ClientAssumption
<1>8. HoldsIn(revs, discarded, home[c], IF j.op = "restore" THEN Integrated(c) ELSE j.head, {})
  BY <1>7 DEF EditsInv, Keeping, HomeOK, Holds, Aim
<1>9. CASE j.op = "restore"
  <2>1. /\ UNCHANGED <<track, active, revs>> /\ home' = [home EXCEPT ![c] = home'[c]]
        /\ HoldsIn(revs, discarded, home'[c], Integrated(c), {})
        /\ \A origin \in Origins : AllFit(origin) => Fits(home'[c], origin)
    BY <1>1, <1>8, <1>9 DEF Quiet, ClientInv, Typing, ClientTyping, AllFit, FitAt
  <2>2. QED
    BY <1>1, <1>4, <1>5, <1>9, <2>1, SettlesKeeps
<1>10. CASE j.op # "restore"
  <2>1. PICK e : e = RecordedEpoch(c, n)
    OBVIOUS
  <2>2. e \in Nat
    BY <1>3, <2>1, RecordedEpochs
  <2>3. Recorded(c, n, j.head, e, j.generation + 1) /\ active' = [active EXCEPT ![c] = n]
    BY <1>1, <1>3, <1>10, <2>1, Reconciles DEF ClientInv
  <2>4. track'[c][n] # None
    BY <1>3, <2>2, <2>3, RecordIsSome
  <2> DEFINE h == j.head
             g == j.generation + 1
  <2> HIDE DEF n, h, g
  <2>5. Recorded(c, n, h, e, g) /\ HoldsIn(revs, discarded, home[c], h, {}) /\ n \in Ns
    BY <1>3, <1>8, <1>10, <2>3 DEF h, g
  <2>6. QED
    BY <1>1, <1>5, <2>3, <2>4, <2>5, FollowsKeeps
<1>11. QED
  BY <1>9, <1>10

LEMMA RecoverKeeps ==
    ASSUME ClientInv, EditsInv, Evolves, NEW c \in Client, Recover(c) PROVE EditsInv'
<1>0. PICK k : k = journal[c]
  OBVIOUS
<1>1. /\ job[c] = Idle /\ k # None /\ journal' = [journal EXCEPT ![c] = None]
      /\ Quiet /\ UNCHANGED <<job, discarded>>
      /\ \/ /\ k.status = "applied" /\ home' = home
            /\ k.op # "restore" => reconcile_checkout(c, k.ns, k.generation, k.head)
            /\ k.op = "restore" => UNCHANGED <<track, active>>
         \/ /\ k.status = "torn" /\ home' = [home EXCEPT ![c] = k.backup]
            /\ UNCHANGED <<track, active>>
  BY <1>0 DEF Recover, Quiet, server, counters
<1>2. job' = [job EXCEPT ![c] = Idle] /\ Idle.step = "idle" /\ revs' = revs
  BY <1>1 DEF ClientInv, Typing, ClientTyping, Idle, Quiet
<1>3. CASE k.status = "torn"
  <2>1. /\ HoldsIn(revs, discarded, k.backup, Integrated(c), {})
        /\ \A origin \in Origins : AllFit(origin) => Fits(k.backup, origin)
    BY <1>0, <1>1, <1>3 DEF EditsInv, Keeping, HomeOK, Holds, AllFit, FitAt
  <2>2. UNCHANGED <<track, active>> /\ home'[c] = k.backup /\ home' = [home EXCEPT ![c] = home'[c]]
    BY <1>1, <1>3 DEF ClientInv, Typing, ClientTyping
  <2>3. QED
    BY <1>1, <1>2, <2>1, <2>2, SettlesKeeps
<1>4. CASE k.status = "applied" /\ k.op = "restore"
  <2>1. /\ HoldsIn(revs, discarded, home[c], Integrated(c), {})
        /\ \A origin \in Origins : AllFit(origin) => Fits(home[c], origin)
    BY <1>0, <1>1, <1>4 DEF EditsInv, Keeping, HomeOK, Holds, AllFit, FitAt, Aim
  <2>2. UNCHANGED <<track, active>> /\ home'[c] = home[c] /\ home' = [home EXCEPT ![c] = home'[c]]
    BY <1>1, <1>4 DEF ClientInv, Typing, ClientTyping
  <2>3. QED
    BY <1>1, <1>2, <2>1, <2>2, SettlesKeeps
<1>5. CASE k.status = "applied" /\ k.op # "restore"
  <2> DEFINE n == k.ns
             h == k.head
             g == k.generation + 1
  <2>1. n \in Ns /\ k.generation \in Nat /\ h \in HeadOrNone
    BY <1>0, <1>1, <1>5, JournalForm DEF ClientInv, Typing
  <2>2. PICK e : e = RecordedEpoch(c, n)
    OBVIOUS
  <2>3. e \in Nat
    BY <2>1, <2>2, RecordedEpochs
  <2>4. Recorded(c, n, h, e, g) /\ active' = [active EXCEPT ![c] = n]
    BY <1>1, <1>5, <2>1, <2>2, Reconciles DEF ClientInv
  <2>5. track'[c][n] # None
    BY <2>1, <2>3, <2>4, RecordIsSome
  <2>6. HoldsIn(revs, discarded, home[c], h, {})
    BY <1>0, <1>1, <1>5 DEF EditsInv, Keeping, HomeOK, Holds, Aim
  <2> HIDE DEF n, h, g
  <2>7. QED
    BY <1>1, <1>2, <1>5, <2>1, <2>4, <2>5, <2>6, FollowsKeeps
<1>6. QED
  BY <1>1, <1>3, <1>4, <1>5

LEMMA CrashKeeps ==
    ASSUME ClientInv, EditsInv, Evolves, NEW c \in Client, Crash(c) PROVE EditsInv'
<1>1. /\ job' = [job EXCEPT ![c] = Idle]
      /\ UNCHANGED <<revs, published, head, epoch, track, active, used, discarded, rewrites>>
  BY CrashMeans
<1>2. CASE UNCHANGED <<home, journal>>
  BY <1>1, <1>2, GivesUpKeeps
<1>3. CASE ~ UNCHANGED <<home, journal>>
  <2>1. /\ job[c].step = "checkout" /\ journal[c] = None
        /\ journal' = [journal EXCEPT ![c] = [status |-> "torn", backup |-> home[c]]]
    BY <1>3, CrashMeans
  <2>2. PICK from \in [Thread -> {home[c], EmptyTree, job[c].tree}] :
            home' = [home EXCEPT ![c] = Torn(from)]
    BY <1>3, CrashMeans
  <2>3. PICK entry : entry = [status |-> "torn", backup |-> home[c]]
    OBVIOUS
  <2>4. entry.status = "torn" /\ entry.backup = home[c]
    BY <2>3
  <2>5. /\ job'[c] = Idle /\ Idle.step = "idle" /\ journal'[c] = entry
        /\ home'[c] = Torn(from) /\ Only(c)
    BY <1>1, <2>1, <2>2, <2>3 DEF ClientInv, Typing, ClientTyping, Idle, Only
  <2>6. PICK origin \in Origins : AllFit(origin)
    BY DEF EditsInv, Coherent
  <2>7. Fits(home[c], origin) /\ Fits(job[c].tree, origin) /\ Fits(EmptyTree, origin)
    BY <2>1, <2>6 DEF AllFit, FitAt, Fits, EmptyTree
  <2>8. Fits(Torn(from), origin)
    <3> SUFFICES ASSUME NEW t \in Thread, Torn(from).v[t] # Absent
                 PROVE  Torn(from).e[t] = origin[t][Torn(from).v[t]]
      BY DEF Fits
    <3>1. Torn(from).v[t] = from[t].v[t] /\ Torn(from).e[t] = from[t].e[t]
      BY DEF Torn
    <3>2. Fits(from[t], origin)
      BY <2>2, <2>7
    <3>3. QED
      BY <3>1, <3>2 DEF Fits
  <2>9. FitAt(c, origin)'
    BY <2>4, <2>5, <2>7, <2>8 DEF FitAt
  <2>10. Integrated(c)' = Integrated(c)
    BY <1>1 DEF Integrated, TrackedHead
  <2>11. HoldsIn(revs, discarded, home[c], Integrated(c), {})
    BY <2>1 DEF EditsInv, Keeping, HomeOK, Holds
  <2>12. entry # None
    <3>1. entry \in Journal
      <4>1. TreeOver(used) \subseteq Tree
        BY DEF TreeOver, Tree, Version, ClientInv, Typing, ServerTyping
      <4>2. QED
        BY <2>3, <4>1 DEF Journal, ClientInv, Typing, ClientTyping
    <3>2. QED
      BY <3>1, ClientAssumption
  <2>13. HomeOK(c)'
    BY <1>1, <2>4, <2>5, <2>10, <2>11, <2>12 DEF HomeOK, Holds
  <2>14. Keeping(c)'
    BY <1>1, <2>5, <2>13 DEF Keeping, Attached, WorkOK, PlanOK, EditsInv
  <2>15. QED
    BY <1>1, <2>5, <2>6, <2>9, <2>14, KeepsOwn
<1>4. QED
  BY <1>2, <1>3

----------------------------------------------------------------------------
(* Descent: what became of the edits of an ancestor.                       *)

LEMMA LessIsWellFounded == IsWellFoundedOn({ss \in Nat \X Nat : ss[1] < ss[2]}, Nat)
  BY NatLessThanWellFounded DEF OpToRel

\* A set of natural numbers has a least one.
LEMMA Least == ASSUME NEW T, T \subseteq Nat, T # {} PROVE \E x \in T : \A y \in T : x <= y
<1> DEFINE Less == {ss \in Nat \X Nat : ss[1] < ss[2]}
<1>1. \E x \in T : \A y \in T : ~ (<<y, x>> \in Less)
  <2>1. IsWellFoundedOn(Less, Nat)
    BY LessIsWellFounded
  <2>2. QED
    BY <2>1, WFMin
<1>2. PICK x \in T : \A y \in T : ~ (<<y, x>> \in Less)
  BY <1>1
<1>3. ASSUME NEW y \in T PROVE x <= y
  <2>1. x \in Nat /\ y \in Nat
    OBVIOUS
  <2>2. <<y, x>> \in Nat \X Nat /\ <<y, x>>[1] = y /\ <<y, x>>[2] = x
    BY <2>1
  <2>3. ~ (y < x)
    BY <1>2, <2>2
  <2>4. QED
    BY <2>1, <2>3
<1>4. QED
  BY <1>3

\* A history is its head and the history of the parent.
LEMMA ChainSplits ==
    ASSUME NEW R, WellParented(R), NEW h \in DOMAIN R, h # None, NEW b \in ChainOf(R, h), b # h
    PROVE  R[h].parent # None /\ b \in ChainOf(R, R[h].parent)
<1> DEFINE p == R[h].parent
           S == {h} \cup ChainOf(R, p)
<1>1. S \subseteq DOMAIN R /\ h \in S
  BY ChainInside
<1>2. ParentsIn(R, S)
  <2> SUFFICES ASSUME NEW i \in S, R[i].parent # None PROVE R[i].parent \in S
    BY DEF ParentsIn
  <2>1. CASE i = h
    BY <2>1, ChainHasHead DEF WellParented
  <2>2. CASE i \in ChainOf(R, p)
    BY <2>2, ChainClosed DEF ParentsIn
  <2>3. QED
    BY <2>1, <2>2
<1> HIDE DEF S
<1>3. b \in S
  BY <1>1, <1>2, ChainLeast
<1>4. b \in ChainOf(R, p)
  BY <1>3 DEF S
<1>5. p # None
  BY <1>4 DEF ChainOf
<1>6. QED
  BY <1>4, <1>5

Survives(edits, i, t) ==
    \/ edits \subseteq revs[i].tree.e[t] \cup discarded
    \/ DeletedKnowing(revs, discarded, i, edits, t)

\* The edits of an ancestor are in a revision, were given up, or are behind a
\* deletion on the way.
LEMMA AncestorsSurvive ==
    ASSUME ClientInv, Lineage, NEW t \in Thread, NEW b \in DOMAIN revs,
           revs[b].tree.v[t] # Absent, NEW h \in DOMAIN revs, b \in ChainOf(revs, h)
    PROVE  Survives(revs[b].tree.e[t], h, t)
<1>1. DOMAIN revs \subseteq Nat /\ WellParented(revs) /\ None \notin DOMAIN revs
  BY RevisionForm DEF ClientInv, Typing
<1>2. \A i \in DOMAIN revs : revs[i].parent # None => revs[i].parent \in DOMAIN revs /\ revs[i].parent < i
  <2> SUFFICES ASSUME NEW i \in DOMAIN revs, revs[i].parent # None
               PROVE  revs[i].parent \in DOMAIN revs /\ revs[i].parent < i
    OBVIOUS
  <2>1. revs[i].parent \in 1 .. (i - 1) /\ i \in Nat
    BY <1>1 DEF ClientInv, Typing, ServerTyping
  <2>2. QED
    BY <1>1, <2>1 DEF WellParented
<1> DEFINE edits == revs[b].tree.e[t]
           Bad == {i \in DOMAIN revs : b \in ChainOf(revs, i) /\ ~ Survives(edits, i, t)}
<1>3. Bad = {}
  <2> SUFFICES ASSUME Bad # {} PROVE FALSE
    OBVIOUS
  <2>1. Bad \subseteq Nat
    BY <1>1
  <2>2. PICK i \in Bad : \A y \in Bad : i <= y
    <3> HIDE DEF Bad
    <3>1. QED
      BY <2>1, Least
  <2>3. i \in DOMAIN revs /\ b \in ChainOf(revs, i) /\ ~ Survives(edits, i, t)
    OBVIOUS
  <2>4. i # b
    BY <2>3 DEF Survives
  <2>5. PICK p : p = revs[i].parent
    OBVIOUS
  <2>6. p # None /\ b \in ChainOf(revs, p) /\ p \in DOMAIN revs /\ p < i /\ p \in Nat /\ i \in Nat
    BY <1>1, <1>2, <2>3, <2>4, <2>5, ChainSplits
  <2>7. p \notin Bad
    <3> HIDE DEF Bad
    <3>1. QED
      BY <2>2, <2>6
  <2>8. Survives(edits, p, t)
    BY <2>6, <2>7
  <2>9. ChainOf(revs, p) \subseteq ChainOf(revs, i) /\ p \in ChainOf(revs, i)
    BY <1>1, <2>3, <2>5, <2>6, ChainOfParent, ChainHasHead
  <2> HIDE DEF Bad, edits
  <2>10. CASE DeletedKnowing(revs, discarded, p, edits, t)
    <3>1. DeletedKnowing(revs, discarded, i, edits, t)
      BY <2>9, <2>10 DEF DeletedKnowing
    <3>2. QED
      BY <2>3, <3>1 DEF Survives
  <2>11. CASE edits \subseteq revs[p].tree.e[t] \cup discarded
    <3>1. CASE revs[p].tree.v[t] = Absent
      <4>1. DeletedKnowing(revs, discarded, i, edits, t)
        BY <2>9, <2>11, <3>1 DEF DeletedKnowing
      <4>2. QED
        BY <2>3, <4>1 DEF Survives
    <3>2. CASE revs[p].tree.v[t] # Absent
      <4>1. revs[p].tree.e[t] \subseteq revs[i].tree.e[t] \cup discarded
        BY <2>3, <2>5, <2>6, <3>2 DEF Lineage, Holds, HoldsIn
      <4>2. QED
        BY <2>3, <2>11, <4>1 DEF Survives
    <3>3. QED
      BY <3>1, <3>2
  <2>12. QED
    BY <2>8, <2>10, <2>11 DEF Survives
<1>4. QED
  BY <1>3

----------------------------------------------------------------------------
(* What the merges do to one conversation.                                 *)

LEMMA MergedThread ==
    ASSUME NEW base, NEW local, NEW remote, NEW t \in Thread, NEW m,
           m = merge_thread_sets(base, local, remote)
    PROVE  /\ t \in Conflicting(base, local, remote) => m.v[t] = Absent /\ m.e[t] = {}
           /\ t \notin Conflicting(base, local, remote) =>
                /\ m.v[t] \in {local.v[t], remote.v[t]}
                /\ m.v[t] = local.v[t] => local.e[t] \subseteq m.e[t]
                /\ m.v[t] = remote.v[t] => remote.e[t] \subseteq m.e[t]
                /\ m.e[t] = (IF m.v[t] = local.v[t] THEN local.e[t] ELSE {})
                              \cup (IF m.v[t] = remote.v[t] THEN remote.e[t] ELSE {})
                /\ m.v[t] # local.v[t] => local.v[t] = base.v[t] /\ remote.v[t] # base.v[t]
                /\ m.v[t] # remote.v[t] => remote.v[t] = base.v[t]
<1> DEFINE clash == Conflicting(base, local, remote)
           version(s) == IF s \in clash THEN Absent ELSE MergedVersion(base, local, remote, s)
<1>1. /\ m.v[t] = version(t)
      /\ m.e[t] = IF t \in clash THEN {} ELSE EditsBehind(version(t), local, remote, t)
  BY DEF merge_thread_sets
<1>2. CASE t \in clash
  BY <1>1, <1>2
<1>3. CASE t \notin clash
  <2>1. ~ (/\ local.v[t] # base.v[t] /\ remote.v[t] # base.v[t] /\ local.v[t] # remote.v[t])
    BY <1>3 DEF Conflicting, Same
  <2>2. m.v[t] = MergedVersion(base, local, remote, t)
          /\ m.e[t] = EditsBehind(m.v[t], local, remote, t)
    BY <1>1, <1>3
  <2>3. m.v[t] = IF local.v[t] # base.v[t] THEN local.v[t]
                 ELSE IF remote.v[t] # base.v[t] THEN remote.v[t] ELSE local.v[t]
    BY <2>2 DEF MergedVersion, Same
  <2>4. m.e[t] = (IF m.v[t] = local.v[t] THEN local.e[t] ELSE {})
                              \cup (IF m.v[t] = remote.v[t] THEN remote.e[t] ELSE {})
    BY <2>2 DEF EditsBehind
  <2> HIDE DEF clash, version
  <2>5. QED
    BY <1>3, <2>1, <2>3, <2>4 DEF clash
<1>4. QED
  BY <1>2, <1>3

LEMMA ResolvedThread ==
    ASSUME NEW base, NEW local, NEW remote, NEW resolutions, NEW t \in Thread, NEW m, NEW x,
           Valid(resolutions, Conflicts(base, local, remote)),
           m = merge_thread_sets(base, local, remote),
           x = resolve_thread_sets(base, local, remote, resolutions)
    PROVE  /\ t \notin Conflicting(base, local, remote) => x.v[t] = m.v[t] /\ x.e[t] = m.e[t]
           /\ t \in Conflicting(base, local, remote) =>
                \/ /\ x.v[t] = local.v[t] /\ x.e[t] = local.e[t]
                   /\ remote.e[t] \ local.e[t] \subseteq GivenUp(local, remote, resolutions)
                \/ /\ x.v[t] = remote.v[t] /\ x.e[t] = remote.e[t]
                   /\ local.e[t] \ remote.e[t] \subseteq GivenUp(local, remote, resolutions)
<1> DEFINE clash == Conflicting(base, local, remote)
           mine == \E r \in resolutions : r.conflict.thread = t /\ r.choice = "local"
<1>1. /\ x.v[t] = IF t \in clash THEN (IF mine THEN local ELSE remote).v[t] ELSE m.v[t]
      /\ x.e[t] = IF t \in clash THEN (IF mine THEN local ELSE remote).e[t] ELSE m.e[t]
  BY DEF resolve_thread_sets
<1>2. CASE t \notin clash
  BY <1>1, <1>2
<1>3. CASE t \in clash /\ mine
  <2>1. PICK r \in resolutions : r.conflict.thread = t /\ r.choice = "local"
    BY <1>3
  <2>2. remote.e[t] \ local.e[t] \subseteq GivenUp(local, remote, resolutions)
    BY <2>1 DEF GivenUp
  <2> HIDE DEF clash, mine
  <2>3. x.v[t] = local.v[t] /\ x.e[t] = local.e[t]
    BY <1>1, <1>3
  <2>4. QED
    BY <1>3, <2>2, <2>3 DEF clash
<1>4. CASE t \in clash /\ ~ mine
  <2>1. conflict_fingerprint(base, local, remote, t) \in Conflicts(base, local, remote)
    BY <1>4 DEF Conflicts
  <2>2. PICK r \in resolutions : r.conflict = conflict_fingerprint(base, local, remote, t)
    BY <2>1 DEF Valid
  <2>3. r.conflict.thread = t /\ r.choice # "local"
    BY <1>4, <2>2 DEF conflict_fingerprint
  <2>4. local.e[t] \ remote.e[t] \subseteq GivenUp(local, remote, resolutions)
    BY <2>3 DEF GivenUp
  <2> HIDE DEF clash, mine
  <2>5. x.v[t] = remote.v[t] /\ x.e[t] = remote.e[t]
    BY <1>1, <1>4
  <2>6. QED
    BY <1>4, <2>4, <2>5 DEF clash
<1>5. QED
  BY <1>2, <1>3, <1>4

LEMMA MergedFits ==
    ASSUME NEW base, NEW local, NEW remote, NEW origin, Fits(local, origin), Fits(remote, origin)
    PROVE  Fits(merge_thread_sets(base, local, remote), origin)
<1>1. PICK m : m = merge_thread_sets(base, local, remote)
  OBVIOUS
<1>2. ASSUME NEW t \in Thread, m.v[t] # Absent PROVE m.e[t] = origin[t][m.v[t]]
  <2>1. t \notin Conflicting(base, local, remote)
    BY <1>1, <1>2, MergedThread
  <2>2. /\ m.v[t] \in {local.v[t], remote.v[t]}
        /\ m.e[t] = (IF m.v[t] = local.v[t] THEN local.e[t] ELSE {})
                              \cup (IF m.v[t] = remote.v[t] THEN remote.e[t] ELSE {})
    BY <1>1, <2>1, MergedThread
  <2>3. /\ m.v[t] = local.v[t] => local.e[t] = origin[t][m.v[t]]
        /\ m.v[t] = remote.v[t] => remote.e[t] = origin[t][m.v[t]]
    BY <1>2 DEF Fits
  <2>4. QED
    BY <2>2, <2>3
<1>3. QED
  BY <1>1, <1>2 DEF Fits

LEMMA ResolvedFits ==
    ASSUME NEW base, NEW local, NEW remote, NEW resolutions, NEW origin,
           Fits(local, origin), Fits(remote, origin),
           Valid(resolutions, Conflicts(base, local, remote))
    PROVE  Fits(resolve_thread_sets(base, local, remote, resolutions), origin)
<1>1. PICK m : m = merge_thread_sets(base, local, remote)
  OBVIOUS
<1>2. PICK x : x = resolve_thread_sets(base, local, remote, resolutions)
  OBVIOUS
<1>3. Fits(m, origin)
  BY <1>1, MergedFits
<1>4. ASSUME NEW t \in Thread, x.v[t] # Absent PROVE x.e[t] = origin[t][x.v[t]]
  <2>1. CASE t \in Conflicting(base, local, remote)
    <3>1. \/ x.v[t] = local.v[t] /\ x.e[t] = local.e[t]
          \/ x.v[t] = remote.v[t] /\ x.e[t] = remote.e[t]
      BY <1>1, <1>2, <1>4, <2>1, ResolvedThread
    <3>2. QED
      BY <1>4, <3>1 DEF Fits
  <2>2. CASE t \notin Conflicting(base, local, remote)
    <3>1. x.v[t] = m.v[t] /\ x.e[t] = m.e[t]
      BY <1>1, <1>2, <1>4, <2>2, ResolvedThread
    <3>2. QED
      BY <1>3, <1>4, <3>1 DEF Fits
  <2>3. QED
    BY <2>1, <2>2
<1>5. QED
  BY <1>2, <1>4 DEF Fits

\* What a merge with resolutions makes of each conversation: one side's edits
\* are in, and the other side's are in, given up, or those of the base.
Outcome(base, local, remote, x, dropped) ==
    \A t \in Thread :
      \/ /\ local.e[t] \subseteq x.e[t]
         /\ remote.e[t] \subseteq x.e[t] \cup dropped \/ remote.v[t] = base.v[t]
      \/ /\ remote.e[t] \subseteq x.e[t]
         /\ local.e[t] \subseteq x.e[t] \cup dropped \/ local.v[t] = base.v[t]

LEMMA PullOutcome ==
    ASSUME NEW base, NEW local, NEW remote, Conflicting(base, local, remote) = {}
    PROVE  Outcome(base, local, remote, merge_thread_sets(base, local, remote), {})
<1>1. PICK m : m = merge_thread_sets(base, local, remote)
  OBVIOUS
<1>2. ASSUME NEW t \in Thread
      PROVE  /\ m.v[t] \in {local.v[t], remote.v[t]}
             /\ m.v[t] = local.v[t] => local.e[t] \subseteq m.e[t]
             /\ m.v[t] = remote.v[t] => remote.e[t] \subseteq m.e[t]
             /\ m.v[t] # local.v[t] => local.v[t] = base.v[t]
             /\ m.v[t] # remote.v[t] => remote.v[t] = base.v[t]
  BY <1>1, MergedThread
<1>3. QED
  BY <1>1, <1>2 DEF Outcome

LEMMA ResolveOutcome ==
    ASSUME NEW base, NEW local, NEW remote, NEW resolutions,
           Valid(resolutions, Conflicts(base, local, remote))
    PROVE  Outcome(base, local, remote, resolve_thread_sets(base, local, remote, resolutions),
                   GivenUp(local, remote, resolutions))
<1>1. PICK m : m = merge_thread_sets(base, local, remote)
  OBVIOUS
<1>2. PICK x : x = resolve_thread_sets(base, local, remote, resolutions)
  OBVIOUS
<1>3. PICK gone : gone = GivenUp(local, remote, resolutions)
  OBVIOUS
<1> SUFFICES ASSUME NEW t \in Thread
             PROVE  \/ /\ local.e[t] \subseteq x.e[t]
                       /\ remote.e[t] \subseteq x.e[t] \cup gone \/ remote.v[t] = base.v[t]
                    \/ /\ remote.e[t] \subseteq x.e[t]
                       /\ local.e[t] \subseteq x.e[t] \cup gone \/ local.v[t] = base.v[t]
  BY <1>2, <1>3 DEF Outcome
<1>4. CASE t \in Conflicting(base, local, remote)
  <2>1. \/ x.e[t] = local.e[t] /\ remote.e[t] \ local.e[t] \subseteq gone
        \/ x.e[t] = remote.e[t] /\ local.e[t] \ remote.e[t] \subseteq gone
    BY <1>1, <1>2, <1>3, <1>4, ResolvedThread
  <2>2. QED
    BY <2>1
<1>5. CASE t \notin Conflicting(base, local, remote)
  <2>1. x.v[t] = m.v[t] /\ x.e[t] = m.e[t]
    BY <1>1, <1>2, <1>5, ResolvedThread
  <2>2. /\ m.v[t] \in {local.v[t], remote.v[t]}
        /\ m.v[t] = local.v[t] => local.e[t] \subseteq m.e[t]
        /\ m.v[t] = remote.v[t] => remote.e[t] \subseteq m.e[t]
        /\ m.v[t] # local.v[t] => local.v[t] = base.v[t]
        /\ m.v[t] # remote.v[t] => remote.v[t] = base.v[t]
    BY <1>1, <1>5, MergedThread
  <2>3. QED
    BY <2>1, <2>2
<1>6. QED
  BY <1>4, <1>5

\* The tree has the edits of the remote side, because a conversation that the
\* remote side did not change is in the home.
\* Tree x has the edits of the threads of tree y, but for those gone.
Contains(x, y, gone) == \A t \in Thread : y.v[t] # Absent => y.e[t] \subseteq x.e[t] \cup gone

LEMMA OutcomeHolds ==
    ASSUME NEW base, NEW local, NEW remote, NEW x, NEW dropped, NEW origin, NEW gone,
           Outcome(base, local, remote, x, dropped), Fits(base, origin), Fits(remote, origin),
           Contains(local, base, gone)
    PROVE  Contains(x, remote, gone \cup dropped)
<1> SUFFICES ASSUME NEW t \in Thread, remote.v[t] # Absent
             PROVE  remote.e[t] \subseteq x.e[t] \cup gone \cup dropped
  BY DEF Contains
<1>1. CASE local.e[t] \subseteq x.e[t] /\ remote.v[t] = base.v[t]
  <2>1. remote.e[t] = base.e[t] /\ base.v[t] # Absent
    BY <1>1 DEF Fits
  <2>2. QED
    BY <1>1, <2>1 DEF Contains
<1>2. CASE remote.e[t] \subseteq x.e[t] \cup dropped
  BY <1>2
<1>3. QED
  BY <1>1, <1>2 DEF Outcome

\* The checkout job is in place and nothing else has changed.
LEMMA PlanKeeps ==
    ASSUME ClientInv, EditsInv, Evolves, NEW c \in Client, NEW op, NEW n, NEW h, NEW tree,
           NEW dropped, NEW then, StartCheckout(c, CheckoutJob(c, op, n, h, tree, dropped, then)),
           \A origin \in Origins : AllFit(origin) => Fits(tree, origin),
           journal[c] = None => HoldsIn(revs, discarded, tree, Aim(c, op, h), dropped),
           op = "switch" /\ active[c] \notin {None, n} =>
             \A t \in Thread : home[c].v[t] # Absent =>
               \E r \in published : revs[r].tree.v[t] = home[c].v[t],
           op \in {"pull", "resolve", "merge", "remap"} =>
             \A t \in Thread :
               \/ home[c].e[t] \subseteq tree.e[t] \cup discarded \cup dropped
               \/ home[c].v[t] = Absent /\ TreeOf(TrackedHead(c, n)).v[t] = Absent
               \/ DeletedKnowing(revs, discarded \cup dropped, h, home[c].e[t], t)
    PROVE  EditsInv'
<1>1. PICK j : j = CheckoutJob(c, op, n, h, tree, dropped, then)
  OBVIOUS
<1>2. /\ j.step = "checkout" /\ j.op = op /\ j.ns = n /\ j.head = h /\ j.tree = tree
      /\ j.local = home[c] /\ j.dropped = dropped
  BY <1>1 DEF CheckoutJob
<1>3. /\ job' = [job EXCEPT ![c] = j]
      /\ UNCHANGED <<revs, published, home, track, active, journal, used, discarded>>
  BY <1>1 DEF StartCheckout, server
<1>4. job'[c] = j /\ Only(c)
  BY <1>3 DEF ClientInv, Typing, ClientTyping, Only
<1>5. PICK origin \in Origins : AllFit(origin)
  BY DEF EditsInv, Coherent
<1>6. Integrated(c)' = Integrated(c) /\ TreeOf(TrackedHead(c, n))' = TreeOf(TrackedHead(c, n))
  BY <1>3 DEF Integrated, TrackedHead, TreeOf
<1>7. HomeOK(c)' /\ Attached(c)'
  BY <1>3, <1>6, HomeStays DEF EditsInv, Keeping, Attached
<1>8. WorkOK(c)'
  BY <1>2, <1>3, <1>4, <1>6 DEF WorkOK, Holds, Aim
<1>9. PlanOK(c)'
  BY <1>2, <1>3, <1>4, <1>6 DEF PlanOK
<1>10. FitAt(c, origin)'
  BY <1>2, <1>3, <1>4, <1>5 DEF FitAt, AllFit
<1>11. Keeping(c)'
  BY <1>7, <1>8, <1>9 DEF Keeping
<1>12. QED
  BY <1>3, <1>4, <1>5, <1>10, <1>11, KeepsOwn

LEMMA TreeOfFits ==
    ASSUME NEW origin, AllFit(origin), NEW h \in DOMAIN revs \cup {None} PROVE Fits(TreeOf(h), origin)
<1>1. CASE h = None
  BY <1>1 DEF TreeOf, EmptyTree, Fits
<1>2. CASE h # None
  BY <1>2 DEF TreeOf, AllFit
<1>3. QED
  BY <1>1, <1>2

\* A pull or a resolution: what it has of the remote side and of the home.
LEMMA PullKeepsBoth ==
    ASSUME ClientInv, EditsInv, NEW c \in Client, NEW n \in Ns, MayPull(c, n), NEW x, NEW dropped,
           Outcome(PullBase(c, n), home[c], revs[head[n]].tree, x, dropped)
    PROVE  /\ journal[c] = None => HoldsIn(revs, discarded, x, head[n], dropped)
           /\ \A t \in Thread :
               \/ home[c].e[t] \subseteq x.e[t] \cup discarded \cup dropped
               \/ home[c].v[t] = Absent /\ TreeOf(TrackedHead(c, n)).v[t] = Absent
               \/ DeletedKnowing(revs, discarded \cup dropped, head[n], home[c].e[t], t)
<1>1. PICK base : base = PullBase(c, n)
  OBVIOUS
<1>2. PICK local : local = home[c]
  OBVIOUS
<1>3. PICK remote : remote = revs[head[n]].tree
  OBVIOUS
<1>4. PICK b : b = TrackedHead(c, n)
  OBVIOUS
<1>5. /\ head[n] \in DOMAIN revs /\ head[n] # None /\ b \in DOMAIN revs \cup {None}
      /\ base = TreeOf(b) /\ Outcome(base, local, remote, x, dropped)
  BY <1>1, <1>2, <1>3, <1>4, PullMeans, KnownForm DEF PullBase, ClientInv, Typing
<1>6. PICK origin \in Origins : AllFit(origin)
  BY DEF EditsInv, Coherent
<1>7. Fits(base, origin) /\ Fits(local, origin) /\ Fits(remote, origin)
  BY <1>2, <1>3, <1>5, <1>6, TreeOfFits DEF AllFit, FitAt
<1>8. ASSUME journal[c] = None PROVE HoldsIn(revs, discarded, x, head[n], dropped)
  <2>1. Integrated(c) = b
    <3>1. active[c] = n /\ n # None
      BY ClientAssumption DEF MayPull
    <3>2. QED
      BY <1>4, <3>1 DEF Integrated
  <2>2. HoldsIn(revs, discarded, local, b, {})
    BY <1>2, <1>8, <2>1 DEF EditsInv, Keeping, HomeOK, Holds
  <2>3. ASSUME NEW t \in Thread, base.v[t] # Absent
        PROVE  base.e[t] \subseteq local.e[t] \cup discarded
    <3>1. b # None /\ base = revs[b].tree
      BY <1>5, <2>3 DEF TreeOf, EmptyTree
    <3>2. QED
      BY <2>2, <2>3, <3>1 DEF HoldsIn
  <2>4. Contains(local, base, discarded)
    BY <2>3 DEF Contains
  <2>5. Contains(x, remote, discarded \cup dropped)
    BY <1>5, <1>7, <2>4, OutcomeHolds
  <2>6. QED
    BY <1>3, <2>5 DEF HoldsIn, Contains
<1>9. ASSUME NEW t \in Thread
      PROVE  \/ local.e[t] \subseteq x.e[t] \cup discarded \cup dropped
             \/ local.v[t] = Absent /\ base.v[t] = Absent
             \/ DeletedKnowing(revs, discarded \cup dropped, head[n], local.e[t], t)
  <2>1. CASE local.e[t] \subseteq x.e[t] \cup dropped
    BY <2>1
  <2>2. CASE remote.e[t] \subseteq x.e[t] /\ local.v[t] = base.v[t] /\ local.v[t] # Absent
    <3>1. local.e[t] = base.e[t]
      BY <1>7, <2>2 DEF Fits
    <3>2. b # None /\ base = revs[b].tree /\ b \in DOMAIN revs
      BY <1>5, <2>2 DEF TreeOf, EmptyTree
    <3>3. b \in ChainOf(revs, head[n])
      BY <1>4, <3>2, ChainMeans DEF MayPull
    <3>4. Survives(revs[b].tree.e[t], head[n], t)
      BY <1>5, <2>2, <3>2, <3>3, AncestorsSurvive DEF EditsInv
    <3>5. CASE revs[b].tree.e[t] \subseteq revs[head[n]].tree.e[t] \cup discarded
      BY <1>3, <2>2, <3>1, <3>2, <3>5
    <3>6. CASE DeletedKnowing(revs, discarded, head[n], revs[b].tree.e[t], t)
      BY <3>1, <3>2, <3>6 DEF DeletedKnowing
    <3>7. QED
      BY <3>4, <3>5, <3>6 DEF Survives
  <2>3. QED
    BY <1>5, <2>1, <2>2 DEF Outcome
<1>10. QED
  BY <1>1, <1>2, <1>4, <1>5, <1>8, <1>9

LEMMA PullKeeps ==
    ASSUME ClientInv, EditsInv, Evolves, NEW c \in Client, NEW n \in Ns, pull_namespace(c, n)
    PROVE  EditsInv'
<1> DEFINE tree == merge_thread_sets(PullBase(c, n), home[c], revs[head[n]].tree)
<1>1. /\ MayPull(c, n) /\ Conflicting(PullBase(c, n), home[c], revs[head[n]].tree) = {}
      /\ StartCheckout(c, CheckoutJob(c, "pull", n, head[n], tree, {}, "epoch"))
  BY DEF pull_namespace
<1>2. Outcome(PullBase(c, n), home[c], revs[head[n]].tree, tree, {})
  BY <1>1, PullOutcome
<1>3. ASSUME NEW origin \in Origins, AllFit(origin) PROVE Fits(tree, origin)
  <2>1. Fits(home[c], origin) /\ Fits(revs[head[n]].tree, origin)
    BY <1>1, <1>3, PullMeans DEF AllFit, FitAt
  <2>2. QED
    BY <2>1, MergedFits
<1> HIDE DEF tree
<1>4. /\ journal[c] = None => HoldsIn(revs, discarded, tree, head[n], {})
      /\ \A t \in Thread :
               \/ home[c].e[t] \subseteq tree.e[t] \cup discarded \cup {}
               \/ home[c].v[t] = Absent /\ TreeOf(TrackedHead(c, n)).v[t] = Absent
               \/ DeletedKnowing(revs, discarded \cup {}, head[n], home[c].e[t], t)
  BY <1>1, <1>2, PullKeepsBoth
<1>5. Aim(c, "pull", head[n]) = head[n]
  BY DEF Aim
<1>6. QED
  BY <1>1, <1>3, <1>4, <1>5, PlanKeeps

LEMMA ResolveKeeps ==
    ASSUME ClientInv, EditsInv, Evolves, NEW c \in Client, NEW n \in Ns, NEW resolutions,
           resolve_pull_conflicts(c, n, resolutions)
    PROVE  EditsInv'
<1> DEFINE tree == resolve_thread_sets(PullBase(c, n), home[c], revs[head[n]].tree, resolutions)
           gone == GivenUp(home[c], revs[head[n]].tree, resolutions)
<1>1. /\ MayPull(c, n)
      /\ Valid(resolutions, Conflicts(PullBase(c, n), home[c], revs[head[n]].tree))
      /\ StartCheckout(c, CheckoutJob(c, "resolve", n, head[n], tree, gone, "publish"))
  BY DEF resolve_pull_conflicts
<1>2. Outcome(PullBase(c, n), home[c], revs[head[n]].tree, tree, gone)
  BY <1>1, ResolveOutcome
<1>3. ASSUME NEW origin \in Origins, AllFit(origin) PROVE Fits(tree, origin)
  <2>1. Fits(home[c], origin) /\ Fits(revs[head[n]].tree, origin)
    BY <1>1, <1>3, PullMeans DEF AllFit, FitAt
  <2>2. QED
    BY <1>1, <2>1, ResolvedFits
<1> HIDE DEF tree, gone
<1>4. /\ journal[c] = None => HoldsIn(revs, discarded, tree, head[n], gone)
      /\ \A t \in Thread :
               \/ home[c].e[t] \subseteq tree.e[t] \cup discarded \cup gone
               \/ home[c].v[t] = Absent /\ TreeOf(TrackedHead(c, n)).v[t] = Absent
               \/ DeletedKnowing(revs, discarded \cup gone, head[n], home[c].e[t], t)
  BY <1>1, <1>2, PullKeepsBoth
<1>5. Aim(c, "resolve", head[n]) = head[n]
  BY DEF Aim
<1>6. QED
  BY <1>1, <1>3, <1>4, <1>5, PlanKeeps

\* The first attachment merges with nothing in common.
LEMMA MergeKeepsBoth ==
    ASSUME ClientInv, EditsInv, NEW c \in Client, NEW n \in Ns, MayMerge(c, n), NEW x, NEW dropped,
           Outcome(EmptyTree, home[c], revs[head[n]].tree, x, dropped)
    PROVE  /\ HoldsIn(revs, discarded, x, head[n], dropped)
           /\ \A t \in Thread :
               \/ home[c].e[t] \subseteq x.e[t] \cup discarded \cup dropped
               \/ home[c].v[t] = Absent /\ TreeOf(TrackedHead(c, n)).v[t] = Absent
<1>1. PICK local : local = home[c]
  OBVIOUS
<1>2. PICK remote : remote = revs[head[n]].tree
  OBVIOUS
<1>3. \A t \in Thread : EmptyTree.v[t] = Absent
  BY DEF EmptyTree
<1>4. TreeOf(TrackedHead(c, n)) = EmptyTree
  BY DEF MayMerge, TrackedHead, TreeOf
<1>5. ASSUME NEW t \in Thread
      PROVE  \/ /\ local.e[t] \subseteq x.e[t]
                /\ remote.e[t] \subseteq x.e[t] \cup dropped \/ remote.v[t] = Absent
             \/ /\ remote.e[t] \subseteq x.e[t]
                /\ local.e[t] \subseteq x.e[t] \cup dropped \/ local.v[t] = Absent
  BY <1>1, <1>2, <1>3 DEF Outcome
<1>6. \A t \in Thread : remote.v[t] # Absent => remote.e[t] \subseteq x.e[t] \cup discarded \cup dropped
  BY <1>5
<1>7. \A t \in Thread : \/ local.e[t] \subseteq x.e[t] \cup discarded \cup dropped
                        \/ local.v[t] = Absent
  BY <1>5
<1>8. QED
  BY <1>1, <1>2, <1>3, <1>4, <1>6, <1>7 DEF HoldsIn

LEMMA MergeKeeps ==
    ASSUME ClientInv, EditsInv, Evolves, NEW c \in Client, NEW n \in Ns, NEW resolutions,
           apply_initial_namespace_merge(c, n, resolutions)
    PROVE  EditsInv'
<1> DEFINE tree == resolve_thread_sets(EmptyTree, home[c], revs[head[n]].tree, resolutions)
           gone == GivenUp(home[c], revs[head[n]].tree, resolutions)
<1>1. /\ MayMerge(c, n)
      /\ Valid(resolutions, Conflicts(EmptyTree, home[c], revs[head[n]].tree))
      /\ StartCheckout(c, CheckoutJob(c, "merge", n, head[n], tree, gone, "epoch"))
  BY DEF apply_initial_namespace_merge
<1>2. Outcome(EmptyTree, home[c], revs[head[n]].tree, tree, gone)
  BY <1>1, ResolveOutcome
<1>3. ASSUME NEW origin \in Origins, AllFit(origin) PROVE Fits(tree, origin)
  <2>1. Fits(home[c], origin) /\ Fits(revs[head[n]].tree, origin)
    BY <1>1, <1>3, MergeMeans DEF AllFit, FitAt
  <2>2. QED
    BY <1>1, <2>1, ResolvedFits
<1> HIDE DEF tree, gone
<1>4. /\ HoldsIn(revs, discarded, tree, head[n], gone)
      /\ \A t \in Thread :
               \/ home[c].e[t] \subseteq tree.e[t] \cup discarded \cup gone
               \/ home[c].v[t] = Absent /\ TreeOf(TrackedHead(c, n)).v[t] = Absent
  BY <1>1, <1>2, MergeKeepsBoth
<1>5. Aim(c, "merge", head[n]) = head[n]
  BY DEF Aim
<1>6. QED
  BY <1>1, <1>3, <1>4, <1>5, PlanKeeps

\* A switch leaves a namespace whose revision is in the home.
LEMMA SwitchKeeps ==
    ASSUME ClientInv, EditsInv, Evolves, NEW c \in Client, NEW n \in Ns, switch_namespace(c, n)
    PROVE  EditsInv'
<1> DEFINE tree == TreeOf(head[n])
<1>1. /\ ActiveClean(c, n)
      /\ StartCheckout(c, CheckoutJob(c, "switch", n, head[n], tree, {}, "epoch"))
  BY DEF switch_namespace
<1>2. head[n] \in DOMAIN revs \cup {None}
  BY HeadIsAhead, KnownForm DEF ClientInv, Typing
<1>3. \A origin \in Origins : AllFit(origin) => Fits(tree, origin)
  BY <1>2, TreeOfFits
<1>4. HoldsIn(revs, discarded, tree, head[n], {})
  BY DEF HoldsIn, TreeOf
<1> HIDE DEF tree
<1>5. ASSUME active[c] \notin {None, n}, NEW t \in Thread, home[c].v[t] # Absent
      PROVE  \E r \in published : revs[r].tree.v[t] = home[c].v[t]
  <2>1. PICK h : h = TrackedHead(c, active[c])
    OBVIOUS
  <2>2. home[c].v[t] = TreeOf(h).v[t]
    BY <1>1, <1>5, <2>1 DEF ActiveClean, thread_states_equal, Same
  <2>3. h # None
    BY <1>5, <2>2 DEF TreeOf, EmptyTree
  <2>4. h \in Known
    BY <1>5, <2>1 DEF ClientInv, Typing, ClientTyping, Following, RecordOK, TrackedHead, Known
  <2>5. QED
    BY <2>2, <2>3, <2>4 DEF Known, TreeOf
<1>6. Aim(c, "switch", head[n]) = head[n]
  BY DEF Aim
<1>7. QED
  BY <1>1, <1>3, <1>4, <1>5, <1>6, PlanKeeps

\* A restore gives up what the home has and the chosen revision has not.
LEMMA RestoreKeeps ==
    ASSUME ClientInv, EditsInv, Evolves, NEW c \in Client, NEW n \in Ns, NEW r \in published,
           NEW then, restore_remote_revision(c, n, r, then)
    PROVE  EditsInv'
<1>1. PICK tree : tree = revs[r].tree
  OBVIOUS
<1>2. PICK gone : gone = EditsLacking(tree, home[c]) \cup EditsLacking(tree, revs[head[n]].tree)
  OBVIOUS
<1>3. StartCheckout(c, CheckoutJob(c, "restore", n, head[n], tree, gone, then))
  BY <1>1, <1>2 DEF restore_remote_revision
<1>4. \A origin \in Origins : AllFit(origin) => Fits(tree, origin)
  BY <1>1, RevisionForm DEF AllFit, ClientInv, Typing, ServerTyping
<1>5. \A t \in Thread : home[c].e[t] \subseteq tree.e[t] \cup gone
  BY <1>2 DEF EditsLacking
<1>6. ASSUME journal[c] = None PROVE HoldsIn(revs, discarded, tree, Integrated(c), gone)
  <2>1. HoldsIn(revs, discarded, home[c], Integrated(c), {})
    BY <1>6 DEF EditsInv, Keeping, HomeOK, Holds
  <2>2. QED
    BY <1>5, <2>1 DEF HoldsIn
<1>7. Aim(c, "restore", head[n]) = Integrated(c)
  BY DEF Aim
<1>8. QED
  BY <1>3, <1>4, <1>6, <1>7, PlanKeeps

LEMMA RemapKeeps ==
    ASSUME ClientInv, EditsInv, Evolves, NEW c \in Client, NEW n \in Ns,
           reapply_workspace_mappings(c, n)
    PROVE  EditsInv'
<1>1. PICK tree : tree = home[c]
  OBVIOUS
<1>2. PICK h : h = TrackedHead(c, n)
  OBVIOUS
<1>3. /\ active[c] = n /\ n # None
      /\ StartCheckout(c, CheckoutJob(c, "remap", n, h, tree, {}, "done"))
  BY <1>1, <1>2, ClientAssumption DEF reapply_workspace_mappings
<1>4. \A origin \in Origins : AllFit(origin) => Fits(tree, origin)
  BY <1>1 DEF AllFit, FitAt
<1>5. Integrated(c) = h
  BY <1>2, <1>3 DEF Integrated
<1>6. journal[c] = None => HoldsIn(revs, discarded, tree, h, {})
  BY <1>1, <1>5 DEF EditsInv, Keeping, HomeOK, Holds
<1>7. Aim(c, "remap", h) = h
  BY DEF Aim
<1>8. QED
  BY <1>1, <1>3, <1>4, <1>6, <1>7, PlanKeeps

----------------------------------------------------------------------------
(* Every step keeps what is known of the edits, if no push starts from a   *)
(* home whose checkout is unfinished.                                      *)

LEMMA ProceedKeeps ==
    ASSUME ClientInv, EditsInv, Evolves, NEW c \in Client, Proceed(c) PROVE EditsInv'
<1>1. ASSUME Rejected(c) \/ PublishRefused(c) \/ RefuseCheckout(c) PROVE EditsInv'
  <2>1. /\ revs' = revs /\ UNCHANGED <<home, track, active, journal>>
        /\ job' = [job EXCEPT ![c] = Idle]
    BY <1>1 DEF Rejected, PublishRefused, RefuseCheckout, server
  <2>2. QED
    BY <2>1, GivesUpKeeps
<1>2. QED
  BY <1>1, CommittedKeeps, LookUpKeeps, RecordPushKeeps, EpochKeeps, ApplyHomeKeeps,
     ApplyRecordKeeps, RecoverKeeps DEF Proceed

LEMMA SynchroniseKeeps ==
    ASSUME ~UnrecoveredPush, ClientInv, EditsInv, Evolves, NEW c \in Client, NEW n \in Ns,
           Synchronise(c, n)
    PROVE  EditsInv'
<1>1. ASSUME ShowConflicts(c, n) \/ prepare_initial_namespace_merge(c, n) PROVE EditsInv'
  <2>1. revs' = revs /\ UNCHANGED <<home, track, active, journal, job>>
    BY <1>1 DEF ShowConflicts, prepare_initial_namespace_merge, server
  <2>2. QED
    BY <2>1, KeepsServer
<1>2. QED
  BY <1>1, PushNothingKeeps, PushKeeps, PullKeeps, ResolveKeeps, MergeKeeps DEF Synchronise

LEMMA OtherKeeps ==
    ASSUME ~UnrecoveredPush, ClientInv, EditsInv, Evolves, NEW c \in Client, NEW n \in Ns,
           Other(c, n)
    PROVE  EditsInv'
  BY StagedKeeps, SwitchKeeps, RestoreKeeps, RemapKeeps DEF Other

LEMMA EditsNext ==
    ASSUME ~UnrecoveredPush, ClientInv, EditsInv, [Next]_vars PROVE EditsInv'
<1>1. CASE UNCHANGED vars
  <2>1. Quiet /\ UNCHANGED <<discarded, home, track, active, journal, job>>
    BY <1>1 DEF vars, server, counters, Quiet
  <2>2. Evolves /\ revs' = revs
    BY <2>1, NoChange DEF Quiet
  <2>3. QED
    BY <2>1, <2>2, KeepsServer
<1>2. CASE Next
  <2>1. Evolves
    BY <1>2, NextStep
  <2>2. QED
    BY <1>2, <2>1, EditKeeps, RewriteKeeps, CommitLateKeeps, ProceedKeeps, SynchroniseKeeps,
       OtherKeeps, AnswerLostKeeps, CrashKeeps DEF Next
<1>3. QED
  BY <1>1, <1>2

LEMMA EditsInit == Init => EditsInv
<1> SUFFICES ASSUME Init PROVE EditsInv
  OBVIOUS
<1>1. /\ DOMAIN revs = {} /\ \A c \in Client : home[c] = EmptyTree
      /\ \A c \in Client : job[c].step = "idle" /\ journal[c] = None /\ active[c] = None
      /\ \A c \in Client : \A n \in Ns : track[c][n] = None
  BY DEF Init, Idle
<1>2. Coherent
  <2> DEFINE origin == [t \in Thread |-> [x \in Edit |-> {}]]
  <2>1. origin \in Origins
    BY DEF Origins
  <2> HIDE DEF origin
  <2>2. Fits(EmptyTree, origin)
    BY DEF Fits, EmptyTree
  <2>3. AllFit(origin)
    BY <1>1, <2>2 DEF AllFit, FitAt
  <2>4. QED
    BY <2>1, <2>3 DEF Coherent
<1>3. Lineage
  BY <1>1 DEF Lineage
<1>4. ASSUME NEW c \in Client PROVE Keeping(c)
  <2>1. Integrated(c) = None
    BY <1>1 DEF Integrated
  <2>2. QED
    BY <1>1, <2>1 DEF Keeping, Attached, HomeOK, WorkOK, PlanOK, Holds, HoldsIn
<1>5. QED
  BY <1>2, <1>3, <1>4 DEF EditsInv

\* Where the edits are: equal copies have the same edits behind them, every
\* revision has those of its parent, a home has those of the revision that it
\* integrated, and a planned checkout keeps the home's, in every reachable state
\* of clients that push only from homes without an unfinished checkout.
THEOREM EditsInvariant == ASSUME ~UnrecoveredPush PROVE Spec => []EditsInv
<1>1. ClientInv /\ EditsInv /\ [Next]_vars => EditsInv'
  BY EditsNext
<1>2. QED
  BY <1>1, ClientInvariant, EditsInit, PTL DEF Spec

LEMMA EditsInvMeans == ClientInv /\ EditsInv => HistoryKeepsEdits /\ IntegratedIsInHome
<1> SUFFICES ASSUME ClientInv, EditsInv PROVE HistoryKeepsEdits /\ IntegratedIsInHome
  OBVIOUS
<1>1. HistoryKeepsEdits
  <2> SUFFICES ASSUME NEW r \in published, revs[r].parent # None, NEW t \in Thread
               PROVE  Keeps(revs[r].tree, revs[revs[r].parent].tree, t)
    BY DEF HistoryKeepsEdits
  <2>1. HoldsIn(revs, discarded, revs[r].tree, revs[r].parent, {})
    BY DEF EditsInv, Lineage, Holds, ClientInv, Typing, ServerTyping
  <2>2. QED
    BY <2>1 DEF HoldsIn, Keeps
<1>2. IntegratedIsInHome
  <2> SUFFICES ASSUME NEW c \in Client, journal[c] = None, active[c] # None,
                      TrackedHead(c, active[c]) # None, NEW t \in Thread
               PROVE  Keeps(home[c], revs[TrackedHead(c, active[c])].tree, t)
    BY DEF IntegratedIsInHome
  <2>1. HoldsIn(revs, discarded, home[c], TrackedHead(c, active[c]), {})
    BY DEF EditsInv, Keeping, HomeOK, Holds, Integrated
  <2>2. QED
    BY <2>1 DEF HoldsIn, Keeps
<1>3. QED
  BY <1>1, <1>2

\* No push by a client that did not know of an edit removes it from the history:
\* push and staged push (remote_sync.rs) build on the head that was integrated.
THEOREM HistoryNeverLosesEdits == ASSUME ~UnrecoveredPush PROVE Spec => []HistoryKeepsEdits
<1>1. ClientInv /\ EditsInv => HistoryKeepsEdits
  BY EditsInvMeans
<1>2. QED
  BY <1>1, ClientInvariant, EditsInvariant, PTL

\* A settled home has everything of the revision that its record names, so no
\* later merge or push takes a gap for the user's deletion.
THEOREM HomesHaveWhatTheyIntegrated ==
    ASSUME ~UnrecoveredPush PROVE Spec => []IntegratedIsInHome
<1>1. ClientInv /\ EditsInv => IntegratedIsInHome
  BY EditsInvMeans
<1>2. QED
  BY <1>1, ClientInvariant, EditsInvariant, PTL

----------------------------------------------------------------------------
(* The step that installs a tree.                                          *)

\* A step of another job, or one that no checkout takes.
Elsewhere(c) == \E d, next : /\ job' = [job EXCEPT ![d] = next]
                             /\ d = c => next.step # "applied" \/ job[c].step # "checkout"

LEMMA ElsewhereMeans ==
    ASSUME ClientInv, NEW c \in Client, Elsewhere(c), job[c].step = "checkout"
    PROVE  job'[c].step # "applied"
<1>1. PICK d, next : /\ job' = [job EXCEPT ![d] = next]
                     /\ d = c => next.step # "applied" \/ job[c].step # "checkout"
  BY DEF Elsewhere
<1>2. c \in DOMAIN job
  BY DEF ClientInv, Typing, ClientTyping
<1>3. QED
  BY <1>1, <1>2

LEMMA PlansElsewhere ==
    ASSUME NEW c \in Client, NEW d \in Client, NEW n \in Ns
    PROVE  /\ PushNothing(d, n) => Elsewhere(c)
           /\ push_namespace(d, n) => Elsewhere(c)
           /\ \A staged : push_staged_namespace(d, n, staged) => Elsewhere(c)
           /\ \A op, h, tree, dropped, then :
                job[d] = Idle /\ StartCheckout(d, CheckoutJob(d, op, n, h, tree, dropped, then))
                  => Elsewhere(c)
<1>1. ASSUME MayPush(d, n) \/ job[d] = Idle, NEW next, job' = [job EXCEPT ![d] = next]
      PROVE  Elsewhere(c)
  <2>1. job[d].step # "checkout"
    BY <1>1 DEF MayPush, Idle
  <2>2. QED
    BY <1>1, <2>1 DEF Elsewhere
<1>2. PushNothing(d, n) => Elsewhere(c)
  BY <1>1 DEF PushNothing
<1>3. push_namespace(d, n) => Elsewhere(c)
  BY <1>1 DEF push_namespace
<1>4. ASSUME NEW staged, push_staged_namespace(d, n, staged) PROVE Elsewhere(c)
  BY <1>1, <1>4 DEF push_staged_namespace
<1>5. ASSUME NEW op, NEW h, NEW tree, NEW dropped, NEW then, job[d] = Idle,
             StartCheckout(d, CheckoutJob(d, op, n, h, tree, dropped, then))
      PROVE  Elsewhere(c)
  BY <1>1, <1>5 DEF StartCheckout
<1>6. QED
  BY <1>2, <1>3, <1>4, <1>5

LEMMA OnlyApplies ==
    ASSUME ClientInv, NEW c \in Client, Next, job[c].step = "checkout", job'[c].step = "applied"
    PROVE  ApplyHome(c)
<1>1. ~Elsewhere(c) /\ job' # job
  BY ElsewhereMeans
<1>2. ASSUME NEW d \in Client, job' = [job EXCEPT ![d] = Idle] PROVE FALSE
  <2>1. Idle.step # "applied"
    BY DEF Idle
  <2>2. QED
    BY <1>1, <1>2, <2>1 DEF Elsewhere
<1>3. ASSUME NEW d \in Client, Proceed(d) PROVE ApplyHome(c)
  <2>1. CASE ApplyHome(d)
    BY <1>1, <2>1 DEF ApplyHome, Elsewhere
  <2>2. CASE Rejected(d) \/ update_remote_epoch(d) \/ PublishRefused(d) \/ RefuseCheckout(d)
    BY <1>2, <2>2 DEF Rejected, update_remote_epoch, PublishRefused, RefuseCheckout
  <2>3. CASE Recover(d)
    BY <1>1, <2>3 DEF Recover
  <2>4. CASE Committed(d) \/ LookUpHead(d) \/ RecordPush(d) \/ ApplyRecord(d)
    <3>1. job[d].step # "checkout" /\ \E next : job' = [job EXCEPT ![d] = next]
      BY <2>4 DEF Committed, LookUpHead, RecordPush, ApplyRecord
    <3>2. QED
      BY <1>1, <3>1 DEF Elsewhere
  <2>5. QED
    BY <1>3, <2>1, <2>2, <2>3, <2>4 DEF Proceed
<1>4. ASSUME NEW d \in Client, NEW n \in Ns, Synchronise(d, n) PROVE FALSE
  <2>1. CASE ShowConflicts(d, n) \/ prepare_initial_namespace_merge(d, n)
    BY <1>1, <2>1 DEF ShowConflicts, prepare_initial_namespace_merge
  <2>2. CASE pull_namespace(d, n)
    BY <1>1, <2>2, PlansElsewhere DEF pull_namespace, MayPull
  <2>3. ASSUME NEW resolutions, resolve_pull_conflicts(d, n, resolutions) PROVE FALSE
    BY <1>1, <2>3, PlansElsewhere DEF resolve_pull_conflicts, MayPull
  <2>4. ASSUME NEW resolutions, apply_initial_namespace_merge(d, n, resolutions) PROVE FALSE
    BY <1>1, <2>4, PlansElsewhere DEF apply_initial_namespace_merge, MayMerge
  <2>5. QED
    BY <1>1, <1>4, <2>1, <2>2, <2>3, <2>4, PlansElsewhere DEF Synchronise
<1>5. ASSUME NEW d \in Client, NEW n \in Ns, Other(d, n) PROVE FALSE
  <2>1. CASE switch_namespace(d, n)
    BY <1>1, <2>1, PlansElsewhere DEF switch_namespace
  <2>2. ASSUME NEW r, NEW then, restore_remote_revision(d, n, r, then) PROVE FALSE
    BY <1>1, <2>2, PlansElsewhere DEF restore_remote_revision
  <2>3. CASE reapply_workspace_mappings(d, n)
    BY <1>1, <2>3, PlansElsewhere DEF reapply_workspace_mappings
  <2>4. QED
    BY <1>1, <1>5, <2>1, <2>2, <2>3, PlansElsewhere DEF Other
<1>6. ASSUME NEW d \in Client, AnswerLost(d) PROVE FALSE
  <2>1. job[d].step # "checkout" /\ \E next : job' = [job EXCEPT ![d] = next]
    BY <1>6 DEF AnswerLost
  <2>2. QED
    BY <1>1, <2>1 DEF Elsewhere
<1>7. ASSUME NEW d \in Client, Crash(d) PROVE FALSE
  BY <1>2, <1>7 DEF Crash
<1>8. ASSUME NEW d \in Client, NEW t \in Thread, EditThread(d, t) PROVE FALSE
  BY <1>1, <1>8 DEF EditThread
<1>9. ASSUME NEW n \in Ns, NEW h, RewriteHistory(n, h) PROVE FALSE
  BY <1>1, <1>9 DEF RewriteHistory
<1>10. ASSUME NEW k \in delayed, CommitLate(k) PROVE FALSE
  BY <1>1, <1>10 DEF CommitLate
<1>11. QED
  BY <1>3, <1>4, <1>5, <1>6, <1>7, <1>8, <1>9, <1>10 DEF Next

\* What LocalWorkKept says of one step.
WorkKept ==
    \A c \in Client : job[c].step = "checkout" /\ job'[c].step = "applied" =>
        LET j == job[c] IN
        \/ j.op = "restore"
        \/ j.op = "switch" /\ active[c] \in {None, j.ns}
        \/ j.op = "switch" /\ \A t \in Thread : j.local.v[t] # Absent =>
                \E r \in published : revs[r].tree.v[t] = j.local.v[t]
        \/ \A t \in Thread :
             \/ j.local.e[t] \subseteq home'[c].e[t] \cup discarded'
             \/ j.local.v[t] = Absent /\ TreeOf(TrackedHead(c, j.ns)).v[t] = Absent
             \/ \E d \in Chain(j.head) : /\ revs[d].tree.v[t] = Absent
                                        /\ j.local.e[t] \subseteq revs[d].tree.e[t] \cup discarded'

LEMMA WorkIsKept == ASSUME ClientInv, EditsInv, Next PROVE WorkKept
<1> SUFFICES ASSUME NEW c \in Client, job[c].step = "checkout", job'[c].step = "applied",
                    NEW j, j = job[c]
             PROVE  \/ j.op = "restore"
                    \/ j.op = "switch" /\ active[c] \in {None, j.ns}
                    \/ j.op = "switch" /\ \A t \in Thread : j.local.v[t] # Absent =>
                          \E r \in published : revs[r].tree.v[t] = j.local.v[t]
                    \/ \A t \in Thread :
                        \/ j.local.e[t] \subseteq home'[c].e[t] \cup discarded'
                        \/ j.local.v[t] = Absent /\ TreeOf(TrackedHead(c, j.ns)).v[t] = Absent
                        \/ \E d \in Chain(j.head) :
                             /\ revs[d].tree.v[t] = Absent
                             /\ j.local.e[t] \subseteq revs[d].tree.e[t] \cup discarded'
  BY DEF WorkKept
<1>1. ApplyHome(c)
  BY OnlyApplies
<1>2. home'[c] = j.tree /\ discarded' = discarded \cup j.dropped
  BY <1>1 DEF ApplyHome, ClientInv, Typing, ClientTyping
<1>3. j.op \in {"pull", "resolve", "merge", "switch", "restore", "remap"}
  <2>1. JobForm(used, j)
    BY JobForms DEF ClientInv, Typing, ClientTyping
  <2>2. QED
    BY <2>1 DEF JobForm, CheckoutJobs, Ops
<1>4. CASE j.op = "switch"
  BY <1>4 DEF EditsInv, Keeping, PlanOK
<1>5. CASE j.op \in {"pull", "resolve", "merge", "remap"}
  <2> SUFFICES ASSUME NEW t \in Thread
               PROVE  \/ j.local.e[t] \subseteq home'[c].e[t] \cup discarded'
                      \/ j.local.v[t] = Absent /\ TreeOf(TrackedHead(c, j.ns)).v[t] = Absent
                      \/ \E d \in Chain(j.head) :
                           /\ revs[d].tree.v[t] = Absent
                           /\ j.local.e[t] \subseteq revs[d].tree.e[t] \cup discarded'
    OBVIOUS
  <2>1. \/ j.local.e[t] \subseteq j.tree.e[t] \cup discarded \cup j.dropped
        \/ j.local.v[t] = Absent /\ TreeOf(TrackedHead(c, j.ns)).v[t] = Absent
        \/ DeletedKnowing(revs, discarded \cup j.dropped, j.head, j.local.e[t], t)
    BY <1>5 DEF EditsInv, Keeping, PlanOK
  <2>2. ASSUME DeletedKnowing(revs, discarded \cup j.dropped, j.head, j.local.e[t], t)
        PROVE  \E d \in Chain(j.head) : /\ revs[d].tree.v[t] = Absent
                                        /\ j.local.e[t] \subseteq revs[d].tree.e[t] \cup discarded'
    BY <1>2, <2>2, ChainMeans DEF DeletedKnowing
  <2>3. QED
    BY <1>2, <2>1, <2>2
<1>6. QED
  BY <1>3, <1>4, <1>5

\* A checkout keeps every edit that was in the home it was planned from, but for
\* those its user gave up or a revision deleted knowing them.
THEOREM CheckoutsKeepLocalWork == ASSUME ~UnrecoveredPush PROVE Spec => LocalWorkKept
<1>1. ClientInv /\ EditsInv /\ [Next]_vars => [WorkKept]_vars
  BY WorkIsKept
<1>2. QED
  BY <1>1, ClientInvariant, EditsInvariant, PTL DEF Spec, LocalWorkKept, WorkKept

----------------------------------------------------------------------------
(* Copies of conversations and what the screens show of them.              *)

Informed(base, local, remote, tree, known) ==
    \A t \in Conflicting(base, local, remote) : \A side \in {local, remote} :
        side.v[t] # Absent => side.e[t] \ tree.e[t] \subseteq known
MergeBase(c, j) == IF j.op = "merge" THEN EmptyTree ELSE TreeOf(TrackedHead(c, j.ns))
ChoiceOK(c) ==
    LET j == job[c] IN
    j.step = "checkout" /\ j.op \in {"resolve", "merge"} =>
        /\ j.head \in DOMAIN revs
        /\ Informed(MergeBase(c, j), j.local, revs[j.head].tree, j.tree, seen[c])

\* The edits behind the versions on a screen are those that the client has seen.
Displayed(versions, t, u, origin, known) ==
    \A v \in versions : v # Absent => v \in u /\ origin[t][v] \subseteq known
ScreenFits(c, origin) ==
    \A k \in shown[c] : /\ k.thread \in Thread
                        /\ Displayed({k.local, k.remote}, k.thread, used, origin, seen[c])
Screens == DOMAIN shown = Client /\ DOMAIN seen = Client
CopiesInv ==
    /\ Screens
    /\ \E origin \in Origins : AllFit(origin) /\ \A c \in Client : ScreenFits(c, origin)
    /\ \A c \in Client : ChoiceOK(c)

ScreenSame(d) == shown'[d] = shown[d] /\ seen'[d] = seen[d]
ScreenKept(c) == /\ Screens'
                 /\ ScreenSame(c) \/ shown'[c] = {}
                 /\ \A d \in Client : d # c => ScreenSame(d)

LEMMA ScreensKept ==
    ASSUME Screens, NEW c \in Client, UNCHANGED screen \/ ClearScreen(c)
    PROVE  ScreenKept(c)
  BY DEF Screens, ScreenKept, ScreenSame, screen, ClearScreen

LEMMA ScreenStays ==
    ASSUME NEW d, NEW origin, ScreenFits(d, origin), Evolves, ScreenSame(d) \/ shown'[d] = {}
    PROVE  ScreenFits(d, origin)'
<1>1. CASE shown'[d] = {}
  BY <1>1 DEF ScreenFits
<1>2. CASE ScreenSame(d)
  <2>1. used \subseteq used'
    BY DEF Evolves
  <2>2. ASSUME NEW k \in shown[d]
        PROVE  /\ k.thread \in Thread
               /\ Displayed({k.local, k.remote}, k.thread, used', origin, seen[d])
    BY <2>1 DEF ScreenFits, Displayed
  <2>3. QED
    BY <1>2, <2>2 DEF ScreenFits, ScreenSame
<1>3. QED
  BY <1>1, <1>2

LEMMA ChoiceStays ==
    ASSUME ClientInv, Evolves, NEW d \in Client, ChoiceOK(d), Untouched(d), seen'[d] = seen[d]
    PROVE  ChoiceOK(d)'
<1>1. PICK j : j = job[d]
  OBVIOUS
<1>2. SUFFICES ASSUME j.step = "checkout", j.op \in {"resolve", "merge"}
               PROVE  /\ j.head \in DOMAIN revs'
                      /\ Informed(MergeBase(d, j)', j.local, revs'[j.head].tree, j.tree, seen[d])
  BY <1>1 DEF ChoiceOK, Untouched, MergeBase
<1>3. j.head \in DOMAIN revs /\ Informed(MergeBase(d, j), j.local, revs[j.head].tree, j.tree, seen[d])
  BY <1>1, <1>2 DEF ChoiceOK
<1>4. PICK h : h = TrackedHead(d, j.ns)
  OBVIOUS
<1>5. TrackedHead(d, j.ns)' = h
  BY <1>4 DEF TrackedHead, Untouched
<1>6. j.ns \in Ns
  BY <1>1, <1>2, JobMeans DEF Reads
<1>7. h \in DOMAIN revs \cup {None}
  <2>1. h \in Known
    BY <1>4, <1>6 DEF ClientInv, Following, RecordOK, TrackedHead, Known
  <2>2. QED
    BY <2>1, KnownForm DEF ClientInv, Typing
<1>8. MergeBase(d, j)' = MergeBase(d, j)
  BY <1>4, <1>5, <1>7 DEF MergeBase, TreeOf, Evolves, Extends
<1>9. j.head \in DOMAIN revs' /\ revs'[j.head] = revs[j.head]
  BY <1>3 DEF Evolves, Extends
<1>10. QED
  BY <1>3, <1>8, <1>9

\* A step of client c that builds no revision.
LEMMA CopiesOwn ==
    ASSUME ClientInv, CopiesInv, Evolves, NEW c \in Client, Only(c), DOMAIN revs' = DOMAIN revs,
           ScreenKept(c), ChoiceOK(c)',
           \A origin \in Origins : AllFit(origin) => FitAt(c, origin)'
    PROVE  CopiesInv'
<1>1. PICK origin \in Origins : AllFit(origin) /\ \A d \in Client : ScreenFits(d, origin)
  BY DEF CopiesInv
<1>2. ASSUME NEW d \in Client, d # c PROVE FitAt(d, origin)' /\ ChoiceOK(d)'
  <2>1. Untouched(d) /\ ScreenSame(d)
    BY <1>2, OthersUntouched DEF ClientInv, Typing, ScreenKept
  <2>2. FitAt(d, origin)'
    BY <1>1, <2>1 DEF AllFit, FitAt, Untouched
  <2>3. QED
    BY <2>1, <2>2, ChoiceStays DEF CopiesInv, ScreenSame
<1>3. \A d \in Client : ScreenFits(d, origin)'
  BY <1>1, ScreenStays DEF ScreenKept
<1>4. \A i \in DOMAIN revs' : Fits(revs'[i].tree, origin)
  BY <1>1 DEF Evolves, Extends, AllFit
<1>5. AllFit(origin)'
  BY <1>1, <1>2, <1>4 DEF AllFit
<1>6. QED
  BY <1>1, <1>2, <1>3, <1>5 DEF CopiesInv, ScreenKept

\* A step that plans no checkout.
LEMMA CopiesRest ==
    ASSUME ClientInv, CopiesInv, Evolves, NEW c \in Client, Only(c), DOMAIN revs' = DOMAIN revs,
           UNCHANGED screen \/ ClearScreen(c), job'[c].step # "checkout",
           \A origin \in Origins : AllFit(origin) => Fits(home'[c], origin),
           \/ journal'[c] = None \/ journal'[c] = journal[c]
           \/ journal'[c].status # "torn" \/ journal'[c].backup = home[c]
    PROVE  CopiesInv'
<1>1. ScreenKept(c)
  BY ScreensKept DEF CopiesInv
<1>2. ASSUME NEW origin \in Origins, AllFit(origin) PROVE FitAt(c, origin)'
  BY <1>2 DEF AllFit, FitAt
<1>3. ChoiceOK(c)'
  BY DEF ChoiceOK
<1>4. QED
  BY <1>1, <1>2, <1>3, CopiesOwn

\* The home stays, and the journal stays or is closed.
LEMMA CopiesJob ==
    ASSUME ClientInv, CopiesInv, Evolves, NEW c \in Client, NEW next, next.step # "checkout",
           job' = [job EXCEPT ![c] = next], UNCHANGED <<home, screen>>, DOMAIN revs' = DOMAIN revs,
           track' = [track EXCEPT ![c] = track'[c]], active' = [active EXCEPT ![c] = active'[c]],
           journal' = journal \/ journal' = [journal EXCEPT ![c] = None]
    PROVE  CopiesInv'
<1>1. /\ job'[c] = next /\ home'[c] = home[c] /\ Only(c)
      /\ journal'[c] = journal[c] \/ journal'[c] = None
  BY DEF ClientInv, Typing, ClientTyping, Only
<1>2. \A origin \in Origins : AllFit(origin) => Fits(home'[c], origin)
  BY <1>1 DEF AllFit, FitAt
<1>3. QED
  BY <1>1, <1>2, CopiesRest

LEMMA CopiesServer ==
    ASSUME ClientInv, CopiesInv, Evolves, UNCHANGED <<home, track, active, journal, job, shown, seen>>,
           DOMAIN revs' = DOMAIN revs
    PROVE  CopiesInv'
<1>1. PICK origin \in Origins : AllFit(origin) /\ \A d \in Client : ScreenFits(d, origin)
  BY DEF CopiesInv
<1>2. ASSUME NEW d \in Client PROVE FitAt(d, origin)' /\ ScreenFits(d, origin)' /\ ChoiceOK(d)'
  <2>1. Untouched(d) /\ ScreenSame(d)
    BY DEF Untouched, ScreenSame
  <2>2. FitAt(d, origin)'
    BY <1>1, <2>1 DEF AllFit, FitAt, Untouched
  <2>3. QED
    BY <1>1, <2>1, <2>2, ChoiceStays, ScreenStays DEF CopiesInv, ScreenSame
<1>3. \A i \in DOMAIN revs' : Fits(revs'[i].tree, origin)
  BY <1>1 DEF Evolves, Extends, AllFit
<1>4. AllFit(origin)'
  BY <1>2, <1>3 DEF AllFit
<1>5. QED
  BY <1>1, <1>2, <1>4 DEF CopiesInv, Screens

LEMMA AnswersCopy ==
    ASSUME ClientInv, CopiesInv, Evolves, NEW c \in Client,
           \/ Committed(c) \/ Rejected(c) \/ LookUpHead(c) \/ AnswerLost(c)
           \/ PublishRefused(c) \/ RefuseCheckout(c)
    PROVE  CopiesInv'
<1>1. /\ revs' = revs /\ UNCHANGED <<home, track, active, journal, screen>>
  BY DEF Committed, Rejected, LookUpHead, AnswerLost, PublishRefused, RefuseCheckout, server,
         ServerCommit
<1>2. \E next : next.step # "checkout" /\ job' = [job EXCEPT ![c] = next]
  <2>0. PICK j : j = job[c]
    OBVIOUS
  <2> DEFINE re == [step |-> "reconcile", ns |-> j.ns, generation |-> j.generation,
                    head |-> j.rev, epoch |-> j.epoch]
             up == [j EXCEPT !.step = "lookup"]
  <2>1. \/ job' = [job EXCEPT ![c] = re] \/ job' = [job EXCEPT ![c] = Idle]
        \/ j.step = "commit" /\ job' = [job EXCEPT ![c] = up]
    BY <2>0 DEF Committed, Rejected, LookUpHead, AnswerLost, PublishRefused, RefuseCheckout
  <2>2. re.step # "checkout" /\ Idle.step # "checkout"
    BY DEF Idle
  <2>3. j.step = "commit" => up.step # "checkout"
    <3>1. j.step = "commit" => j \in CommitJobs
      BY <2>0, CommitMeans
    <3>2. QED
      BY <3>1 DEF CommitJobs
  <2> HIDE DEF re, up
  <2>4. QED
    BY <2>1, <2>2, <2>3
<1>3. /\ track' = [track EXCEPT ![c] = track'[c]] /\ active' = [active EXCEPT ![c] = active'[c]]
  BY <1>1 DEF ClientInv, Typing, ClientTyping
<1>4. QED
  BY <1>1, <1>2, <1>3, CopiesJob

LEMMA RecordsCopy ==
    ASSUME ClientInv, CopiesInv, Evolves, NEW c \in Client,
           RecordPush(c) \/ update_remote_epoch(c) \/ ApplyRecord(c)
    PROVE  CopiesInv'
<1>0. PICK j : j = job[c]
  OBVIOUS
<1>1. /\ revs' = revs /\ UNCHANGED <<home, screen>>
      /\ journal' = journal \/ journal' = [journal EXCEPT ![c] = None]
  BY DEF RecordPush, update_remote_epoch, ApplyRecord, server
<1>2. /\ track' = [track EXCEPT ![c] = track'[c]] /\ active' = [active EXCEPT ![c] = active'[c]]
  <2>1. \/ \E n, r : track' = [track EXCEPT ![c][n] = r]
        \/ \E n, r : track' = [track EXCEPT ![c][n].epoch = r]
        \/ track' = track
    BY DEF RecordPush, update_remote_epoch, ApplyRecord, reconcile_checkout
  <2>2. active' = active \/ \E n : active' = [active EXCEPT ![c] = n]
    BY DEF RecordPush, update_remote_epoch, ApplyRecord, reconcile_checkout
  <2>3. QED
    BY <2>1, <2>2 DEF ClientInv, Typing, ClientTyping
<1>3. \E next : next.step # "checkout" /\ job' = [job EXCEPT ![c] = next]
  <2> DEFINE ep == [step |-> "epoch", ns |-> j.ns, generation |-> j.generation + 1,
                    epoch |-> j.epoch]
             pu == [step |-> "publish", ns |-> j.ns]
  <2>1. ep.step # "checkout" /\ pu.step # "checkout" /\ Idle.step # "checkout"
    BY DEF Idle
  <2>2. CASE RecordPush(c) \/ update_remote_epoch(c)
    <3>1. job' = [job EXCEPT ![c] = ep] \/ job' = [job EXCEPT ![c] = Idle]
      BY <1>0, <2>2 DEF RecordPush, update_remote_epoch
    <3> HIDE DEF ep
    <3>2. QED
      BY <2>1, <3>1
  <2>3. CASE ApplyRecord(c)
    <3> DEFINE next == CASE j.then = "epoch" -> ep [] j.then = "publish" -> pu
                         [] j.then = "done" -> Idle
    <3>1. job' = [job EXCEPT ![c] = next] /\ j.step = "applied"
      BY <1>0, <2>3 DEF ApplyRecord
    <3>2. j.then \in {"epoch", "publish", "done"}
      <4>1. j \in AppliedJobs
        BY <1>0, <3>1, JobForms DEF JobForm, ClientInv, Typing, ClientTyping
      <4>2. QED
        BY <4>1 DEF AppliedJobs
    <3> HIDE DEF ep, pu
    <3>3. next = ep \/ next = pu \/ next = Idle
      BY <3>2
    <3> HIDE DEF next
    <3>4. QED
      BY <2>1, <3>1, <3>3
  <2>4. QED
    BY <2>2, <2>3
<1>4. QED
  BY <1>1, <1>2, <1>3, CopiesJob

LEMMA ApplyHomeCopies ==
    ASSUME ClientInv, CopiesInv, Evolves, NEW c \in Client, ApplyHome(c) PROVE CopiesInv'
<1>0. PICK j : j = job[c]
  OBVIOUS
<1> DEFINE next == [step |-> "applied", op |-> j.op, ns |-> j.ns, generation |-> j.generation,
                    head |-> j.head, epoch |-> j.epoch, then |-> j.then]
           entry == [status |-> "applied", op |-> j.op, ns |-> j.ns,
                     generation |-> j.generation, head |-> j.head]
<1>1. /\ j.step = "checkout" /\ home' = [home EXCEPT ![c] = j.tree]
      /\ job' = [job EXCEPT ![c] = next] /\ journal' = [journal EXCEPT ![c] = entry]
      /\ UNCHANGED <<revs, track, active>> /\ ClearScreen(c)
  BY <1>0 DEF ApplyHome, server
<1>2. next.step # "checkout" /\ entry.status # "torn"
  OBVIOUS
<1> HIDE DEF next, entry
<1>3. home'[c] = j.tree /\ job'[c] = next /\ journal'[c] = entry /\ Only(c)
  BY <1>1 DEF ClientInv, Typing, ClientTyping, Only
<1>4. \A origin \in Origins : AllFit(origin) => Fits(home'[c], origin)
  BY <1>0, <1>1, <1>3 DEF AllFit, FitAt
<1>5. QED
  BY <1>1, <1>2, <1>3, <1>4, CopiesRest

LEMMA RecoverCopies ==
    ASSUME ClientInv, CopiesInv, Evolves, NEW c \in Client, Recover(c) PROVE CopiesInv'
<1>0. PICK k : k = journal[c]
  OBVIOUS
<1>1. /\ job[c] = Idle /\ k # None /\ journal' = [journal EXCEPT ![c] = None]
      /\ UNCHANGED <<revs, job, screen>>
      /\ \/ home' = home
         \/ k.status = "torn" /\ home' = [home EXCEPT ![c] = k.backup]
      /\ \/ UNCHANGED <<track, active>>
         \/ reconcile_checkout(c, k.ns, k.generation, k.head)
  BY <1>0 DEF Recover, server
<1>2. /\ track' = [track EXCEPT ![c] = track'[c]] /\ active' = [active EXCEPT ![c] = active'[c]]
  BY <1>1 DEF reconcile_checkout, ClientInv, Typing, ClientTyping
<1>3. /\ job'[c].step # "checkout" /\ journal'[c] = None /\ Only(c)
      /\ home'[c] = home[c] \/ (k.status = "torn" /\ home'[c] = k.backup)
  BY <1>1, <1>2 DEF ClientInv, Typing, ClientTyping, Idle, Only
<1>4. \A origin \in Origins : AllFit(origin) => Fits(home'[c], origin)
  BY <1>0, <1>1, <1>3 DEF AllFit, FitAt
<1>5. QED
  BY <1>1, <1>3, <1>4, CopiesRest

LEMMA CrashCopies ==
    ASSUME ClientInv, CopiesInv, Evolves, NEW c \in Client, Crash(c) PROVE CopiesInv'
<1>1. /\ job' = [job EXCEPT ![c] = Idle] /\ UNCHANGED <<revs, track, active>> /\ ClearScreen(c)
  BY CrashMeans DEF Crash
<1>2. job'[c].step # "checkout"
  BY <1>1 DEF Idle, ClientInv, Typing, ClientTyping
<1>3. CASE UNCHANGED <<home, journal>>
  <2>1. Only(c)
    BY <1>1, <1>3 DEF ClientInv, Typing, ClientTyping, Only
  <2>2. \A origin \in Origins : AllFit(origin) => Fits(home'[c], origin)
    BY <1>3 DEF AllFit, FitAt
  <2>3. QED
    BY <1>1, <1>2, <1>3, <2>1, <2>2, CopiesRest
<1>4. CASE ~ UNCHANGED <<home, journal>>
  <2>1. PICK entry : entry = [status |-> "torn", backup |-> home[c]]
    OBVIOUS
  <2>2. job[c].step = "checkout" /\ journal' = [journal EXCEPT ![c] = entry]
    BY <1>4, <2>1, CrashMeans
  <2>3. PICK from \in [Thread -> {home[c], EmptyTree, job[c].tree}] :
            home' = [home EXCEPT ![c] = Torn(from)]
    BY <1>4, CrashMeans
  <2>4. home'[c] = Torn(from) /\ journal'[c].backup = home[c] /\ Only(c)
    BY <1>1, <2>1, <2>2, <2>3 DEF ClientInv, Typing, ClientTyping, Only
  <2>5. ASSUME NEW origin \in Origins, AllFit(origin) PROVE Fits(Torn(from), origin)
    <3>1. Fits(home[c], origin) /\ Fits(job[c].tree, origin) /\ Fits(EmptyTree, origin)
      BY <2>2, <2>5 DEF AllFit, FitAt, Fits, EmptyTree
    <3> SUFFICES ASSUME NEW t \in Thread, Torn(from).v[t] # Absent
                 PROVE  Torn(from).e[t] = origin[t][Torn(from).v[t]]
      BY DEF Fits
    <3>2. Torn(from).v[t] = from[t].v[t] /\ Torn(from).e[t] = from[t].e[t]
      BY DEF Torn
    <3>3. Fits(from[t], origin)
      BY <2>3, <3>1
    <3>4. QED
      BY <3>2, <3>3 DEF Fits
  <2>6. QED
    BY <1>1, <1>2, <2>4, <2>5, CopiesRest
<1>5. QED
  BY <1>3, <1>4

LEMMA PushNothingCopies ==
    ASSUME ClientInv, CopiesInv, Evolves, NEW c \in Client, NEW n \in Ns, PushNothing(c, n)
    PROVE  CopiesInv'
<1> DEFINE ep == [step |-> "epoch", ns |-> n, generation |-> Generation(c, n),
                  epoch |-> epoch[n]]
           re == [step |-> "reconcile", ns |-> n, generation |-> Generation(c, n),
                  head |-> head[n], epoch |-> epoch[n]]
           es == [t \in Thread |-> home[c].e[t] \cup revs[head[n]].tree.e[t]]
<1>1. /\ UNCHANGED <<revs, track, active, journal, screen>>
      /\ head[n] # None
      /\ thread_states_equal(revs[head[n]].tree, home[c])
      /\ job' = [job EXCEPT ![c] = ep] \/ job' = [job EXCEPT ![c] = re]
      /\ home' = [home EXCEPT ![c].e = es]
  BY DEF PushNothing, server
<1>2. head[n] \in DOMAIN revs
  BY <1>1, HeadIsAhead, KnownForm DEF ClientInv, Typing
<1>3. home[c] \in TreeOver(used) /\ revs[head[n]].tree \in TreeOver(used)
  BY <1>2, RevisionForm DEF ClientInv, Typing, ClientTyping
<1>4. es \in [Thread -> SUBSET used] /\ \A t \in Thread : es[t] = home[c].e[t] \cup revs[head[n]].tree.e[t]
  BY <1>3 DEF TreeOver
<1> HIDE DEF es
<1>5. /\ home' = [home EXCEPT ![c] = home'[c]]
      /\ home'[c].v = home[c].v /\ home'[c].e = es
  <2>1. home' = [home EXCEPT ![c] = [home[c] EXCEPT !.e = es]]
    BY <1>1 DEF ClientInv, Typing, ClientTyping
  <2>2. [home[c] EXCEPT !.e = es].v = home[c].v /\ [home[c] EXCEPT !.e = es].e = es
    BY <1>3, <1>4 DEF TreeOver
  <2>3. home'[c] = [home[c] EXCEPT !.e = es]
    BY <2>1 DEF ClientInv, Typing, ClientTyping
  <2>4. QED
    BY <2>1, <2>2, <2>3
<1>6. ASSUME NEW origin \in Origins, AllFit(origin) PROVE Fits(home'[c], origin)
  <2> SUFFICES ASSUME NEW t \in Thread, home[c].v[t] # Absent
               PROVE  es[t] = origin[t][home[c].v[t]]
    BY <1>5 DEF Fits
  <2>1. home[c].e[t] = origin[t][home[c].v[t]]
    BY <1>6 DEF AllFit, FitAt, Fits
  <2>2. revs[head[n]].tree.v[t] = home[c].v[t]
    BY <1>1 DEF thread_states_equal, Same
  <2>3. revs[head[n]].tree.e[t] = origin[t][home[c].v[t]]
    BY <1>2, <1>6, <2>2 DEF AllFit, Fits
  <2>4. QED
    BY <1>4, <2>1, <2>3
<1>7. ep.step # "checkout" /\ re.step # "checkout"
  OBVIOUS
<1> HIDE DEF ep, re
<1>8. Only(c) /\ job'[c].step # "checkout" /\ journal'[c] = journal[c]
  BY <1>1, <1>5, <1>7 DEF Only, ClientInv, Typing, ClientTyping
<1>9. QED
  BY <1>1, <1>6, <1>8, CopiesRest

\* A revision is built from copies.
LEMMA BuildCopies ==
    ASSUME ClientInv, CopiesInv, Evolves, NEW c \in Client, NEW n \in Ns, NEW op,
           NEW tree \in TreeOver(used), Build(n, tree),
           job' = [job EXCEPT ![c] = CommitJob(c, n, op)],
           UNCHANGED <<home, track, active, journal, screen>>,
           \A origin \in Origins : AllFit(origin) => Fits(tree, origin)
    PROVE  CopiesInv'
<1>1. PICK new : new = Len(revs) + 1
  OBVIOUS
<1>2. revs'[new].tree = tree /\ DOMAIN revs' = DOMAIN revs \cup {new} /\ Extends(revs, revs')
  <2>1. revs = [i \in 1..Len(revs) |-> revs[i]] /\ Len(revs) \in Nat /\ DOMAIN revs = 1..Len(revs)
    BY DEF ClientInv, Typing, ServerTyping
  <2>2. revs' = Append(revs, [ns |-> n, parent |-> head[n], tree |-> tree])
    BY DEF Build
  <2>3. QED
    BY <1>1, <2>1, <2>2 DEF Evolves, ClientInv, Typing, ServerTyping
<1>3. PICK origin \in Origins : AllFit(origin) /\ \A d \in Client : ScreenFits(d, origin)
  BY DEF CopiesInv
<1>4. \A i \in DOMAIN revs' : Fits(revs'[i].tree, origin)
  <2>1. Fits(revs'[new].tree, origin)
    BY <1>2, <1>3
  <2>2. ASSUME NEW i \in DOMAIN revs PROVE Fits(revs'[i].tree, origin)
    BY <1>2, <1>3 DEF Extends, AllFit
  <2>3. QED
    BY <1>2, <2>1, <2>2
<1>5. PICK j : j = CommitJob(c, n, op)
  OBVIOUS
<1>6. j.step = "commit" /\ job'[c] = j /\ Only(c)
  BY <1>5 DEF CommitJob, ClientInv, Typing, ClientTyping, Only
<1>7. ASSUME NEW d \in Client PROVE FitAt(d, origin)' /\ ScreenFits(d, origin)' /\ ChoiceOK(d)'
  <2>1. ScreenSame(d)
    BY DEF ScreenSame, screen
  <2>2. ScreenFits(d, origin)'
    BY <1>3, <2>1, ScreenStays
  <2>3. CASE d = c
    BY <1>3, <1>6, <2>2, <2>3 DEF FitAt, AllFit, ChoiceOK
  <2>4. CASE d # c
    <3>1. Untouched(d)
      BY <1>6, <2>4, OthersUntouched DEF ClientInv, Typing
    <3>2. FitAt(d, origin)'
      BY <1>3, <3>1 DEF AllFit, FitAt, Untouched
    <3>3. QED
      BY <2>1, <2>2, <3>1, <3>2, ChoiceStays DEF CopiesInv, ScreenSame
  <2>5. QED
    BY <2>3, <2>4
<1>8. AllFit(origin)'
  BY <1>4, <1>7 DEF AllFit
<1>9. QED
  BY <1>3, <1>7, <1>8 DEF CopiesInv, Screens, screen

LEMMA PushCopies ==
    ASSUME ClientInv, CopiesInv, Evolves, NEW c \in Client, NEW n \in Ns, push_namespace(c, n)
    PROVE  CopiesInv'
<1>1. /\ Build(n, home[c]) /\ job' = [job EXCEPT ![c] = CommitJob(c, n, "push")]
      /\ UNCHANGED <<home, track, active, journal, screen>>
  BY DEF push_namespace
<1>2. home[c] \in TreeOver(used)
  BY DEF ClientInv, Typing, ClientTyping
<1>3. \A origin \in Origins : AllFit(origin) => Fits(home[c], origin)
  BY DEF AllFit, FitAt
<1>4. QED
  BY <1>1, <1>2, <1>3, BuildCopies

LEMMA StagedCopies ==
    ASSUME ClientInv, CopiesInv, Evolves, NEW c \in Client, NEW n \in Ns,
           NEW staged \in SUBSET Thread, push_staged_namespace(c, n, staged)
    PROVE  CopiesInv'
<1> DEFINE base == TreeOf(head[n])
           local == home[c]
           tree == compose_staged(base, local, staged)
<1>1. /\ Build(n, tree) /\ job' = [job EXCEPT ![c] = CommitJob(c, n, "staged")]
      /\ UNCHANGED <<home, track, active, journal, screen>>
  BY DEF push_staged_namespace
<1>2. /\ local \in TreeOver(used) /\ base \in TreeOver(used)
      /\ head[n] \in DOMAIN revs \cup {None}
  BY HeadIsAhead, KnownForm, TreeOfForm DEF ClientInv, Typing, ClientTyping
<1>3. tree \in TreeOver(used)
  BY <1>2, ComposedForm
<1>4. \A t \in Thread : /\ tree.v[t] = IF t \in staged THEN local.v[t] ELSE base.v[t]
                        /\ tree.e[t] = IF t \in staged THEN local.e[t] ELSE base.e[t]
  BY DEF compose_staged
<1>5. ASSUME NEW origin \in Origins, AllFit(origin) PROVE Fits(base, origin) /\ Fits(local, origin)
  BY <1>2, <1>5, TreeOfFits DEF AllFit, FitAt
<1> HIDE DEF base, local, tree
<1>6. \A origin \in Origins : AllFit(origin) => Fits(tree, origin)
  BY <1>4, <1>5 DEF Fits
<1>7. QED
  BY <1>1, <1>3, <1>6, BuildCopies

\* A new version has the edits of the one it was made from, and the new one.
LEMMA EditCopies ==
    ASSUME ClientInv, CopiesInv, Evolves, NEW c \in Client, NEW t \in Thread, EditThread(c, t)
    PROVE  CopiesInv'
<1>1. PICK new \in Edit \ used : \E version \in {new, Absent} :
             /\ used' = used \cup {new}
             /\ home' = [home EXCEPT ![c] = Edited(home[c], t, version, new)]
  BY EditMeans DEF ClientInv
<1>2. PICK version \in {new, Absent} : home' = [home EXCEPT ![c] = Edited(home[c], t, version, new)]
  BY <1>1
<1>3. UNCHANGED <<revs, published, head, epoch, track, active, journal, job, shown, seen>>
  BY DEF EditThread, server, screen
<1>4. PICK origin \in Origins : AllFit(origin) /\ \A d \in Client : ScreenFits(d, origin)
  BY DEF CopiesInv
<1> DEFINE x == home[c]
           edits == x.e[t] \cup {new}
<1>p. PICK later : later = [origin EXCEPT ![t] = [origin[t] EXCEPT ![new] = edits]]
  OBVIOUS
<1>5. x \in TreeOver(used) /\ used \subseteq Edit /\ new \notin used
  BY DEF ClientInv, Typing, ClientTyping, ServerTyping
<1>6. edits \subseteq Edit
  BY <1>5 DEF TreeOver
<1>7. /\ later \in Origins
      /\ \A s \in Thread : \A v \in Edit :
           later[s][v] = IF s = t /\ v = new THEN edits ELSE origin[s][v]
  <2> HIDE DEF edits
  <2>1. QED
    BY <1>p, <1>4, <1>6 DEF Origins
<1>8. ASSUME NEW y \in TreeOver(used), Fits(y, origin) PROVE Fits(y, later)
  <2> SUFFICES ASSUME NEW s \in Thread, y.v[s] # Absent PROVE y.e[s] = later[s][y.v[s]]
    BY DEF Fits
  <2>1. y.v[s] \in used
    BY DEF TreeOver
  <2>2. later[s][y.v[s]] = origin[s][y.v[s]]
    BY <1>5, <1>7, <2>1
  <2>3. QED
    BY <1>8, <2>2 DEF Fits
<1>9. home'[c] = Edited(x, t, version, new)
  BY <1>2 DEF ClientInv, Typing, ClientTyping
<1>10. Fits(home'[c], later)
  <2>1. \A s \in Thread : /\ home'[c].v[s] = IF s = t THEN version ELSE x.v[s]
                          /\ home'[c].e[s] = IF s = t THEN edits ELSE x.e[s]
    BY <1>5, <1>9 DEF Edited, TreeOver
  <2>2. Fits(x, later)
    BY <1>4, <1>5, <1>8 DEF AllFit, FitAt
  <2>3. ASSUME NEW s \in Thread, home'[c].v[s] # Absent
        PROVE  home'[c].e[s] = later[s][home'[c].v[s]]
    <3>1. CASE s = t
      <4>1. home'[c].v[s] = new /\ home'[c].e[s] = edits
        BY <1>2, <2>1, <2>3, <3>1
      <4>2. QED
        BY <1>7, <3>1, <4>1
    <3>2. CASE s # t
      <4>1. home'[c].v[s] = x.v[s] /\ home'[c].e[s] = x.e[s]
        BY <2>1, <3>2
      <4>2. QED
        BY <2>2, <2>3, <4>1 DEF Fits
    <3>3. QED
      BY <3>1, <3>2
  <2>4. QED
    BY <2>3 DEF Fits
<1>11. ASSUME NEW d \in Client PROVE FitAt(d, later)'
  <2>4. Fits(home'[d], later)
    <3>1. d # c => home'[d] = home[d] /\ home[d] \in TreeOver(used)
      BY <1>2 DEF ClientInv, Typing, ClientTyping
    <3>2. QED
      BY <1>4, <1>8, <1>10, <3>1 DEF AllFit, FitAt
  <2>5. job[d].step = "checkout" => Fits(job[d].tree, later) /\ Fits(job[d].local, later)
    <3>1. job[d].step = "checkout" => job[d] \in CheckoutJobs(used)
      BY JobForms DEF JobForm, ClientInv, Typing, ClientTyping
    <3>2. job[d].step = "checkout" =>
            job[d].tree \in TreeOver(used) /\ job[d].local \in TreeOver(used)
      BY <3>1 DEF CheckoutJobs
    <3>3. QED
      BY <1>4, <1>8, <3>2 DEF AllFit, FitAt
  <2>6. journal[d] # None /\ journal[d].status = "torn" => Fits(journal[d].backup, later)
    <3>1. journal[d] # None /\ journal[d].status = "torn" => journal[d].backup \in TreeOver(used)
      BY JournalForm DEF ClientInv, Typing
    <3>2. QED
      BY <1>4, <1>8, <3>1 DEF AllFit, FitAt
  <2>7. QED
    BY <1>3, <2>4, <2>5, <2>6 DEF FitAt
<1>12. \A i \in DOMAIN revs' : Fits(revs'[i].tree, later)
  <2>1. ASSUME NEW i \in DOMAIN revs PROVE Fits(revs[i].tree, later)
    <3>1. revs[i].tree \in TreeOver(used)
      BY RevisionForm DEF ClientInv, Typing
    <3>2. QED
      BY <1>4, <1>8, <3>1 DEF AllFit
  <2>2. QED
    BY <1>3, <2>1
<1>13. ASSUME NEW d \in Client PROVE ScreenFits(d, later)'
  <2>1. ASSUME NEW k \in shown[d], NEW v \in {k.local, k.remote}, v # Absent
        PROVE  k.thread \in Thread /\ v \in used' /\ later[k.thread][v] \subseteq seen[d]
    <3>1. k.thread \in Thread /\ v \in used /\ origin[k.thread][v] \subseteq seen[d]
      BY <1>4, <2>1 DEF ScreenFits, Displayed
    <3>2. later[k.thread][v] = origin[k.thread][v]
      BY <1>5, <1>7, <3>1
    <3>3. QED
      BY <1>1, <3>1, <3>2
  <2>2. \A k \in shown[d] : k.thread \in Thread
    BY <1>4 DEF ScreenFits
  <2>3. QED
    BY <1>3, <2>1, <2>2 DEF ScreenFits, Displayed
<1>14. ASSUME NEW d \in Client PROVE ChoiceOK(d)'
  BY <1>3 DEF CopiesInv, ChoiceOK, MergeBase, TreeOf, TrackedHead
<1>15. AllFit(later)'
  BY <1>11, <1>12 DEF AllFit
<1>16. QED
  BY <1>3, <1>7, <1>13, <1>14, <1>15 DEF CopiesInv, Screens

\* Conflicts are displayed with the versions of both sides.
LEMMA ScreenCopies ==
    ASSUME ClientInv, CopiesInv, Evolves, NEW c \in Client, NEW n \in Ns,
           ShowConflicts(c, n) \/ prepare_initial_namespace_merge(c, n)
    PROVE  CopiesInv'
<1>1. PICK local : local = home[c]
  OBVIOUS
<1>2. PICK remote : remote = revs[head[n]].tree
  OBVIOUS
<1>3. /\ head[n] \in DOMAIN revs /\ local \in TreeOver(used) /\ remote \in TreeOver(used)
      /\ UNCHANGED <<revs, used, home, track, active, journal, job>>
      /\ \E base : shown' = [shown EXCEPT ![c] = Conflicts(base, local, remote)]
      /\ seen' = [seen EXCEPT ![c] = EditsOf(local) \cup EditsOf(remote)]
  BY <1>1, <1>2, PullMeans, MergeMeans
     DEF ShowConflicts, prepare_initial_namespace_merge, server
<1>4. PICK base : shown' = [shown EXCEPT ![c] = Conflicts(base, local, remote)]
  BY <1>3
<1>5. PICK origin \in Origins : AllFit(origin) /\ \A d \in Client : ScreenFits(d, origin)
  BY DEF CopiesInv
<1>6. Fits(local, origin) /\ Fits(remote, origin)
  BY <1>1, <1>2, <1>3, <1>5 DEF AllFit, FitAt
<1>7. ScreenFits(c, origin)'
  <2>1. /\ shown'[c] = Conflicts(base, local, remote)
        /\ seen'[c] = EditsOf(local) \cup EditsOf(remote)
    BY <1>3, <1>4 DEF CopiesInv, Screens
  <2>2. ASSUME NEW k \in Conflicts(base, local, remote)
        PROVE  k.thread \in Thread /\ k.local = local.v[k.thread] /\ k.remote = remote.v[k.thread]
    BY <2>2 DEF Conflicts, conflict_fingerprint, Conflicting
  <2>3. ASSUME NEW t \in Thread, NEW side \in {local, remote}, side.v[t] # Absent
        PROVE  side.v[t] \in used /\ origin[t][side.v[t]] \subseteq EditsOf(local) \cup EditsOf(remote)
    <3>1. side.v[t] \in used
      BY <1>3, <2>3 DEF TreeOver
    <3>2. side.e[t] = origin[t][side.v[t]]
      BY <1>6, <2>3 DEF Fits
    <3>3. side.e[t] \subseteq EditsOf(local) \cup EditsOf(remote)
      BY DEF EditsOf
    <3>4. QED
      BY <3>1, <3>2, <3>3
  <2>4. ASSUME NEW k \in Conflicts(base, local, remote)
        PROVE  Displayed({k.local, k.remote}, k.thread, used, origin, EditsOf(local) \cup EditsOf(remote))
    BY <2>2, <2>3 DEF Displayed
  <2>5. QED
    BY <1>3, <2>1, <2>2, <2>4 DEF ScreenFits
<1>8. Screens' /\ \A d \in Client : d # c => ScreenSame(d)
  BY <1>3, <1>4 DEF CopiesInv, Screens, ScreenSame
<1>9. \A d \in Client : ScreenFits(d, origin)'
  BY <1>5, <1>7, <1>8, ScreenStays
<1>10. job[c] = Idle
  BY DEF ShowConflicts, prepare_initial_namespace_merge, MayPull, MayMerge
<1>11. ASSUME NEW d \in Client PROVE ChoiceOK(d)'
  <2>1. CASE d = c
    BY <1>3, <1>10, <2>1 DEF ChoiceOK, Idle
  <2>2. CASE d # c
    <3>1. Untouched(d) /\ seen'[d] = seen[d]
      BY <1>3, <1>8, <2>2 DEF Untouched, ScreenSame
    <3>2. QED
      BY <3>1, ChoiceStays DEF CopiesInv
  <2>3. QED
    BY <2>1, <2>2
<1>12. AllFit(origin)'
  BY <1>3, <1>5 DEF AllFit, FitAt
<1>13. QED
  BY <1>5, <1>8, <1>9, <1>11, <1>12 DEF CopiesInv

\* A checkout is planned: the tree to install is made of copies that exist.
LEMMA PlanCopies ==
    ASSUME ClientInv, CopiesInv, Evolves, NEW c \in Client, NEW op, NEW n, NEW h, NEW tree,
           NEW dropped, NEW then, StartCheckout(c, CheckoutJob(c, op, n, h, tree, dropped, then)),
           UNCHANGED screen,
           \A origin \in Origins : AllFit(origin) => Fits(tree, origin),
           op \in {"resolve", "merge"} =>
             /\ h \in DOMAIN revs
             /\ Informed(IF op = "merge" THEN EmptyTree ELSE TreeOf(TrackedHead(c, n)),
                         home[c], revs[h].tree, tree, seen[c])
    PROVE  CopiesInv'
<1>1. PICK j : j = CheckoutJob(c, op, n, h, tree, dropped, then)
  OBVIOUS
<1>2. /\ j.step = "checkout" /\ j.op = op /\ j.ns = n /\ j.head = h /\ j.tree = tree
      /\ j.local = home[c]
  BY <1>1 DEF CheckoutJob
<1>3. /\ job' = [job EXCEPT ![c] = j]
      /\ UNCHANGED <<revs, home, track, active, journal>>
  BY <1>1 DEF StartCheckout, server
<1>4. job'[c] = j /\ Only(c)
  BY <1>3 DEF ClientInv, Typing, ClientTyping, Only
<1>5. ScreenKept(c) /\ seen' = seen
  BY ScreensKept DEF CopiesInv, screen
<1>6. ASSUME NEW origin \in Origins, AllFit(origin) PROVE FitAt(c, origin)'
  BY <1>2, <1>3, <1>4, <1>6 DEF FitAt, AllFit
<1>7. TreeOf(TrackedHead(c, n))' = TreeOf(TrackedHead(c, n))
  BY <1>3 DEF TrackedHead, TreeOf
<1>8. ChoiceOK(c)'
  BY <1>2, <1>3, <1>4, <1>5, <1>7 DEF ChoiceOK, MergeBase
<1>9. QED
  BY <1>3, <1>4, <1>5, <1>6, <1>8, CopiesOwn

\* Choices for what is on the screen, valid for the conflicts there are now,
\* are made for versions that the screen shows.
LEMMA ChoicesInform ==
    ASSUME NEW c \in Client, NEW origin, ScreenFits(c, origin), NEW base, NEW local, NEW remote,
           NEW x, Fits(local, origin), Fits(remote, origin),
           NEW resolutions \in Choices(shown[c]),
           Valid(resolutions, Conflicts(base, local, remote))
    PROVE  Informed(base, local, remote, x, seen[c])
<1> SUFFICES ASSUME NEW t \in Conflicting(base, local, remote), NEW side \in {local, remote},
                    side.v[t] # Absent
             PROVE  side.e[t] \subseteq seen[c]
  BY DEF Informed
<1>1. t \in Thread
  BY DEF Conflicting
<1>2. PICK k : k = conflict_fingerprint(base, local, remote, t)
  OBVIOUS
<1>3. k \in Conflicts(base, local, remote)
  BY <1>2 DEF Conflicts
<1>4. PICK r \in resolutions : r.conflict = k
  BY <1>3 DEF Valid
<1>5. k \in shown[c]
  BY <1>4 DEF Choices
<1>6. k.thread = t /\ k.local = local.v[t] /\ k.remote = remote.v[t]
  BY <1>2 DEF conflict_fingerprint
<1>7. origin[t][side.v[t]] \subseteq seen[c]
  BY <1>5, <1>6 DEF ScreenFits, Displayed
<1>8. side.e[t] = origin[t][side.v[t]]
  BY <1>1 DEF Fits
<1>9. QED
  BY <1>7, <1>8

LEMMA PullCopies ==
    ASSUME ClientInv, CopiesInv, Evolves, NEW c \in Client, NEW n \in Ns, pull_namespace(c, n)
    PROVE  CopiesInv'
<1> DEFINE tree == merge_thread_sets(PullBase(c, n), home[c], revs[head[n]].tree)
<1>1. /\ MayPull(c, n) /\ UNCHANGED screen
      /\ StartCheckout(c, CheckoutJob(c, "pull", n, head[n], tree, {}, "epoch"))
  BY DEF pull_namespace
<1>2. ASSUME NEW origin \in Origins, AllFit(origin) PROVE Fits(tree, origin)
  <2>1. Fits(home[c], origin) /\ Fits(revs[head[n]].tree, origin)
    BY <1>1, <1>2, PullMeans DEF AllFit, FitAt
  <2>2. QED
    BY <2>1, MergedFits
<1> HIDE DEF tree
<1>3. QED
  BY <1>1, <1>2, PlanCopies

LEMMA ResolveCopies ==
    ASSUME ClientInv, CopiesInv, Evolves, NEW c \in Client, NEW n \in Ns,
           NEW resolutions \in Choices(shown[c]), resolve_pull_conflicts(c, n, resolutions)
    PROVE  CopiesInv'
<1> DEFINE tree == resolve_thread_sets(PullBase(c, n), home[c], revs[head[n]].tree, resolutions)
           gone == GivenUp(home[c], revs[head[n]].tree, resolutions)
<1>1. /\ MayPull(c, n) /\ UNCHANGED screen
      /\ Valid(resolutions, Conflicts(PullBase(c, n), home[c], revs[head[n]].tree))
      /\ StartCheckout(c, CheckoutJob(c, "resolve", n, head[n], tree, gone, "publish"))
  BY DEF resolve_pull_conflicts
<1>2. ASSUME NEW origin \in Origins, AllFit(origin)
      PROVE  Fits(home[c], origin) /\ Fits(revs[head[n]].tree, origin)
  BY <1>1, <1>2, PullMeans DEF AllFit, FitAt
<1>3. ASSUME NEW origin \in Origins, AllFit(origin) PROVE Fits(tree, origin)
  BY <1>1, <1>2, <1>3, ResolvedFits
<1> HIDE DEF tree, gone
<1>4. PICK origin \in Origins : AllFit(origin) /\ ScreenFits(c, origin)
  BY DEF CopiesInv
<1>5. Informed(PullBase(c, n), home[c], revs[head[n]].tree, tree, seen[c])
  BY <1>1, <1>2, <1>4, ChoicesInform
<1>6. head[n] \in DOMAIN revs
  BY <1>1, PullMeans
<1>7. QED
  BY <1>1, <1>3, <1>5, <1>6, PlanCopies DEF PullBase

LEMMA MergeCopies ==
    ASSUME ClientInv, CopiesInv, Evolves, NEW c \in Client, NEW n \in Ns,
           NEW resolutions \in Choices(shown[c]), apply_initial_namespace_merge(c, n, resolutions)
    PROVE  CopiesInv'
<1> DEFINE tree == resolve_thread_sets(EmptyTree, home[c], revs[head[n]].tree, resolutions)
           gone == GivenUp(home[c], revs[head[n]].tree, resolutions)
<1>1. /\ MayMerge(c, n) /\ UNCHANGED screen
      /\ Valid(resolutions, Conflicts(EmptyTree, home[c], revs[head[n]].tree))
      /\ StartCheckout(c, CheckoutJob(c, "merge", n, head[n], tree, gone, "epoch"))
  BY DEF apply_initial_namespace_merge
<1>2. ASSUME NEW origin \in Origins, AllFit(origin)
      PROVE  Fits(home[c], origin) /\ Fits(revs[head[n]].tree, origin)
  BY <1>1, <1>2, MergeMeans DEF AllFit, FitAt
<1>3. ASSUME NEW origin \in Origins, AllFit(origin) PROVE Fits(tree, origin)
  BY <1>1, <1>2, <1>3, ResolvedFits
<1> HIDE DEF tree, gone
<1>4. PICK origin \in Origins : AllFit(origin) /\ ScreenFits(c, origin)
  BY DEF CopiesInv
<1>5. Informed(EmptyTree, home[c], revs[head[n]].tree, tree, seen[c])
  BY <1>1, <1>2, <1>4, ChoicesInform
<1>6. head[n] \in DOMAIN revs
  BY <1>1, MergeMeans
<1>7. QED
  BY <1>1, <1>3, <1>5, <1>6, PlanCopies

\* Switch, restore and remap install copies that are in a revision or in the home.
LEMMA ReplaceCopies ==
    ASSUME ClientInv, CopiesInv, Evolves, NEW c \in Client, NEW n \in Ns,
           \/ switch_namespace(c, n)
           \/ \E r \in published, then \in {"done", "publish"} : restore_remote_revision(c, n, r, then)
           \/ reapply_workspace_mappings(c, n)
    PROVE  CopiesInv'
<1>1. CASE switch_namespace(c, n)
  <2> DEFINE tree == TreeOf(head[n])
  <2>1. /\ UNCHANGED screen
        /\ StartCheckout(c, CheckoutJob(c, "switch", n, head[n], tree, {}, "epoch"))
    BY <1>1 DEF switch_namespace
  <2>2. \A origin \in Origins : AllFit(origin) => Fits(tree, origin)
    BY HeadIsAhead, KnownForm, TreeOfFits DEF ClientInv, Typing
  <2> HIDE DEF tree
  <2>3. QED
    BY <2>1, <2>2, PlanCopies
<1>2. ASSUME NEW r \in published, NEW then, restore_remote_revision(c, n, r, then) PROVE CopiesInv'
  <2>1. PICK tree : tree = revs[r].tree
    OBVIOUS
  <2>2. PICK gone : gone = EditsLacking(tree, home[c]) \cup EditsLacking(tree, revs[head[n]].tree)
    OBVIOUS
  <2>3. /\ UNCHANGED screen
        /\ StartCheckout(c, CheckoutJob(c, "restore", n, head[n], tree, gone, then))
    BY <1>2, <2>1, <2>2 DEF restore_remote_revision
  <2>4. \A origin \in Origins : AllFit(origin) => Fits(tree, origin)
    BY <2>1, RevisionForm DEF AllFit, ClientInv, Typing, ServerTyping
  <2>5. QED
    BY <2>3, <2>4, PlanCopies
<1>3. CASE reapply_workspace_mappings(c, n)
  <2>1. PICK tree : tree = home[c]
    OBVIOUS
  <2>2. /\ UNCHANGED screen
        /\ StartCheckout(c, CheckoutJob(c, "remap", n, TrackedHead(c, n), tree, {}, "done"))
    BY <1>3, <2>1 DEF reapply_workspace_mappings
  <2>3. \A origin \in Origins : AllFit(origin) => Fits(tree, origin)
    BY <2>1 DEF AllFit, FitAt
  <2>4. QED
    BY <2>2, <2>3, PlanCopies
<1>4. QED
  BY <1>1, <1>2, <1>3

LEMMA CopiesNext == ASSUME ClientInv, CopiesInv, [Next]_vars PROVE CopiesInv'
<1>1. CASE UNCHANGED vars
  <2>1. Quiet /\ UNCHANGED <<discarded, home, track, active, journal, job, shown, seen>>
    BY <1>1 DEF vars, server, counters, screen, Quiet
  <2>2. Evolves /\ revs' = revs
    BY <2>1, NoChange DEF Quiet
  <2>3. QED
    BY <2>1, <2>2, CopiesServer
<1>2. CASE Next
  <2>1. Evolves
    BY <1>2, NextStep
  <2>2. ASSUME NEW n \in Ns, NEW h, RewriteHistory(n, h) PROVE CopiesInv'
    BY <2>1, <2>2, CopiesServer DEF RewriteHistory, screen
  <2>3. ASSUME NEW j \in delayed, CommitLate(j) PROVE CopiesInv'
    BY <2>1, <2>3, CopiesServer DEF CommitLate, ServerCommit, screen
  <2>4. ASSUME NEW c \in Client, Proceed(c) PROVE CopiesInv'
    BY <2>1, <2>4, AnswersCopy, RecordsCopy, ApplyHomeCopies, RecoverCopies DEF Proceed
  <2>5. ASSUME NEW c \in Client, NEW n \in Ns, Synchronise(c, n) PROVE CopiesInv'
    BY <2>1, <2>5, PushNothingCopies, PushCopies, PullCopies, ScreenCopies, ResolveCopies,
       MergeCopies DEF Synchronise
  <2>6. ASSUME NEW c \in Client, NEW n \in Ns, Other(c, n) PROVE CopiesInv'
    BY <2>1, <2>6, StagedCopies, ReplaceCopies DEF Other
  <2>7. QED
    BY <1>2, <2>1, <2>2, <2>3, <2>4, <2>5, <2>6, EditCopies, AnswersCopy, CrashCopies DEF Next
<1>3. QED
  BY <1>1, <1>2

LEMMA CopiesInit == Init => CopiesInv
<1> SUFFICES ASSUME Init PROVE CopiesInv
  OBVIOUS
<1>1. /\ DOMAIN revs = {} /\ \A c \in Client : home[c] = EmptyTree /\ shown[c] = {}
      /\ \A c \in Client : job[c].step = "idle" /\ journal[c] = None
  BY DEF Init, Idle
<1> DEFINE origin == [t \in Thread |-> [x \in Edit |-> {}]]
<1>2. origin \in Origins
  BY DEF Origins
<1> HIDE DEF origin
<1>3. Fits(EmptyTree, origin)
  BY DEF Fits, EmptyTree
<1>4. AllFit(origin) /\ \A c \in Client : ScreenFits(c, origin) /\ ChoiceOK(c)
  BY <1>1, <1>3 DEF AllFit, FitAt, ScreenFits, ChoiceOK
<1>5. Screens
  BY DEF Init, Screens
<1>6. QED
  BY <1>2, <1>4, <1>5 DEF CopiesInv

\* Copies of a conversation with equal versions have the same edits behind
\* them, whether they are in a revision, a home, a plan or a backup, and the
\* edits behind the versions on a screen are those its user has seen.
THEOREM CopiesInvariant == Spec => []CopiesInv
<1>1. ClientInv /\ CopiesInv /\ [Next]_vars => CopiesInv'
  BY CopiesNext
<1>2. QED
  BY <1>1, ClientInvariant, CopiesInit, PTL DEF Spec

\* What ChoicesAreInformed says of one step.
ChoicesInformed ==
    \A c \in Client :
        job[c].step = "checkout" /\ job'[c].step = "applied" /\ job[c].op \in {"resolve", "merge"} =>
        LET j == job[c]
            base == IF j.op = "merge" THEN EmptyTree ELSE TreeOf(TrackedHead(c, j.ns))
            remote == revs[j.head].tree
        IN  \A t \in Conflicting(base, j.local, remote) : \A side \in {j.local, remote} :
                side.v[t] # Absent => side.e[t] \ home'[c].e[t] \subseteq seen[c]

LEMMA InstallsInformed == ASSUME ClientInv, CopiesInv, Next PROVE ChoicesInformed
<1> SUFFICES ASSUME NEW c \in Client, job[c].step = "checkout", job'[c].step = "applied",
                    job[c].op \in {"resolve", "merge"}, NEW j, j = job[c]
             PROVE  Informed(MergeBase(c, j), j.local, revs[j.head].tree, home'[c], seen[c])
  BY DEF ChoicesInformed, Informed, MergeBase
<1>1. ApplyHome(c)
  BY OnlyApplies
<1>2. home'[c] = j.tree
  BY <1>1 DEF ApplyHome, ClientInv, Typing, ClientTyping
<1>3. QED
  BY <1>2 DEF CopiesInv, ChoiceOK

\* Where both sides changed a conversation, a checkout gives up an edit behind
\* a version of either side only if that version was on the screen when its
\* user chose: stale choices are never carried out.
THEOREM StaleChoicesAreRefused == Spec => ChoicesAreInformed
<1>1. ClientInv /\ CopiesInv /\ [Next]_vars => [ChoicesInformed]_vars
  BY InstallsInformed
<1>2. QED
  BY <1>1, ClientInvariant, CopiesInvariant, PTL DEF Spec, ChoicesAreInformed, ChoicesInformed

=============================================================================
