------------------------- MODULE HistoryStoreProofs -------------------------
(* Proofs about HistoryStore, for every set of namespaces, revisions and   *)
(* clients, every parent function without cycles and every MaxOps.         *)
EXTENDS HistoryStore, TLAPS

-----------------------------------------------------------------------------
(* Ancestry.                                                               *)

\* The parent walk never leaves the revisions.
LEMMA AncType == \A r \in RevOrNone : AncOrSelf(r) \subseteq Rev
BY DEF AncOrSelf

\* The parent walk from r starts at r.
LEMMA AncSelf == \A r \in Rev : r \in AncOrSelf(r)
BY ConstantsAssumption DEF AncOrSelf

\* There is nothing before the first revision.
LEMMA AncNone == AncOrSelf(None) = {}
BY DEF AncOrSelf

\* The walk from r stays inside every parent-closed set that holds r.
LEMMA AncLeast ==
    ASSUME NEW r \in Rev, NEW S \in SUBSET Rev, r \in S, ParentClosed(S)
    PROVE  AncOrSelf(r) \subseteq S
BY ConstantsAssumption DEF AncOrSelf

\* The walk visits the parent of all it visits.
LEMMA AncClosed == \A r \in RevOrNone : ParentClosed(AncOrSelf(r))
<1> SUFFICES ASSUME NEW r \in Rev, NEW x \in AncOrSelf(r), Parent[x] # None
             PROVE  Parent[x] \in AncOrSelf(r)
    BY ConstantsAssumption, AncType DEF ParentClosed, AncOrSelf, RevOrNone
<1>1. r # None /\ x \in Rev /\ Parent[x] \in Rev
    BY ConstantsAssumption, AncType DEF RevOrNone
<1>2. ASSUME NEW S \in SUBSET Rev, r \in S, ParentClosed(S)
      PROVE  Parent[x] \in S
    <2>1. x \in S
        BY <1>2, AncLeast
    <2> QED
        BY <2>1, <1>2 DEF ParentClosed
<1> QED
    BY <1>1, <1>2 DEF AncOrSelf

\* What an ancestor reaches, its descendants reach.
LEMMA AncTrans ==
    ASSUME NEW r \in RevOrNone, NEW a \in AncOrSelf(r)
    PROVE  AncOrSelf(a) \subseteq AncOrSelf(r)
<1>1. a \in Rev /\ AncOrSelf(r) \in SUBSET Rev
    BY AncType
<1> QED
    BY <1>1, AncClosed, AncLeast

\* One step of the walk: r, then whatever its parent reaches.
LEMMA AncStep ==
    ASSUME NEW r \in Rev
    PROVE  AncOrSelf(r) = {r} \cup AncOrSelf(Parent[r])
<1>1. Parent[r] \in RevOrNone
    BY ConstantsAssumption DEF RevOrNone
<1>2. {r} \cup AncOrSelf(Parent[r]) \in SUBSET Rev
    BY <1>1, AncType
<1>3. Parent[r] # None => Parent[r] \in AncOrSelf(Parent[r])
    BY <1>1, AncSelf DEF RevOrNone
<1>4. ParentClosed({r} \cup AncOrSelf(Parent[r]))
    BY <1>1, <1>3, AncClosed DEF ParentClosed
<1>5. AncOrSelf(r) \subseteq {r} \cup AncOrSelf(Parent[r])
    BY <1>2, <1>4, AncLeast
<1>6. Parent[r] # None => Parent[r] \in AncOrSelf(r)
    BY <1>1, AncClosed, AncSelf DEF ParentClosed, RevOrNone
<1>7. AncOrSelf(Parent[r]) \subseteq AncOrSelf(r)
    <2>1. CASE Parent[r] = None
        BY <2>1, AncNone
    <2>2. CASE Parent[r] # None
        BY <2>2, <1>6, AncTrans DEF RevOrNone
    <2> QED
        BY <2>1, <2>2
<1> QED
    BY <1>5, <1>7, AncSelf

\* Below a proper ancestor h of r the walk does not come back to r.
LEMMA AncProper ==
    ASSUME NEW r \in Rev, NEW h \in AncOrSelf(r), h # r
    PROVE  r \notin AncOrSelf(h)
<1>1. h \in AncOrSelf(Parent[r]) /\ Parent[r] \in RevOrNone
    BY AncStep, ConstantsAssumption DEF RevOrNone
<1> QED
    BY <1>1, AncTrans, AcyclicAssumption

\* The ancestors of a revision form a chain: h is on the way from r down,
\* so every other ancestor is above or below it.
LEMMA AncChain ==
    ASSUME NEW r \in Rev, NEW h \in AncOrSelf(r), NEW x \in AncOrSelf(r), x \notin AncOrSelf(h)
    PROVE  h \in AncOrSelf(x)
<1> DEFINE S == {y \in AncOrSelf(r) : h \in AncOrSelf(y)} \cup AncOrSelf(h)
<1>0. r \in RevOrNone /\ h \in Rev /\ h \in RevOrNone /\ x \in Rev
    BY AncType DEF RevOrNone
<1>1. S \in SUBSET Rev
    BY <1>0, AncType
<1>2. ParentClosed(S)
    <2> SUFFICES ASSUME NEW y \in S, Parent[y] # None PROVE Parent[y] \in S
        BY DEF ParentClosed
    <2>1. CASE y \in AncOrSelf(h)
        BY <2>1, <1>0, AncClosed DEF ParentClosed
    <2>2. CASE y \notin AncOrSelf(h)
        <3>1. y \in AncOrSelf(r) /\ h \in AncOrSelf(y) /\ y # h /\ y \in Rev
            BY <2>2, <1>0, <1>1, AncSelf
        <3>2. h \in AncOrSelf(Parent[y])
            BY <3>1, AncStep
        <3>3. Parent[y] \in AncOrSelf(r)
            BY <3>1, <1>0, AncClosed DEF ParentClosed
        <3> QED
            BY <3>2, <3>3
    <2> QED
        BY <2>1, <2>2
<1>3. r \in S
    BY <1>0, AncSelf
<1>4. AncOrSelf(r) \subseteq S
    BY <1>1, <1>2, <1>3, AncLeast
<1> QED
    BY <1>4

\* The parent of a revision of a trashed stretch is in the stretch, or is the
\* head the truncation left.
LEMMA SegmentBase ==
    ASSUME NEW old \in Rev, NEW new \in RevOrNone, new \in AncOrSelf(old) \cup {None},
           NEW r \in AncOrSelf(old) \ AncOrSelf(new), Parent[r] # None
    PROVE  Parent[r] = new \/ Parent[r] \in AncOrSelf(old) \ AncOrSelf(new)
<1>1. r \in Rev /\ Parent[r] \in Rev /\ Parent[r] \in AncOrSelf(old)
    BY AncClosed, AncType, ConstantsAssumption DEF ParentClosed, RevOrNone
<1>2. CASE new = None
    BY <1>1, <1>2, AncNone
<1>3. CASE new # None /\ Parent[r] \in AncOrSelf(new) /\ Parent[r] # new
    <2>1. new \in Rev /\ new \in AncOrSelf(old)
        BY <1>3 DEF RevOrNone
    <2>2. new \in AncOrSelf(r) /\ new # r
        BY <2>1, AncChain, AncSelf
    <2>3. new \in AncOrSelf(Parent[r])
        BY <2>2, <1>1, AncStep
    <2>4. new \notin AncOrSelf(Parent[r])
        BY <2>1, <1>3, AncProper
    <2> QED
        BY <2>3, <2>4
<1> QED
    BY <1>1, <1>2, <1>3

-----------------------------------------------------------------------------
(* The inductive invariant.  ActiveIsHeadChain and TrashIsSegment need      *)
(* each other, and facts about the rows that no property mentions.         *)

\* Exactly the revisions some operation took carry its id.
TakenHasOp ==
    \A r \in Rev :
        /\ rop[r] \in 0 .. nops
        /\ rop[r] = 0 <=> rstate[r] \in {"absent", "active"}
        /\ rop[r] # 0 => RevNs[r] = trash[rop[r]].ns

\* An operation cut the history of one namespace at a proper ancestor.
OpHeads ==
    \A o \in 1 .. nops :
        LET t == trash[o]
        IN  /\ t.oldHead \in Rev
            /\ RevNs[t.oldHead] = t.ns
            /\ t.newHead \in AncOrSelf(t.oldHead) \cup {None}
            /\ t.newHead # t.oldHead
            /\ t.newHead # None => RevNs[t.newHead] = t.ns

\* RestoreBaseRetained for every operation, expired or not.
BaseHeld ==
    \A o \in 1 .. nops :
        trash[o].state = "active" /\ trash[o].newHead # None =>
            \/ rstate[trash[o].newHead] = "active"
            \/ rstate[trash[o].newHead] = "trashed" /\ rop[trash[o].newHead] > o

\* What a client read is not ahead of its namespace; inside the same epoch
\* it is the head, or has been overtaken by a descendant.
ViewBehind ==
    \A c \in Client :
        view[c] # None =>
            LET v == view[c]
            IN  /\ v.epoch <= epoch[v.ns]
                /\ ~moved[c] => v.head = head[v.ns] /\ v.epoch = epoch[v.ns]
                /\ moved[c] /\ v.epoch = epoch[v.ns] =>
                      /\ v.head # head[v.ns]
                      /\ v.head \in AncOrSelf(head[v.ns]) \cup {None}

IInv ==
    /\ TypeOK
    /\ ActiveIsHeadChain
    /\ TrashIsSegment
    /\ TakenHasOp
    /\ OpHeads
    /\ BaseHeld
    /\ NoOrphan
    /\ ViewBehind

-----------------------------------------------------------------------------
(* What the invariant says of a head.                                      *)

\* A head is an active revision of its own namespace, and so are its
\* ancestors.
LEMMA HeadActive ==
    ASSUME TypeOK, ActiveIsHeadChain, NEW n \in Ns
    PROVE  /\ head[n] \in RevOrNone
           /\ head[n] # None => rstate[head[n]] = "active" /\ RevNs[head[n]] = n
           /\ \A x \in AncOrSelf(head[n]) :
                 x \in Rev /\ rstate[x] = "active" /\ RevNs[x] = n
<1>1. head[n] \in RevOrNone
    BY DEF TypeOK, TablesOK
<1>2. \A x \in AncOrSelf(head[n]) : x \in Rev /\ rstate[x] = "active" /\ RevNs[x] = n
    BY DEF ActiveIsHeadChain
<1> QED
    BY <1>1, <1>2, AncSelf DEF RevOrNone

-----------------------------------------------------------------------------
(* One lemma per action.                                                   *)

\* A commit appends one revision to one chain.
LEMMA CommitStep ==
    ASSUME IInv, NEW c \in Client, NEW r \in Rev, Commit(c, r)
    PROVE  IInv'
<1> DEFINE n == RevNs[r]
<1> USE DEF IInv
<1>0. /\ view[c] \in HeadView /\ view[c].ns = n /\ n \in Ns
      /\ rstate[r] = "absent" /\ Parent[r] = head[n] /\ rop[r] = 0
    BY ConstantsAssumption
    DEF TypeOK, TablesOK, TakenHasOp, Commit, commit_revision_root, Committable, HeadMatches, HeadView
<1>1. TypeOK'
    BY <1>0, ConstantsAssumption
    DEF TypeOK, TablesOK, Commit, commit_revision_root, HeadMoved, RevOrNone, HeadView
<1>2. AncOrSelf(r) = {r} \cup AncOrSelf(head[n]) /\ r \notin AncOrSelf(head[n])
    BY <1>0, AncStep, HeadActive
<1>3. ActiveIsHeadChain'
    <2> SUFFICES ASSUME NEW m \in Ns
                 PROVE  {x \in Rev : RevNs[x] = m /\ rstate'[x] = "active"} = AncOrSelf(head'[m])
        BY DEF ActiveIsHeadChain
    <2>1. {x \in Rev : RevNs[x] = m /\ rstate[x] = "active"} = AncOrSelf(head[m])
        BY DEF ActiveIsHeadChain
    <2>2. CASE m = n
        <3>1. head'[m] = r
            BY <2>2, <1>0 DEF Commit, commit_revision_root, TypeOK, TablesOK
        <3>2. {x \in Rev : RevNs[x] = m /\ rstate'[x] = "active"}
                = {x \in Rev : RevNs[x] = m /\ rstate[x] = "active"} \cup {r}
            BY <2>2, <1>0 DEF Commit, commit_revision_root, TypeOK, TablesOK
        <3> QED
            BY <2>1, <2>2, <3>1, <3>2, <1>2
    <2>3. CASE m # n
        <3>1. head'[m] = head[m]
            BY <2>3, <1>0 DEF Commit, commit_revision_root, TypeOK, TablesOK
        <3>2. {x \in Rev : RevNs[x] = m /\ rstate'[x] = "active"}
                = {x \in Rev : RevNs[x] = m /\ rstate[x] = "active"}
            BY <2>3, <1>0 DEF Commit, commit_revision_root, TypeOK, TablesOK
        <3> QED
            BY <2>1, <3>1, <3>2
    <2> QED
        BY <2>2, <2>3
<1>4. TrashIsSegment'
    BY <1>0 DEF TrashIsSegment, Commit, commit_revision_root, TypeOK, TablesOK
<1>5. TakenHasOp'
    BY <1>0 DEF TakenHasOp, Commit, commit_revision_root, TypeOK, TablesOK
<1>6. OpHeads'
    BY DEF OpHeads, Commit, commit_revision_root
<1>7. BaseHeld'
    BY <1>0 DEF BaseHeld, OpHeads, Commit, commit_revision_root, TypeOK, TablesOK
<1>8. NoOrphan'
    <2>1. head[n] # None => rstate[head[n]] = "active"
        BY <1>0, HeadActive
    <2> QED
        BY <2>1, <1>0, ConstantsAssumption
        DEF NoOrphan, Commit, commit_revision_root, TypeOK, TablesOK
<1>9. ViewBehind'
    <2> SUFFICES ASSUME NEW d \in Client, view[d] # None
                 PROVE  LET v == view[d]
                        IN  /\ v.epoch <= epoch[v.ns]
                            /\ ~moved'[d] => v.head = head'[v.ns] /\ v.epoch = epoch[v.ns]
                            /\ moved'[d] /\ v.epoch = epoch[v.ns] =>
                                  /\ v.head # head'[v.ns]
                                  /\ v.head \in AncOrSelf(head'[v.ns]) \cup {None}
        BY DEF ViewBehind, Commit, commit_revision_root, HeadMoved
    <2>0. view[d] \in HeadView
        BY DEF TypeOK, TablesOK
    <2>1. CASE view[d].ns = n
        <3>1. moved'[d] = TRUE /\ head'[n] = r
            BY <2>1, <1>0 DEF Commit, commit_revision_root, HeadMoved, TypeOK, TablesOK
        <3>2. view[d].epoch = epoch[n] => view[d].head \in AncOrSelf(head[n]) \cup {None}
            BY <2>0, <2>1, AncSelf DEF ViewBehind, HeadView, RevOrNone
        <3> QED
            BY <2>0, <2>1, <3>1, <3>2, <1>2, ConstantsAssumption DEF ViewBehind
    <2>2. CASE view[d].ns # n
        <3>1. moved'[d] = moved[d] /\ head'[view[d].ns] = head[view[d].ns]
            BY <2>0, <2>2, <1>0 DEF Commit, commit_revision_root, HeadMoved, TypeOK, TablesOK, HeadView
        <3> QED
            BY <3>1 DEF ViewBehind
    <2> QED
        BY <2>1, <2>2
<1> QED
    BY <1>1, <1>3, <1>4, <1>5, <1>6, <1>7, <1>8, <1>9

\* A truncation moves a stretch of one chain into a new operation.
LEMMA TruncateStep ==
    ASSUME IInv, NEW c \in Client, NEW h \in RevOrNone, Truncate(c, h)
    PROVE  IInv'
<1> DEFINE n == view[c].ns
           gone == Removed(n, h)
           new == nops + 1
<1> USE DEF IInv
<1>0. /\ view[c] \in HeadView /\ n \in Ns /\ h # head[n]
      /\ h \in AncOrSelf(head[n]) \cup {None}
      /\ new \in Op /\ nops \in Nat /\ gone = AncOrSelf(head[n]) \ AncOrSelf(h)
    BY ConstantsAssumption
    DEF TypeOK, TablesOK, Truncate, truncate_history, Truncatable, HeadView, Removed, Op
<1>1. /\ rstate' = [r \in Rev |-> IF r \in gone THEN "trashed" ELSE rstate[r]]
      /\ rop' = [r \in Rev |-> IF r \in gone THEN new ELSE rop[r]]
      /\ trash' = [trash EXCEPT ![new] = [ns |-> n, oldHead |-> head[n], newHead |-> h,
                                          state |-> "active"]]
      /\ nops' = new
      /\ head' = [head EXCEPT ![n] = h]
      /\ epoch' = [epoch EXCEPT ![n] = @ + 1]
      /\ UNCHANGED <<namespaces, roots, lapsed, view>>
    BY DEF Truncate, truncate_history, HeadMoved, NextEpoch
<1>2. /\ head[n] \in Rev /\ h \in RevOrNone
      /\ \A x \in AncOrSelf(head[n]) : x \in Rev /\ rstate[x] = "active" /\ RevNs[x] = n /\ rop[x] = 0
    BY <1>0, HeadActive, AncNone DEF TakenHasOp, RevOrNone
<1>3. AncOrSelf(h) \subseteq AncOrSelf(head[n]) /\ gone \subseteq Rev
    BY <1>0, <1>2, AncTrans, AncNone DEF RevOrNone
<1>4. /\ trash'[new] = [ns |-> n, oldHead |-> head[n], newHead |-> h, state |-> "active"]
      /\ \A o \in 1 .. nops : trash'[o] = trash[o] /\ o \in Op /\ o # new
      /\ \A o \in 1 .. nops' : o = new \/ o \in 1 .. nops
    BY <1>0, <1>1, ConstantsAssumption DEF TypeOK, TablesOK, Op
<1>5. TypeOK'
    <2>1. trash' \in [Op -> TrashRow \cup {NoRow}]
        BY <1>0, <1>1 DEF TypeOK, TablesOK, TrashRow
    <2>2. \A o \in Op : o <= nops' <=> trash'[o] \in TrashRow
        BY <1>0, <1>1 DEF TypeOK, TablesOK, TrashRow, Op
    <2>3. rop' \in [Rev -> 0 .. MaxOps] /\ nops' \in 0 .. MaxOps /\ lapsed' \in 0 .. nops'
        BY <1>0, <1>1, ConstantsAssumption DEF TypeOK, TablesOK, Op
    <2>4. moved' \in [Client -> BOOLEAN]
        BY DEF TypeOK, TablesOK, Truncate, truncate_history, HeadMoved
    <2>5. epoch' \in [Ns -> Nat] /\ head' \in [Ns -> RevOrNone]
        BY <1>0, <1>1 DEF TypeOK, TablesOK
    <2>6. rstate' \in [Rev -> {"absent", "active", "trashed", "purged"}]
        BY <1>1 DEF TypeOK, TablesOK
    <2> QED
        BY <2>1, <2>2, <2>3, <2>4, <2>5, <2>6, <1>1 DEF TypeOK, TablesOK
<1>6. ActiveIsHeadChain'
    <2> SUFFICES ASSUME NEW m \in Ns
                 PROVE  {x \in Rev : RevNs[x] = m /\ rstate'[x] = "active"} = AncOrSelf(head'[m])
        BY DEF ActiveIsHeadChain
    <2>1. {x \in Rev : RevNs[x] = m /\ rstate[x] = "active"} = AncOrSelf(head[m])
        BY DEF ActiveIsHeadChain
    <2>2. {x \in Rev : RevNs[x] = m /\ rstate'[x] = "active"}
            = {x \in Rev : RevNs[x] = m /\ rstate[x] = "active"} \ gone
        BY <1>1
    <2>3. CASE m = n
        BY <2>1, <2>2, <2>3, <1>0, <1>1, <1>3 DEF TypeOK, TablesOK
    <2>4. CASE m # n
        <3>1. \A x \in gone : RevNs[x] = n
            BY <1>0, <1>2
        <3>2. head'[m] = head[m]
            BY <2>4, <1>1 DEF TypeOK, TablesOK
        <3> QED
            BY <2>1, <2>2, <2>4, <3>1, <3>2
    <2> QED
        BY <2>3, <2>4
<1>7. TrashIsSegment'
    <2> SUFFICES ASSUME NEW o \in 1 .. nops'
                 PROVE  LET mine == {r \in Rev : rop'[r] = o}
                        IN  /\ mine = IF trash'[o].state = "restored" THEN {}
                                      ELSE AncOrSelf(trash'[o].oldHead) \ AncOrSelf(trash'[o].newHead)
                            /\ \A r \in mine :
                                  rstate'[r] = IF trash'[o].state = "active" THEN "trashed" ELSE "purged"
        BY DEF TrashIsSegment
    <2>1. CASE o = new
        <3>1. \A r \in Rev : rop[r] # new
            BY <1>0 DEF TakenHasOp
        <3>2. {r \in Rev : rop'[r] = o} = gone
            BY <2>1, <3>1, <1>1, <1>3
        <3> QED
            BY <2>1, <3>2, <1>0, <1>1, <1>4
    <2>2. CASE o \in 1 .. nops
        <3>1. {r \in Rev : rop'[r] = o} = {r \in Rev : rop[r] = o}
            BY <2>2, <1>0, <1>1, <1>2, <1>4
        <3>2. \A r \in Rev : rop'[r] = o => rstate'[r] = rstate[r]
            BY <2>2, <1>0, <1>1, <1>4
        <3> QED
            BY <2>2, <3>1, <3>2, <1>4 DEF TrashIsSegment
    <2> QED
        BY <2>1, <2>2, <1>4
<1>8. TakenHasOp'
    BY <1>0, <1>1, <1>2, <1>4, ConstantsAssumption DEF TakenHasOp, TypeOK, TablesOK
<1>9. OpHeads'
    <2> SUFFICES ASSUME NEW o \in 1 .. nops'
                 PROVE  LET t == trash'[o]
                        IN  /\ t.oldHead \in Rev
                            /\ RevNs[t.oldHead] = t.ns
                            /\ t.newHead \in AncOrSelf(t.oldHead) \cup {None}
                            /\ t.newHead # t.oldHead
                            /\ t.newHead # None => RevNs[t.newHead] = t.ns
        BY DEF OpHeads
    <2>1. CASE o = new
        BY <2>1, <1>0, <1>2, <1>4, AncSelf
    <2>2. CASE o \in 1 .. nops
        BY <2>2, <1>4 DEF OpHeads
    <2> QED
        BY <2>1, <2>2, <1>4
<1>10. BaseHeld'
    <2> SUFFICES ASSUME NEW o \in 1 .. nops', trash'[o].state = "active", trash'[o].newHead # None
                 PROVE  \/ rstate'[trash'[o].newHead] = "active"
                        \/ rstate'[trash'[o].newHead] = "trashed" /\ rop'[trash'[o].newHead] > o
        BY DEF BaseHeld
    <2>1. CASE o = new
        <3>1. h \in Rev /\ h \notin gone /\ rstate[h] = "active"
            BY <2>1, <1>0, <1>2, <1>4, AncSelf
        <3> QED
            BY <2>1, <3>1, <1>1, <1>4
    <2>2. CASE o \in 1 .. nops
        <3>1. trash[o].newHead \in Rev
            BY <2>2, <1>4 DEF TypeOK, TablesOK, TrashRow, RevOrNone, Op
        <3> QED
            BY <2>2, <3>1, <1>0, <1>1, <1>4 DEF BaseHeld
    <2> QED
        BY <2>1, <2>2, <1>4
<1>11. NoOrphan'
    BY <1>0, <1>1, <1>2, ConstantsAssumption DEF NoOrphan, RevOrNone
<1>12. ViewBehind'
    <2> SUFFICES ASSUME NEW d \in Client, view[d] # None
                 PROVE  LET v == view[d]
                        IN  /\ v.epoch <= epoch'[v.ns]
                            /\ ~moved'[d] => v.head = head'[v.ns] /\ v.epoch = epoch'[v.ns]
                            /\ moved'[d] /\ v.epoch = epoch'[v.ns] =>
                                  /\ v.head # head'[v.ns]
                                  /\ v.head \in AncOrSelf(head'[v.ns]) \cup {None}
        BY <1>1 DEF ViewBehind
    <2>0. view[d] \in HeadView
        BY DEF TypeOK, TablesOK
    <2>1. CASE view[d].ns = n
        <3>1. moved'[d] = TRUE /\ epoch'[n] = epoch[n] + 1 /\ epoch[n] \in Nat
            BY <2>1, <1>0, <1>1 DEF Truncate, truncate_history, HeadMoved, TypeOK, TablesOK
        <3>2. view[d].epoch <= epoch[n] /\ view[d].epoch \in Nat
            BY <2>0, <2>1 DEF ViewBehind, HeadView
        <3> QED
            BY <2>1, <3>1, <3>2
    <2>2. CASE view[d].ns # n
        <3>1. /\ moved'[d] = moved[d] /\ head'[view[d].ns] = head[view[d].ns]
              /\ epoch'[view[d].ns] = epoch[view[d].ns]
            BY <2>0, <2>2, <1>0, <1>1 DEF Truncate, truncate_history, HeadMoved, TypeOK, TablesOK, HeadView
        <3> QED
            BY <3>1 DEF ViewBehind
    <2> QED
        BY <2>1, <2>2
<1> QED
    BY <1>5, <1>6, <1>7, <1>8, <1>9, <1>10, <1>11, <1>12

\* A restore puts an operation's stretch back on the head it was cut from.
LEMMA RestoreStep ==
    ASSUME IInv, NEW c \in Client, NEW o \in Op, Restore(c, o)
    PROVE  IInv'
<1> DEFINE n == view[c].ns
           old == trash[o].oldHead
           mine == {r \in Rev : rop[r] = o}
<1> USE DEF IInv
<1>0. /\ view[c] \in HeadView /\ n \in Ns /\ o \in 1 .. nops
      /\ trash[o] \in TrashRow /\ trash[o].ns = n /\ trash[o].state = "active"
      /\ trash[o].newHead = head[n] /\ nops \in Nat
    BY ConstantsAssumption DEF TypeOK, TablesOK, Restore, restore_history_trash, Restorable, HeadView, Op
<1>1. /\ rstate' = [r \in Rev |-> IF r \in mine THEN "active" ELSE rstate[r]]
      /\ rop' = [r \in Rev |-> IF r \in mine THEN 0 ELSE rop[r]]
      /\ trash' = [trash EXCEPT ![o].state = "restored"]
      /\ head' = [head EXCEPT ![n] = old]
      /\ epoch' = [epoch EXCEPT ![n] = @ + 1]
      /\ UNCHANGED <<namespaces, roots, nops, lapsed, view>>
    BY DEF Restore, restore_history_trash, HeadMoved, NextEpoch, Untrash
<1>2. /\ old \in Rev /\ RevNs[old] = n
      /\ mine = AncOrSelf(old) \ AncOrSelf(head[n])
      /\ \A r \in mine : rstate[r] = "trashed" /\ RevNs[r] = n
    BY <1>0 DEF OpHeads, TrashIsSegment, TakenHasOp
<1>3. AncOrSelf(head[n]) \subseteq AncOrSelf(old)
    BY <1>0, <1>2, AncTrans, AncNone DEF OpHeads, RevOrNone
<1>4. /\ trash'[o] = [trash[o] EXCEPT !.state = "restored"]
      /\ \A p \in 1 .. nops : p # o => trash'[p] = trash[p]
      /\ \A p \in 1 .. nops : p \in Op
    BY <1>0, <1>1, ConstantsAssumption DEF TypeOK, TablesOK, Op
<1>5. /\ trash'[o].state = "restored" /\ trash'[o].ns = n
      /\ trash'[o].oldHead = old /\ trash'[o].newHead = head[n] /\ trash'[o] \in TrashRow
    BY <1>0, <1>4 DEF TrashRow
<1>6. TypeOK'
    <2>1. trash' \in [Op -> TrashRow \cup {NoRow}] /\ \A p \in Op : p <= nops <=> trash'[p] \in TrashRow
        BY <1>0, <1>1, <1>5 DEF TypeOK, TablesOK
    <2>2. moved' \in [Client -> BOOLEAN]
        BY DEF TypeOK, TablesOK, Restore, restore_history_trash, HeadMoved
    <2>3. epoch' \in [Ns -> Nat] /\ head' \in [Ns -> RevOrNone]
        BY <1>0, <1>1, <1>2 DEF TypeOK, TablesOK, RevOrNone
    <2>4. /\ rstate' \in [Rev -> {"absent", "active", "trashed", "purged"}]
          /\ rop' \in [Rev -> 0 .. MaxOps]
        BY <1>1, ConstantsAssumption DEF TypeOK, TablesOK
    <2> QED
        BY <2>1, <2>2, <2>3, <2>4, <1>1 DEF TypeOK, TablesOK
<1>7. ActiveIsHeadChain'
    <2> SUFFICES ASSUME NEW m \in Ns
                 PROVE  {x \in Rev : RevNs[x] = m /\ rstate'[x] = "active"} = AncOrSelf(head'[m])
        BY DEF ActiveIsHeadChain
    <2>1. {x \in Rev : RevNs[x] = m /\ rstate[x] = "active"} = AncOrSelf(head[m])
        BY DEF ActiveIsHeadChain
    <2>2. CASE m = n
        <3>1. {x \in Rev : RevNs[x] = m /\ rstate'[x] = "active"}
                = {x \in Rev : RevNs[x] = m /\ rstate[x] = "active"} \cup mine
            BY <2>2, <1>1, <1>2
        <3>2. head'[m] = old
            BY <2>2, <1>0, <1>1 DEF TypeOK, TablesOK
        <3> QED
            BY <2>1, <2>2, <3>1, <3>2, <1>2, <1>3
    <2>3. CASE m # n
        <3>1. {x \in Rev : RevNs[x] = m /\ rstate'[x] = "active"}
                = {x \in Rev : RevNs[x] = m /\ rstate[x] = "active"}
            BY <2>3, <1>1, <1>2
        <3>2. head'[m] = head[m]
            BY <2>3, <1>1 DEF TypeOK, TablesOK
        <3> QED
            BY <2>1, <3>1, <3>2
    <2> QED
        BY <2>2, <2>3
<1>8. TrashIsSegment'
    <2> SUFFICES ASSUME NEW p \in 1 .. nops
                 PROVE  LET its == {r \in Rev : rop'[r] = p}
                        IN  /\ its = IF trash'[p].state = "restored" THEN {}
                                      ELSE AncOrSelf(trash'[p].oldHead) \ AncOrSelf(trash'[p].newHead)
                            /\ \A r \in its :
                                  rstate'[r] = IF trash'[p].state = "active" THEN "trashed" ELSE "purged"
        BY <1>1 DEF TrashIsSegment
    <2>1. CASE p = o
        <3>1. {r \in Rev : rop'[r] = p} = {}
            BY <2>1, <1>0, <1>1
        <3> QED
            BY <2>1, <3>1, <1>5
    <2>2. CASE p # o
        <3>1. {r \in Rev : rop'[r] = p} = {r \in Rev : rop[r] = p}
            BY <2>2, <1>0, <1>1
        <3>2. \A r \in Rev : rop'[r] = p => rstate'[r] = rstate[r]
            BY <2>2, <1>0, <1>1
        <3> QED
            BY <2>2, <3>1, <3>2, <1>4 DEF TrashIsSegment
    <2> QED
        BY <2>1, <2>2
<1>9. TakenHasOp'
    <2> SUFFICES ASSUME NEW r \in Rev
                 PROVE  /\ rop'[r] \in 0 .. nops
                        /\ rop'[r] = 0 <=> rstate'[r] \in {"absent", "active"}
                        /\ rop'[r] # 0 => RevNs[r] = trash'[rop'[r]].ns
        BY <1>1 DEF TakenHasOp
    <2>1. CASE r \in mine
        BY <2>1, <1>0, <1>1
    <2>2. CASE r \notin mine
        <3>1. rop'[r] = rop[r] /\ rstate'[r] = rstate[r] /\ rop[r] # o /\ rop[r] \in 0 .. nops
            BY <2>2, <1>1 DEF TakenHasOp
        <3>2. rop[r] # 0 => rop[r] \in 1 .. nops
            BY <3>1, <1>0
        <3> QED
            BY <3>1, <3>2, <1>4 DEF TakenHasOp
    <2> QED
        BY <2>1, <2>2
<1>10. OpHeads'
    BY <1>0, <1>1, <1>4, <1>5 DEF OpHeads
<1>11. BaseHeld'
    <2> SUFFICES ASSUME NEW p \in 1 .. nops, trash'[p].state = "active", trash'[p].newHead # None
                 PROVE  \/ rstate'[trash'[p].newHead] = "active"
                        \/ rstate'[trash'[p].newHead] = "trashed" /\ rop'[trash'[p].newHead] > p
        BY <1>1 DEF BaseHeld
    <2>1. trash'[p] = trash[p]
        BY <1>4, <1>5
    <2>2. trash[p].newHead \in Rev
        BY <2>1, <1>4 DEF TypeOK, TablesOK, TrashRow, RevOrNone
    <2> QED
        BY <2>1, <2>2, <1>1 DEF BaseHeld
<1>12. NoOrphan'
    BY <1>1, <1>2, ConstantsAssumption DEF NoOrphan, RevOrNone
<1>13. ViewBehind'
    <2> SUFFICES ASSUME NEW d \in Client, view[d] # None
                 PROVE  LET v == view[d]
                        IN  /\ v.epoch <= epoch'[v.ns]
                            /\ ~moved'[d] => v.head = head'[v.ns] /\ v.epoch = epoch'[v.ns]
                            /\ moved'[d] /\ v.epoch = epoch'[v.ns] =>
                                  /\ v.head # head'[v.ns]
                                  /\ v.head \in AncOrSelf(head'[v.ns]) \cup {None}
        BY <1>1 DEF ViewBehind
    <2>0. view[d] \in HeadView
        BY DEF TypeOK, TablesOK
    <2>1. CASE view[d].ns = n
        <3>1. moved'[d] = TRUE /\ epoch'[n] = epoch[n] + 1 /\ epoch[n] \in Nat
            BY <2>1, <1>0, <1>1 DEF Restore, restore_history_trash, HeadMoved, TypeOK, TablesOK
        <3>2. view[d].epoch <= epoch[n] /\ view[d].epoch \in Nat
            BY <2>0, <2>1 DEF ViewBehind, HeadView
        <3> QED
            BY <2>1, <3>1, <3>2
    <2>2. CASE view[d].ns # n
        <3>1. /\ moved'[d] = moved[d] /\ head'[view[d].ns] = head[view[d].ns]
              /\ epoch'[view[d].ns] = epoch[view[d].ns]
            BY <2>0, <2>2, <1>0, <1>1 DEF Restore, restore_history_trash, HeadMoved, TypeOK, TablesOK, HeadView
        <3> QED
            BY <3>1 DEF ViewBehind
    <2> QED
        BY <2>1, <2>2
<1> QED
    BY <1>6, <1>7, <1>8, <1>9, <1>10, <1>11, <1>12, <1>13

\* A purge gives up the stretches of a set of operations that no operation
\* left outside it would be restored onto.
LEMMA PurgeStep ==
    ASSUME IInv, NEW n \in Ns, NEW S \in SUBSET Op, purge_history_trash(n, S),
           UNCHANGED <<view, moved>>
    PROVE  IInv'
<1> DEFINE dead == TrashedBy(n, S)
<1> USE DEF IInv
<1>0. /\ S \subseteq ActiveOps(n) /\ nops \in Nat
      /\ \A o \in ActiveOps(n) \ S : trash[o].newHead \notin dead
      /\ \A o \in S : o \in 1 .. nops /\ trash[o].ns = n /\ trash[o].state = "active"
    BY ConstantsAssumption DEF TypeOK, TablesOK, purge_history_trash, Purgeable, ActiveOps
<1>1. /\ rstate' = [r \in Rev |-> IF r \in dead THEN "purged" ELSE rstate[r]]
      /\ trash' = [o \in Op |-> IF o \in S THEN [trash[o] EXCEPT !.state = "purged"] ELSE trash[o]]
      /\ UNCHANGED <<namespaces, head, epoch, rop, nops, lapsed, view, moved>>
      /\ roots' \subseteq roots
    BY DEF purge_history_trash, MarkPurged
<1>2. \A r \in Rev : r \in dead <=> RevNs[r] = n /\ rstate[r] = "trashed" /\ rop[r] \in S
    BY DEF TrashedBy
<1>3. \A o \in 1 .. nops :
         /\ o \in Op /\ trash[o] \in TrashRow /\ trash'[o] \in TrashRow
         /\ trash'[o].ns = trash[o].ns /\ trash'[o].oldHead = trash[o].oldHead
         /\ trash'[o].newHead = trash[o].newHead
         /\ trash'[o].state = IF o \in S THEN "purged" ELSE trash[o].state
    <2> SUFFICES ASSUME NEW o \in 1 .. nops
                 PROVE  /\ o \in Op /\ trash[o] \in TrashRow /\ trash'[o] \in TrashRow
                        /\ trash'[o].ns = trash[o].ns /\ trash'[o].oldHead = trash[o].oldHead
                        /\ trash'[o].newHead = trash[o].newHead
                        /\ trash'[o].state = IF o \in S THEN "purged" ELSE trash[o].state
        OBVIOUS
    <2>1. o \in Op /\ trash[o] \in TrashRow
        BY ConstantsAssumption DEF TypeOK, TablesOK, Op
    <2>2. CASE o \in S
        BY <2>1, <2>2, <1>1 DEF TrashRow
    <2>3. CASE o \notin S
        BY <2>1, <2>3, <1>1
    <2> QED
        BY <2>1, <2>2, <2>3
<1>4. TypeOK'
    <2>1. \A o \in Op : trash'[o] \in TrashRow \cup {NoRow} /\ (o <= nops <=> trash'[o] \in TrashRow)
        <3> SUFFICES ASSUME NEW o \in Op
                     PROVE  trash'[o] \in TrashRow \cup {NoRow} /\ (o <= nops <=> trash'[o] \in TrashRow)
            OBVIOUS
        <3>1. CASE o <= nops
            BY <3>1, <1>0, <1>3, ConstantsAssumption DEF Op
        <3>2. CASE ~(o <= nops)
            <4>1. o \notin S
                BY <3>2, <1>0
            <4> QED
                BY <4>1, <3>2, <1>1 DEF TypeOK, TablesOK
        <3> QED
            BY <3>1, <3>2
    <2>2. trash' \in [Op -> TrashRow \cup {NoRow}]
        BY <2>1, <1>1
    <2>3. rstate' \in [Rev -> {"absent", "active", "trashed", "purged"}] /\ roots' \subseteq Rev
        BY <1>1 DEF TypeOK, TablesOK
    <2> QED
        BY <2>1, <2>2, <2>3, <1>1 DEF TypeOK, TablesOK
<1>5. ActiveIsHeadChain'
    <2> SUFFICES ASSUME NEW m \in Ns
                 PROVE  {x \in Rev : RevNs[x] = m /\ rstate'[x] = "active"} = AncOrSelf(head[m])
        BY <1>1 DEF ActiveIsHeadChain
    <2>1. {x \in Rev : RevNs[x] = m /\ rstate'[x] = "active"}
            = {x \in Rev : RevNs[x] = m /\ rstate[x] = "active"}
        BY <1>1, <1>2
    <2> QED
        BY <2>1 DEF ActiveIsHeadChain
<1>6. TrashIsSegment'
    <2> SUFFICES ASSUME NEW o \in 1 .. nops
                 PROVE  LET mine == {r \in Rev : rop[r] = o}
                        IN  /\ mine = IF trash'[o].state = "restored" THEN {}
                                      ELSE AncOrSelf(trash'[o].oldHead) \ AncOrSelf(trash'[o].newHead)
                            /\ \A r \in mine :
                                  rstate'[r] = IF trash'[o].state = "active" THEN "trashed" ELSE "purged"
        BY <1>1 DEF TrashIsSegment
    <2>1. CASE o \in S
        <3>1. \A r \in Rev : rop[r] = o => r \in dead
            BY <2>1, <1>0, <1>2 DEF TrashIsSegment, TakenHasOp
        <3>2. trash[o].state = "active" /\ trash'[o].state = "purged"
            BY <2>1, <1>0, <1>3
        <3> QED
            BY <3>1, <3>2, <1>1, <1>3 DEF TrashIsSegment
    <2>2. CASE o \notin S
        <3>1. \A r \in Rev : rop[r] = o => rstate'[r] = rstate[r]
            BY <2>2, <1>1, <1>2
        <3> QED
            BY <2>2, <3>1, <1>3 DEF TrashIsSegment
    <2> QED
        BY <2>1, <2>2
<1>7. TakenHasOp'
    <2> SUFFICES ASSUME NEW r \in Rev
                 PROVE  /\ rop[r] \in 0 .. nops
                        /\ rop[r] = 0 <=> rstate'[r] \in {"absent", "active"}
                        /\ rop[r] # 0 => RevNs[r] = trash'[rop[r]].ns
        BY <1>1 DEF TakenHasOp
    <2>1. rop[r] \in 0 .. nops /\ (rop[r] # 0 => rop[r] \in 1 .. nops)
        BY <1>0 DEF TakenHasOp
    <2>2. rop[r] = 0 <=> rstate'[r] \in {"absent", "active"}
        BY <1>0, <1>1, <1>2 DEF TakenHasOp
    <2> QED
        BY <2>1, <2>2, <1>3 DEF TakenHasOp
<1>8. OpHeads'
    <2> SUFFICES ASSUME NEW o \in 1 .. nops
                 PROVE  LET t == trash'[o]
                        IN  /\ t.oldHead \in Rev
                            /\ RevNs[t.oldHead] = t.ns
                            /\ t.newHead \in AncOrSelf(t.oldHead) \cup {None}
                            /\ t.newHead # t.oldHead
                            /\ t.newHead # None => RevNs[t.newHead] = t.ns
        BY <1>1 DEF OpHeads
    <2> QED
        BY <1>3 DEF OpHeads
<1>9. BaseHeld'
    <2> SUFFICES ASSUME NEW o \in 1 .. nops, trash'[o].state = "active", trash'[o].newHead # None
                 PROVE  \/ rstate'[trash'[o].newHead] = "active"
                        \/ rstate'[trash'[o].newHead] = "trashed" /\ rop[trash'[o].newHead] > o
        BY <1>1 DEF BaseHeld
    <2>1. /\ o \notin S /\ trash[o].state = "active" /\ trash'[o].newHead = trash[o].newHead
          /\ trash[o].newHead \in Rev /\ RevNs[trash[o].newHead] = trash[o].ns
        BY <1>3 DEF TrashRow, RevOrNone, OpHeads
    <2>2. trash[o].newHead \notin dead
        <3> SUFFICES ASSUME trash[o].newHead \in dead PROVE FALSE
            OBVIOUS
        <3>1. o \in ActiveOps(n) \ S
            BY <2>1, <1>2 DEF ActiveOps
        <3> QED
            BY <3>1, <1>0
    <2> QED
        BY <2>1, <2>2, <1>1 DEF BaseHeld
<1>10. NoOrphan'
    <2> SUFFICES ASSUME NEW x \in Rev, rstate'[x] \in {"active", "trashed"}, Parent[x] # None
                 PROVE  rstate'[Parent[x]] \in {"active", "trashed"}
        BY DEF NoOrphan
    <2> DEFINE p == Parent[x]
               q == rop[x]
    <2>1. x \notin dead /\ rstate'[x] = rstate[x] /\ p \in Rev /\ rstate[p] \in {"active", "trashed"}
        BY <1>1, ConstantsAssumption DEF NoOrphan
    <2> SUFFICES ASSUME p \in dead PROVE FALSE
        BY <2>1, <1>1
    <2>2. RevNs[p] = n /\ rstate[p] = "trashed" /\ rop[p] \in S
        BY <2>1, <1>2
    <2>3. CASE rstate[x] = "active"
        <3>1. RevNs[x] \in Ns /\ x \in AncOrSelf(head[RevNs[x]]) /\ head[RevNs[x]] \in RevOrNone
            BY <2>3, ConstantsAssumption DEF ActiveIsHeadChain, TypeOK, TablesOK
        <3>2. p \in AncOrSelf(head[RevNs[x]])
            BY <3>1, <2>1, AncClosed DEF ParentClosed
        <3>3. rstate[p] = "active"
            BY <3>1, <3>2, HeadActive
        <3> QED
            BY <3>3, <2>2
    <2>4. CASE rstate[x] = "trashed"
        <3>1. q \in 1 .. nops /\ RevNs[x] = trash[q].ns
            BY <2>4, <1>0 DEF TakenHasOp
        <3>2. /\ trash[q].state = "active"
              /\ \A r \in Rev : rop[r] = q <=> r \in AncOrSelf(trash[q].oldHead) \ AncOrSelf(trash[q].newHead)
            BY <3>1, <2>4 DEF TrashIsSegment
        <3>3. q \notin S
            BY <2>1, <2>4, <3>1, <1>0, <1>2
        <3>4. rop[p] # q
            BY <3>3, <2>2
        <3>5. /\ trash[q].oldHead \in Rev /\ trash[q].newHead \in RevOrNone
              /\ trash[q].newHead \in AncOrSelf(trash[q].oldHead) \cup {None}
              /\ trash[q].newHead # None => RevNs[trash[q].newHead] = trash[q].ns
            BY <3>1, <1>3 DEF OpHeads, TrashRow
        <3>6. x \in AncOrSelf(trash[q].oldHead) \ AncOrSelf(trash[q].newHead)
            BY <3>2
        <3>7. p = trash[q].newHead
            BY <3>2, <3>4, <3>5, <3>6, <2>1, SegmentBase
        <3>8. q \in ActiveOps(n) \ S
            BY <3>1, <3>2, <3>3, <3>5, <3>7, <2>2 DEF ActiveOps
        <3> QED
            BY <3>7, <3>8, <1>0
    <2> QED
        BY <2>1, <2>3, <2>4
<1>11. ViewBehind'
    BY <1>1 DEF ViewBehind
<1> QED
    BY <1>4, <1>5, <1>6, <1>7, <1>8, <1>9, <1>10, <1>11

\* Reading a head state gives the reader the current one.
LEMMA ReadStep ==
    ASSUME IInv, NEW c \in Client, NEW n \in Ns, Read(c, n)
    PROVE  IInv'
<1> USE DEF IInv
<1>1. UNCHANGED hvars
    BY DEF Read, get_head_state
<1>2. TypeOK'
    BY <1>1 DEF TypeOK, TablesOK, Read, get_head_state, hvars, HeadView
<1>3. ViewBehind'
    <2>1. epoch[n] \in Nat /\ view' = [view EXCEPT ![c] = [ns |-> n, head |-> head[n], epoch |-> epoch[n]]]
        BY DEF TypeOK, TablesOK, Read, get_head_state
    <2>2. \A d \in Client : d # c => view'[d] = view[d] /\ moved'[d] = moved[d]
        BY DEF TypeOK, TablesOK, Read, get_head_state
    <2>3. view'[c] = [ns |-> n, head |-> head[n], epoch |-> epoch[n]] /\ moved'[c] = FALSE
        BY DEF TypeOK, TablesOK, Read, get_head_state
    <2> QED
        BY <1>1, <2>1, <2>2, <2>3 DEF ViewBehind, hvars
<1> QED
    BY <1>1, <1>2, <1>3
    DEF hvars, ActiveIsHeadChain, TrashIsSegment, TakenHasOp, OpHeads, BaseHeld, NoOrphan

\* Creating a namespace, an expiry and a repeated commit touch no history.
LEMMA OtherStep ==
    ASSUME IInv,
           \/ (\E n \in Ns : create_namespace(n)) /\ UNCHANGED <<view, moved>>
           \/ Lapse /\ UNCHANGED <<view, moved>>
           \/ \E c \in Client, r \in Rev : CommitAgain(c, r)
           \/ UNCHANGED vars
    PROVE  IInv'
<1> USE DEF IInv
<1>1. /\ UNCHANGED <<head, epoch, rstate, rop, roots, trash, nops, view, moved>>
      /\ namespaces' \subseteq Ns /\ lapsed' \in 0 .. nops
    BY ConstantsAssumption
    DEF TypeOK, TablesOK, create_namespace, Lapse, CommitAgain, commit_revision_root_again, vars, hvars
<1>2. TypeOK'
    BY <1>1 DEF TypeOK, TablesOK
<1> QED
    BY <1>1, <1>2
    DEF ActiveIsHeadChain, TrashIsSegment, TakenHasOp, OpHeads, BaseHeld, NoOrphan, ViewBehind

-----------------------------------------------------------------------------
(* The theorems.                                                           *)

\* An empty database satisfies the inductive invariant.
LEMMA InitIInv == Init => IInv
<1> SUFFICES ASSUME Init PROVE IInv
    OBVIOUS
<1>1. TypeOK
    BY ConstantsAssumption DEF Init, InitTables, TypeOK, TablesOK, RevOrNone, Op, NoRow, TrashRow
<1>2. 1 .. nops = {}
    BY DEF Init, InitTables
<1>3. ActiveIsHeadChain
    BY AncNone DEF Init, InitTables, ActiveIsHeadChain
<1>4. TakenHasOp /\ NoOrphan /\ ViewBehind
    BY DEF Init, InitTables, TakenHasOp, NoOrphan, ViewBehind
<1> QED
    BY <1>1, <1>2, <1>3, <1>4 DEF IInv, TrashIsSegment, OpHeads, BaseHeld

\* Every transaction of the metadata store preserves it.
LEMMA StepIInv == IInv /\ [Next]_vars => IInv'
BY CommitStep, TruncateStep, RestoreStep, PurgeStep, ReadStep, OtherStep DEF Next, Unconditional

\* The inductive invariant gives the properties that do not name it.
LEMMA IInvGives == IInv => RestoreBaseRetained /\ MatchMeansUnmoved
<1> SUFFICES ASSUME IInv PROVE RestoreBaseRetained /\ MatchMeansUnmoved
    OBVIOUS
<1> USE DEF IInv
<1>1. RestoreBaseRetained
    <2> SUFFICES ASSUME NEW o \in 1 .. nops, trash[o].state = "active", trash[o].newHead # None,
                        rstate[trash[o].newHead] # "active"
                 PROVE  LET b == trash[o].newHead
                        IN  rstate[b] = "trashed" /\ rop[b] > o /\ trash[rop[b]].state = "active"
        BY DEF RestoreBaseRetained
    <2> DEFINE b == trash[o].newHead
    <2>1. rstate[b] = "trashed" /\ rop[b] > o
        BY DEF BaseHeld
    <2>2. o \in Op /\ b \in Rev
        BY ConstantsAssumption DEF TypeOK, TablesOK, TrashRow, RevOrNone, Op
    <2>3. rop[b] \in 1 .. nops
        BY <2>1, <2>2, ConstantsAssumption DEF TakenHasOp, TypeOK, TablesOK
    <2> QED
        BY <2>1, <2>2, <2>3 DEF TrashIsSegment
<1>2. MatchMeansUnmoved
    BY DEF ViewBehind, MatchMeansUnmoved, HeadMatches, EpochMatches, TypeOK, TablesOK
<1> QED
    BY <1>1, <1>2

\* In every behaviour of the metadata store the inductive invariant holds.
THEOREM Inductive == Spec => []IInv
BY InitIInv, StepIInv, PTL DEF Spec

\* Every column of the database keeps a value of its type.
THEOREM TypeCorrect == Spec => []TypeOK
<1>1. IInv => TypeOK
    BY DEF IInv
<1> QED
    BY <1>1, Inductive, PTL

\* The active revisions of a namespace are the ancestors of its head: what
\* commit, truncate and restore of metadata.rs keep between them.
THEOREM HistoryIsChain == Spec => []ActiveIsHeadChain
<1>1. IInv => ActiveIsHeadChain
    BY DEF IInv
<1> QED
    BY <1>1, Inductive, PTL

\* A trash operation owns exactly the stretch it cut off, so restore_history_trash
\* can put it back as one piece.
THEOREM SegmentsStayWhole == Spec => []TrashIsSegment
<1>1. IInv => TrashIsSegment
    BY DEF IInv
<1> QED
    BY <1>1, Inductive, PTL

\* A purge leaves no kept revision without its parent.
THEOREM PurgeIsSafe == Spec => []NoOrphan
<1>1. IInv => NoOrphan
    BY DEF IInv
<1> QED
    BY <1>1, Inductive, PTL

\* No purge takes away the head that a restorable operation would be restored onto,
\* in whatever order nested truncations are purged.
THEOREM BasesAreKept == Spec => []RestoreBaseRetained
<1>1. IInv => RestoreBaseRetained
    BY IInvGives
<1> QED
    BY <1>1, Inductive, PTL

\* A request whose expected head and epoch match was planned on the current
\* history: nothing moved in between, not even there and back.
THEOREM NoABA == Spec => []MatchMeansUnmoved
<1>1. IInv => MatchMeansUnmoved
    BY IInvGives
<1> QED
    BY <1>1, Inductive, PTL

-----------------------------------------------------------------------------
(* The refinement.                                                         *)

\* A commit is an Advance of the abstract register.
LEMMA CommitRefines ==
    ASSUME IInv, NEW c \in Client, NEW r \in Rev, Commit(c, r)
    PROVE  Register!Advance(RevNs[r], r)
<1>1. /\ RevNs[r] \in Ns /\ view[c].ns = RevNs[r] /\ rstate[r] = "absent"
      /\ Parent[r] = head[RevNs[r]]
    BY ConstantsAssumption DEF Commit, commit_revision_root, Committable, HeadMatches
<1>2. /\ rstate' = [rstate EXCEPT ![r] = "active"] /\ head' = [head EXCEPT ![RevNs[r]] = r]
      /\ epoch' = epoch /\ rstate \in [Rev -> {"absent", "active", "trashed", "purged"}]
    BY DEF Commit, commit_revision_root, IInv, TypeOK, TablesOK
<1>3. Published' = Published \cup {r}
    BY <1>1, <1>2 DEF Published
<1>4. Erased' = Erased
    BY <1>1, <1>2 DEF Erased
<1> QED
    BY <1>1, <1>2, <1>3, <1>4 DEF Register!Advance, Published

\* A truncation is a Rewrite to a proper ancestor.
LEMMA TruncateRefines ==
    ASSUME IInv, NEW c \in Client, NEW h \in RevOrNone, Truncate(c, h)
    PROVE  Register!Rewrite(view[c].ns, h)
<1> DEFINE n == view[c].ns
<1>1. /\ n \in Ns /\ h # head[n] /\ h \in AncOrSelf(head[n]) \cup {None}
      /\ \A x \in Removed(n, h) : rstate[x] = "active"
    BY DEF Truncate, truncate_history, Truncatable, IInv, TypeOK, TablesOK, HeadView
<1>2. h # None => h \in Rev /\ rstate[h] = "active" /\ RevNs[h] = n
    BY <1>1, HeadActive DEF IInv
<1>3. /\ rstate' = [r \in Rev |-> IF r \in Removed(n, h) THEN "trashed" ELSE rstate[r]]
      /\ head' = [head EXCEPT ![n] = h] /\ epoch' = [epoch EXCEPT ![n] = @ + 1]
    BY DEF Truncate, truncate_history, NextEpoch
<1>4. Published' = Published /\ Erased' = Erased
    BY <1>1, <1>3 DEF Published, Erased
<1> QED
    BY <1>1, <1>2, <1>3, <1>4 DEF Register!Rewrite, Register!Kept, Published, Erased

\* A restore is a Rewrite to a revision that was not erased.
LEMMA RestoreRefines ==
    ASSUME IInv, NEW c \in Client, NEW o \in Op, Restore(c, o)
    PROVE  Register!Rewrite(view[c].ns, trash[o].oldHead)
<1> DEFINE n == view[c].ns
           old == trash[o].oldHead
<1>1. /\ o \in 1 .. nops /\ trash[o].ns = n /\ trash[o].state = "active"
      /\ trash[o].newHead = head[n] /\ n \in Ns /\ nops \in Nat
    BY ConstantsAssumption
    DEF Restore, restore_history_trash, Restorable, IInv, TypeOK, TablesOK, HeadView, Op
<1>2. /\ old \in Rev /\ RevNs[old] = n /\ head[n] # old
      /\ head[n] \in AncOrSelf(old) \cup {None}
    BY <1>1 DEF IInv, OpHeads
<1>3. old \in AncOrSelf(old) \ AncOrSelf(head[n])
    BY <1>2, AncSelf, AncProper, AncNone
<1>4. /\ rop[old] = o
      /\ \A r \in Rev : rop[r] = o => rstate[r] = "trashed"
    BY <1>1, <1>2, <1>3 DEF IInv, TrashIsSegment
<1>5. /\ rstate' = [r \in Rev |-> IF rop[r] = o THEN "active" ELSE rstate[r]]
      /\ head' = [head EXCEPT ![n] = old] /\ epoch' = [epoch EXCEPT ![n] = @ + 1]
    BY DEF Restore, restore_history_trash, NextEpoch, Untrash
<1>6. Published' = Published /\ Erased' = Erased
    BY <1>4, <1>5 DEF Published, Erased
<1> QED
    BY <1>2, <1>4, <1>5, <1>6 DEF Register!Rewrite, Register!Kept, Published, Erased

\* A purge is an Erase.
LEMMA PurgeRefines ==
    ASSUME IInv, IInv', NEW n \in Ns, NEW S \in SUBSET Op, purge_history_trash(n, S)
    PROVE  Register!Erase(TrashedBy(n, S))
<1> DEFINE dead == TrashedBy(n, S)
<1>1. PICK o \in S : o \in 1 .. nops /\ trash[o].ns = n /\ trash[o].state = "active"
    BY DEF purge_history_trash, Purgeable, ActiveOps
<1>2. trash[o].oldHead \in dead
    <2>1. /\ trash[o].oldHead \in Rev
          /\ trash[o].newHead # trash[o].oldHead
          /\ trash[o].newHead \in AncOrSelf(trash[o].oldHead) \cup {None}
        BY <1>1 DEF IInv, OpHeads
    <2>2. trash[o].oldHead \in AncOrSelf(trash[o].oldHead) \ AncOrSelf(trash[o].newHead)
        BY <2>1, AncSelf, AncProper, AncNone
    <2>3. rop[trash[o].oldHead] = o /\ rstate[trash[o].oldHead] = "trashed"
        BY <1>1, <2>1, <2>2 DEF IInv, TrashIsSegment
    <2>4. RevNs[trash[o].oldHead] = n
        BY <1>1 DEF IInv, OpHeads
    <2> QED
        BY <2>1, <2>3, <2>4 DEF TrashedBy
<1>3. /\ rstate' = [r \in Rev |-> IF r \in dead THEN "purged" ELSE rstate[r]]
      /\ UNCHANGED <<head, epoch>> /\ dead \subseteq Rev
      /\ \A r \in dead : rstate[r] = "trashed"
    BY DEF purge_history_trash, TrashedBy
<1>4. Published' = Published /\ Erased' = Erased \cup dead
    BY <1>3 DEF Published, Erased
<1>5. \A m \in Ns : head[m] \notin dead
    <2> SUFFICES ASSUME NEW m \in Ns, head[m] \in dead PROVE FALSE
        OBVIOUS
    <2>1. head[m] # None
        BY <1>3, ConstantsAssumption
    <2> QED
        BY <2>1, <1>3, HeadActive DEF IInv
<1>6. \A r \in (Published \ Erased) \ dead : Parent[r] \notin dead
    <2> SUFFICES ASSUME NEW r \in (Published \ Erased) \ dead, Parent[r] \in dead PROVE FALSE
        OBVIOUS
    <2>1. r \in Rev /\ rstate[r] \in {"active", "trashed"} /\ rstate'[r] = rstate[r]
        BY <1>3 DEF Published, Erased, IInv, TypeOK, TablesOK
    <2>2. Parent[r] # None /\ rstate'[Parent[r]] = "purged"
        BY <1>3, ConstantsAssumption
    <2> QED
        BY <2>1, <2>2 DEF IInv, NoOrphan
<1>7. dead \subseteq Published \ Erased
    BY <1>3 DEF Published, Erased
<1> QED
    BY <1>2, <1>3, <1>4, <1>5, <1>6, <1>7 DEF Register!Erase, Register!Kept

\* The rows of the metadata store implement the abstract register: inside an
\* epoch a head only advances, any other move is to kept history and changes
\* the epoch, and what is purged is nothing kept depends on.
THEOREM RefinesRegister == Spec => ImplementsRegister
<1>1. Init => Register!Init
    BY DEF Init, InitTables, Register!Init, Published, Erased
<1>2. IInv /\ IInv' /\ [Next]_vars => [Register!Next]_(Register!vars)
    <2> SUFFICES ASSUME IInv, IInv', [Next]_vars
                 PROVE  Register!Next \/ UNCHANGED Register!vars
        OBVIOUS
    <2>1. ASSUME NEW c \in Client, NEW r \in Rev, Commit(c, r)
          PROVE  Register!Next
        BY <2>1, CommitRefines, ConstantsAssumption DEF Register!Next
    <2>2. ASSUME NEW c \in Client, NEW h \in RevOrNone, Truncate(c, h)
          PROVE  Register!Next
        <3>1. view[c].ns \in Ns /\ h \in Rev \cup {None}
            BY <2>2 DEF Truncate, truncate_history, IInv, TypeOK, TablesOK, HeadView, RevOrNone
        <3> QED
            BY <3>1, <2>2, TruncateRefines DEF Register!Next
    <2>3. ASSUME NEW c \in Client, NEW o \in Op, Restore(c, o)
          PROVE  Register!Next
        <3>1. view[c].ns \in Ns
            BY <2>3 DEF Restore, restore_history_trash, IInv, TypeOK, TablesOK, HeadView
        <3>2. trash[o].oldHead \in Rev \cup {None}
            BY <2>3, ConstantsAssumption
            DEF Restore, restore_history_trash, IInv, TypeOK, TablesOK, TrashRow, RevOrNone
        <3> QED
            BY <3>1, <3>2, <2>3, RestoreRefines DEF Register!Next
    <2>4. ASSUME NEW n \in Ns, NEW S \in SUBSET Op, purge_history_trash(n, S)
          PROVE  Register!Next
        <3>1. TrashedBy(n, S) \in SUBSET Rev
            BY DEF TrashedBy
        <3> QED
            BY <3>1, <2>4, PurgeRefines DEF Register!Next
    <2>5. ASSUME \/ \E n \in Ns : create_namespace(n)
                 \/ \E c \in Client, n \in Ns : Read(c, n)
                 \/ \E c \in Client, r \in Rev : CommitAgain(c, r)
                 \/ Lapse
                 \/ UNCHANGED vars
          PROVE  UNCHANGED Register!vars
        BY <2>5
        DEF create_namespace, Read, get_head_state, CommitAgain, commit_revision_root_again, Lapse, vars, hvars,
            Register!vars, Published, Erased
    <2> QED
        BY <2>1, <2>2, <2>3, <2>4, <2>5 DEF Next, Unconditional
<1> QED
    BY <1>1, <1>2, Inductive, PTL DEF Spec, ImplementsRegister, Register!Spec

=============================================================================
