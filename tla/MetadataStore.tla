---------------------------- MODULE MetadataStore ---------------------------
(***************************************************************************)
(* The revision history the sync server keeps in SQLite: namespaces with   *)
(* a head and an epoch, revisions, and the trash operations that truncate, *)
(* restore and purge history (apps/sync-server/src/metadata.rs).           *)
(*                                                                         *)
(* Every writing operation of MetadataStore is one IMMEDIATE transaction,  *)
(* so every one of them is one action.  A request that fails a check rolls *)
(* back, and is the action not being enabled.                              *)
(*                                                                         *)
(* A revision id is the hash of its root object, which names the namespace *)
(* and the parent: both are constant functions of the revision here.       *)
(*                                                                         *)
(* An operator named X_Slip is not part of the specification: it is X with *)
(* a mistake a maintainer could make, kept to show which property notices. *)
(***************************************************************************)
EXTENDS Integers, FiniteSets

CONSTANTS
    Ns,        \* namespace ids
    Rev,       \* revision ids that clients may try to commit
    None,      \* the SQL NULL of a head or a parent
    Parent,    \* the parent_revision inside each revision root
    RevNs,     \* the namespace_id inside each revision root
    MaxOps     \* bound: number of trash operations ever created

ASSUME ConstantsAssumption ==
    /\ None \notin Rev
    /\ Parent \in [Rev -> Rev \cup {None}]
    /\ RevNs \in [Rev -> Ns]
    /\ MaxOps \in Nat

\* Trash operations, numbered in the order they are created.  Their
\* expires_at is the creation time plus thirty days, so they also expire in
\* this order.
Op == 1 .. MaxOps

RevOrNone == Rev \cup {None}

VARIABLES
    namespaces, \* rows of table namespaces
    head,       \* head_revision
    epoch,      \* namespace_epoch
    rstate,     \* revisions.state; "absent" when there is no row
    rop,        \* revisions.trash_operation_id, 0 for NULL
    roots,      \* rows of table revision_roots
    trash,      \* rows 1..nops of table revision_trash_operations
    nops,       \* how many of them exist
    lapsed      \* operations 1..lapsed have expires_at <= now

hvars == <<namespaces, head, epoch, rstate, rop, roots, trash, nops, lapsed>>

TrashRow == [ns : Ns, oldHead : RevOrNone, newHead : RevOrNone,
             state : {"active", "restored", "purged"}]
NoRow == [ns |-> None]
HeadView == [ns : Ns, head : RevOrNone, epoch : Nat]

-----------------------------------------------------------------------------
(* Ancestry.  Following parent_revision from r visits the least set that   *)
(* holds r and is closed under parents; stating it that way, and not       *)
(* recursively, is what lets it be reasoned about for every Rev.           *)

ParentClosed(S) == \A x \in S : Parent[x] \in S \cup {None}

AncOrSelf(r) ==
    IF r = None THEN {}
    ELSE {a \in Rev : \A S \in SUBSET Rev : r \in S /\ ParentClosed(S) => a \in S}

\* Content addressing: a root can only name a parent that was hashed before.
ASSUME AcyclicAssumption == \A r \in Rev : r \notin AncOrSelf(Parent[r])

-----------------------------------------------------------------------------
InitTables ==
    /\ namespaces = {}
    /\ head = [n \in Ns |-> None]
    /\ epoch = [n \in Ns |-> 0]
    /\ rstate = [r \in Rev |-> "absent"]
    /\ rop = [r \in Rev |-> 0]
    /\ roots = {}
    /\ trash = [o \in Op |-> NoRow]
    /\ nops = 0
    /\ lapsed = 0

create_namespace(n) ==
    /\ n \notin namespaces
    /\ namespaces' = namespaces \cup {n}
    /\ UNCHANGED <<head, epoch, rstate, rop, roots, trash, nops, lapsed>>

\* get_head_state: the (head, epoch) a client reads and sends back later as
\* expected_head and expected_epoch.
get_head_state(n) == [ns |-> n, head |-> head[n], epoch |-> epoch[n]]

\* The compare-and-swap both expected values go through.
HeadMatches(v) == head[v.ns] = v.head
EpochMatches(v) == epoch[v.ns] = v.epoch

\* Every rewrite of history, and only a rewrite, starts a new epoch.
NextEpoch_Slip(n) == UNCHANGED epoch
NextEpoch(n) == epoch' = [epoch EXCEPT ![n] = @ + 1]

-----------------------------------------------------------------------------
Committable_Slip(v, r) ==
    RevNs[r] = v.ns /\ EpochMatches(v) /\ rstate[r] = "absent" /\ HeadMatches(v)

\* commit_revision_root finds no row with this id, and the root names the
\* expected head as its parent, which is a revision of the same namespace.
Committable(v, r) ==
    /\ RevNs[r] = v.ns
    /\ EpochMatches(v)
    /\ rstate[r] = "absent"
    /\ HeadMatches(v)
    /\ Parent[r] = v.head
    /\ v.head # None => rstate[v.head] # "absent" /\ RevNs[v.head] = v.ns

commit_revision_root(v, r) ==
    /\ Committable(v, r)
    /\ rstate' = [rstate EXCEPT ![r] = "active"]
    /\ head' = [head EXCEPT ![RevNs[r]] = r]
    /\ roots' = roots \cup {r}
    /\ UNCHANGED <<namespaces, epoch, rop, trash, nops, lapsed>>

\* The retry of a commit whose answer was lost: AlreadyCommitted, no change.
commit_revision_root_again(v, r) ==
    /\ RevNs[r] = v.ns
    /\ EpochMatches(v)
    /\ rstate[r] # "absent"
    /\ head[RevNs[r]] = r
    /\ UNCHANGED hvars

-----------------------------------------------------------------------------
\* What the parent walk of truncate_history collects, and when it succeeds.
Removed(n, newHead) == AncOrSelf(head[n]) \ AncOrSelf(newHead)

Truncatable(v, newHead) ==
    /\ v.ns \in namespaces
    /\ HeadMatches(v)
    /\ EpochMatches(v)
    /\ newHead # head[v.ns]
    /\ newHead \in AncOrSelf(head[v.ns]) \cup {None}
    /\ \A r \in Removed(v.ns, newHead) : rstate[r] = "active" /\ RevNs[r] = v.ns

truncate_history(v, newHead) ==
    /\ nops < MaxOps
    /\ Truncatable(v, newHead)
    /\ LET n == v.ns
           gone == Removed(n, newHead)
       IN  /\ rstate' = [r \in Rev |-> IF r \in gone THEN "trashed" ELSE rstate[r]]
           /\ rop' = [r \in Rev |-> IF r \in gone THEN nops + 1 ELSE rop[r]]
           /\ trash' = [trash EXCEPT ![nops + 1] =
                           [ns |-> n, oldHead |-> head[n], newHead |-> newHead,
                            state |-> "active"]]
           /\ nops' = nops + 1
           /\ head' = [head EXCEPT ![n] = newHead]
           /\ NextEpoch(n)
    /\ UNCHANGED <<namespaces, roots, lapsed>>

-----------------------------------------------------------------------------
Restorable_Slip(v, o) ==
    /\ HeadMatches(v) /\ EpochMatches(v)
    /\ trash[o].ns = v.ns /\ trash[o].state = "active" /\ o > lapsed

Restorable(v, o) ==
    /\ HeadMatches(v)
    /\ EpochMatches(v)
    /\ trash[o].ns = v.ns
    /\ trash[o].state = "active"
    /\ trash[o].newHead = head[v.ns]
    /\ o > lapsed

\* UPDATE revisions SET state = 'active', trash_operation_id = NULL.
Untrash_Slip(o) ==
    /\ rstate' = [r \in Rev |-> IF rop[r] = o THEN "active" ELSE rstate[r]]
    /\ UNCHANGED rop

Untrash(o) ==
    /\ rstate' = [r \in Rev |-> IF rop[r] = o THEN "active" ELSE rstate[r]]
    /\ rop' = [r \in Rev |-> IF rop[r] = o THEN 0 ELSE rop[r]]

restore_history_trash(v, o) ==
    /\ o <= nops
    /\ Restorable(v, o)
    /\ LET n == v.ns
       IN  /\ Untrash(o)
           /\ head' = [head EXCEPT ![n] = trash[o].oldHead]
           /\ NextEpoch(n)
           /\ trash' = [trash EXCEPT ![o].state = "restored"]
    /\ UNCHANGED <<namespaces, roots, nops, lapsed>>

-----------------------------------------------------------------------------
ActiveOps(n) == {o \in 1 .. nops : trash[o].ns = n /\ trash[o].state = "active"}

TrashedBy(n, S) == {r \in Rev : RevNs[r] = n /\ rstate[r] = "trashed" /\ rop[r] \in S}

Purgeable_Slip(n, S) == S # {} /\ S \subseteq ActiveOps(n)

Purgeable_SlipExpired(n, S) ==
    /\ S # {} /\ S \subseteq ActiveOps(n)
    /\ \A o \in ActiveOps(n) \ S : o > lapsed => trash[o].newHead \notin TrashedBy(n, S)

\* build_history_trash_purge_plan: the selection is active and not empty, and
\* no operation that stays would be restored onto a revision that goes.
Purgeable(n, S) ==
    /\ S # {}
    /\ S \subseteq ActiveOps(n)
    /\ \A o \in ActiveOps(n) \ S : trash[o].newHead \notin TrashedBy(n, S)

MarkPurged_Slip(S) == trash' = [o \in Op |-> IF o \in S THEN NoRow ELSE trash[o]]

MarkPurged(S) ==
    trash' = [o \in Op |-> IF o \in S THEN [trash[o] EXCEPT !.state = "purged"] ELSE trash[o]]

\* plan_history_trash_purge and commit_history_trash_purge, which compares
\* the plan with the current one before it applies it.
purge_history_trash(n, S) ==
    /\ n \in namespaces
    /\ Purgeable(n, S)
    /\ roots' = roots \ TrashedBy(n, S)
    /\ rstate' = [r \in Rev |-> IF r \in TrashedBy(n, S) THEN "purged" ELSE rstate[r]]
    /\ MarkPurged(S)
    /\ UNCHANGED <<namespaces, head, epoch, rop, nops, lapsed>>

\* The wall clock passes the next expires_at.
Lapse ==
    /\ lapsed < nops
    /\ lapsed' = lapsed + 1
    /\ UNCHANGED <<namespaces, head, epoch, rstate, rop, roots, trash, nops>>

-----------------------------------------------------------------------------
(* Properties.                                                             *)

\* Every column holds a value of its type, and the rows of the trash table
\* are the first nops ones.
TablesOK ==
    /\ namespaces \subseteq Ns
    /\ head \in [Ns -> RevOrNone]
    /\ epoch \in [Ns -> Nat]
    /\ rstate \in [Rev -> {"absent", "active", "trashed", "purged"}]
    /\ rop \in [Rev -> 0 .. MaxOps]
    /\ roots \subseteq Rev
    /\ trash \in [Op -> TrashRow \cup {NoRow}]
    /\ nops \in 0 .. MaxOps
    /\ \A o \in Op : o <= nops <=> trash[o] \in TrashRow
    /\ lapsed \in 0 .. nops

\* The active revisions of a namespace are exactly the chain of parents of
\* its head, after any sequence of commits, truncations, restores and purges:
\* what reachable_objects keeps (state = 'active') is what a client that
\* walks the head's parents reads.
ActiveIsHeadChain ==
    \A n \in Ns : {r \in Rev : RevNs[r] = n /\ rstate[r] = "active"} = AncOrSelf(head[n])

\* A trash operation owns exactly the stretch of history between its two
\* heads until it is restored, so that restoring it puts back all it took
\* and nothing else (the UPDATEs of truncate_history, restore_history_trash
\* and commit_history_trash_purge select by trash_operation_id).
TrashIsSegment ==
    \A o \in 1 .. nops :
        LET mine == {r \in Rev : rop[r] = o}
        IN  /\ mine = IF trash[o].state = "restored" THEN {}
                      ELSE AncOrSelf(trash[o].oldHead) \ AncOrSelf(trash[o].newHead)
            /\ \A r \in mine :
                  rstate[r] = IF trash[o].state = "active" THEN "trashed" ELSE "purged"

\* The head an unexpired operation would be restored onto is still there, or
\* is itself held by a later operation that is still restorable: neither a
\* purge nor an expiry of another operation makes it unrestorable.
RestoreBaseRetained ==
    \A o \in 1 .. nops :
        trash[o].state = "active" /\ o > lapsed /\ trash[o].newHead # None =>
            LET b == trash[o].newHead
            IN  \/ rstate[b] = "active"
                \/ /\ rstate[b] = "trashed"
                   /\ rop[b] > o
                   /\ trash[rop[b]].state = "active"

\* Purging never orphans: the parent of a revision that is active or in the
\* trash is one too (the "history-purge-has-dependent-trash" check).
NoOrphan ==
    \A r \in Rev :
        rstate[r] \in {"active", "trashed"} /\ Parent[r] # None =>
            rstate[Parent[r]] \in {"active", "trashed"}

-----------------------------------------------------------------------------
(* The refinement: a namespace's rows implement the abstract register.     *)

Published == {r \in Rev : rstate[r] # "absent"}
Erased == {r \in Rev : rstate[r] = "purged"}

Register == INSTANCE NamespaceRegister WITH published <- Published, erased <- Erased

\* Commits advance the head to a child inside an epoch, truncations and
\* restores move it to kept history under a new epoch, and a purge erases
\* only what nothing kept descends from.
ImplementsRegister == Register!Spec

=============================================================================
