---------------------------- MODULE HistoryStore ----------------------------
(***************************************************************************)
(* The metadata store used by clients that read a namespace's (head,       *)
(* epoch), work for a while, and send a request that expects them.  Any    *)
(* number of other requests may be served in between; an answer may be     *)
(* lost, which is the client keeping the view it had.                      *)
(***************************************************************************)
EXTENDS MetadataStore

CONSTANT Client

VARIABLES
    view,       \* what each client last read, None before it reads
    moved       \* history: did that namespace's head or epoch move since

vars == <<hvars, view, moved>>

Init ==
    /\ InitTables
    /\ view = [c \in Client |-> None]
    /\ moved = [c \in Client |-> FALSE]

\* History: every client whose last read was of namespace n now lags.
HeadMoved(n) ==
    /\ moved' = [c \in Client |->
                    IF view[c] # None /\ view[c].ns = n THEN TRUE ELSE moved[c]]
    /\ UNCHANGED view

Read(c, n) ==
    /\ n \in namespaces
    /\ view' = [view EXCEPT ![c] = get_head_state(n)]
    /\ moved' = [moved EXCEPT ![c] = FALSE]
    /\ UNCHANGED hvars

Commit(c, r) ==
    /\ view[c] # None
    /\ commit_revision_root(view[c], r)
    /\ HeadMoved(RevNs[r])

CommitAgain(c, r) ==
    /\ view[c] # None
    /\ commit_revision_root_again(view[c], r)
    /\ UNCHANGED <<view, moved>>

Truncate(c, newHead) ==
    /\ view[c] # None
    /\ truncate_history(view[c], newHead)
    /\ HeadMoved(view[c].ns)

Restore(c, o) ==
    /\ view[c] # None
    /\ restore_history_trash(view[c], o)
    /\ HeadMoved(view[c].ns)

\* Requests and events that expect no head.
Unconditional ==
    /\ \/ \E n \in Ns : create_namespace(n)
       \/ \E n \in Ns, S \in SUBSET Op : purge_history_trash(n, S)
       \/ Lapse
    /\ UNCHANGED <<view, moved>>

Next ==
    \/ \E c \in Client, n \in Ns : Read(c, n)
    \/ \E c \in Client, r \in Rev : Commit(c, r)
    \/ \E c \in Client, r \in Rev : CommitAgain(c, r)
    \/ \E c \in Client, h \in RevOrNone : Truncate(c, h)
    \/ \E c \in Client, o \in Op : Restore(c, o)
    \/ Unconditional

Spec == Init /\ [][Next]_vars

-----------------------------------------------------------------------------
(* Properties.                                                             *)

\* Every column, and every client's view, holds a value of its type.
TypeOK ==
    /\ TablesOK
    /\ view \in [Client -> HeadView \cup {None}]
    /\ moved \in [Client -> BOOLEAN]

\* A client whose (head, epoch) still match has missed nothing: had the head
\* moved away and come back in between (a truncation undone by a restore),
\* the epoch would differ.  A head comparison alone does not give this.
MatchMeansUnmoved ==
    \A c \in Client :
        view[c] # None /\ HeadMatches(view[c]) /\ EpochMatches(view[c]) => ~moved[c]

=============================================================================
