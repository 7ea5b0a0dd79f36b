---------------------------- MODULE SnapshotShelf ----------------------------
(***************************************************************************)
(* What the local repository promises its user about snapshots: a snapshot *)
(* keeps the conversations it was made with, moves between the list and    *)
(* the trash whole, and is deleted only from the trash, together with the  *)
(* other entries of the same request.                                      *)
(***************************************************************************)
CONSTANTS SnapshotIds, Contents, NoContents

VARIABLES shelf,    \* where each snapshot is
          contents  \* what it holds

ShelfInit ==
    /\ shelf = [s \in SnapshotIds |-> "absent"]
    /\ contents = [s \in SnapshotIds |-> NoContents]

Create(s, c) ==
    /\ shelf[s] = "absent"
    /\ shelf' = [shelf EXCEPT ![s] = "listed"]
    /\ contents' = [contents EXCEPT ![s] = c]

Discard(s) ==
    /\ shelf[s] = "listed"
    /\ shelf' = [shelf EXCEPT ![s] = "trashed"]
    /\ UNCHANGED contents

PutBack(s) ==
    /\ shelf[s] = "trashed"
    /\ shelf' = [shelf EXCEPT ![s] = "listed"]
    /\ UNCHANGED contents

Destroy(doomed) ==
    /\ \A s \in doomed : shelf[s] = "trashed"
    /\ shelf' = [s \in SnapshotIds |-> IF s \in doomed THEN "deleted" ELSE shelf[s]]
    /\ UNCHANGED contents

ShelfNext ==
    \/ \E s \in SnapshotIds, c \in Contents : Create(s, c)
    \/ \E s \in SnapshotIds : Discard(s) \/ PutBack(s)
    \/ \E doomed \in SUBSET SnapshotIds : Destroy(doomed)

ShelfSpec == ShelfInit /\ [][ShelfNext]_<<shelf, contents>>
=============================================================================
