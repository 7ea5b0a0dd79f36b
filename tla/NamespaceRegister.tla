-------------------------- MODULE NamespaceRegister --------------------------
(***************************************************************************)
(* What a namespace of the sync server promises to its clients, without    *)
(* the trash: a head that, inside one epoch, only ever advances to a child *)
(* of itself; any other move of the head is announced by a new epoch and   *)
(* lands on history that still exists; and what is erased for good is      *)
(* never the head, nor an ancestor of anything that is kept.               *)
(***************************************************************************)
EXTENDS Integers

CONSTANTS Ns, Rev, None, Parent, RevNs

VARIABLES
    head,       \* current head of each namespace
    epoch,      \* its epoch
    published,  \* every revision that was ever a head
    erased      \* those that can never be one again

vars == <<head, epoch, published, erased>>

Kept == published \ erased

Init ==
    /\ head = [n \in Ns |-> None]
    /\ epoch = [n \in Ns |-> 0]
    /\ published = {}
    /\ erased = {}

\* A client publishes a revision made on top of the head.
Advance(n, r) ==
    /\ r \notin published
    /\ RevNs[r] = n
    /\ Parent[r] = head[n]
    /\ head' = [head EXCEPT ![n] = r]
    /\ published' = published \cup {r}
    /\ UNCHANGED <<epoch, erased>>

\* History is cut or put back; every client learns of it by the epoch.
Rewrite(n, h) ==
    /\ h # head[n]
    /\ h # None => h \in Kept /\ RevNs[h] = n
    /\ head' = [head EXCEPT ![n] = h]
    /\ epoch' = [epoch EXCEPT ![n] = @ + 1]
    /\ UNCHANGED <<published, erased>>

\* Part of the history that no kept revision descends from is given up.
Erase(S) ==
    /\ S # {}
    /\ S \subseteq Kept
    /\ \A n \in Ns : head[n] \notin S
    /\ \A r \in Kept \ S : Parent[r] \notin S
    /\ erased' = erased \cup S
    /\ UNCHANGED <<head, epoch, published>>

Next ==
    \/ \E n \in Ns, r \in Rev : Advance(n, r)
    \/ \E n \in Ns, h \in Rev \cup {None} : Rewrite(n, h)
    \/ \E S \in SUBSET Rev : Erase(S)

Spec == Init /\ [][Next]_vars

=============================================================================
