----------------------------- MODULE ThreadMerge -----------------------------
(***************************************************************************)
(* The pure planning functions of sync-core: the three-way merge of whole  *)
(* threads, the validation of conflict choices, the change plan and the    *)
(* composition of a partial push.                                          *)
(*                                                                         *)
(* A tree is the set of conversations of a Codex home or of a revision.    *)
(* Its field v gives the version of each thread, Absent for a thread that  *)
(* is not there.  Two versions are equal exactly when semantic_thread_hash *)
(* is: the machine-local parts of a thread (paths, provider) are not in a  *)
(* version.  The field e is history that the code does not keep: the set   *)
(* of user edits that led to this copy of the thread.  No guard reads it.  *)
(***************************************************************************)
EXTENDS Integers

CONSTANTS Thread, Edit, Absent

ASSUME AbsentAssumption == Absent \notin Edit

Version == Edit \cup {Absent}

Tree == [v : [Thread -> Version], e : [Thread -> SUBSET Edit]]

EmptyTree == [v |-> [t \in Thread |-> Absent], e |-> [t \in Thread |-> {}]]

\* semantic_option_eq on the versions that two trees have of a thread.
Same(x, y, t) == x.v[t] = y.v[t]

thread_states_equal(x, y) == \A t \in Thread : Same(x, y, t)

----------------------------------------------------------------------------
Conflicting_Slip(base, local, remote) ==
    {t \in Thread : /\ ~Same(local, base, t)
                    /\ ~Same(remote, base, t)
                    /\ local.v[t] # Absent
                    /\ ~Same(local, remote, t)}

\* Both sides changed the thread, and not to the same version.
Conflicting(base, local, remote) ==
    {t \in Thread : /\ ~Same(local, base, t)
                    /\ ~Same(remote, base, t)
                    /\ ~Same(local, remote, t)}

\* The version taken for a thread that is not in conflict.
MergedVersion(base, local, remote, t) ==
    IF ~Same(local, base, t) THEN local.v[t]
    ELSE IF ~Same(remote, base, t) THEN remote.v[t]
    ELSE local.v[t]

\* History: a copy equal to a side's copy carries that side's edits.
EditsBehind(version, local, remote, t) ==
    (IF version = local.v[t] THEN local.e[t] ELSE {})
        \cup (IF version = remote.v[t] THEN remote.e[t] ELSE {})

\* The threads merged without a choice; those in conflict are left out.
merge_thread_sets(base, local, remote) ==
    LET clash == Conflicting(base, local, remote)
        version(t) == IF t \in clash THEN Absent
                      ELSE MergedVersion(base, local, remote, t)
    IN  [v |-> [t \in Thread |-> version(t)],
         e |-> [t \in Thread |->
                  IF t \in clash THEN {} ELSE EditsBehind(version(t), local, remote, t)]]

\* What is displayed of each conflict; the record stands for its hash.
conflict_fingerprint(base, local, remote, t) ==
    [thread |-> t, base |-> base.v[t], local |-> local.v[t], remote |-> remote.v[t]]

Conflicts(base, local, remote) ==
    {conflict_fingerprint(base, local, remote, t) : t \in Conflicting(base, local, remote)}

Valid_Slip(resolutions, conflicts) ==
    {r.conflict.thread : r \in resolutions} = {k.thread : k \in conflicts}

\* One resolution per conflict, each for the conflict that was displayed.
Valid(resolutions, conflicts) ==
    /\ {r.conflict : r \in resolutions} = conflicts
    /\ \A r, s \in resolutions : r.conflict.thread = s.conflict.thread => r = s

resolve_thread_sets(base, local, remote, resolutions) ==
    LET merged == merge_thread_sets(base, local, remote)
        clash == Conflicting(base, local, remote)
        side(t) == IF \E r \in resolutions : r.conflict.thread = t /\ r.choice = "local"
                   THEN local ELSE remote
    IN  [v |-> [t \in Thread |-> IF t \in clash THEN side(t).v[t] ELSE merged.v[t]],
         e |-> [t \in Thread |-> IF t \in clash THEN side(t).e[t] ELSE merged.e[t]]]

----------------------------------------------------------------------------
\* The candidates of a change plan that can be staged.
build_change_plan(base, local) == {t \in Thread : ~Same(local, base, t)}

compose_staged_Slip(remote, local, staged) ==
    [v |-> [t \in Thread |-> IF t \in staged THEN local.v[t] ELSE Absent],
     e |-> [t \in Thread |-> IF t \in staged THEN local.e[t] ELSE {}]]

\* The staged changes on top of the complete remote tree.
compose_staged(remote, local, staged) ==
    [v |-> [t \in Thread |-> IF t \in staged THEN local.v[t] ELSE remote.v[t]],
     e |-> [t \in Thread |-> IF t \in staged THEN local.e[t] ELSE remote.e[t]]]
=============================================================================
