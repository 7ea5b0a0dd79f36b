--------------------------- MODULE WorkspaceMapper ---------------------------
(***************************************************************************)
(* WorkspacePathMapper (workspace.rs): the rules that take the workspace   *)
(* paths of a revision to this machine and back, and the plan of a pull,   *)
(* which lists the paths this machine lacks (workspace_mapping.rs).        *)
(*                                                                         *)
(* A path is a sequence of components, each a name and whether it is       *)
(* written in capitals; "win" says that it starts with a drive or a share, *)
(* "back" that it is written with backslashes.                             *)
(***************************************************************************)
EXTENDS Naturals, Sequences, SequencesExt, FiniteSets

Path == [win : BOOLEAN, back : BOOLEAN, parts : Seq([name : STRING, upper : BOOLEAN])]

\* normalize_path_syntax turns backslashes around; normalize_workspace_path_for_match
\* also forgets the case of a Windows path.
normalize_path_syntax(p) == [p EXCEPT !.back = FALSE]
normalize_for_match(p) ==
    [win |-> p.win,
     parts |-> [i \in DOMAIN p.parts |->
                  [name |-> p.parts[i].name, upper |-> p.parts[i].upper /\ ~ p.win]]]
paths_equal(p, q) == normalize_for_match(p) = normalize_for_match(q)
path_is_same_or_child(p, q) ==
    LET child == normalize_for_match(p) parent == normalize_for_match(q) IN
    child.win = parent.win /\ IsPrefix(parent.parts, child.parts)
paths_overlap(p, q) == path_is_same_or_child(p, q) \/ path_is_same_or_child(q, p)

\* A rule holds its prefixes in normalized syntax; no two have equal prefixes on a side.
normalize_rule(r) == [remote |-> normalize_path_syntax(r.remote),
                      local |-> normalize_path_syntax(r.local)]
reject_ambiguous_mappings(rules) ==
    \A r, s \in rules : r # s => ~ paths_equal(r.remote, s.remote) /\ ~ paths_equal(r.local, s.local)

replace_prefix(p, from, to) ==
    [win |-> to.win, back |-> FALSE,
     parts |-> to.parts \o SubSeq(p.parts, Len(from.parts) + 1, Len(p.parts))]

\* The longest matching prefix decides.
Matching(rules, p, from) == {r \in rules : path_is_same_or_child(p, r[from])}
Chosen_Slip(rules, p, from) ==
    CHOOSE r \in Matching(rules, p, from) :
        \A s \in Matching(rules, p, from) : Len(s[from].parts) >= Len(r[from].parts)
Chosen(rules, p, from) ==
    CHOOSE r \in Matching(rules, p, from) :
        \A s \in Matching(rules, p, from) : Len(s[from].parts) <= Len(r[from].parts)
map_path(rules, p, from, to) ==
    IF Matching(rules, p, from) = {} THEN p
    ELSE LET r == Chosen(rules, p, from) IN replace_prefix(p, r[from], r[to])
remote_to_local(rules, p) == map_path(rules, p, "remote", "local")
local_to_remote(rules, p) == map_path(rules, p, "local", "remote")

\* What pull_plan asks the user to place: the paths of the head that no rule maps and that
\* are no directory here, less those below another one.
Unplaced(rules, paths, present) ==
    {p \in paths : Matching(rules, p, "remote") = {} /\ p \notin present}
minimal_remote_roots(paths) ==
    {p \in paths : \A q \in paths \ {p} : ~ path_is_same_or_child(p, q)}

-----------------------------------------------------------------------------
\* No rule takes the path away from here, or the rule with the deepest remote prefix above
\* it also has the deepest local prefix above the path it becomes, and the path is spelled
\* as that rule spells its prefix.
Deepest(r, rules, p, from) ==
    /\ path_is_same_or_child(p, r[from])
    /\ \A s \in rules : path_is_same_or_child(p, s[from]) => path_is_same_or_child(r[from], s[from])
ComesBack(rules, p) ==
    \/ \A r \in rules : ~ path_is_same_or_child(p, r.remote) /\ ~ path_is_same_or_child(p, r.local)
    \/ \E r \in rules :
          /\ Deepest(r, rules, p, "remote")
          /\ Deepest(r, rules, replace_prefix(p, r.remote, r.local), "local")
          /\ ~ p.back /\ IsPrefix(r.remote.parts, p.parts)

\* Materializing a remote workspace path and canonicalizing it again gives the path back
\* exactly in the cases ComesBack describes.  The canonical path is the logical id of the
\* workspace, which is hashed with the conversation (remote_sync.rs,
\* project_workspace_identities): in the other cases an untouched conversation looks edited.
RoundTrips(rules, p) ==
    (local_to_remote(rules, remote_to_local(rules, p)) = p) <=> ComesBack(rules, p)
=============================================================================
