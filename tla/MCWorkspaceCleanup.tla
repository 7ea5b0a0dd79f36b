------------------------- MODULE MCWorkspaceCleanup -------------------------
(* Directories /w, /w/a, /w/a/x and /w/b; revisions that name /r, /r/x, a   *)
(* directory of this machine, and a Windows path in both spellings.  One    *)
(* project has the root /w/a, a second one /w/b and a conversation, and a   *)
(* root may be missing or hold a file.                                      *)
EXTENDS WorkspaceCleanup

CONSTANTS t1, k1, k2

MCName(n) == [name |-> n, upper |-> FALSE]
MCPath(ns) == [win |-> FALSE, back |-> FALSE, parts |-> [i \in DOMAIN ns |-> MCName(ns[i])]]
MCw == MCPath(<<"w">>)
MCa == MCPath(<<"w", "a">>)
MCax == MCPath(<<"w", "a", "x">>)
MCb == MCPath(<<"w", "b">>)
MCr == MCPath(<<"r">>)
MCrx == MCPath(<<"r", "x">>)
MCwin == [win |-> TRUE, back |-> FALSE, parts |-> <<MCName("c"), [name |-> "p", upper |-> TRUE]>>]
MCwinBack == [MCwin EXCEPT !.back = TRUE]
MCwinLower == [MCwin EXCEPT !.parts[2].upper = FALSE]

MCThread == {t1}
MCLocal == {MCw, MCa, MCax, MCb}
MCHeads == {{MCr, MCrx, MCb}, {MCrx, MCwinBack}, {MCwinLower, MCax}, {MCr, MCwin}}
MCRule(r, l) == [remote |-> r, local |-> l]
MCOffered == {MCRule(MCr, MCa), MCRule(MCrx, MCb), MCRule(MCwin, MCax),
              MCRule(MCwin, MCb)}

MCState == [roots |-> [k \in {k1, k2} |-> IF k = k1 THEN {MCa} ELSE {MCb}], saved |-> {MCa},
            assigned |-> [t \in {t1} |-> [project |-> k2, cwd |-> MCb]], stamp |-> 0]
MCHome(g, dirs, files, rs) ==
    [gstate |-> g, present |-> dirs, filled |-> files, rules |-> rs,
     usage |-> [t \in {t1} |-> [path |-> MCb, listed |-> TRUE]]]
MCHomes == {MCHome(MCState, {MCw, MCa, MCb}, {}, {}),
            MCHome(MCState, {MCw, MCb}, {}, {MCRule(MCwin, MCb)}),
            MCHome(None, {MCw, MCa, MCb}, {}, {MCRule(MCrx, MCb)})}
=============================================================================
