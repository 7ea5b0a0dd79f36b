----------------------------- MODULE MCCodexHome -----------------------------
(* A home with one conversation and a repository with snapshots of another   *)
(* one, plain or with a session_meta the normalizer does not open, and of    *)
(* both.  The conversation of the home is plain, was continued under another *)
(* provider, or has a second session_meta that is too long or has no payload,*)
(* or a byte order mark.                                                     *)
EXTENDS CodexHome

CONSTANTS t1, t2

MCThread == {t1, t2}
MCProvider == {"openai", "azure"}
MCWorkspace == {"/work"}

MCMeta == [kind |-> "meta", mine |-> TRUE, cwd |-> "/work", prov |-> "openai",
           size |-> 0, canon |-> FALSE, text |-> 0]
MCRecord == [MCMeta EXCEPT !.kind = "record", !.prov = ProviderToken, !.text = 9]
MCLongMeta == [MCMeta EXCEPT !.size = 2]
MCHome(p, ls) == [config |-> p, rollouts |-> [t \in {t1} |-> ls]]
MCHomes ==
    {MCHome("openai", <<MCMeta>>)} \cup
    {MCHome("azure", ls) :
        ls \in {<<MCMeta>>, <<MCMeta, [MCMeta EXCEPT !.prov = "azure"]>>,
                <<MCMeta, MCLongMeta>>, <<MCMeta, [MCMeta EXCEPT !.kind = "badmeta"]>>,
                <<[MCMeta EXCEPT !.kind = "bom"]>>}}

MCStored(d, ls) == [dir |-> d, lines |-> normalize_rollout(ls)]
MCSnapshots ==
    {[t \in {t2} |-> MCStored("sessions", <<MCMeta, MCRecord>>)],
     [t \in {t2} |-> MCStored("sessions", <<MCMeta, MCLongMeta>>)],
     [t \in {t1, t2} |-> MCStored("archived_sessions", <<MCMeta, MCRecord>>)]}
=============================================================================
