-------------------------- MODULE RolloutProjection --------------------------
(***************************************************************************)
(* What the scan, the v4 normalizer, the materializer and the provider     *)
(* rewrite do to the lines of a rollout (codex.rs, storage_v4.rs,          *)
(* provider.rs).                                                           *)
(*                                                                         *)
(* A line is the raw text the code reads up to a newline.  Its kind says   *)
(* how serde_json and the code take it: "meta" is a session_meta record    *)
(* whose payload is an object, "badmeta" one whose payload is not, "bom" a *)
(* meta behind a byte order mark, "record" any other JSON value, "broken"  *)
(* what does not parse.  "size" is the length class against the scan's     *)
(* limit (1 MiB) and the normalizer's (16 MiB); "canon" says that the JSON *)
(* is already in the canonical form canonical_json writes.                 *)
(***************************************************************************)
EXTENDS Naturals, Sequences, SequencesExt

CONSTANTS Provider, Workspace

\* PROVIDER_TOKEN_V4 and WORKSPACE_TOKEN_V4: validate_provider_id_v4 refuses both.
ProviderToken == "provider_token"
WorkspaceToken == "workspace_token"
ASSUME TokensAreReserved ==
    {ProviderToken, WorkspaceToken} \cap (Provider \cup Workspace) = {}

Kinds == {"meta", "badmeta", "bom", "record", "broken"}
Line == [kind : Kinds, mine : BOOLEAN, cwd : Workspace \cup {WorkspaceToken},
         prov : Provider \cup {ProviderToken}, size : 0..2, canon : BOOLEAN, text : Nat]

ScanLimit == 0        \* MAX_SESSION_META_BYTES, 1 MiB
NormalizeLimit == 1   \* MAX_METADATA_LINE_BYTES_V4, 16 MiB

MapLines(ls, F(_, _)) == [i \in DOMAIN ls |-> F(i, ls[i])]
FirstMeta(ls) == SelectInSeq(ls, LAMBDA l : l.kind = "meta")

\* The scan skips an empty file and one whose first line is too long, is not
\* JSON, is not a session_meta or has no id.  It alone takes off a byte order mark.
read_rollout_record(ls) ==
    /\ ls # << >>
    /\ ls[1].size <= ScanLimit
    /\ ls[1].kind \in {"meta", "bom"}
    /\ ls[1].mine

\* Only the first line must be a session_meta of this thread; a later line that
\* is too long, does not parse or has no payload is kept byte for byte.
normalizable(ls) ==
    /\ ls # << >>
    /\ ls[1].kind = "meta" /\ ls[1].size <= NormalizeLimit /\ ls[1].mine

normalize_line_Slip(i, l) ==
    IF i = 1
    THEN [l EXCEPT !.prov = ProviderToken, !.canon = TRUE, !.cwd = WorkspaceToken]
    ELSE l
normalize_line(i, l) ==
    IF l.kind = "meta" /\ l.size <= NormalizeLimit
    THEN [l EXCEPT !.prov = ProviderToken, !.canon = TRUE,
                   !.cwd = IF i = 1 THEN WorkspaceToken ELSE @]
    ELSE l
normalize_rollout(ls) == MapLines(ls, normalize_line)

\* The materializer has no limit on a line: every session_meta gets the provider,
\* and the first one the workspace, if the snapshot names one.
materializable(ls) == FirstMeta(ls) # 0 /\ ls[FirstMeta(ls)].mine
materialize_rollout(ls, p, named, w) ==
    MapLines(ls, LAMBDA i, l :
        IF l.kind # "meta" THEN l
        ELSE [l EXCEPT !.prov = p, !.canon = TRUE,
                       !.cwd = IF named /\ i = FirstMeta(ls) THEN w ELSE @])

\* provider.rs: as the materializer, but a session_meta without payload is an error.
transformable(ls) ==
    materializable(ls) /\ \A i \in DOMAIN ls : ls[i].kind # "badmeta"
transform_rollout_file(ls, p) ==
    MapLines(ls, LAMBDA i, l : IF l.kind # "meta" THEN l
                               ELSE [l EXCEPT !.prov = p, !.canon = TRUE])

\* read_rollout_provider parses the first line as it stands, so a byte order mark
\* or a broken line is an error; what follows is never looked at.  A payload without
\* the field counts as a provider no configuration names.
provider_readable(ls) == ls # << >> /\ ls[1].kind \in {"meta", "badmeta"}
read_rollout_provider(ls) == IF ls[1].kind = "meta" THEN ls[1].prov ELSE ProviderToken

\* What a conversation says, whatever machine its lines are on.
Said(ls) == MapLines(ls, LAMBDA i, l : [kind |-> l.kind, mine |-> l.mine, text |-> l.text])

-----------------------------------------------------------------------------
\* The one way machines can come to differ: a session_meta after the first line that
\* the normalizer does not open and the other rewrites do.
KeepsMachine(ls, p) ==
    \E i \in 2..Len(ls) :
        ls[i].kind = "meta" /\ ls[i].size > NormalizeLimit /\ (ls[i].prov # p \/ ~ ls[i].canon)

\* A conversation taken to another machine and back is the same content (storage_v4.rs,
\* normalize_rollout_reader after materialize_rollout_reader), and so is one whose
\* provider was rewritten in place (provider.rs), exactly when no session_meta after the
\* first line is longer than the normalizer opens: those are given the local provider
\* and kept with it.  A materialized rollout names the machine's own provider.
ForgetsTheMachine(ls) ==
    normalizable(ls) =>
        \A p \in Provider, w \in Workspace, named \in BOOLEAN :
          LET n == normalize_rollout(ls)
              m == materialize_rollout(n, p, named, w)
          IN  /\ normalizable(n) /\ normalize_rollout(n) = n
              /\ materializable(n) /\ normalizable(m)
              /\ (normalize_rollout(m) = n) <=> ~ KeepsMachine(ls, p)
              /\ read_rollout_provider(m) = p
              /\ Said(m) = Said(ls)
              /\ transformable(ls) =>
                   ((normalize_rollout(transform_rollout_file(ls, p)) = n) <=> ~ KeepsMachine(ls, p))
=============================================================================
