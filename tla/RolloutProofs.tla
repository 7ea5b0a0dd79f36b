---------------------------- MODULE RolloutProofs ----------------------------
(***************************************************************************)
(* What the scan, the normalizer, the materializer and the provider        *)
(* rewrite make of a rollout, for every number of lines, every provider    *)
(* and every workspace.                                                    *)
(***************************************************************************)
EXTENDS RolloutProjection, TLAPS

Rollouts == Seq(Line)
materialize_line(first, l, p, named, w) ==
    IF l.kind # "meta" THEN l
    ELSE [l EXCEPT !.prov = p, !.canon = TRUE, !.cwd = IF named /\ first THEN w ELSE @]
transform_line(l, p) ==
    IF l.kind # "meta" THEN l ELSE [l EXCEPT !.prov = p, !.canon = TRUE]
said_line(l) == [kind |-> l.kind, mine |-> l.mine, text |-> l.text]

\* Every rewrite works line by line.
LEMMA LineByLine == ASSUME NEW ls \in Rollouts, NEW p, NEW named, NEW w
                    PROVE  /\ normalize_rollout(ls) = [i \in DOMAIN ls |-> normalize_line(i, ls[i])]
                           /\ transform_rollout_file(ls, p) = [i \in DOMAIN ls |-> transform_line(ls[i], p)]
                           /\ Said(ls) = [i \in DOMAIN ls |-> said_line(ls[i])]
                           /\ materialize_rollout(ls, p, named, w) =
                                [i \in DOMAIN ls |-> materialize_line(i = FirstMeta(ls), ls[i], p, named, w)]
  BY DEF normalize_rollout, transform_rollout_file, Said, materialize_rollout, MapLines,
         transform_line, said_line, materialize_line

\* A rollout that starts with a session_meta has it as the first one.
LEMMA FirstLineIsMeta == ASSUME NEW ls \in Rollouts, ls # << >>, ls[1].kind = "meta"
                         PROVE  FirstMeta(ls) = 1
<1> DEFINE I == {i \in 1..Len(ls) : ls[i].kind = "meta"}
<1>1. 1 \in I /\ \A i \in I : 1 <= i
  BY DEF Rollouts
<1>2. Min(I) = 1
  BY <1>1 DEF Min
<1>3. QED
  BY <1>1, <1>2 DEF FirstMeta, SelectInSeq

(***************************************************************************)
(* One line.                                                               *)
(***************************************************************************)

\* A rewritten line is a line.
LEMMA LineTypes ==
    ASSUME NEW l \in Line, NEW i, NEW p \in Provider, NEW named, NEW first,
           NEW w \in Workspace
    PROVE  /\ normalize_line(i, l) \in Line
           /\ transform_line(l, p) \in Line
           /\ materialize_line(first, l, p, named, w) \in Line
<1>1. normalize_line(i, l) \in Line
  BY DEF normalize_line, Line
<1>2. transform_line(l, p) \in Line
  BY DEF transform_line, Line
<1>3. materialize_line(first, l, p, named, w) \in Line
  BY DEF materialize_line, Line
<1>4. QED
  BY <1>1, <1>2, <1>3

\* No rewrite changes what a line says, its kind, its owner or its length.
LEMMA LineKeeps ==
    ASSUME NEW l \in Line, NEW i, NEW p, NEW named, NEW first, NEW w,
           NEW m \in {normalize_line(i, l), transform_line(l, p),
                      materialize_line(first, l, p, named, w)}
    PROVE  /\ m.kind = l.kind /\ m.mine = l.mine /\ m.size = l.size /\ m.text = l.text
           /\ said_line(m) = said_line(l)
<1>1. CASE m = normalize_line(i, l)
  BY <1>1 DEF normalize_line, Line, said_line
<1>2. CASE m = transform_line(l, p)
  BY <1>2 DEF transform_line, Line, said_line
<1>3. CASE m = materialize_line(first, l, p, named, w)
  BY <1>3 DEF materialize_line, Line, said_line
<1>4. QED
  BY <1>1, <1>2, <1>3

\* Normalizing twice is normalizing once.
LEMMA LineNormalForm ==
    ASSUME NEW l \in Line, NEW i
    PROVE  normalize_line(i, normalize_line(i, l)) = normalize_line(i, l)
  BY DEF normalize_line, Line

\* The line the normalizer leaves and the other rewrites do not.
LineKeepsMachine(l, p) ==
    l.kind = "meta" /\ l.size > NormalizeLimit /\ (l.prov # p \/ ~ l.canon)

\* A line that was materialized, or rewritten for another provider, has the normal form it
\* had, unless it is a session_meta that the normalizer does not open.
LEMMA LineRoundTrip ==
    ASSUME NEW l \in Line, NEW i \in Nat, NEW p \in Provider, NEW named, NEW w \in Workspace,
           i = 1 => l.size <= NormalizeLimit
    PROVE  LET n == normalize_line(i, l) IN
           /\ (normalize_line(i, materialize_line(i = 1, n, p, named, w)) = n)
                <=> ~ LineKeepsMachine(l, p)
           /\ (normalize_line(i, transform_line(l, p)) = n) <=> ~ LineKeepsMachine(l, p)
<1>1. CASE l.kind # "meta"
  BY <1>1 DEF normalize_line, materialize_line, transform_line, LineKeepsMachine
<1>2. CASE l.kind = "meta" /\ l.size <= NormalizeLimit
  <2> DEFINE n == normalize_line(i, l)
             m == materialize_line(i = 1, n, p, named, w)
             r == transform_line(l, p)
  <2>1. ~ LineKeepsMachine(l, p)
    BY <1>2 DEF LineKeepsMachine, Line, NormalizeLimit
  <2>2. n = [l EXCEPT !.prov = ProviderToken, !.canon = TRUE,
                      !.cwd = IF i = 1 THEN WorkspaceToken ELSE @]
    BY <1>2 DEF normalize_line
  <2>3. r = [l EXCEPT !.prov = p, !.canon = TRUE]
    BY <1>2 DEF transform_line
  <2>4. m = [l EXCEPT !.prov = p, !.canon = TRUE,
                      !.cwd = IF i = 1 THEN (IF named THEN w ELSE WorkspaceToken) ELSE @]
    BY <1>2, <2>2 DEF materialize_line, Line
  <2>5. normalize_line(i, m) = n /\ normalize_line(i, r) = n
    BY <1>2, <2>2, <2>3, <2>4 DEF normalize_line, Line
  <2>6. QED
    BY <2>1, <2>5
<1>3. CASE l.kind = "meta" /\ ~ (l.size <= NormalizeLimit)
  <2> DEFINE r == [l EXCEPT !.prov = p, !.canon = TRUE]
  <2>1. i # 1 /\ LineKeepsMachine(l, p) <=> i # 1 /\ (l.prov # p \/ ~ l.canon)
    BY <1>3 DEF LineKeepsMachine, Line, NormalizeLimit
  <2>2. /\ i # 1 /\ normalize_line(i, l) = l
        /\ materialize_line(i = 1, l, p, named, w) = r /\ transform_line(l, p) = r
    BY <1>3 DEF normalize_line, materialize_line, transform_line, Line
  <2>3. normalize_line(i, r) = r
    BY <1>3 DEF normalize_line, Line
  <2>4. (r = l) <=> ~ (l.prov # p \/ ~ l.canon)
    BY DEF Line
  <2>5. QED
    BY <2>1, <2>2, <2>3, <2>4
<1>4. QED
  BY <1>1, <1>2, <1>3

(***************************************************************************)
(* A whole rollout.                                                        *)
(***************************************************************************)

\* A rewritten rollout is a rollout of the same length whose lines say the same.
Rewritten(r, ls) ==
    /\ r \in Rollouts /\ DOMAIN r = DOMAIN ls /\ Len(r) = Len(ls)
    /\ Said(r) = Said(ls)
    /\ \A i \in DOMAIN ls : /\ r[i].kind = ls[i].kind /\ r[i].mine = ls[i].mine
                            /\ r[i].size = ls[i].size
    /\ r # << >> <=> ls # << >>
LEMMA RewriteFacts ==
    ASSUME NEW ls \in Rollouts, NEW p \in Provider, NEW named, NEW w \in Workspace
    PROVE  /\ Rewritten(normalize_rollout(ls), ls)
           /\ Rewritten(transform_rollout_file(ls, p), ls)
           /\ Rewritten(materialize_rollout(ls, p, named, w), ls)
<1> SUFFICES ASSUME NEW r \in {normalize_rollout(ls), transform_rollout_file(ls, p),
                               materialize_rollout(ls, p, named, w)}
             PROVE  Rewritten(r, ls)
  OBVIOUS
<1>1. ASSUME NEW i \in DOMAIN ls
      PROVE  /\ ls[i] \in Line /\ r[i] \in Line
             /\ r[i].kind = ls[i].kind /\ r[i].mine = ls[i].mine /\ r[i].size = ls[i].size
             /\ said_line(r[i]) = said_line(ls[i])
  <2>1. ls[i] \in Line
    BY DEF Rollouts
  <2>2. r[i] \in {normalize_line(i, ls[i]), transform_line(ls[i], p),
                  materialize_line(i = FirstMeta(ls), ls[i], p, named, w)}
    BY LineByLine
  <2>3. r[i] \in Line
    BY <2>1, <2>2, LineTypes
  <2>4. QED
    BY <2>1, <2>2, <2>3, LineKeeps
<1>2. DOMAIN r = DOMAIN ls /\ r = [i \in DOMAIN ls |-> r[i]]
  BY LineByLine
<1>3. DOMAIN ls = 1..Len(ls) /\ Len(ls) \in Nat
  BY DEF Rollouts
<1>4. r \in Rollouts /\ Len(r) = Len(ls)
  <2>1. r \in [1..Len(ls) -> Line]
    BY <1>1, <1>2, <1>3
  <2>2. QED
    BY <1>3, <2>1 DEF Rollouts
<1>5. Said(r) = Said(ls)
  <2>1. Said(r) = [i \in DOMAIN ls |-> said_line(r[i])]
    BY <1>2, <1>4, LineByLine
  <2>2. Said(ls) = [i \in DOMAIN ls |-> said_line(ls[i])]
    BY LineByLine
  <2>3. QED
    BY <1>1, <2>1, <2>2
<1>6. r # << >> <=> ls # << >>
  BY <1>4, <1>3 DEF Rollouts
<1>7. QED
  BY <1>1, <1>2, <1>4, <1>5, <1>6 DEF Rewritten

\* KeepsMachine is about single lines.
LEMMA KeepsMachineFacts ==
    ASSUME NEW ls \in Rollouts, NEW p, normalizable(ls)
    PROVE  KeepsMachine(ls, p) <=> \E i \in DOMAIN ls : LineKeepsMachine(ls[i], p)
<1>1. DOMAIN ls = 1..Len(ls) /\ Len(ls) \in Nat /\ ls # << >> /\ ls[1].size <= NormalizeLimit
  BY DEF Rollouts, normalizable
<1>2. ls[1].size \in Int
  <2>1. 1 \in 1..Len(ls) /\ ls[1] \in Line
    BY <1>1 DEF Rollouts
  <2>2. QED
    BY <2>1 DEF Line
<1>3. ~ LineKeepsMachine(ls[1], p)
  BY <1>1, <1>2 DEF LineKeepsMachine, NormalizeLimit
<1>4. QED
  BY <1>1, <1>3 DEF KeepsMachine, LineKeepsMachine

\* A conversation taken to another machine and back, or rewritten for another provider, is the
\* same content exactly when no session_meta after the first line is longer than the normalizer
\* opens (normalize_rollout_reader, materialize_rollout_reader, transform_rollout_file).
THEOREM RolloutsForgetTheMachine == \A ls \in Rollouts : ForgetsTheMachine(ls)
<1> SUFFICES ASSUME NEW ls \in Rollouts, normalizable(ls),
                    NEW p \in Provider, NEW w \in Workspace, NEW named \in BOOLEAN
             PROVE  LET n == normalize_rollout(ls)
                        m == materialize_rollout(n, p, named, w)
                    IN  /\ normalizable(n) /\ normalize_rollout(n) = n
                        /\ materializable(n) /\ normalizable(m)
                        /\ (normalize_rollout(m) = n) <=> ~ KeepsMachine(ls, p)
                        /\ read_rollout_provider(m) = p
                        /\ Said(m) = Said(ls)
                        /\ transformable(ls) =>
                             ((normalize_rollout(transform_rollout_file(ls, p)) = n)
                                <=> ~ KeepsMachine(ls, p))
  BY DEF ForgetsTheMachine
<1> DEFINE n == normalize_rollout(ls)
           m == materialize_rollout(n, p, named, w)
           r == transform_rollout_file(ls, p)
<1>1. /\ DOMAIN ls = 1..Len(ls) /\ 1 \in DOMAIN ls /\ ls # << >>
      /\ \A i \in DOMAIN ls : ls[i] \in Line /\ i \in Nat
      /\ ls[1].kind = "meta" /\ ls[1].mine /\ ls[1].size <= NormalizeLimit
  BY DEF Rollouts, normalizable
<1>2. /\ n \in Rollouts /\ DOMAIN n = DOMAIN ls /\ Said(n) = Said(ls) /\ n # << >>
      /\ n[1].kind = "meta" /\ n[1].mine /\ n[1].size = ls[1].size
  BY <1>1, RewriteFacts DEF Rewritten
<1>3. FirstMeta(n) = 1
  BY <1>2, FirstLineIsMeta
<1> HIDE DEF n
<1>4. /\ m \in Rollouts /\ DOMAIN m = DOMAIN ls /\ Said(m) = Said(n) /\ m # << >>
      /\ m[1].kind = "meta" /\ m[1].mine /\ m[1].size = ls[1].size
  <2>1. Rewritten(m, n)
    BY <1>2, RewriteFacts
  <2>2. QED
    BY <1>1, <1>2, <2>1 DEF Rewritten
<1>5. r \in Rollouts /\ DOMAIN r = DOMAIN ls
  BY RewriteFacts DEF Rewritten
<1>6. \A i \in DOMAIN ls : /\ n[i] = normalize_line(i, ls[i])
                           /\ m[i] = materialize_line(i = 1, n[i], p, named, w)
                           /\ r[i] = transform_line(ls[i], p)
  BY <1>2, <1>3, LineByLine DEF n
<1> HIDE DEF m, r
<1>7. normalizable(n) /\ normalizable(m) /\ materializable(n)
  BY <1>1, <1>2, <1>3, <1>4 DEF normalizable, materializable
<1>8. /\ normalize_rollout(n) = [i \in DOMAIN ls |-> normalize_line(i, n[i])]
      /\ normalize_rollout(m) = [i \in DOMAIN ls |-> normalize_line(i, m[i])]
      /\ normalize_rollout(r) = [i \in DOMAIN ls |-> normalize_line(i, r[i])]
  BY <1>2, <1>4, <1>5, LineByLine
<1>9. n = [i \in DOMAIN ls |-> n[i]]
  BY <1>2 DEF Rollouts
<1>10. normalize_rollout(n) = n
  BY <1>1, <1>6, <1>8, <1>9, LineNormalForm
<1>11. \A i \in DOMAIN ls : /\ (normalize_line(i, m[i]) = n[i]) <=> ~ LineKeepsMachine(ls[i], p)
                            /\ (normalize_line(i, r[i]) = n[i]) <=> ~ LineKeepsMachine(ls[i], p)
  BY <1>1, <1>6, LineRoundTrip
<1>12. /\ (normalize_rollout(m) = n) <=> \A i \in DOMAIN ls : normalize_line(i, m[i]) = n[i]
       /\ (normalize_rollout(r) = n) <=> \A i \in DOMAIN ls : normalize_line(i, r[i]) = n[i]
  BY <1>8, <1>9
<1>13. /\ (normalize_rollout(m) = n) <=> ~ KeepsMachine(ls, p)
       /\ (normalize_rollout(r) = n) <=> ~ KeepsMachine(ls, p)
  BY <1>11, <1>12, KeepsMachineFacts
<1>14. read_rollout_provider(m) = p
  <2>1. n[1] \in Line /\ m[1] = materialize_line(1 = 1, n[1], p, named, w)
    BY <1>1, <1>2, <1>6 DEF Rollouts
  <2>2. m[1].prov = p
    BY <1>2, <2>1 DEF materialize_line, Line
  <2>3. QED
    BY <1>4, <2>2 DEF read_rollout_provider
<1>15. QED
  BY <1>2, <1>4, <1>7, <1>10, <1>13, <1>14 DEF n, m, r
=============================================================================
