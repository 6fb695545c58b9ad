---------------------------- MODULE MCPgsqlPool ----------------------------
(* Small instances of PgsqlPool for TLC.                                    *)
EXTENDS PgsqlPool, TLC

CONSTANTS p1, p2, p3, s1, s2, db, sess

\* auth1.c registers "db" and then "sess_auth"; kore_pgsql_register inserts
\* at the head.
TwoDbs == <<sess, db>>
OneDb == <<db>>
DbOfTwo == [p \in Pages |-> db] @@ [s \in Sessions |-> sess]
DbOfOne == [p \in Clients |-> db]

OneStatement == {<<"tuples">>, <<"fatal">>}
Mixed == {<<"tuples", "command">>, <<"fatal">>}
TwoStatements == {<<"tuples">>, <<"command">>, <<"fatal">>, <<"tuples", "command">>, <<"tuples", "fatal">>}

Symmetry == Permutations(Conns) \cup Permutations(Pages) \cup Permutations(Sessions)
=============================================================================
