---------------------------- MODULE MCEvaluation ----------------------------
(***************************************************************************)
(* Evaluation on small runs.                                               *)
(***************************************************************************)
EXTENDS Evaluation

\* A worker with two operations, fewer operations than workers, a user with
\* more records than top_k, one with as many, one user an add, and arguments
\* that are refused.
Run(adds, users, searches, concurrency, topK) ==
    [adds |-> adds, users |-> users, searches |-> searches,
     concurrency |-> concurrency, topK |-> topK]

MCConfigs ==
    {Run(3, 2, 2, 2, 1), Run(3, 1, 1, 2, 3), Run(2, 0, 2, 3, 1),
     Run(2, 3, 1, 1, 1), Run(1, 0, 0, 1, 1)}

\* Of the user of index 0, a record that is none of this run's numbers.
MCEarlier == {[user |-> 0, record |-> 5]}

\* Three records of two users.
Record(id, user) == [id |-> id, user |-> user]
MCRecords == <<Record("r1", "u1"), Record("r2", "u1"), Record("r3", "u2")>>
Query(id, user, scenario, relevant, negative, topK) ==
    [id |-> id, user |-> user, scenario |-> scenario,
     relevant |-> relevant, negative |-> negative, topK |-> topK]
File(records, queries) == [shape |-> TRUE, records |-> records, queries |-> queries]

\* Two relevant records and room for both, or for one; nothing relevant.
Both(topK) == Query("q1", "u1", "semantic", <<"r1", "r2">>, <<"r3">>, topK)
NothingFor(user) == Query("q2", user, "semantic", <<>>, <<"r1">>, 1)

MCFiles ==
    {File(MCRecords, <<Both(2)>>),
     File(MCRecords, <<Both(Default), NothingFor("u2")>>),
     \* Each of these is refused.
     [File(MCRecords, <<Both(2)>>) EXCEPT !.shape = FALSE],
     File(<<>>, <<NothingFor("u2")>>), File(MCRecords, <<>>),
     File(<<Record("r1", "u1"), Record("r1", "u2")>>, <<Query("q1", "u1", "semantic", <<>>, <<>>, 1)>>),
     File(MCRecords, <<Both(2), Both(2)>>),
     File(MCRecords, <<Query("q1", "u1", "other", <<"r1">>, <<>>, 1)>>),
     File(MCRecords, <<Query("q1", "u1", "semantic", <<"r1", "r1">>, <<>>, 1)>>),
     File(MCRecords, <<Query("q1", "u1", "semantic", <<"r4">>, <<>>, 1)>>),
     File(MCRecords, <<Query("q1", "u1", "semantic", <<"r1">>, <<"r1">>, 1)>>),
     File(MCRecords, <<Query("q1", "u1", "semantic", <<"r3">>, <<>>, 1)>>),
     File(MCRecords, <<Query("q1", "u1", "semantic", <<"r1">>, <<>>, 101)>>)}

\* Of the gains that fall from rank to rank, a simple one.
MCGain == [rank \in 1 .. 100 |-> 10000 \div rank]

\* Every defect alone, and every two.
MCServices == UNION {kSubset(n, Defects) : n \in 0 .. 2}
=============================================================================
