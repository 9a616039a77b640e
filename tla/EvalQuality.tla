---------------------------- MODULE EvalQuality ----------------------------
(***************************************************************************)
(* The quality run of cmd/eval: a fixture is loaded and validated, its     *)
(* records are recorded one by one, its queries are asked one by one, and  *)
(* what comes back is scored by the markers in it.  The service is         *)
(* external: it keeps its word, or it answers anything.                    *)
(*                                                                         *)
(* A fixture as it is in the file has a flag for everything that only its  *)
(* JSON can get wrong.  Contents hold no markers of their own.  A reply is *)
(* NoData, or a sequence of items: whether each has a text, and the        *)
(* fixture's records whose markers are in it.  1/log2(rank+1) is any       *)
(* strictly decreasing Gain.                                               *)
(***************************************************************************)
EXTENDS EvalClient, Integers, FiniteSetsExt, SequencesExt

CONSTANTS
    Files,       \* the fixtures a file may hold
    Scenarios,   \* those a fixture must cover
    DefaultTopK, \* --top-k
    Gain         \* Gain[rank]

\* What the JSON of a record and of a query decodes to.
RecordTypes == [id : STRING, user : STRING]
QueryTypes ==
    [id : STRING, user : STRING, scenario : STRING,
     relevant : Seq(STRING), negative : Seq(STRING), topK : Int]

ASSUME QualityAssumption ==
    /\ \A f \in Files : f.records \in Seq(RecordTypes) /\ f.queries \in Seq(QueryTypes)
    /\ DefaultTopK \in 1 .. 100
    /\ Gain \in [1 .. 100 -> Nat \ {0}]
    /\ \A i, j \in 1 .. 100 : i < j => Gain[i] > Gain[j]

VARIABLES
    file,      \* the fixture, fixed
    keeps,     \* whether the service keeps its word, fixed
    place,     \* "load", "add", "search", "ended"
    kept,      \* the records the service holds
    recorded,  \* for each record sent, whether it was answered 200
    answers    \* for each query sent, the reply

qualityVars == <<file, keeps, place, kept, recorded, answers>>

Default == 0  \* a query without a top_k
NoData == [data |-> FALSE, sound |-> FALSE, items |-> <<>>]

Field(seq, f(_)) == [i \in DOMAIN seq |-> f(seq[i])]
Ids == ToSet(Field(file.records, LAMBDA r : r.id))
UserOf(id) == (CHOOSE r \in ToSet(file.records) : r.id = id).user

topKOf(q) == IF q.topK = Default THEN DefaultTopK ELSE q.topK

\* validateFixture.  A bug: an id may be used again.
ValidRepeating ==
    /\ file.shape /\ file.records # <<>> /\ file.queries # <<>>
    /\ ToSet(Field(file.queries, LAMBDA q : q.scenario)) = Scenarios
    /\ \A q \in ToSet(file.queries) :
          /\ ToSet(q.relevant) \cup ToSet(q.negative) \subseteq Ids
          /\ ToSet(q.relevant) \cap ToSet(q.negative) = {}
          /\ \A id \in ToSet(q.relevant) : UserOf(id) = q.user
          /\ q.topK \in {Default} \cup 1 .. 100
Valid ==
    /\ file.shape /\ file.records # <<>> /\ file.queries # <<>>
    /\ IsInjective(Field(file.records, LAMBDA r : r.id))
    /\ IsInjective(Field(file.queries, LAMBDA q : q.id))
    /\ ToSet(Field(file.queries, LAMBDA q : q.scenario)) = Scenarios
    /\ \A q \in ToSet(file.queries) :
          /\ IsInjective(q.relevant) /\ IsInjective(q.negative)
          /\ ToSet(q.relevant) \cup ToSet(q.negative) \subseteq Ids
          /\ ToSet(q.relevant) \cap ToSet(q.negative) = {}
          /\ \A id \in ToSet(q.relevant) : UserOf(id) = q.user
          /\ q.topK \in {Default} \cup 1 .. 100

-----------------------------------------------------------------------------
(* What a reply is worth.                                                  *)

Texts(r) == \A i \in DOMAIN r.items : r.items[i].text
Sources(r, i) == r.items[i].sources
Retrieved(r) == UNION {Sources(r, i) : i \in DOMAIN r.items}
Relevant(q) == ToSet(q.relevant)

Failing(r, q) == ~NoResultErrors(r.data /\ r.sound /\ Texts(r), Len(r.items), topKOf(q))

\* Replies that cannot be read are not scored.
Scored(r) == r.data /\ Texts(r)

\* A bug of the ranks: a record found again is a hit again.
NewHitAgain(r, q, i) == Sources(r, i) \cap Relevant(q) # {}
NewHit(r, q, i) == \E id \in Sources(r, i) \cap Relevant(q) : \A j \in 1 .. i - 1 : id \notin Sources(r, j)

hits(r, q) == Retrieved(r) \cap Relevant(q)
dcg(ranks) == MapThenSumSet(LAMBDA i : Gain[i], ranks)
Actual(r, q) == dcg({i \in DOMAIN r.items : NewHit(r, q, i)})
Ideal(q) == dcg(1 .. Min({Cardinality(Relevant(q)), topKOf(q)}))

\* Items that hold a marker of a record which is not the user's; a bug: where
\* all their markers are such.
ForeignOnly(r, q) ==
    {i \in DOMAIN r.items : Sources(r, i) # {} /\ \A id \in Sources(r, i) : UserOf(id) # q.user}
Foreign(r, q) == {i \in DOMAIN r.items : \E id \in Sources(r, i) : UserOf(id) # q.user}
Unmapped(r) == {i \in DOMAIN r.items : Sources(r, i) = {}}

-----------------------------------------------------------------------------
QualityInit ==
    /\ file \in Files /\ keeps \in BOOLEAN
    /\ place = "load" /\ kept = {} /\ recorded = <<>> /\ answers = <<>>

LoadFixture ==
    /\ place = "load"
    /\ IF Valid THEN place' = "add" /\ UNCHANGED exit ELSE place' = "ended" /\ exit' = "usage"
    /\ UNCHANGED <<file, keeps, kept, recorded, answers>>

AddRecord ==
    /\ place = "add" /\ Len(recorded) < Len(file.records)
    /\ \E ok \in IF keeps THEN {TRUE} ELSE BOOLEAN :
          /\ recorded' = Append(recorded, ok)
          /\ kept' = IF ok THEN kept \cup {file.records[Len(recorded) + 1].id} ELSE kept
    /\ UNCHANGED <<file, keeps, place, answers, exit>>

\* Nothing is scored on records that are not all there.
AfterAdds ==
    /\ place = "add" /\ Len(recorded) = Len(file.records)
    /\ IF \A i \in DOMAIN recorded : recorded[i] THEN place' = "search" /\ UNCHANGED exit
       ELSE place' = "ended" /\ exit' = "failed"
    /\ UNCHANGED <<file, keeps, kept, recorded, answers>>

\* A service that keeps its word returns records of the user that it holds,
\* each once and as it was recorded, best first by a judgement of its own.
KeepingReplies(q) ==
    {[data |-> TRUE, sound |-> TRUE, items |-> Field(s, LAMBDA id : [text |-> TRUE, sources |-> {id}])] :
        s \in {t \in SeqOf({id \in kept : UserOf(id) = q.user}, topKOf(q)) : IsInjective(t)}}
AnyAnswers(q) ==
    {NoData} \cup
    [data : {TRUE}, sound : BOOLEAN,
     items : SeqOf([text : {TRUE}, sources : SUBSET Ids] \cup {[text |-> FALSE, sources |-> {}]}, topKOf(q) + 1)]

AskQuery ==
    /\ place = "search" /\ Len(answers) < Len(file.queries)
    /\ LET q == file.queries[Len(answers) + 1] IN
       \E r \in IF keeps THEN KeepingReplies(q) ELSE AnyAnswers(q) : answers' = Append(answers, r)
    /\ UNCHANGED <<file, keeps, place, kept, recorded, exit>>

\* operationalFailures and isolationTotal over all queries.
CleanRun ==
    \A i \in DOMAIN answers :
       LET q == file.queries[i] IN
       /\ ~Failing(answers[i], q)
       /\ Scored(answers[i]) => Foreign(answers[i], q) = {}

PrintMetrics ==
    /\ place = "search" /\ Len(answers) = Len(file.queries)
    /\ place' = "ended" /\ exit' = IF CleanRun THEN "passed" ELSE "failed"
    /\ UNCHANGED <<file, keeps, kept, recorded, answers>>

QualityStep == LoadFixture \/ AddRecord \/ AfterAdds \/ AskQuery \/ PrintMetrics

-----------------------------------------------------------------------------
\* The metrics of a run that exits 0 can be read as what they are called
\* (quality.go:155-164, README of the evaluation:27).  Every query was scored;
\* nDCG is never above 1, is 1 exactly when each of the first items brings a
\* relevant record not shown before, as many as there are or as fit, and is 0
\* exactly when recall is.
ScoresCanBeRead ==
    place = "ended" /\ exit = "passed" =>
       /\ Len(answers) = Len(file.queries)
       /\ \A n \in DOMAIN answers :
             LET r == answers[n]
                 q == file.queries[n]
                 best == Min({Cardinality(Relevant(q)), topKOf(q)})
             IN  /\ Scored(r)
                 /\ Actual(r, q) <= Ideal(q)
                 /\ Relevant(q) # {} =>
                       /\ Actual(r, q) = Ideal(q) <=>
                             /\ Len(r.items) >= best
                             /\ \A i \in 1 .. best :
                                   ~(Sources(r, i) \cap Relevant(q) \subseteq
                                     UNION {Sources(r, j) : j \in 1 .. i - 1})
                       /\ Actual(r, q) = 0 <=> hits(r, q) = {}

\* "HTTP, schema, fixture, and isolation failures do" control the exit status
\* (eval/README.md:27): after a 0 every record was stored, no answer was longer
\* than asked for, and none held a record of another user of the fixture.
PassMeansIsolated ==
    place = "ended" /\ exit = "passed" =>
       /\ Len(recorded) = Len(file.records) /\ \A i \in DOMAIN recorded : recorded[i]
       /\ \A n \in DOMAIN answers :
             /\ Len(answers[n].items) <= topKOf(file.queries[n])
             /\ \A id \in Retrieved(answers[n]) : UserOf(id) = file.queries[n].user

\* "Quality values do not control exit status" (eval/README.md:27): a service
\* that returns what it was given passes with any ranking, every item of it is
\* traced to its record, and a fixture that loads marks for a query nothing
\* relevant that such a service could not return.
KeepingPasses ==
    keeps /\ place # "load" =>
       /\ exit # "failed"
       /\ \A n \in DOMAIN answers : Unmapped(answers[n]) = {}
       /\ place = "ended" /\ exit = "passed" =>
             \A q \in ToSet(file.queries) :
                /\ \A id \in Relevant(q) : id \in kept /\ UserOf(id) = q.user
                /\ Cardinality(kept) = Len(file.records)

-----------------------------------------------------------------------------
(* What makes them inductive.                                              *)

ReplyTypes ==
    [data : BOOLEAN, sound : BOOLEAN, items : Seq([text : BOOLEAN, sources : SUBSET STRING])]

QualityTypes ==
    /\ file \in Files /\ keeps \in BOOLEAN
    /\ place \in {"load", "add", "search", "ended"}
    /\ recorded \in Seq(BOOLEAN) /\ Len(recorded) <= Len(file.records)
    /\ answers \in Seq(ReplyTypes) /\ Len(answers) <= Len(file.queries)

\* The steps come in order, and the exit status sums up what they left.
AllRecorded == Len(recorded) = Len(file.records) /\ \A i \in DOMAIN recorded : recorded[i]
Steps ==
    /\ place # "ended" => exit = "none"
    /\ place # "load" /\ exit # "usage" => Valid
    /\ place = "load" => recorded = <<>>
    /\ place \in {"load", "add"} => answers = <<>>
    /\ place = "search" => AllRecorded
    /\ exit = "passed" => AllRecorded /\ CleanRun /\ Len(answers) = Len(file.queries)

\* The service holds what it acknowledged.
Acknowledged == {i \in DOMAIN recorded : recorded[i]}
KeptAcknowledged == kept = {file.records[i].id : i \in Acknowledged}

\* A service that keeps its word has done so up to here.
AsPromised(r, q) ==
    /\ r.data /\ r.sound /\ Texts(r) /\ Len(r.items) <= topKOf(q)
    /\ \A i \in DOMAIN r.items : \E id \in Ids : Sources(r, i) = {id} /\ UserOf(id) = q.user
Promised ==
    keeps =>
       /\ exit # "failed"
       /\ \A i \in DOMAIN recorded : recorded[i]
       /\ \A n \in DOMAIN answers : AsPromised(answers[n], file.queries[n])

QualityInv == QualityTypes /\ Steps /\ KeptAcknowledged /\ Promised
=============================================================================
