-------------------------- MODULE EvalConformance --------------------------
(***************************************************************************)
(* The conformance run of cmd/eval against the handler of internal/api:    *)
(* its probes in their order, and what the handler does with each, from    *)
(* authentication to the answer.  The store behind the handler keeps its   *)
(* promise (module AddContract), finds every memory of a user, and answers *)
(* the same search with the same order, as the catalog does.               *)
(*                                                                         *)
(* The handler may be another's, with defects: the run has to tell.        *)
(***************************************************************************)
EXTENDS EvalClient, FiniteSets, SequencesExt

CONSTANT Services  \* the sets of defects that are together in a service

\* What may be wrong with a service, in the order of the probes that see it.
Defects ==
    {"unhealthy", "echo", "lag", "scores", "overrun", "shuffle", "null-data", "leak", "any-key",
     "malformed", "string-timestamp", "empty-user", "object-options",
     "missing-top_k", "zero-top_k", "oversized-top_k"}

ASSUME ServicesAssumption == Services \subseteq SUBSET Defects

VARIABLES
    setup,    \* the keys of service and client, --strict-invalid, the service
    probe,    \* the number of the probe that comes next
    memories, \* the markers stored, with their users
    first,    \* what the search for marker A found the first time
    failed, warned

conformanceVars == <<setup, probe, memories, first, failed, warned>>

Keys == {"none", "key"}  \* "none": no key is configured
Setups == [server : Keys, client : Keys, strict : BOOLEAN, defects : Services]

Missing == 200  \* a top_k that is not there
Over == 101     \* one above the handler's maximum

-----------------------------------------------------------------------------
(* Requests.  parse: what the JSON decoder makes of the body.  The user     *)
(* "blank" is the empty string.                                            *)

add(user, marker) ==
    [path |-> "/add", key |-> setup.client, parse |-> "ok", user |-> user, marker |-> marker]
search(user, marker, topK) ==
    [path |-> "/search", key |-> setup.client, parse |-> "ok", user |-> user, marker |-> marker, topK |-> topK]
as(req, parse) == [req EXCEPT !.parse = parse]
with(req, key) == [req EXCEPT !.key = key]

Probes == <<
    [path |-> "/health"],
    add("a", "alpha"), add("b", "bravo"), add("a", "alpha-too"),
    search("a", "alpha", 100), search("a", "alpha", 1), search("a", "alpha", 100),
    search("nobody", "nothing", 100), search("a", "bravo", 100),
    [path |-> "auth"],
    as(add("a", "bad"), "malformed"), as(add("a", "bad"), "string-timestamp"),
    search("blank", "x", 1), as(search("a", "x", 1), "object-options"),
    search("a", "x", Missing), search("a", "x", 0), search("a", "x", Over),
    as(add("a", "unknown"), "unknown-field"), as(search("a", "alpha", 1), "unknown-field"),
    as(search("a", "alpha", 1), "trailing-value") >>

-----------------------------------------------------------------------------
(* The handler.                                                            *)

Has(d) == d \in setup.defects

\* authMiddleware is there if a key is configured.
Authorized(req) == setup.server = "none" \/ req.key = setup.server \/ Has("any-key")

\* Bind: a decoder that knows no fields but its own and reads one value
\* rejects neither other fields nor what follows.
Bound(req) == req.parse \in {"ok", "unknown-field", "trailing-value"} \/ Has(req.parse)

\* The checks of Add and of Search.  A bug: top_k has no upper bound.
ValidRequestUnbounded(req) ==
    /\ req.user # "blank" \/ Has("empty-user")
    /\ req.path = "/search" => req.topK \notin {Missing, 0}
ValidRequest(req) ==
    /\ req.user # "blank" \/ Has("empty-user")
    /\ req.path = "/search" =>
          \/ req.topK \in 1 .. 100
          \/ req.topK = Missing /\ Has("missing-top_k")
          \/ req.topK = 0 /\ Has("zero-top_k")
          \/ req.topK = Over /\ Has("oversized-top_k")

Status(req) ==
    IF req.path = "/health" THEN (IF Has("unhealthy") THEN 503 ELSE 200)
    ELSE IF ~Authorized(req) THEN 401
    ELSE IF ~Bound(req) \/ ~ValidRequest(req) THEN 400
    ELSE 200

Stores(req) == req.path = "/add" /\ Status(req) = 200 /\ ~Has("lag")

\* The memories a user's search sees, and a list of them, cut at top_k.  A
\* service that shuffles has another order after the first search, probe 5.
Sees(user, m) == m.user = user \/ (Has("leak") /\ user = "a")
MemoriesOf(user) == FoldLeft(LAMBDA out, m : IF Sees(user, m) THEN Append(out, m) ELSE out, <<>>, memories)
Data(req) ==
    LET own == MemoriesOf(req.user)
        ranked == IF Has("shuffle") /\ probe > 5 THEN Reverse(own) ELSE own
    IN  IF Has("overrun") \/ Len(ranked) <= req.topK THEN ranked ELSE SubSeq(ranked, 1, req.topK)

-----------------------------------------------------------------------------
(* The checks that follow a probe: those that fail.                        *)

Holds(data, marker) == \E i \in DOMAIN data : data[i].marker \in marker
Alpha == {"alpha", "alpha-too"}
Shape(data, topK) == NoResultErrors(~Has("scores"), Len(data), topK)

\* A bug of the check: what is in the answer is not looked at.
LeaksUnseen(data) == FALSE
Leaks(data) == Holds(data, {"bravo"})

Passes(req) ==
    LET status == IF req.path = "auth" THEN 0 ELSE Status(req)
        data == IF status = 200 /\ req.path = "/search" THEN Data(req) ELSE <<>>
    IN  /\ probe \in 1 .. 9 => status = 200
        /\ probe = 2 => ~Has("echo")
        /\ probe = 5 => Holds(data, Alpha) /\ Shape(data, 100)
        /\ probe = 6 => Shape(data, 1)
        /\ probe = 7 => data = first
        /\ probe = 8 => data = <<>> /\ ~Has("null-data")
        /\ probe = 9 => Shape(data, 100) /\ ~Leaks(data)
        /\ probe = 10 => setup.client # "none" /\ \A key \in {"none", "wrong"} :
                            Status(with(search("a", "x", 1), key)) = 401
        /\ probe \in 11 .. 20 => status = 400

\* Checks that do not apply or are not strict only warn.
Lenient == (probe = 10 /\ setup.client = "none") \/ (probe \in 18 .. 20 /\ ~setup.strict)

-----------------------------------------------------------------------------
ConformanceInit ==
    /\ setup \in Setups
    /\ probe = 1 /\ memories = <<>> /\ first = <<>> /\ failed = 0 /\ warned = 0

Send ==
    /\ probe <= Len(Probes)
    /\ LET req == Probes[probe] IN
       /\ memories' = IF Stores(req) THEN Append(memories, [user |-> req.user, marker |-> req.marker])
                      ELSE memories
       /\ first' = IF probe = 5 /\ Status(req) = 200 THEN Data(req) ELSE first
       /\ failed' = IF ~Passes(req) /\ ~Lenient THEN failed + 1 ELSE failed
       /\ warned' = IF ~Passes(req) /\ Lenient THEN warned + 1 ELSE warned
    /\ probe' = probe + 1
    /\ UNCHANGED <<setup, exit>>

Report ==
    /\ probe = Len(Probes) + 1 /\ exit = "none"
    /\ exit' = IF failed = 0 THEN "passed" ELSE "failed"
    /\ UNCHANGED conformanceVars

ConformanceStep == Send \/ Report

-----------------------------------------------------------------------------
Done == probe > Len(Probes) /\ exit # "none"

\* The keys match, or the service takes any; and no defect shows.  A client
\* that has no key does not see that any would do.
NothingToFind ==
    \/ setup.client = setup.server /\ setup.defects = {}
    \/ setup.client = "none" /\ setup.defects = {"any-key"}

\* The run tells the adapter from a service with defects.  The adapter, with
\* a key and without, passes and is warned of what its parser lets through, or
\* fails for just that with --strict-invalid; and whichever of the defects
\* eval/README.md:25 says are checked a service has, the run fails: none hides
\* another, and what the probes before have left behind hides none.  Keys that
\* do not match fail it too.
ConformanceTells ==
    Done =>
       IF ~NothingToFind THEN exit = "failed"
       ELSE IF setup.strict THEN exit = "failed" /\ failed = 3
       ELSE exit = "passed" /\ warned = IF setup.client = "none" THEN 4 ELSE 3
=============================================================================
