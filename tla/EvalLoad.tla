------------------------------ MODULE EvalLoad ------------------------------
(***************************************************************************)
(* The load run of cmd/eval: a phase of adds and then one of searches,     *)
(* each handed out to a pool of workers by concurrentPhase, and the        *)
(* verdict over both.  The service under load is external: it is honest,   *)
(* or it answers anything.                                                 *)
(*                                                                         *)
(* A record is the index of its add, and its marker names its user.  The   *)
(* answer to a search is the number of its items, the records whose        *)
(* markers they hold and the markers of earlier runs among them, or        *)
(* Failure: no HTTP 200, no JSON, a malformed item.                        *)
(***************************************************************************)
EXTENDS EvalClient, FiniteSets

CONSTANTS
    Configs,  \* what the run may be asked for: loadConfig
    Workers,  \* identities of goroutines
    Earlier   \* markers that earlier runs have left in the service

LoadConfig == [adds : Nat, users : Nat, searches : Nat, concurrency : Nat, topK : Nat \ {0}]

ASSUME LoadAssumption ==
    /\ Configs \subseteq LoadConfig
    /\ \A c \in Configs : 1 .. c.concurrency \subseteq Workers
    /\ IsFiniteSet(Earlier) /\ Earlier \subseteq [user : Nat, record : Nat]

VARIABLES
    cfg,       \* the arguments, fixed
    honest,    \* whether the service keeps its word, fixed
    phase,     \* "flags", "add", "search", "summary", "ended"
    pc,        \* concurrentPhase: "hand" out operations, "drain" the workers
    next,      \* the index the loop has reached
    worker,    \* worker[w]: "off", "ready", "busy", "gone"
    job,       \* job[w]: the operation w was handed last
    done,      \* tokens in the done channel
    drained,   \* tokens received from it
    stored,    \* the records an honest service holds
    added,     \* addResults: "unset", "ok", "failed"
    found,     \* searchResults
    reply      \* history: what each search was answered

poolVars == <<pc, next, worker, job, done, drained>>
resultVars == <<stored, added, found, reply>>
loadVars == <<cfg, honest, phase, poolVars, resultVars>>

Below(n) == {i \in 0 .. n : i < n}
Records == Below(cfg.adds)
Queries == Below(cfg.searches)

\* The records of the user whom operation i is for.
userCount == IF cfg.users = 0 THEN cfg.adds ELSE cfg.users
Own(i) == {r \in Records : r % userCount = i % userCount}
OfUser(m, i) == m.user = i % userCount

Lesser(a, b) == IF a < b THEN a ELSE b
Count(p) == IF p = "add" THEN cfg.adds ELSE cfg.searches
Size(p) == Lesser(Count(p), cfg.concurrency)

Failure == [ok |-> FALSE, items |-> 0, shown |-> {}, earlier |-> {}]
Unset == [schema |-> FALSE, isolation |-> FALSE, visibility |-> FALSE]

LoadInit ==
    /\ cfg \in Configs /\ honest \in BOOLEAN
    /\ phase = "flags" /\ pc = "hand" /\ next = 0
    /\ worker = [w \in Workers |-> "off"] /\ job = [w \in Workers |-> 0]
    /\ done = 0 /\ drained = 0
    /\ stored = {}
    /\ added = [i \in Records |-> "unset"]
    /\ found = [j \in Queries |-> Unset]
    /\ reply = [j \in Queries |-> Failure]

-----------------------------------------------------------------------------
(* load and the main goroutine of concurrentPhase.                         *)

Rejected ==
    \/ 0 \in {cfg.adds, cfg.searches, cfg.concurrency}
    \/ userCount > cfg.adds

\* Make the channels and start the workers.
StartPhase(p) ==
    /\ phase' = p /\ pc' = "hand" /\ next' = 0
    /\ worker' = [w \in Workers |-> IF w \in 1 .. Size(p) THEN "ready" ELSE "off"]
    /\ done' = 0 /\ drained' = 0
    /\ UNCHANGED <<cfg, honest, job, resultVars>>

CheckFlags ==
    /\ phase = "flags"
    /\ \/ /\ Rejected
          /\ phase' = "ended" /\ exit' = "usage"
          /\ UNCHANGED <<cfg, honest, poolVars, resultVars>>
       \/ ~Rejected /\ StartPhase("add") /\ UNCHANGED exit

InPhase == phase \in {"add", "search"}

\* The work channel has no buffer: a send needs a worker that receives.
Hand(w) ==
    /\ InPhase /\ pc = "hand" /\ next < Count(phase)
    /\ worker[w] = "ready"
    /\ worker' = [worker EXCEPT ![w] = "busy"]
    /\ job' = [job EXCEPT ![w] = next]
    /\ next' = next + 1
    /\ UNCHANGED <<cfg, honest, phase, pc, done, drained, resultVars, exit>>

Close ==
    /\ InPhase /\ pc = "hand" /\ next = Count(phase)
    /\ pc' = "drain"
    /\ UNCHANGED <<cfg, honest, phase, next, worker, job, done, drained, resultVars, exit>>

Drain ==
    /\ InPhase /\ pc = "drain" /\ drained < Size(phase) /\ done > 0
    /\ drained' = drained + 1 /\ done' = done - 1
    /\ UNCHANGED <<cfg, honest, phase, pc, next, worker, job, resultVars, exit>>

AfterPhase ==
    \/ phase = "add" /\ StartPhase("search")
    \/ /\ phase = "search" /\ phase' = "summary"
       /\ UNCHANGED <<cfg, honest, poolVars, resultVars>>

\* A bug of the barrier: the phase is read when its work is handed out.
EndPhaseEarly == InPhase /\ pc = "drain" /\ AfterPhase /\ UNCHANGED exit

\* A bug of the barrier: one token for each goroutine asked for.
EndPhaseAll ==
    /\ InPhase /\ pc = "drain" /\ drained = cfg.concurrency
    /\ AfterPhase /\ UNCHANGED exit

EndPhase ==
    /\ InPhase /\ pc = "drain" /\ drained = Size(phase)
    /\ AfterPhase /\ UNCHANGED exit

Clean ==
    /\ \A i \in Records : added[i] = "ok"
    /\ \A j \in Queries : found[j].schema /\ found[j].isolation /\ found[j].visibility

Summary ==
    /\ phase = "summary"
    /\ phase' = "ended"
    /\ exit' = IF Clean THEN "passed" ELSE "failed"
    /\ UNCHANGED <<cfg, honest, poolVars, resultVars>>

-----------------------------------------------------------------------------
(* The workers.                                                            *)

Finish(w) ==
    /\ worker' = [worker EXCEPT ![w] = "ready"]
    /\ UNCHANGED <<cfg, honest, phase, pc, next, job, done, drained, exit>>

\* The service stores before it answers 200.
AddOp(w) ==
    /\ phase = "add" /\ worker[w] = "busy"
    /\ \/ /\ honest
          /\ stored' = stored \cup {job[w]}
          /\ added' = [added EXCEPT ![job[w]] = "ok"]
       \/ /\ ~honest
          /\ \E r \in {"ok", "failed"} : added' = [added EXCEPT ![job[w]] = r]
          /\ UNCHANGED stored
    /\ UNCHANGED <<found, reply>>
    /\ Finish(w)

\* An honest service: as many of the user's records as it has and may return,
\* an item for each.  The users are named after the run, so no earlier run's.
HonestReplies(j) ==
    LET have == Own(j) \cap stored
        n == Lesser(Cardinality(have), cfg.topK)
    IN  {[ok |-> TRUE, items |-> n, shown |-> s, earlier |-> {}] :
            s \in {t \in SUBSET have : Cardinality(t) = n}}

\* Any other: an item may hold no marker, the same one as another, or many.
AnyReplies ==
    {Failure} \cup
    {r \in [ok : {TRUE}, items : 0 .. cfg.topK + 1, shown : SUBSET Records, earlier : SUBSET Earlier] :
        r.items = 0 => r.shown = {} /\ r.earlier = {}}

Replies(j) == IF honest THEN HonestReplies(j) ELSE AnyReplies

\* A marker has the user's index and the record's, and not the run.
Leaked(r, j) == ~(r.shown \subseteq Own(j) /\ \A m \in r.earlier : OfUser(m, j))
Visible(r, j) == (r.shown \cap Own(j)) \cup {m.record : m \in {e \in r.earlier : OfUser(e, j)}}

\* A bug of the verdict: items are counted, not the records in them.
VerdictByItems(r, j) ==
    [schema |-> NoResultErrors(r.ok, r.items, cfg.topK),
     isolation |-> ~Leaked(r, j),
     visibility |-> r.items >= Lesser(Cardinality(Own(j)), cfg.topK)]

\* A bug of the verdict: more is expected than top_k lets through.
VerdictUncapped(r, j) ==
    [schema |-> NoResultErrors(r.ok, r.items, cfg.topK),
     isolation |-> ~Leaked(r, j),
     visibility |-> Cardinality(Visible(r, j)) >= Cardinality(Own(j))]

\* schema; leak; visible against expected.
Verdict(r, j) ==
    [schema |-> NoResultErrors(r.ok, r.items, cfg.topK),
     isolation |-> ~Leaked(r, j),
     visibility |-> Cardinality(Visible(r, j)) >= Lesser(Cardinality(Own(j)), cfg.topK)]

SearchOp(w) ==
    /\ phase = "search" /\ worker[w] = "busy"
    /\ \E r \in Replies(job[w]) :
          /\ reply' = [reply EXCEPT ![job[w]] = r]
          /\ found' = [found EXCEPT ![job[w]] = Verdict(r, job[w])]
    /\ UNCHANGED <<stored, added>>
    /\ Finish(w)

\* The work channel is closed: out of the loop and a token, for which the
\* buffer has room.
Leave(w) ==
    /\ worker[w] = "ready" /\ pc = "drain" /\ done < cfg.concurrency
    /\ worker' = [worker EXCEPT ![w] = "gone"]
    /\ done' = done + 1
    /\ UNCHANGED <<cfg, honest, phase, pc, next, job, drained, resultVars, exit>>

-----------------------------------------------------------------------------
Main == CheckFlags \/ (\E w \in Workers : Hand(w)) \/ Close \/ Drain \/ EndPhase \/ Summary
Work(w) == AddOp(w) \/ SearchOp(w) \/ Leave(w)

LoadStep == Main \/ \E w \in Workers : Work(w)

-----------------------------------------------------------------------------
\* The load check is believed after every deploy (operations.md:214): if it
\* passes, every add was acknowledged, and every search showed records of its
\* own user only, no more than top_k, and all of them where they are no more
\* than that.  It falls short of "whether every expected record was visible"
\* (eval/README.md:29) where an earlier run's records are shown: a marker does
\* not name its run (load.go:54), and one with the user's index counts.
PassMeansVisible ==
    phase = "ended" /\ exit = "passed" =>
       /\ \A i \in Records : added[i] = "ok"
       /\ \A j \in Queries :
             /\ reply[j].ok /\ reply[j].items <= cfg.topK
             /\ reply[j].shown \subseteq Own(j)
             /\ \/ reply[j].shown = Own(j)
                \/ Cardinality(reply[j].shown) >= cfg.topK
                \/ reply[j].earlier # {}

\* No false alarm: a service whose adds are searchable at once ("whether every
\* expected record was visible", eval/README.md:29) passes, whatever the
\* interleaving of the workers and however many records a user has.
HonestPasses == phase = "ended" /\ honest => exit # "failed"

-----------------------------------------------------------------------------
(* What makes both inductive: Results the first, Pool and Progress the     *)
(* second.                                                                 *)

Verdicts == [schema : BOOLEAN, isolation : BOOLEAN, visibility : BOOLEAN]

LoadTypes ==
    /\ cfg \in Configs /\ honest \in BOOLEAN
    /\ phase \in {"flags", "add", "search", "summary", "ended"}
    /\ pc \in {"hand", "drain"}
    /\ next \in Nat /\ done \in Nat /\ drained \in Nat
    /\ worker \in [Workers -> {"off", "ready", "busy", "gone"}]
    /\ job \in [Workers -> Nat]
    /\ added \in [Records -> {"unset", "ok", "failed"}]
    /\ found \in [Queries -> Verdicts]
    /\ reply \in [Queries -> [ok : BOOLEAN, items : Nat, shown : SUBSET Records, earlier : SUBSET Earlier]]

\* A search is judged by its own answer.
Results ==
    /\ \A j \in Queries : found[j] = Unset \/ found[j] = Verdict(reply[j], j)
    /\ phase = "ended" /\ exit = "passed" => Clean

Goroutines == 1 .. Size(phase)
Gone == {w \in Workers : worker[w] = "gone"}

\* The tokens count the workers that have left.
Pool ==
    InPhase =>
       /\ Goroutines \subseteq Workers
       /\ \A w \in Workers : worker[w] # "off" => w \in Goroutines
       /\ Cardinality(Gone) = done + drained
       /\ next <= Count(phase)
       /\ pc = "hand" => Gone = {}
       /\ pc = "drain" => next = Count(phase)
       /\ \A w \in Workers : worker[w] = "busy" => job[w] < next

InHand(i) == \E w \in Workers : worker[w] = "busy" /\ job[w] = i
AddDone(i) == i \in stored /\ added[i] = "ok"
SearchDone(j) == found[j] = [schema |-> TRUE, isolation |-> TRUE, visibility |-> TRUE]

\* What was handed out is done or in hand, and the adds come first.
Progress ==
    honest =>
       /\ phase = "add" => \A i \in Records : i < next => AddDone(i) \/ InHand(i)
       /\ phase \in {"search", "summary"} => \A i \in Records : AddDone(i)
       /\ phase = "search" => \A j \in Queries : j < next => SearchDone(j) \/ InHand(j)
       /\ phase = "summary" => \A j \in Queries : SearchDone(j)
       /\ phase = "ended" => exit # "failed"

LoadInv == LoadTypes /\ Results /\ Pool /\ Progress
=============================================================================
