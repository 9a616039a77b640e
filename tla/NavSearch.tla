----------------------------- MODULE NavSearch -----------------------------
(***************************************************************************)
(* POST /search from the mode main chose to the answer: the navigation     *)
(* agent's tool calls and the evidence they leave, the fallback to the     *)
(* catalog, the handler's cut at top_k.                                    *)
(*                                                                         *)
(* The agent (a model under the nib loop) is external: it makes any calls  *)
(* in any order.  A turn may hold several calls, so calls may follow a     *)
(* submit_evidence of the same turn.  The catalog's answer is any outcome  *)
(* of DemarkusStore.Search (module CatalogSearch).  Paths are those that   *)
(* scoped() returns (module PathScope); Outside is one it rejects.         *)
(***************************************************************************)
EXTENDS Naturals, SequencesExt

CONSTANTS
    Docs,      \* documents under the user's scope
    Outside,
    TopK,
    MaxCalls,  \* bound: tool calls of one run (MaxTurns bounds the turns)
    MaxPaths   \* bound: paths of one submit_evidence

ASSUME NavAssumption ==
    /\ Outside \notin Docs
    /\ TopK \in Nat \ {0} /\ MaxCalls \in Nat /\ MaxPaths \in Nat

VARIABLES
    mode,       \* the strategy main wired: "off", "auto", "require"
    phase,      \* "nav", "stopping" (a submit was called), "catalog", "answered"
    calls,      \* tool calls made
    fetched,    \* run.fetched
    ranked,     \* run.ranked
    submitted,  \* run.submitted
    ending,     \* how the agent ended: "none", "submit", "parked", "terminal"
    catalog,    \* what the catalog search came to: [status, data]
    answer,     \* [status, data, source] of the response
    said        \* history: whether the agent has made a valid submit

vars == <<mode, phase, calls, fetched, ranked, submitted, ending, catalog, answer, said>>

NotAsked == [status |-> "unasked", data |-> <<>>]
NoAnswer == [status |-> 0, data |-> <<>>, source |-> "none"]

\* The strategy for ADAPTER_NAV, which needs a provider to be more than "off".
Wired(nav, provider) ==
    IF provider \/ nav = "off" THEN nav ELSE IF nav = "auto" THEN "off" ELSE "exit"

Init ==
    /\ \E nav \in {"off", "auto", "require"}, provider \in BOOLEAN : mode = Wired(nav, provider)
    /\ mode # "exit"
    /\ phase = IF mode = "off" THEN "catalog" ELSE "nav"
    /\ calls = 0
    /\ fetched = <<>> /\ ranked = <<>> /\ submitted = FALSE
    /\ ending = "none" /\ catalog = NotAsked
    /\ answer = NoAnswer /\ said = FALSE

Cut(s) == SubSeq(s, 1, IF Len(s) < TopK THEN Len(s) ELSE TopK)

-----------------------------------------------------------------------------
(* The agent's tools.  lookup and list change nothing.                     *)

Call ==
    /\ phase \in {"nav", "stopping"}
    /\ calls < MaxCalls
    /\ calls' = calls + 1

\* A bug of the fetch: a document read before is appended again.
FetchAgain(p) ==
    /\ Call
    /\ \/ fetched' = Append(fetched, p)
       \/ UNCHANGED fetched
    /\ UNCHANGED <<mode, phase, ranked, submitted, ending, catalog, answer, said>>

\* A document read before is answered from the run; a failed read is told to
\* the agent only.
fetch(p) ==
    /\ Call
    /\ \/ ~Contains(fetched, p) /\ fetched' = Append(fetched, p)
       \/ UNCHANGED fetched
    /\ UNCHANGED <<mode, phase, ranked, submitted, ending, catalog, answer, said>>

\* The paths in scope, each where it is named first.
Ranking(paths) ==
    FoldLeft(LAMBDA out, p : IF p = Outside \/ Contains(out, p) THEN out ELSE Append(out, p),
             <<>>, paths)

submit(paths) ==
    /\ Call
    /\ ranked' = Ranking(paths)
    /\ submitted' = TRUE /\ said' = TRUE
    /\ phase' = "stopping"
    /\ UNCHANGED <<mode, fetched, ending, catalog, answer>>

\* A bug of the submit: it is noted before its arguments are looked at.
SubmitNotedFirst ==
    /\ Call
    /\ submitted' = TRUE
    /\ phase' = "stopping"
    /\ UNCHANGED <<mode, fetched, ranked, ending, catalog, answer, said>>

\* A submit without an array is an error for the agent, and ends the run too.
submitInvalid ==
    /\ Call
    /\ phase' = "stopping"
    /\ UNCHANGED <<mode, fetched, ranked, submitted, ending, catalog, answer, said>>

-----------------------------------------------------------------------------
(* NavStore.Search returns, FallbackStore.Search and the handler go on.    *)

\* Of the paths of a ranking, those that were read, until there are enough.
Vouched(paths, read) ==
    FoldLeft(LAMBDA out, p : IF Len(out) = TopK \/ ~Contains(read, p) THEN out ELSE Append(out, p),
             <<>>, paths)

\* Bugs of evidence(): documents that were never fetched are returned; the
\* ranking is cut before the unread documents are left out.
EvidenceUnread == Cut(IF submitted THEN ranked ELSE fetched)
EvidenceCutFirst == IF submitted THEN Vouched(Cut(ranked), fetched) ELSE Cut(fetched)

evidence == IF submitted THEN Vouched(ranked, fetched) ELSE Cut(fetched)

Respond(status, data, source) ==
    /\ phase' = "answered"
    /\ answer' = [status |-> status, data |-> data, source |-> source]

\* How the agent's run can end: on a submit, parked without one, or on an
\* error of the provider, of the turn limit or of the budget.
AgentEnds(how) ==
    /\ \/ phase = "nav" /\ how \in {"parked", "terminal"}
       \/ phase = "stopping" /\ how \in {"submit", "terminal"}
    /\ ending' = how

\* A bug of the order of the tests: evidence hides a terminal error.
FailedIfEmpty(how) == evidence = <<>> /\ ~(submitted /\ how = "submit")

\* An empty result is a success only when the agent submitted it.
Failed(how) ==
    \/ how = "terminal"
    \/ evidence = <<>> /\ ~(submitted /\ how = "submit")

\* A bug of the composition: an empty result counts as an answer.
NavReturnsFirst(how) ==
    /\ AgentEnds(how)
    /\ IF ~Failed(how) THEN Respond(200, evidence, "nav")
       ELSE IF mode = "require" THEN Respond(503, <<>>, "nav")
       ELSE phase' = "catalog" /\ UNCHANGED answer
    /\ UNCHANGED <<mode, calls, fetched, ranked, submitted, catalog, said>>

\* A bug of main: every mode is composed with the fallback.
NavReturnsAlways(how) ==
    /\ AgentEnds(how)
    /\ IF ~Failed(how) /\ evidence # <<>> THEN Respond(200, evidence, "nav")
       ELSE phase' = "catalog" /\ UNCHANGED answer
    /\ UNCHANGED <<mode, calls, fetched, ranked, submitted, catalog, said>>

NavReturns(how) ==
    /\ AgentEnds(how)
    /\ IF ~Failed(how) /\ (mode = "require" \/ evidence # <<>>) THEN Respond(200, evidence, "nav")
       ELSE IF mode = "require" THEN Respond(503, <<>>, "nav")
       ELSE phase' = "catalog" /\ UNCHANGED answer
    /\ UNCHANGED <<mode, calls, fetched, ranked, submitted, catalog, said>>

\* The catalog may find more than it was asked for.
Catalog ==
    /\ phase = "catalog"
    /\ \/ /\ catalog' = [status |-> "error", data |-> <<>>]
          /\ Respond(503, <<>>, "catalog")
       \/ \E found \in {s \in SeqOf(Docs, TopK + 1) : IsInjective(s)} :
             /\ catalog' = [status |-> "ok", data |-> found]
             /\ Respond(200, Cut(found), "catalog")
    /\ UNCHANGED <<mode, calls, fetched, ranked, submitted, ending, said>>

Answered == phase = "answered" /\ UNCHANGED vars

Next ==
    \/ \E p \in Docs : fetch(p)
    \/ \E paths \in SeqOf(Docs \cup {Outside}, MaxPaths) : submit(paths)
    \/ submitInvalid
    \/ \E how \in {"submit", "parked", "terminal"} : NavReturns(how)
    \/ Catalog
    \/ Answered

Spec == Init /\ [][Next]_vars

-----------------------------------------------------------------------------
\* Every variable has its type.
TypeOK ==
    /\ mode \in {"off", "auto", "require"}
    /\ phase \in {"nav", "stopping", "catalog", "answered"}
    /\ calls \in 0 .. MaxCalls
    /\ fetched \in Seq(Docs) /\ ranked \in Seq(Docs)
    /\ submitted \in BOOLEAN /\ said \in BOOLEAN
    /\ ending \in {"none", "submit", "parked", "terminal"}
    /\ catalog.status \in {"unasked", "error", "ok"} /\ catalog.data \in Seq(Docs)
    /\ answer.status \in {0, 200, 503} /\ answer.data \in Seq(Docs)

FromNav == answer.status = 200 /\ answer.source = "nav"

\* Evidence the agent's run answers with was read in that run, names no
\* document twice and is no longer than asked for (nav.go:215); and none that
\* was found before the provider failed or the budget ran out is returned:
\* "terminal failures take precedence" (nav.go:90).
EvidenceVouched ==
    FromNav =>
       /\ ending # "terminal"
       /\ ToSet(answer.data) \subseteq ToSet(fetched)
       /\ IsInjective(answer.data)
       /\ Len(answer.data) <= TopK

Position(s, p) == SelectInSeq(s, LAMBDA q : q = p)

\* After any calls, the last valid submit decides: its order is kept, and a
\* document it names and the run has read is left out only for want of room.
SubmitDecides ==
    FromNav /\ submitted =>
       /\ \A i, j \in DOMAIN answer.data : i < j =>
             Position(ranked, answer.data[i]) < Position(ranked, answer.data[j])
       /\ \A p \in ToSet(ranked) \cap ToSet(fetched) :
             Contains(answer.data, p) \/ Len(answer.data) = TopK

\* Required navigation never turns into a catalog search, and answers with an
\* empty list only when the agent said so (README.md:11): its run ended on the
\* submission, a valid one was made, and it had read no document of the last.
NoSilentDegradation ==
    mode = "require" =>
       /\ catalog = NotAsked
       /\ answer.status = 200 /\ answer.data = <<>> =>
             said /\ ending = "submit" /\ ToSet(ranked) \cap ToSet(fetched) = {}

\* With the fallback, 503 or an empty list means that the catalog itself
\* failed or found nothing (fallback.go:23).
AutoDegradesFully ==
    mode = "auto" /\ phase = "answered" /\ answer.data = <<>> =>
       catalog # NotAsked /\ catalog.data = <<>>
=============================================================================
