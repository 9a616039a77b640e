--------------------------- MODULE CatalogSearch ---------------------------
(***************************************************************************)
(* DemarkusStore.Search: one lookup, then a fetch of every hit in a        *)
(* goroutine of its own, at most Capacity of them at a time, into slots    *)
(* addressed by rank; then a compaction of the slots in place.  The main   *)
(* goroutine and the fetching ones interleave; the caller may leave at any *)
(* point; any fetch may fail.                                              *)
(*                                                                         *)
(* A record is named by the rank of its hit; the zero Record is 0.         *)
(***************************************************************************)
EXTENDS Naturals, FiniteSets, SequencesExt

CONSTANTS
    MaxHits,  \* bound: the longest table a lookup answers with
    Capacity  \* fetchConcurrency

ASSUME SearchAssumption ==
    /\ MaxHits \in Nat
    /\ Capacity \in Nat \ {0}

VARIABLES
    pc,         \* the main goroutine's place
    hits,       \* len(hits)
    next,       \* the rank the loop has reached
    task,       \* task[i]: where the goroutine of hit i is
    sem,        \* slots taken in the semaphore
    wg,         \* the wait group's counter
    records, found, errs,
    cancelled,  \* ctx.Err() # nil
    scan,       \* the compaction's read index
    kept,       \* len(out)
    fetchErr,
    outcome     \* "none", or how Search returned: "ok" or "error"

vars == <<pc, hits, next, task, sem, wg, records, found, errs, cancelled,
          scan, kept, fetchErr, outcome>>
loopVars == <<hits, next>>
taskVars == <<task, sem, wg, records, found, errs>>
outVars == <<scan, kept, fetchErr, outcome>>

Ranks == 1 .. MaxHits

Init ==
    /\ pc = "lookup"
    /\ hits = 0 /\ next = 1
    /\ task = [i \in Ranks |-> "none"]
    /\ sem = 0 /\ wg = 0
    /\ records = [i \in Ranks |-> 0]
    /\ found = [i \in Ranks |-> FALSE]
    /\ errs = [i \in Ranks |-> FALSE]
    /\ cancelled = FALSE
    /\ scan = 1 /\ kept = 0 /\ fetchErr = FALSE
    /\ outcome = "none"

-----------------------------------------------------------------------------
(* The main goroutine.                                                     *)

\* An absent scope is an empty table, not an error.
Lookup ==
    /\ pc = "lookup"
    /\ \/ \E n \in 0 .. MaxHits :
             pc' = "loop" /\ hits' = n /\ UNCHANGED outcome
       \/ pc' = "done" /\ outcome' = "error" /\ UNCHANGED hits
    /\ UNCHANGED <<next, taskVars, cancelled, scan, kept, fetchErr>>

\* A bug of the loop's bound: the last hit is left out.
LoopShort ==
    /\ pc = "loop"
    /\ IF next >= hits \/ cancelled
       THEN pc' = "wait" /\ UNCHANGED wg
       ELSE pc' = "acquire" /\ wg' = wg + 1
    /\ UNCHANGED <<loopVars, task, sem, records, found, errs, cancelled, outVars>>

Loop ==
    /\ pc = "loop"
    /\ IF next > hits \/ cancelled
       THEN pc' = "wait" /\ UNCHANGED wg
       ELSE pc' = "acquire" /\ wg' = wg + 1
    /\ UNCHANGED <<loopVars, task, sem, records, found, errs, cancelled, outVars>>

\* A bug of the send to the semaphore: it never blocks.
SpawnUnbounded ==
    /\ pc = "acquire"
    /\ sem' = sem + 1
    /\ task' = [task EXCEPT ![next] = "running"]
    /\ next' = next + 1
    /\ pc' = "loop"
    /\ UNCHANGED <<hits, wg, records, found, errs, cancelled, outVars>>

Spawn ==
    /\ pc = "acquire" /\ sem < Capacity
    /\ sem' = sem + 1
    /\ task' = [task EXCEPT ![next] = "running"]
    /\ next' = next + 1
    /\ pc' = "loop"
    /\ UNCHANGED <<hits, wg, records, found, errs, cancelled, outVars>>

Wait ==
    /\ pc = "wait" /\ wg = 0
    /\ pc' = "compact"
    /\ UNCHANGED <<loopVars, taskVars, cancelled, outVars>>

\* Bugs of the compaction: slots are kept from the last to the first; failed
\* fetches are passed over in silence.
CompactReversed ==
    LET i == hits + 1 - scan IN
    /\ pc = "compact" /\ scan <= hits
    /\ IF found[i]
       THEN /\ records' = [records EXCEPT ![kept + 1] = records[i]]
            /\ kept' = kept + 1
            /\ UNCHANGED fetchErr
       ELSE /\ fetchErr' = (fetchErr \/ errs[i])
            /\ UNCHANGED <<records, kept>>
    /\ scan' = scan + 1
    /\ UNCHANGED <<pc, loopVars, task, sem, wg, found, errs, cancelled, outcome>>

CompactSilently ==
    /\ pc = "compact" /\ scan <= hits
    /\ IF found[scan]
       THEN /\ records' = [records EXCEPT ![kept + 1] = records[scan]]
            /\ kept' = kept + 1
       ELSE UNCHANGED <<records, kept>>
    /\ scan' = scan + 1
    /\ UNCHANGED <<pc, loopVars, task, sem, wg, found, errs, cancelled, fetchErr, outcome>>

\* out shares its array with records: append writes slot kept + 1 of it.
Compact ==
    /\ pc = "compact" /\ scan <= hits
    /\ IF found[scan]
       THEN /\ records' = [records EXCEPT ![kept + 1] = records[scan]]
            /\ kept' = kept + 1
            /\ UNCHANGED fetchErr
       ELSE /\ fetchErr' = (fetchErr \/ errs[scan])
            /\ UNCHANGED <<records, kept>>
    /\ scan' = scan + 1
    /\ UNCHANGED <<pc, loopVars, task, sem, wg, found, errs, cancelled, outcome>>

Return ==
    /\ pc = "compact" /\ scan > hits
    /\ pc' = "done"
    /\ outcome' = IF kept = 0 /\ fetchErr THEN "error" ELSE "ok"
    /\ UNCHANGED <<loopVars, taskVars, cancelled, scan, kept, fetchErr>>

-----------------------------------------------------------------------------
(* The goroutine of hit i.                                                 *)

FetchOK(i) ==
    /\ task[i] = "running"
    /\ task' = [task EXCEPT ![i] = "fetched"]
    /\ records' = [records EXCEPT ![i] = i]
    /\ found' = [found EXCEPT ![i] = TRUE]
    /\ UNCHANGED <<pc, loopVars, sem, wg, errs, cancelled, outVars>>

FetchFails(i) ==
    /\ task[i] = "running"
    /\ task' = [task EXCEPT ![i] = "fetched"]
    /\ errs' = [errs EXCEPT ![i] = TRUE]
    /\ UNCHANGED <<pc, loopVars, sem, wg, records, found, cancelled, outVars>>

\* A bug of the deferred receive: a failed fetch keeps its slot.
ReleaseUnlessFailed(i) ==
    /\ task[i] = "fetched"
    /\ task' = [task EXCEPT ![i] = "released"]
    /\ sem' = IF errs[i] THEN sem ELSE sem - 1
    /\ UNCHANGED <<pc, loopVars, wg, records, found, errs, cancelled, outVars>>

\* Deferred calls run last in, first out: the semaphore before the group.
Release(i) ==
    /\ task[i] = "fetched"
    /\ task' = [task EXCEPT ![i] = "released"]
    /\ sem' = sem - 1
    /\ UNCHANGED <<pc, loopVars, wg, records, found, errs, cancelled, outVars>>

\* A bug of the wait group: a goroutine is counted out before it has written.
DoneEarly(i) ==
    /\ task[i] \in {"running", "released"} /\ wg > 0
    /\ task' = IF task[i] = "released" THEN [task EXCEPT ![i] = "done"] ELSE task
    /\ wg' = wg - 1
    /\ UNCHANGED <<pc, loopVars, sem, records, found, errs, cancelled, outVars>>

Done(i) ==
    /\ task[i] = "released"
    /\ task' = [task EXCEPT ![i] = "done"]
    /\ wg' = wg - 1
    /\ UNCHANGED <<pc, loopVars, sem, records, found, errs, cancelled, outVars>>

Cancel ==
    /\ ~cancelled /\ pc # "done"
    /\ cancelled' = TRUE
    /\ UNCHANGED <<pc, loopVars, taskVars, outVars>>

Returned == pc = "done" /\ UNCHANGED vars

Main == Lookup \/ Loop \/ Spawn \/ Wait \/ Compact \/ Return
Fetcher(i) == FetchOK(i) \/ FetchFails(i) \/ Release(i) \/ Done(i)

Next == Main \/ (\E i \in Ranks : Fetcher(i)) \/ Cancel \/ Returned

\* No step waits for ever on anything but the semaphore and the wait group: a
\* lookup or a fetch is bounded by its attempts' deadlines.
Spec == Init /\ [][Next]_vars /\ WF_vars(Main) /\ \A i \in Ranks : WF_vars(Fetcher(i))

-----------------------------------------------------------------------------
\* Every variable has its type.
TypeOK ==
    /\ pc \in {"lookup", "loop", "acquire", "wait", "compact", "done"}
    /\ hits \in 0 .. MaxHits
    /\ next \in 1 .. MaxHits + 1
    /\ task \in [Ranks -> {"none", "running", "fetched", "released", "done"}]
    /\ sem \in Nat /\ wg \in Nat
    /\ records \in [Ranks -> 0 .. MaxHits]
    /\ found \in [Ranks -> BOOLEAN]
    /\ errs \in [Ranks -> BOOLEAN]
    /\ cancelled \in BOOLEAN
    /\ scan \in 1 .. MaxHits + 1
    /\ kept \in 0 .. MaxHits
    /\ fetchErr \in BOOLEAN
    /\ outcome \in {"none", "ok", "error"}

Holding == {i \in Ranks : task[i] \in {"running", "fetched"}}
Started == {i \in Ranks : task[i] # "none"}

\* At most Capacity goroutines are between their spawn and the release of the
\* semaphore, whatever failed or was cancelled (demarkus.go:21).
BoundedFanOut == Cardinality(Holding) = sem /\ sem <= Capacity

\* The compaction starts after every goroutine has written its slot, and a
\* slot is not overwritten before it is read (demarkus.go:345).
NoSlotRace ==
    pc = "compact" =>
       /\ \A i \in Started : task[i] = "done"
       /\ \A i \in scan .. hits : found[i] => records[i] = i

\* What Search returns is what was fetched, once each, in the lookup's order.
RankOrder ==
    pc = "done" /\ outcome = "ok" =>
       /\ {records[i] : i \in 1 .. kept} = {i \in 1 .. hits : found[i]}
       /\ \A i, j \in 1 .. kept : i < j => records[i] < records[j]

\* An empty success hides no failure: nothing matched, or the caller left
\* before a fetch started; and an error means that nothing was fetched.
EmptyMeansNothing ==
    /\ pc = "done" /\ outcome = "ok" /\ kept = 0 =>
          \A i \in 1 .. hits : ~errs[i] /\ (task[i] = "none" => cancelled)
    /\ pc = "done" /\ outcome = "error" => \A i \in Ranks : ~found[i]

\* Unless the caller leaves, every hit is tried.
EveryHitTried ==
    pc = "done" /\ outcome = "ok" /\ ~cancelled =>
       \A i \in 1 .. hits : found[i] \/ errs[i]

\* Search returns.
Returns == <>(pc = "done")

-----------------------------------------------------------------------------
(* What makes BoundedFanOut, NoSlotRace, RankOrder, EmptyMeansNothing and  *)
(* EveryHitTried inductive.                                                *)

Unfinished == {i \in Ranks : task[i] \in {"running", "fetched", "released"}}

\* The wait group counts the goroutines, and the one about to start.
WaitCounts == wg = Cardinality(Unfinished) + (IF pc = "acquire" THEN 1 ELSE 0)

\* Goroutines are started in rank order, all of them unless the caller left,
\* and none is left after the wait.
Places ==
    /\ next <= hits + 1
    /\ pc = "lookup" => hits = 0
    /\ pc = "acquire" => next <= hits
    /\ pc \in {"wait", "compact", "done"} => next > hits \/ cancelled
    /\ pc \in {"compact", "done"} => Unfinished = {}
    /\ \A i \in Ranks : task[i] # "none" <=> i < next

\* A goroutine that is past its fetch has left a result; it stays in its slot
\* until the compaction has read it.
Slots ==
    \A i \in Ranks :
       /\ found[i] \/ errs[i] <=> task[i] \in {"fetched", "released", "done"}
       /\ found[i] /\ i >= scan => records[i] = i

\* The compaction writes behind the place it reads, and forgets no failure.
Compaction ==
    /\ kept < scan /\ scan <= hits + 1
    /\ pc \notin {"compact", "done"} => scan = 1
    /\ pc = "done" <=> outcome # "none"
    /\ pc = "done" => scan = hits + 1
    /\ kept = 0 => \A i \in Ranks : i < scan => ~found[i]
    /\ ~fetchErr => \A i \in Ranks : i < scan => found[i] \/ ~errs[i]
    /\ outcome = "ok" => kept > 0 \/ ~fetchErr
    /\ outcome = "error" => kept = 0

\* What it has written are the ranks found among those it has read, in order.
Written ==
    /\ \A i \in 1 .. kept : records[i] \in 1 .. scan - 1 /\ found[records[i]]
    /\ \A i \in 1 .. scan - 1 : found[i] => \E j \in 1 .. kept : records[j] = i
    /\ \A i, j \in 1 .. kept : i < j => records[i] < records[j]

IInv == TypeOK /\ BoundedFanOut /\ WaitCounts /\ Places /\ Slots /\ Compaction /\ Written
=============================================================================
