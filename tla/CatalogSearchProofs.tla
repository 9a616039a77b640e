------------------------ MODULE CatalogSearchProofs ------------------------
(***************************************************************************)
(* For tables of any length and any capacity: the fan-out is bounded, no   *)
(* slot is overwritten before it is read, what was fetched is returned in  *)
(* the order of the ranks, every hit is tried, and an empty result hides   *)
(* no failure.                                                             *)
(***************************************************************************)
EXTENDS CatalogSearch, FiniteSetTheorems, TLAPS

\* Sets of ranks are finite, and so can be counted.
LEMMA RanksFinite ==
  ASSUME NEW S \in SUBSET Ranks
  PROVE  IsFiniteSet(S) /\ Cardinality(S) \in Nat
<1>1. IsFiniteSet(Ranks)
  BY FS_Interval, SearchAssumption DEF Ranks
<1>2. IsFiniteSet(S)
  BY <1>1, FS_Subset
<1>3. QED
  BY <1>2, FS_CardinalityType

\* The initial state is typed, and satisfies the invariant.
LEMMA InitInv == Init => IInv
<1> SUFFICES ASSUME Init PROVE IInv
  OBVIOUS
<1> USE SearchAssumption DEF Init
<1>1. TypeOK
  <2>1. /\ hits \in 0 .. MaxHits /\ next \in 1 .. MaxHits + 1
        /\ scan \in 1 .. MaxHits + 1 /\ kept \in 0 .. MaxHits
    OBVIOUS
  <2>2. records \in [Ranks -> 0 .. MaxHits]
    <3>1. 0 \in 0 .. MaxHits
      OBVIOUS
    <3>2. QED
      BY <3>1
  <2>3. QED
    BY <2>1, <2>2 DEF TypeOK
<1>2. Holding = {} /\ Unfinished = {}
  BY DEF Holding, Unfinished
<1>3. BoundedFanOut /\ WaitCounts
  BY <1>2, FS_EmptySet DEF BoundedFanOut, WaitCounts
<1>4. Places /\ Slots /\ Compaction /\ Written
  BY <1>2 DEF Places, Slots, Compaction, Written, Ranks
<1>5. QED
  BY <1>1, <1>3, <1>4 DEF IInv

\* Types, places, slots and the compaction are kept by the main goroutine.
LEMMA MainKeeps ==
  ASSUME IInv, Main
  PROVE  TypeOK' /\ Places' /\ Slots' /\ Compaction'
<1> USE SearchAssumption DEF IInv, TypeOK, Ranks, loopVars, taskVars, outVars
<1>1. CASE Lookup
  BY <1>1 DEF Lookup, Places, Slots, Compaction, Unfinished
<1>2. CASE Loop
  <2>1. TypeOK' /\ Places'
    BY <1>2 DEF Loop, Places, Unfinished
  <2>2. Slots' /\ Compaction'
    BY <1>2 DEF Loop, Slots, Compaction
  <2>3. QED
    BY <2>1, <2>2
<1>3. CASE Spawn
  <2>1. next \in Ranks /\ task[next] = "none"
    BY <1>3 DEF Spawn, Places
  <2>2. TypeOK'
    BY <1>3, <2>1 DEF Spawn
  <2>3. Places'
    BY <1>3, <2>1 DEF Spawn, Places
  <2>4. Slots' /\ Compaction'
    BY <1>3, <2>1 DEF Spawn, Slots, Compaction
  <2>5. QED
    BY <2>2, <2>3, <2>4
<1>4. CASE Wait
  <2> HIDE DEF TypeOK
  <2>1. IsFiniteSet(Unfinished) /\ Cardinality(Unfinished) \in Nat
    BY RanksFinite DEF Unfinished
  <2>2. Unfinished = {}
    <3>1. Cardinality(Unfinished) = 0
      BY <1>4, <2>1 DEF Wait, WaitCounts
    <3>2. QED
      BY <2>1, <3>1, FS_EmptySet
  <2>3. TypeOK' /\ Places'
    BY <1>4, <2>2 DEF Wait, Places, Unfinished, TypeOK
  <2>4. Slots' /\ Compaction'
    BY <1>4 DEF Wait, Slots, Compaction, TypeOK
  <2>5. QED
    BY <2>3, <2>4
<1>5. CASE Compact
  <2>1. scan \in Ranks /\ kept + 1 \in Ranks /\ kept + 1 <= scan
    BY <1>5 DEF Compact, Compaction
  <2>2. found[scan] => records[scan] = scan
    BY <2>1 DEF Slots
  <2>3. TypeOK'
    <3>1. /\ scan' \in 1 .. MaxHits + 1 /\ kept' \in 0 .. MaxHits
          /\ records' \in [Ranks -> 0 .. MaxHits] /\ fetchErr' \in BOOLEAN
      <4>1. scan + 1 \in 1 .. MaxHits + 1 /\ records[scan] \in 0 .. MaxHits
        BY <2>1
      <4>2. CASE found[scan]
        <5>1. /\ records' = [records EXCEPT ![kept + 1] = records[scan]]
              /\ kept' = kept + 1 /\ scan' = scan + 1 /\ fetchErr' = fetchErr
          BY <1>5, <4>2 DEF Compact
        <5>2. QED
          BY <2>1, <4>1, <5>1
      <4>3. CASE ~found[scan]
        BY <1>5, <2>1, <4>1, <4>3 DEF Compact
      <4>4. QED
        BY <4>2, <4>3
    <3>2. QED
      BY <1>5, <3>1 DEF Compact
  <2>4. Places'
    BY <1>5 DEF Compact, Places, Unfinished
  <2>5. Slots'
    BY <1>5, <2>1 DEF Compact, Slots
  <2>6. Compaction'
    BY <1>5, <2>1 DEF Compact, Compaction
  <2>7. QED
    BY <2>3, <2>4, <2>5, <2>6
<1>6. CASE Return
  <2>1. TypeOK' /\ Places'
    BY <1>6 DEF Return, Places, Unfinished
  <2>2. Slots' /\ Compaction'
    BY <1>6 DEF Return, Slots, Compaction
  <2>3. QED
    BY <2>1, <2>2
<1>7. QED
  BY <1>1, <1>2, <1>3, <1>4, <1>5, <1>6 DEF Main

\* So they are by the goroutines of the fetches: none runs after the wait.
LEMMA FetcherKeeps ==
  ASSUME IInv, NEW i \in Ranks, Fetcher(i), BoundedFanOut', WaitCounts'
  PROVE  TypeOK' /\ Places' /\ Slots' /\ Compaction'
<1> USE SearchAssumption DEF IInv, TypeOK, Ranks, loopVars, taskVars, outVars
<1>1. CASE FetchOK(i)
  <2>1. i \in Unfinished /\ pc \notin {"compact", "done"}
    BY <1>1 DEF FetchOK, Places, Unfinished
  <2>2. TypeOK'
    BY <1>1 DEF FetchOK
  <2>3. Places'
    BY <1>1, <2>1 DEF FetchOK, Places
  <2>4. Slots'
    BY <1>1 DEF FetchOK, Slots
  <2>5. Compaction'
    BY <1>1, <2>1 DEF FetchOK, Compaction
  <2>6. QED
    BY <2>2, <2>3, <2>4, <2>5
<1>2. CASE FetchFails(i)
  <2>1. i \in Unfinished /\ pc \notin {"compact", "done"}
    BY <1>2 DEF FetchFails, Places, Unfinished
  <2>2. TypeOK'
    BY <1>2 DEF FetchFails
  <2>3. Places'
    BY <1>2, <2>1 DEF FetchFails, Places
  <2>4. Slots'
    BY <1>2 DEF FetchFails, Slots
  <2>5. Compaction'
    BY <1>2, <2>1 DEF FetchFails, Compaction
  <2>6. QED
    BY <2>2, <2>3, <2>4, <2>5
<1>3. CASE Release(i)
  <2>1. i \in Unfinished /\ pc \notin {"compact", "done"}
    BY <1>3 DEF Release, Places, Unfinished
  <2>2. Cardinality(Holding') \in Nat
    BY <1>3, RanksFinite DEF Release, Holding
  <2>3. TypeOK'
    BY <1>3, <2>2 DEF Release, BoundedFanOut
  <2>4. Places'
    BY <1>3, <2>1 DEF Release, Places
  <2>5. Slots' /\ Compaction'
    BY <1>3 DEF Release, Slots, Compaction
  <2>6. QED
    BY <2>3, <2>4, <2>5
<1>4. CASE Done(i)
  <2>1. i \in Unfinished /\ pc \notin {"compact", "done"}
    BY <1>4 DEF Done, Places, Unfinished
  <2>2. Cardinality(Unfinished') \in Nat
    BY <1>4, RanksFinite DEF Done, Unfinished
  <2>3. TypeOK'
    BY <1>4, <2>2 DEF Done, WaitCounts
  <2>4. Places'
    BY <1>4, <2>1 DEF Done, Places
  <2>5. Slots' /\ Compaction'
    BY <1>4 DEF Done, Slots, Compaction
  <2>6. QED
    BY <2>3, <2>4, <2>5
<1>5. QED
  BY <1>1, <1>2, <1>3, <1>4 DEF Fetcher

\* Both counts follow their sets: a rank joins them at its spawn, leaves one
\* at its release and the other when it is done.
LEMMA CountsKept ==
  ASSUME IInv, Main \/ (\E i \in Ranks : Fetcher(i)) \/ Cancel \/ UNCHANGED vars
  PROVE  BoundedFanOut' /\ WaitCounts'
<1> USE SearchAssumption DEF IInv, TypeOK, loopVars, taskVars, outVars
<1> DEFINE Same == Holding' = Holding /\ Unfinished' = Unfinished /\ sem' = sem
<1>0. /\ IsFiniteSet(Holding) /\ Cardinality(Holding) \in Nat
      /\ IsFiniteSet(Unfinished) /\ Cardinality(Unfinished) \in Nat
  BY RanksFinite DEF Holding, Unfinished
<1>1. ASSUME Same, (pc' = "acquire") = (pc = "acquire"), wg' = wg
      PROVE  BoundedFanOut' /\ WaitCounts'
  BY <1>1 DEF BoundedFanOut, WaitCounts
<1>2. CASE Lookup \/ Wait \/ Compact \/ Return \/ Cancel \/ UNCHANGED vars
  <2>1. Same /\ (pc' = "acquire") = (pc = "acquire") /\ wg' = wg
    BY <1>2 DEF Lookup, Wait, Compact, Return, Cancel, vars, Holding, Unfinished
  <2>2. QED
    BY <1>1, <2>1
<1>3. CASE Loop
  <2>1. Same
    BY <1>3 DEF Loop, Holding, Unfinished
  <2>2. QED
    BY <1>0, <1>3, <2>1 DEF Loop, BoundedFanOut, WaitCounts
<1>4. CASE Spawn
  <2>1. next \in Ranks /\ task[next] = "none"
    BY <1>4 DEF Spawn, Places, Ranks
  <2>2. /\ Holding' = Holding \cup {next} /\ next \notin Holding
        /\ Unfinished' = Unfinished \cup {next} /\ next \notin Unfinished
    BY <1>4, <2>1 DEF Spawn, Holding, Unfinished
  <2>3. /\ Cardinality(Holding') = Cardinality(Holding) + 1
        /\ Cardinality(Unfinished') = Cardinality(Unfinished) + 1
    BY <1>0, <2>2, FS_AddElement
  <2>4. QED
    BY <1>0, <1>4, <2>3 DEF Spawn, BoundedFanOut, WaitCounts
<1>5. ASSUME NEW i \in Ranks, FetchOK(i) \/ FetchFails(i)
      PROVE  BoundedFanOut' /\ WaitCounts'
  <2>1. Same /\ (pc' = "acquire") = (pc = "acquire") /\ wg' = wg
    BY <1>5 DEF FetchOK, FetchFails, Holding, Unfinished
  <2>2. QED
    BY <1>1, <2>1
<1>6. ASSUME NEW i \in Ranks, Release(i)
      PROVE  BoundedFanOut' /\ WaitCounts'
  <2>1. Holding' = Holding \ {i} /\ i \in Holding /\ Unfinished' = Unfinished
    BY <1>6 DEF Release, Holding, Unfinished
  <2>2. Cardinality(Holding') = Cardinality(Holding) - 1
    BY <1>0, <2>1, FS_RemoveElement
  <2>3. QED
    BY <1>0, <1>6, <2>1, <2>2 DEF Release, BoundedFanOut, WaitCounts
<1>7. ASSUME NEW i \in Ranks, Done(i)
      PROVE  BoundedFanOut' /\ WaitCounts'
  <2>1. Unfinished' = Unfinished \ {i} /\ i \in Unfinished /\ Holding' = Holding
    BY <1>7 DEF Done, Holding, Unfinished
  <2>2. Cardinality(Unfinished') = Cardinality(Unfinished) - 1
    BY <1>0, <2>1, FS_RemoveElement
  <2>3. QED
    BY <1>0, <1>7, <2>1, <2>2 DEF Done, BoundedFanOut, WaitCounts
<1>8. QED
  BY <1>2, <1>3, <1>4, <1>5, <1>6, <1>7 DEF Main, Fetcher

\* The compaction adds the rank it has reached behind the ones below it, and
\* no goroutine writes once it has begun.
LEMMA WrittenKept ==
  ASSUME IInv, [Next]_vars
  PROVE  Written'
<1> USE SearchAssumption DEF IInv, TypeOK, Ranks, loopVars, taskVars, outVars
<1>1. CASE Compact
  <2>1. scan \in Ranks /\ kept + 1 \in Ranks /\ kept + 1 <= scan /\ scan' = scan + 1
    BY <1>1 DEF Compact, Compaction
  <2>2. CASE found[scan]
    <3>1. /\ records' = [records EXCEPT ![kept + 1] = scan]
          /\ kept' = kept + 1 /\ found' = found
      BY <1>1, <2>1, <2>2 DEF Compact, Slots
    <3>2. records'[kept + 1] = scan /\ \A i \in 1 .. kept : records'[i] = records[i]
      BY <2>1, <3>1
    <3>3. \A i \in 1 .. kept' : i \in 1 .. kept \/ i = kept + 1
      BY <3>1
    <3>4. \A i \in 1 .. scan' - 1 : i \in 1 .. scan - 1 \/ i = scan
      BY <2>1
    <3> HIDE DEF TypeOK
    <3>5. ASSUME NEW i \in 1 .. kept' PROVE records'[i] \in 1 .. scan' - 1 /\ found'[records'[i]]
      BY <2>1, <2>2, <3>1, <3>2, <3>3, <3>5 DEF Written, TypeOK
    <3>6. ASSUME NEW i \in 1 .. scan' - 1, found'[i] PROVE \E j \in 1 .. kept' : records'[j] = i
      <4>1. CASE i \in 1 .. scan - 1
        <5>1. PICK j \in 1 .. kept : records[j] = i
          BY <3>1, <3>6, <4>1 DEF Written
        <5>2. QED
          BY <3>1, <3>2, <5>1 DEF TypeOK
      <4>2. CASE i = scan
        BY <3>1, <3>2, <4>2 DEF TypeOK
      <4>3. QED
        BY <3>4, <4>1, <4>2
    <3>7. ASSUME NEW i \in 1 .. kept', NEW j \in 1 .. kept', i < j
          PROVE  records'[i] < records'[j]
      <4>1. i \in 1 .. kept
        BY <3>1, <3>7 DEF TypeOK
      <4>2. records[i] < scan
        BY <2>1, <4>1 DEF Written, TypeOK
      <4>3. QED
        BY <3>2, <3>3, <3>7, <4>1, <4>2 DEF Written
    <3>8. QED
      BY <3>5, <3>6, <3>7 DEF Written
  <2>3. CASE ~found[scan]
    <3>1. UNCHANGED <<records, kept, found>>
      BY <1>1, <2>3 DEF Compact
    <3>2. \A i \in 1 .. scan' - 1 : i \in 1 .. scan - 1 \/ i = scan
      BY <2>1
    <3>3. 1 .. scan - 1 \subseteq 1 .. scan' - 1
      BY <2>1
    <3> HIDE DEF TypeOK
    <3>4. QED
      BY <2>3, <3>1, <3>2, <3>3 DEF Written
  <2>4. QED
    BY <2>2, <2>3
<1>2. ASSUME NEW i \in Ranks, Fetcher(i) PROVE Written'
  <2>1. CASE FetchOK(i) \/ FetchFails(i)
    <3>1. task[i] = "running" /\ UNCHANGED <<scan, kept, pc>>
      BY <2>1 DEF FetchOK, FetchFails
    <3>2. pc \notin {"compact", "done"}
      BY <3>1 DEF Places, Unfinished
    <3>3. scan = 1 /\ kept = 0
      BY <3>2 DEF Compaction
    <3>4. QED
      BY <3>1, <3>3 DEF Written
  <2>2. CASE Release(i) \/ Done(i)
    <3>1. UNCHANGED <<records, found, scan, kept>>
      BY <2>2 DEF Release, Done
    <3>2. QED
      BY <3>1 DEF Written
  <2>3. QED
    BY <1>2, <2>1, <2>2 DEF Fetcher
<1>3. CASE Lookup \/ Loop \/ Spawn \/ Wait \/ Return \/ Cancel \/ UNCHANGED vars
  <2>1. UNCHANGED <<records, found, scan, kept>>
    BY <1>3 DEF Lookup, Loop, Spawn, Wait, Return, Cancel, vars
  <2>2. QED
    BY <2>1 DEF Written
<1>4. QED
  BY <1>1, <1>2, <1>3 DEF Next, Main, Returned

\* The invariant is inductive.
LEMMA NextInv == IInv /\ [Next]_vars => IInv'
<1> SUFFICES ASSUME IInv, [Next]_vars PROVE IInv'
  OBVIOUS
<1>1. BoundedFanOut' /\ WaitCounts' /\ Written'
  BY CountsKept, WrittenKept DEF Next, Returned
<1>2. CASE Main
  BY <1>1, <1>2, MainKeeps DEF IInv
<1>3. ASSUME NEW i \in Ranks, Fetcher(i) PROVE IInv'
  BY <1>1, <1>3, FetcherKeeps DEF IInv
<1>4. CASE Cancel
  <2>1. TypeOK' /\ Places' /\ Slots' /\ Compaction'
    BY <1>4 DEF Cancel, IInv, TypeOK, Places, Slots, Compaction, Unfinished,
                loopVars, taskVars, outVars
  <2>2. QED
    BY <1>1, <2>1 DEF IInv
<1>5. CASE UNCHANGED vars
  <2>1. TypeOK' /\ Places' /\ Slots' /\ Compaction'
    BY <1>5 DEF vars, IInv, TypeOK, Places, Slots, Compaction, Unfinished
  <2>2. QED
    BY <1>1, <2>1 DEF IInv
<1>6. QED
  BY <1>2, <1>3, <1>4, <1>5 DEF Next, Returned

\* The invariant that carries the theorems below: what the semaphore and the
\* wait group count, and what is in the slots (demarkus.go:318-360).
THEOREM SearchInvariant == Spec => []IInv
<1>1. QED
  BY InitInv, NextInv, PTL DEF Spec

\* At most Capacity goroutines hold the semaphore, and it counts them, for
\* tables of any length (demarkus.go:331).
THEOREM FanOutBounded == Spec => []BoundedFanOut
<1>1. IInv => BoundedFanOut
  BY DEF IInv
<1>2. QED
  BY <1>1, SearchInvariant, PTL

\* The compaction in place overwrites no slot that it has still to read, and
\* begins after every goroutine has written (demarkus.go:346).
THEOREM SlotsAreSafe == Spec => []NoSlotRace
<1>1. IInv => NoSlotRace
  <2> SUFFICES ASSUME IInv, pc = "compact" PROVE NoSlotRace
    BY DEF NoSlotRace
  <2> USE SearchAssumption DEF IInv, TypeOK, Ranks
  <2>1. \A i \in Started : task[i] = "done"
    BY DEF Places, Started, Unfinished
  <2>2. \A i \in scan .. hits : found[i] => records[i] = i
    BY DEF Slots
  <2>3. QED
    BY <2>1, <2>2 DEF NoSlotRace
<1>2. QED
  BY <1>1, SearchInvariant, PTL

\* An empty success hides no failed fetch, and an error loses no record
\* (demarkus.go:356).
THEOREM EmptyIsHonest == Spec => []EmptyMeansNothing
<1>1. IInv => EmptyMeansNothing
  <2> SUFFICES ASSUME IInv PROVE EmptyMeansNothing
    OBVIOUS
  <2> USE SearchAssumption DEF IInv, TypeOK, Ranks
  <2>1. ASSUME pc = "done", outcome = "ok", kept = 0, NEW i \in 1 .. hits
        PROVE  ~errs[i] /\ (task[i] = "none" => cancelled)
    BY <2>1 DEF Places, Compaction
  <2>2. ASSUME pc = "done", outcome = "error", NEW i \in Ranks
        PROVE  ~found[i]
    <3>1. CASE i <= hits
      BY <2>2, <3>1 DEF Compaction
    <3>2. CASE i > hits
      <4>1. task[i] = "none"
        BY <3>2 DEF Places
      <4>2. QED
        BY <4>1 DEF Slots
    <3>3. QED
      BY <3>1, <3>2
  <2>3. QED
    BY <2>1, <2>2 DEF EmptyMeansNothing
<1>2. QED
  BY <1>1, SearchInvariant, PTL

\* What is returned is what was fetched, each once, in the order of the lookup,
\* though the fetches end in any order (demarkus.go:346).
THEOREM RankOrderKept == Spec => []RankOrder
<1>1. IInv => RankOrder
  <2> SUFFICES ASSUME IInv, pc = "done" PROVE RankOrder
    BY DEF RankOrder
  <2> USE SearchAssumption DEF IInv, TypeOK, Ranks
  <2>1. scan = hits + 1
    BY DEF Compaction
  <2>2. scan - 1 = hits
    BY <2>1
  <2>3. {records[i] : i \in 1 .. kept} = {i \in 1 .. hits : found[i]}
    BY <2>2 DEF Written
  <2>4. QED
    BY <2>3 DEF RankOrder, Written
<1>2. QED
  BY <1>1, SearchInvariant, PTL

\* Unless the caller leaves, no hit is left untried (demarkus.go:326).
THEOREM NoHitForgotten == Spec => []EveryHitTried
<1>1. IInv => EveryHitTried
  <2> SUFFICES ASSUME IInv, pc = "done", ~cancelled, NEW i \in 1 .. hits
               PROVE  found[i] \/ errs[i]
    BY DEF EveryHitTried
  <2> USE SearchAssumption DEF IInv, TypeOK, Ranks
  <2>1. i \in Ranks /\ task[i] # "none" /\ i \notin Unfinished
    BY DEF Places
  <2>2. task[i] = "done"
    BY <2>1 DEF Unfinished
  <2>3. QED
    BY <2>1, <2>2 DEF Slots
<1>2. QED
  BY <1>1, SearchInvariant, PTL
=============================================================================
