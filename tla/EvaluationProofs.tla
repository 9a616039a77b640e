-------------------------- MODULE EvaluationProofs --------------------------
(***************************************************************************)
(* The load run for any arguments, workers and interleaving: what exit 0   *)
(* says of the answers is true, and an honest service gets it.  The        *)
(* quality run for any fixtures, service and gains that fall with the      *)
(* rank: what exit 0 and the scores say of the answers is true, and a      *)
(* service that keeps its word passes.  The conformance run for any set of *)
(* defects in one service: it tells whether there is one.                  *)
(***************************************************************************)
EXTENDS Evaluation, Induction

-----------------------------------------------------------------------------
(* The load run.                                                           *)

\* The records of a run are finitely many, and so are those of a user.
LEMMA RecordsFinite ==
  ASSUME LoadTypes
  PROVE  /\ cfg \in LoadConfig
         /\ IsFiniteSet(Records)
         /\ \A S \in SUBSET Records : IsFiniteSet(S) /\ Cardinality(S) \in Nat
         /\ \A j : Own(j) \subseteq Records
<1>1. cfg \in LoadConfig /\ cfg.adds \in Nat
  BY LoadAssumption DEF LoadTypes, LoadConfig
<1>2. IsFiniteSet(0 .. cfg.adds)
  BY <1>1, FS_Interval
<1>3. IsFiniteSet(Records)
  BY <1>2, FS_Subset DEF Records, Below
<1>4. \A S \in SUBSET Records : IsFiniteSet(S) /\ Cardinality(S) \in Nat
  BY <1>3, FS_Subset, FS_CardinalityType
<1>5. QED
  BY <1>1, <1>3, <1>4 DEF Own

\* What depends on the arguments only is fixed with them.
LEMMA FixedByArguments ==
  ASSUME cfg' = cfg
  PROVE  /\ Records' = Records /\ Queries' = Queries
         /\ \A j : Own(j)' = Own(j)
         /\ \A p : Count(p)' = Count(p) /\ Size(p)' = Size(p)
BY DEF Records, Queries, Below, Own, userCount, Count, Size

\* So is the verdict on an answer.
LEMMA VerdictStays ==
  ASSUME cfg' = cfg
  PROVE  \A r, j : reply'[j] = r => Verdict(reply[j], j)' = Verdict(r, j)
<1> SUFFICES ASSUME NEW r, NEW j, reply'[j] = r
             PROVE  Verdict(reply[j], j)' = Verdict(r, j)
  OBVIOUS
<1>1. Own(j)' = Own(j) /\ userCount' = userCount
  BY FixedByArguments DEF userCount
<1>2. Leaked(reply[j], j)' = Leaked(r, j)
  BY <1>1 DEF Leaked, OfUser
<1>3. Visible(reply[j], j)' = Visible(r, j)
  BY <1>1 DEF Visible, OfUser
<1>4. QED
  BY <1>1, <1>2, <1>3 DEF Verdict

\* The sizes of a phase.
LEMMA Sizes ==
  ASSUME LoadTypes, NEW p \in {"add", "search"}
  PROVE  Count(p) \in Nat /\ Size(p) \in Nat /\ 1 .. Size(p) \subseteq Workers
<1>1. /\ cfg \in LoadConfig /\ 1 .. cfg.concurrency \subseteq Workers
      /\ cfg.adds \in Nat /\ cfg.searches \in Nat /\ cfg.concurrency \in Nat
  BY LoadAssumption DEF LoadTypes, LoadConfig
<1>2. Count(p) \in Nat
  BY <1>1 DEF Count
<1>3. Size(p) \in Nat /\ Size(p) <= cfg.concurrency
  BY <1>1, <1>2 DEF Size, Lesser
<1>4. QED
  BY <1>1, <1>2, <1>3

\* A verdict is three answers of yes or no.
LEMMA VerdictTypes ==
  ASSUME NEW r, NEW j
  PROVE  Verdict(r, j) \in Verdicts
BY DEF Verdict, Verdicts, NoResultErrors

\* The initial state satisfies the invariant.
LEMMA LoadInitInv == LoadInit /\ exit = "none" => LoadInv
<1> SUFFICES ASSUME LoadInit, exit = "none" PROVE LoadInv
  OBVIOUS
<1> USE DEF LoadInit
<1>1. LoadTypes
  BY DEF LoadTypes, Unset, Failure, Verdicts
<1>2. Results /\ Pool /\ Progress
  BY DEF Results, Pool, Progress, InPhase
<1>3. QED
  BY <1>1, <1>2 DEF LoadInv

\* An honest answer is found good once all records are stored.
LEMMA HonestVerdict ==
  ASSUME LoadTypes, NEW j, Records \subseteq stored, NEW r \in HonestReplies(j)
  PROVE  Verdict(r, j) = [schema |-> TRUE, isolation |-> TRUE, visibility |-> TRUE]
<1> DEFINE n == Lesser(Cardinality(Own(j)), cfg.topK)
<1>1. Own(j) \subseteq Records /\ Cardinality(Own(j)) \in Nat /\ cfg.topK \in Nat
  BY RecordsFinite DEF LoadConfig
<1>2. Own(j) \cap stored = Own(j)
  BY <1>1
<1>3. /\ r.ok = TRUE /\ r.items = n /\ r.shown \subseteq Own(j)
      /\ Cardinality(r.shown) = n /\ r.earlier = {}
  BY <1>2 DEF HonestReplies
<1>4. r.shown \cap Own(j) = r.shown
  BY <1>3
<1>5. n \in Nat /\ n <= cfg.topK
  BY <1>1 DEF Lesser
<1>6. NoResultErrors(r.ok, r.items, cfg.topK) = TRUE
  BY <1>3, <1>5 DEF NoResultErrors
<1>7. (~Leaked(r, j)) = TRUE
  BY <1>3 DEF Leaked
<1>8. (Cardinality(Visible(r, j)) >= Lesser(Cardinality(Own(j)), cfg.topK)) = TRUE
  <2>1. Visible(r, j) = r.shown
    BY <1>3, <1>4 DEF Visible
  <2>2. QED
    BY <1>3, <1>5, <2>1
<1>9. QED
  BY <1>6, <1>7, <1>8, Zenon DEF Verdict

\* When every token is there every worker has left.
LEMMA AllGone ==
  ASSUME LoadTypes, Pool, InPhase, drained = Size(phase)
  PROVE  \A w \in Workers : worker[w] # "busy"
<1>1. /\ Size(phase) \in Nat /\ Goroutines \subseteq Workers
      /\ IsFiniteSet(Goroutines) /\ Cardinality(Goroutines) = Size(phase)
  <2>1. Size(phase) \in Nat /\ Goroutines \subseteq Workers
    BY Sizes DEF InPhase, Goroutines
  <2>2. IsFiniteSet(1 .. Size(phase)) /\ Cardinality(1 .. Size(phase)) = Size(phase)
    BY <2>1, FS_Interval
  <2>3. QED
    BY <2>1, <2>2 DEF Goroutines
<1>2. Gone \subseteq Goroutines
  BY DEF Pool, Gone
<1>3. Cardinality(Gone) >= Cardinality(Goroutines)
  BY <1>1 DEF Pool, LoadTypes
<1>4. Gone = Goroutines
  BY <1>1, <1>2, <1>3, FS_Subset, FS_CardinalityType
<1>5. QED
  BY <1>4 DEF Pool, Gone

\* The main goroutine's steps.
LEMMA MainKeeps ==
  ASSUME LoadInv, exit = "none", Main
  PROVE  LoadInv'
<1> USE DEF LoadInv
<1>c. cfg' = cfg /\ honest' = honest
  BY DEF Main, CheckFlags, Hand, Close, Drain, EndPhase, Summary, AfterPhase, StartPhase
<1>f. /\ Records' = Records /\ Queries' = Queries /\ \A j : Own(j)' = Own(j)
      /\ \A p : Count(p)' = Count(p) /\ Size(p)' = Size(p)
  BY <1>c, FixedByArguments
<1>v. \A r, j : reply'[j] = r => Verdict(reply[j], j)' = Verdict(r, j)
  BY <1>c, VerdictStays
<1>1. ASSUME NEW p \in {"add", "search"}, StartPhase(p), exit' = exit,
             honest /\ p = "search" => \A i \in Records : AddDone(i),
             resultVars' = resultVars
      PROVE  LoadInv'
  <2> USE DEF StartPhase, resultVars
  <2>1. LoadTypes'
    BY <1>1, <1>f DEF LoadTypes
  <2>2. Results'
    BY <1>1, <1>f, <1>v DEF Results
  <2>3. Gone' = {}
    BY <1>1 DEF Gone
  <2>4. Count(p) \in Nat /\ Size(p) \in Nat /\ 1 .. Size(p) \subseteq Workers
    BY <1>1, Sizes
  <2>5. Pool'
    BY <1>1, <1>f, <2>3, <2>4, FS_EmptySet DEF Pool, Goroutines, InPhase
  <2>6. Progress'
    <3>1. /\ \A i \in Records : ~(i < next')
          /\ \A j \in Queries : ~(j < next')
      BY <1>1, RecordsFinite DEF Records, Queries, Below, LoadConfig
    <3>2. /\ p = "search" /\ honest => \A i \in Records : AddDone(i)'
          /\ phase' = p /\ honest' = honest
      BY <1>1 DEF AddDone
    <3>3. QED
      BY <1>1, <1>f, <3>1, <3>2 DEF Progress
  <2>7. QED
    BY <2>1, <2>2, <2>5, <2>6
<1>2. CASE CheckFlags
  <2>1. CASE ~Rejected /\ StartPhase("add") /\ UNCHANGED exit
    BY <1>1, <2>1 DEF StartPhase
  <2>2. CASE phase = "flags" /\ phase' = "ended" /\ exit' = "usage" /\ UNCHANGED <<cfg, honest, poolVars, resultVars>>
    <3> USE DEF poolVars, resultVars
    <3>1. LoadTypes'
      BY <1>f, <2>2 DEF LoadTypes
    <3>2. Results'
      BY <1>f, <1>v, <2>2 DEF Results
    <3>3. Pool' /\ Progress'
      BY <2>2 DEF Pool, Progress, InPhase
    <3>4. QED
      BY <3>1, <3>2, <3>3
  <2>3. QED
    BY <1>2, <2>1, <2>2 DEF CheckFlags
<1>3. ASSUME NEW w \in Workers, Hand(w) PROVE LoadInv'
  <2> USE DEF resultVars
  <2>1. LoadTypes'
    BY <1>3, <1>f DEF Hand, LoadTypes
  <2>2. Results'
    BY <1>3, <1>f, <1>v DEF Hand, Results
  <2>3. Gone' = Gone
    BY <1>3 DEF Hand, Gone, LoadTypes
  <2>4. Pool'
    <3>1. Count(phase) \in Nat
      BY <1>3, Sizes DEF Hand, InPhase
    <3>2. QED
      BY <1>3, <1>f, <2>3, <3>1 DEF Hand, Pool, Goroutines, InPhase, LoadTypes
  <2>5. \A i \in Nat : i < next' => i < next \/ InHand(i)'
    BY <1>3 DEF Hand, LoadTypes, InHand
  <2>6. \A i : InHand(i) => InHand(i)'
    BY <1>3 DEF Hand, LoadTypes, InHand
  <2>7. Progress'
    BY <1>3, <1>f, <2>5, <2>6 DEF Hand, Progress, AddDone, SearchDone, InPhase, Records, Queries, Below
  <2>8. QED
    BY <2>1, <2>2, <2>4, <2>7
<1>4. CASE Close \/ Drain
  <2> USE DEF resultVars
  <2>1. LoadTypes'
    BY <1>4, <1>f DEF Close, Drain, LoadTypes
  <2>2. Results'
    BY <1>4, <1>f, <1>v DEF Close, Drain, Results
  <2>3. Gone' = Gone
    BY <1>4 DEF Close, Drain, Gone
  <2>4. Pool'
    BY <1>4, <1>f, <2>3 DEF Close, Drain, Pool, Goroutines, InPhase, LoadTypes
  <2>5. Progress'
    <3>1. UNCHANGED <<phase, next, worker, job, stored, added, found, exit>>
      BY <1>4 DEF Close, Drain
    <3>2. \A i : (InHand(i)' <=> InHand(i)) /\ (AddDone(i)' <=> AddDone(i))
                  /\ (SearchDone(i)' <=> SearchDone(i))
      BY <3>1 DEF InHand, AddDone, SearchDone
    <3>3. QED
      BY <1>c, <1>f, <3>1, <3>2 DEF Progress
  <2>6. QED
    BY <2>1, <2>2, <2>4, <2>5
<1>5. CASE EndPhase
  <2>1. \A w \in Workers : worker[w] # "busy"
    BY <1>5, AllGone DEF EndPhase
  <2>2. next = Count(phase)
    BY <1>5 DEF EndPhase, Pool
  <2>3. phase = "add" /\ honest => \A i \in Records : AddDone(i)
    BY <2>1, <2>2 DEF Progress, InHand, Count, Records, Below
  <2>4. phase = "search" /\ honest =>
           (\A i \in Records : AddDone(i)) /\ \A j \in Queries : SearchDone(j)
    BY <2>1, <2>2 DEF Progress, InHand, Count, Queries, Below
  <2>5. CASE phase = "add" /\ StartPhase("search") /\ UNCHANGED exit
    BY <1>1, <2>3, <2>5 DEF StartPhase
  <2>6. CASE phase = "search" /\ phase' = "summary" /\ UNCHANGED <<cfg, honest, poolVars, resultVars, exit>>
    <3> USE DEF poolVars, resultVars
    <3>1. LoadTypes'
      BY <1>f, <2>6 DEF LoadTypes
    <3>2. Results'
      BY <1>f, <1>v, <2>6 DEF Results
    <3>3. Pool'
      BY <2>6 DEF Pool, InPhase
    <3>4. Progress'
      BY <1>f, <2>4, <2>6 DEF Progress, AddDone, SearchDone
    <3>5. QED
      BY <3>1, <3>2, <3>3, <3>4
  <2>7. QED
    BY <1>5, <2>5, <2>6 DEF EndPhase, AfterPhase
<1>6. CASE Summary
  <2> USE DEF Summary, poolVars, resultVars
  <2>1. LoadTypes'
    BY <1>6, <1>f DEF LoadTypes
  <2>2. Clean' = Clean
    BY <1>6, <1>f DEF Clean
  <2>3. Results'
    BY <1>6, <1>f, <1>v, <2>2 DEF Results
  <2>4. Pool'
    BY <1>6 DEF Pool, InPhase
  <2>5. honest => Clean
    BY <1>6 DEF Progress, AddDone, SearchDone, Clean
  <2>6. Progress'
    BY <1>6, <2>5 DEF Progress
  <2>7. QED
    BY <2>1, <2>3, <2>4, <2>6
<1>7. QED
  BY <1>2, <1>3, <1>4, <1>5, <1>6 DEF Main

\* The workers' steps.
LEMMA WorkKeeps ==
  ASSUME LoadInv, NEW w \in Workers, Work(w)
  PROVE  LoadInv'
<1> USE DEF LoadInv
<1>c. cfg' = cfg /\ honest' = honest
  BY DEF Work, AddOp, SearchOp, Leave, Finish
<1>f. /\ Records' = Records /\ Queries' = Queries /\ \A j : Own(j)' = Own(j)
      /\ \A p : Count(p)' = Count(p) /\ Size(p)' = Size(p)
  BY <1>c, FixedByArguments
<1>v. \A r, j : reply'[j] = r => Verdict(reply[j], j)' = Verdict(r, j)
  BY <1>c, VerdictStays
<1>1. CASE AddOp(w) \/ SearchOp(w)
  <2>1. /\ InPhase /\ worker[w] = "busy" /\ job' = job /\ UNCHANGED <<phase, pc, next, done, drained, exit>>
        /\ worker' = [worker EXCEPT ![w] = "ready"]
    BY <1>1 DEF AddOp, SearchOp, Finish, InPhase
  <2>2. Gone' = Gone
    BY <2>1 DEF Gone, LoadTypes
  <2>3. Pool'
    BY <1>f, <2>1, <2>2 DEF Pool, Goroutines, InPhase, LoadTypes
  <2>4. \A i : InHand(i) => InHand(i)' \/ i = job[w]
    BY <2>1 DEF InHand, LoadTypes
  <2>5. job[w] \in Nat /\ job[w] < Count(phase)
    <3>1. Count(phase) \in Nat
      BY <2>1, Sizes DEF InPhase
    <3>2. QED
      BY <2>1, <3>1 DEF Pool, LoadTypes
  <2>6. CASE AddOp(w)
    <3>1. job[w] \in Records
      BY <2>5, <2>6, RecordsFinite DEF AddOp, Count, Records, Below, LoadConfig
    <3>2. /\ UNCHANGED <<found, reply>> /\ \E a \in {"ok", "failed"} : added' = [added EXCEPT ![job[w]] = a]
          /\ honest => stored' = stored \cup {job[w]} /\ added' = [added EXCEPT ![job[w]] = "ok"]
      BY <2>6 DEF AddOp
    <3>3. LoadTypes'
      BY <1>c, <1>f, <2>1, <3>1, <3>2 DEF LoadTypes
    <3>4. Results'
      BY <1>c, <1>f, <1>v, <2>1, <3>2 DEF Results, InPhase
    <3>5. phase = "add"
      BY <2>6 DEF AddOp
    <3>6. honest => \A i \in Records : AddDone(i) \/ i = job[w] => AddDone(i)'
      BY <3>1, <3>2 DEF AddDone, LoadTypes
    <3>7. Progress'
      BY <1>c, <1>f, <2>1, <2>4, <3>5, <3>6 DEF Progress
    <3>8. QED
      BY <2>3, <3>3, <3>4, <3>7
  <2>7. CASE SearchOp(w)
    <3>1. job[w] \in Queries /\ phase = "search"
      BY <2>5, <2>7, RecordsFinite DEF SearchOp, Count, Queries, Below, LoadConfig
    <3>2. PICK r \in Replies(job[w]) :
             /\ reply' = [reply EXCEPT ![job[w]] = r]
             /\ found' = [found EXCEPT ![job[w]] = Verdict(r, job[w])]
      BY <2>7 DEF SearchOp
    <3>3. r \in [ok : BOOLEAN, items : Nat, shown : SUBSET Records, earlier : SUBSET Earlier]
      <4>1. cfg.topK \in Nat /\ Cardinality(Own(job[w]) \cap stored) \in Nat
        BY RecordsFinite DEF LoadConfig
      <4>2. CASE r \in AnyReplies
        <5>1. \/ r = [ok |-> FALSE, items |-> 0, shown |-> {}, earlier |-> {}]
              \/ r \in [ok : {TRUE}, items : 0 .. cfg.topK + 1, shown : SUBSET Records, earlier : SUBSET Earlier]
          BY <4>2 DEF AnyReplies, Failure
        <5>2. r = [ok |-> r.ok, items |-> r.items, shown |-> r.shown, earlier |-> r.earlier]
          BY <5>1
        <5>3. r.ok \in BOOLEAN /\ r.items \in Nat /\ r.shown \subseteq Records /\ r.earlier \subseteq Earlier
          <6>1. CASE r = [ok |-> FALSE, items |-> 0, shown |-> {}, earlier |-> {}]
            BY <6>1
          <6>2. CASE r \in [ok : {TRUE}, items : 0 .. cfg.topK + 1, shown : SUBSET Records, earlier : SUBSET Earlier]
            <7>1. r.ok = TRUE /\ r.items \in 0 .. cfg.topK + 1 /\ r.shown \in SUBSET Records /\ r.earlier \in SUBSET Earlier
              BY <6>2
            <7>2. r.ok \in BOOLEAN
              BY <7>1, Zenon
            <7>3. r.items \in Nat
              BY <4>1, <7>1
            <7>4. QED
              BY <7>1, <7>2, <7>3
          <6>3. QED
            BY <5>1, <6>1, <6>2
        <5>4. QED
          BY <5>2, <5>3
      <4>3. CASE r \in HonestReplies(job[w])
        <5> DEFINE have == Own(job[w]) \cap stored
                   n == Lesser(Cardinality(have), cfg.topK)
        <5>1. PICK s \in SUBSET have : r = [ok |-> TRUE, items |-> n, shown |-> s, earlier |-> {}]
          BY <4>3 DEF HonestReplies
        <5>2. n \in Nat /\ have \subseteq Records
          BY <4>1, RecordsFinite DEF Lesser
        <5> HIDE DEF have, n
        <5>3. QED
          BY <5>1, <5>2
      <4>4. QED
        BY <4>2, <4>3 DEF Replies
    <3>4. UNCHANGED <<stored, added>>
      BY <2>7 DEF SearchOp
    <3>5. LoadTypes'
      BY <1>c, <1>f, <2>1, <3>2, <3>3, <3>4, VerdictTypes DEF LoadTypes
    <3>6. Results'
      BY <1>c, <1>f, <1>v, <2>1, <3>1, <3>2 DEF Results, InPhase, LoadTypes
    <3>7. honest => SearchDone(job[w])'
      <4>1. honest => Records \subseteq stored /\ r \in HonestReplies(job[w])
        BY <3>1 DEF Progress, AddDone, Replies
      <4>2. QED
        <5>1. honest => Verdict(r, job[w]) = [schema |-> TRUE, isolation |-> TRUE, visibility |-> TRUE]
          BY <4>1, HonestVerdict
        <5>2. found'[job[w]] = Verdict(r, job[w])
          BY <3>1, <3>2 DEF LoadTypes
        <5>3. QED
          BY <2>1, <5>1, <5>2 DEF SearchDone
    <3>8. \A j \in Queries \ {job[w]} : SearchDone(j) => SearchDone(j)'
      BY <3>1, <3>2 DEF SearchDone, LoadTypes
    <3>9. Progress'
      BY <1>c, <1>f, <2>1, <2>4, <3>1, <3>4, <3>7, <3>8 DEF Progress, AddDone
    <3>10. QED
      BY <2>3, <3>5, <3>6, <3>9
  <2>8. QED
    BY <1>1, <2>6, <2>7
<1>2. CASE Leave(w)
  <2> USE DEF resultVars
  <2>1. LoadTypes'
    BY <1>2, <1>f DEF Leave, LoadTypes
  <2>2. Results'
    BY <1>2, <1>f, <1>v DEF Leave, Results, Clean
  <2>3. Gone' = Gone \cup {w} /\ w \notin Gone
    BY <1>2 DEF Leave, Gone, LoadTypes
  <2>4. InPhase => Cardinality(Gone') = Cardinality(Gone) + 1
    <3>1. InPhase => IsFiniteSet(Gone)
      <4>1. InPhase => Size(phase) \in Nat
        BY Sizes DEF InPhase
      <4>2. InPhase => IsFiniteSet(Goroutines)
        BY <4>1, FS_Interval DEF Goroutines
      <4>3. InPhase => Gone \subseteq Goroutines
        BY DEF Pool, Gone
      <4>4. QED
        BY <4>2, <4>3, FS_Subset
    <3>2. QED
      BY <2>3, <3>1, FS_AddElement
  <2>5. Pool'
    BY <1>2, <1>f, <2>4 DEF Leave, Pool, Goroutines, InPhase, LoadTypes
  <2>6. \A i : InHand(i) => InHand(i)'
    BY <1>2 DEF Leave, InHand, LoadTypes
  <2>7. Progress'
    BY <1>2, <1>f, <2>6 DEF Leave, Progress, AddDone, SearchDone
  <2>8. QED
    BY <2>1, <2>2, <2>5, <2>7
<1>3. QED
  BY <1>1, <1>2 DEF Work

\* Nothing that a load run's invariant speaks of changes outside of its steps.
LEMMA LoadInvStands == LoadInv /\ UNCHANGED <<loadVars, exit>> => LoadInv'
<1> SUFFICES ASSUME LoadInv, UNCHANGED <<loadVars, exit>> PROVE LoadInv'
  OBVIOUS
<1> USE DEF loadVars, poolVars, resultVars
<1>1. LoadTypes' /\ Results'
  <2>1. \A j : Verdict(reply[j], j)' = Verdict(reply[j], j)
    BY VerdictStays
  <2>2. QED
    BY <2>1 DEF LoadInv, LoadTypes, Results, Records, Queries, Below, Clean
<1>2. Pool'
  BY DEF LoadInv, Pool, InPhase, Goroutines, Gone, Size, Count
<1>3. Progress'
  BY DEF LoadInv, Progress, Records, Queries, Below, AddDone, SearchDone, InHand
<1>4. QED
  BY <1>1, <1>2, <1>3 DEF LoadInv

\* After the end of a load run only a worker that is left could move.
LEMMA AfterTheEnd ==
  ASSUME LoadInv, exit = "none" \/ phase = "ended", LoadStep
  PROVE  LoadInv' /\ (exit' = "none" \/ phase' = "ended")
<1>1. CASE exit = "none"
  <2>1. LoadInv'
    BY <1>1, MainKeeps, WorkKeeps DEF LoadStep
  <2>2. exit' = exit \/ phase' = "ended"
    BY DEF LoadStep, Main, Work, CheckFlags, Hand, Close, Drain, EndPhase, Summary, AddOp,
           SearchOp, Leave, Finish
  <2>3. QED
    BY <1>1, <2>1, <2>2
<1>2. CASE exit # "none"
  <2>1. ~Main
    BY <1>2 DEF Main, CheckFlags, Hand, Close, Drain, EndPhase, Summary, InPhase
  <2>2. PICK w \in Workers : Work(w)
    BY <2>1 DEF LoadStep
  <2>3. exit' = exit /\ phase' = phase
    BY <2>2 DEF Work, AddOp, SearchOp, Leave, Finish
  <2>4. QED
    BY <1>2, <2>2, <2>3, WorkKeeps
<1>3. QED
  BY <1>1, <1>2

-----------------------------------------------------------------------------
(* The scores of the quality run.                                          *)

\* The gains of a finite set of ranks, taken in the order in which CHOOSE
\* takes them.
Ranks == 1 .. 100
SumsUp(f) ==
    /\ f \in [SUBSET Ranks -> Nat]
    /\ f[{}] = 0
    /\ \A s \in SUBSET Ranks : s # {} =>
          f[s] = Gain[CHOOSE x \in s : TRUE] + f[s \ {CHOOSE x \in s : TRUE}]

\* A gain is a positive number.
LEMMA GainTypes == \A i \in Ranks : i \in Nat /\ Gain[i] \in Nat /\ Gain[i] > 0
<1>1. Gain \in [Ranks -> Nat \ {0}]
  BY QualityAssumption DEF Ranks
<1>2. QED
  BY <1>1 DEF Ranks

\* There are finitely many ranks.
LEMMA RanksFinite == IsFiniteSet(Ranks)
<1>1. 1 \in Int /\ 100 \in Int
  OBVIOUS
<1>2. IsFiniteSet(1 .. 100)
  BY <1>1, FS_Interval
<1>3. QED
  BY <1>2 DEF Ranks

\* What is needed of the cardinality of sets of ranks.
LEMMA SetsOfRanks ==
  ASSUME NEW S \in SUBSET Ranks
  PROVE  \A s \in SUBSET S : /\ IsFiniteSet(s) /\ Cardinality(s) \in Nat
                             /\ Cardinality(s) = 0 <=> s = {}
                             /\ \A x \in s : Cardinality(s \ {x}) = Cardinality(s) - 1
<1>1. IsFiniteSet(S)
  BY RanksFinite, FS_Subset
<1>2. QED
  BY <1>1, FS_Subset, FS_CardinalityType, FS_EmptySet, FS_RemoveElement

\* There is such a function.
LEMMA SumExists == \E f : SumsUp(f)
<1> DEFINE taken == [s \in SUBSET Ranks |-> CHOOSE x \in s : TRUE]
           step == [q \in Nat \X Ranks |-> Gain[q[2]] + q[1]]
<1>1. IsFiniteSet(Ranks)
  BY RanksFinite
<1>2. \A s \in SUBSET Ranks : s # {} => taken[s] = (CHOOSE x \in s : TRUE) /\ taken[s] \in s
  OBVIOUS
<1>3. \A a \in Nat, x \in Ranks : step[<<a, x>>] = Gain[x] + a
  OBVIOUS
<1>4. \A a \in Nat, x \in Ranks : step[<<a, x>>] \in Nat
  <2> SUFFICES ASSUME NEW a \in Nat, NEW x \in Ranks PROVE step[<<a, x>>] \in Nat
    OBVIOUS
  <2>1. Gain[x] \in Nat
    BY GainTypes
  <2>2. QED
    BY <1>3, <2>1
<1> HIDE DEF taken, step
<1>5. PICK f : FoldsBy(f, Ranks, Nat, 0, taken, step)
  <2>1. 0 \in Nat /\ \A s \in SUBSET Ranks : s # {} => taken[s] \in s
    BY <1>2
  <2>2. QED
    BY <1>1, <1>4, <2>1, FoldExists
<1>6. ASSUME NEW s \in SUBSET Ranks, s # {}
      PROVE  f[s] = Gain[CHOOSE x \in s : TRUE] + f[s \ {CHOOSE x \in s : TRUE}]
  <2>1. taken[s] \in Ranks /\ f[s \ {taken[s]}] \in Nat /\ f[s] = step[<<f[s \ {taken[s]}], taken[s]>>]
    BY <1>2, <1>5, <1>6 DEF FoldsBy
  <2>2. QED
    BY <1>2, <1>3, <1>6, <2>1
<1>7. QED
  BY <1>5, <1>6 DEF FoldsBy, SumsUp

\* dcg is that sum.
LEMMA SumIsDcg ==
  ASSUME NEW f, SumsUp(f), NEW S \in SUBSET Ranks
  PROVE  dcg(S) = f[S]
<1> DEFINE Eq(g) == g = [s \in SUBSET S |->
              IF s = {} THEN 0 ELSE Gain[CHOOSE x \in s : TRUE] + g[s \ {CHOOSE x \in s : TRUE}]]
           g == CHOOSE g : Eq(g)
<1>1. dcg(S) = g[S]
  BY DEF dcg, MapThenSumSet, MapThenFoldSet
<1>2. Eq(g)
  <2>1. Eq([s \in SUBSET S |-> f[s]])
    BY DEF SumsUp
  <2>2. QED
    BY <2>1
<1> HIDE DEF g
<1> DEFINE T == {n \in Nat : \A s \in SUBSET S : Cardinality(s) <= n => g[s] = f[s]}
<1>3. \A s \in SUBSET S : /\ IsFiniteSet(s) /\ Cardinality(s) \in Nat
                          /\ Cardinality(s) = 0 <=> s = {}
                          /\ \A x \in s : Cardinality(s \ {x}) = Cardinality(s) - 1
  BY SetsOfRanks
<1>4. 0 \in T
  <2>1. g[{}] = 0 /\ f[{}] = 0
    BY <1>2 DEF SumsUp
  <2>2. \A s \in SUBSET S : Cardinality(s) <= 0 => s = {}
    BY <1>3
  <2>3. QED
    BY <2>1, <2>2
<1>5. ASSUME NEW n \in Nat, n \in T PROVE n + 1 \in T
  <2>0. g[{}] = f[{}]
    BY <1>2 DEF SumsUp
  <2> SUFFICES ASSUME NEW s \in SUBSET S, Cardinality(s) <= n + 1, s # {} PROVE g[s] = f[s]
    BY <2>0
  <2> DEFINE c == CHOOSE x \in s : TRUE
  <2>1. c \in s
    OBVIOUS
  <2>2. g[s \ {c}] = f[s \ {c}]
    BY <1>3, <1>5, <2>1
  <2>3. g[s] = Gain[c] + g[s \ {c}] /\ f[s] = Gain[c] + f[s \ {c}]
    BY <1>2 DEF SumsUp
  <2>4. QED
    BY <2>2, <2>3
<1> HIDE DEF T
<1>6. Cardinality(S) \in T
  BY <1>3, <1>4, <1>5, CountingUp
<1>7. QED
  BY <1>1, <1>3, <1>6 DEF T

\* Any rank can be taken out first.
LEMMA SumTakesAny ==
  ASSUME NEW f, SumsUp(f), NEW S \in SUBSET Ranks, NEW x \in S
  PROVE  f[S] = Gain[x] + f[S \ {x}]
<1> DEFINE T == {n \in Nat : \A s \in SUBSET Ranks : Cardinality(s) <= n =>
                               \A y \in s : f[s] = Gain[y] + f[s \ {y}]}
<1>3. \A s \in SUBSET Ranks : /\ IsFiniteSet(s) /\ Cardinality(s) \in Nat
                              /\ Cardinality(s) = 0 <=> s = {}
                              /\ \A y \in s : Cardinality(s \ {y}) = Cardinality(s) - 1
  BY SetsOfRanks
<1>4. 0 \in T
  BY <1>3
<1>5. ASSUME NEW n \in Nat, n \in T PROVE n + 1 \in T
  <2> SUFFICES ASSUME NEW s \in SUBSET Ranks, Cardinality(s) <= n + 1, NEW y \in s
               PROVE  f[s] = Gain[y] + f[s \ {y}]
    OBVIOUS
  <2> DEFINE c == CHOOSE z \in s : TRUE
  <2>1. c \in s /\ f[s] = Gain[c] + f[s \ {c}]
    BY DEF SumsUp
  <2> HIDE DEF c
  <2>2. CASE y = c
    BY <2>1, <2>2
  <2>3. CASE y # c
    <3>1. f[s \ {c}] = Gain[y] + f[(s \ {c}) \ {y}]
      <4>1. s \ {c} \in SUBSET Ranks /\ y \in s \ {c} /\ Cardinality(s \ {c}) <= n
        BY <1>3, <2>1, <2>3
      <4>2. QED
        BY <1>5, <4>1
    <3>2. f[s \ {y}] = Gain[c] + f[(s \ {y}) \ {c}]
      <4>1. s \ {y} \in SUBSET Ranks /\ c \in s \ {y} /\ Cardinality(s \ {y}) <= n
        BY <1>3, <2>1, <2>3
      <4>2. QED
        BY <1>5, <4>1
    <3>3. (s \ {c}) \ {y} = (s \ {y}) \ {c}
      OBVIOUS
    <3> DEFINE rest == f[(s \ {y}) \ {c}]
    <3>4. Gain[c] \in Nat /\ Gain[y] \in Nat /\ rest \in Nat
      BY <2>1, GainTypes DEF SumsUp
    <3>5. f[s] = Gain[c] + (Gain[y] + rest) /\ f[s \ {y}] = Gain[c] + rest
      BY <2>1, <3>1, <3>2, <3>3
    <3> HIDE DEF rest
    <3>6. QED
      BY <3>4, <3>5
  <2>4. QED
    BY <2>2, <2>3
<1> HIDE DEF T
<1>6. Cardinality(S) \in T
  BY <1>3, <1>4, <1>5, CountingUp
<1>7. QED
  BY <1>3, <1>6 DEF T

\* The last of the first n ranks taken out.
LEMMA LastOfFirst ==
  ASSUME NEW f, SumsUp(f), NEW n \in Ranks
  PROVE  f[1 .. n] = Gain[n] + f[1 .. n - 1]
<1> DEFINE r == 1 .. n
<1>1. r \in SUBSET Ranks /\ n \in r /\ r \ {n} = 1 .. n - 1
  BY DEF Ranks
<1> HIDE DEF r
<1>2. f[r] = Gain[n] + f[r \ {n}]
  BY <1>1, SumTakesAny
<1>3. QED
  BY <1>1, <1>2 DEF r

\* A set of k ranks gains no more than the first k, and as much only if it is
\* the first k.
LEMMA FirstGainMost ==
  ASSUME NEW f, SumsUp(f), NEW S \in SUBSET Ranks
  PROVE  LET k == Cardinality(S) IN
         k <= 100 /\ f[S] <= f[1 .. k] /\ (f[S] = f[1 .. k] <=> S = 1 .. k)
<1> DEFINE Best(s, n) == LET k == Cardinality(s) IN
             k <= n /\ f[s] <= f[1 .. k] /\ (f[s] = f[1 .. k] <=> s = 1 .. k)
           T == {n \in Nat : n <= 100 => \A s \in SUBSET (1 .. n) : Best(s, n)}
<1>1. \A s \in SUBSET Ranks : f[s] \in Nat
  BY DEF SumsUp
<1>2. \A n \in Nat : n <= 100 => 1 .. n \in SUBSET Ranks
  BY DEF Ranks
<1>3. 0 \in T
  <2> SUFFICES ASSUME NEW s \in SUBSET (1 .. 0) PROVE Best(s, 0)
    OBVIOUS
  <2>1. s = {} /\ 1 .. 0 = {}
    OBVIOUS
  <2>2. Cardinality(s) = 0
    BY <2>1, FS_EmptySet
  <2>3. f[{}] = 0
    BY DEF SumsUp
  <2>4. QED
    BY <2>1, <2>2, <2>3
<1>4. ASSUME NEW n \in Nat, n \in T PROVE n + 1 \in T
  <2> HIDE DEF Best
  <2> SUFFICES ASSUME n + 1 <= 100, NEW s \in SUBSET (1 .. n + 1) PROVE Best(s, n + 1)
    OBVIOUS
  <2>0. n <= 100 => \A r \in SUBSET (1 .. n) : Best(r, n)
    BY <1>4
  <2> USE DEF Best
  <2>1. n <= 100 /\ s \in SUBSET Ranks
    BY DEF Ranks
  <2>2. IsFiniteSet(s) /\ Cardinality(s) \in Nat
    BY <2>1, SetsOfRanks
  <2>3. CASE n + 1 \notin s
    <3>1. s \in SUBSET (1 .. n)
      BY <2>3
    <3>2. Best(s, n)
      BY <2>0, <2>1, <3>1
    <3>3. QED
      BY <2>2, <3>2
  <2>4. CASE n + 1 \in s
    <3> DEFINE t == s \ {n + 1}
               k == Cardinality(s)
    <3>1. t \in SUBSET (1 .. n)
      OBVIOUS
    <3>2. Best(t, n)
      BY <2>0, <2>1, <3>1
    <3>3. Cardinality(t) = k - 1 /\ k - 1 \in Nat
      <4>1. t \in SUBSET Ranks /\ Cardinality(t) = Cardinality(s) - 1
        BY <2>1, <2>4, SetsOfRanks
      <4>2. Cardinality(t) \in Nat
        BY <4>1, SetsOfRanks
      <4>3. QED
        BY <4>1, <4>2
    <3>4. k \in Nat /\ 1 <= k /\ k <= n + 1 /\ k - 1 <= n /\ k \in 1 .. k
      BY <2>2, <3>2, <3>3
    <3>5. /\ k - 1 <= n /\ f[t] <= f[1 .. k - 1]
          /\ f[t] = f[1 .. k - 1] <=> t = 1 .. k - 1
      BY <3>2, <3>3
    <3>6. f[s] = Gain[n + 1] + f[t]
      BY <2>1, <2>4, SumTakesAny
    <3>7. f[1 .. k] = Gain[k] + f[1 .. k - 1]
      <4>1. k \in Ranks
        BY <3>4 DEF Ranks
      <4> HIDE DEF k
      <4>2. QED
        BY <4>1, LastOfFirst
    <3>8. k \in Ranks /\ n + 1 \in Ranks
      BY <3>4 DEF Ranks
    <3>9. Gain[k] \in Nat /\ Gain[n + 1] \in Nat /\ Gain[n + 1] <= Gain[k]
          /\ (Gain[n + 1] = Gain[k] <=> k = n + 1)
      <4>1. Gain[k] \in Nat /\ Gain[n + 1] \in Nat
        BY <3>8, GainTypes
      <4>2. k < n + 1 => Gain[k] > Gain[n + 1]
        BY <3>8, QualityAssumption DEF Ranks
      <4>3. QED
        BY <3>4, <4>1, <4>2
    <3>10. s = 1 .. k <=> t = 1 .. k - 1 /\ k = n + 1
      <4>1. ASSUME s = 1 .. k PROVE t = 1 .. k - 1 /\ k = n + 1
        BY <2>4, <3>4, <4>1
      <4>2. ASSUME t = 1 .. k - 1, k = n + 1 PROVE s = 1 .. k
        <5>1. s = t \cup {k}
          BY <2>4, <4>2
        <5> HIDE DEF t, k
        <5>2. QED
          BY <3>4, <4>2, <5>1
      <4>3. QED
        BY <4>1, <4>2
    <3>11. f[t] \in Nat /\ f[1 .. k - 1] \in Nat
      <4>1. t \in SUBSET Ranks /\ 1 .. k - 1 \in SUBSET Ranks
        BY <1>2, <2>1, <3>3, <3>4
      <4>2. QED
        BY <1>1, <4>1
    <3> DEFINE fs == f[s]
               ft == f[t]
               fk == f[1 .. k]
               fl == f[1 .. k - 1]
    <3>12. fs <= fk /\ (fs = fk <=> ft = fl /\ Gain[n + 1] = Gain[k])
      <4>1. fs = Gain[n + 1] + ft /\ fk = Gain[k] + fl /\ ft \in Nat /\ fl \in Nat /\ ft <= fl
        BY <3>5, <3>6, <3>7, <3>11
      <4> HIDE DEF fs, ft, fk, fl, t, k
      <4>2. QED
        BY <3>9, <4>1
    <3>13. fs = fk <=> s = 1 .. k
      BY <3>5, <3>9, <3>10, <3>12
    <3>14. QED
      BY <3>4, <3>12, <3>13
  <2>5. QED
    BY <2>3, <2>4
<1> HIDE DEF T
<1>5. 100 \in T
  BY <1>3, <1>4, CountingUp
<1>6. Best(S, 100)
  BY <1>5 DEF T, Ranks
<1>7. QED
  BY <1>6

\* More first ranks gain more, and only none gain nothing.
LEMMA MoreGainMore ==
  ASSUME NEW f, SumsUp(f), NEW m \in Nat, m <= 100, NEW k \in 0 .. m
  PROVE  f[1 .. k] <= f[1 .. m] /\ (f[1 .. k] = f[1 .. m] <=> k = m)
<1> DEFINE T == {n \in Nat : k + n <= 100 =>
                   f[1 .. k] <= f[1 .. k + n] /\ (f[1 .. k] = f[1 .. k + n] <=> n = 0)}
<1>1. \A n \in Nat : n <= 100 => f[1 .. n] \in Nat
  BY DEF SumsUp, Ranks
<1>2. 0 \in T
  <2>1. k + 0 = k /\ f[1 .. k] \in Nat
    BY <1>1
  <2>2. QED
    BY <2>1
<1>3. ASSUME NEW n \in Nat, n \in T PROVE n + 1 \in T
  <2> SUFFICES ASSUME k + (n + 1) <= 100
               PROVE  /\ f[1 .. k] <= f[1 .. k + (n + 1)]
                      /\ f[1 .. k] = f[1 .. k + (n + 1)] <=> n + 1 = 0
    OBVIOUS
  <2> DEFINE x == k + (n + 1)
  <2>1. /\ x \in Nat /\ x \in 1 .. x /\ x <= 100 /\ k + n \in Nat /\ k + n <= 100
        /\ x - 1 = k + n /\ x \in Ranks
    BY DEF Ranks
  <2>2. f[1 .. x] = Gain[x] + f[1 .. k + n]
    <3>1. f[1 .. x] = Gain[x] + f[1 .. x - 1]
      BY <2>1, LastOfFirst
    <3>2. QED
      BY <2>1, <3>1
  <2>3. Gain[x] \in Nat /\ Gain[x] > 0
    BY <2>1, GainTypes
  <2>4. f[1 .. k] \in Nat /\ f[1 .. k + n] \in Nat /\ f[1 .. k] <= f[1 .. k + n]
    BY <1>1, <1>3, <2>1
  <2> HIDE DEF x
  <2>5. f[1 .. k] < f[1 .. x] /\ f[1 .. x] \in Nat
    BY <2>2, <2>3, <2>4
  <2>6. f[1 .. k] <= f[1 .. x] /\ f[1 .. k] # f[1 .. x]
    BY <2>4, <2>5
  <2>7. n + 1 # 0
    OBVIOUS
  <2>8. QED
    BY <2>6, <2>7, Zenon DEF x
<1> HIDE DEF T
<1>4. m - k \in Nat /\ k + (m - k) = m
  OBVIOUS
<1>5. m - k \in T
  BY <1>2, <1>3, <1>4, CountingUp
<1>6. QED
  BY <1>4, <1>5 DEF T

\* The lesser of two numbers.
LEMMA MinOfTwo ==
  ASSUME NEW a \in Nat, NEW b \in Nat
  PROVE  Min({a, b}) = IF a <= b THEN a ELSE b
<1> DEFINE m == IF a <= b THEN a ELSE b
<1>1. m \in {a, b} /\ \A y \in {a, b} : m <= y
  OBVIOUS
<1>2. \A x \in {a, b} : (\A y \in {a, b} : x <= y) => x = m
  OBVIOUS
<1> HIDE DEF m
<1>3. Min({a, b}) = m
  BY <1>1, <1>2 DEF Min
<1>4. QED
  BY <1>3 DEF m

\* The ranks that score.
NewHits(r, q) == {i \in DOMAIN r.items : NewHit(r, q, i)}

\* There are no more of them than relevant records, and than items.
LEMMA NewHitsBounded ==
  ASSUME NEW r, r.items \in Seq([text : BOOLEAN, sources : SUBSET STRING]), NEW q \in QueryTypes
  PROVE  /\ Cardinality(Relevant(q)) \in Nat
         /\ Cardinality(Relevant(q)) = 0 <=> Relevant(q) = {}
         /\ Len(r.items) \in Nat /\ DOMAIN r.items = 1 .. Len(r.items)
         /\ IsFiniteSet(NewHits(r, q)) /\ Cardinality(NewHits(r, q)) \in Nat
         /\ Cardinality(NewHits(r, q)) <= Cardinality(Relevant(q))
         /\ Cardinality(NewHits(r, q)) <= Len(r.items)
<1>1. IsFiniteSet(Relevant(q))
  <2>1. q.relevant \in Seq(STRING)
    BY DEF QueryTypes
  <2>2. IsFiniteSet(1 .. Len(q.relevant)) /\ DOMAIN q.relevant = 1 .. Len(q.relevant)
    BY <2>1, FS_Interval
  <2>3. q.relevant \in Surjection(DOMAIN q.relevant, Relevant(q))
    BY <2>1 DEF Surjection, Relevant, ToSet
  <2>4. QED
    BY <2>2, <2>3, FS_Surjection
<1>2. Cardinality(Relevant(q)) \in Nat /\ (Cardinality(Relevant(q)) = 0 <=> Relevant(q) = {})
  BY <1>1, FS_CardinalityType, FS_EmptySet
<1>3. Len(r.items) \in Nat /\ DOMAIN r.items = 1 .. Len(r.items)
  OBVIOUS
<1>4. /\ IsFiniteSet(NewHits(r, q)) /\ Cardinality(NewHits(r, q)) \in Nat
      /\ Cardinality(NewHits(r, q)) <= Len(r.items)
  <2>1. IsFiniteSet(1 .. Len(r.items)) /\ Cardinality(1 .. Len(r.items)) = Len(r.items)
    BY <1>3, FS_Interval
  <2>2. NewHits(r, q) \in SUBSET (1 .. Len(r.items))
    BY <1>3 DEF NewHits
  <2> HIDE DEF NewHits
  <2>3. QED
    BY <2>1, <2>2, FS_Subset, FS_CardinalityType
<1>5. Cardinality(NewHits(r, q)) <= Cardinality(Relevant(q))
  <2> DEFINE A == NewHits(r, q)
             New(i, id) == id \in Sources(r, i) \cap Relevant(q) /\ \A j \in 1 .. i - 1 : id \notin Sources(r, j)
             f == [i \in A |-> CHOOSE id : New(i, id)]
  <2>1. ASSUME NEW i \in A PROVE f[i] \in Relevant(q) /\ New(i, f[i])
    <3>1. \E id : New(i, id)
      BY DEF NewHits, NewHit
    <3>2. New(i, f[i])
      BY <3>1
    <3>3. QED
      BY <3>2
  <2> HIDE DEF f
  <2>2. ASSUME NEW i \in A, NEW j \in A, i < j PROVE f[i] # f[j]
    <3>1. i \in 1 .. j - 1
      BY <1>3, <2>2 DEF NewHits
    <3>2. QED
      BY <2>1, <3>1
  <2>3. ASSUME NEW i \in A, NEW j \in A, f[i] = f[j] PROVE i = j
    <3>1. i \in Nat /\ j \in Nat
      BY <1>3 DEF NewHits
    <3>2. QED
      BY <2>2, <2>3, <3>1
  <2>4. f \in [A -> Relevant(q)]
    BY <2>1 DEF f
  <2> HIDE DEF A
  <2>5. f \in Injection(A, Relevant(q))
    BY <2>3, <2>4 DEF Injection, IsInjective
  <2>6. QED
    BY <1>1, <2>5, FS_Injection DEF A
<1>6. QED
  BY <1>2, <1>3, <1>4, <1>5

\* A relevant record that is shown is new where it is shown first.
LEMMA HitsAreNewOnce ==
  ASSUME NEW r, r.items \in Seq([text : BOOLEAN, sources : SUBSET STRING]), NEW q \in QueryTypes
  PROVE  NewHits(r, q) = {} <=> hits(r, q) = {}
<1>1. ASSUME NEW i \in NewHits(r, q) PROVE hits(r, q) # {}
  BY DEF NewHits, NewHit, hits, Retrieved
<1>2. ASSUME NEW id \in hits(r, q) PROVE NewHits(r, q) # {}
  <2> DEFINE S == {i \in DOMAIN r.items : id \in Sources(r, i)}
  <2>1. S # {} /\ DOMAIN r.items = 1 .. Len(r.items) /\ Len(r.items) \in Nat
    BY DEF hits, Retrieved
  <2>2. S \in SUBSET Nat
    BY <2>1
  <2>3. PICK m \in S : \A x \in S : m <= x
    BY <2>1, <2>2, LeastOf
  <2>4. ASSUME NEW j \in 1 .. m - 1 PROVE id \notin Sources(r, j)
    BY <2>1, <2>3
  <2>5. id \in Sources(r, m) \cap Relevant(q)
    BY DEF hits
  <2>6. NewHit(r, q, m)
    BY <2>4, <2>5 DEF NewHit
  <2>7. QED
    BY <2>6 DEF NewHits
<1>3. QED
  BY <1>1, <1>2

\* The score of an answer that is not too long, as ScoresCanBeRead has it.
LEMMA ScoreIsRight ==
  ASSUME NEW r, r.items \in Seq([text : BOOLEAN, sources : SUBSET STRING]), NEW q \in QueryTypes,
         topKOf(q) \in 1 .. 100, Len(r.items) <= topKOf(q)
  PROVE  LET best == Min({Cardinality(Relevant(q)), topKOf(q)})
         IN  /\ Actual(r, q) <= Ideal(q)
             /\ Relevant(q) # {} =>
                   /\ Actual(r, q) = Ideal(q) <=>
                         /\ Len(r.items) >= best
                         /\ \A i \in 1 .. best :
                               ~(Sources(r, i) \cap Relevant(q) \subseteq
                                 UNION {Sources(r, j) : j \in 1 .. i - 1})
                   /\ Actual(r, q) = 0 <=> hits(r, q) = {}
<1>0. topKOf(q) \in Nat /\ topKOf(q) <= 100 /\ topKOf(q) > 0
  <2> DEFINE t == topKOf(q)
  <2>1. t \in 1 .. 100
    OBVIOUS
  <2> HIDE DEF t
  <2>2. t \in Nat /\ t <= 100 /\ t > 0
    BY <2>1
  <2>3. QED
    BY <2>2 DEF t
<1> DEFINE best == Min({Cardinality(Relevant(q)), topKOf(q)})
           A == NewHits(r, q)
           k == Cardinality(A)
<1>1. PICK f : SumsUp(f)
  BY SumExists
<1>2. /\ Cardinality(Relevant(q)) \in Nat /\ (Cardinality(Relevant(q)) = 0 <=> Relevant(q) = {})
      /\ Len(r.items) \in Nat /\ DOMAIN r.items = 1 .. Len(r.items)
      /\ IsFiniteSet(A) /\ k \in Nat /\ k <= Cardinality(Relevant(q)) /\ k <= Len(r.items)
  BY NewHitsBounded
<1>3. /\ best \in Nat /\ best <= 100 /\ k <= best /\ k \in 0 .. best
      /\ Relevant(q) # {} => best > 0
  <2> DEFINE c == Cardinality(Relevant(q))
  <2>1. topKOf(q) \in Nat /\ topKOf(q) <= 100 /\ topKOf(q) > 0
    BY <1>0
  <2>2. c \in Nat /\ (c = 0 <=> Relevant(q) = {}) /\ k \in Nat /\ k <= c /\ k <= topKOf(q)
    <3> HIDE DEF k
    <3>1. k \in Nat /\ k <= Len(r.items) /\ Len(r.items) \in Nat /\ Len(r.items) <= topKOf(q)
      BY <1>2
    <3> DEFINE t == topKOf(q)
               l == Len(r.items)
    <3> HIDE DEF t, l
    <3>2. k <= t
      BY <2>1, <3>1 DEF t, l
    <3>3. QED
      BY <1>2, <3>2 DEF t
  <2> HIDE DEF c, k
  <2>3. best = IF c <= topKOf(q) THEN c ELSE topKOf(q)
    BY <2>1, <2>2, MinOfTwo DEF c
  <2> HIDE DEF best
  <2>4. QED
    BY <2>1, <2>2, <2>3
<1>4. A \in SUBSET Ranks
  <2>1. A \subseteq 1 .. Len(r.items)
    BY <1>2 DEF NewHits
  <2>3. Len(r.items) \in Nat /\ Len(r.items) <= 100
    <3> DEFINE t == topKOf(q)
               l == Len(r.items)
    <3>1. l \in Nat /\ l <= t
      BY <1>2
    <3> HIDE DEF t, l
    <3>2. l <= 100
      BY <1>0, <3>1 DEF t
    <3>3. QED
      BY <3>1, <3>2 DEF l
  <2> HIDE DEF A
  <2>4. QED
    BY <2>1, <2>3 DEF Ranks
<1>5. 1 .. best \in SUBSET Ranks
  <2> HIDE DEF best
  <2>1. QED
    BY <1>3 DEF Ranks
<1>6. Actual(r, q) = f[A]
  <2>1. dcg(A) = f[A]
    BY <1>1, <1>4, SumIsDcg
  <2>2. QED
    BY <2>1 DEF Actual, NewHits
<1>7. Ideal(q) = f[1 .. best]
  <2> DEFINE B == 1 .. best
  <2>1. B \in SUBSET Ranks /\ Ideal(q) = dcg(B)
    BY <1>5 DEF Ideal
  <2> HIDE DEF B
  <2>2. dcg(B) = f[B]
    BY <1>1, <2>1, SumIsDcg
  <2>3. QED
    BY <2>1, <2>2 DEF B
<1>8. f[A] <= f[1 .. k] /\ (f[A] = f[1 .. k] <=> A = 1 .. k)
  BY <1>1, <1>4, FirstGainMost
<1>9. f[1 .. k] <= f[1 .. best] /\ (f[1 .. k] = f[1 .. best] <=> k = best)
  <2> HIDE DEF best, k
  <2>1. QED
    BY <1>1, <1>3, MoreGainMore
<1>10. f[A] \in Nat /\ f[1 .. k] \in Nat /\ f[1 .. best] \in Nat
  <2>1. 1 .. k \in SUBSET Ranks
    <3> HIDE DEF best, k
    <3>1. QED
      BY <1>3 DEF Ranks
  <2>2. \A s \in SUBSET Ranks : f[s] \in Nat
    BY <1>1 DEF SumsUp
  <2>3. QED
    BY <1>4, <1>5, <2>1, <2>2
<1>11. f[A] <= f[1 .. best] /\ (f[A] = f[1 .. best] <=> A = 1 .. k /\ k = best)
  <2> DEFINE a == f[A]
             b == f[1 .. k]
             c == f[1 .. best]
  <2>1. a <= b /\ b <= c /\ a \in Nat /\ b \in Nat /\ c \in Nat
    BY <1>8, <1>9, <1>10
  <2>2. (a = b <=> A = 1 .. k) /\ (b = c <=> k = best)
    BY <1>8, <1>9
  <2> HIDE DEF a, b, c, A, k, best
  <2>3. a <= c /\ (a = c <=> a = b /\ b = c)
    BY <2>1
  <2>4. QED
    BY <2>2, <2>3 DEF a, c
<1>12. A = 1 .. k /\ k = best <=> 1 .. best \subseteq A
  <2>1. ASSUME 1 .. best \subseteq A PROVE A = 1 .. best /\ k = best
    <3> HIDE DEF A, best
    <3> DEFINE B == 1 .. best
    <3>1. Cardinality(B) = best /\ B \in SUBSET A
      <4>1. 1 \in Int /\ best \in Int /\ (IF 1 > best THEN 0 ELSE best - 1 + 1) = best
        BY <1>3
      <4>2. Cardinality(1 .. best) = IF 1 > best THEN 0 ELSE best - 1 + 1
        BY <4>1, FS_Interval
      <4>3. QED
        BY <2>1, <4>1, <4>2
    <3> HIDE DEF B
    <3>2. best <= Cardinality(A) /\ (Cardinality(A) = best => A = B)
      BY <1>2, <3>1, FS_Subset
    <3>3. k = best
      BY <1>2, <1>3, <3>2
    <3>4. QED
      BY <3>2, <3>3 DEF B
  <2>2. QED
    BY <2>1
<1>13. 1 .. best \subseteq A <=>
          /\ Len(r.items) >= best
          /\ \A i \in 1 .. best :
                ~(Sources(r, i) \cap Relevant(q) \subseteq UNION {Sources(r, j) : j \in 1 .. i - 1})
  <2>1. ASSUME NEW i PROVE NewHit(r, q, i) <=>
           ~(Sources(r, i) \cap Relevant(q) \subseteq UNION {Sources(r, j) : j \in 1 .. i - 1})
    BY DEF NewHit
  <2> HIDE DEF best
  <2>2. Len(r.items) >= best <=> 1 .. best \subseteq 1 .. Len(r.items)
    <3>1. best > 0 => best \in 1 .. best
      BY <1>3
    <3>2. QED
      BY <1>2, <1>3, <3>1
  <2>3. A = {i \in 1 .. Len(r.items) : NewHit(r, q, i)}
    BY <1>2 DEF NewHits
  <2> HIDE DEF A
  <2>4. QED
    BY <2>1, <2>2, <2>3
<1>14. f[A] = 0 <=> hits(r, q) = {}
  <2>1. A = {} => f[A] = 0
    BY <1>1 DEF SumsUp
  <2>2. ASSUME NEW x \in A PROVE f[A] > 0
    <3>1. f[A] = Gain[x] + f[A \ {x}] /\ x \in Ranks /\ A \ {x} \in SUBSET Ranks
      BY <1>1, <1>4, SumTakesAny
    <3>2. f[A \ {x}] \in Nat /\ Gain[x] \in Nat /\ Gain[x] > 0
      BY <1>1, <3>1, GainTypes DEF SumsUp
    <3>3. QED
      BY <3>1, <3>2
  <2>3. A = {} <=> hits(r, q) = {}
    BY HitsAreNewOnce
  <2>4. QED
    BY <1>10, <2>1, <2>2, <2>3
<1> HIDE DEF A, best, k
<1>15. QED
  BY <1>6, <1>7, <1>11, <1>12, <1>13, <1>14 DEF best

-----------------------------------------------------------------------------
(* The steps of the quality run.                                           *)

\* A sequence with one more element.
LEMMA Appended ==
  ASSUME NEW S, NEW s \in Seq(S), NEW x \in S, NEW t, t = Append(s, x)
  PROVE  /\ t \in Seq(S) /\ Len(t) = Len(s) + 1
         /\ DOMAIN t = DOMAIN s \cup {Len(s) + 1}
         /\ t[Len(s) + 1] = x
         /\ \A i \in DOMAIN s : t[i] = s[i] /\ i # Len(s) + 1
OBVIOUS

\* The fixture of a run is one of Files, and its ids are strings.
LEMMA FixtureTypes ==
  ASSUME QualityTypes
  PROVE  /\ file.records \in Seq(RecordTypes) /\ file.queries \in Seq(QueryTypes)
         /\ Len(file.records) \in Nat /\ DOMAIN file.records = 1 .. Len(file.records)
         /\ Len(file.queries) \in Nat /\ DOMAIN file.queries = 1 .. Len(file.queries)
         /\ Len(recorded) \in Nat /\ DOMAIN recorded = 1 .. Len(recorded)
         /\ Len(answers) \in Nat /\ DOMAIN answers = 1 .. Len(answers)
         /\ Ids = {file.records[i].id : i \in DOMAIN file.records}
         /\ Ids \subseteq STRING
<1>1. file.records \in Seq(RecordTypes) /\ file.queries \in Seq(QueryTypes)
  BY QualityAssumption DEF QualityTypes
<1>2. recorded \in Seq(BOOLEAN) /\ answers \in Seq(ReplyTypes)
  BY DEF QualityTypes
<1>3. Ids = {file.records[i].id : i \in DOMAIN file.records}
  BY DEF Ids, ToSet, Field
<1>4. \A i \in DOMAIN file.records : file.records[i].id \in STRING
  <2>1. \A i \in DOMAIN file.records : file.records[i] \in RecordTypes
    BY <1>1
  <2>2. QED
    BY <2>1 DEF RecordTypes
<1>5. Ids \subseteq STRING
  BY <1>3, <1>4
<1>6. Len(file.records) \in Nat /\ DOMAIN file.records = 1 .. Len(file.records)
  BY <1>1
<1>7. Len(file.queries) \in Nat /\ DOMAIN file.queries = 1 .. Len(file.queries)
  BY <1>1
<1>8. /\ Len(recorded) \in Nat /\ DOMAIN recorded = 1 .. Len(recorded)
      /\ Len(answers) \in Nat /\ DOMAIN answers = 1 .. Len(answers)
  BY <1>2
<1>9. QED
  BY <1>1, <1>3, <1>5, <1>6, <1>7, <1>8

\* What depends on the fixture only is fixed with it.
LEMMA FixedByFixture ==
  ASSUME file' = file
  PROVE  /\ Valid' = Valid /\ Ids' = Ids
         /\ \A id : UserOf(id)' = UserOf(id)
         /\ \A r, q : AsPromised(r, q)' = AsPromised(r, q)
         /\ \A r, q : Foreign(r, q)' = Foreign(r, q)
<1>1. Valid' = Valid /\ Ids' = Ids /\ \A id : UserOf(id)' = UserOf(id)
  BY DEF Valid, Ids, UserOf, Field, ToSet, IsInjective
<1>2. QED
  BY <1>1 DEF AsPromised, Foreign, Sources, Texts

\* Whoever is asked for a fixture that loads, is asked for 1 to 100 items.
LEMMA TopKBounds ==
  ASSUME QualityTypes, Valid, NEW n \in DOMAIN file.queries
  PROVE  topKOf(file.queries[n]) \in 1 .. 100
<1>1. file.queries[n].topK \in {Default} \cup 1 .. 100
  BY DEF Valid, ToSet
<1>2. QED
  BY <1>1, QualityAssumption DEF topKOf

\* A service that keeps its word answers as promised.
LEMMA KeepingKeeps ==
  ASSUME QualityTypes, kept \subseteq Ids, NEW q, topKOf(q) \in 1 .. 100,
         NEW r \in KeepingReplies(q)
  PROVE  r \in ReplyTypes /\ AsPromised(r, q)
<1> DEFINE S == {id \in kept : UserOf(id) = q.user}
<1>1. PICK s \in SeqOf(S, topKOf(q)) :
         r = [data |-> TRUE, sound |-> TRUE,
              items |-> [i \in DOMAIN s |-> [text |-> TRUE, sources |-> {s[i]}]]]
  BY DEF KeepingReplies, Field
<1>2. PICK m \in 0 .. topKOf(q) : s \in [1 .. m -> S]
  BY <1>1 DEF SeqOf
<1>3. m \in Nat /\ m <= topKOf(q) /\ DOMAIN s = 1 .. m
  BY <1>2
<1>4. \A i \in 1 .. m : s[i] \in Ids /\ UserOf(s[i]) = q.user
  BY <1>2
<1>5. Ids \subseteq STRING
  BY FixtureTypes
<1>6. r.items = [i \in 1 .. m |-> [text |-> TRUE, sources |-> {s[i]}]]
  BY <1>1, <1>3
<1>7. r.items \in Seq([text : BOOLEAN, sources : SUBSET STRING])
  <2>1. \A i \in 1 .. m : [text |-> TRUE, sources |-> {s[i]}] \in [text : BOOLEAN, sources : SUBSET STRING]
    BY <1>4, <1>5
  <2>2. r.items \in [1 .. m -> [text : BOOLEAN, sources : SUBSET STRING]]
    BY <1>6, <2>1
  <2> DEFINE J == [text : BOOLEAN, sources : SUBSET STRING]
  <2>3. r.items \in [1 .. m -> J]
    BY <2>2
  <2> HIDE DEF J
  <2>4. r.items \in Seq(J)
    BY <1>3, <2>3
  <2>5. QED
    BY <2>4 DEF J
<1>8. Len(r.items) = m /\ DOMAIN r.items = 1 .. m
  BY <1>3, <1>6, <1>7
<1>9. r \in ReplyTypes
  BY <1>1, <1>7 DEF ReplyTypes
<1>10. Texts(r) /\ \A i \in DOMAIN r.items : Sources(r, i) = {s[i]}
  BY <1>6, <1>8 DEF Texts, Sources
<1>11. AsPromised(r, q)
  BY <1>1, <1>3, <1>4, <1>8, <1>10 DEF AsPromised
<1>12. QED
  BY <1>9, <1>11

\* And any answer is of its type.
LEMMA AnyAnswerTypes ==
  ASSUME QualityTypes, NEW q, topKOf(q) \in 1 .. 100, NEW r \in AnyAnswers(q)
  PROVE  r \in ReplyTypes
<1> DEFINE I == [text : {TRUE}, sources : SUBSET Ids] \cup {[text |-> FALSE, sources |-> {}]}
           J == [text : BOOLEAN, sources : SUBSET STRING]
<1>1. CASE r = NoData
  <2>1. <<>> \in Seq(J)
    OBVIOUS
  <2> HIDE DEF J
  <2>2. NoData \in [data : BOOLEAN, sound : BOOLEAN, items : Seq(J)]
    BY <2>1 DEF NoData
  <2>3. QED
    BY <1>1, <2>2 DEF ReplyTypes, J
<1>2. CASE r \in [data : {TRUE}, sound : BOOLEAN, items : SeqOf(I, topKOf(q) + 1)]
  <2>1. I \subseteq J
    <3>1. Ids \subseteq STRING
      BY FixtureTypes
    <3>2. [text : {TRUE}, sources : SUBSET Ids] \subseteq J
      BY <3>1
    <3>3. [text |-> FALSE, sources |-> {}] \in J
      OBVIOUS
    <3>4. QED
      BY <3>2, <3>3
  <2> HIDE DEF I, J
  <2>2. r.items \in SeqOf(I, topKOf(q) + 1)
    BY <1>2
  <2>3. PICK m \in 0 .. topKOf(q) + 1 : r.items \in [1 .. m -> I]
    BY <2>2 DEF SeqOf
  <2>4. m \in Nat
    BY <2>3
  <2>5. r.items \in Seq(J)
    BY <2>1, <2>3, <2>4
  <2>6. r \in [data : BOOLEAN, sound : BOOLEAN, items : Seq(J)]
    BY <1>2, <2>5
  <2>7. QED
    BY <2>6 DEF ReplyTypes, J
<1>3. QED
  BY <1>1, <1>2 DEF AnyAnswers

\* Nothing as promised fails the run.
LEMMA PromisedIsClean ==
  ASSUME QualityTypes, NEW q, NEW r, AsPromised(r, q)
  PROVE  ~Failing(r, q) /\ Foreign(r, q) = {} /\ Unmapped(r) = {}
<1>1. ~Failing(r, q)
  BY DEF AsPromised, Failing, NoResultErrors
<1>2. \A i \in DOMAIN r.items : \E id \in Ids : Sources(r, i) = {id} /\ UserOf(id) = q.user
  BY DEF AsPromised
<1>3. QED
  BY <1>1, <1>2 DEF Foreign, Unmapped

\* The initial state satisfies the invariant.
LEMMA QualityInitInv == QualityInit /\ exit = "none" => QualityInv
<1> SUFFICES ASSUME QualityInit, exit = "none" PROVE QualityInv
  OBVIOUS
<1> USE DEF QualityInit
<1>1. QualityTypes
  <2>1. file.records \in Seq(RecordTypes) /\ file.queries \in Seq(QueryTypes)
    BY QualityAssumption
  <2>2. Len(file.records) \in Nat /\ Len(file.queries) \in Nat
    BY <2>1
  <2>3. QED
    BY <2>2 DEF QualityTypes
<1>2. Steps
  BY DEF Steps
<1>3. KeptAcknowledged
  BY DEF KeptAcknowledged, Acknowledged
<1>4. Promised
  BY DEF Promised
<1>5. QED
  BY <1>1, <1>2, <1>3, <1>4 DEF QualityInv

\* Every step keeps it.
LEMMA QualityKeeps ==
  ASSUME QualityInv, QualityStep
  PROVE  QualityInv'
<1> USE DEF QualityInv
<1>c. file' = file /\ keeps' = keeps
  BY DEF QualityStep, LoadFixture, AddRecord, AfterAdds, AskQuery, PrintMetrics
<1>f. /\ Valid' = Valid /\ \A r, q : AsPromised(r, q)' = AsPromised(r, q)
      /\ \A r, q : Foreign(r, q)' = Foreign(r, q)
  BY <1>c, FixedByFixture
<1>t. /\ Len(file.records) \in Nat /\ DOMAIN file.records = 1 .. Len(file.records)
      /\ Len(file.queries) \in Nat /\ DOMAIN file.queries = 1 .. Len(file.queries)
      /\ Len(recorded) \in Nat /\ DOMAIN recorded = 1 .. Len(recorded)
      /\ Len(answers) \in Nat /\ DOMAIN answers = 1 .. Len(answers)
      /\ recorded \in Seq(BOOLEAN) /\ answers \in Seq(ReplyTypes)
  BY FixtureTypes DEF QualityTypes
<1>i. Ids = {file.records[i].id : i \in DOMAIN file.records}
  BY FixtureTypes
<1>1. CASE LoadFixture
  <2> USE DEF LoadFixture
  <2>1. QualityTypes'
    BY <1>1, <1>c DEF QualityTypes
  <2>2. Steps'
    BY <1>1, <1>f DEF Steps, AllRecorded
  <2>3. KeptAcknowledged'
    BY <1>1 DEF KeptAcknowledged, Acknowledged
  <2>4. Promised'
    BY <1>1, <1>f DEF Promised, Steps
  <2>5. QED
    BY <2>1, <2>2, <2>3, <2>4
<1>2. CASE AddRecord
  <2> USE DEF AddRecord
  <2>1. PICK ok \in BOOLEAN :
           /\ recorded' = Append(recorded, ok)
           /\ keeps => ok
           /\ kept' = IF ok THEN kept \cup {file.records[Len(recorded) + 1].id} ELSE kept
    BY <1>2
  <2>2. /\ recorded' \in Seq(BOOLEAN) /\ Len(recorded') = Len(recorded) + 1
        /\ DOMAIN recorded' = DOMAIN recorded \cup {Len(recorded) + 1}
        /\ recorded'[Len(recorded) + 1] = ok
        /\ \A i \in DOMAIN recorded : recorded'[i] = recorded[i] /\ i # Len(recorded) + 1
    BY <1>t, <2>1, Appended
  <2>3. QualityTypes'
    BY <1>2, <1>c, <1>t, <2>2 DEF QualityTypes
  <2>4. Steps'
    BY <1>2, <1>f DEF Steps
  <2>5. KeptAcknowledged'
    <3>1. Acknowledged' = IF ok THEN Acknowledged \cup {Len(recorded) + 1} ELSE Acknowledged
      BY <2>2 DEF Acknowledged
    <3>2. QED
      BY <1>2, <2>1, <3>1 DEF KeptAcknowledged
  <2>6. Promised'
    <3>1. answers = <<>>
      BY <1>2 DEF Steps
    <3>2. QED
      BY <1>2, <1>c, <2>1, <2>2, <3>1 DEF Promised
  <2>7. QED
    BY <2>3, <2>4, <2>5, <2>6
<1>3. CASE AfterAdds
  <2> USE DEF AfterAdds
  <2>1. QualityTypes'
    BY <1>3, <1>c DEF QualityTypes
  <2>2. Steps'
    BY <1>3, <1>f DEF Steps, AllRecorded
  <2>3. KeptAcknowledged'
    BY <1>3 DEF KeptAcknowledged, Acknowledged
  <2>4. Promised'
    BY <1>3, <1>f DEF Promised, Steps
  <2>5. QED
    BY <2>1, <2>2, <2>3, <2>4
<1>4. CASE AskQuery
  <2> DEFINE n == Len(answers) + 1
             q == file.queries[n]
  <2>1. PICK r \in IF keeps THEN KeepingReplies(q) ELSE AnyAnswers(q) : answers' = Append(answers, r)
    BY <1>4 DEF AskQuery
  <2>2. place = "search" /\ Len(answers) < Len(file.queries) /\ UNCHANGED <<file, keeps, place, kept, recorded, exit>>
    BY <1>4 DEF AskQuery
  <2>3. Valid /\ n \in DOMAIN file.queries /\ topKOf(q) \in 1 .. 100
    <3>1. Valid
      BY <2>2 DEF Steps
    <3>2. n \in DOMAIN file.queries
      BY <1>t, <2>2
    <3>3. QED
      BY <3>1, <3>2, TopKBounds
  <2>4. kept \subseteq Ids
    <3>1. \A i \in Acknowledged : i \in DOMAIN file.records
      BY <1>t DEF Acknowledged, QualityTypes
    <3>2. QED
      BY <1>i, <3>1 DEF KeptAcknowledged
  <2>5. r \in ReplyTypes /\ (keeps => AsPromised(r, q))
    <3> HIDE DEF q
    <3>1. QED
      BY <2>1, <2>3, <2>4, KeepingKeeps, AnyAnswerTypes
  <2> HIDE DEF q
  <2>6. /\ answers' \in Seq(ReplyTypes) /\ Len(answers') = n
        /\ DOMAIN answers' = DOMAIN answers \cup {n} /\ answers'[n] = r
        /\ \A i \in DOMAIN answers : answers'[i] = answers[i]
    BY <1>t, <2>1, <2>5, Appended
  <2>7. QualityTypes'
    BY <1>t, <2>2, <2>6 DEF QualityTypes
  <2>8. Steps'
    BY <1>f, <2>2 DEF Steps, AllRecorded
  <2>9. KeptAcknowledged'
    BY <2>2 DEF KeptAcknowledged, Acknowledged
  <2>10. Promised'
    BY <1>f, <2>2, <2>5, <2>6 DEF Promised, q
  <2>11. QED
    BY <2>7, <2>8, <2>9, <2>10
<1>5. CASE PrintMetrics
  <2> USE DEF PrintMetrics
  <2>1. QualityTypes'
    BY <1>5, <1>c DEF QualityTypes
  <2>2. CleanRun' = CleanRun
    BY <1>5, <1>f DEF CleanRun, Failing, Scored, Texts
  <2>3. Steps'
    BY <1>5, <1>f, <2>2 DEF Steps, AllRecorded
  <2>4. KeptAcknowledged'
    BY <1>5 DEF KeptAcknowledged, Acknowledged
  <2>5. keeps => CleanRun
    <3>1. keeps => \A m \in DOMAIN answers : AsPromised(answers[m], file.queries[m])
      BY DEF Promised
    <3>2. QED
      BY <3>1, PromisedIsClean DEF CleanRun
  <2>6. Promised'
    BY <1>5, <1>f, <2>5 DEF Promised
  <2>7. QED
    BY <2>1, <2>3, <2>4, <2>6
<1>6. QED
  BY <1>1, <1>2, <1>3, <1>4, <1>5 DEF QualityStep

-----------------------------------------------------------------------------
(* The conformance run.                                                    *)

\* The service takes the client's key.
Takes == setup.server = "none" \/ setup.client = setup.server \/ Has("any-key")

\* The probes of bad requests, by the defect each is for.
BadRequests ==
    {<<11, "malformed">>, <<12, "string-timestamp">>, <<13, "empty-user">>, <<14, "object-options">>,
     <<15, "missing-top_k">>, <<16, "zero-top_k">>, <<17, "oversized-top_k">>}

\* The p-th probe finds something.
Tells(p) ==
    \/ p = 1 /\ Has("unhealthy")
    \/ p = 2 /\ (~Takes \/ Has("echo"))
    \/ p = 5 /\ (Has("lag") \/ Has("scores"))
    \/ p = 6 /\ Has("overrun") /\ ~Has("lag")
    \/ p = 7 /\ Has("shuffle") /\ ~Has("lag")
    \/ p = 8 /\ Has("null-data")
    \/ p = 9 /\ Has("leak") /\ ~Has("lag")
    \/ p = 10 /\ setup.client # "none" /\ (setup.server = "none" \/ Has("any-key"))
    \/ \E d \in Defects : <<p, d>> \in BadRequests /\ Has(d)

MemoryOf(user, marker) == [user |-> user, marker |-> marker]
Memory == {MemoryOf("a", "alpha"), MemoryOf("b", "bravo"), MemoryOf("a", "alpha-too")}
Alphas == <<MemoryOf("a", "alpha"), MemoryOf("a", "alpha-too")>>
Stored == <<MemoryOf("a", "alpha"), MemoryOf("b", "bravo"), MemoryOf("a", "alpha-too")>>

ConformanceTypes ==
    /\ setup \in Setups /\ probe \in 1 .. 21
    /\ failed \in Nat /\ warned \in Nat /\ exit \in {"none", "passed", "failed"}

\* What the probes that add leave behind, and the first search has found.
Left ==
    /\ Has("lag") => memories = << >>
    /\ Takes /\ ~Has("lag") =>
          /\ probe \in {1, 2} => memories = << >>
          /\ probe = 3 => memories = <<MemoryOf("a", "alpha")>>
          /\ probe = 4 => memories = <<MemoryOf("a", "alpha"), MemoryOf("b", "bravo")>>
          /\ probe \in 5 .. 10 => memories = Stored
          /\ probe \in 6 .. 10 => first = IF Has("leak") THEN Stored ELSE Alphas

\* A probe that finds something has been counted, and a run with nothing to
\* find has counted what the parser lets through.
Counted ==
    /\ \A p \in 1 .. probe - 1 : Tells(p) => failed > 0
    /\ NothingToFind =>
          /\ failed = IF setup.strict /\ probe > 18 THEN probe - 18 ELSE 0
          /\ warned = (IF setup.client = "none" /\ probe > 10 THEN 1 ELSE 0)
                      + (IF ~setup.strict /\ probe > 18 THEN probe - 18 ELSE 0)

ConformanceInv ==
    /\ ConformanceTypes /\ Left /\ Counted
    /\ exit # "none" => probe = 21 /\ exit = IF failed = 0 THEN "passed" ELSE "failed"

\* The services have defects of the list, or none.
LEMMA KnownDefects ==
  ASSUME setup \in Setups
  PROVE  /\ setup.server \in Keys /\ setup.client \in Keys /\ setup.strict \in BOOLEAN
         /\ setup.defects \subseteq Defects
BY ServicesAssumption DEF Setups

\* The probes.
LEMMA TheProbes ==
  /\ Len(Probes) = 20
  /\ Probes[1] = [path |-> "/health"]
  /\ Probes[2] = add("a", "alpha") /\ Probes[3] = add("b", "bravo") /\ Probes[4] = add("a", "alpha-too")
  /\ Probes[5] = search("a", "alpha", 100) /\ Probes[6] = search("a", "alpha", 1)
  /\ Probes[7] = search("a", "alpha", 100) /\ Probes[8] = search("nobody", "nothing", 100)
  /\ Probes[9] = search("a", "bravo", 100) /\ Probes[10] = [path |-> "auth"]
  /\ Probes[11] = as(add("a", "bad"), "malformed") /\ Probes[12] = as(add("a", "bad"), "string-timestamp")
  /\ Probes[13] = search("blank", "x", 1) /\ Probes[14] = as(search("a", "x", 1), "object-options")
  /\ Probes[15] = search("a", "x", Missing) /\ Probes[16] = search("a", "x", 0)
  /\ Probes[17] = search("a", "x", Over)
  /\ Probes[18] = as(add("a", "unknown"), "unknown-field")
  /\ Probes[19] = as(search("a", "alpha", 1), "unknown-field")
  /\ Probes[20] = as(search("a", "alpha", 1), "trailing-value")
BY DEF Probes

\* Good requests are answered unless the key is refused.
LEMMA GoodRequests ==
  ASSUME NEW user \in {"a", "b", "nobody"}, NEW marker
  PROVE  /\ Status(add(user, marker)) = IF Takes THEN 200 ELSE 401
         /\ \A topK \in 1 .. 100 : Status(search(user, marker, topK)) = IF Takes THEN 200 ELSE 401
<1>1. Status(add(user, marker)) = IF Takes THEN 200 ELSE 401
  BY DEF Status, add, Authorized, Bound, ValidRequest, Takes
<1>2. ASSUME NEW topK \in 1 .. 100
      PROVE  Status(search(user, marker, topK)) = IF Takes THEN 200 ELSE 401
  BY DEF Status, search, Authorized, Bound, ValidRequest, Takes
<1>3. QED
  BY <1>1, <1>2

\* What a request is judged by.
LEMMA Judged ==
  ASSUME NEW req, req.path \in {"/add", "/search"}
  PROVE  /\ Status(req) \in {200, 400, 401}
         /\ Status(req) = 401 <=> ~Authorized(req)
         /\ Status(req) = 200 <=> Authorized(req) /\ Bound(req) /\ ValidRequest(req)
BY DEF Status

\* A request that says what it is.
Asks(req, path, parse, user) ==
    req.path = path /\ req.key = setup.client /\ req.parse = parse /\ req.user = user

\* The probes that are no good requests.
LEMMA DoubtfulProbes ==
  /\ Asks(Probes[11], "/add", "malformed", "a") /\ Asks(Probes[12], "/add", "string-timestamp", "a")
  /\ Asks(Probes[13], "/search", "ok", "blank") /\ Probes[13].topK = 1
  /\ Asks(Probes[14], "/search", "object-options", "a") /\ Probes[14].topK = 1
  /\ Asks(Probes[15], "/search", "ok", "a") /\ Probes[15].topK = Missing
  /\ Asks(Probes[16], "/search", "ok", "a") /\ Probes[16].topK = 0
  /\ Asks(Probes[17], "/search", "ok", "a") /\ Probes[17].topK = Over
  /\ Asks(Probes[18], "/add", "unknown-field", "a")
  /\ Asks(Probes[19], "/search", "unknown-field", "a") /\ Probes[19].topK = 1
  /\ Asks(Probes[20], "/search", "trailing-value", "a") /\ Probes[20].topK = 1
<1>1. \A user, marker, topK : Asks(search(user, marker, topK), "/search", "ok", user)
                             /\ search(user, marker, topK).topK = topK
  BY DEF Asks, search
<1>2. /\ Asks(Probes[13], "/search", "ok", "blank") /\ Probes[13].topK = 1
      /\ Asks(Probes[15], "/search", "ok", "a") /\ Probes[15].topK = Missing
      /\ Asks(Probes[16], "/search", "ok", "a") /\ Probes[16].topK = 0
      /\ Asks(Probes[17], "/search", "ok", "a") /\ Probes[17].topK = Over
  BY <1>1, TheProbes
<1>3. Asks(Probes[11], "/add", "malformed", "a")
  BY TheProbes DEF Asks, as, add
<1>4. Asks(Probes[12], "/add", "string-timestamp", "a")
  BY TheProbes DEF Asks, as, add
<1>5. Asks(Probes[14], "/search", "object-options", "a") /\ Probes[14].topK = 1
  BY TheProbes DEF Asks, as, search
<1>6. Asks(Probes[18], "/add", "unknown-field", "a")
  BY TheProbes DEF Asks, as, add
<1>7. Asks(Probes[19], "/search", "unknown-field", "a") /\ Probes[19].topK = 1
  BY TheProbes DEF Asks, as, search
<1>8. Asks(Probes[20], "/search", "trailing-value", "a") /\ Probes[20].topK = 1
  BY TheProbes DEF Asks, as, search
<1>9. QED
  BY <1>2, <1>3, <1>4, <1>5, <1>6, <1>7, <1>8

\* With nothing to find the key is taken, and a client without one is alike.
LEMMA NothingIsWrong ==
  ASSUME NothingToFind
  PROVE  Takes /\ \A d : d # "any-key" => ~Has(d)
BY DEF NothingToFind, Takes, Has

\* A bad request is refused with 400, but by a service that has its defect.
LEMMA BadRequestsRefused ==
  ASSUME NEW p, NEW d, <<p, d>> \in BadRequests
  PROVE  /\ Has(d) => Status(Probes[p]) # 400
         /\ NothingToFind => Status(Probes[p]) = 400
<1> DEFINE req == Probes[p]
<1>1. \E path, parse, user : Asks(req, path, parse, user) /\ path \in {"/add", "/search"}
  BY DoubtfulProbes DEF BadRequests
<1>2. req.path \in {"/add", "/search"} /\ req.key = setup.client
  BY <1>1 DEF Asks
<1>3. (Has(d) => Bound(req) /\ ValidRequest(req)) /\ (NothingToFind => ~(Bound(req) /\ ValidRequest(req)))
  <2>1. CASE d \in {"malformed", "string-timestamp", "object-options"}
    <3>1. req.parse = d /\ req.user = "a" /\ (req.path = "/search" => req.topK = 1)
      BY <2>1, DoubtfulProbes DEF BadRequests, Asks
    <3>2. Has(d) => Bound(req) /\ ValidRequest(req)
      BY <3>1 DEF Bound, ValidRequest
    <3>3. NothingToFind => ~Bound(req)
      BY <2>1, <3>1, NothingIsWrong DEF Bound
    <3>4. QED
      BY <3>2, <3>3
  <2>2. CASE d = "empty-user"
    <3>1. p = 13
      BY <2>2 DEF BadRequests
    <3>2. req.parse = "ok" /\ req.user = "blank" /\ req.topK = 1
      BY <3>1, DoubtfulProbes DEF Asks
    <3>3. QED
      BY <2>2, <3>2, NothingIsWrong DEF Bound, ValidRequest
  <2>3. CASE d \in {"missing-top_k", "zero-top_k", "oversized-top_k"}
    <3>1. /\ req.parse = "ok" /\ req.user = "a" /\ req.path = "/search"
          /\ req.topK = CASE d = "missing-top_k" -> Missing [] d = "zero-top_k" -> 0 [] OTHER -> Over
      BY <2>3, DoubtfulProbes DEF BadRequests, Asks
    <3>2. Has(d) => Bound(req) /\ ValidRequest(req)
      BY <2>3, <3>1 DEF Bound, ValidRequest
    <3>3. NothingToFind => ~ValidRequest(req)
      BY <2>3, <3>1, NothingIsWrong DEF ValidRequest, Missing, Over
    <3>4. QED
      BY <3>2, <3>3
  <2>4. QED
    BY <2>1, <2>2, <2>3 DEF BadRequests
<1>4. NothingToFind => Authorized(req)
  BY <1>2, NothingIsWrong DEF Authorized, Takes
<1> HIDE DEF req
<1>5. Has(d) => Status(req) # 400
  BY <1>2, <1>3, Judged
<1>6. NothingToFind => Status(req) = 400
  BY <1>2, <1>3, <1>4, Judged
<1>7. QED
  BY <1>5, <1>6 DEF req

\* What the parser lets through is answered.
LEMMA LenientRequests ==
  ASSUME NothingToFind, NEW p \in 18 .. 20
  PROVE  Status(Probes[p]) = 200
<1> DEFINE req == Probes[p]
<1>1. p = 18 \/ p = 19 \/ p = 20
  OBVIOUS
<1>2. req.path \in {"/add", "/search"} /\ req.key = setup.client
  BY <1>1, DoubtfulProbes DEF Asks
<1>3. Bound(req) /\ ValidRequest(req)
  <2>1. req.parse \in {"unknown-field", "trailing-value"} /\ req.user = "a"
        /\ (req.path = "/search" => req.topK = 1)
    BY <1>1, DoubtfulProbes DEF Asks
  <2>2. QED
    BY <2>1 DEF Bound, ValidRequest
<1>4. Authorized(req)
  BY <1>2, NothingIsWrong DEF Authorized, Takes
<1> HIDE DEF req
<1>5. Status(req) = 200
  BY <1>2, <1>3, <1>4, Judged
<1>6. QED
  BY <1>5 DEF req

\* A foreign key is refused by a service that has one and looks at it.
LEMMA ForeignKeys ==
  ASSUME setup \in Setups, setup.client # "none", NEW key \in {"none", "wrong"}
  PROVE  Status(with(search("a", "x", 1), key)) = 401 <=> setup.server # "none" /\ ~Has("any-key")
<1> DEFINE req == with(search("a", "x", 1), key)
<1>1. req.path = "/search" /\ req.key = key
  BY DEF with, search
<1>2. setup.server \in {"none", "key"}
  BY KnownDefects DEF Keys
<1> HIDE DEF req
<1>3. ~Authorized(req) <=> setup.server # "none" /\ ~Has("any-key")
  BY <1>1, <1>2 DEF Authorized
<1>4. Status(req) = 401 <=> setup.server # "none" /\ ~Has("any-key")
  BY <1>1, <1>3, Judged
<1>5. QED
  BY <1>4 DEF req

\* A step of the loop over the memories.
See(out, m, user) == IF Sees(user, m) THEN Append(out, m) ELSE out

\* A search takes the memories one after another.
LEMMA MemoriesOfRuns ==
  ASSUME memories \in Seq(Memory), NEW user
  PROVE  \E h \in [0 .. Len(memories) -> Seq(Memory)] :
            /\ h[0] = << >>
            /\ \A n \in 1 .. Len(memories) : h[n] = See(h[n - 1], memories[n], user)
            /\ h[Len(memories)] = MemoriesOf(user)
<1> DEFINE A == Seq(Memory)
           step == [q \in A \X Memory |-> See(q[1], q[2], user)]
<1>1. \A a \in A, m \in Memory : step[<<a, m>>] = See(a, m, user)
  OBVIOUS
<1>2. Keeps(step, A, Memory)
  <2>1. ASSUME NEW a \in A, NEW m \in Memory PROVE See(a, m, user) \in A
    BY DEF See
  <2>2. QED
    BY <1>1, <2>1 DEF Keeps
<1>3. << >> \in A
  OBVIOUS
<1> HIDE DEF step
<1> DEFINE Eq(g) == g = [s \in SUBSET DOMAIN memories |->
                          IF s = {} THEN << >> ELSE See(g[s \ {Max(s)}], memories[Max(s)], user)]
           f == CHOOSE g : Eq(g)
<1>4. MemoriesOf(user) = f[DOMAIN memories]
  BY DEF MemoriesOf, FoldLeft, MapThenFoldSet, See
<1> HIDE DEF A
<1>5. \E g : Eq(g)
  <2>1. PICK g : g \in [SUBSET DOMAIN memories -> A] /\ Folds(g, memories, A, << >>, step)
    BY <1>2, <1>3, LeftFoldExists
  <2>2. ASSUME NEW s \in SUBSET DOMAIN memories, s # {}
        PROVE  g[s] = See(g[s \ {Max(s)}], memories[Max(s)], user)
    BY <1>1, <2>1, <2>2, MaxOfDomain DEF Folds
  <2>3. Eq(g)
    BY <2>1, <2>2 DEF Folds
  <2>4. QED
    BY <2>3
<1>6. Eq(f)
  BY <1>5
<1> HIDE DEF f
<1>7. Folds(f, memories, A, << >>, step)
  <2>1. ASSUME NEW s \in SUBSET DOMAIN memories, s # {}, f[s \ {Max(s)}] \in A
        PROVE  f[s] = step[<<f[s \ {Max(s)}], memories[Max(s)]>>]
    <3>1. memories[Max(s)] \in Memory
      BY <2>1, MaxOfDomain
    <3>2. f[s] = See(f[s \ {Max(s)}], memories[Max(s)], user)
      BY <1>6, <2>1
    <3>3. QED
      BY <1>1, <2>1, <3>1, <3>2
  <2>2. f[{}] = << >>
    BY <1>6
  <2>3. QED
    BY <2>1, <2>2 DEF Folds
<1>8. PICK h : Runs(h, memories, A, << >>, step) /\ h[Len(memories)] = f[DOMAIN memories]
  BY <1>2, <1>3, <1>7, LeftFoldRuns
<1>9. ASSUME NEW n \in 1 .. Len(memories)
      PROVE  h[n] = See(h[n - 1], memories[n], user)
  <2>1. memories[n] \in Memory /\ n - 1 \in 0 .. Len(memories)
    OBVIOUS
  <2>2. h[n - 1] \in A /\ h[n] = step[<<h[n - 1], memories[n]>>]
    BY <1>8, <2>1 DEF Runs
  <2>3. QED
    BY <1>1, <2>1, <2>2
<1>10. QED
  BY <1>4, <1>8, <1>9 DEF Runs, A

\* The three memories.
LEMMA ThreeMemories ==
  /\ Stored \in Seq(Memory) /\ Len(Stored) = 3
  /\ Stored[1] = MemoryOf("a", "alpha") /\ Stored[2] = MemoryOf("b", "bravo")
  /\ Stored[3] = MemoryOf("a", "alpha-too")
  /\ \A i \in 1 .. 3 : Stored[i] \in Memory
  /\ Alphas \in Seq(Memory) /\ Len(Alphas) = 2
  /\ Alphas[1] = MemoryOf("a", "alpha") /\ Alphas[2] = MemoryOf("a", "alpha-too")
  /\ \A user, marker : MemoryOf(user, marker).user = user /\ MemoryOf(user, marker).marker = marker
<1>1. \A user, marker : MemoryOf(user, marker).user = user /\ MemoryOf(user, marker).marker = marker
  BY DEF MemoryOf
<1>2. QED
  BY <1>1 DEF Stored, Alphas, Memory

\* A sequence of one element more is the one with that put on.
LEMMA OneMore ==
  ASSUME NEW S, NEW s \in Seq(S), NEW x \in S, NEW u \in Seq(S),
         Len(u) = Len(s) + 1, u[Len(s) + 1] = x, \A i \in 1 .. Len(s) : u[i] = s[i]
  PROVE  Append(s, x) = u
<1> DEFINE t == Append(s, x)
<1>1. t \in Seq(S) /\ Len(t) = Len(s) + 1 /\ Len(s) \in Nat /\ t[Len(s) + 1] = x
      /\ \A i \in 1 .. Len(s) : t[i] = s[i]
  OBVIOUS
<1> HIDE DEF t
<1>2. \A i \in 1 .. Len(s) + 1 : t[i] = u[i]
  BY <1>1
<1>3. t = u
  BY <1>1, <1>2
<1>4. QED
  BY <1>3 DEF t

\* An element behind one and behind two.
LEMMA ShortAppends ==
  ASSUME NEW x, NEW y, NEW z
  PROVE  /\ Append(<< >>, x) = <<x>> /\ Append(<<x>>, y) = <<x, y>>
         /\ Append(<<x, y>>, z) = <<x, y, z>>
<1> DEFINE S == {x, y, z}
           one == <<x>>
           two == <<x, y>>
           three == <<x, y, z>>
<1>1. /\ one \in Seq(S) /\ Len(one) = 1 /\ one[1] = x
      /\ two \in Seq(S) /\ Len(two) = 2 /\ two[1] = x /\ two[2] = y
      /\ three \in Seq(S) /\ Len(three) = 3 /\ three[1] = x /\ three[2] = y /\ three[3] = z
  OBVIOUS
<1>2. Append(<< >>, x) = one
  OBVIOUS
<1>0. x \in S /\ y \in S /\ z \in S
  OBVIOUS
<1> HIDE DEF S, one, two, three
<1>3. Append(one, y) = two
  <2>1. Len(two) = Len(one) + 1 /\ two[Len(one) + 1] = y
    BY <1>1
  <2>2. \A i \in 1 .. Len(one) : two[i] = one[i]
    BY <1>1
  <2>3. one \in Seq(S) /\ two \in Seq(S)
    BY <1>1
  <2>4. QED
    BY <1>0, <2>1, <2>2, <2>3, OneMore
<1>4. Append(two, z) = three
  <2>1. Len(three) = Len(two) + 1 /\ three[Len(two) + 1] = z
    BY <1>1
  <2>2. \A i \in 1 .. Len(two) : three[i] = two[i]
    BY <1>1
  <2>3. two \in Seq(S) /\ three \in Seq(S)
    BY <1>1
  <2>4. QED
    BY <1>0, <2>1, <2>2, <2>3, OneMore
<1>5. QED
  BY <1>2, <1>3, <1>4 DEF one, two, three

\* What the searches of the run see.
LEMMA SeenOfStored ==
  ASSUME memories = Stored
  PROVE  /\ MemoriesOf("a") = IF Has("leak") THEN Stored ELSE Alphas
         /\ MemoriesOf("nobody") = << >>
<1>1. ASSUME NEW user, NEW h, h[0] = << >>,
             \A n \in 1 .. Len(memories) : h[n] = See(h[n - 1], memories[n], user)
      PROVE  /\ h[1] = See(<< >>, Stored[1], user) /\ h[2] = See(h[1], Stored[2], user)
             /\ h[3] = See(h[2], Stored[3], user)
  <2>1. Len(memories) = 3
    BY ThreeMemories
  <2>2. h[1] = See(h[1 - 1], memories[1], user)
    BY <1>1, <2>1
  <2>3. h[2] = See(h[2 - 1], memories[2], user)
    BY <1>1, <2>1
  <2>4. h[3] = See(h[3 - 1], memories[3], user)
    BY <1>1, <2>1
  <2>5. QED
    BY <1>1, <2>2, <2>3, <2>4
<1>2. \A user : MemoriesOf(user) = See(See(See(<< >>, Stored[1], user), Stored[2], user), Stored[3], user)
  <2> SUFFICES ASSUME NEW user
               PROVE  MemoriesOf(user) = See(See(See(<< >>, Stored[1], user), Stored[2], user), Stored[3], user)
    OBVIOUS
  <2>1. PICK h \in [0 .. Len(memories) -> Seq(Memory)] :
            /\ h[0] = << >>
            /\ \A n \in 1 .. Len(memories) : h[n] = See(h[n - 1], memories[n], user)
            /\ h[Len(memories)] = MemoriesOf(user)
    BY ThreeMemories, MemoriesOfRuns
  <2>2. /\ h[1] = See(<< >>, Stored[1], user) /\ h[2] = See(h[1], Stored[2], user)
        /\ h[3] = See(h[2], Stored[3], user)
    BY <1>1, <2>1
  <2>3. h[3] = MemoriesOf(user)
    BY <2>1, ThreeMemories
  <2>4. QED
    BY <2>2, <2>3
<1>3. /\ \A i \in 1 .. 3 : Sees("nobody", Stored[i]) = FALSE
      /\ Sees("a", Stored[1]) /\ Sees("a", Stored[3]) /\ (Sees("a", Stored[2]) <=> Has("leak"))
  <2>1. Stored[1].user = "a" /\ Stored[2].user = "b" /\ Stored[3].user = "a"
    BY ThreeMemories
  <2>2. QED
    BY <2>1 DEF Sees
<1>4. MemoriesOf("nobody") = << >>
  BY <1>2, <1>3 DEF See
<1>5. MemoriesOf("a") = Append(IF Has("leak") THEN Append(Append(<< >>, Stored[1]), Stored[2])
                               ELSE Append(<< >>, Stored[1]), Stored[3])
  BY <1>2, <1>3 DEF See
<1>6. /\ Append(Append(Append(<< >>, Stored[1]), Stored[2]), Stored[3]) = Stored
      /\ Append(Append(<< >>, Stored[1]), Stored[3]) = Alphas
  <2> DEFINE x == MemoryOf("a", "alpha")
             y == MemoryOf("b", "bravo")
             z == MemoryOf("a", "alpha-too")
  <2>1. Stored = <<x, y, z>> /\ Alphas = <<x, z>> /\ Stored[1] = x /\ Stored[2] = y /\ Stored[3] = z
    BY ThreeMemories DEF Stored, Alphas
  <2> HIDE DEF x, y, z
  <2>2. Append(<< >>, x) = <<x>> /\ Append(<<x>>, y) = <<x, y>> /\ Append(<<x, y>>, z) = <<x, y, z>>
    BY ShortAppends
  <2>3. Append(<<x>>, z) = <<x, z>>
    BY ShortAppends
  <2>4. QED
    BY <2>1, <2>2, <2>3
<1>7. QED
  BY <1>4, <1>5, <1>6

\* Nothing is seen where nothing is.
LEMMA SeenOfNothing ==
  ASSUME memories = << >>, NEW user
  PROVE  MemoriesOf(user) = << >>
<1>1. memories \in Seq(Memory) /\ Len(memories) = 0
  OBVIOUS
<1>2. PICK h : h[0] = << >> /\ h[Len(memories)] = MemoriesOf(user)
  BY <1>1, MemoriesOfRuns
<1>3. QED
  BY <1>1, <1>2

\* A search's list.
LEMMA Lists ==
  ASSUME NEW user, NEW marker, NEW topK \in 1 .. 100,
         MemoriesOf(user) \in Seq(Memory), Len(MemoriesOf(user)) <= 3
  PROVE  LET own == MemoriesOf(user)
             data == Data(search(user, marker, topK))
             ranked == IF Has("shuffle") /\ probe > 5 THEN Reverse(own) ELSE own
         IN  data = IF Has("overrun") \/ Len(own) <= topK THEN ranked ELSE SubSeq(ranked, 1, topK)
<1> DEFINE own == MemoriesOf(user)
           req == search(user, marker, topK)
<1>1. req.user = user /\ req.topK = topK
  BY DEF search
<1>2. Len(own) \in Nat /\ Len(Reverse(own)) = Len(own)
  BY DEF Reverse
<1> HIDE DEF req
<1> DEFINE ranked == IF Has("shuffle") /\ probe > 5 THEN Reverse(own) ELSE own
<1>3. Data(req) = IF Has("overrun") \/ Len(ranked) <= topK THEN ranked ELSE SubSeq(ranked, 1, topK)
  BY <1>1 DEF Data
<1> HIDE DEF own
<1>4. Len(ranked) = Len(own)
  BY <1>2
<1>5. QED
  BY <1>3, <1>4 DEF own, req

\* The paths of the probes.
LEMMA Paths ==
  /\ Probes[1].path = "/health" /\ Probes[10].path = "auth"
  /\ \A p \in 2 .. 4 : Probes[p].path = "/add"
  /\ \A p \in 5 .. 9 : Probes[p].path = "/search"
  /\ \A p \in 11 .. 20 : Probes[p].path \in {"/add", "/search"}
<1>1. \A user, marker, topK : add(user, marker).path = "/add" /\ search(user, marker, topK).path = "/search"
  BY DEF add, search
<1>2. \A p \in 2 .. 4 : Probes[p].path = "/add"
  <2>1. \A p \in 2 .. 4 : p = 2 \/ p = 3 \/ p = 4
    OBVIOUS
  <2>2. QED
    BY <1>1, <2>1, TheProbes
<1>3. \A p \in 5 .. 9 : Probes[p].path = "/search"
  <2>1. \A p \in 5 .. 9 : p = 5 \/ p = 6 \/ p = 7 \/ p = 8 \/ p = 9
    OBVIOUS
  <2>2. QED
    BY <1>1, <2>1, TheProbes
<1>4. \A p \in 11 .. 20 : Probes[p].path \in {"/add", "/search"}
  <2>1. \A p \in 11 .. 20 : \/ p = 11 \/ p = 12 \/ p = 13 \/ p = 14 \/ p = 15
                            \/ p = 16 \/ p = 17 \/ p = 18 \/ p = 19 \/ p = 20
    OBVIOUS
  <2>2. QED
    BY <2>1, DoubtfulProbes DEF Asks
<1>5. QED
  BY <1>2, <1>3, <1>4, TheProbes

\* The check after a probe, for each kind of probe.
LEMMA Checks ==
  ASSUME probe \in 1 .. 20
  PROVE  LET req == Probes[probe] IN
         /\ probe \in 1 .. 4 => (Passes(req) <=> Status(req) = 200 /\ (probe = 2 => ~Has("echo")))
         /\ probe \in 5 .. 9 =>
              (Passes(req) <=>
                 /\ Status(req) = 200
                 /\ probe = 5 => Holds(Data(req), Alpha) /\ Shape(Data(req), 100)
                 /\ probe = 6 => Shape(Data(req), 1)
                 /\ probe = 7 => Data(req) = first
                 /\ probe = 8 => Data(req) = << >> /\ ~Has("null-data")
                 /\ probe = 9 => Shape(Data(req), 100) /\ ~Leaks(Data(req)))
         /\ probe = 10 =>
              (Passes(req) <=>
                 setup.client # "none" /\ \A key \in {"none", "wrong"} :
                    Status(with(search("a", "x", 1), key)) = 401)
         /\ probe \in 11 .. 20 => (Passes(req) <=> Status(req) = 400)
<1> DEFINE req == Probes[probe]
<1>1. /\ probe \in 1 .. 4 => req.path # "auth" /\ probe \notin 5 .. 20
      /\ probe \in 5 .. 9 => req.path = "/search" /\ req.path # "auth" /\ probe \notin 10 .. 20
      /\ probe \in 11 .. 20 => req.path # "auth" /\ probe \notin 1 .. 10
  BY Paths
<1> HIDE DEF req
<1>2. probe \in 1 .. 4 => (Passes(req) <=> Status(req) = 200 /\ (probe = 2 => ~Has("echo")))
  BY <1>1 DEF Passes
<1>3. probe \in 5 .. 9 =>
              (Passes(req) <=>
                 /\ Status(req) = 200
                 /\ probe = 5 => Holds(Data(req), Alpha) /\ Shape(Data(req), 100)
                 /\ probe = 6 => Shape(Data(req), 1)
                 /\ probe = 7 => Data(req) = first
                 /\ probe = 8 => Data(req) = << >> /\ ~Has("null-data")
                 /\ probe = 9 => Shape(Data(req), 100) /\ ~Leaks(Data(req)))
  BY <1>1 DEF Passes
<1>4. probe = 10 =>
              (Passes(req) <=>
                 setup.client # "none" /\ \A key \in {"none", "wrong"} :
                    Status(with(search("a", "x", 1), key)) = 401)
  BY DEF Passes
<1>5. probe \in 11 .. 20 => (Passes(req) <=> Status(req) = 400)
  BY <1>1 DEF Passes
<1>6. QED
  BY <1>2, <1>3, <1>4, <1>5 DEF req

\* What the answers show, if the service takes the key and stores at once.
LEMMA AnswersOfStored ==
  ASSUME ConformanceInv, Takes, ~Has("lag"), probe \in 5 .. 9
  PROVE  LET data == Data(Probes[probe])
             own == IF Has("leak") THEN Stored ELSE Alphas
             other == IF Has("shuffle") THEN Reverse(own) ELSE own
         IN  /\ probe = 5 => data = own
             /\ probe = 6 => data = IF Has("overrun") THEN other ELSE SubSeq(other, 1, 1)
             /\ probe = 7 => data = other /\ first = own
             /\ probe = 8 => data = << >>
             /\ probe = 9 => data = other
<1> DEFINE own == IF Has("leak") THEN Stored ELSE Alphas
           other == IF Has("shuffle") THEN Reverse(own) ELSE own
           ranked == IF Has("shuffle") /\ probe > 5 THEN Reverse(own) ELSE own
<1>1. memories = Stored /\ (probe = 7 => first = own)
  BY DEF ConformanceInv, Left
<1>2. MemoriesOf("a") = own /\ MemoriesOf("nobody") = << >>
  BY <1>1, SeenOfStored
<1>3. own \in Seq(Memory) /\ Len(own) \in 2 .. 3 /\ << >> \in Seq(Memory) /\ Len(<< >>) = 0
  BY ThreeMemories
<1> HIDE DEF own
<1>4. /\ 1 \in 1 .. 100 /\ 100 \in 1 .. 100 /\ 0 <= 3 /\ 0 <= 100
      /\ Len(own) <= 3 /\ Len(own) <= 100 /\ ~(Len(own) <= 1)
  <2> DEFINE n == Len(own)
  <2>1. n \in 2 .. 3
    BY <1>3
  <2> HIDE DEF n
  <2>2. n <= 3 /\ n <= 100 /\ ~(n <= 1)
    BY <2>1
  <2>3. 1 \in 1 .. 100 /\ 100 \in 1 .. 100 /\ 0 <= 3 /\ 0 <= 100
    OBVIOUS
  <2>4. QED
    BY <2>2, <2>3 DEF n
<1>5. MemoriesOf("a") \in Seq(Memory) /\ Len(MemoriesOf("a")) <= 3
  BY <1>2, <1>3, <1>4
<1>6. MemoriesOf("nobody") \in Seq(Memory) /\ Len(MemoriesOf("nobody")) <= 3
  BY <1>2, <1>3, <1>4
<1>7. (probe = 5 => ranked = own) /\ (probe # 5 => ranked = other)
  OBVIOUS
<1>8. \A marker : Data(search("a", marker, 100)) = ranked
  <2> SUFFICES ASSUME NEW marker PROVE Data(search("a", marker, 100)) = ranked
    OBVIOUS
  <2> DEFINE data == Data(search("a", marker, 100))
  <2>1. data = IF Has("overrun") \/ Len(own) <= 100 THEN ranked ELSE SubSeq(ranked, 1, 100)
    BY <1>2, <1>4, <1>5, Lists
  <2> HIDE DEF data, ranked
  <2>2. QED
    BY <1>4, <2>1 DEF data
<1>9. Data(search("a", "alpha", 1)) = IF Has("overrun") THEN ranked ELSE SubSeq(ranked, 1, 1)
  <2> DEFINE data == Data(search("a", "alpha", 1))
  <2>1. data = IF Has("overrun") \/ Len(own) <= 1 THEN ranked ELSE SubSeq(ranked, 1, 1)
    BY <1>2, <1>4, <1>5, Lists
  <2> HIDE DEF data, ranked
  <2>2. QED
    BY <1>4, <2>1 DEF data
<1>10. Data(search("nobody", "nothing", 100)) = << >>
  <2> DEFINE data == Data(search("nobody", "nothing", 100))
             none == IF Has("shuffle") /\ probe > 5 THEN Reverse(<< >>) ELSE << >>
  <2>1. data = IF Has("overrun") \/ Len(<< >>) <= 100 THEN none ELSE SubSeq(none, 1, 100)
    BY <1>2, <1>4, <1>6, Lists
  <2>2. none = << >>
    BY DEF Reverse
  <2> HIDE DEF data, none
  <2>3. QED
    BY <1>3, <1>4, <2>1, <2>2 DEF data
<1> HIDE DEF ranked, other
<1>11. /\ probe = 5 => Data(Probes[probe]) = ranked
       /\ probe = 7 => Data(Probes[probe]) = ranked
       /\ probe = 9 => Data(Probes[probe]) = ranked
  BY <1>8, TheProbes
<1>12. /\ probe = 6 => Data(Probes[probe]) = IF Has("overrun") THEN ranked ELSE SubSeq(ranked, 1, 1)
       /\ probe = 8 => Data(Probes[probe]) = << >>
  BY <1>9, <1>10, TheProbes
<1>13. QED
  BY <1>1, <1>7, <1>11, <1>12 DEF own, other

\* The lists the checks look at.
LEMMA ListsLookedAt ==
  /\ Holds(Stored, Alpha) /\ Holds(Alphas, Alpha) /\ ~Holds(<< >>, Alpha)
  /\ Leaks(Stored) /\ Leaks(Reverse(Stored)) /\ ~Leaks(Alphas)
  /\ Reverse(Stored) # Stored /\ Reverse(Alphas) # Alphas
  /\ Len(Reverse(Stored)) = 3 /\ Len(Reverse(Alphas)) = 2
  /\ Len(SubSeq(Alphas, 1, 1)) = 1
<1>1. DOMAIN Stored = 1 .. 3 /\ DOMAIN Alphas = 1 .. 2
  BY ThreeMemories
<1>2. /\ Stored[1].marker = "alpha" /\ Stored[2].marker = "bravo" /\ Alphas[1].marker = "alpha"
      /\ Alphas[2].marker = "alpha-too" /\ Stored[3].marker = "alpha-too"
  BY ThreeMemories
<1>3. Holds(Stored, Alpha) /\ Holds(Alphas, Alpha) /\ Leaks(Stored)
  BY <1>1, <1>2 DEF Holds, Alpha, Leaks
<1>4. ~Leaks(Alphas)
  <2>1. \A i \in 1 .. 2 : i = 1 \/ i = 2
    OBVIOUS
  <2>2. QED
    BY <1>1, <1>2, <2>1 DEF Holds, Leaks
<1>5. ~Holds(<< >>, Alpha)
  BY DEF Holds
<1>6. /\ Reverse(Stored)[1] = Stored[3] /\ Reverse(Stored)[2] = Stored[2]
      /\ Reverse(Alphas)[1] = Alphas[2]
      /\ DOMAIN Reverse(Stored) = 1 .. 3 /\ Len(Reverse(Stored)) = 3 /\ Len(Reverse(Alphas)) = 2
  BY ThreeMemories DEF Reverse
<1>7. Reverse(Stored) # Stored /\ Reverse(Alphas) # Alphas
  BY <1>2, <1>6
<1>8. Len(SubSeq(Alphas, 1, 1)) = 1
  BY ThreeMemories
<1>9. Leaks(Reverse(Stored))
  BY <1>2, <1>6 DEF Holds, Leaks
<1>10. QED
  BY <1>3, <1>4, <1>5, <1>6, <1>7, <1>8, <1>9

\* Probes 1 to 4 and 10 and the bad requests, by what their service is like.
LEMMA SimpleProbes ==
  ASSUME ConformanceInv
  PROVE  /\ Status(Probes[1]) = IF Has("unhealthy") THEN 503 ELSE 200
         /\ \A p \in 2 .. 9 : Status(Probes[p]) = IF Takes THEN 200 ELSE 401
<1>1. Status(Probes[1]) = IF Has("unhealthy") THEN 503 ELSE 200
  BY Paths DEF Status
<1>2. \A p \in 2 .. 9 : p = 2 \/ p = 3 \/ p = 4 \/ p = 5 \/ p = 6 \/ p = 7 \/ p = 8 \/ p = 9
  OBVIOUS
<1>3. 100 \in 1 .. 100 /\ 1 \in 1 .. 100
  OBVIOUS
<1>4. \A user \in {"a", "b"} : \A marker : Status(add(user, marker)) = IF Takes THEN 200 ELSE 401
  BY GoodRequests
<1>5. \A user \in {"a", "nobody"}, topK \in {1, 100} : \A marker :
         Status(search(user, marker, topK)) = IF Takes THEN 200 ELSE 401
  BY <1>3, GoodRequests
<1>6. /\ Status(Probes[2]) = (IF Takes THEN 200 ELSE 401) /\ Status(Probes[3]) = (IF Takes THEN 200 ELSE 401)
      /\ Status(Probes[4]) = IF Takes THEN 200 ELSE 401
  BY <1>4, TheProbes
<1>7. /\ Status(Probes[5]) = (IF Takes THEN 200 ELSE 401) /\ Status(Probes[7]) = (IF Takes THEN 200 ELSE 401)
      /\ Status(Probes[9]) = IF Takes THEN 200 ELSE 401
  <2>1. \A marker : Status(search("a", marker, 100)) = IF Takes THEN 200 ELSE 401
    BY <1>5
  <2>2. QED
    BY <2>1, TheProbes
<1>8. Status(Probes[6]) = IF Takes THEN 200 ELSE 401
  <2>1. Status(search("a", "alpha", 1)) = IF Takes THEN 200 ELSE 401
    BY <1>5
  <2>2. QED
    BY <2>1, TheProbes
<1>9. Status(Probes[8]) = IF Takes THEN 200 ELSE 401
  <2>1. Status(search("nobody", "nothing", 100)) = IF Takes THEN 200 ELSE 401
    BY <1>5
  <2>2. QED
    BY <2>1, TheProbes
<1>10. QED
  BY <1>1, <1>2, <1>6, <1>7, <1>8, <1>9

\* A probe that finds something fails the run, whatever else is wrong.
LEMMA FaultIsSeen ==
  ASSUME ConformanceInv, probe \in 1 .. 20, Tells(probe)
  PROVE  ~Passes(Probes[probe]) /\ ~Lenient
<1> DEFINE req == Probes[probe]
           data == Data(Probes[probe])
           own == IF Has("leak") THEN Stored ELSE Alphas
           other == IF Has("shuffle") THEN Reverse(own) ELSE own
<1>0. setup \in Setups
  BY DEF ConformanceInv, ConformanceTypes
<1>1. CASE probe = 1
  <2>1. Has("unhealthy")
    BY <1>1 DEF Tells, BadRequests
  <2>2. QED
    BY <1>1, <2>1, SimpleProbes, Checks DEF Lenient
<1>2. CASE probe = 2
  <2>1. ~Takes \/ Has("echo")
    BY <1>2 DEF Tells, BadRequests
  <2>2. QED
    BY <1>2, <2>1, SimpleProbes, Checks DEF Lenient
<1>3. ASSUME probe \in 5 .. 9, ~Takes PROVE ~Passes(req) /\ ~Lenient
  BY <1>3, SimpleProbes, Checks DEF Lenient
<1>4. CASE probe = 5
  <2>1. Has("lag") \/ Has("scores")
    BY <1>4 DEF Tells, BadRequests
  <2>2. CASE Has("lag")
    <3>1. memories = << >>
      BY <2>2 DEF ConformanceInv, Left
    <3>2. MemoriesOf("a") = << >>
      BY <3>1, SeenOfNothing
    <3>3. data = << >>
      <4>1. << >> \in Seq(Memory) /\ Len(<< >>) = 0 /\ 100 \in 1 .. 100 /\ 0 <= 3 /\ 0 <= 100
        OBVIOUS
      <4>2. MemoriesOf("a") \in Seq(Memory) /\ Len(MemoriesOf("a")) <= 3 /\ Len(MemoriesOf("a")) <= 100
        BY <3>2, <4>1
      <4> DEFINE answer == Data(search("a", "alpha", 100))
      <4>3. ~(probe > 5) =>
               answer = IF Has("overrun") \/ Len(MemoriesOf("a")) <= 100 THEN MemoriesOf("a")
                         ELSE SubSeq(MemoriesOf("a"), 1, 100)
        BY <4>1, <4>2, Lists
      <4> HIDE DEF answer
      <4>4. answer = << >>
        BY <1>4, <3>2, <4>2, <4>3
      <4>5. QED
        BY <1>4, <4>4, TheProbes DEF answer
    <3>4. QED
      BY <1>4, <3>3, Checks, ListsLookedAt DEF Lenient
  <2>3. CASE Has("scores")
    <3>1. ~Shape(data, 100)
      BY <2>3 DEF Shape, NoResultErrors
    <3>2. QED
      BY <1>4, <3>1, Checks DEF Lenient
  <2>4. QED
    BY <2>1, <2>2, <2>3
<1>5. CASE probe = 6 /\ Takes
  <2>1. Has("overrun") /\ ~Has("lag")
    BY <1>5 DEF Tells, BadRequests
  <2>2. data = other
    BY <1>5, <2>1, AnswersOfStored
  <2>3. ~(Len(other) <= 1)
    <3>1. ~(Len(Stored) <= 1) /\ ~(Len(Alphas) <= 1)
      BY ThreeMemories
    <3>2. ~(Len(Reverse(Stored)) <= 1) /\ ~(Len(Reverse(Alphas)) <= 1)
      BY ListsLookedAt
    <3>3. QED
      BY <3>1, <3>2
  <2>4. ~Shape(data, 1)
    BY <2>2, <2>3 DEF Shape, NoResultErrors
  <2>5. QED
    BY <1>5, <2>4, Checks DEF Lenient
<1>6. CASE probe = 7 /\ Takes
  <2>1. Has("shuffle") /\ ~Has("lag")
    BY <1>6 DEF Tells, BadRequests
  <2>2. data = Reverse(own) /\ first = own
    BY <1>6, <2>1, AnswersOfStored
  <2>3. data # first
    BY <2>2, ListsLookedAt
  <2>4. QED
    BY <1>6, <2>3, Checks DEF Lenient
<1>7. CASE probe = 8
  <2>1. Has("null-data")
    BY <1>7 DEF Tells, BadRequests
  <2>2. QED
    BY <1>7, <2>1, Checks DEF Lenient
<1>8. CASE probe = 9 /\ Takes
  <2>1. Has("leak") /\ ~Has("lag")
    BY <1>8 DEF Tells, BadRequests
  <2>2. data = Stored \/ data = Reverse(Stored)
    BY <1>8, <2>1, AnswersOfStored
  <2>3. Leaks(data)
    BY <2>2, ListsLookedAt
  <2>4. QED
    BY <1>8, <2>3, Checks DEF Lenient
<1>9. CASE probe = 10
  <2>1. setup.client # "none" /\ (setup.server = "none" \/ Has("any-key"))
    BY <1>9 DEF Tells, BadRequests
  <2>2. Status(with(search("a", "x", 1), "wrong")) # 401
    BY <1>0, <2>1, ForeignKeys
  <2>3. QED
    BY <1>9, <2>1, <2>2, Checks DEF Lenient
<1>10. CASE probe \in 11 .. 20
  <2>1. PICK d : <<probe, d>> \in BadRequests /\ Has(d)
    BY <1>10 DEF Tells
  <2>2. probe \in 11 .. 17
    BY <2>1 DEF BadRequests
  <2>3. Status(req) # 400
    BY <2>1, BadRequestsRefused
  <2>4. QED
    BY <2>2, <2>3, Checks DEF Lenient
<1>11. CASE probe \in {3, 4}
  BY <1>11 DEF Tells, BadRequests
<1>12. \/ probe = 1 \/ probe = 2 \/ probe \in {3, 4} \/ probe = 5 \/ probe = 6
       \/ probe = 7 \/ probe = 8 \/ probe = 9 \/ probe = 10 \/ probe \in 11 .. 20
  OBVIOUS
<1>13. QED
  BY <1>1, <1>2, <1>3, <1>4, <1>5, <1>6, <1>7, <1>8, <1>9, <1>10, <1>11, <1>12

\* With nothing to find every check passes but those of what the parser lets
\* through, and of the key that a client does not have.
LEMMA NothingIsFound ==
  ASSUME ConformanceInv, probe \in 1 .. 20, NothingToFind
  PROVE  Passes(Probes[probe]) <=> ~(probe \in 18 .. 20 \/ (probe = 10 /\ setup.client = "none"))
<1> DEFINE req == Probes[probe]
           data == Data(Probes[probe])
<1>0. setup \in Setups /\ Takes /\ \A d : d # "any-key" => ~Has(d)
  BY NothingIsWrong DEF ConformanceInv, ConformanceTypes
<1>1. /\ ~Has("unhealthy") /\ ~Has("echo") /\ ~Has("lag") /\ ~Has("scores") /\ ~Has("overrun")
      /\ ~Has("shuffle") /\ ~Has("null-data") /\ ~Has("leak")
  BY <1>0
<1>2. CASE probe \in 1 .. 4
  BY <1>0, <1>1, <1>2, SimpleProbes, Checks
<1>3. CASE probe \in 5 .. 9
  <2>1. Status(req) = 200
    BY <1>0, <1>3, SimpleProbes
  <2>2. /\ probe = 5 => data = Alphas
        /\ probe = 6 => data = SubSeq(Alphas, 1, 1)
        /\ probe = 7 => data = Alphas /\ first = Alphas
        /\ probe = 8 => data = << >>
        /\ probe = 9 => data = Alphas
    BY <1>0, <1>1, <1>3, AnswersOfStored
  <2>3. /\ Shape(Alphas, 100) /\ Shape(SubSeq(Alphas, 1, 1), 1)
    BY <1>1, ListsLookedAt, ThreeMemories DEF Shape, NoResultErrors
  <2>4. ~(probe \in 18 .. 20) /\ probe # 10
    BY <1>3
  <2>5. probe = 5 \/ probe = 6 \/ probe = 7 \/ probe = 8 \/ probe = 9
    BY <1>3
  <2>6. Passes(req)
    <3>1. probe = 5 => Holds(data, Alpha) /\ Shape(data, 100)
      BY <2>2, <2>3, ListsLookedAt
    <3>2. probe = 6 => Shape(data, 1)
      BY <2>2, <2>3
    <3>3. probe = 7 => data = first
      BY <2>2
    <3>4. probe = 8 => data = << >> /\ ~Has("null-data")
      BY <1>1, <2>2
    <3>5. probe = 9 => Shape(data, 100) /\ ~Leaks(data)
      BY <2>2, <2>3, ListsLookedAt
    <3> HIDE DEF data
    <3>6. QED
      BY <1>3, <2>1, <3>1, <3>2, <3>3, <3>4, <3>5, Checks DEF data
  <2>7. QED
    BY <2>4, <2>6
<1>4. CASE probe = 10
  <2>1. setup.client # "none" => setup.server # "none" /\ ~Has("any-key")
    BY DEF NothingToFind, Has
  <2>2. setup.client # "none" =>
          \A key \in {"none", "wrong"} : Status(with(search("a", "x", 1), key)) = 401
    BY <1>0, <2>1, ForeignKeys
  <2>3. QED
    BY <1>4, <2>2, Checks
<1>5. CASE probe \in 11 .. 17
  <2>1. \E d : <<probe, d>> \in BadRequests
    <3>1. \/ probe = 11 \/ probe = 12 \/ probe = 13 \/ probe = 14 \/ probe = 15 \/ probe = 16 \/ probe = 17
      BY <1>5
    <3>2. QED
      BY <3>1 DEF BadRequests
  <2>2. Status(req) = 400
    BY <2>1, BadRequestsRefused
  <2>3. QED
    BY <1>5, <2>2, Checks
<1>6. CASE probe \in 18 .. 20
  <2>1. Status(req) = 200
    BY <1>6, LenientRequests
  <2>2. QED
    BY <1>6, <2>1, Checks
<1>7. probe \in 1 .. 4 \/ probe \in 5 .. 9 \/ probe = 10 \/ probe \in 11 .. 17 \/ probe \in 18 .. 20
  OBVIOUS
<1>8. QED
  BY <1>2, <1>3, <1>4, <1>5, <1>6, <1>7

\* Whatever is wrong, a probe finds it.
LEMMA SomeProbeTells ==
  ASSUME setup \in Setups, ~NothingToFind
  PROVE  \E p \in 1 .. 20 : Tells(p)
<1>1. CASE \E d \in setup.defects : d # "any-key"
  <2>1. PICK d \in setup.defects : d # "any-key"
    BY <1>1
  <2>2. d \in Defects /\ Has(d)
    BY <2>1, KnownDefects DEF Has
  <2>3. CASE \E p : <<p, d>> \in BadRequests
    <3>1. PICK p : <<p, d>> \in BadRequests
      BY <2>3
    <3>2. p \in 1 .. 20 /\ Tells(p)
      BY <2>2, <3>1 DEF BadRequests, Tells
    <3>3. QED
      BY <3>2
  <2>4. CASE ~\E p : <<p, d>> \in BadRequests
    <3>1. d \in {"unhealthy", "echo", "lag", "scores", "overrun", "shuffle", "null-data", "leak"}
      BY <2>1, <2>2, <2>4 DEF Defects, BadRequests
    <3>2. 1 \in 1 .. 20 /\ 2 \in 1 .. 20 /\ 5 \in 1 .. 20 /\ 6 \in 1 .. 20 /\ 7 \in 1 .. 20
          /\ 8 \in 1 .. 20 /\ 9 \in 1 .. 20
      OBVIOUS
    <3>3. Tells(1) \/ Tells(2) \/ Tells(5) \/ Tells(6) \/ Tells(7) \/ Tells(8) \/ Tells(9)
      BY <2>2, <3>1 DEF Tells
    <3>4. QED
      BY <3>2, <3>3
  <2>5. QED
    BY <2>3, <2>4
<1>2. CASE setup.defects \subseteq {"any-key"}
  <2>1. setup.server \in {"none", "key"} /\ setup.client \in {"none", "key"}
    BY KnownDefects DEF Keys
  <2>2. setup.defects = {} \/ setup.defects = {"any-key"}
    BY <1>2
  <2>3. Tells(2) \/ Tells(10)
    <3>1. CASE setup.defects = {}
      BY <2>1, <3>1 DEF NothingToFind, Tells, Takes, Has
    <3>2. CASE setup.defects = {"any-key"}
      BY <2>1, <3>2 DEF NothingToFind, Tells, Takes, Has
    <3>3. QED
      BY <2>2, <3>1, <3>2
  <2>4. 2 \in 1 .. 20 /\ 10 \in 1 .. 20
    OBVIOUS
  <2>5. QED
    BY <2>3, <2>4
<1>3. QED
  BY <1>1, <1>2

\* The run begins with nothing counted.
LEMMA ConformanceInitInv == ConformanceInit /\ exit = "none" => ConformanceInv
<1> SUFFICES ASSUME ConformanceInit, exit = "none" PROVE ConformanceInv
  OBVIOUS
<1>1. setup \in Setups /\ probe = 1 /\ memories = << >> /\ failed = 0 /\ warned = 0
  BY DEF ConformanceInit
<1>2. ConformanceTypes
  BY <1>1 DEF ConformanceTypes
<1>3. Left
  BY <1>1 DEF Left
<1>4. Counted
  BY <1>1 DEF Counted
<1>5. QED
  BY <1>2, <1>3, <1>4 DEF ConformanceInv

\* What is fixed with the service and the client.
LEMMA FixedBySetup ==
  ASSUME setup' = setup
  PROVE  /\ Takes' = Takes /\ NothingToFind' = NothingToFind
         /\ \A d : Has(d)' = Has(d)
         /\ \A p : Tells(p)' = Tells(p)
BY DEF Takes, NothingToFind, Has, Tells

\* A probe that adds stores its memory, and no other stores any.
LEMMA ProbesStore ==
  ASSUME ConformanceInv
  PROVE  /\ Takes /\ ~Has("lag") => \A p \in 2 .. 4 : Stores(Probes[p])
         /\ Has("lag") => \A p : ~Stores(Probes[p])
         /\ \A p \in {1, 5, 6, 7, 8, 9} : ~Stores(Probes[p])
         /\ Probes[2].user = "a" /\ Probes[2].marker = "alpha"
         /\ Probes[3].user = "b" /\ Probes[3].marker = "bravo"
         /\ Probes[4].user = "a" /\ Probes[4].marker = "alpha-too"
<1>1. Takes /\ ~Has("lag") => \A p \in 2 .. 4 : Stores(Probes[p])
  BY Paths, SimpleProbes DEF Stores
<1>2. Has("lag") => \A p : ~Stores(Probes[p])
  BY DEF Stores
<1>3. \A p \in {1, 5, 6, 7, 8, 9} : ~Stores(Probes[p])
  <2>1. Probes[1].path = "/health" /\ \A p \in 5 .. 9 : Probes[p].path = "/search"
    BY Paths
  <2>2. QED
    BY <2>1 DEF Stores
<1>4. \A user, marker : add(user, marker).user = user /\ add(user, marker).marker = marker
  BY DEF add
<1>5. QED
  BY <1>1, <1>2, <1>3, <1>4, TheProbes

\* A probe keeps the invariant.
LEMMA SendKeeps == ConformanceInv /\ Send => ConformanceInv'
<1> SUFFICES ASSUME ConformanceInv, Send PROVE ConformanceInv'
  OBVIOUS
<1> DEFINE req == Probes[probe]
<1>1. /\ probe \in 1 .. 20 /\ probe' = probe + 1 /\ setup' = setup /\ exit' = exit
      /\ memories' = IF Stores(req) THEN Append(memories, [user |-> req.user, marker |-> req.marker])
                     ELSE memories
      /\ first' = IF probe = 5 /\ Status(req) = 200 THEN Data(req) ELSE first
      /\ failed' = IF ~Passes(req) /\ ~Lenient THEN failed + 1 ELSE failed
      /\ warned' = IF ~Passes(req) /\ Lenient THEN warned + 1 ELSE warned
  BY TheProbes DEF Send, ConformanceInv, ConformanceTypes
<1>2. /\ setup \in Setups /\ failed \in Nat /\ warned \in Nat /\ exit = "none"
  BY <1>1 DEF ConformanceInv, ConformanceTypes
<1>f. /\ Takes' = Takes /\ NothingToFind' = NothingToFind
      /\ \A d : Has(d)' = Has(d)
      /\ \A p : Tells(p)' = Tells(p)
  BY <1>1, FixedBySetup
<1> HIDE DEF req
<1>3. ConformanceTypes'
  BY <1>1, <1>2 DEF ConformanceTypes
<1>4. Left'
  <2>1. Has("lag")' => memories' = << >>
    BY <1>1, <1>f, ProbesStore DEF ConformanceInv, Left, req
  <2>2. ASSUME Takes, ~Has("lag")
        PROVE  /\ probe' \in {1, 2} => memories' = << >>
               /\ probe' = 3 => memories' = <<MemoryOf("a", "alpha")>>
               /\ probe' = 4 => memories' = <<MemoryOf("a", "alpha"), MemoryOf("b", "bravo")>>
               /\ probe' \in 5 .. 10 => memories' = Stored
    <3>1. CASE probe = 1
      <4>1. memories = << >> /\ ~Stores(req)
        BY <2>2, <3>1, ProbesStore DEF ConformanceInv, Left, req
      <4>2. QED
        BY <1>1, <3>1, <4>1
    <3>2. CASE probe = 2
      <4>1. memories = << >> /\ Stores(req) /\ req.user = "a" /\ req.marker = "alpha"
        BY <2>2, <3>2, ProbesStore DEF ConformanceInv, Left, req
      <4>2. memories' = <<MemoryOf("a", "alpha")>>
        BY <1>1, <4>1, ShortAppends DEF MemoryOf
      <4>3. probe' = 3 /\ probe' \notin {1, 2} /\ probe' # 4 /\ ~(probe' \in 5 .. 10)
        BY <1>1, <3>2
      <4>4. QED
        BY <4>2, <4>3
    <3>3. CASE probe = 3
      <4>1. memories = <<MemoryOf("a", "alpha")>> /\ Stores(req) /\ req.user = "b" /\ req.marker = "bravo"
        BY <2>2, <3>3, ProbesStore DEF ConformanceInv, Left, req
      <4>2. memories' = Append(<<MemoryOf("a", "alpha")>>, MemoryOf("b", "bravo"))
        BY <1>1, <4>1 DEF MemoryOf
      <4>3. memories' = <<MemoryOf("a", "alpha"), MemoryOf("b", "bravo")>>
        BY <4>2, ShortAppends
      <4>4. probe' = 4 /\ probe' \notin {1, 2} /\ probe' # 3 /\ ~(probe' \in 5 .. 10)
        BY <1>1, <3>3
      <4>5. QED
        BY <4>3, <4>4
    <3>4. CASE probe = 4
      <4>1. /\ memories = <<MemoryOf("a", "alpha"), MemoryOf("b", "bravo")>>
            /\ Stores(req) /\ req.user = "a" /\ req.marker = "alpha-too"
        BY <2>2, <3>4, ProbesStore DEF ConformanceInv, Left, req
      <4>2. memories' = Append(<<MemoryOf("a", "alpha"), MemoryOf("b", "bravo")>>, MemoryOf("a", "alpha-too"))
        BY <1>1, <4>1 DEF MemoryOf
      <4>3. memories' = Stored
        BY <4>2, ShortAppends DEF Stored
      <4>4. QED
        BY <1>1, <3>4, <4>3
    <3>5. CASE probe \in 5 .. 9
      <4>1. memories = Stored
        BY <2>2, <3>5 DEF ConformanceInv, Left
      <4>2. probe \in {1, 5, 6, 7, 8, 9}
        BY <3>5
      <4>3. ~Stores(req)
        BY <4>2, ProbesStore DEF req
      <4>4. QED
        BY <1>1, <3>5, <4>1, <4>3
    <3>6. CASE probe \in 10 .. 20
      BY <1>1, <3>6
    <3>7. probe = 1 \/ probe = 2 \/ probe = 3 \/ probe = 4 \/ probe \in 5 .. 9 \/ probe \in 10 .. 20
      BY <1>1
    <3>8. QED
      BY <3>1, <3>2, <3>3, <3>4, <3>5, <3>6, <3>7
  <2>3. ASSUME Takes, ~Has("lag"), probe' \in 6 .. 10
        PROVE  first' = IF Has("leak") THEN Stored ELSE Alphas
    <3>1. probe \in 5 .. 9
      BY <1>1, <2>3
    <3>2. CASE probe = 5
      <4>1. Status(req) = 200
        BY <2>3, <3>2, SimpleProbes DEF req
      <4>2. Data(req) = IF Has("leak") THEN Stored ELSE Alphas
        BY <2>3, <3>1, <3>2, AnswersOfStored DEF req
      <4>3. QED
        BY <1>1, <3>2, <4>1, <4>2
    <3>3. CASE probe # 5
      <4>1. probe \in 6 .. 10
        BY <3>1, <3>3
      <4>2. first = IF Has("leak") THEN Stored ELSE Alphas
        BY <2>3, <4>1 DEF ConformanceInv, Left
      <4>3. QED
        BY <1>1, <3>3, <4>2
    <3>4. QED
      BY <3>2, <3>3
  <2>4. QED
    BY <1>f, <2>1, <2>2, <2>3 DEF Left
<1>5. Counted'
  <2>1. failed' \in Nat /\ failed' >= failed
    BY <1>1, <1>2
  <2>2. ASSUME NEW p \in 1 .. probe' - 1, Tells(p) PROVE failed' > 0
    <3>1. CASE p = probe
      <4>1. ~Passes(req) /\ ~Lenient
        BY <1>1, <2>2, <3>1, FaultIsSeen DEF req
      <4>2. QED
        BY <1>1, <1>2, <4>1
    <3>2. CASE p # probe
      <4>1. p \in 1 .. probe - 1
        BY <1>1, <2>2, <3>2
      <4>2. failed > 0
        BY <2>2, <4>1 DEF ConformanceInv, Counted
      <4>3. QED
        BY <1>2, <2>1, <4>2
    <3>3. QED
      BY <3>1, <3>2
  <2>3. ASSUME NothingToFind
        PROVE  /\ failed' = IF setup.strict /\ probe' > 18 THEN probe' - 18 ELSE 0
               /\ warned' = (IF setup.client = "none" /\ probe' > 10 THEN 1 ELSE 0)
                            + (IF ~setup.strict /\ probe' > 18 THEN probe' - 18 ELSE 0)
    <3>1. /\ failed = IF setup.strict /\ probe > 18 THEN probe - 18 ELSE 0
          /\ warned = (IF setup.client = "none" /\ probe > 10 THEN 1 ELSE 0)
                      + (IF ~setup.strict /\ probe > 18 THEN probe - 18 ELSE 0)
      BY <2>3 DEF ConformanceInv, Counted
    <3>2. Passes(req) <=> ~(probe \in 18 .. 20 \/ (probe = 10 /\ setup.client = "none"))
      BY <1>1, <2>3, NothingIsFound DEF req
    <3>3. Lenient <=> (probe = 10 /\ setup.client = "none") \/ (probe \in 18 .. 20 /\ ~setup.strict)
      BY DEF Lenient
    <3>4. CASE probe \in 1 .. 9
      BY <1>1, <3>1, <3>2, <3>4
    <3>5. CASE probe = 10
      BY <1>1, <3>1, <3>2, <3>3, <3>5
    <3>6. CASE probe \in 11 .. 17
      BY <1>1, <3>1, <3>2, <3>6
    <3>7. CASE probe \in 18 .. 20
      BY <1>1, <3>1, <3>2, <3>3, <3>7
    <3>8. QED
      BY <1>1, <3>4, <3>5, <3>6, <3>7
  <2>4. QED
    BY <1>1, <1>f, <2>2, <2>3 DEF Counted
<1>6. QED
  BY <1>1, <1>2, <1>3, <1>4, <1>5 DEF ConformanceInv

\* A step of the run keeps the invariant.
LEMMA ConformanceKeeps == ConformanceInv /\ ConformanceStep => ConformanceInv'
<1> SUFFICES ASSUME ConformanceInv, ConformanceStep PROVE ConformanceInv'
  OBVIOUS
<1>1. CASE Send
  BY <1>1, SendKeeps
<1>2. CASE Report
  <2>1. UNCHANGED <<setup, probe, memories, first, failed, warned>>
    BY <1>2 DEF Report, conformanceVars
  <2>2. probe = 21 /\ exit' = IF failed = 0 THEN "passed" ELSE "failed"
    BY <1>2, TheProbes DEF Report
  <2>3. ConformanceTypes'
    BY <2>1, <2>2 DEF ConformanceInv, ConformanceTypes
  <2>4. Left' /\ Counted'
    BY <2>1, FixedBySetup DEF ConformanceInv, Left, Counted
  <2>5. QED
    BY <2>1, <2>2, <2>3, <2>4 DEF ConformanceInv
<1>3. QED
  BY <1>1, <1>2 DEF ConformanceStep

\* Nothing that its invariant speaks of changes outside of its steps.
LEMMA ConformanceInvStands == ConformanceInv /\ UNCHANGED <<conformanceVars, exit>> => ConformanceInv'
<1> SUFFICES ASSUME ConformanceInv, UNCHANGED <<conformanceVars, exit>> PROVE ConformanceInv'
  OBVIOUS
<1>1. UNCHANGED <<setup, probe, memories, first, failed, warned, exit>>
  BY DEF conformanceVars
<1>2. ConformanceTypes'
  BY <1>1 DEF ConformanceInv, ConformanceTypes
<1>3. Left' /\ Counted'
  BY <1>1, FixedBySetup DEF ConformanceInv, Left, Counted
<1>4. QED
  BY <1>1, <1>2, <1>3 DEF ConformanceInv

-----------------------------------------------------------------------------
(* The program.                                                            *)

\* One mode runs.  The load run has ended when the program has its exit
\* status; the other two runs keep their invariants.
EvalInv ==
    /\ mode = "load" => LoadInv /\ (exit = "none" \/ phase = "ended")
    /\ mode # "load" => phase = "flags"
    /\ mode = "quality" => QualityInv
    /\ mode # "quality" => place = "load"
    /\ mode = "conformance" => ConformanceInv
    /\ mode # "conformance" => probe = 1

\* It holds at first.
LEMMA EvalInvInit == Init => EvalInv
<1> SUFFICES ASSUME Init PROVE EvalInv
  OBVIOUS
<1>1. /\ mode = "load" => LoadInit /\ exit = "none"
      /\ mode # "load" => phase = "flags"
  BY DEF Init, LoadIdle
<1>2. /\ mode = "quality" => QualityInit /\ exit = "none"
      /\ mode # "quality" => place = "load"
  BY DEF Init, QualityIdle
<1>3. /\ mode = "conformance" => ConformanceInit /\ exit = "none"
      /\ mode # "conformance" => probe = 1
  BY DEF Init, ConformanceIdle
<1>4. QED
  BY <1>1, <1>2, <1>3, LoadInitInv, QualityInitInv, ConformanceInitInv DEF EvalInv

\* Nothing that a quality run's invariant speaks of changes outside of its steps.
LEMMA QualityInvStands == QualityInv /\ UNCHANGED <<qualityVars, exit>> => QualityInv'
<1> SUFFICES ASSUME QualityInv, UNCHANGED <<qualityVars, exit>> PROVE QualityInv'
  OBVIOUS
<1>0. UNCHANGED <<file, keeps, place, kept, recorded, answers, exit>>
  BY DEF qualityVars
<1>1. /\ Valid' = Valid /\ \A r, q : AsPromised(r, q)' = AsPromised(r, q)
      /\ \A r, q : Foreign(r, q)' = Foreign(r, q)
  BY <1>0, FixedByFixture
<1>2. QualityTypes' /\ KeptAcknowledged'
  BY <1>0 DEF QualityInv, QualityTypes, KeptAcknowledged, Acknowledged
<1>3. CleanRun' = CleanRun
  BY <1>0, <1>1 DEF CleanRun, Failing, Scored, Texts
<1>4. Steps'
  BY <1>0, <1>1, <1>3 DEF QualityInv, Steps, AllRecorded
<1>5. Promised'
  BY <1>0, <1>1 DEF QualityInv, Promised
<1>6. QED
  BY <1>2, <1>4, <1>5 DEF QualityInv

\* The invariant is inductive.
LEMMA EvalInvNext == EvalInv /\ [Next]_evalVars => EvalInv'
<1> SUFFICES ASSUME EvalInv, [Next]_evalVars PROVE EvalInv'
  OBVIOUS
<1>1. CASE runLoad
  BY <1>1, AfterTheEnd DEF runLoad, EvalInv, qualityVars, conformanceVars
<1>2. CASE runQuality
  BY <1>2, QualityKeeps DEF runQuality, EvalInv, loadVars, conformanceVars
<1>3. CASE runConformance
  BY <1>3, ConformanceKeeps DEF runConformance, EvalInv, loadVars, qualityVars
<1>4. CASE UNCHANGED evalVars
  <2>1. UNCHANGED <<mode, exit, loadVars, qualityVars, conformanceVars>>
    BY <1>4 DEF evalVars
  <2>2. UNCHANGED <<phase, place, probe>>
    BY <2>1 DEF loadVars, qualityVars, conformanceVars
  <2>3. QED
    BY <2>1, <2>2, LoadInvStands, QualityInvStands, ConformanceInvStands DEF EvalInv
<1>5. QED
  BY <1>1, <1>2, <1>3, <1>4 DEF Next, Exited

\* The invariant of the program.
THEOREM EvaluationInvariant == Spec => []EvalInv
BY EvalInvInit, EvalInvNext, PTL DEF Spec

\* The end of a quality run.
LEMMA PassedRun ==
  ASSUME EvalInv, place = "ended", exit = "passed"
  PROVE  /\ QualityTypes /\ AllRecorded /\ CleanRun /\ Valid /\ KeptAcknowledged
         /\ Len(answers) = Len(file.queries)
         /\ DOMAIN answers = DOMAIN file.queries
         /\ \A n \in DOMAIN answers :
               /\ file.queries[n] \in QueryTypes /\ topKOf(file.queries[n]) \in 1 .. 100
               /\ answers[n].items \in Seq([text : BOOLEAN, sources : SUBSET STRING])
               /\ Len(answers[n].items) <= topKOf(file.queries[n])
               /\ Scored(answers[n]) /\ Foreign(answers[n], file.queries[n]) = {}
<1>1. QualityInv
  BY DEF EvalInv
<1>2. QualityTypes /\ AllRecorded /\ CleanRun /\ Valid /\ KeptAcknowledged /\ Len(answers) = Len(file.queries)
  BY <1>1 DEF QualityInv, Steps
<1>3. DOMAIN answers = DOMAIN file.queries
  BY <1>2, FixtureTypes
<1>4. ASSUME NEW n \in DOMAIN answers
      PROVE  /\ file.queries[n] \in QueryTypes /\ topKOf(file.queries[n]) \in 1 .. 100
             /\ answers[n].items \in Seq([text : BOOLEAN, sources : SUBSET STRING])
             /\ Len(answers[n].items) <= topKOf(file.queries[n])
             /\ Scored(answers[n]) /\ Foreign(answers[n], file.queries[n]) = {}
  <2>1. file.queries[n] \in QueryTypes
    BY <1>2, <1>3, FixtureTypes
  <2>2. topKOf(file.queries[n]) \in 1 .. 100
    BY <1>2, <1>3, TopKBounds
  <2>3. answers[n] \in ReplyTypes
    BY <1>2 DEF QualityTypes
  <2>4. answers[n].items \in Seq([text : BOOLEAN, sources : SUBSET STRING])
    BY <2>3 DEF ReplyTypes
  <2>5. ~Failing(answers[n], file.queries[n])
    BY <1>2 DEF CleanRun
  <2>6. Len(answers[n].items) <= topKOf(file.queries[n]) /\ Scored(answers[n])
    BY <2>5 DEF Failing, NoResultErrors, Scored
  <2>7. Foreign(answers[n], file.queries[n]) = {}
    BY <1>2, <2>6 DEF CleanRun
  <2>8. QED
    BY <2>1, <2>2, <2>4, <2>6, <2>7
<1>5. QED
  BY <1>2, <1>3, <1>4

\* The scores of a passing quality run, for any fixtures, answers and gains
\* that fall with the rank.
THEOREM ScoresMeanTheirNames == Spec => []ScoresCanBeRead
<1>1. EvalInv => ScoresCanBeRead
  <2> SUFFICES ASSUME EvalInv, place = "ended", exit = "passed" PROVE ScoresCanBeRead
    BY DEF ScoresCanBeRead
  <2>1. ASSUME NEW n \in DOMAIN answers
        PROVE  LET r == answers[n]
                   q == file.queries[n]
                   best == Min({Cardinality(Relevant(q)), topKOf(q)})
               IN  /\ Scored(r)
                   /\ Actual(r, q) <= Ideal(q)
                   /\ Relevant(q) # {} =>
                         /\ Actual(r, q) = Ideal(q) <=>
                               /\ Len(r.items) >= best
                               /\ \A i \in 1 .. best :
                                     ~(Sources(r, i) \cap Relevant(q) \subseteq
                                       UNION {Sources(r, j) : j \in 1 .. i - 1})
                         /\ Actual(r, q) = 0 <=> hits(r, q) = {}
    <3> DEFINE r == answers[n]
               q == file.queries[n]
    <3>1. /\ r.items \in Seq([text : BOOLEAN, sources : SUBSET STRING]) /\ q \in QueryTypes
          /\ topKOf(q) \in 1 .. 100 /\ Len(r.items) <= topKOf(q) /\ Scored(r)
      BY PassedRun
    <3> HIDE DEF r, q
    <3>2. LET best == Min({Cardinality(Relevant(q)), topKOf(q)})
          IN  /\ Actual(r, q) <= Ideal(q)
              /\ Relevant(q) # {} =>
                    /\ Actual(r, q) = Ideal(q) <=>
                          /\ Len(r.items) >= best
                          /\ \A i \in 1 .. best :
                                ~(Sources(r, i) \cap Relevant(q) \subseteq
                                  UNION {Sources(r, j) : j \in 1 .. i - 1})
                    /\ Actual(r, q) = 0 <=> hits(r, q) = {}
      BY <3>1, ScoreIsRight
    <3>3. QED
      BY <3>1, <3>2 DEF r, q
  <2>2. Len(answers) = Len(file.queries)
    BY PassedRun
  <2>3. QED
    BY <2>1, <2>2 DEF ScoresCanBeRead
<1>2. QED
  BY <1>1, EvaluationInvariant, PTL

\* Exit 0 of a quality run: all was recorded, and no answer was too long or
\* held a record of another user.
THEOREM PassIsIsolated == Spec => []PassMeansIsolated
<1>1. EvalInv => PassMeansIsolated
  <2> SUFFICES ASSUME EvalInv, place = "ended", exit = "passed" PROVE PassMeansIsolated
    BY DEF PassMeansIsolated
  <2>1. AllRecorded
    BY PassedRun
  <2>2. \A n \in DOMAIN answers : /\ Len(answers[n].items) <= topKOf(file.queries[n])
                                  /\ Foreign(answers[n], file.queries[n]) = {}
    BY PassedRun
  <2>3. \A n \in DOMAIN answers : \A id \in Retrieved(answers[n]) : UserOf(id) = file.queries[n].user
    BY <2>2 DEF Retrieved, Foreign
  <2>4. QED
    BY <2>1, <2>2, <2>3 DEF PassMeansIsolated, AllRecorded
<1>2. QED
  BY <1>1, EvaluationInvariant, PTL

\* When all is recorded the service holds every record of the fixture, each
\* once.
LEMMA AllKept ==
  ASSUME QualityTypes, Valid, AllRecorded, KeptAcknowledged
  PROVE  kept = Ids /\ Cardinality(kept) = Len(file.records)
<1>1. /\ Len(file.records) \in Nat /\ DOMAIN file.records = 1 .. Len(file.records)
      /\ DOMAIN recorded = DOMAIN file.records
      /\ Ids = {file.records[i].id : i \in DOMAIN file.records}
  BY FixtureTypes DEF AllRecorded
<1>2. kept = Ids
  BY <1>1 DEF KeptAcknowledged, Acknowledged, AllRecorded
<1> DEFINE D == 1 .. Len(file.records)
           f == [i \in D |-> file.records[i].id]
<1>3. f \in Surjection(D, Ids)
  BY <1>1 DEF Surjection
<1>4. f \in Injection(D, Ids)
  <2>1. IsInjective([i \in DOMAIN file.records |-> file.records[i].id])
    BY DEF Valid, Field
  <2>2. IsInjective(f)
    BY <1>1, <2>1
  <2>3. f \in [D -> Ids]
    BY <1>3 DEF Surjection
  <2> HIDE DEF f
  <2>4. QED
    BY <2>2, <2>3 DEF Injection
<1>5. IsFiniteSet(D) /\ Cardinality(D) = Len(file.records)
  <2> DEFINE n == Len(file.records)
  <2>1. 1 \in Int /\ n \in Int /\ (IF 1 > n THEN 0 ELSE n - 1 + 1) = n
    BY <1>1
  <2> HIDE DEF n
  <2>2. IsFiniteSet(1 .. n) /\ Cardinality(1 .. n) = IF 1 > n THEN 0 ELSE n - 1 + 1
    BY <2>1, FS_Interval
  <2>3. QED
    BY <2>1, <2>2 DEF n
<1> HIDE DEF D, f
<1>6. Cardinality(Ids) = Cardinality(D)
  BY <1>3, <1>4, <1>5, FS_Surjection
<1>7. QED
  BY <1>2, <1>5, <1>6

\* A service that keeps its word passes with any ranking.
THEOREM KeepingIsPassed == Spec => []KeepingPasses
<1>1. EvalInv => KeepingPasses
  <2> SUFFICES ASSUME EvalInv, keeps, place # "load" PROVE KeepingPasses
    BY DEF KeepingPasses
  <2>1. QualityInv
    BY DEF EvalInv
  <2>2. exit # "failed"
    BY <2>1 DEF QualityInv, Promised
  <2>3. \A n \in DOMAIN answers : Unmapped(answers[n]) = {}
    BY <2>1, PromisedIsClean DEF QualityInv, Promised
  <2>4. ASSUME place = "ended", exit = "passed", NEW q \in ToSet(file.queries)
        PROVE  /\ \A id \in Relevant(q) : id \in kept /\ UserOf(id) = q.user
               /\ Cardinality(kept) = Len(file.records)
    <3>1. Valid /\ kept = Ids /\ Cardinality(kept) = Len(file.records)
      BY <2>4, PassedRun, AllKept
    <3>2. \A id \in Relevant(q) : id \in Ids /\ UserOf(id) = q.user
      BY <3>1 DEF Valid, Relevant
    <3>3. QED
      BY <3>1, <3>2
  <2>5. QED
    BY <2>2, <2>3, <2>4 DEF KeepingPasses
<1>2. QED
  BY <1>1, EvaluationInvariant, PTL

\* A sound verdict is a fact about the answer.
LEMMA VerdictTells ==
  ASSUME LoadTypes, NEW j \in Queries, Verdict(reply[j], j).schema,
         Verdict(reply[j], j).isolation, Verdict(reply[j], j).visibility
  PROVE  /\ reply[j].ok /\ reply[j].items <= cfg.topK /\ reply[j].shown \subseteq Own(j)
         /\ \/ reply[j].shown = Own(j) \/ Cardinality(reply[j].shown) >= cfg.topK
            \/ reply[j].earlier # {}
<1> DEFINE r == reply[j]
<1>1. /\ r.ok /\ r.items <= cfg.topK /\ r.shown \subseteq Own(j)
      /\ Cardinality(Visible(r, j)) >= Lesser(Cardinality(Own(j)), cfg.topK)
  BY DEF Verdict, NoResultErrors, Leaked
<1>2. /\ IsFiniteSet(Own(j)) /\ Cardinality(Own(j)) \in Nat /\ cfg.topK \in Nat
      /\ Cardinality(r.shown) \in Nat
  BY <1>1, RecordsFinite DEF LoadConfig, LoadTypes
<1>3. r.earlier = {} => Visible(r, j) = r.shown
  BY <1>1 DEF Visible
<1>4. CASE r.earlier = {} /\ Cardinality(Own(j)) < cfg.topK
  <2>1. Cardinality(r.shown) >= Cardinality(Own(j))
    BY <1>1, <1>2, <1>3, <1>4 DEF Lesser
  <2>2. Cardinality(r.shown) <= Cardinality(Own(j))
    BY <1>1, <1>2, FS_Subset
  <2>3. r.shown = Own(j)
    BY <1>1, <1>2, <2>1, <2>2, FS_Subset
  <2>4. QED
    BY <1>1, <2>3
<1>5. CASE r.earlier = {} /\ ~(Cardinality(Own(j)) < cfg.topK)
  BY <1>1, <1>2, <1>3, <1>5 DEF Lesser
<1>6. QED
  BY <1>1, <1>4, <1>5

\* Exit 0 of a load run (operations.md:214), for any arguments and any service:
\* every add was acknowledged and every search showed what it should.
THEOREM PassIsVisible == Spec => []PassMeansVisible
<1>1. EvalInv => PassMeansVisible
  <2> SUFFICES ASSUME EvalInv, phase = "ended", exit = "passed" PROVE PassMeansVisible
    BY DEF PassMeansVisible
  <2>1. LoadInv /\ Clean
    BY DEF EvalInv, LoadInv, Results
  <2>2. ASSUME NEW j \in Queries
        PROVE  /\ found[j] = Verdict(reply[j], j)
               /\ found[j].schema /\ found[j].isolation /\ found[j].visibility
    BY <2>1 DEF Clean, LoadInv, Results, Unset
  <2>3. QED
    BY <2>1, <2>2, VerdictTells DEF PassMeansVisible, Clean, LoadInv
<1>2. QED
  BY <1>1, EvaluationInvariant, PTL

\* No false alarm (eval/README.md:29), however many workers there are and in
\* whatever order they act.
THEOREM HonestIsPassed == Spec => []HonestPasses
<1>1. EvalInv => HonestPasses
  BY DEF EvalInv, LoadInv, Progress, HonestPasses
<1>2. QED
  BY <1>1, EvaluationInvariant, PTL

\* What the conformance run tells (eval/README.md:25), for any set of the
\* defects in one service: none hides another, and the adapter passes.
THEOREM ConformanceRunTells == Spec => []ConformanceTells
<1>1. EvalInv => ConformanceTells
  <2> SUFFICES ASSUME EvalInv, Done PROVE ConformanceTells
    BY DEF ConformanceTells
  <2>1. ConformanceInv /\ exit # "none"
    BY TheProbes DEF EvalInv, Done
  <2>2. /\ setup \in Setups /\ failed \in Nat
        /\ probe = 21 /\ exit = IF failed = 0 THEN "passed" ELSE "failed"
    BY <2>1 DEF ConformanceInv, ConformanceTypes
  <2>3. CASE ~NothingToFind
    <3>1. PICK p \in 1 .. 20 : Tells(p)
      BY <2>2, <2>3, SomeProbeTells
    <3>2. p \in 1 .. probe - 1
      BY <2>2
    <3>3. failed > 0
      BY <2>1, <3>1, <3>2 DEF ConformanceInv, Counted
    <3>4. QED
      BY <2>2, <2>3, <3>3 DEF ConformanceTells
  <2>4. CASE NothingToFind
    <3>1. /\ failed = IF setup.strict THEN 3 ELSE 0
          /\ warned = (IF setup.client = "none" THEN 1 ELSE 0) + (IF ~setup.strict THEN 3 ELSE 0)
      BY <2>1, <2>2, <2>4 DEF ConformanceInv, Counted
    <3>2. QED
      BY <2>2, <2>4, <3>1 DEF ConformanceTells
  <2>5. QED
    BY <2>3, <2>4
<1>2. QED
  BY <1>1, EvaluationInvariant, PTL
=============================================================================
