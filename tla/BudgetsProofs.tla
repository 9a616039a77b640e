--------------------------- MODULE BudgetsProofs ---------------------------
(***************************************************************************)
(* The budgets for every value of the constants: those that hold whatever  *)
(* the values are, and the inequality between the values that each of the  *)
(* others needs.                                                           *)
(***************************************************************************)
EXTENDS Budgets, TLAPS

\* What is computed from the constants and the clock is a moment.
LEMMA Moments ==
  ASSUME Typed
  PROVE  /\ NavBudget \in Nat /\ Never \in Nat /\ Deadline \in Nat
         /\ job \notin {"nav", "distill"} => Deadline = stageAt + Never
<1>1. NavBudget \in Nat /\ Never \in Nat
  BY BudgetAssumption DEF NavBudget, Never
<1>2. QED
  BY <1>1, BudgetAssumption DEF Typed, Deadline, Budget

\* The initial state satisfies the invariants.
LEMMA InitInv == Init => IInv /\ OnTime
<1> SUFFICES ASSUME Init PROVE IInv /\ OnTime
  OBVIOUS
<1> USE BudgetAssumption DEF Init
<1>1. Typed
  BY DEF Typed
<1>2. Clock /\ Window
  BY DEF Clock, Window, AtWork
<1>3. OnTime
  BY DEF OnTime, AtWork
<1>4. QED
  BY <1>1, <1>2, <1>3 DEF IInv

\* A tick ends no later than what the handler waits for.
LEMMA TickKeeps ==
  ASSUME Typed, Clock, Tick
  PROVE  Typed' /\ Clock'
<1> USE BudgetAssumption DEF Tick, Typed, callVars, callerVars, processVars, history
<1>1. Typed'
  OBVIOUS
<1>2. CASE job \in {"body", "done"}
  <2>1. job = "body" => now + 1 <= ReadTimeout
    BY DEF Due
  <2>2. UNCHANGED <<job, bodyAt, gone, call, asked>> /\ ~AtWork'
    BY <1>2 DEF AtWork
  <2>3. QED
    BY <2>1, <2>2 DEF Clock
<1>3. CASE AtWork
  <2>1. ~gone /\ now < Deadline
    <3>1. call \in {"model", "mark", "pause"} /\ Deadline \in Nat
      BY <1>3, Moments DEF Clock
    <3>2. Due = IF gone THEN now ELSE WaitEnds
      BY <1>3 DEF Due, AtWork
    <3>3. ~gone /\ now < WaitEnds
      BY <3>2
    <3>4. QED
      BY <3>1, <3>3 DEF WaitEnds, Lesser
  <2>2. Deadline' = Deadline
    BY <1>3 DEF Deadline, Budget
  <2>3. QED
    <3>1. now + 1 <= Deadline
      BY <1>3, <2>1, Moments DEF AtWork
    <3>2. UNCHANGED <<job, stageAt, bodyAt, gone, call, asked>>
      OBVIOUS
    <3>3. ~gone'
      BY <2>1, <3>2
    <3>4. QED
      BY <1>3, <2>2, <3>1, <3>2, <3>3 DEF Clock, AtWork
<1>4. QED
  BY <1>1, <1>2, <1>3 DEF AtWork

\* Entering a stage restarts its deadline, and keeps the invariant.
LEMMA EnterKeeps ==
  ASSUME Typed, Clock, AtWork, now' = now, UNCHANGED <<mode, process, signalAt>>,
         NEW stage \in {"lookup", "fetch", "distill", "publish", "recheck"}, Enter(stage)
  PROVE  Typed' /\ Clock'
<1> USE BudgetAssumption DEF Enter, Ask, Send, callerVars
<1>1. Typed'
  BY DEF Typed
<1>2. Deadline' \in Nat /\ now <= Deadline'
  BY <1>1, Moments DEF Typed, Deadline, Budget, Never
<1>3. QED
  BY <1>1, <1>2 DEF Typed, Clock, AtWork

\* So does the end of the work.
LEMMA FinishKeeps ==
  ASSUME Typed, Clock, AtWork, now' = now, UNCHANGED <<mode, process, signalAt>>, Finish
  PROVE  Typed' /\ Clock'
BY BudgetAssumption DEF Finish, NoCall, Typed, Clock, AtWork

\* And another call of the same stage.
LEMMA StayKeeps ==
  ASSUME Typed, Clock, AtWork, now' = now, UNCHANGED <<mode, process, signalAt>>,
         UNCHANGED <<job, stageAt, callerVars>>,
         Ask \/ Send \/ (call' = "mark" /\ sentAt' \in Nat /\ UNCHANGED <<asked, wake>>)
  PROVE  Typed' /\ Clock'
<1> USE BudgetAssumption DEF Ask, Send, callerVars
<1>1. Typed'
  BY DEF Typed
<1>2. Deadline' = Deadline
  BY DEF Deadline, Budget
<1>3. QED
  BY <1>1, <1>2 DEF Typed, Clock, AtWork

\* No step leaves the clock behind a moment it had to stop at.
LEMMA ClockKept ==
  ASSUME Typed, Clock, [Next]_vars
  PROVE  Typed' /\ Clock'
<1> USE DEF Handling
<1>a. AtWork <=> job \notin {"body", "done"}
  BY DEF AtWork
<1>1. CASE Tick
  BY <1>1, TickKeeps
<1>2. CASE ReadBody
  <2>1. Typed'
    BY <1>2 DEF ReadBody, First, Ask, Send, Typed, callVars, callerVars, processVars
  <2>2. Deadline' \in Nat /\ (job' # "done" => now <= Deadline')
    BY <1>2, <2>1, Moments DEF ReadBody, Typed, Deadline, Budget, First
  <2>3. QED
    BY <1>2, <2>1, <2>2, BudgetAssumption
       DEF ReadBody, First, Ask, Send, Typed, Clock, AtWork, callVars, processVars
<1>3. CASE ModelAnswers
  BY <1>3, <1>a, EnterKeeps, FinishKeeps, StayKeeps
     DEF ModelAnswers, Stay, processVars
<1>4. CASE ModelFails \/ PauseCut
  BY <1>4, <1>a, EnterKeeps, FinishKeeps
     DEF ModelFails, PauseCut, LLMFails, processVars
<1>5. CASE ModelLimited
  <2>1. Typed'
    BY <1>5, BudgetAssumption DEF ModelLimited, Typed, callerVars, processVars
  <2>2. Deadline' = Deadline
    BY <1>5 DEF ModelLimited, Deadline, Budget
  <2>3. QED
    BY <1>5, <2>1, <2>2, BudgetAssumption
       DEF ModelLimited, Typed, Clock, AtWork, callerVars, processVars
<1>6. CASE PauseEnds
  <2>1. Typed'
    BY <1>6 DEF PauseEnds, Typed, callerVars, processVars
  <2>2. Deadline' = Deadline
    BY <1>6 DEF PauseEnds, Deadline, Budget
  <2>3. QED
    BY <1>6, <2>1, <2>2, BudgetAssumption
       DEF PauseEnds, Typed, Clock, AtWork, callerVars, processVars
<1>7. CASE Reply
  BY <1>7, <1>a, EnterKeeps, FinishKeeps, StayKeeps
     DEF Reply, Replied, Stay, processVars
<1>8. CASE Retry
  BY <1>8, <1>a, StayKeeps DEF Retry, Stay, processVars, Typed
<1>9. CASE GiveUp
  BY <1>9, <1>a, FinishKeeps, StayKeeps
     DEF GiveUp, RequestFailed, Stay, processVars
<1>10. CASE HangUp \/ Signal \/ Drained \/ Forced \/ UNCHANGED vars
  <2>1. /\ UNCHANGED <<now, job, mode, stageAt, callVars, bodyAt>>
        /\ (gone' => now' = goneAt') \/ UNCHANGED <<gone, goneAt>>
        /\ job = "body" => gone' = gone
        /\ signalAt' \in Nat /\ gone' \in BOOLEAN
        /\ process' \in {"serving", "draining", "exited", "forced"}
    BY <1>10 DEF HangUp, Signal, Drained, Forced, vars, callerVars, processVars, Typed
  <2>2. Deadline' = Deadline
    BY <2>1 DEF Deadline, Budget
  <2>3. QED
    BY <2>1, <2>2 DEF Typed, Clock, AtWork, callVars
<1>11. QED
  BY <1>1, <1>2, <1>3, <1>4, <1>5, <1>6, <1>7, <1>8, <1>9, <1>10 DEF Next, Over

\* Only a tick moves the clock, and none passes the end of the window.
LEMMA WindowKept ==
  ASSUME Typed, Window, [Next]_vars
  PROVE  Window'
<1> USE BudgetAssumption DEF Typed, Window, ShutdownBudget, processVars
<1>1. CASE Tick
  BY <1>1 DEF Tick, Running
<1>2. CASE Signal \/ Drained \/ Forced
  BY <1>2 DEF Signal, Drained, Forced
<1>3. CASE ReadBody \/ ModelAnswers \/ ModelFails \/ ModelLimited \/ PauseEnds \/ PauseCut
           \/ Reply \/ Retry \/ GiveUp \/ HangUp \/ UNCHANGED vars
  <2>1. UNCHANGED <<now, process, signalAt>>
    BY <1>3 DEF ReadBody, ModelAnswers, ModelFails, ModelLimited, PauseEnds, PauseCut,
                Reply, Retry, GiveUp, HangUp, vars
  <2>2. QED
    BY <2>1
<1>4. QED
  BY <1>1, <1>2, <1>3 DEF Next, Over

\* IInv is inductive.
LEMMA NextInv == IInv /\ [Next]_vars => IInv'
BY ClockKept, WindowKept DEF IInv

\* The invariant behind the three theorems below.
THEOREM ClockInvariant == Spec => []IInv
BY InitInv, NextInv, PTL DEF Spec

\* Whatever the values are, a navigation and a distillation end within their
\* budgets however often the provider limits the rate (retry.go:41), and no
\* handler spends time on an answer whose caller has left.
THEOREM BudgetsAreHeld == Spec => []BudgetsHold
<1>1. IInv => BudgetsHold
  BY DEF IInv, Clock, AtWork, BudgetsHold, Handling
<1>2. QED
  BY <1>1, ClockInvariant, PTL

\* The shutdown spares the answers when compose waits longer than the process
\* does (main.go:125, the stop_grace_period of deploy's compose file).
THEOREM AnswersAreSpared ==
  ASSUME SearchBudget < StopGrace
  PROVE  Spec => []ShutdownSparesAnswers
<1>1. IInv => ShutdownSparesAnswers
  BY BudgetAssumption DEF IInv, Typed, Window, ShutdownBudget, ShutdownSparesAnswers
<1>2. QED
  BY <1>1, ClockInvariant, PTL
\* Time left for an answer: the constants of main leave room for one attempt
\* of every request that a search or an Add makes after its budget.
Roomy ==
    /\ NavBudget + 2 * AttemptTimeout < SearchBudget
    /\ 3 * AttemptTimeout + DistillBudget < SearchBudget

\* Under that room the work of a stage that began in time ends in time.
LEMMA InTime ==
  ASSUME Roomy, Typed, Clock, OnTime, AtWork, bodyAt = 0, ~slow
  PROVE  now < SearchBudget
<1> USE BudgetAssumption DEF Typed, AtWork
<1>1. NavBudget \in Nat /\ stageAt <= StartsBy
  BY Moments DEF OnTime
<1>2. CASE job \in {"nav", "distill"}
  <2>1. now <= stageAt + Budget
    BY DEF Clock, Deadline
  <2>2. QED
    BY <1>1, <1>2, <2>1 DEF Roomy, Budget, StartsBy
<1>3. CASE job \notin {"nav", "distill"}
  <2>1. now <= stageAt + AttemptTimeout
    BY <1>3 DEF OnTime
  <2>2. QED
    BY <1>1, <1>3, <2>1 DEF Roomy, StartsBy
<1>4. QED
  BY <1>2, <1>3

\* A stage begins as soon as the one before it is over, which is in time.
LEMMA EnterOnTime ==
  ASSUME Roomy, Typed, Clock, OnTime, AtWork, now' = now,
         UNCHANGED mode, slow => slow',
         NEW stage \in {"lookup", "fetch", "distill", "publish", "recheck"}, Enter(stage),
         <<job, stage>> \in {<<"nav", "lookup">>, <<"lookup", "fetch">>,
            <<"precheck", "distill">>, <<"distill", "publish">>, <<"publish", "recheck">>},
         spent' => spent \/ (job = "nav" /\ stage = "lookup")
  PROVE  OnTime'
<1> USE BudgetAssumption DEF Enter, Ask, Send, callerVars, Typed
<1>1. ASSUME bodyAt' = 0, ~slow' PROVE stageAt' <= StartsBy'
  <2>1. bodyAt = 0 /\ ~slow /\ stageAt <= StartsBy /\ NavBudget \in Nat
    BY <1>1, Moments DEF OnTime
  <2>2. job = "nav" => now <= stageAt + NavBudget
    BY DEF Clock, Deadline, Budget
  <2>3. job = "distill" => now <= stageAt + DistillBudget
    BY DEF Clock, Deadline, Budget
  <2>4. job \notin {"nav", "distill"} => now <= stageAt + AttemptTimeout
    BY <2>1 DEF OnTime
  <2>5. QED
    BY <2>1, <2>2, <2>3, <2>4 DEF StartsBy
<1>2. QED
  BY <1>1 DEF OnTime, AtWork

\* An answer in time is written in time.
LEMMA FinishOnTime ==
  ASSUME Roomy, Typed, Clock, OnTime, AtWork, now' = now,
         UNCHANGED mode, slow => slow', Finish,
         spent' => spent \/ (job = "nav" /\ mode # "auto")
  PROVE  OnTime'
<1>1. bodyAt = 0 /\ ~slow => now < SearchBudget
  BY InTime
<1>2. QED
  BY <1>1 DEF Finish, OnTime, AtWork

\* Another call of a stage that is not the store's own is no later.
LEMMA StayOnTime ==
  ASSUME OnTime, UNCHANGED <<now, job, stageAt, callerVars, mode>>, slow => slow', spent' = spent,
         job \in {"nav", "distill"} \/ slow' \/ bodyAt # 0 \/ UNCHANGED callVars
  PROVE  OnTime'
<1>1. StartsBy' = StartsBy
  BY DEF StartsBy
<1>2. QED
  BY <1>1 DEF OnTime, AtWork, callerVars, callVars

\* No step makes a stage late.
LEMMA OnTimeKept ==
  ASSUME Roomy, Typed, Clock, OnTime, [Next]_vars
  PROVE  OnTime'
<1> USE DEF Handling
<1>a. AtWork <=> job \notin {"body", "done"}
  BY DEF AtWork
<1>1. CASE Tick
  <2>1. UNCHANGED <<job, mode, stageAt, call, sentAt, bodyAt, outcome, last, slow, spent>>
    BY <1>1 DEF Tick, callVars, callerVars, history
  <2>2. AtWork /\ call = "mark" => now' <= sentAt + AttemptTimeout
    BY <1>1, Moments, BudgetAssumption DEF Tick, Due, WaitEnds, Lesser, AtWork, Typed
  <2>3. StartsBy' = StartsBy
    BY <2>1 DEF StartsBy
  <2>4. QED
    BY <2>1, <2>2, <2>3 DEF OnTime, AtWork
<1>2. CASE ReadBody
  <2>1. ~spent /\ ~spent' /\ bodyAt' = now
    BY <1>2 DEF ReadBody, OnTime, history
  <2>2. CASE job' = "done"
    BY <2>1, <2>2 DEF OnTime, AtWork
  <2>3. CASE job' # "done"
    <3>1. /\ job' = First /\ stageAt' = now
          /\ IF First = "nav" THEN Ask ELSE Send
      BY <1>2, <2>3 DEF ReadBody
    <3>2. job' # "nav" => call' = "mark" /\ sentAt' = now
      BY <3>1 DEF Send
    <3>3. now = 0 => stageAt' <= StartsBy'
      BY <3>1, Moments, BudgetAssumption, <1>2 DEF StartsBy, First, Typed, ReadBody, NavBudget
    <3>4. now' = now /\ job' \in {"nav", "lookup", "precheck", "publish"}
      BY <1>2, <3>1 DEF ReadBody, First, Typed
    <3>5. QED
      BY <2>1, <3>1, <3>2, <3>3, <3>4, BudgetAssumption DEF OnTime, AtWork, Typed
  <2>4. QED
    BY <2>2, <2>3
<1>3. CASE ModelAnswers
  BY <1>3, <1>a, EnterOnTime, FinishOnTime, StayOnTime
     DEF ModelAnswers, Stay, history, OnTime
<1>4. CASE ModelFails \/ PauseCut
  <2>1. /\ AtWork /\ UNCHANGED <<now, mode, slow>> /\ LLMFails
        /\ spent' => spent \/ job = "nav"
    BY <1>4, <1>a DEF ModelFails, PauseCut
  <2>2. CASE job = "distill"
    BY <2>1, <2>2, EnterOnTime DEF LLMFails
  <2>3. CASE job # "distill" /\ mode = "auto"
    <3>1. Enter("lookup")
      BY <2>1, <2>3 DEF LLMFails
    <3>2. CASE job = "nav"
      BY <2>1, <3>1, <3>2, EnterOnTime
    <3>3. CASE job # "nav"
      BY <1>4, <2>1, <2>3, <3>1, <3>3 DEF ModelFails, PauseCut, OnTime, Enter, AtWork, callerVars, Send
    <3>4. QED
      BY <3>2, <3>3
  <2>4. CASE job # "distill" /\ mode # "auto"
    BY <2>1, <2>4, FinishOnTime DEF LLMFails
  <2>5. QED
    BY <2>2, <2>3, <2>4
<1>5. CASE ModelLimited \/ PauseEnds
  <2>1. job \in {"nav", "distill"} \/ slow \/ bodyAt # 0
    BY <1>5 DEF ModelLimited, PauseEnds, OnTime, AtWork
  <2>2. UNCHANGED <<now, job, mode, stageAt, callerVars, history>>
    BY <1>5 DEF ModelLimited, PauseEnds
  <2>3. QED
    BY <2>1, <2>2, StayOnTime DEF history
<1>6. CASE Reply
  BY <1>6, <1>a, EnterOnTime, FinishOnTime, StayOnTime DEF Reply, Replied, Stay, OnTime
<1>7. CASE Retry
  BY <1>7, <1>a, StayOnTime DEF Retry, Stay
<1>8. CASE GiveUp
  BY <1>8, <1>a, FinishOnTime, StayOnTime DEF GiveUp, RequestFailed, Stay
<1>9. CASE HangUp \/ Signal \/ Drained \/ Forced \/ UNCHANGED vars
  <2>1. UNCHANGED <<now, job, mode, stageAt, callVars, bodyAt, outcome, last, history>>
    BY <1>9 DEF HangUp, Signal, Drained, Forced, vars, callerVars
  <2>2. StartsBy' = StartsBy
    BY <2>1 DEF StartsBy
  <2>3. QED
    BY <2>1, <2>2 DEF OnTime, AtWork, callVars, history
<1>10. QED
  BY <1>1, <1>2, <1>3, <1>4, <1>5, <1>6, <1>7, <1>8, <1>9 DEF Next, Over

\* With room for them (main.go:77), every request of the store's own that goes
\* well is made and answered before the write deadline, and the catalog
\* answers for a navigation that used its budget up.
THEOREM AnswersFit == Roomy => (Spec => []AnswersInTime)
<1> SUFFICES ASSUME Roomy PROVE Spec => []AnswersInTime
  OBVIOUS
<1>1. IInv /\ OnTime /\ [Next]_vars => OnTime'
  BY OnTimeKept DEF IInv
<1>2. IInv /\ OnTime => AnswersInTime
  <2>1. IInv /\ OnTime /\ bodyAt = 0 /\ ~slow /\ AtWork => now < SearchBudget
    BY InTime DEF IInv
  <2>2. QED
    BY <2>1 DEF OnTime, AnswersInTime, AtWork
<1>3. QED
  BY <1>1, <1>2, InitInv, ClockInvariant, PTL DEF Spec
=============================================================================
