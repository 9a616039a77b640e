------------------------------ MODULE Budgets ------------------------------
(***************************************************************************)
(* The time a request may take, from its headers to its answer: a clock    *)
(* over the handler's calls, the contexts they listen to, the server's     *)
(* write deadline, the patience of the proxy in front, and a shutdown that *)
(* may begin at any moment.  Requests share none of this, so there is one. *)
(*                                                                         *)
(* Only Tick takes time; everything else happens at once.  A Tick may not  *)
(* pass the moment at which what the handler waits for returns by itself.  *)
(* Delays of 100 ms are no time at all, except that where a wait and its   *)
(* context end together, the context comes first.  The model, demarkus and *)
(* the proxy are external: they answer, fail or stay silent at will.       *)
(***************************************************************************)
EXTENDS Naturals

CONSTANTS
    SearchBudget,   \* searchBudget
    ReadTimeout,    \* of the server: headers and body
    DistillBudget,
    AttemptTimeout, \* markRequestTimeout
    MaxAttempts,    \* markMaxAttempts
    MaxDelay,       \* maxRateLimitDelay
    MaxRetries,     \* maxRateLimitRetries
    ProxyTimeout,   \* Caddy's response_header_timeout
    StopGrace,      \* compose's stop_grace_period
    MaxTurns,       \* bound: turns of the agent (16 in the code)
    MaxRounds       \* bound: fetchConcurrency hits are fetched in a round

ASSUME BudgetAssumption ==
    /\ {SearchBudget, ReadTimeout, DistillBudget, AttemptTimeout, MaxAttempts,
        ProxyTimeout, StopGrace, MaxTurns} \subseteq Nat \ {0}
    /\ {MaxDelay, MaxRetries, MaxRounds} \subseteq Nat

VARIABLES
    now,      \* time since the headers were read
    job,      \* "body", then a stage of the handler, then "done"
    mode,     \* of a search: "off", "auto", "require"; of an Add: "plain", "distill"
    bodyAt,   \* when the body was read
    stageAt,  \* when the stage began
    call,     \* what the handler waits for: "none", "mark", "model", "pause"
    asked,    \* times the model was asked in this call
    wake,     \* when the pause ends
    attempt,  \* of the mark request
    sentAt,   \* when the attempt began
    count,    \* turns of the agent, or rounds of fetches
    gone,     \* whether the caller's connection is closed: the request's context
    outcome,  \* "none", "delivered", "unwritable", "nobody"
    process,  \* "serving", "draining", "exited", "forced"
    signalAt, \* when the signal came
    last,     \* history: the stage that answered
    slow,     \* history: a request of the store's own failed an attempt, or
              \* more than one round of fetches was needed
    spent,    \* history: whether the navigation used its budget up
    goneAt    \* history: when the caller left

callVars == <<call, asked, wake, attempt, sentAt>>
callerVars == <<bodyAt, gone, goneAt, outcome, last>>
processVars == <<process, signalAt>>
history == <<slow, spent>>
vars == <<now, job, mode, stageAt, count, callVars, callerVars, processVars, history>>

\* main gives the navigation less than the write deadline; a bug gives it all.
NavBudgetWhole == SearchBudget
NavBudget == (SearchBudget * 3) \div 4

\* The window of the shutdown; a bug: the navigation's budget.
ShutdownBudgetNav == NavBudget
ShutdownBudget == SearchBudget

Lesser(a, b) == IF a < b THEN a ELSE b

Never == ReadTimeout + ProxyTimeout + StopGrace + 1

-----------------------------------------------------------------------------
(* Contexts: the request's, and the one a stage derives from it.           *)

Budget == CASE job = "nav" -> NavBudget [] job = "distill" -> DistillBudget [] OTHER -> Never
Deadline == stageAt + Budget
CtxDone == gone \/ now >= Deadline

Running == process \in {"serving", "draining"}
Handling == Running /\ job \notin {"body", "done"}

\* When the wait under way ends by itself.  Bugs: a pause that sleeps, an
\* attempt that only its reply ends.
WaitEnds ==
    CASE call = "model" -> Deadline
      [] call = "pause" -> Lesser(wake, Deadline)
      [] call = "mark" -> Lesser(sentAt + AttemptTimeout, Deadline)
DueSleep ==
    CASE job = "done" -> Never
      [] job = "body" -> ReadTimeout
      [] OTHER -> IF call = "pause" THEN wake ELSE IF gone THEN now ELSE WaitEnds
DueDetached ==
    CASE job = "done" -> Never
      [] job = "body" -> ReadTimeout
      [] OTHER -> IF call = "mark" THEN sentAt + AttemptTimeout ELSE IF gone THEN now ELSE WaitEnds
Due ==
    CASE job = "done" -> Never
      [] job = "body" -> ReadTimeout
      [] OTHER -> IF gone THEN now ELSE WaitEnds

\* Nothing is late: a wait, the proxy, the end of the shutdown window.
Tick ==
    /\ Running
    /\ now < Due
    /\ job \notin {"body", "done"} /\ ~gone => now < bodyAt + ProxyTimeout
    /\ process = "draining" => job # "done" /\ now < signalAt + ShutdownBudget
    /\ process = "serving" => job # "done"
    /\ now' = now + 1
    /\ UNCHANGED <<job, mode, stageAt, count, callVars, callerVars, processVars, history>>

-----------------------------------------------------------------------------
(* Going from stage to stage.                                              *)

Ask ==
    /\ call' = "model" /\ asked' = 1 /\ wake' = 0 /\ attempt' = 0 /\ sentAt' = 0
Send ==
    /\ call' = "mark" /\ asked' = 0 /\ wake' = 0 /\ attempt' = 1 /\ sentAt' = now
NoCall ==
    /\ call' = "none" /\ asked' = 0 /\ wake' = 0 /\ attempt' = 0 /\ sentAt' = 0

\* The answer is written while the connection's deadline allows it.
Finish ==
    /\ job' = "done" /\ stageAt' = 0 /\ count' = 0 /\ NoCall
    /\ outcome' = IF gone THEN "nobody" ELSE IF now < SearchBudget THEN "delivered" ELSE "unwritable"
    /\ last' = job
    /\ UNCHANGED <<bodyAt, gone, goneAt>>

Enter(stage) ==
    /\ job' = stage /\ stageAt' = now /\ count' = 0
    /\ IF stage \in {"nav", "distill"} THEN Ask ELSE Send
    /\ UNCHANGED callerVars

\* The next call of the same stage.
Stay(next) == next /\ UNCHANGED <<job, stageAt, callerVars>>

First ==
    CASE mode = "off" -> "lookup" [] mode \in {"auto", "require"} -> "nav"
      [] mode = "plain" -> "publish" [] mode = "distill" -> "precheck"

\* A body that does not arrive in time is answered 400.
ReadBody ==
    /\ Running /\ job = "body"
    /\ bodyAt' = now
    /\ \/ /\ now <= ReadTimeout
          /\ job' = First /\ stageAt' = now
          /\ IF First = "nav" THEN Ask ELSE Send
          /\ UNCHANGED <<count, gone, goneAt, outcome, last>>
       \/ /\ job' = "done" /\ outcome' = "delivered" /\ last' = job
          /\ UNCHANGED <<stageAt, count, callVars, gone, goneAt>>
    /\ UNCHANGED <<now, mode, processVars, history>>

\* The agent's run or the distillation is over without a result.  A search
\* falls back under the request's own context; a bug: under the agent's.
LLMFailsInside ==
    IF job = "distill" THEN Enter("publish")
    ELSE IF mode = "auto" /\ ~CtxDone THEN Enter("lookup") ELSE Finish
LLMFails ==
    IF job = "distill" THEN Enter("publish")
    ELSE IF mode = "auto" THEN Enter("lookup") ELSE Finish

-----------------------------------------------------------------------------
(* A model call: rateLimitRetryProvider.Stream.                            *)

\* A tool call, a submit, a park without one; a distillation.
ModelAnswers ==
    /\ Handling /\ call = "model" /\ ~CtxDone
    /\ \/ job = "nav" /\ count < MaxTurns /\ Send /\ Stay(count' = count + 1)
       \/ job = "nav" /\ Finish
       \/ job = "distill" /\ Enter("publish")
    /\ UNCHANGED <<now, mode, processVars, history>>

\* A failure that is no rate limit, or asks for too long a pause; the end of
\* the turns; a rate limit once too often; the end of the context.
ModelFails ==
    /\ Handling /\ call = "model"
    /\ LLMFails
    /\ spent' = (spent \/ (job = "nav" /\ now >= Deadline))
    /\ UNCHANGED <<now, mode, processVars, slow>>

ModelLimited ==
    /\ Handling /\ call = "model" /\ ~CtxDone /\ asked <= MaxRetries
    /\ \E delay \in 0 .. MaxDelay : wake' = now + delay
    /\ call' = "pause"
    /\ UNCHANGED <<now, job, mode, stageAt, count, asked, attempt, sentAt, callerVars, processVars, history>>

PauseEnds ==
    /\ Handling /\ call = "pause" /\ now >= wake /\ ~CtxDone
    /\ call' = "model" /\ asked' = asked + 1 /\ wake' = 0
    /\ UNCHANGED <<now, job, mode, stageAt, count, attempt, sentAt, callerVars, processVars, history>>

PauseCut ==
    /\ Handling /\ call = "pause" /\ CtxDone
    /\ LLMFails
    /\ spent' = (spent \/ (job = "nav" /\ now >= Deadline))
    /\ UNCHANGED <<now, mode, processVars, slow>>

-----------------------------------------------------------------------------
(* A mark request: retryMarkRead.                                          *)

\* What the stage does with a reply, and with a request that failed.
Replied ==
    \/ job = "nav" /\ Stay(Ask) /\ UNCHANGED count
    \/ job = "lookup" /\ MaxRounds > 0 /\ Enter("fetch")
    \/ job = "fetch" /\ count + 1 < MaxRounds /\ Send /\ Stay(count' = count + 1)
    \/ job \in {"lookup", "fetch"} /\ Finish
    \/ job = "precheck" /\ (Enter("distill") \/ Finish)
    \/ job = "publish" /\ (Enter("recheck") \/ Finish)
    \/ job = "recheck" /\ Finish

RequestFailed ==
    \/ job = "nav" /\ Stay(Ask) /\ UNCHANGED count
    \/ job = "fetch" /\ count + 1 < MaxRounds /\ ~gone /\ Send /\ Stay(count' = count + 1)
    \/ job \in {"lookup", "fetch", "precheck", "publish", "recheck"} /\ Finish

Reply ==
    /\ Handling /\ call = "mark" /\ ~gone
    /\ Replied
    /\ slow' = (slow \/ (job = "fetch" /\ job' = "fetch"))
    /\ UNCHANGED <<now, mode, processVars, spent>>

\* A transient error or the attempt's own timeout, and another attempt.
Retry ==
    /\ Handling /\ call = "mark" /\ ~CtxDone /\ attempt < MaxAttempts
    /\ Stay(UNCHANGED <<count, call, asked, wake>>)
    /\ attempt' = attempt + 1 /\ sentAt' = now /\ slow' = (slow \/ job # "nav")
    /\ UNCHANGED <<now, mode, processVars, spent>>

\* A lasting error, the last attempt, the end of the context.
GiveUp ==
    /\ Handling /\ call = "mark"
    /\ RequestFailed
    /\ slow' = (slow \/ job # "nav")
    /\ UNCHANGED <<now, mode, processVars, spent>>

-----------------------------------------------------------------------------
(* The caller, and main after a signal.                                    *)

HangUp ==
    /\ Handling /\ ~gone
    /\ gone' = TRUE /\ goneAt' = now
    /\ UNCHANGED <<now, job, mode, stageAt, count, callVars, bodyAt, outcome, last, processVars, history>>

Signal ==
    /\ process = "serving" /\ job # "done"
    /\ process' = "draining" /\ signalAt' = now
    /\ UNCHANGED <<now, job, mode, stageAt, count, callVars, callerVars, history>>

\* Shutdown waits for the handlers; after its window the process exits with
\* the handler where it is.
Drained ==
    /\ process = "draining" /\ job = "done"
    /\ process' = "exited"
    /\ UNCHANGED <<now, job, mode, stageAt, count, callVars, callerVars, signalAt, history>>
Forced ==
    /\ process = "draining" /\ job # "done" /\ now >= signalAt + ShutdownBudget
    /\ process' = "forced"
    /\ UNCHANGED <<now, job, mode, stageAt, count, callVars, callerVars, signalAt, history>>

Over == (process \in {"exited", "forced"} \/ (process = "serving" /\ job = "done")) /\ UNCHANGED vars

-----------------------------------------------------------------------------
Init ==
    /\ now = 0 /\ job = "body"
    /\ mode \in {"off", "auto", "require", "plain", "distill"}
    /\ bodyAt = 0 /\ stageAt = 0 /\ count = 0
    /\ call = "none" /\ asked = 0 /\ wake = 0 /\ attempt = 0 /\ sentAt = 0
    /\ gone = FALSE /\ outcome = "none" /\ last = "body"
    /\ process = "serving" /\ signalAt = 0
    /\ slow = FALSE /\ spent = FALSE /\ goneAt = 0

Next ==
    \/ Tick \/ ReadBody
    \/ ModelAnswers \/ ModelFails \/ ModelLimited \/ PauseEnds \/ PauseCut
    \/ Reply \/ Retry \/ GiveUp
    \/ HangUp \/ Signal \/ Drained \/ Forced
    \/ Over

Spec == Init /\ [][Next]_vars

-----------------------------------------------------------------------------
\* "Leave headroom under WriteTimeout so a search that exhausts its budget can
\* still fall back and answer" (main.go:77).  If the body came at once, every
\* request of the store's own is answered at its first attempt and one round
\* of fetches is enough, no handler works past the write deadline, whatever
\* the model does with its budgets; and a navigation that used its budget up
\* has the catalog answer in its place.
AnswersInTime ==
    bodyAt = 0 /\ ~slow =>
       /\ job \notin {"body", "done"} => now < SearchBudget
       /\ job = "done" /\ spent /\ mode = "auto" /\ outcome # "nobody" =>
             outcome = "delivered" /\ last \in {"lookup", "fetch"}

\* "Same budget as WriteTimeout so an in-flight Search can finish"
\* (main.go:125): a process that exits over a handler's head cuts off no answer
\* that could still be written, of a search or of an Add, and it exits before
\* compose kills it.
ShutdownSparesAnswers ==
    /\ process = "forced" => gone \/ now >= SearchBudget
    /\ process = "draining" => now < signalAt + StopGrace

\* However often the provider limits the rate and however long it asks to wait
\* (retry.go:41), a navigation and a distillation end within their budgets;
\* and wherever a handler waits when its caller leaves, the proxy or the
\* client, it spends no more time on the answer (server.go:130, server.go:167:
\* every call is under the request's context).
BudgetsHold ==
    /\ Handling => now <= Deadline /\ (gone => now = goneAt)
    /\ asked <= MaxRetries + 1

-----------------------------------------------------------------------------
(* What makes the three inductive: IInv for all constants, OnTime for those *)
(* that leave room (see BudgetsProofs).                                    *)

AtWork == job \notin {"body", "done"}

Typed ==
    /\ now \in Nat /\ bodyAt \in Nat /\ stageAt \in Nat /\ signalAt \in Nat
    /\ asked \in Nat /\ wake \in Nat /\ sentAt \in Nat
    /\ job \in {"body", "nav", "lookup", "fetch", "precheck", "distill", "publish",
                "recheck", "done"}
    /\ mode \in {"off", "auto", "require", "plain", "distill"}
    /\ gone \in BOOLEAN
    /\ process \in {"serving", "draining", "exited", "forced"}

\* The clock against the moments that the handler has noted.
Clock ==
    /\ job = "body" => now <= ReadTimeout /\ bodyAt = 0 /\ ~gone
    /\ bodyAt <= ReadTimeout
    /\ AtWork => /\ now <= Deadline /\ (gone => now = goneAt)
                 /\ stageAt <= now
                 /\ call \in {"model", "mark", "pause"}
    /\ asked <= MaxRetries + 1
    /\ call = "pause" => asked <= MaxRetries

\* The window of the shutdown is over when the process is forced.
Window ==
    /\ process = "draining" => now <= signalAt + ShutdownBudget
    /\ process = "forced" => now >= signalAt + ShutdownBudget

\* The latest moment at which a stage begins, when nothing is slow.
StartsBy ==
    CASE job \in {"nav", "precheck"} -> 0
      [] job = "lookup" -> NavBudget
      [] job = "fetch" -> NavBudget + AttemptTimeout
      [] job = "distill" -> AttemptTimeout
      [] job = "publish" -> AttemptTimeout + DistillBudget
      [] job = "recheck" -> 2 * AttemptTimeout + DistillBudget

\* A store request that has not failed yet is in its first attempt; a
\* navigation that used its budget up has handed over to the catalog.
OnTime ==
    /\ bodyAt = 0 /\ ~slow /\ AtWork =>
          /\ stageAt <= StartsBy
          /\ job \notin {"nav", "distill"} =>
                call = "mark" /\ sentAt = stageAt /\ now <= sentAt + AttemptTimeout
    /\ spent => job \in {"lookup", "fetch", "done"}
    /\ spent /\ job = "done" /\ mode = "auto" => last \in {"lookup", "fetch"}
    /\ bodyAt = 0 /\ ~slow /\ job = "done" /\ spent /\ mode = "auto" =>
          outcome \in {"nobody", "delivered"}

IInv == Typed /\ Clock /\ Window
=============================================================================
