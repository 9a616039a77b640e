----------------------------- MODULE Evaluation -----------------------------
(***************************************************************************)
(* cmd/eval as a program: run dispatches on the mode, and one of the runs  *)
(* of modules EvalLoad, EvalQuality and EvalConformance ends with the exit *)
(* status.  The state of the other two stays as it began.                  *)
(***************************************************************************)
EXTENDS EvalLoad, EvalQuality, EvalConformance

VARIABLE mode  \* "load", "quality", "conformance"

evalVars == <<mode, exit, loadVars, qualityVars, conformanceVars>>

NoFixture == [shape |-> FALSE, records |-> <<>>, queries |-> <<>>]
NoLoad == [adds |-> 0, users |-> 0, searches |-> 0, concurrency |-> 0, topK |-> 1]
NoSetup == [server |-> "none", client |-> "none", strict |-> FALSE, defects |-> {}]

\* A mode that is not asked for does not exist.
LoadIdle ==
    /\ cfg = NoLoad /\ honest = TRUE
    /\ phase = "flags" /\ pc = "hand" /\ next = 0
    /\ worker = [w \in Workers |-> "off"] /\ job = [w \in Workers |-> 0]
    /\ done = 0 /\ drained = 0 /\ stored = {}
    /\ added = <<>> /\ found = <<>> /\ reply = <<>>
QualityIdle ==
    /\ file = NoFixture /\ keeps = TRUE
    /\ place = "load" /\ kept = {} /\ recorded = <<>> /\ answers = <<>>
ConformanceIdle ==
    /\ setup = NoSetup
    /\ probe = 1 /\ memories = <<>> /\ first = <<>> /\ failed = 0 /\ warned = 0

Init ==
    /\ exit = "none"
    /\ \/ mode = "load" /\ LoadInit /\ QualityIdle /\ ConformanceIdle
       \/ mode = "quality" /\ QualityInit /\ LoadIdle /\ ConformanceIdle
       \/ mode = "conformance" /\ ConformanceInit /\ LoadIdle /\ QualityIdle

runLoad == mode = "load" /\ LoadStep /\ UNCHANGED <<mode, qualityVars, conformanceVars>>
runQuality == mode = "quality" /\ QualityStep /\ UNCHANGED <<mode, loadVars, conformanceVars>>
runConformance == mode = "conformance" /\ ConformanceStep /\ UNCHANGED <<mode, loadVars, qualityVars>>

Exited == exit # "none" /\ UNCHANGED evalVars

Next == runLoad \/ runQuality \/ runConformance \/ Exited

\* Every request has a timeout, and nothing else a goroutine waits for is out
\* of the program's hands.
Spec ==
    /\ Init /\ [][Next]_evalVars
    /\ WF_evalVars(mode = "load" /\ Main /\ UNCHANGED <<mode, qualityVars, conformanceVars>>)
    /\ \A w \in Workers : WF_evalVars(mode = "load" /\ Work(w) /\ UNCHANGED <<mode, qualityVars, conformanceVars>>)
    /\ WF_evalVars(runQuality) /\ WF_evalVars(runConformance)

-----------------------------------------------------------------------------
\* Every run comes to an exit status.  Of a load run this says that neither
\* channel blocks a goroutine for ever, also with fewer operations than
\* workers (load.go:118-138).
RunEnds == <>(exit # "none")
=============================================================================
