# Memory Leaderboard Adapter: specification and proofs

TLA+ models of the adapter in `src/`: an HTTP service that stores conversations
as documents of a demarkus server (`POST /add`) and finds them again
(`POST /search`), with the scripts that back its data up and purge it. TLC checks
every model on small instances; TLAPS proves the safety properties of all of them
for every value of their constants.

## The system

| Part | Source | State | Operations |
|---|---|---|---|
| Add | `internal/memory/demarkus.go`, `internal/api/server.go` | none of its own: the documents in demarkus | precheck, distill, publish with expected-version 0, reread on conflict; 200, 409, 503 |
| Mark read client | `internal/memory/mark_read.go` | one pooled QUIC connection per host, under a mutex | getConn, removeConn, Close, up to 5 attempts of 10 s |
| Catalog search | `internal/memory/demarkus.go` | slots by rank, a semaphore of 16, a wait group | lookup, concurrent fetches, compaction in place |
| Navigation search | `internal/memory/nav.go` | the run: documents fetched, the submitted ranking | the agent's tools, the end of its run, evidence |
| Path discipline | `internal/memory/nav.go` (`scoped`) | none | accept or refuse a path of the model's |
| Fallback and modes | `internal/memory/fallback.go`, `cmd/adapter/main.go` | the mode, fixed at startup | off, auto (navigation then catalog), require |
| Distiller | `internal/memory/distill.go` | none | one model call, validation of its output |
| LLM wiring | `internal/llmwiring` | none | choice of provider, two rate-limit retries |
| Process | `cmd/adapter/main.go`, `internal/api/server.go` | HTTP server | configuration, authentication, timeouts, shutdown |
| Backup | `scripts/backup.sh` | `.backup.lock`, the running services, archive and checksum | lock, stop, tar, publish, restart, cleanup |
| Retention | `scripts/purge-expired.sh`, `scripts/purge-backups.sh` | documents on disk, archives | delete what is older than N days |
| Secrets | `scripts/bootstrap-secrets.sh`, `scripts/adapter-entrypoint.sh` | secret files | create once, read at start |
| Evaluation client | `cmd/eval` | one run's results | conformance, load, quality: an exit status each |

How they interact: handlers run one goroutine per request. They share nothing in
the adapter but the mark read client's connection, and meet in the documents of
the demarkus server, which decides races by expected-version. The navigation
agent is a model driven by the nib library and calls back into the run it
belongs to, serially. The scripts act on the same data volume from outside and
know each other only by `.backup.lock` and by the state of the services.

What is hard here, and what makes each part correct:

* **Add** must be idempotent across concurrent calls, five attempts a request,
  answers lost after the server acted, publishes served after the caller got
  503, the harness' repetitions and a model call in the middle. 200 must mean
  stored for good, 409 must mean really other messages, and a repetition must
  cost no model call.
* **The pool** may be raced by two dialers, by a remover that comes late and by
  a server that vanishes silently. It must leak no connection, cut none in use,
  and recover by itself.
* **Catalog search** counts goroutines in two ways, compacts an array under the
  eyes of the slots it still has to read, and has to tell "nothing found" from
  "nothing could be read".
* **Navigation** takes calls in any order from a model: what is returned must
  have been read, in the order of the last submit, and each mode must degrade
  exactly as documented.
* **Time** is spent by stages that know nothing of each other: rate-limit pauses
  inside a model call, model calls inside a navigation, attempts inside a
  fetch, all inside the server's write deadline and the shutdown's window.
* **Evaluation** is believed after every deploy: exit 0 must mean what the run
  claims, for any answers the service may give, and a good service must get it.
* **Scripts** can be interrupted anywhere and run twice: services must come
  back, archives and deletions must be whole.

`PROJECT.json` lists every component and every such hazard at its line.

## Modules

| Module | Models | Actions correspond to |
|---|---|---|
| `AddContract` | what `/add` promises | Call, Settle (200 or 409), Fail (503 or no answer), Remember (the write), Abandon, Discard, Forget |
| `MemoryAdd` | `DemarkusStore.Add` from handler to document | `Begin` (handler), `Precheck`, `Distill`, `PublishReply`, `Recheck` (the code's switch on each reply), `Resend`, `GiveUp`, `Cancel` (`retryMarkRead`), and the server: `ServeFetch`, `ServePublish`, `Refuse`, `Deliver`, `Drop` |
| `MemoryAddProofs` | | theorems about `MemoryAdd` |
| `MarkReadPool` | `markReadClient` | `ReadPool`, `CheckConn`, `Dial`, `StoreConn` (`getConn`, cut at its critical sections), `RequestFails`, `RemoveConn`, `Retry`, `GiveUp`, `Close`, and QUIC: `Break`, `Expire` |
| `MarkReadPoolProofs` | | theorems about `MarkReadPool` |
| `CatalogSearch` | `DemarkusStore.Search` | the main goroutine (`Lookup`, `Loop`, `Spawn`, `Wait`, `Compact`, `Return`) and each fetcher (`FetchOK`, `FetchFails`, then its deferred calls `Release` and `Done`) |
| `CatalogSearchProofs` | | theorems about `CatalogSearch` |
| `NavSearch` | `/search` in every mode | `fetch`, `submit`, `submitInvalid` (tools), `NavReturns` (the end of `NavStore.Search` and what `FallbackStore` does with it), `Catalog` |
| `NavSearchProofs` | | theorems about `NavSearch` and `PathScope` |
| `PathScope` | `navRun.scoped` | no behaviour of its own: the raw path grows by a character a step, the operators are the function |
| `Budgets` | the time of one request, from headers to answer | `Tick`, the stages (`ReadBody`, `Enter`), a model call with its rate-limit retries (`ModelAnswers`, `ModelLimited`, `PauseEnds`, `PauseCut`), a mark request's attempts (`Reply`, `Retry`, `GiveUp`), `HangUp`, and `main` after a signal (`Signal`, `Drained`, `Forced`) |
| `BudgetsProofs` | | theorems about `Budgets` |
| `EvalLoad` | the load run of `cmd/eval` | `concurrentPhase`, its main goroutine (`Hand`, `Close`, `Drain`, `EndPhase`) and its workers (`AddOp`, `SearchOp`, `Leave`), `CheckFlags` and `Summary` of `load`; a reply may hold the markers of earlier runs (`Earlier`) |
| `EvalQuality` | the quality run | `LoadFixture` (with `validateFixture`), `AddRecord`, `AfterAdds`, `AskQuery`, `PrintMetrics`; recall, DCG and isolation are operators |
| `EvalConformance` | the conformance run, and the handler's authentication and validation | `Send` (a probe, what the handler does with it, the check after it), `Report` |
| `EvalClient` | what they share: the exit status, `resultErrors` | |
| `Evaluation` | `run` of `cmd/eval/main.go`, which composes the three | `runLoad`, `runQuality`, `runConformance` |
| `EvaluationProofs` | | theorems about `Evaluation`, its load run and its quality run |
| `DataOps` | `backup.sh` and `purge-expired.sh` | the scripts' commands, `Abort` (a failed command or trapped signal), `Kill` (an untrapped one), `Store` (demarkus writes) |
| `DataOpsProofs` | | theorems about `DataOps` |
| `Induction` | | lemmas about folds, loops and sequences that the proofs share |

`MCMemoryAdd`, `MCMarkReadPool`, `MCPathScope` and `MCEvaluation` instantiate their
modules for TLC. The other modules are checked as they stand.

The modules meet at named boundaries rather than in one product: the attempts of
`MemoryAdd` are those of `MarkReadPool`; `Catalog` in `NavSearch` may return
anything `CatalogSearch` can; the paths of `NavSearch` are those `PathScope`
accepts; `Budgets` has the stages of `MemoryAdd`, `NavSearch` and `CatalogSearch`
without their data, and the clock those modules leave out; the store behind the
handler of `EvalConformance` keeps the promise of `AddContract`. The demarkus server, QUIC, the model and its library, the harness,
docker compose and tar are not in `src/`: they are modelled by what the code
relies on, with every failure the code handles, and marked external.

In each module, definitions whose comment begins with "A bug of" are faulty
variants of the definition after them. No specification uses them. Each one
violates the property it stands for when it takes that definition's place, which
shows that the property depends on the code.

### Abstractions

* A message list is a model value: equal values stand for equal source hashes
  (SHA-256 over the marshalled messages). `LegacyBody` and `CurrentBody` map a
  list to the markdown of documents before and since hashes. `LegacyBody` need
  not be injective, as in the code.
* `sanitize` (base32) is injective, so a path is the triple of ids.
* `acked`, `fresh` (`MemoryAdd`) and `before` (`DataOps`) are history variables:
  no guard reads them, save that `OperatorStart` starts the services that ran
  before.
* `faulty` says that the network, the server and the callers may misbehave.
  `Heal` ends that once. Safety is checked without ever assuming it.
* A purge of documents happens with both services stopped, so in `MemoryAdd` it
  waits until no call is open and no write is under way. What happens when the
  scripts do not keep to this is the subject of `DataOps`.
* In `CatalogSearch` and `NavSearch` a record is its rank or its path.
* In `Budgets` only `Tick` takes time, and it may not pass the moment at which what
  the handler waits for returns by itself. Pauses of 100 ms count as nothing,
  except that where a wait and its context end together the context is first. A
  fetch of several hits is a round, as long as its slowest request.
* In `EvalQuality` a text is the set of markers in it, and 1/log2(rank + 1) is any
  strictly decreasing `Gain`. Contents of a fixture hold no markers of their own.
* In `EvalConformance` a store finds every memory of a user and answers the same
  search with the same order, as the catalog does; an agent need not. A service
  that shuffles has another order in every search after its first.
* In `EvalLoad` an earlier run is known by the markers it has left. An honest service
  shows none of them, since a run names its users after itself (`load.go:45`); any
  other may show them.
* `said` (`NavSearch`: the agent has made a valid submit) and `goneAt` (`Budgets`: when
  the caller left) are history variables as well.
* In `DataOps` a signal acts after the command under way, as traps of a shell
  do, and `compose start` is one step.

## Runs

| Run | States | Shows |
|---|---|---|
| `add_safety` | 61,966 (2 callers, symmetric) | `AckDurable`, `ConflictIsReal`, `RetryPaysNoModel`, `PathBindsMessages`, the inductive invariant `IInv` (with `TypeOK` in it), and that `MemoryAdd` implements `AddContract` |
| `add_live` | 150 thousand | every call is answered; repeated calls end in 200 or 409 |
| `pool` | 108,820 | no leak, no cut, every request ends, the pool recovers |
| `search_fanout` | 9,651 | bounded fan-out, no slot is overwritten unread, rank order, no failure looks like an empty result, termination |
| `search_nav` | 15,147 | evidence was read, in a run that did not fail, and is in submitted order; each mode degrades as documented, and an empty answer without the catalog is one the agent's valid submit has chosen |
| `path_scope` | 21,845 paths | nothing accepted leaves the subtree, nothing inside is refused, one name per document, absolute or relative |
| `budgets` | 350,580 | an answer comes before the write deadline whatever the model does with its budget, shutdown cuts off no answer that could be written, rate limits and retries stay within their budgets and end with the caller |
| `ops_safety` | 12,604 | lock, restart and publication under one fault anywhere, with writers; a purge leaves no symlink without its versions |
| `backup_interrupted` | violation | a second signal during cleanup leaves the services stopped |
| `purge_interrupted` | violation | a purge cut between two `rm`s leaves message bodies for good |
| `purge_race` | violation | a backup that finishes restarts the services under a running purge |
| `evaluation` | 669,379 | exit 0 of a load run means every record was shown to its own user, but for what an earlier run's took the place of, of a quality run that its metrics can be read as what they are called and nobody saw another's records, of a conformance run that the service has none of the defects it checks, alone or two together; a service that keeps its word passes; every run ends |

The violations are disagreements between the documentation and the code. They are
described, with their lines, under "findings" in `PROJECT.json`.
`ServicesRestored` passes with one fault and fails with two: one failed command
or one signal is always repaired, a signal during the repair is not.

### Bounds and why they suffice

* `add_*`: two callers and two lists of messages give a winner, a loser and a
  repetition, and the publish of an earlier call may still be under way, so up
  to four publishes compete for the path. Two attempts distinguish first, later
  and last. One path, because no two paths share state. `add_live` turns the distiller off, which is the path with no precheck,
  and gives both lists one legacy body.
* `pool`: two goroutines race for the pool in every order of their critical
  sections. Three connections are one each and one pooled or forgotten. The
  safety properties are proved for any number.
* `search_fanout`: capacity 2 and up to four hits fill the semaphore twice over.
* `search_nav`: three documents and a cut at two; four calls allow two fetches
  and two submits, or a fetch after a submit.
* `path_scope`: the scope `/a/b` takes four of the characters, so seven reach
  `/a/b/..`, `/a/bb/` and `../b/a`.
* `ops_safety`, `backup_*`, `purge_*`: two documents of two parts are enough for one to be
  half read or half deleted. `MaxFaults` bounds failed commands and signals
  together and is 2 where the property is about a second one. `Jobs` says what
  may run together: either script alone in `ops_safety`, both in `purge_race`.
* `budgets`: units of ten seconds, with the code's own constants (the proxy's and
  compose's 125 s are rounded up). One turn of the agent, since a turn more only
  divides the same budget further, and two rounds of fetches, the second of
  which is beyond what `AnswersInTime` promises. The theorems have neither bound.
* `evaluation`: the load configurations of `MCEvaluation` cover a worker that takes
  two operations, more workers than operations, more records of a user than `top_k`
  and as many, a user per add, and refused arguments. One marker of an earlier run,
  of the first user, is a leak to the second and counts as visible to the first:
  a load run may pass whose own records were never shown, although eval/README.md:29
  says it reports whether each was. `PassMeansVisible` excepts it, and without its last disjunct TLC
  finds such a run. The fixtures have room for all relevant records,
  for one of two, or nothing relevant, and each rule of `validateFixture` has one
  that breaks it. A reply has up to `top_k` + 1 items with any markers. The
  conformance run is the real one, against each defect alone and every two
  together, with and without keys; the theorem is about any number of them.

### Fairness

* `MemoryAdd`: weak fairness of each worker's steps, because every request has a
  deadline (`markRequestTimeout`, the caller's context) and a distillation a
  budget, and of `Retry`, because 503 is in the harness' retry set
  (`server.go:134`). Nothing makes `Heal` happen: `Answered` holds with the
  trouble lasting, since attempts are counted, and `Settles` speaks of the time
  after it.
* `MarkReadPool`: weak fairness of each goroutine's steps and of `Expire`
  (QUIC's idle timeout). Again the trouble may last: `RequestEnds` does not need
  its end, and `Recovers` begins after it.
* `CatalogSearch`: weak fairness of the main goroutine and of each fetcher. A
  blocked send or `Wait` is a disabled action, so `Returns` really shows that
  the semaphore and the wait group come back.
* `Evaluation`: weak fairness of the main goroutine and of each worker of a load
  run, and of the steps of the other two, since the client's requests have a
  timeout.
* `NavSearch`, `PathScope`, `Budgets` and `DataOps` state safety only. `Budgets` needs
  no fairness: that a wait ends is a guard of `Tick`.

## Proofs

Each module's theorems rest on its one assumption about its constants:

* `ConstantsAssumption` (`MemoryAdd`): the sets are not empty, bodies and documents
  are well-typed, at least one attempt.
* `PoolAssumption` (`MarkReadPool`): `NoConn` is no connection, at least one attempt.
* `SearchAssumption` (`CatalogSearch`): `MaxHits` is a natural number and `Capacity`
  a positive one.
* `NavAssumption` (`NavSearch`): a path outside the subtree is no document, at least
  one result is asked for.
* `PathAssumption` (`PathScope`): the segments of the scope are not empty (the handler
  refuses an empty user id) and hold no slash and no dot (`pathEncoding` is lower-case
  base32).
* `BudgetAssumption` (`Budgets`): timeouts and budgets are positive numbers of ticks.
  Nothing is assumed of their order: where a theorem needs it, it says so.
* `OpsAssumption` (`DataOps`): a job is made of backups and purges, and no invocation
  is named like a state of the output path.
* `LoadAssumption` (`EvalLoad`): there are as many workers as any run asks for.
* `QualityAssumption` (`EvalQuality`): a fixture has the fields its Go types have,
  the default `top_k` is one a query may ask for, and gains are positive and fall
  from rank to rank.
* `ServicesAssumption` (`EvalConformance`): a service's defects are of `Defects`, the
  list of what the probes look for.

| Theorem | Statement | If |
|---|---|---|
| `TypeCorrect`, `PoolTypeCorrect` | `Spec => []TypeOK` | |
| `AddInvariant`, `PoolInvariant`, `SearchInvariant`, `ClockInvariant` | `Spec => []IInv` | |
| `Durability` | `Spec => []AckDurable` | |
| `NoModelForStored` | `Spec => []RetryPaysNoModel` | |
| `ConflictsAreReal` | `Spec => ConflictIsReal` | |
| `OnePathOneList` | `Spec => []PathBindsMessages` | legacy bodies are distinct |
| `AddImplementsContract` | `Spec => ImplementsContract` | |
| `PoolLeaksNothing`, `NobodyIsCut` | `Spec => []NoLeak`, `Spec => NoSelfCut` | |
| `FanOutBounded`, `SlotsAreSafe`, `EmptyIsHonest`, `NoHitForgotten` | `Spec => []BoundedFanOut`, `[]NoSlotRace`, `[]EmptyMeansNothing`, `[]EveryHitTried` | |
| `RankOrderKept` | `Spec => []RankOrder` | |
| `RequireNeverDegrades`, `AutoAsksTheCatalog` | `Spec => []NoSilentDegradation`, `[]AutoDegradesFully` | |
| `NavInvariant` | `Spec => []NavInv` | |
| `EvidenceIsVouched`, `LastSubmitDecides` | `Spec => []EvidenceVouched`, `[]SubmitDecides` | |
| `NothingOutside`, `OneSpelling`, `NothingInsideRefused` | `PathSpec => []StaysInside`, `[]Canonical`, `[]AcceptsInside` | |
| `BudgetsAreHeld` | `Spec => []BudgetsHold` | |
| `AnswersAreSpared` | `Spec => []ShutdownSparesAnswers` | `SearchBudget < StopGrace` (120 s, 125 s) |
| `AnswersFit` | `Spec => []AnswersInTime` | `Roomy` (90 + 2 * 10 and 3 * 10 + 30 are below 120) |
| `BackupsAreSerialized`, `NothingDangles` | `Spec => []Serialized`, `[]NeverDangling` | |
| `OpsInvariant`, `ArchivesAreConsistent` | `Spec => []IInv`, `[]ArchiveConsistent` | no purge runs with a backup |
| `ServicesComeBack`, `PublicationIsWhole` | `Spec => []ServicesRestored`, `[]PublishedWhole` | the same, and at most one fault |
| `EvaluationInvariant` | `Spec => []EvalInv` | |
| `PassIsVisible`, `HonestIsPassed` | `Spec => []PassMeansVisible`, `[]HonestPasses` | |
| `ScoresMeanTheirNames`, `PassIsIsolated` | `Spec => []ScoresCanBeRead`, `[]PassMeansIsolated` | |
| `KeepingIsPassed` | `Spec => []KeepingPasses` | |
| `ConformanceRunTells` | `Spec => []ConformanceTells` | |

The hypotheses on `DataOps` are needed. With a purge beside the backup TLC finds
an archive with half a document and services that were not running before
(the start of it is `purge_race`), and with two faults services that stay down
(`backup_interrupted`) and an archive without its checksum.

**MemoryAdd.** `AckDurable` is not inductive: a worker may be about to answer 200
on the strength of a reply received earlier. `IInv` adds what each worker has
learnt (`RepliesHold`: a reply not yet acted upon still describes the document;
`SeenIsStored`: what was seen stays until the call ends). The argument has one
idea, `DocsStay`: no step but `Purge` changes a document that is there
(`PublishKeeps`), and `Purge` waits until no call is open. So what is known
stays true (`SeenStays`, `AckStays`), and each action has only to establish the
knowledge of its own worker (`WorkerStep`). The conflict theorem follows from
`CheckIsTrue`: `checkExisting` decides by a document that is still the one
stored. For the contract, a further invariant, `Written` (every document is the
memory of some list), makes an occupied path remember something in the
abstraction. `RefineNext` then maps each action: a publish that finds its path
empty to `Remember`, `checkExisting` to `Settle`, `Resend` to `Abandon` or a
stutter, a purge to `Forget`.

**MarkReadPool.** `NoLeak` needs `Holding`: a connection dialed and not yet stored
is its dialer's alone, so that dropping or replacing the pool's entry loses
nothing, and one about to be removed has ended, so that removing it leaves
nothing open and cuts nobody.

**CatalogSearch.** The semaphore and the wait group are numbers. The invariant says
what they count: `WaitCounts` makes the wait group the size of `Unfinished`, so
that zero, which lets `Wait` return, means that every goroutine has left and not
only that a number says so; `BoundedFanOut` makes the semaphore the size of the
set of its holders. `Slots` ties a slot to what its goroutine did, and `Compaction`
says that the write index stays behind the read index and that no slot ahead has
been touched. Emptiness and completeness are then read off at the return.
For the order, `Written` follows the compaction: what is below the write index is
exactly what was found below the read index, and rising.

**NavSearch.** Each mode has an invariant of its own: `Strict` (the catalog is never
reached, and nothing is answered empty before a valid submit) and `Lenient` (an answer with nothing in it went through the catalog).
For what is answered, `NavInv` adds that no document is fetched or ranked twice,
which the tools keep (`ToolsKeep`), and that an answer of the agent is the evidence
at that moment. What evidence is after a submit comes from its loop:
`VouchedAfter` says, after any number of documents of the ranking, that those taken
were read, in order, and that one left out was not read or found no room.

**PathScope.** `Segments`, `Resolve` and `Spell` are loops over sequences of any
length. Each is first shown to take one step more for one element more
(`SegmentsGrows`, `ResolveGrows`, `SpellGrows`), and with that what it does with
two parts: a path is cut at any slash (`SegmentsSplit`), resolving leaves only
names (`ResolveLeavesNames`), skips what means nothing (`ResolveSkips`) and only
adds where nothing goes up (`ResolveWithoutUp`), and what was spelled from names is
cut into those names again (`SegmentsOfSpelled`). An accepted path is the scope, or
the scope, a slash and more (`AcceptedShape`): cut at that slash, its first segments
are the scope's, and the rest are names.

**Budgets.** `Clock` says that no wait under way is older than its bound, which is
what the guard of `Tick` keeps and every new wait must establish: a retry of the
provider inherits the deadline of the call, not one of its own. Once the caller has
left, no bound but the present moment is possible. `Window` relates
the end of the shutdown to the signal and to the connection's deadline.
`AnswersInTime` needs the sum over the stages, `OnTime`: `StartsBy` bounds the
moment at which each stage can begin, and a stage that begins then ends (`InTime`)
by the moment its successor may begin.

**DataOps.** `Serialized` is inductive with the types alone: the lock is taken where
it is absent and given back by its holder. `Apart` says that no step of a purge
is taken where backups run, and `ReadsStand` that while a backup reads the
services are down, so what `tar` has read still describes the disk. For one fault,
`Restored` and `Whole` say step by step what is to be undone, and that once a fault
has happened no other can disturb the cleanup.

**Evaluation.** `EvalInv` makes the numbers in the channel, those in hand and those
done disjoint and exhaustive (`InHand`, `AddDone`, `SearchDone`), and the tokens of
the drained channel the workers that left (`Gone`), so the main goroutine reads the
results only after the last is written. `Verdicts` then says that a result is what
`Verdict` says of the reply, and `VerdictTells` what a sound verdict says of the
service. `Progress` carries the other direction: under an honest service no
result so far is a failure. For the quality run `EvalInv` has `QualityInv`: the
steps come in their order (`Steps`), what the service holds is what it
acknowledged, and a service that keeps its word has done so up to here
(`Promised`). That nDCG is 1 only for the best order is arithmetic on sums over
sets of ranks: `dcg` is the function `SumsUp` describes (`SumIsDcg`), taken in any
order (`SumTakesAny`); of all sets of a size the first ranks gain most
(`FirstGainMost`), and any other set gains less. For the conformance run,
`ConformanceInv` says what the probes so far have stored (`Left`) and that a probe
that finds something has been counted (`Counted`). `Tells` names the probe for each
defect: it fails there whatever else is wrong with the service (`FaultIsSeen`). Three
of the defects show in a list of memories, which a service that also stores late or
refuses the key does not give: those two are found on the way. `SomeProbeTells` is
that no set of defects is left out.

**Induction.** The provers take no induction theorem, whose hypothesis is an operator,
and do not unfold a recursive definition. Both are avoided by speaking of sets and
functions: `CountingUp` is induction for a set of numbers, from the
well-foundedness of `<` (`WFMin`), and `Growing` the same for a set of sequences.
`FoldExists` shows by it that the equation of a fold has a solution, so that the
fold, which is a `CHOOSE` of one, satisfies it; `LeftFoldRuns` unrolls a fold over
a sequence into the states of a loop, and `LoopGoesOn` compares two loops of which
one has an element more.

Only model-checked: liveness under fairness (`Answered`, `Settles`,
`RequestEnds`, `Recovers`, `Returns`, `RunEnds`), which TLAPS does not support.

## Not modelled

* The texts: prompts, snippets, markdown layout, tags and titles. No property
  depends on them but by the distinctions above.
* The lookup table's parsing and demarkus' ranking.
* Restore: a procedure of the operations guide carried out by hand.
* Request ids across sessions: a path is made of user, session and request id
  (`docPath`), so an id is unique within its session only. README.md:35 can be read
  otherwise; no property is stated about it.
* `purge-backups.sh`, `bootstrap-secrets.sh` and what `validateDistillation` accepts:
  planned below.
* Stdin checks and output of `cmd/eval`, smoke scripts, the rest of the Compose and
  Caddy configuration: no state that interacts with anything above.

## Plan

What is left, in this order:

1. `Retention`: a day counter over purge and backups, for the 30-day promise.
   `BootstrapSecrets`: two bootstraps at once, and one that is interrupted.
2. `DistillCheck`: the validation of the model's output.
3. Composition: `MemoryAdd` over the attempts of `MarkReadPool`, so that the
   bounded attempts of the one are implemented by the other.
