# A TLA+ model of the geul asset optimizer

The asset optimizer is a queue worker. It takes mesh optimization commands from a
PGMQ queue (PostgreSQL), downloads a GLB from S3, runs gltf-transform or the
particle-mesh script on it, uploads the result, and enqueues a completed or a
failed event. This directory holds a TLA+ model of that service, the TLC
configurations that check it on small instances, and proofs of its main safety
properties for every instance. Paths below are relative to the repository root
(`internal/...`, `cmd/...`).

The question the project asks is the one that unit tests with mocks cannot
answer: what becomes of a command when processes crash, contexts are cancelled,
replies are lost and leases run out between any two calls?

## Inventory

| Component | State it keeps | Operations | Hard behaviour | What makes it correct |
|---|---|---|---|---|
| Consumer, `internal/mq/consumer.go` | one goroutine (`WORKER_COUNT` is 1), `done` channel, parent context | `Start`, `worker` (read, dispatch), `process` (settle), `Close` | `parent.Err()` read before a settling call; settling by transport id only; requeue during shutdown | a command is deleted only with a result, archived only for cause, and settled in the end |
| PGMQ queue (external) | a row per command: visibility, read count | `read`, `delete`, `archive`, `set_vt`, the clock | leases expire under slow workers; a reply is lost after the row changed | visible rows only, no fencing of stale holders |
| Processor, `internal/handler/handler.go`, `pipeline.go`, `events.go` | job context, locals of one call | `HandleMeshJob`, `processJob`, `runPipeline`, `downloadSource`, `optimizeSource`, `publishFail`, `publishProgress` | deferred cleanup; publication under a context that may be over; size checked twice | one result per delivery; a completed event describes what is in the bucket |
| Validation, `internal/handler/validation.go` | none | `newMeshJobSpec`, `validateJob`... | which check stops a job decides whether the producer hears of it; ids are compared as texts, UUIDs have several | the output never replaces its source; no event names another job than that of its command |
| Publisher, `internal/mq/publisher.go` | none | `enqueueResult`, `notify` | the insert may have happened although it returned an error | an error of a result is retried, one of a signal is ignored |
| Work directories, `internal/workdir/workdir.go` | `mesh-*` directories under a temp root | `CreateJobWorkDir`, `CleanupJobWorkDir`, `CleanupStaleWorkDirs` | leftovers of a crash; another process removing a live directory; the path guard | nothing is left once a job is over; what is uploaded is what was hashed |
| Object store, `internal/storage/s3.go` | none (external bucket) | `GetObjectSize`, `Download`, `Upload` (`Delete` is never called) | object replaced between HEAD and GET; PUT with a lost reply | the object a completed event names is the object stored |
| Optimizer, `internal/optimizer/` | none | `Inspect`, `Optimize`, argument building, report parsing | child killed with the context; pipes kept open by a grandchild; parser state kept from section to section | failure is reported as `OPTIMIZATION_FAILED`; counts are those of the report |
| Particle-mesh script, `scripts/optimize-particle-mesh.mjs` | a glTF document | argument parsing, stripping, simplification | agreement with the Go side on arguments | only the particle payload survives |
| Lifecycle, `cmd/asset-optimizer/`, `internal/mq/connection.go` | process, open resources, stack of deferred calls, health server | `run`, `initializeWorkResources`, `startHealthServer`, `waitForShutdown`, `NewConnection`, `Healthy`, `Close` | `Close` waits for the worker while the parent context is alive; a start that fails half way | resources are released in an order the worker survives; every stop comes to an end |
| Configuration, `internal/config`, `internal/jobs` | environment | `Load`, `DefaultMeshQueueConfig` | bounds of values; minutes times a duration overflows | one worker, positive timeout |
| Telemetry, `internal/telemetry`, `internal/mq/telemetry.go` | providers | initialisation with rollback, emission | records emitted on several paths around calls that may fail | one outcome per delivery; nothing is reported that did not happen |
| Lint, `scripts/ci/no-nested-if.go` | depth of each visitor | walk over roots, files and syntax trees | depth handed down by value; errors in the middle of the walk | exactly the nested ifs are reported, nothing unread passes |

The components interact in one chain. `run` removes stale work directories, opens
the database and the bucket and starts the consumer; the consumer's worker calls
the processor under a context derived from the parent context with the job
timeout; the processor calls the store, the optimizer and the publisher under that
context; the error it returns (nil, `TerminalResultError`, `ResultPublishError` or
any other) tells the consumer how to settle the row. Instances share the queue,
the result queue and the bucket, and nothing else.

`PROJECT.json` lists every component with its status and every hazard at its line.

## Modules

* **`Pgmq`** says what each PGMQ call does to one row. PGMQ is not part of the
  repository; the operators follow from how the consumer uses it.
* **`MeshProcessor`** is `internal/handler` with what it touches: one action per
  external call (`GetObjectSize`, `Download`, `InspectSource`, `Optimize`,
  `InspectOutput`, `Upload`, `CleanupJobWorkDir`, `PublishComplete`, `PublishFail`),
  preceded by `HandleMeshJob` (parse, validate, make the directory). `stage[i]` is
  the next call, `call[i]` the handler's locals, `ret[i]` the error returned,
  `ctx[i]` the job context, `dirs[i]` the number of work directories, `store[m]`
  the object at the command's output key, `signal[m]` the last progress signal,
  `results` the result queue.
* **`MeshConsumer`** composes both with `internal/mq/consumer.go` and the lifecycle:
  `at[i]` is the worker's next call, `mode[i]` the process. `WorkerSelect`, `Read`,
  `ReadNothing`, `ReadCancelled` are the loop of `worker`; `Handler` and `Timeout`
  run the handler; `ProcessReturn` with `Settlement` is the decision in `process`;
  `complete`, `retry`, `deadLetter` and `requeue` are the settling calls. `Start`,
  `StartFails`, `Ready`, `HealthListenFails`, `Shutdown` and `Crash` are the process;
  `VisibilityTimeout` and `LeaseOverrun` are PGMQ's clock. The properties are at
  the end of the module.
* **`JobDelivery`** is the promise without mechanism: a command is delivered any
  number of times while it is open, a delivery answers at most once, a command is
  acknowledged only after an answer, and buried only when it is malformed or has
  used its retries. `MeshConsumer` maps row status, read count and result events
  to it (`RefinesJobDelivery`).
* **`MCMeshConsumer`** adds the symmetry set for TLC.
* **`OptimizerArgs`** stands beside them: `internal/optimizer/options.go` builds the
  arguments of the optimizer in Go, `scripts/optimize-particle-mesh.mjs` parses them
  in JavaScript. `ParseStart`, `ParseFlag` (one turn of the loop) and `ParseEnd` are
  the parser. Fractions are counted in thousandths.
* **`JobValidation`** is `internal/handler/validation.go` on the fields it looks at,
  and the job ids of the events that follow, each with the kind of its event.
  `uuid.Parse`, `strings.TrimSpace` and `mediaauth.MediaObjectKey` are external functions.
* **`CommandIntake`** composes the two as `newMeshJobSpec` and `CLI.Optimize` do: a
  command is validated, then its options are, then arguments are built and parsed.
  A behaviour begins with a command, or with an argument list given to the script by
  hand.
* **`DeliveryTelemetry`** extends `MeshConsumer` with the records of
  `internal/mq/telemetry.go` and of the handler: every step that emits is conjoined
  with its emission (`emitRead`, `emitReturn`, `emitComplete`, ...), all other steps
  leave `records` alone. A settling call whose reply is lost has settled the row and
  is reported as failed, as the code can only go by the error.
  Whether a call that finds no row any more is reported as failed is left open, for it is
  PGMQ's client that decides.
* **`ServiceLifecycle`** is one process from its environment to its exit code. `pc`
  is the next statement of `run`, `defers` the stack of its deferred calls, `open`
  what has been opened and not closed; each step of the start is an action with its
  failure (`LoadConfig`, `InitTraces`, `InitLogs`, `InitializeWorkResources`,
  `NewConnection`, `NewConsumer`, `StartConsumer`, `StartHealthServer`,
  `NotifySignals`), each deferred call too. Beside `run` go the worker's goroutine,
  a health request, an error of the server, signals, and death and restart.
* **`ConsumerHost`** is what `MeshConsumer` takes for granted of that process: its
  modes, and the worker's loop as far as it depends on them. `ServiceLifecycle`
  maps `pc`, `cancelled`, `done` and the goroutine to it (`RefinesConsumerHost`), so
  `Start`, `Ready`, `HealthListenFails` and `Shutdown` of `MeshConsumer` stand for
  what `run` does.
* **`WorkDirs`** is `internal/workdir` with the file operations of the pipeline, for
  several processes on one temp root: `ReadDir` and `RemoveStale` are the cleanup at
  start, where `RemoveAll` is one step per file and one for the empty directory;
  `Download` creates missing parents. A download or an optimization that fails may have
  written its file, and what it wrote counts as the run's own. Paths are sequences of
  components, an empty one standing for a doubled or a final separator; `clean` is
  `filepath.Clean`, `guard` the prefix test on texts, and `NewManager` refuses a blank root.
* **`InspectReport`** is `internal/optimizer/inspect.go`, fed one line at a time;
  `Inspection` is what `ParseInspectCSV` returns if the report ends there, nothing
  counted when it has met an error. Its properties compare that with a definition of the
  report's meaning that looks back over the lines and keeps no state.
* **`NestedIf`** is `scripts/ci/no-nested-if.go`: files and syntax nodes are chosen as
  the lint meets them, `ifDepth` is the depth each visitor carries. Each node has the set
  of nodes it is inside of, so what is nested is said without walking the tree.
* **`MCServiceLifecycle`**, **`MCWorkDirs`**, **`MCCommandIntake`**,
  **`MCInspectReport`** and **`MCDeliveryTelemetry`** give them their values.
* **`MeshConsumerProofs`**, **`MeshPipelineProofs`**, **`DeliveryTelemetryProofs`** (each
  extending the one before), **`ServiceLifecycleProofs`**, **`CommandIntakeProofs`**,
  **`WorkDirsProofs`**, **`InspectReportProofs`** and **`NestedIfProofs`** hold the theorems
  and their proofs; see Proofs.

Definitions whose comment begins with "Mutation" (`DownloadUnchecked`,
`SettlementOffByOne`, ...) are plausible bugs. They are used by no specification;
`PROJECT.json` says which property fails when one of them takes the place of the
definition it follows.

### What is abstracted

* In `MeshProcessor` a command is one of four kinds, by the check that stops it:
  `contract` (the envelope), `identity` (payload or job id), `rejected` (validation),
  `valid`. `JobValidation` says which fields make which of the last three.
* A file is a model value, told apart by its hash; a size is a small number; a HEAD
  without a length counts as 0, as in the code.
* Failures of S3, of the optimizer and of making a directory may happen at any
  call, without a bound. A PUT may fail after it wrote. Faults that change the
  course of a delivery are counted against `MaxFaults`: `crash`, `shutdown`,
  `listen` (health port), `boot` (start fails), `deadline` (job timeout),
  `database` (an error, or a lost reply), `encoding` (a failed event that does not
  marshal), `disk` (removal of a work directory fails), `overrun` (lease expires
  under its holder).
* A cancellation that lands in the middle of a database call is a lost reply
  (`database`) followed by the cancellation.
* The delay of a retry is "later": the row stays hidden until `VisibilityTimeout`.
* `delivery` in a result event is a history variable; the event does not carry it.
* In `MeshConsumer` each instance has a temp root of its own, and a directory is
  counted, not named; `WorkDirs` has the names, the files and the shared root.
  `compose/asset-optimizer.yml` starts one container; two instances are what a rolling
  replacement or a second host makes of it.
* A work directory in `WorkDirs` is named by the run of the pipeline that made it:
  `os.MkdirTemp` makes names unique, whatever `sanitize` leaves of the job id.
* The completed event and the 100 percent signal after it are one action
  (`PublishComplete`). The signal may get lost in it, so a crash between the two leaves
  what a crash right after a lost signal leaves.
* `JobValidation` assumes of `MediaObjectKey` that different texts have different
  keys. Source and output are told apart by the text of their ids only
  (`validation.go:83`), so that the output never replaces the source rests on this, also
  when the two ids are spellings of one UUID, which the run has.
* An envelope is built for any job id. `eventpkg.NewEnvelope`, which might look at it, is
  not in the repository (see Findings on ids that trimming changes).
* In `ServiceLifecycle` a minute is 3 ticks and a duration overflows at 8: the widths
  are parameters, and small ones let a duration wrap to a negative and to a positive
  value. The settings come from `MCMinutes`.
* `ConsumerIsSane` holds what `NewConsumer` checks: one worker and a timeout above 0. A
  number of minutes that wraps around to a small positive duration passes, in the code as
  in the model; jobs then run into their deadline, which is `deadline` of `MeshConsumer`.
* In `InspectReport` counts are integers without a width: a total that overflows an
  `int64` is not modelled.
* In `InspectReport` a list of extensions is kept as a set: the code only asks whether
  Draco is in it.
* `sort.Slice` in `NestedIf` is any permutation that leaves no two violations the wrong
  way round.
* The retry delay's shift (`consumer.go:117`) is reached with read counts up to the
  retry limit only, far from its width.

## Runs

The first five runs and `telemetry` are about the service on its queue. In them
`RetryLimit = 1` makes the first delivery retryable and the second one the last, so
every branch of `Settlement` is met within two deliveries; `MaxInputBytes = 1` with
sizes 1 and 2 gives both sides of the limit; two contents tell one optimization from
the next where a property compares them.

| Run | Instance | Checks | Shows |
|---|---|---|---|
| `one_instance` | 1 instance, 1 command, 3 faults, `FairSpec` | `TypeOK`, `AckedOnlyWithResult`, `DeadLetterJustified`, `ProgressAfterResult`, `WorkDirsReclaimed`, `EventuallySettled`, `ShutdownCompletes` | any three of crash, shutdown, failed start, failed listener, deadline, database and encoding errors, in any order, on a command of any kind; every command is settled, every stop ends |
| `two_instances` | 2 instances, 1 command, 2 faults, no overrun | `ExclusiveDelivery`, `ResultMatchesStore`, `SettledOutputFrozen` | while leases hold, workers exclude each other and bucket and event agree |
| `stale_holders` | 2 instances, 1 command, 2 faults with overrun | `OneResultPerDelivery`, `CompletedIsAccepted`, `RefinesJobDelivery` | a worker that lost its lease and goes on does no harm to the promise |
| `job_timeout` | 1 instance, 1 command, 2 deadlines | `RetryableUntilResult` (violated) | see Findings |
| `redelivered_result` | 1 instance, 1 command, 1 database fault | `StableResult` (violated) | see Findings |
| `telemetry` | 1 instance, 1 command, 2 faults of any kind but disk | `OneOutcomePerDelivery`, `JobRecordsMatchResults`, `HandoffTruthful`, `EveryDeliveryReported` | the records tell one true story of each delivery |
| `lifecycle` | 1 process; worker counts 0..2, five timeouts, `FairSpec` | `LifecycleTypeOK`, `DatabaseOutlivesWorker`, `ReleasedOnExit`, `FailureReported`, `ServingWhileWaiting`, `ConsumerIsSane`, `RefinesConsumerHost`, `StopCompletes` | every step of the start failing, signals, server errors and requests at any point; a process with a reason to stop exits |
| `shared_root` | 2 processes, 3 jobs, 2 crashes or failed removals; five roots: `/tmp/ao`, `./tmp/`, `x/../tmp`, `..` and a blank one | `WorkDirsTypeOK`, `UploadedIsHashed`, `StaleReclaimed`, `RefusedOnlyOutside` | the start of one process under the jobs of the other loses no more than the job |
| `bare_root` | 1 process, 1 job, roots `.`, `./`, `/` and `//` | `RefusedOnlyOutside` (violated) | see Findings |
| `command_intake` | all commands over eight texts, four of them one UUID and two of these with an object key, with two kinds of options; ratios -1..101 and all profiles with two commands; argument lists of up to 4 words after the paths, with `-h`, `--help` and the numbers -0.5, 0, 0.5, 1 and 1.001 | `ArgsTypeOK`, `OutputNeverSource`, `EventsNameTheJob`, `AcceptedIsRunnable`, `RequestHonoured`, `LoosenedOnlyBelowTen`, `AcceptedIsConsistent` | no accepted command overwrites its source, Go and JavaScript agree on every one, no event names another job |
| `inspect_report` | reports of up to 5 lines out of 14 | `CountsMatchReport`, `DracoReported` | parser and meaning agree, also on reports no tool prints, and nothing is returned of one that cannot be read |
| `nested_if` | 2 files, 5 syntax nodes in all | `NestedIfsReported`, `PassMeansFlat` | the lint finds exactly what it is for |

Three faults cover the longest scenarios of interest: a fault of the first
delivery, one of the restart and one of the second delivery. The fault bound is a
guard inside `Fault`, so behaviours end in fault-free operation and never in a
deadlock; deadlock is checked in every run of the service on its queue and of the
lifecycle. `command_intake`, `inspect_report` and `nested_if` come to an end and do not
check it, nor do `shared_root` and `bare_root`, where the bound on jobs is met and a
blank root keeps every process down. Runs with `FairSpec` use no symmetry. Several
commands do not meet in one run of the service: they share nothing but the worker,
and the theorems hold for any number of them.

The arguments cover every valid ratio, and four words are two flags, enough for each
pair of flags in each order. Three jobs in `shared_root` are one that is abandoned by
a crash, one that runs and one that starts beside it. Five lines are a heading, a
header row, a row and the heading and row of a second section, the shortest report in
which a header can leak. Five syntax nodes are a function, an if, an else-if or a
function literal in it, and an if inside. The lifecycle has no bound but its settings:
a process that has exited is started again with others.

`ExclusiveDelivery`, `ResultMatchesStore` and `SettledOutputFrozen` are stated for
instances without `overrun`, because with it they do not hold: the code does not
fence a worker that has lost its lease. The lease is the job timeout plus one
minute (`internal/mq/consumer.go:65`), and what runs after the job context is over
(directory removal, one failing publication, one settling call) normally fits in
that minute; `LeaseOverrun` is the case in which it does not.

### Fairness

`FairSpec` assumes weak fairness of each worker's steps, of `Start`, of `Ready` and
of `VisibilityTimeout`. Every call of a worker ends: the job context bounds the
handler's calls, the requeue has five seconds of its own, and the settling calls
are single statements. `restart: unless-stopped` in `compose/asset-optimizer.yml`
justifies `Start`; PostgreSQL's clock justifies `VisibilityTimeout`. Faults have no
fairness. Nothing is assumed about which alternative of a step is taken: S3 and
the optimizer may fail for ever, and the command is settled all the same.

`FairSpec` of `ServiceLifecycle` assumes weak fairness of the steps of `run` (its
statements and its deferred calls) and of the worker's steps, which are goroutines
with calls that end. A health request is not assumed to end: `Shutdown` of the HTTP
server gives up after 30 seconds (`main.go:109`). Signals, server errors, deaths and
restarts have no fairness.

## Findings

* **A job that times out is archived without a result** (`job_timeout`).
  `publishFail` enqueues the failure under the job context
  (`internal/handler/events.go:109`); after the deadline that context is over and
  the enqueue always fails. The command is retried, times out again, and is
  archived after the retry limit, without an event. The comment on
  `ResultPublishError` (`internal/handler/handler.go:48`) says that the command
  stays retryable until its result has been enqueued. A failed event that cannot be
  encoded (the optimizer's standard error as a protobuf string that is not UTF-8,
  `internal/mq/publisher.go:45`) ends the same way: the run is violated as well with
  `FaultKinds = {"encoding"}`.
* **A terminal result is not stable across deliveries** (`redelivered_result`).
  When the reply of the completed event is lost, the command is delivered again,
  and the second delivery may fail and publish a failed event next to the completed
  one. Within one delivery this cannot happen (`OneResultPerDelivery`, proved).
* **The guard of the removal refuses the job's own directory when the temp root is
  `.` or `/`** (`bare_root`). `CleanupJobWorkDir` compares the cleaned path with the
  cleaned root and a separator (`internal/workdir/workdir.go:37`): `mesh-x` does not
  begin with `./`, nor `/mesh-x` with `//`. Its error says the path is outside the
  root; directories stay until the next start.

Beside these, where nothing in the repository says otherwise and so no run is needed:

* **The completed event may carry an id that is no UUID.** `uuid.Parse` drops the first
  and the last byte of a text of 38 without looking at them, so `validateJobID` accepts a
  UUID with a space on one side and a brace, say, on the other (`validation.go:93`).
  Progress and failed events carry that text as it is. The completed event and the
  envelope it is enqueued in carry the trimmed one (`validation.go:35`, `events.go:60`,
  `publisher.go:34`), 37 bytes that `uuid.Parse` refuses. `EventsNameTheJob` therefore
  claims of the completed event only that it does not name another job; the text is among
  those of `command_intake`.

## Proofs

The theorems hold for every value of the constants: all sets of instances, commands,
contents, sizes and fault kinds, every retry limit and number of faults, any number of
processes and runs on a temp root, any settings and any width of a duration, any ids
and spellings of ids, temp roots with any components, reports of any length and syntax
trees of any size. 37 of the 40 properties the passing runs check are theorems, all of the
safety ones among them.

| Module | Theorem | Statement |
|---|---|---|
| `MeshConsumerProofs` | `TypeCorrect` | `Spec => []TypeOK` |
| | `AckedOnlyWithResultCorrect` | `Spec => []AckedOnlyWithResult` |
| | `DeadLetterJustifiedCorrect` | `Spec => []DeadLetterJustified` |
| | `OneResultPerDeliveryCorrect` | `Spec => []OneResultPerDelivery` |
| | `Refinement` | `Spec => RefinesJobDelivery` |
| `MeshPipelineProofs` | `CompletedIsAcceptedCorrect` | `Spec => []CompletedIsAccepted` |
| | `ProgressAfterResultCorrect` | `Spec => []ProgressAfterResult` |
| | `WorkDirsReclaimedCorrect` | `Spec => []WorkDirsReclaimed` |
| | `ExclusiveDeliveryCorrect` | `Spec => []ExclusiveDelivery` |
| | `ResultMatchesStoreCorrect` | `Spec => []ResultMatchesStore` |
| | `SettledOutputFrozenCorrect` | `Spec => SettledOutputFrozen` |
| `DeliveryTelemetryProofs` | `OneOutcomePerDeliveryCorrect` | `TelemetrySpec => []OneOutcomePerDelivery` |
| | `JobRecordsMatchResultsCorrect` | `TelemetrySpec => []JobRecordsMatchResults` |
| | `EveryDeliveryReportedCorrect` | `TelemetrySpec => EveryDeliveryReported` |
| | `HandoffTruthfulCorrect` | `Undisturbed /\ TelemetrySpec => []HandoffTruthful` |
| `ServiceLifecycleProofs` | `LifecycleTypeCorrect` | `Spec => []LifecycleTypeOK` |
| | `DatabaseOutlivesWorkerCorrect` | `Spec => []DatabaseOutlivesWorker` |
| | `ReleasedOnExitCorrect` | `Spec => []ReleasedOnExit` |
| | `FailureReportedCorrect` | `Spec => []FailureReported` |
| | `ServingWhileWaitingCorrect` | `Spec => []ServingWhileWaiting` |
| | `ConsumerIsSaneCorrect` | `Spec => []ConsumerIsSane` |
| | `HostRefinement` | `Spec => RefinesConsumerHost` |
| `CommandIntakeProofs` | `ArgsTypeCorrect` | `Spec => []ArgsTypeOK` |
| | `OutputNeverSourceCorrect` | `Spec => []OutputNeverSource` |
| | `EventsNameTheJobCorrect` | `Spec => []EventsNameTheJob` |
| | `AcceptedIsRunnableCorrect` | `Spec => []AcceptedIsRunnable` |
| | `RequestHonouredCorrect` | `Spec => []RequestHonoured` |
| | `LoosenedOnlyBelowTenCorrect` | `Spec => []LoosenedOnlyBelowTen` |
| | `AcceptedIsConsistentCorrect` | `Spec => []AcceptedIsConsistent` |
| `WorkDirsProofs` | `WorkDirsTypeCorrect` | `Spec => []WorkDirsTypeOK` |
| | `UploadedIsHashedCorrect` | `Spec => []UploadedIsHashed` |
| | `StaleReclaimedCorrect` | `Spec => []StaleReclaimed` |
| | `RefusedOnlyOutsideCorrect` | `NoBareRoot /\ Spec => []RefusedOnlyOutside` |
| `InspectReportProofs` | `DracoReportedCorrect` | `Spec => []DracoReported` |
| | `CountsMatchReportCorrect` | `Spec => []CountsMatchReport` |
| `NestedIfProofs` | `NestedIfsReportedCorrect` | `Spec => []NestedIfsReported` |
| | `PassMeansFlatCorrect` | `Spec => []PassMeansFlat` |

The assumptions are the `ASSUME`s of the modules, which every run evaluates on its own
values:

* `MeshProcessor`, `MeshConsumer`: `None` is no command and no content; sizes, limits
  and bounds are naturals;
* `ServiceLifecycle`: settings are integers, a minute and the range of a duration are
  positive;
* `JobValidation`: different texts have different object keys; an id that parses is not
  blank once it is trimmed, and if it still parses then, it is the same UUID; a blank text
  is no id;
* `OptimizerArgs`, `CommandIntake`, `WorkDirs`, `NestedIf`: bounds are naturals, numbers
  written by hand are integers (of thousandths, -1 standing for what is no number), the
  commands considered are commands, the temp roots are paths of texts;
* `InspectReport`: the headings are the ones the parser knows, a CSV line has a field,
  an empty text is no number.

### A command on its queue

No invariant of `MeshConsumer` is inductive alone. `IInv` adds what the code keeps in
its control state:

* `Control`: the handler is active exactly while the worker is in `handle`, a
  holder has a command, a work directory exists from its creation to its removal
  (without it `dirs[i] - 1` is not known to be a natural);
* `DeliveryInv`: deliveries in hand and in events are between 1 and the row's read
  count, and two holders of one command have different deliveries. This is what
  replaces mutual exclusion: a stale holder is told apart by its read count;
* `AnswerInv`: a handler that has not returned has no event for its delivery, so
  adding one keeps events unique per delivery; a handler that returned nil or a
  terminal error, and a worker about to delete, have an event for their command;
* `VerdictInv`: a plain error comes from a malformed command only, and a worker about
  to archive has a malformed command or a delivery beyond the retry limit;
* `SettleInv`: the two properties of settled rows themselves.

What a worker knows when it settles survives any step of any other worker, since
events are never removed and read counts never fall. That is why a settling call
without fencing is harmless to these properties.

The argument first reduces the handler's actions to three effects (`HandlerEffect`)
and the four settling calls to one (`SettlingEffect`), then treats one kind of step
per lemma (`UnheldStep`, `ReadStep`, `HandlerInvStep`, `ProcessReturnStep`,
`FinalSettleStep`). The refinement maps `Read` to a delivery, an enqueue to an
answer, `complete` and `deadLetter` to acknowledgement and burial, everything else
to a stutter.

`PInv` (`MeshPipelineProofs`) says how far a handler has got: which checks a pipeline
that was not given up has passed at each stage (`Accepted`), and that it has one work
directory from its creation to its removal (`OneWorkDir`). A completed event is made
from these locals alone, so it inherits what they have passed.

`LeaseInv` (`MeshPipelineProofs` too) is about instances without `overrun`: the worker in
whose hands a command is has its latest delivery, and the row is queued and hidden
until that worker settles it (`Leased`); the bucket has the output of a pipeline that
went through (`StoreInv`). Exclusion follows, since two holders with the latest
delivery would have the same one, and `DeliveryInv` tells holders apart. Only the
holder writes to the bucket, and a command that is settled has no holder: this is
`SettledOutputFrozen`.

`DeliveryTelemetryProofs` first shows that every step with its records is a step of
`MeshConsumer`, so that all of the above holds. `StoryInv` is what a worker may still
say: nothing has been said of its delivery's outcome before the settling call of a
completion or a requeue, and the failure has been said before a retry or a burial.
`HandoffTruthful` needs `Undisturbed` (no overrun, or one instance, as in the run):
otherwise a late worker archives a row another one has deleted.

### The process

`LInv` (`ServiceLifecycleProofs`) ties the statement `run` is at to the stack of
deferred calls it has built (`StackInv`: there are only seven stacks, each the tail of
the next), the stack to what is open (`OpenInv`), and both to the worker's goroutine
(`WorkerInv`): it runs only while `closeConsumer` is on the stack, above
`closeConnection`. So the database is closed after the worker has returned, and what
was opened has its closing call pending, on every early return. The refinement maps
each statement of `run` and each deferred call to a step of `ConsumerHost` or to a
stutter.

### A command's fields and arguments

`IntakeInv` (`CommandIntakeProofs`) follows the values across their boundaries:
`VerdictInv` ties the outcome of the checks to the fields they looked at, `CommandInv`
follows the arguments of an accepted command word by word through the script's parser
(`HasRead`: the position in the list decides what has been read), `ParserInv` does the
same for lists written by hand. The agreement of Go and JavaScript is thus proved for
every percentage, and not only for those TLC enumerates.

### Directories

`DirsInv` (`WorkDirsProofs`): a run works in the directory named after it, a file lies
in a directory that exists and was written by the run of that directory, so two runs
never meet in one file; and while a process removes what it has listed, a directory
nobody works in is on its list or was abandoned after the list was made
(`ReclaimInv`). Nothing in this argument depends on the guard of the removal.

The guard has an argument of its own. `RefusedInv`: a directory is refused only when
nothing is left of the cleaned root. `filepath.Clean` is a fold over the components;
`CleanAppend` shows that cleaning a path with one more ordinary name cleans what is before
it and keeps the name, and `TextGrows` that the text of the longer path then begins with
the text of the shorter one and a separator, which is what `strings.HasPrefix` asks for.
The texts `/` and `.` of a bare root do not grow that way, hence the hypothesis
`NoBareRoot`: no temp root that `NewManager` takes cleans to the root of the file system or
to the working directory. The roots of `shared_root`, with dots, a final separator and
relative ones among them, satisfy it; those of `bare_root` do not, and there the property
fails.

### Reports

`ReportInv` (`InspectReportProofs`): what the parser keeps between two lines is the
heading and the header row the next line is under (`Tracks`), where the report's
meaning is defined by looking back over all lines. Up to the first line that is no CSV
the parser's counts are those of the report (`RowsTracked`, `ColumnsTracked`); what is
returned follows from them and from whether there was such a line. The maximum of a set of positions,
which that definition uses, is characterised once (`MaxOfBounded`).

`ColumnsInv` compares each running total with the sum of its column. The sum over a set
of rows is a fold that takes the rows in an order of its own; `SumsAnyOrder` shows that
the order does not matter, so `SumOneMore` can add the last row of a longer report
to the sum of the shorter one, while `CellStays` keeps the earlier cells what they
were.

### Induction over data

The library's induction theorems take a predicate as a parameter, which the provers at
hand do not instantiate. Where a fold is reasoned about (`SumsAnyOrder`,
`CleanedExists`, `CleanedAgree`), the predicate is written as a set of numbers, and
`Induction` is proved for sets from the existence of a least element
(`WFMin` of `WellFoundedInduction`). What the fold's recursive function is, it is because
such a function exists (`SumsExist`, `CleanedExists`) and any two agree (`SumsAgree`,
`CleanedAgree`).

### The lint

`LintInv` (`NestedIfProofs`): the visitor of a node has a depth above 0 exactly when the
node is inside an if of its function (`DepthInv`), and the violations are as many as the
nested ifs and name just those (`FoundInv`). The depth comes from the parent's visitor
alone, so `InIfBelow` works out from the parent whether a node is inside an if: never
at the top of a function, always in the parts of an if but for an else-if, like the
parent elsewhere. It needs to know that a tree's nodes are numbered in the order of the
visits (`WellPlaced`), and that earlier nodes and trees do not change
(`InIfKept`). An error leaves something unread, which `ReadWhole` sees.

### Only model-checked

`EventuallySettled`, `ShutdownCompletes` and `StopCompletes`: liveness under fairness is
outside the prover's reach. `HandoffTruthful` and `RefusedOnlyOutside` are theorems under
the hypotheses `Undisturbed` and `NoBareRoot`, without which they do not hold.

## Not modelled

* The stripping and simplification in `scripts/optimize-particle-mesh.mjs`: a straight
  sequence of calls into glTF libraries; what it leaves of a file is decided by their
  documents, which are not in the repository.
* `cmd/asset-optimizer/service_dependencies.go`: a table of the functions `run` calls,
  replaced by tests; the model has the calls.
* Fields of envelopes, headers and events that no property is about, the wording of
  records, the log handlers and the correlation ids of telemetry.
* Construction of the S3 client, and `Delete`, which nothing calls.
* Plain strings of the configuration.
* The CI scripts that check YAML and compose files.

## Plan

Done: all modules above, and the proofs of every safety property of the passing runs.
Left: that `CommandIntake` decides the kinds of command `MeshProcessor` starts from, as a
refinement; today the two meet in the definition of a command's kind only.
