-------------------------- MODULE ServiceLifecycle --------------------------
(***************************************************************************)
(* cmd/asset-optimizer: one service process from execute to its exit code, *)
(* and its restart by the supervisor.  run opens one resource after the    *)
(* other and registers a deferred call for each; whichever step fails, the *)
(* deferred calls run in reverse order.  Beside it run the goroutine of    *)
(* the consumer's worker, the health server and its requests, and signals. *)
(*                                                                         *)
(* MeshConsumer sees of all this only when a worker starts, when its       *)
(* context is cancelled and when it is told to stop.                       *)
(***************************************************************************)
EXTENDS Integers, Sequences

CONSTANTS
    WorkerCounts,   \* values of WORKER_COUNT
    Minutes,        \* values of JOB_TIMEOUT_MINUTES
    Minute,         \* time.Minute, in ticks of time.Duration
    Overflow        \* the first number of ticks that is negative: 2^63

ASSUME LifecycleAssumption ==
    /\ WorkerCounts \subseteq Int /\ Minutes \subseteq Int
    /\ Minute \in Nat \ {0} /\ Overflow \in Nat \ {0}

VARIABLES
    cfg,       \* the environment of the process
    pc,        \* the next statement of run
    defers,    \* the deferred calls, the next one first
    open,      \* what is open: traces, logs, db, server, signals
    runErr,    \* whether run returns an error
    reason,    \* why waitForShutdown came back
    cancelled, \* cancel() has been called on the worker's context
    done,      \* Close has closed the consumer's done channel
    worker,    \* the worker's goroutine
    request,   \* whether a health request is being answered
    sigChan,   \* whether a signal is waiting in the channel
    serveErr,  \* whether an error of the server is waiting
    telemetry, \* whether the exporters were ever installed
    records,   \* the service records emitted, and whether they were exported
    exit       \* exit code of the process

asyncVars == <<worker, request, sigChan, serveErr>>
lifeVars == <<cfg, pc, defers, open, runErr, reason, cancelled, done, telemetry, records, exit, asyncVars>>

Configs == [workers : WorkerCounts, minutes : Minutes]

\* config.Load: what the environment must satisfy.
Load(c) == c.workers = 1 /\ c.minutes > 0

\* time.Duration(minutes) * time.Minute wraps around.
JobTimeout(c) == ((c.minutes * Minute + Overflow) % (2 * Overflow)) - Overflow

Exporters == {"traces", "logs"}
-----------------------------------------------------------------------------
\* run goes on at s, with d deferred.
Continue(s) == pc' = s /\ UNCHANGED <<defers, runErr>>
ContinueDeferring(s, d) == pc' = s /\ defers' = d \o defers /\ UNCHANGED runErr

\* run returns: the deferred calls follow.
Return(err) == pc' = "return" /\ runErr' = err /\ UNCHANGED defers

Opens(resource) == open' = open \cup {resource}

\* A service record goes to stdout, and to the exporter while there is one.
Emit(kind) == records' = records \cup {[kind |-> kind, exported |-> "logs" \in open]}

\* loadConfig; an error is reported without telemetry and without deferred calls.
LoadConfig ==
    /\ pc = "load"
    /\ \/ Load(cfg) /\ Continue("telemetry") /\ UNCHANGED records
       \/ ~Load(cfg) /\ Return(TRUE) /\ Emit("failed")
    /\ UNCHANGED <<cfg, open, reason, cancelled, done, telemetry, exit, asyncVars>>

\* Mutation: the exporters are shut down before the failure is reported.
loggingDefersSwapped == <<"shutdownLogging", "emitServiceFailed">>

\* What setupLogging leaves behind in run: the shutdown of the exporters, called
\* last, and before it the report of a failure.
loggingDefers == <<"emitServiceFailed", "shutdownLogging">>

\* initTelemetry up to the trace provider; without it the service runs on.
InitTraces ==
    /\ pc = "telemetry"
    /\ \/ Opens("traces") /\ Continue("logExporter") /\ UNCHANGED records
       \/ Emit("degraded") /\ ContinueDeferring("resources", loggingDefers) /\ UNCHANGED open
    /\ UNCHANGED <<cfg, reason, cancelled, done, telemetry, exit, asyncVars>>

\* Mutation: the trace provider is forgotten when there is no log exporter.
InitLogsWithoutRollback ==
    /\ pc = "logExporter"
    /\ Emit("degraded")
    /\ ContinueDeferring("resources", loggingDefers)
    /\ UNCHANGED <<cfg, open, reason, cancelled, done, telemetry, exit, asyncVars>>

\* The rest of initTelemetry: the log exporter, or the trace provider is shut down.
InitLogs ==
    /\ pc = "logExporter"
    /\ \/ Opens("logs") /\ telemetry' = TRUE /\ UNCHANGED records
       \/ open' = open \ {"traces"} /\ Emit("degraded") /\ UNCHANGED telemetry
    /\ ContinueDeferring("resources", loggingDefers)
    /\ UNCHANGED <<cfg, reason, cancelled, done, exit, asyncVars>>

\* initializeWorkResources: temp root, stale directories, S3 client.
InitializeWorkResources ==
    /\ pc = "resources"
    /\ ContinueDeferring("connect", <<"cancel">>) \/ Return(TRUE)
    /\ UNCHANGED <<cfg, open, reason, cancelled, done, telemetry, records, exit, asyncVars>>

\* NewConnection: open and ping; a database that does not answer is closed again.
NewConnection ==
    /\ pc = "connect"
    /\ \/ Opens("db") /\ ContinueDeferring("consumer", <<"closeConnection">>)
       \/ Return(TRUE) /\ UNCHANGED open
    /\ UNCHANGED <<cfg, reason, cancelled, done, telemetry, records, exit, asyncVars>>

\* Mutation: NewConsumer does not look at the timeout.
ConsumerAccepts(c) == TRUE

\* NewConsumer's check of its configuration, as far as run can get it wrong.
ValidConsumerConfig(c) == c.workers > 0 /\ JobTimeout(c) > 0

\* Mutation: the connection's close is deferred after the consumer's.
NewConsumerDefersFirst ==
    /\ pc = "consumer"
    /\ ValidConsumerConfig(cfg)
    /\ pc' = "start" /\ defers' = <<Head(defers), "closeConsumer">> \o Tail(defers)
    /\ UNCHANGED <<cfg, open, runErr, reason, cancelled, done, telemetry, records, exit, asyncVars>>

\* Mutation: the consumer's close is forgotten.
NewConsumerNotClosed ==
    /\ pc = "consumer"
    /\ ValidConsumerConfig(cfg) /\ Continue("start")
    /\ UNCHANGED <<cfg, open, reason, cancelled, done, telemetry, records, exit, asyncVars>>

\* NewPublisher, NewProcessor and NewConsumer on the open connection.  The
\* publisher's Close does nothing.
NewConsumer ==
    /\ pc = "consumer"
    /\ \/ ValidConsumerConfig(cfg) /\ ContinueDeferring("start", <<"closeConsumer">>)
       \/ ~ValidConsumerConfig(cfg) /\ Return(TRUE)
    /\ UNCHANGED <<cfg, open, reason, cancelled, done, telemetry, records, exit, asyncVars>>

\* Consumer.Start: the readiness query, then the worker's goroutine.
StartConsumer ==
    /\ pc = "start"
    /\ \/ worker' = "idle" /\ Continue("listen")
       \/ Return(TRUE) /\ UNCHANGED worker
    /\ UNCHANGED <<cfg, open, reason, cancelled, done, telemetry, records, exit, request, sigChan, serveErr>>

\* startHealthServer.
StartHealthServer ==
    /\ pc = "listen"
    /\ \/ Opens("server") /\ Continue("notify")
       \/ Return(TRUE) /\ UNCHANGED open
    /\ UNCHANGED <<cfg, reason, cancelled, done, telemetry, records, exit, asyncVars>>

\* The service is reported ready and signals are handled from here on.
NotifySignals ==
    /\ pc = "notify"
    /\ Emit("ready")
    /\ Opens("signals")
    /\ ContinueDeferring("wait", <<"stopSignals">>)
    /\ UNCHANGED <<cfg, reason, cancelled, done, telemetry, exit, asyncVars>>

\* waitForShutdown: when both are there, select takes either.  The context of a
\* production process has no other way to end.
WaitForShutdown ==
    /\ pc = "wait"
    /\ \/ sigChan /\ sigChan' = FALSE /\ reason' = "signal" /\ UNCHANGED serveErr
       \/ serveErr /\ serveErr' = FALSE /\ reason' = "http_server" /\ UNCHANGED sigChan
    /\ Continue("stop")
    /\ UNCHANGED <<cfg, open, cancelled, done, telemetry, records, exit, worker, request>>

\* Mutation: the worker's context is left to the deferred cancel, which comes after
\* the wait for the worker.
StopWithoutCancel ==
    /\ pc = "stop"
    /\ Emit("stopping")
    /\ Continue("shutdown")
    /\ UNCHANGED <<cfg, open, reason, cancelled, done, telemetry, exit, asyncVars>>

\* The shutdown is announced and the worker's context cancelled.
Stop ==
    /\ pc = "stop"
    /\ Emit("stopping")
    /\ cancelled' = TRUE
    /\ Continue("shutdown")
    /\ UNCHANGED <<cfg, open, reason, done, telemetry, exit, asyncVars>>

\* Shutdown closes the listener and waits for requests, at most 30 seconds.
ShutdownServer ==
    /\ pc = "shutdown"
    /\ open' = open \ {"server"}
    /\ \/ ~request /\ Return(reason = "http_server")
       \/ request /\ Return(TRUE)
    /\ UNCHANGED <<cfg, reason, cancelled, done, telemetry, records, exit, asyncVars>>

RunStep ==
    \/ LoadConfig \/ InitTraces \/ InitLogs \/ InitializeWorkResources \/ NewConnection
    \/ NewConsumer \/ StartConsumer \/ StartHealthServer \/ NotifySignals
    \/ WaitForShutdown \/ Stop \/ ShutdownServer
-----------------------------------------------------------------------------
\* The next deferred call is d.
Deferred(d) == pc = "return" /\ defers # <<>> /\ Head(defers) = d

Pop == defers' = Tail(defers) /\ UNCHANGED <<cfg, pc, runErr, reason, telemetry, exit, asyncVars>>

StopSignals ==
    /\ Deferred("stopSignals") /\ Pop
    /\ open' = open \ {"signals"}
    /\ UNCHANGED <<cancelled, done, records>>

\* Consumer.Close: tell the worker, then wait for it.
CloseDone ==
    /\ Deferred("closeConsumer") /\ ~done
    /\ done' = TRUE
    /\ UNCHANGED <<cfg, pc, defers, open, runErr, reason, cancelled, telemetry, records, exit, asyncVars>>

AwaitWorker ==
    /\ Deferred("closeConsumer") /\ done /\ worker \in {"none", "returned"} /\ Pop
    /\ UNCHANGED <<open, cancelled, done, records>>

CloseConnection ==
    /\ Deferred("closeConnection") /\ Pop
    /\ open' = open \ {"db"}
    /\ UNCHANGED <<cancelled, done, records>>

Cancel ==
    /\ Deferred("cancel") /\ Pop
    /\ cancelled' = TRUE
    /\ UNCHANGED <<open, done, records>>

EmitServiceFailed ==
    /\ Deferred("emitServiceFailed") /\ Pop
    /\ \/ runErr /\ Emit("failed")
       \/ ~runErr /\ UNCHANGED records
    /\ UNCHANGED <<open, cancelled, done>>

\* Both providers are shut down, within 5 seconds; an error is only reported.
\* Without telemetry there is nothing to do.
ShutdownLogging ==
    /\ Deferred("shutdownLogging") /\ Pop
    /\ open' = IF telemetry THEN open \ Exporters ELSE open
    /\ \/ UNCHANGED records
       \/ telemetry /\ records' = records \cup {[kind |-> "degraded", exported |-> FALSE]}
    /\ UNCHANGED <<cancelled, done>>

\* execute turns the error into the exit code.
Exit ==
    /\ pc = "return" /\ defers = <<>>
    /\ pc' = "exited"
    /\ exit' = IF runErr THEN "1" ELSE "0"
    /\ UNCHANGED <<cfg, defers, open, runErr, reason, cancelled, done, telemetry, records, asyncVars>>

DeferStep ==
    \/ StopSignals \/ CloseDone \/ AwaitWorker \/ CloseConnection \/ Cancel
    \/ EmitServiceFailed \/ ShutdownLogging \/ Exit
-----------------------------------------------------------------------------
runUnchanged == <<cfg, pc, defers, open, runErr, reason, cancelled, done, telemetry, records, exit>>

\* Mutation: the worker watches its context only.
WorkerSelectIgnoresDone ==
    /\ worker = "idle"
    /\ worker' = IF cancelled THEN "returned" ELSE "reading"

\* Mutation: the worker gives up on an error of the database.
WorkerReadGivesUp == worker = "reading" /\ worker' = "returned"

\* The select of the worker's loop, then one read and the handling of a message.
WorkerSelect ==
    /\ worker = "idle"
    /\ worker' = IF cancelled \/ done THEN "returned" ELSE "reading"

\* The read brings a message, nothing or an error, or it is cancelled.
WorkerRead ==
    /\ worker = "reading"
    /\ \/ ~cancelled /\ worker' \in {"busy", "idle"}
       \/ cancelled /\ worker' = "returned"

WorkerProcess == worker = "busy" /\ worker' = "idle"

WorkerStep ==
    /\ WorkerSelect \/ WorkerRead \/ WorkerProcess
    /\ pc # "exited"
    /\ UNCHANGED <<runUnchanged, request, sigChan, serveErr>>

\* A health request arrives while the listener is open and is answered later,
\* possibly after run has given up waiting for it.
HealthRequest ==
    /\ "server" \in open /\ ~serveErr /\ ~request
    /\ request' = TRUE
    /\ UNCHANGED <<runUnchanged, worker, sigChan, serveErr>>

HealthAnswer ==
    /\ request /\ pc # "exited"
    /\ request' = FALSE
    /\ UNCHANGED <<runUnchanged, worker, sigChan, serveErr>>

\* The server's goroutine ends with an error.
ServeFails ==
    /\ "server" \in open /\ ~serveErr /\ reason # "http_server"
    /\ serveErr' = TRUE
    /\ UNCHANGED <<runUnchanged, worker, request, sigChan>>

\* SIGINT or SIGTERM while signals are handled: one waits, more are dropped.
Signal ==
    /\ "signals" \in open
    /\ sigChan' = TRUE
    /\ UNCHANGED <<runUnchanged, worker, request, serveErr>>

\* The process dies: by a crash, or by a signal before signals are handled or
\* after stopSignals, which comes before the wait for the worker.
Killed ==
    /\ pc # "exited"
    /\ pc' = "exited" /\ exit' = "killed"
    /\ open' = {} /\ worker' = "none" /\ request' = FALSE
    /\ UNCHANGED <<cfg, defers, runErr, reason, cancelled, done, telemetry, records, sigChan, serveErr>>

Init ==
    /\ cfg \in Configs
    /\ pc = "load" /\ defers = <<>> /\ open = {} /\ runErr = FALSE /\ reason = "none"
    /\ cancelled = FALSE /\ done = FALSE /\ worker = "none" /\ request = FALSE
    /\ sigChan = FALSE /\ serveErr = FALSE /\ telemetry = FALSE /\ records = {}
    /\ exit = "none"

\* restart: unless-stopped.
Restart ==
    /\ pc = "exited"
    /\ cfg' \in Configs
    /\ pc' = "load" /\ defers' = <<>> /\ open' = {} /\ runErr' = FALSE /\ reason' = "none"
    /\ cancelled' = FALSE /\ done' = FALSE /\ worker' = "none" /\ request' = FALSE
    /\ sigChan' = FALSE /\ serveErr' = FALSE /\ telemetry' = FALSE /\ records' = {}
    /\ exit' = "none"

Next ==
    \/ RunStep \/ DeferStep \/ WorkerStep
    \/ HealthRequest \/ HealthAnswer \/ ServeFails \/ Signal \/ Killed \/ Restart

\* run and the worker go on whenever they can; nothing forces a request to end, a
\* signal, a crash or a restart.
Fairness == WF_lifeVars(RunStep \/ DeferStep) /\ WF_lifeVars(WorkerStep)

Spec == Init /\ [][Next]_lifeVars

FairSpec == Spec /\ Fairness
-----------------------------------------------------------------------------
Running == {"idle", "reading", "busy"}

\* Types, and the agreement of run's stack with what is running: as long as the
\* worker's goroutine lives, run still has to wait for it (Consumer.Close).
LifecycleTypeOK ==
    /\ cfg \in Configs
    /\ open \subseteq {"traces", "logs", "db", "server", "signals"}
    /\ worker \in Running \cup {"none", "returned"}
    /\ (exit = "none") = (pc # "exited")
    /\ worker \in Running => \E k \in DOMAIN defers : defers[k] = "closeConsumer"

\* The database is closed only when the worker has returned: its reads and the
\* settling of the job in hand, the requeue at a shutdown included, find it open.
DatabaseOutlivesWorker == worker \in Running => "db" \in open

\* However far run got, an exit of its own leaves nothing open: no exporter of a
\* half initialised telemetry, no database, no listener.
ReleasedOnExit == exit \in {"0", "1"} => open = {}

\* The process exits with 1 exactly when it reported its failure, and it reported
\* it while the log exporter was still there if there ever was one; it exits with
\* 0 only after a signal.
FailureReported ==
    LET failed == {r \in records : r.kind = "failed"}
    IN  /\ exit = "1" => failed = {[kind |-> "failed", exported |-> telemetry]}
        /\ exit = "0" => failed = {} /\ reason = "signal"

\* While run waits for a reason to stop, the worker is serving the queue: no
\* error of the database ends it behind the back of a healthy looking process.
ServingWhileWaiting == pc = "wait" => worker \in Running

\* A worker runs only alone and with a job timeout that is not over before the job
\* begins, although the multiplication in run may overflow.
ConsumerIsSane == worker \in Running => cfg.workers = 1 /\ JobTimeout(cfg) > 0

\* The process as MeshConsumer sees it.
hostMode ==
    IF worker \notin Running THEN "down"
    ELSE IF cancelled THEN "cancelled"
    ELSE IF done THEN "draining"
    ELSE IF pc \in {"wait", "stop"} THEN "running"
    ELSE "starting"

hostAt ==
    CASE worker \notin Running -> "stopped"
      [] worker = "idle" -> "poll"
      [] worker = "reading" -> "read"
      [] worker = "busy" -> "handle"

Host == INSTANCE ConsumerHost WITH mode <- hostMode, at <- hostAt

\* run hosts the worker the way MeshConsumer assumes: the parent context is
\* cancelled before the wait for a worker that serves, a worker told to stop does
\* not read again, and no other worker starts before it is gone.
RefinesConsumerHost == Host!Spec

\* A process that has a reason to stop, or whose start failed, comes to its exit:
\* neither the worker nor a health request that never ends holds it up.
StopCompletes ==
    (pc = "wait" /\ (sigChan \/ serveErr)) \/ pc \in {"stop", "shutdown", "return"} ~> pc = "exited"
=============================================================================
