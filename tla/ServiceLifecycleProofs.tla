----------------------- MODULE ServiceLifecycleProofs -----------------------
(***************************************************************************)
(* Proofs about ServiceLifecycle, for any values of WORKER_COUNT and       *)
(* JOB_TIMEOUT_MINUTES and any width of time.Duration.                     *)
(***************************************************************************)
EXTENDS ServiceLifecycle, TLAPS

\* The stack of deferred calls run can have, from the empty one to the one of a
\* process that is up.  Each is the tail of the next.
Stack0 == <<>>
Stack1 == <<"shutdownLogging">>
Stack2 == <<"emitServiceFailed", "shutdownLogging">>
Stack3 == <<"cancel", "emitServiceFailed", "shutdownLogging">>
Stack4 == <<"closeConnection", "cancel", "emitServiceFailed", "shutdownLogging">>
Stack5 == <<"closeConsumer", "closeConnection", "cancel", "emitServiceFailed",
            "shutdownLogging">>
Stack6 == <<"stopSignals", "closeConsumer", "closeConnection", "cancel",
            "emitServiceFailed", "shutdownLogging">>

Stacks == {Stack0, Stack1, Stack2, Stack3, Stack4, Stack5, Stack6}

\* The statements of run before the log exporters are set up, those with the worker
\* started, and those after a reason to stop was found.
EarlyPcs == {"load", "telemetry", "logExporter"}
ServingPcs == {"listen", "notify", "wait", "stop"}
Pcs == EarlyPcs \cup {"resources", "connect", "consumer", "start"} \cup ServingPcs
         \cup {"shutdown", "return", "exited"}

Resources == {"traces", "logs", "db", "server", "signals"}

TypeInv ==
    /\ cfg \in Configs
    /\ pc \in Pcs
    /\ defers \in Stacks
    /\ open \in SUBSET Resources
    /\ runErr \in BOOLEAN /\ cancelled \in BOOLEAN /\ done \in BOOLEAN /\ telemetry \in BOOLEAN
    /\ reason \in {"none", "signal", "http_server"}
    /\ worker \in Running \cup {"none", "returned"}
    /\ exit \in {"none", "0", "1", "killed"}
    /\ exit = "none" <=> pc # "exited"

\* The stack run has built when it comes to a statement.
StackInv ==
    /\ pc \in EarlyPcs => defers = Stack0
    /\ pc = "resources" => defers = Stack2
    /\ pc = "connect" => defers = Stack3
    /\ pc = "consumer" => defers = Stack4
    /\ pc \in {"start", "listen", "notify"} => defers = Stack5
    /\ pc \in {"wait", "stop", "shutdown"} => defers = Stack6

\* What is open is what the rest of the stack will close; the listener is closed by
\* run itself, and the exporters are open only together once telemetry is set up.
OpenInv ==
    pc # "exited" =>
        /\ "db" \in open <=> defers \in {Stack4, Stack5, Stack6}
        /\ "signals" \in open => defers = Stack6
        /\ "server" \in open => pc \in {"notify", "wait", "stop", "shutdown"}
        /\ "traces" \in open => telemetry \/ pc = "logExporter"
        /\ pc \in EarlyPcs => ~telemetry /\ "logs" \notin open
        /\ defers # Stack0 => ("logs" \in open <=> telemetry)
        /\ pc = "return" /\ defers = Stack0 => open \cap Exporters = {}

\* The worker's goroutine lives only while its Close is on the stack, and it serves
\* until it is cancelled or told to stop.
WorkerInv ==
    /\ worker \in Running =>
          /\ defers \in {Stack5, Stack6}
          /\ pc \in ServingPcs \cup {"shutdown", "return"}
          /\ Load(cfg) /\ ValidConsumerConfig(cfg)
    /\ pc \notin ServingPcs \cup {"shutdown", "return", "exited"} => worker = "none"
    /\ pc \notin {"shutdown", "return", "exited"} => ~cancelled /\ ~done
    /\ pc \in ServingPcs => worker \in Running
    /\ pc \in {"telemetry", "logExporter", "resources", "connect", "consumer", "start"} => Load(cfg)
    /\ pc = "start" => ValidConsumerConfig(cfg)
    /\ pc # "exited" /\ defers = Stack6 /\ pc \in {"shutdown", "return"} => cancelled
    /\ pc = "shutdown" => ~done
    /\ pc = "return" /\ defers = Stack6 => ~done

failedRecords == {r \in records : r.kind = "failed"}

\* The failure is reported once, between the return of run and the shutdown of the
\* exporters.
ReportInv ==
    /\ pc \notin {"return", "exited"} => ~runErr /\ failedRecords = {}
    /\ pc \in {"stop", "shutdown"} => reason # "none"
    /\ pc = "return" /\ ~runErr => reason = "signal"
    /\ pc = "return" =>
          failedRecords = IF runErr /\ defers \in {Stack0, Stack1}
                          THEN {[kind |-> "failed", exported |-> telemetry]} ELSE {}

LInv ==
    /\ TypeInv /\ StackInv /\ OpenInv /\ WorkerInv /\ ReportInv
    /\ ReleasedOnExit /\ FailureReported
-----------------------------------------------------------------------------
\* A deferred call pops one stack to the one below.
LEMMA StackPop ==
    /\ Stack0 = <<>>
    /\ Stack1 # <<>> /\ Head(Stack1) = "shutdownLogging" /\ Tail(Stack1) = Stack0
    /\ Stack2 # <<>> /\ Head(Stack2) = "emitServiceFailed" /\ Tail(Stack2) = Stack1
    /\ Stack3 # <<>> /\ Head(Stack3) = "cancel" /\ Tail(Stack3) = Stack2
    /\ Stack4 # <<>> /\ Head(Stack4) = "closeConnection" /\ Tail(Stack4) = Stack3
    /\ Stack5 # <<>> /\ Head(Stack5) = "closeConsumer" /\ Tail(Stack5) = Stack4
    /\ Stack6 # <<>> /\ Head(Stack6) = "stopSignals" /\ Tail(Stack6) = Stack5
BY DEF Stack0, Stack1, Stack2, Stack3, Stack4, Stack5, Stack6

LEMMA HeadAndTail ==
    ASSUME NEW S, NEW s \in Seq(S), s # <<>>
    PROVE  <<Head(s)>> \o Tail(s) = s
OBVIOUS

\* A defer statement pushes one stack to the one above.
LEMMA StackPush ==
    /\ loggingDefers \o Stack0 = Stack2
    /\ <<"cancel">> \o Stack2 = Stack3
    /\ <<"closeConnection">> \o Stack3 = Stack4
    /\ <<"closeConsumer">> \o Stack4 = Stack5
    /\ <<"stopSignals">> \o Stack5 = Stack6
PROOF
<1> DEFINE Calls == {"shutdownLogging", "emitServiceFailed", "cancel", "closeConnection",
                     "closeConsumer", "stopSignals"}
<1>1. loggingDefers \o Stack0 = Stack2
  BY DEF loggingDefers, Stack0, Stack2
<1>2. Stack3 \in Seq(Calls)
  BY DEF Stack3
<1>3. Stack4 \in Seq(Calls)
  BY DEF Stack4
<1>4. Stack5 \in Seq(Calls)
  BY DEF Stack5
<1>5. Stack6 \in Seq(Calls)
  BY DEF Stack6
<1> QED
  BY <1>1, <1>2, <1>3, <1>4, <1>5, StackPop, HeadAndTail

\* What a record adds to the reports of a failure.
LEMMA EmitEffect ==
    ASSUME NEW kind, Emit(kind)
    PROVE  failedRecords' = IF kind = "failed"
                            THEN failedRecords \cup {[kind |-> "failed", exported |-> "logs" \in open]}
                            ELSE failedRecords
BY DEF Emit, failedRecords

LEMMA NoEmit == records' = records => failedRecords' = failedRecords
BY DEF failedRecords

\* The properties of an exit hold as long as there is none.
LEMMA NotExited == exit' = "none" => ReleasedOnExit' /\ FailureReported'
BY DEF ReleasedOnExit, FailureReported
-----------------------------------------------------------------------------
LEMMA LInvInit == Init => LInv
PROOF
<1> SUFFICES ASSUME Init PROVE LInv
  OBVIOUS
<1>1. TypeInv
  BY StackPop DEF Init, TypeInv, Pcs, EarlyPcs, Stacks
<1>2. StackInv
  BY StackPop DEF Init, StackInv, EarlyPcs
<1>3. OpenInv
  BY StackPop DEF Init, OpenInv, EarlyPcs, Exporters
<1>4. WorkerInv
  BY DEF Init, WorkerInv, Running, ServingPcs
<1>5. ReportInv
  BY DEF Init, ReportInv, failedRecords
<1>6. ReleasedOnExit /\ FailureReported
  BY DEF Init, ReleasedOnExit, FailureReported
<1> QED
  BY <1>1, <1>2, <1>3, <1>4, <1>5, <1>6 DEF LInv

LEMMA RunStepInv == ASSUME LInv, RunStep PROVE LInv'
PROOF
<1> USE StackPop, StackPush
    DEF Continue, ContinueDeferring, Return, Opens, Pcs, EarlyPcs, ServingPcs, Stacks, Running
<1>a. TypeInv /\ StackInv /\ OpenInv /\ WorkerInv /\ ReportInv
  BY DEF LInv
<1>1. CASE LoadConfig
  <2>1. TypeInv'
    BY <1>a, <1>1 DEF LoadConfig, TypeInv, StackInv, asyncVars, Resources
  <2>2. StackInv'
    BY <1>a, <1>1 DEF LoadConfig, TypeInv, StackInv
  <2>3. OpenInv'
    BY <1>a, <1>1 DEF LoadConfig, TypeInv, StackInv, OpenInv, Exporters
  <2>4. WorkerInv'
    BY <1>a, <1>1 DEF LoadConfig, TypeInv, StackInv, WorkerInv, asyncVars
  <2>5. ReportInv'
    BY <1>a, <1>1, EmitEffect, NoEmit DEF LoadConfig, TypeInv, StackInv, ReportInv, OpenInv
  <2>6. exit' = "none"
    BY <1>a, <1>1 DEF LoadConfig, TypeInv
  <2> QED
    BY <2>1, <2>2, <2>3, <2>4, <2>5, <2>6, NotExited DEF LInv
<1>2. CASE InitTraces
  <2>1. TypeInv'
    BY <1>a, <1>2 DEF InitTraces, TypeInv, StackInv, asyncVars, Resources
  <2>2. StackInv'
    BY <1>a, <1>2 DEF InitTraces, TypeInv, StackInv
  <2>3. OpenInv'
    BY <1>a, <1>2 DEF InitTraces, TypeInv, StackInv, OpenInv, Exporters
  <2>4. WorkerInv'
    BY <1>a, <1>2 DEF InitTraces, TypeInv, StackInv, WorkerInv, asyncVars
  <2>5. ReportInv'
    BY <1>a, <1>2, EmitEffect, NoEmit DEF InitTraces, TypeInv, StackInv, ReportInv, OpenInv
  <2>6. exit' = "none"
    BY <1>a, <1>2 DEF InitTraces, TypeInv
  <2> QED
    BY <2>1, <2>2, <2>3, <2>4, <2>5, <2>6, NotExited DEF LInv
<1>3. CASE InitLogs
  <2>1. TypeInv'
    BY <1>a, <1>3 DEF InitLogs, TypeInv, StackInv, asyncVars, Resources
  <2>2. StackInv'
    BY <1>a, <1>3 DEF InitLogs, TypeInv, StackInv
  <2>3. OpenInv'
    <3>1. /\ pc' = "resources" /\ defers' = Stack2
          /\ ~telemetry /\ open \cap {"logs", "db", "signals", "server"} = {}
      BY <1>a, <1>3 DEF InitLogs, StackInv, OpenInv
    <3>2. CASE Opens("logs") /\ telemetry' = TRUE
      BY <3>1, <3>2 DEF OpenInv
    <3>3. CASE open' = open \ {"traces"} /\ UNCHANGED telemetry
      BY <3>1, <3>3 DEF OpenInv
    <3> QED
      BY <1>3, <3>2, <3>3 DEF InitLogs
  <2>4. WorkerInv'
    BY <1>a, <1>3 DEF InitLogs, TypeInv, StackInv, WorkerInv, asyncVars
  <2>5. ReportInv'
    BY <1>a, <1>3, EmitEffect, NoEmit DEF InitLogs, TypeInv, StackInv, ReportInv, OpenInv
  <2>6. exit' = "none"
    BY <1>a, <1>3 DEF InitLogs, TypeInv
  <2> QED
    BY <2>1, <2>2, <2>3, <2>4, <2>5, <2>6, NotExited DEF LInv
<1>4. CASE InitializeWorkResources
  <2>1. TypeInv'
    BY <1>a, <1>4 DEF InitializeWorkResources, TypeInv, StackInv, asyncVars, Resources
  <2>2. StackInv'
    BY <1>a, <1>4 DEF InitializeWorkResources, TypeInv, StackInv
  <2>3. OpenInv'
    BY <1>a, <1>4 DEF InitializeWorkResources, TypeInv, StackInv, OpenInv, Exporters
  <2>4. WorkerInv'
    BY <1>a, <1>4 DEF InitializeWorkResources, TypeInv, StackInv, WorkerInv, asyncVars
  <2>5. ReportInv'
    BY <1>a, <1>4, EmitEffect, NoEmit DEF InitializeWorkResources, TypeInv, StackInv, ReportInv, OpenInv
  <2>6. exit' = "none"
    BY <1>a, <1>4 DEF InitializeWorkResources, TypeInv
  <2> QED
    BY <2>1, <2>2, <2>3, <2>4, <2>5, <2>6, NotExited DEF LInv
<1>5. CASE NewConnection
  <2>1. TypeInv'
    BY <1>a, <1>5 DEF NewConnection, TypeInv, StackInv, asyncVars, Resources
  <2>2. StackInv'
    BY <1>a, <1>5 DEF NewConnection, TypeInv, StackInv
  <2>3. OpenInv'
    <3>1. /\ pc = "connect" /\ defers = Stack3 /\ "db" \notin open /\ "server" \notin open
          /\ "signals" \notin open /\ ("traces" \in open => telemetry)
          /\ ("logs" \in open <=> telemetry) /\ telemetry' = telemetry
      BY <1>a, <1>5 DEF NewConnection, StackInv, OpenInv
    <3>2. CASE Opens("db") /\ ContinueDeferring("consumer", <<"closeConnection">>)
      BY <3>1, <3>2 DEF OpenInv
    <3>3. CASE Return(TRUE) /\ UNCHANGED open
      BY <3>1, <3>3 DEF OpenInv
    <3> QED
      BY <1>5, <3>2, <3>3 DEF NewConnection
  <2>4. WorkerInv'
    BY <1>a, <1>5 DEF NewConnection, TypeInv, StackInv, WorkerInv, asyncVars
  <2>5. ReportInv'
    BY <1>a, <1>5, EmitEffect, NoEmit DEF NewConnection, TypeInv, StackInv, ReportInv, OpenInv
  <2>6. exit' = "none"
    BY <1>a, <1>5 DEF NewConnection, TypeInv
  <2> QED
    BY <2>1, <2>2, <2>3, <2>4, <2>5, <2>6, NotExited DEF LInv
<1>6. CASE NewConsumer
  <2>1. TypeInv'
    BY <1>a, <1>6 DEF NewConsumer, TypeInv, StackInv, asyncVars, Resources
  <2>2. StackInv'
    BY <1>a, <1>6 DEF NewConsumer, TypeInv, StackInv
  <2>3. OpenInv'
    BY <1>a, <1>6 DEF NewConsumer, TypeInv, StackInv, OpenInv, Exporters
  <2>4. WorkerInv'
    BY <1>a, <1>6 DEF NewConsumer, TypeInv, StackInv, WorkerInv, asyncVars
  <2>5. ReportInv'
    BY <1>a, <1>6, EmitEffect, NoEmit DEF NewConsumer, TypeInv, StackInv, ReportInv, OpenInv
  <2>6. exit' = "none"
    BY <1>a, <1>6 DEF NewConsumer, TypeInv
  <2> QED
    BY <2>1, <2>2, <2>3, <2>4, <2>5, <2>6, NotExited DEF LInv
<1>7. CASE StartConsumer
  <2>1. TypeInv'
    BY <1>a, <1>7 DEF StartConsumer, TypeInv, StackInv, asyncVars, Resources
  <2>2. StackInv'
    BY <1>a, <1>7 DEF StartConsumer, TypeInv, StackInv
  <2>3. OpenInv'
    BY <1>a, <1>7 DEF StartConsumer, TypeInv, StackInv, OpenInv, Exporters
  <2>4. WorkerInv'
    BY <1>a, <1>7 DEF StartConsumer, TypeInv, StackInv, WorkerInv, asyncVars
  <2>5. ReportInv'
    BY <1>a, <1>7, EmitEffect, NoEmit DEF StartConsumer, TypeInv, StackInv, ReportInv, OpenInv
  <2>6. exit' = "none"
    BY <1>a, <1>7 DEF StartConsumer, TypeInv
  <2> QED
    BY <2>1, <2>2, <2>3, <2>4, <2>5, <2>6, NotExited DEF LInv
<1>8. CASE StartHealthServer
  <2>1. TypeInv'
    BY <1>a, <1>8 DEF StartHealthServer, TypeInv, StackInv, asyncVars, Resources
  <2>2. StackInv'
    BY <1>a, <1>8 DEF StartHealthServer, TypeInv, StackInv
  <2>3. OpenInv'
    BY <1>a, <1>8 DEF StartHealthServer, TypeInv, StackInv, OpenInv, Exporters
  <2>4. WorkerInv'
    BY <1>a, <1>8 DEF StartHealthServer, TypeInv, StackInv, WorkerInv, asyncVars
  <2>5. ReportInv'
    BY <1>a, <1>8, EmitEffect, NoEmit DEF StartHealthServer, TypeInv, StackInv, ReportInv, OpenInv
  <2>6. exit' = "none"
    BY <1>a, <1>8 DEF StartHealthServer, TypeInv
  <2> QED
    BY <2>1, <2>2, <2>3, <2>4, <2>5, <2>6, NotExited DEF LInv
<1>9. CASE NotifySignals
  <2>1. TypeInv'
    BY <1>a, <1>9 DEF NotifySignals, TypeInv, StackInv, asyncVars, Resources
  <2>2. StackInv'
    BY <1>a, <1>9 DEF NotifySignals, TypeInv, StackInv
  <2>3. OpenInv'
    BY <1>a, <1>9 DEF NotifySignals, TypeInv, StackInv, OpenInv, Exporters
  <2>4. WorkerInv'
    BY <1>a, <1>9 DEF NotifySignals, TypeInv, StackInv, WorkerInv, asyncVars
  <2>5. ReportInv'
    BY <1>a, <1>9, EmitEffect, NoEmit DEF NotifySignals, TypeInv, StackInv, ReportInv, OpenInv
  <2>6. exit' = "none"
    BY <1>a, <1>9 DEF NotifySignals, TypeInv
  <2> QED
    BY <2>1, <2>2, <2>3, <2>4, <2>5, <2>6, NotExited DEF LInv
<1>10. CASE WaitForShutdown
  <2>1. TypeInv'
    BY <1>a, <1>10 DEF WaitForShutdown, TypeInv, StackInv, asyncVars, Resources
  <2>2. StackInv'
    BY <1>a, <1>10 DEF WaitForShutdown, TypeInv, StackInv
  <2>3. OpenInv'
    BY <1>a, <1>10 DEF WaitForShutdown, TypeInv, StackInv, OpenInv, Exporters
  <2>4. WorkerInv'
    BY <1>a, <1>10 DEF WaitForShutdown, TypeInv, StackInv, WorkerInv, asyncVars
  <2>5. ReportInv'
    BY <1>a, <1>10, EmitEffect, NoEmit DEF WaitForShutdown, TypeInv, StackInv, ReportInv, OpenInv
  <2>6. exit' = "none"
    BY <1>a, <1>10 DEF WaitForShutdown, TypeInv
  <2> QED
    BY <2>1, <2>2, <2>3, <2>4, <2>5, <2>6, NotExited DEF LInv
<1>11. CASE Stop
  <2>1. TypeInv'
    BY <1>a, <1>11 DEF Stop, TypeInv, StackInv, asyncVars, Resources
  <2>2. StackInv'
    BY <1>a, <1>11 DEF Stop, TypeInv, StackInv
  <2>3. OpenInv'
    BY <1>a, <1>11 DEF Stop, TypeInv, StackInv, OpenInv, Exporters
  <2>4. WorkerInv'
    BY <1>a, <1>11 DEF Stop, TypeInv, StackInv, WorkerInv, asyncVars
  <2>5. ReportInv'
    BY <1>a, <1>11, EmitEffect, NoEmit DEF Stop, TypeInv, StackInv, ReportInv, OpenInv
  <2>6. exit' = "none"
    BY <1>a, <1>11 DEF Stop, TypeInv
  <2> QED
    BY <2>1, <2>2, <2>3, <2>4, <2>5, <2>6, NotExited DEF LInv
<1>12. CASE ShutdownServer
  <2>1. TypeInv'
    BY <1>a, <1>12 DEF ShutdownServer, TypeInv, StackInv, asyncVars, Resources
  <2>2. StackInv'
    BY <1>a, <1>12 DEF ShutdownServer, TypeInv, StackInv
  <2>3. OpenInv'
    BY <1>a, <1>12 DEF ShutdownServer, TypeInv, StackInv, OpenInv, Exporters
  <2>4. WorkerInv'
    BY <1>a, <1>12 DEF ShutdownServer, TypeInv, StackInv, WorkerInv, asyncVars
  <2>5. ReportInv'
    BY <1>a, <1>12, EmitEffect, NoEmit DEF ShutdownServer, TypeInv, StackInv, ReportInv, OpenInv
  <2>6. exit' = "none"
    BY <1>a, <1>12 DEF ShutdownServer, TypeInv
  <2> QED
    BY <2>1, <2>2, <2>3, <2>4, <2>5, <2>6, NotExited DEF LInv
<1> QED
  BY <1>1, <1>2, <1>3, <1>4, <1>5, <1>6, <1>7, <1>8, <1>9, <1>10, <1>11, <1>12 DEF RunStep

LEMMA DeferStepInv == ASSUME LInv, DeferStep PROVE LInv'
PROOF
<1> USE StackPop DEF Pcs, EarlyPcs, ServingPcs, Stacks, Running
<1>a. TypeInv /\ StackInv /\ OpenInv /\ WorkerInv /\ ReportInv
  BY DEF LInv
<1>1. CASE StopSignals
  <2>0. /\ pc = "return" /\ defers = Stack6 /\ defers' = Stack5
        /\ UNCHANGED <<cfg, pc, runErr, reason, telemetry, exit, worker>>
    BY <1>a, <1>1 DEF StopSignals, Deferred, Pop, TypeInv, asyncVars
  <2>1. TypeInv'
    BY <1>a, <1>1, <2>0 DEF StopSignals, TypeInv, Resources
  <2>2. StackInv'
    BY <2>0 DEF StackInv
  <2>3. OpenInv'
    BY <1>a, <1>1, <2>0 DEF StopSignals, OpenInv, Exporters
  <2>4. WorkerInv'
    BY <1>a, <1>1, <2>0 DEF StopSignals, WorkerInv
  <2>5. ReportInv'
    BY <1>a, <1>1, <2>0, EmitEffect, NoEmit DEF StopSignals, ReportInv, OpenInv
  <2>6. exit' = "none"
    BY <1>a, <2>0 DEF TypeInv
  <2> QED
    BY <2>1, <2>2, <2>3, <2>4, <2>5, <2>6, NotExited DEF LInv
<1>2. CASE CloseDone
  <2>0. /\ pc = "return" /\ defers = Stack5 /\ UNCHANGED defers
        /\ UNCHANGED <<cfg, pc, runErr, reason, telemetry, exit, worker>>
    BY <1>a, <1>2 DEF CloseDone, Deferred, Pop, TypeInv, asyncVars
  <2>1. TypeInv'
    BY <1>a, <1>2, <2>0 DEF CloseDone, TypeInv, Resources
  <2>2. StackInv'
    BY <2>0 DEF StackInv
  <2>3. OpenInv'
    BY <1>a, <1>2, <2>0 DEF CloseDone, OpenInv, Exporters
  <2>4. WorkerInv'
    BY <1>a, <1>2, <2>0 DEF CloseDone, WorkerInv
  <2>5. ReportInv'
    BY <1>a, <1>2, <2>0, EmitEffect, NoEmit DEF CloseDone, ReportInv, OpenInv
  <2>6. exit' = "none"
    BY <1>a, <2>0 DEF TypeInv
  <2> QED
    BY <2>1, <2>2, <2>3, <2>4, <2>5, <2>6, NotExited DEF LInv
<1>3. CASE AwaitWorker
  <2>0. /\ pc = "return" /\ defers = Stack5 /\ defers' = Stack4
        /\ UNCHANGED <<cfg, pc, runErr, reason, telemetry, exit, worker>>
    BY <1>a, <1>3 DEF AwaitWorker, Deferred, Pop, TypeInv, asyncVars
  <2>1. TypeInv'
    BY <1>a, <1>3, <2>0 DEF AwaitWorker, TypeInv, Resources
  <2>2. StackInv'
    BY <2>0 DEF StackInv
  <2>3. OpenInv'
    BY <1>a, <1>3, <2>0 DEF AwaitWorker, OpenInv, Exporters
  <2>4. WorkerInv'
    BY <1>a, <1>3, <2>0 DEF AwaitWorker, WorkerInv
  <2>5. ReportInv'
    BY <1>a, <1>3, <2>0, EmitEffect, NoEmit DEF AwaitWorker, ReportInv, OpenInv
  <2>6. exit' = "none"
    BY <1>a, <2>0 DEF TypeInv
  <2> QED
    BY <2>1, <2>2, <2>3, <2>4, <2>5, <2>6, NotExited DEF LInv
<1>4. CASE CloseConnection
  <2>0. /\ pc = "return" /\ defers = Stack4 /\ defers' = Stack3
        /\ UNCHANGED <<cfg, pc, runErr, reason, telemetry, exit, worker>>
    BY <1>a, <1>4 DEF CloseConnection, Deferred, Pop, TypeInv, asyncVars
  <2>1. TypeInv'
    BY <1>a, <1>4, <2>0 DEF CloseConnection, TypeInv, Resources
  <2>2. StackInv'
    BY <2>0 DEF StackInv
  <2>3. OpenInv'
    BY <1>a, <1>4, <2>0 DEF CloseConnection, OpenInv, Exporters
  <2>4. WorkerInv'
    BY <1>a, <1>4, <2>0 DEF CloseConnection, WorkerInv
  <2>5. ReportInv'
    BY <1>a, <1>4, <2>0, EmitEffect, NoEmit DEF CloseConnection, ReportInv, OpenInv
  <2>6. exit' = "none"
    BY <1>a, <2>0 DEF TypeInv
  <2> QED
    BY <2>1, <2>2, <2>3, <2>4, <2>5, <2>6, NotExited DEF LInv
<1>5. CASE Cancel
  <2>0. /\ pc = "return" /\ defers = Stack3 /\ defers' = Stack2
        /\ UNCHANGED <<cfg, pc, runErr, reason, telemetry, exit, worker>>
    BY <1>a, <1>5 DEF Cancel, Deferred, Pop, TypeInv, asyncVars
  <2>1. TypeInv'
    BY <1>a, <1>5, <2>0 DEF Cancel, TypeInv, Resources
  <2>2. StackInv'
    BY <2>0 DEF StackInv
  <2>3. OpenInv'
    BY <1>a, <1>5, <2>0 DEF Cancel, OpenInv, Exporters
  <2>4. WorkerInv'
    BY <1>a, <1>5, <2>0 DEF Cancel, WorkerInv
  <2>5. ReportInv'
    BY <1>a, <1>5, <2>0, EmitEffect, NoEmit DEF Cancel, ReportInv, OpenInv
  <2>6. exit' = "none"
    BY <1>a, <2>0 DEF TypeInv
  <2> QED
    BY <2>1, <2>2, <2>3, <2>4, <2>5, <2>6, NotExited DEF LInv
<1>6. CASE EmitServiceFailed
  <2>0. /\ pc = "return" /\ defers = Stack2 /\ defers' = Stack1
        /\ UNCHANGED <<cfg, pc, runErr, reason, telemetry, exit, worker>>
    BY <1>a, <1>6 DEF EmitServiceFailed, Deferred, Pop, TypeInv, asyncVars
  <2>1. TypeInv'
    BY <1>a, <1>6, <2>0 DEF EmitServiceFailed, TypeInv, Resources
  <2>2. StackInv'
    BY <2>0 DEF StackInv
  <2>3. OpenInv'
    BY <1>a, <1>6, <2>0 DEF EmitServiceFailed, OpenInv, Exporters
  <2>4. WorkerInv'
    BY <1>a, <1>6, <2>0 DEF EmitServiceFailed, WorkerInv
  <2>5. ReportInv'
    <3>1. failedRecords = {}
      BY <1>a, <2>0 DEF ReportInv
    <3>2. ("logs" \in open) = telemetry
      BY <1>a, <2>0 DEF TypeInv, OpenInv
    <3>3. CASE runErr /\ Emit("failed")
      <4>1. failedRecords' = {[kind |-> "failed", exported |-> telemetry]}
        BY <3>1, <3>2, <3>3, EmitEffect
      <4> QED
        BY <2>0, <3>3, <4>1 DEF ReportInv
    <3>4. CASE ~runErr /\ UNCHANGED records
      BY <1>a, <2>0, <3>1, <3>4, NoEmit DEF ReportInv
    <3> QED
      BY <1>6, <3>3, <3>4 DEF EmitServiceFailed
  <2>6. exit' = "none"
    BY <1>a, <2>0 DEF TypeInv
  <2> QED
    BY <2>1, <2>2, <2>3, <2>4, <2>5, <2>6, NotExited DEF LInv
<1>7. CASE ShutdownLogging
  <2>0. /\ pc = "return" /\ defers = Stack1 /\ defers' = Stack0
        /\ UNCHANGED <<cfg, pc, runErr, reason, telemetry, exit, worker>>
    BY <1>a, <1>7 DEF ShutdownLogging, Deferred, Pop, TypeInv, asyncVars
  <2>1. TypeInv'
    BY <1>a, <1>7, <2>0 DEF ShutdownLogging, TypeInv, Resources
  <2>2. StackInv'
    BY <2>0 DEF StackInv
  <2>3. OpenInv'
    BY <1>a, <1>7, <2>0 DEF ShutdownLogging, OpenInv, Exporters
  <2>4. WorkerInv'
    BY <1>a, <1>7, <2>0 DEF ShutdownLogging, WorkerInv
  <2>5. ReportInv'
    <3>1. failedRecords' = failedRecords
      BY <1>7 DEF ShutdownLogging, failedRecords
    <3> QED
      BY <1>a, <2>0, <3>1 DEF ReportInv
  <2>6. exit' = "none"
    BY <1>a, <2>0 DEF TypeInv
  <2> QED
    BY <2>1, <2>2, <2>3, <2>4, <2>5, <2>6, NotExited DEF LInv
<1>8. CASE Exit
  <2>0. /\ pc = "return" /\ defers = Stack0 /\ pc' = "exited" /\ exit' = (IF runErr THEN "1" ELSE "0")
        /\ UNCHANGED <<cfg, defers, open, runErr, reason, cancelled, done, telemetry, records, worker>>
    BY <1>8 DEF Exit, asyncVars
  <2>1. TypeInv'
    BY <1>a, <2>0 DEF TypeInv
  <2>2. StackInv' /\ OpenInv'
    BY <2>0 DEF StackInv, OpenInv
  <2>3. WorkerInv'
    BY <1>a, <2>0 DEF WorkerInv
  <2>4. ReportInv'
    BY <2>0 DEF ReportInv
  <2>5. ReleasedOnExit'
    <3>1. open = {}
      BY <1>a, <2>0 DEF TypeInv, OpenInv, Resources, Exporters
    <3> QED
      BY <2>0, <3>1 DEF ReleasedOnExit
  <2>6. FailureReported'
    BY <1>a, <2>0 DEF TypeInv, ReportInv, FailureReported, failedRecords
  <2> QED
    BY <2>1, <2>2, <2>3, <2>4, <2>5, <2>6 DEF LInv
<1> QED
  BY <1>1, <1>2, <1>3, <1>4, <1>5, <1>6, <1>7, <1>8 DEF DeferStep

\* The worker, the health server, the signals, a crash and the restart.
LEMMA OtherStepInv ==
    ASSUME LInv,
           \/ WorkerStep \/ HealthRequest \/ HealthAnswer \/ ServeFails \/ Signal \/ Killed \/ Restart
           \/ UNCHANGED lifeVars
    PROVE  LInv'
PROOF
<1> USE DEF Pcs, EarlyPcs, ServingPcs, Running
<1>a. /\ TypeInv /\ StackInv /\ OpenInv /\ WorkerInv /\ ReportInv
      /\ ReleasedOnExit /\ FailureReported
  BY DEF LInv
<1>1. ASSUME UNCHANGED runUnchanged PROVE StackInv' /\ OpenInv' /\ ReportInv' /\ ReleasedOnExit' /\ FailureReported'
  BY <1>a, <1>1, NoEmit
  DEF runUnchanged, StackInv, OpenInv, ReportInv, ReleasedOnExit, FailureReported
<1>2. ASSUME UNCHANGED runUnchanged, UNCHANGED worker PROVE LInv'
  BY <1>a, <1>1, <1>2 DEF LInv, runUnchanged, TypeInv, WorkerInv
<1>3. CASE WorkerStep
  <2>1. UNCHANGED runUnchanged /\ pc # "exited"
    BY <1>3 DEF WorkerStep
  <2>2. /\ worker \in Running /\ worker' \in Running \cup {"returned"}
        /\ worker' = "returned" => cancelled \/ done
    BY <1>3 DEF WorkerStep, WorkerSelect, WorkerRead, WorkerProcess
  <2>3. TypeInv' /\ WorkerInv'
    BY <1>a, <2>1, <2>2 DEF TypeInv, WorkerInv, runUnchanged
  <2> QED
    BY <1>1, <2>1, <2>3 DEF LInv
<1>4. CASE HealthRequest \/ HealthAnswer \/ ServeFails \/ Signal
  BY <1>2, <1>4 DEF HealthRequest, HealthAnswer, ServeFails, Signal
<1>5. CASE Killed
  <2>1. /\ pc' = "exited" /\ exit' = "killed" /\ open' = {} /\ worker' = "none"
        /\ UNCHANGED <<cfg, defers, runErr, reason, cancelled, done, telemetry, records>>
    BY <1>5 DEF Killed
  <2>2. TypeInv' /\ WorkerInv'
    BY <1>a, <2>1 DEF TypeInv, WorkerInv
  <2> QED
    BY <2>1, <2>2 DEF LInv, StackInv, OpenInv, ReportInv, ReleasedOnExit, FailureReported
<1>6. CASE Restart
  <2>1. Init'
    BY <1>6 DEF Restart, Init
  <2> QED
    BY <2>1, LInvInit, PTL
<1>7. CASE UNCHANGED lifeVars
  BY <1>2, <1>7 DEF lifeVars, asyncVars, runUnchanged
<1> QED
  BY <1>3, <1>4, <1>5, <1>6, <1>7

LEMMA LifecycleInvariance == Spec => []LInv
PROOF
<1>1. LInv /\ [Next]_lifeVars => LInv'
  BY RunStepInv, DeferStepInv, OtherStepInv DEF Next
<1> QED
  BY <1>1, LInvInit, PTL DEF Spec

\* The type invariant of the process: a worker's goroutine is always covered by a
\* Close that is still to come.
THEOREM LifecycleTypeCorrect == Spec => []LifecycleTypeOK
PROOF
<1>1. LInv => LifecycleTypeOK
  <2> SUFFICES ASSUME LInv PROVE LifecycleTypeOK
    OBVIOUS
  <2>1. 1 \in DOMAIN Stack5 /\ Stack5[1] = "closeConsumer"
    BY DEF Stack5
  <2>2. 2 \in DOMAIN Stack6 /\ Stack6[2] = "closeConsumer"
    BY DEF Stack6
  <2>3. worker \in Running => \E k \in DOMAIN defers : defers[k] = "closeConsumer"
    BY <2>1, <2>2 DEF LInv, WorkerInv
  <2> QED
    BY <2>3 DEF LInv, TypeInv, Resources, LifecycleTypeOK
<1> QED
  BY <1>1, LifecycleInvariance, PTL

\* The worker never runs on a closed database, whichever step of the start fails
\* and whatever ends the process.
THEOREM DatabaseOutlivesWorkerCorrect == Spec => []DatabaseOutlivesWorker
PROOF
<1>1. LInv => DatabaseOutlivesWorker
  BY DEF LInv, WorkerInv, OpenInv, DatabaseOutlivesWorker, ServingPcs
<1> QED
  BY <1>1, LifecycleInvariance, PTL

\* An exit of run's own leaves nothing open.
THEOREM ReleasedOnExitCorrect == Spec => []ReleasedOnExit
PROOF
<1>1. LInv => ReleasedOnExit
  BY DEF LInv
<1> QED
  BY <1>1, LifecycleInvariance, PTL

\* Exit code 1 and the report of the failure come together, and the report reaches
\* the exporter if there is one; exit code 0 is the answer to a signal.
THEOREM FailureReportedCorrect == Spec => []FailureReported
PROOF
<1>1. LInv => FailureReported
  BY DEF LInv
<1> QED
  BY <1>1, LifecycleInvariance, PTL

\* A process that waits for a reason to stop has a worker that serves the queue.
THEOREM ServingWhileWaitingCorrect == Spec => []ServingWhileWaiting
PROOF
<1>1. LInv => ServingWhileWaiting
  BY DEF LInv, WorkerInv, ServingWhileWaiting, ServingPcs
<1> QED
  BY <1>1, LifecycleInvariance, PTL

\* A worker runs alone and with a positive job timeout, for any environment and any
\* width of the multiplication in run.
THEOREM ConsumerIsSaneCorrect == Spec => []ConsumerIsSane
PROOF
<1>1. LInv => ConsumerIsSane
  BY DEF LInv, WorkerInv, ConsumerIsSane, Load, ValidConsumerConfig
<1> QED
  BY <1>1, LifecycleInvariance, PTL
-----------------------------------------------------------------------------
(***************************************************************************)
(* ServiceLifecycle implements ConsumerHost.                               *)
(***************************************************************************)

\* The mode and the place of the worker in a process whose worker runs; a process
\* without one is down.
LEMMA HostView ==
    ASSUME LInv
    PROVE  /\ worker \notin Running => hostMode = "down" /\ hostAt = "stopped"
           /\ worker \in Running => hostMode \in {"starting", "running", "draining", "cancelled"}
           /\ worker = "idle" => hostAt = "poll"
           /\ worker = "reading" => hostAt = "read"
           /\ worker = "busy" => hostAt = "handle"
BY DEF LInv, TypeInv, hostMode, hostAt, Running

HostUnchanged == hostMode' = hostMode /\ hostAt' = hostAt

\* A step of run that neither starts the worker nor changes what it is told.
LEMMA HostStutter ==
    ASSUME UNCHANGED <<worker, cancelled, done>>,
           worker \in Running /\ ~cancelled /\ ~done => (pc \in {"wait", "stop"} <=> pc' \in {"wait", "stop"})
    PROVE  HostUnchanged
BY DEF HostUnchanged, hostMode, hostAt, Running

\* Nothing is seen of a process without a worker.
LEMMA HostDown ==
    ASSUME worker \notin Running, worker' \notin Running
    PROVE  HostUnchanged
BY DEF HostUnchanged, hostMode, hostAt, Running

\* The steps of run and of its deferred calls.
LEMMA HostRunStep ==
    ASSUME LInv, RunStep \/ DeferStep
    PROVE  Host!Next \/ HostUnchanged
PROOF
<1> USE DEF Running
<1>a. TypeInv /\ StackInv /\ WorkerInv
  BY DEF LInv
<1>1. CASE LoadConfig \/ InitTraces \/ InitLogs \/ InitializeWorkResources \/ NewConnection \/ NewConsumer
  <2>1. worker = "none" /\ worker' = worker
    BY <1>1, <1>a
    DEF LoadConfig, InitTraces, InitLogs, InitializeWorkResources, NewConnection, NewConsumer,
        WorkerInv, ServingPcs, asyncVars
  <2> QED
    BY <2>1, HostDown
<1>2. CASE StartConsumer
  <2>1. worker = "none" /\ ~cancelled /\ ~done /\ UNCHANGED <<cancelled, done>>
    BY <1>2, <1>a DEF StartConsumer, WorkerInv, ServingPcs
  <2>2. CASE worker' = "idle" /\ Continue("listen")
    <3>1. hostMode = "down" /\ hostMode' = "starting" /\ hostAt' = "poll"
      BY <2>1, <2>2 DEF hostMode, hostAt, Continue
    <3> QED
      BY <3>1 DEF Host!Next, Host!Start, Host!Become
  <2>3. CASE UNCHANGED worker
    BY <2>1, <2>3, HostDown
  <2> QED
    BY <1>2, <2>2, <2>3 DEF StartConsumer
<1>3. CASE StartHealthServer \/ WaitForShutdown \/ ShutdownServer
  <2>1. UNCHANGED <<worker, cancelled, done>>
    BY <1>3 DEF StartHealthServer, WaitForShutdown, ShutdownServer, asyncVars
  <2>2. ~cancelled => (pc \in {"wait", "stop"} <=> pc' \in {"wait", "stop"})
    BY <1>3, <1>a
    DEF StartHealthServer, WaitForShutdown, ShutdownServer, Continue, Return, StackInv, WorkerInv
  <2> QED
    BY <2>1, <2>2, HostStutter
<1>4. CASE NotifySignals
  <2>1. /\ pc = "notify" /\ pc' = "wait" /\ worker \in Running /\ ~cancelled /\ ~done
        /\ UNCHANGED <<worker, cancelled, done>>
    BY <1>4, <1>a DEF NotifySignals, ContinueDeferring, WorkerInv, ServingPcs, asyncVars
  <2>2. hostMode = "starting" /\ hostMode' = "running" /\ hostAt' = hostAt
    BY <2>1 DEF hostMode, hostAt
  <2> QED
    BY <2>2 DEF Host!Next, Host!Ready, Host!Become
<1>5. CASE Stop
  <2>1. /\ pc = "stop" /\ worker \in Running /\ ~cancelled /\ ~done /\ cancelled'
        /\ UNCHANGED worker
    BY <1>5, <1>a DEF Stop, WorkerInv, ServingPcs, asyncVars
  <2>2. hostMode = "running" /\ hostMode' = "cancelled" /\ hostAt' = hostAt
    BY <2>1 DEF hostMode, hostAt
  <2> QED
    BY <2>2 DEF Host!Next, Host!Shutdown, Host!Become
<1>6. CASE CloseDone
  <2>1. pc = "return" /\ ~done /\ done' /\ UNCHANGED <<worker, cancelled>>
    BY <1>6 DEF CloseDone, Deferred, asyncVars
  <2>2. CASE worker \notin Running
    BY <2>1, <2>2, HostDown
  <2>3. CASE worker \in Running /\ cancelled
    BY <2>1, <2>3 DEF HostUnchanged, hostMode, hostAt
  <2>4. CASE worker \in Running /\ ~cancelled
    <3>1. hostMode = "starting" /\ hostMode' = "draining" /\ hostAt' = hostAt
      BY <2>1, <2>4 DEF hostMode, hostAt
    <3> QED
      BY <3>1 DEF Host!Next, Host!HealthListenFails, Host!Become
  <2> QED
    BY <2>2, <2>3, <2>4
<1>7. CASE StopSignals \/ AwaitWorker \/ CloseConnection \/ EmitServiceFailed \/ ShutdownLogging
  BY <1>7, HostStutter
  DEF StopSignals, AwaitWorker, CloseConnection, EmitServiceFailed, ShutdownLogging, Pop, asyncVars
<1>8. CASE Cancel
  <2>1. worker \notin Running /\ worker' = worker
    BY <1>8, <1>a, StackPop DEF Cancel, Deferred, Pop, asyncVars, WorkerInv
  <2> QED
    BY <2>1, HostDown
<1>9. CASE Exit
  BY <1>9, HostStutter DEF Exit, asyncVars
<1> QED
  BY <1>1, <1>2, <1>3, <1>4, <1>5, <1>6, <1>7, <1>8, <1>9 DEF RunStep, DeferStep

\* The steps of the worker: told to stop or cancelled, it does not read again.
LEMMA HostWorkerStep ==
    ASSUME LInv, WorkerStep
    PROVE  Host!Next
PROOF
<1> USE DEF Running, Host!Next, Host!Become
<1>a. UNCHANGED <<pc, cancelled, done>>
  BY DEF WorkerStep, runUnchanged
<1>b. worker \in Running /\ worker' \in Running => hostMode' = hostMode
  BY <1>a DEF hostMode
<1>c. worker' = "returned" => hostMode' = "down" /\ hostAt' = "stopped"
  BY DEF hostMode, hostAt
<1>d. /\ cancelled \in BOOLEAN /\ done \in BOOLEAN
      /\ worker \in Running => (hostMode = "cancelled" <=> cancelled)
      /\ worker \in Running => (hostMode \in {"draining", "cancelled"} <=> cancelled \/ done)
      /\ worker \in Running => hostMode \in {"starting", "running", "draining", "cancelled"}
  BY DEF hostMode, LInv, TypeInv
<1>1. CASE WorkerSelect
  <2>1. worker = "idle" /\ hostAt = "poll"
    BY <1>1 DEF WorkerSelect, hostAt
  <2>2. CASE cancelled \/ done
    BY <1>1, <1>c, <1>d, <2>1, <2>2 DEF WorkerSelect, Host!WorkerSelect, Host!Exit
  <2>3. CASE ~(cancelled \/ done)
    <3>1. worker' = "reading" /\ hostAt' = "read"
      BY <1>1, <2>3 DEF WorkerSelect, hostAt
    <3> QED
      BY <1>b, <1>d, <2>1, <2>3, <3>1 DEF Host!WorkerSelect
  <2> QED
    BY <2>2, <2>3
<1>2. CASE WorkerRead
  <2>1. worker = "reading" /\ hostAt = "read"
    BY <1>2 DEF WorkerRead, hostAt
  <2>2. CASE ~cancelled /\ worker' \in {"busy", "idle"}
    <3>1. hostAt' \in {"handle", "poll"}
      BY <2>2 DEF hostAt
    <3> QED
      BY <1>b, <1>d, <2>1, <2>2, <3>1 DEF Host!Read
  <2>3. CASE cancelled /\ worker' = "returned"
    BY <1>c, <1>d, <2>1, <2>3 DEF Host!Read, Host!Exit
  <2> QED
    BY <1>2, <2>2, <2>3 DEF WorkerRead
<1>3. CASE WorkerProcess
  <2>1. worker = "busy" /\ worker' = "idle" /\ hostAt = "handle" /\ hostAt' = "poll"
    BY <1>3 DEF WorkerProcess, hostAt
  <2> QED
    BY <1>b, <2>1 DEF Host!Process
<1> QED
  BY <1>1, <1>2, <1>3 DEF WorkerStep

LEMMA HostStep ==
    ASSUME LInv, [Next]_lifeVars
    PROVE  Host!Next \/ HostUnchanged
PROOF
<1>1. CASE RunStep \/ DeferStep
  BY <1>1, HostRunStep
<1>2. CASE WorkerStep
  BY <1>2, HostWorkerStep
<1>3. CASE HealthRequest \/ HealthAnswer \/ ServeFails \/ Signal
  BY <1>3, HostStutter DEF HealthRequest, HealthAnswer, ServeFails, Signal, runUnchanged
<1>4. CASE Killed
  <2>1. worker' = "none" /\ hostMode' = "down" /\ hostAt' = "stopped"
    BY <1>4 DEF Killed, hostMode, hostAt, Running
  <2>2. CASE worker \in Running
    <3>1. hostAt # "stopped"
      BY <2>2, HostView DEF Running
    <3> QED
      BY <2>1, <3>1 DEF Host!Next, Host!Crash, Host!Exit, Host!Become
  <2>3. CASE worker \notin Running
    BY <2>1, <2>3, HostView DEF HostUnchanged
  <2> QED
    BY <2>2, <2>3
<1>5. CASE Restart
  <2>1. worker \notin Running /\ worker' \notin Running
    BY <1>5 DEF Restart, LInv, WorkerInv, ServingPcs, Running
  <2> QED
    BY <2>1, HostDown
<1>6. CASE UNCHANGED lifeVars
  BY <1>6, HostStutter DEF lifeVars, asyncVars
<1> QED
  BY <1>1, <1>2, <1>3, <1>4, <1>5, <1>6 DEF Next

\* The process hosts its worker the way MeshConsumer takes for granted: every step
\* of run, of its deferred calls, of the worker and of the outside is a step of
\* ConsumerHost or none.
THEOREM HostRefinement == Spec => RefinesConsumerHost
PROOF
<1>1. Init => Host!Init
  BY DEF Init, Host!Init, hostMode, hostAt, Running
<1>2. LInv /\ [Next]_lifeVars => [Host!Next]_(Host!hostVars)
  BY HostStep DEF HostUnchanged, Host!hostVars
<1> QED
  BY <1>1, <1>2, LifecycleInvariance, PTL DEF Spec, RefinesConsumerHost, Host!Spec
=============================================================================
