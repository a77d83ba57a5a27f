---------------------------- MODULE MeshConsumer ----------------------------
(***************************************************************************)
(* internal/mq/consumer.go around the handler of MeshProcessor, and the    *)
(* parts of cmd/asset-optimizer that start, stop and restart it: several   *)
(* service instances taking commands from one PGMQ queue.                  *)
(*                                                                         *)
(* at[i] is the next call of instance i's worker, mode[i] the state of its *)
(* process:                                                                *)
(*   down       no process                                                 *)
(*   starting   the consumer runs, the health endpoint is not up yet       *)
(*   running    up, signals handled                                        *)
(*   draining   Close waits for the worker, the parent context still lives *)
(*   cancelled  shutting down, the parent context is cancelled             *)
(***************************************************************************)
EXTENDS MeshProcessor, Pgmq

CONSTANT RetryLimit     \* QueueConfig.RetryLimit

ASSUME RetryLimitAssumption == RetryLimit \in Nat

VARIABLES
    queue,   \* the PGMQ row of each command
    at,      \* the next call of each worker
    mode     \* the process of each instance

vars == <<body, procVars, queue, at, mode>>

AtStates == {"stopped", "poll", "read", "handle",
             "complete", "requeue", "retry", "deadLetter"}

Modes == {"down", "starting", "running", "draining", "cancelled"}

\* The points where a worker has a message in hand.
Holding == {"handle", "complete", "requeue", "retry", "deadLetter"}

Holds(i, m) == at[i] \in Holding /\ call[i].job = m

\* parent.Err() # nil
ParentCancelled(i) == mode[i] = "cancelled"

GoAt(i, a) == at' = [at EXCEPT ![i] = a]

SetRow(m, row) == queue' = [queue EXCEPT ![m] = row]

\* The worker has a message no more and goes back to the top of its loop.
NextMessage(i) ==
    /\ GoAt(i, "poll")
    /\ call' = [call EXCEPT ![i] = NoCall]

\* The worker returns, the deferred calls of run follow and the process is gone.
Exit(i) ==
    /\ GoAt(i, "stopped")
    /\ mode' = [mode EXCEPT ![i] = "down"]
-----------------------------------------------------------------------------
\* Every mesh-* directory an earlier process left under the temp root is removed.
CleanupStaleWorkDirs(i) == dirs' = [dirs EXCEPT ![i] = 0]

\* The queue answers the readiness query and the worker is started.
StartConsumer(i) ==
    /\ GoAt(i, "poll")
    /\ mode' = [mode EXCEPT ![i] = "starting"]

\* run up to startConsumer.
Start(i) ==
    /\ at[i] = "stopped"
    /\ CleanupStaleWorkDirs(i)
    /\ StartConsumer(i)
    /\ UNCHANGED <<body, stage, ctx, call, ret, store, signal, results, faults, queue>>

\* run returns an error before the worker is started; the removal of stale work
\* directories may have stopped half way.
StartFails(i) ==
    /\ at[i] = "stopped"
    /\ Fault("boot")
    /\ \E left \in 0..dirs[i] : dirs' = [dirs EXCEPT ![i] = left]
    /\ UNCHANGED <<body, stage, ctx, call, ret, store, signal, results, queue, at, mode>>

\* The health endpoint listens and signals are handled from here on.
Ready(i) ==
    /\ mode[i] = "starting"
    /\ mode' = [mode EXCEPT ![i] = "running"]
    /\ UNCHANGED <<body, procVars, queue, at>>

\* The health endpoint cannot listen: run returns, and the deferred Close of the
\* consumer waits for the worker before the deferred cancel is reached.
HealthListenFails(i) ==
    /\ mode[i] = "starting"
    /\ Fault("listen")
    /\ mode' = [mode EXCEPT ![i] = "draining"]
    /\ UNCHANGED <<body, stage, ctx, call, ret, dirs, store, signal, results, queue, at>>

\* waitForShutdown returns and run cancels the parent context, and with it the
\* context of the job in the handler.
Shutdown(i) ==
    /\ mode[i] = "running"
    /\ Fault("shutdown")
    /\ mode' = [mode EXCEPT ![i] = "cancelled"]
    /\ ctx' = [ctx EXCEPT ![i] = IF at[i] = "handle" THEN "done" ELSE @]
    /\ UNCHANGED <<body, stage, call, ret, dirs, store, signal, results, queue, at>>

\* The process dies: only what is on disk and in the services stays.
Crash(i) ==
    /\ at[i] # "stopped"
    /\ Fault("crash")
    /\ Exit(i)
    /\ stage' = [stage EXCEPT ![i] = "idle"]
    /\ ctx' = [ctx EXCEPT ![i] = "live"]
    /\ call' = [call EXCEPT ![i] = NoCall]
    /\ ret' = [ret EXCEPT ![i] = "none"]
    /\ UNCHANGED <<body, dirs, store, signal, results, queue>>
-----------------------------------------------------------------------------
\* Mutation: the worker does not look at the done channel.
WorkerSelectIgnoresDone(i) ==
    /\ at[i] = "poll"
    /\ \/ mode[i] # "cancelled" /\ GoAt(i, "read") /\ UNCHANGED mode
       \/ mode[i] = "cancelled" /\ Exit(i)
    /\ UNCHANGED <<body, procVars, queue>>

\* The select at the top of the worker's loop.
WorkerSelect(i) ==
    /\ at[i] = "poll"
    /\ \/ mode[i] \in {"starting", "running"} /\ GoAt(i, "read") /\ UNCHANGED mode
       \/ mode[i] \in {"draining", "cancelled"} /\ Exit(i)
    /\ UNCHANGED <<body, procVars, queue>>

\* Read returns message m and process begins: a message that breaks the contract
\* is dead-lettered, another one goes to the handler under a new job context.
Read(i, m) ==
    /\ at[i] = "read"
    /\ ~ParentCancelled(i)
    /\ Readable(queue[m])
    /\ SetRow(m, RowRead(queue[m]))
    /\ call' = [call EXCEPT ![i] = NewCall(m, queue[m].readCount + 1)]
    /\ \/ body[m] = "contract" /\ GoAt(i, "deadLetter") /\ UNCHANGED stage
       \/ body[m] # "contract" /\ GoAt(i, "handle") /\ Goto(i, "spec")
    /\ UNCHANGED <<body, ctx, ret, dirs, store, signal, results, faults, mode>>

\* Mutation: the worker returns on every error of Read, not only on a cancelled one.
ReadErrorEndsWorker(i) ==
    /\ at[i] = "read"
    /\ ~ParentCancelled(i)
    /\ Fault("database")
    /\ GoAt(i, "returned")
    /\ UNCHANGED <<body, stage, ctx, call, ret, dirs, store, signal, results, queue, mode>>

\* No message, or an error of the database: the worker sleeps and polls again.
\* The reply can be lost after the row was hidden.
ReadNothing(i) ==
    /\ at[i] = "read"
    /\ ~ParentCancelled(i)
    /\ \/ (\A m \in Messages : ~Readable(queue[m])) /\ UNCHANGED <<queue, faults>>
       \/ Fault("database") /\ UNCHANGED queue
       \/ \E m \in Messages :
            Fault("database") /\ Readable(queue[m]) /\ SetRow(m, RowRead(queue[m]))
    /\ GoAt(i, "poll")
    /\ UNCHANGED <<body, stage, ctx, call, ret, dirs, store, signal, results, mode>>

\* Read fails because the parent context is cancelled: the worker returns.
ReadCancelled(i) ==
    /\ at[i] = "read"
    /\ ParentCancelled(i)
    /\ Exit(i)
    /\ UNCHANGED <<body, procVars, queue>>

\* Mutation: an error of the publication is acknowledged like a terminal result.
SettlementAcksErrors(i) ==
    IF ParentCancelled(i) THEN "requeue"
    ELSE IF ret[i] # "plain" THEN "complete" ELSE "deadLetter"

\* Mutation: the retry limit is off by one.
SettlementOffByOne(i) ==
    IF ParentCancelled(i) THEN "requeue"
    ELSE IF ret[i] \in {"nil", "terminal"} THEN "complete"
    ELSE IF ret[i] = "retryable" /\ call[i].delivery < RetryLimit THEN "retry"
    ELSE "deadLetter"

\* The decision process makes when the handler returns.
Settlement(i) ==
    IF ParentCancelled(i) THEN "requeue"
    ELSE IF ret[i] \in {"nil", "terminal"} THEN "complete"
    ELSE IF ret[i] = "retryable" /\ call[i].delivery <= RetryLimit THEN "retry"
    ELSE "deadLetter"

\* The rest of process once the handler is back: its job context is cancelled and
\* the way to settle the message is chosen.
ProcessReturn(i) ==
    /\ at[i] = "handle"
    /\ stage[i] = "returned"
    /\ GoAt(i, Settlement(i))
    /\ Goto(i, "idle")
    /\ ctx' = [ctx EXCEPT ![i] = "live"]
    /\ ret' = [ret EXCEPT ![i] = "none"]
    /\ UNCHANGED <<body, call, dirs, store, signal, results, faults, queue, mode>>

\* A settling call under the parent context: it fails when that context has been
\* cancelled since parent.Err was read, or when the database fails it.
SettleUnderParent(i, row) ==
    \/ ~ParentCancelled(i) /\ SetRow(call[i].job, row) /\ UNCHANGED faults
    \/ ParentCancelled(i) /\ UNCHANGED <<queue, faults>>
    \/ ~ParentCancelled(i) /\ Fault("database") /\ UNCHANGED queue

settleUnchanged == <<body, stage, ctx, ret, dirs, store, signal, results, mode>>

\* The command is done: it is deleted.
complete(i) ==
    /\ at[i] = "complete"
    /\ SettleUnderParent(i, RowDelete(queue[call[i].job]))
    /\ NextMessage(i)
    /\ UNCHANGED settleUnchanged

\* The command is hidden for 5, 10, 20 ... at most 60 seconds.
retry(i) ==
    /\ at[i] = "retry"
    /\ SettleUnderParent(i, RowSetVt(queue[call[i].job], TRUE))
    /\ NextMessage(i)
    /\ UNCHANGED settleUnchanged

\* The command is moved to the archive.
deadLetter(i) ==
    /\ at[i] = "deadLetter"
    /\ SettleUnderParent(i, RowArchive(queue[call[i].job]))
    /\ NextMessage(i)
    /\ UNCHANGED settleUnchanged

\* The requeue of an interrupted job has a context of its own.
requeue(i) ==
    /\ at[i] = "requeue"
    /\ \/ SetRow(call[i].job, RowSetVt(queue[call[i].job], FALSE)) /\ UNCHANGED faults
       \/ Fault("database") /\ UNCHANGED queue
    /\ NextMessage(i)
    /\ UNCHANGED settleUnchanged

Handler(i) ==
    /\ at[i] = "handle"
    /\ HandlerStep(i)
    /\ UNCHANGED <<body, queue, at, mode>>

Timeout(i) ==
    /\ at[i] = "handle"
    /\ Deadline(i)
    /\ UNCHANGED <<body, queue, at, mode>>

WorkerStep(i) ==
    \/ WorkerSelect(i)
    \/ \E m \in Messages : Read(i, m)
    \/ ReadNothing(i)
    \/ ReadCancelled(i)
    \/ Handler(i)
    \/ ProcessReturn(i)
    \/ complete(i)
    \/ retry(i)
    \/ deadLetter(i)
    \/ requeue(i)
-----------------------------------------------------------------------------
\* The worker that got the latest delivery of m still has it.
CurrentHolder(i, m) == Holds(i, m) /\ call[i].delivery = queue[m].readCount

expireUnchanged == <<body, stage, ctx, call, ret, dirs, store, signal, results, at, mode>>

\* Mutation: the visibility timeout is shorter than the job's.
VisibilityTimeoutTooShort(m) ==
    /\ queue[m].st = "queued" /\ ~queue[m].visible
    /\ SetRow(m, RowExpire(queue[m]))
    /\ UNCHANGED expireUnchanged
    /\ UNCHANGED faults

\* The timeout of a hidden message passes when nobody works on its last delivery.
VisibilityTimeout(m) ==
    /\ queue[m].st = "queued" /\ ~queue[m].visible
    /\ \A i \in Instances : ~CurrentHolder(i, m)
    /\ SetRow(m, RowExpire(queue[m]))
    /\ UNCHANGED expireUnchanged
    /\ UNCHANGED faults

\* The timeout, one minute longer than the job's, passes under a worker that is
\* late: its job context is over, or it waits for a settling call.
LeaseOverrun(m) ==
    /\ queue[m].st = "queued" /\ ~queue[m].visible
    /\ \E i \in Instances : CurrentHolder(i, m)
    /\ \A i \in Instances : CurrentHolder(i, m) /\ at[i] = "handle" => ~Live(i)
    /\ Fault("overrun")
    /\ SetRow(m, RowExpire(queue[m]))
    /\ UNCHANGED expireUnchanged

Init ==
    /\ ProcessorInit
    /\ queue = [m \in Messages |-> Enqueued]
    /\ at = [i \in Instances |-> "stopped"]
    /\ mode = [i \in Instances |-> "down"]

Next ==
    \/ \E i \in Instances :
        \/ Start(i)
        \/ StartFails(i)
        \/ Ready(i)
        \/ HealthListenFails(i)
        \/ Shutdown(i)
        \/ Crash(i)
        \/ Timeout(i)
        \/ WorkerStep(i)
    \/ \E m \in Messages : VisibilityTimeout(m) \/ LeaseOverrun(m)

\* Every call of a worker returns in the end (the job context bounds the
\* handler's), a process that is gone is started again (restart: unless-stopped
\* in compose/asset-optimizer.yml), and PGMQ's clock does not stop.
Fairness ==
    /\ \A i \in Instances : WF_vars(WorkerStep(i)) /\ WF_vars(Start(i)) /\ WF_vars(Ready(i))
    /\ \A m \in Messages : WF_vars(VisibilityTimeout(m))

Spec == Init /\ [][Next]_vars

FairSpec == Spec /\ Fairness
-----------------------------------------------------------------------------
\* Every variable keeps its type: the type invariant of the consumer, the handler
\* and the queue rows.
TypeOK ==
    /\ ProcessorTypeOK
    /\ queue \in [Messages -> Row]
    /\ at \in [Instances -> AtStates]
    /\ mode \in [Instances -> Modes]

Malformed(m) == body[m] \in {"contract", "identity"}

HasResult(m) == \E r \in results : r.job = m

\* A command is deleted from the queue only when a result event for it has been
\* enqueued: whatever crashes, is cancelled or fails in between, a nil or a
\* TerminalResultError reaches Complete only after enqueueResult has succeeded.
AckedOnlyWithResult ==
    \A m \in Messages : queue[m].st = "deleted" => HasResult(m)

\* A command is archived only when it can never be handled (contract broken,
\* payload or job id unusable) or when it has been delivered more than RetryLimit
\* times: one lost reply, one late cancellation or one stale holder never
\* dead-letters a command that still has attempts left.
DeadLetterJustified ==
    \A m \in Messages :
        queue[m].st = "archived" => Malformed(m) \/ queue[m].readCount > RetryLimit

\* One delivery of a command enqueues at most one result event: the handler never
\* follows an uncertain publication of success by a failure event of its own.
OneResultPerDelivery ==
    \A r, s \in results : r.job = s.job /\ r.delivery = s.delivery => r = s

\* A completed event is about a valid job whose downloaded source respects the
\* size limit, although the object can change between HEAD and GET.
CompletedIsAccepted ==
    \A r \in results : Completed(r) =>
        body[r.job] = "valid" /\ r.size <= MaxInputBytes /\ r.output # None

\* As long as no later delivery of the command has begun, the object in the bucket
\* is the one whose hash the completed event carries, when no lease is overrun.
ResultMatchesStore ==
    "overrun" \notin FaultKinds =>
        \A r \in results :
            Completed(r) /\ queue[r.job].readCount = r.delivery => store[r.job] = r.output

\* The 100 percent signal is sent only for a command with a completed event.
ProgressAfterResult ==
    \A m \in Messages :
        signal[m] = optimizationCompleted => \E r \in results : r.job = m /\ Completed(r)

\* The lease is longer than the job's timeout, so two workers have the same
\* command in hand only when one of them has overrun its lease.
ExclusiveDelivery ==
    "overrun" \notin FaultKinds =>
        \A m \in Messages : \A i, j \in Instances : Holds(i, m) /\ Holds(j, m) => i = j

\* Outside the handler a running instance has no work directory left, whatever the
\* job's outcome and however earlier processes ended, unless a removal failed.
WorkDirsReclaimed ==
    "disk" \notin FaultKinds =>
        \A i \in Instances : at[i] \notin {"stopped", "handle"} => dirs[i] = 0

\* Once a command is acknowledged or archived, its output object is not written
\* again, when no lease is overrun.
SettledOutputFrozen ==
    [][ "overrun" \notin FaultKinds =>
          \A m \in Messages : queue[m].st # "queued" => store'[m] = store[m] ]_vars

\* Every command is acknowledged or archived in the end.
EventuallySettled == \A m \in Messages : <>(queue[m].st # "queued")

\* A process that is told to stop, or that cannot open its health endpoint, does
\* stop: Close waits for the worker, and the worker comes back.
ShutdownCompletes ==
    \A i \in Instances : mode[i] \in {"draining", "cancelled"} ~> at[i] = "stopped"

\* What the comment on ResultPublishError says: a command stays retryable until its
\* result has been enqueued, so a well-formed command is never archived without one.
RetryableUntilResult ==
    \A m \in Messages : queue[m].st = "archived" /\ ~Malformed(m) => HasResult(m)

\* The result of a command is stable: it is never both completed and failed.
StableResult ==
    \A r, s \in results : r.job = s.job => (Completed(r) <=> Completed(s))
-----------------------------------------------------------------------------
Outcome(r) == IF Completed(r) THEN "completed" ELSE "failed"

Answers == {[job |-> r.job, delivery |-> r.delivery, outcome |-> Outcome(r)] : r \in results}

Delivery == INSTANCE JobDelivery WITH
    malformed <- {m \in Messages : Malformed(m)},
    status <- [m \in Messages |-> queue[m].st],
    attempts <- [m \in Messages |-> queue[m].readCount],
    answers <- Answers

\* The service keeps the promise of JobDelivery: every step of a worker, a
\* process, the queue or the clock is a delivery, an answer, an acknowledgement,
\* a burial, or none of them.
RefinesJobDelivery == Delivery!Spec
=============================================================================
