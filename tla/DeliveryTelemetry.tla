------------------------- MODULE DeliveryTelemetry -------------------------
(***************************************************************************)
(* internal/mq/telemetry.go and the job records of internal/handler: what  *)
(* an operator is told about a delivery, beside what MeshConsumer does     *)
(* with it.  Every step of MeshConsumer that emits a record is conjoined   *)
(* with the emission; emitting changes nothing else, and an error of it is *)
(* dropped.  A settling call whose reply is lost has settled the row and   *)
(* is reported as failed, and so may one be that finds no row any more.    *)
(***************************************************************************)
EXTENDS MeshConsumer

VARIABLE records  \* the records emitted, by kind, command and delivery

telemetryVars == <<vars, records>>

\* What became of a delivery, and of its job.
Outcomes == {"deliverySucceeded", "completionFailed", "handlerFailed", "requeued"}
JobOutcomes == {"jobSucceeded", "jobFailed"}

EmitFor(kinds, c) ==
    records' = records \cup {[kind |-> k, job |-> c.job, delivery |-> c.delivery] : k \in kinds}

Emit(i, kinds) == EmitFor(kinds, call[i])

\* The settling call of this step came back without an error.
Settled(i) == faults' = faults /\ (at[i] = "requeue" \/ ~ParentCancelled(i))

\* Another worker has settled the row of this delivery already.
RowGone(i) == queue[call[i].job].st # "queued"

\* A call is reported by its error, also when only its reply was lost; whether the
\* client returns one when it finds no row is left open.
EmitBy(i, accepted, failure) ==
    \/ Settled(i) /\ Emit(i, accepted)
    \/ (~Settled(i) \/ "database" \in FaultKinds \/ RowGone(i)) /\ Emit(i, failure)
-----------------------------------------------------------------------------
\* A delivery whose message breaks the contract is reported before it is buried.
emitRead(i) == EmitFor(IF at'[i] = "deadLetter" THEN {"handlerFailed"} ELSE {}, call'[i])

\* Mutation: the failure of the handler is reported before the shutdown is noticed.
emitReturnEarly(i) ==
    Emit(i, IF Settlement(i) # "complete" THEN {"handlerFailed"} ELSE {})

\* A failure of the handler is reported unless the delivery goes on as a success or
\* as a requeue.
emitReturn(i) ==
    Emit(i, IF Settlement(i) \in {"retry", "deadLetter"} THEN {"handlerFailed"} ELSE {})

\* Mutation: an error of the completion is only logged.
emitCompleteQuiet(i) == EmitBy(i, {"deliverySucceeded"}, {})

emitComplete(i) == EmitBy(i, {"deliverySucceeded"}, {"completionFailed"})

emitQueueRetryResult(i) == EmitBy(i, {"retryAccepted"}, {"retryFailed"})

\* Mutation: the burial is reported as accepted whatever the call returned.
emitQueueDLQAccepted(i) == Emit(i, {"dlqAccepted"})

emitQueueDLQResult(i) == EmitBy(i, {"dlqAccepted"}, {"dlqFailed"})

emitRequeue(i) == EmitBy(i, {"requeued", "retryAccepted"}, {"requeued", "retryFailed"})

\* Mutation: the failure of the job is reported although its event was not enqueued.
emitJobEarly(i) ==
    Emit(i, CASE stage[i] # "publish" -> {}
              [] call[i].reason = NoReason /\ ret'[i] = "nil" -> {"jobSucceeded"}
              [] call[i].reason # NoReason -> {"jobFailed"}
              [] OTHER -> {})

\* The records of the handler: the job begins once its id is known; its result is
\* reported by the publisher, except when the event does not marshal; its success
\* or failure is reported only when the event has been enqueued.
emitJob(i) ==
    \/ stage[i] = "spec" /\ Emit(i, IF ret'[i] = "plain" THEN {} ELSE {"jobStarted"})
    \/ stage[i] = "publish" /\ ret'[i] = "nil" /\ Emit(i, {"publishSucceeded", "jobSucceeded"})
    \/ stage[i] = "publish" /\ ret'[i] = "terminal" /\ Emit(i, {"publishSucceeded", "jobFailed"})
    \/ stage[i] = "publish" /\ ret'[i] = "retryable" /\ Emit(i, {"publishFailed"})
    \/ /\ stage[i] = "publish" /\ ret'[i] = "retryable" /\ faults' # faults
       /\ "encoding" \in FaultKinds /\ call[i].reason = "OPTIMIZATION_FAILED"
       /\ UNCHANGED records
    \/ stage[i] \notin {"spec", "publish"} /\ UNCHANGED records

TelemetryInit == Init /\ records = {}

ObservedStep(i) ==
    \/ \E m \in Messages : Read(i, m) /\ emitRead(i)
    \/ ProcessReturn(i) /\ emitReturn(i)
    \/ complete(i) /\ emitComplete(i)
    \/ retry(i) /\ emitQueueRetryResult(i)
    \/ deadLetter(i) /\ emitQueueDLQResult(i)
    \/ requeue(i) /\ emitRequeue(i)
    \/ Handler(i) /\ emitJob(i)

QuietStep(i) ==
    /\ \/ Start(i) \/ StartFails(i) \/ Ready(i) \/ HealthListenFails(i) \/ Shutdown(i)
       \/ Crash(i) \/ Timeout(i) \/ WorkerSelect(i) \/ ReadNothing(i) \/ ReadCancelled(i)
    /\ UNCHANGED records

TelemetryNext ==
    \/ \E i \in Instances : ObservedStep(i) \/ QuietStep(i)
    \/ (\E m \in Messages : VisibilityTimeout(m) \/ LeaseOverrun(m)) /\ UNCHANGED records

TelemetrySpec == TelemetryInit /\ [][TelemetryNext]_telemetryVars
-----------------------------------------------------------------------------
\* The records tell one story of a delivery: it has succeeded, failed, or been
\* requeued, never two of them, although the error of the handler, the state of the
\* parent context and the reply of the settling call are looked at one by one.
OneOutcomePerDelivery ==
    \A r, s \in records :
        r.kind \in Outcomes /\ s.kind \in Outcomes /\ r.job = s.job /\ r.delivery = s.delivery => r = s

\* No delivery a worker finishes goes unreported.
EveryDeliveryReported ==
    [][ \A i \in Instances : at[i] \in Holding /\ at'[i] = "poll" =>
          \E k \in Outcomes : [kind |-> k, job |-> call[i].job, delivery |-> call[i].delivery] \in records' ]_telemetryVars

\* A delivery reports its job as succeeded or failed only when the result queue has
\* the event of this delivery that says so.
JobRecordsMatchResults ==
    \A r \in records : r.kind \in JobOutcomes =>
        \E e \in results : e.job = r.job /\ e.delivery = r.delivery /\ (Completed(e) <=> r.kind = "jobSucceeded")

\* What is reported as settled is settled: a delivery reported as succeeded has its
\* command deleted, an accepted burial has it archived.  (For one instance: the row
\* of a late worker may be settled otherwise.)
HandoffTruthful ==
    \A r \in records :
        /\ r.kind = "deliverySucceeded" => queue[r.job].st = "deleted"
        /\ r.kind = "dlqAccepted" => queue[r.job].st = "archived"
============================================================================
