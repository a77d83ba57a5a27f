--------------------------- MODULE MeshProcessor ---------------------------
(***************************************************************************)
(* internal/handler: what one service instance does with one mesh command, *)
(* from HandleMeshJob to the error it returns, with the work directory,    *)
(* the object store, the progress signal and the result queue it touches.  *)
(* Each action is one call the handler makes to the outside and the local  *)
(* code up to the next one, so other instances, a shutdown or the job's    *)
(* deadline can come between any two of them.                              *)
(*                                                                         *)
(* An instance runs one worker (config.go rejects any other count), so it  *)
(* has at most one command in the handler.                                 *)
(***************************************************************************)
EXTENDS Integers

CONSTANTS
    Instances,      \* service processes (one worker each)
    Messages,       \* mesh optimization commands, one job each
    Contents,       \* optimized files, told apart by their SHA-256
    Sizes,          \* sizes in bytes a source object can have
    MaxInputBytes,  \* Config.MaxInputBytes
    FaultKinds,     \* the kinds of fault that may happen
    MaxFaults,      \* bound: how many faults may happen in all
    None            \* no command, no file

ASSUME NoneAssumption == None \notin Messages /\ None \notin Contents
ASSUME SizesAssumption == Sizes \subseteq Nat /\ MaxInputBytes \in Nat
ASSUME MaxFaultsAssumption == MaxFaults \in Nat

VARIABLES
    body,     \* what kind of command each message carries; never changes
    stage,    \* the next call of each instance's handler
    ctx,      \* whether the job context of each instance is still live
    call,     \* the local variables of each instance's handler
    ret,      \* what the handler returned to the consumer
    dirs,     \* number of mesh-* directories under each instance's temp root
    store,    \* the output object of each command in the bucket
    signal,   \* sequence number last announced for each command
    results,  \* result events durably enqueued
    faults    \* faults so far

procVars == <<stage, ctx, call, ret, dirs, store, signal, results, faults>>

\* The kinds of command: the envelope breaks the contract; the payload does not
\* parse or has no valid job id; the job fails validation; the job is valid.
Bodies == {"contract", "identity", "rejected", "valid"}

FailureReasons == {"REJECTED", "SOURCE_NOT_FOUND", "DOWNLOAD_FAILED",
                   "OPTIMIZATION_FAILED", "UPLOAD_FAILED", "INTERNAL"}

\* The reason of a call that has not failed, and of a completed event.
NoReason == "none"

PipelineStages == {"head", "download", "inspect", "optimize", "verify", "upload"}

Stages == {"idle", "spec", "cleanup", "publish", "returned"} \cup PipelineStages

Returns == {"none", "nil", "terminal", "retryable", "plain"}

Call == [job : Messages \cup {None}, delivery : Nat,
         reason : FailureReasons \cup {NoReason},
         size : Nat, output : Contents \cup {None}]

\* The handler is entered with delivery d of command m.
NewCall(m, d) == [job |-> m, delivery |-> d, reason |-> NoReason, size |-> 0, output |-> None]

NoCall == NewCall(None, 0)

\* A result event.  delivery is history: the read count of the delivery that
\* published it, which the event itself does not carry.
Result == [job : Messages, delivery : Nat, reason : FailureReasons \cup {NoReason},
           size : Nat, output : Contents \cup {None}]

Completed(r) == r.reason = NoReason

\* One fault of kind k happens, within the bound.
Fault(k) == k \in FaultKinds /\ faults < MaxFaults /\ faults' = faults + 1

Live(i) == ctx[i] = "live"

Goto(i, s) == stage' = [stage EXCEPT ![i] = s]

\* The handler gives up on the pipeline: the reason is kept, the deferred
\* cleanup comes next.
pipelineFailed(i, reason) ==
    /\ call' = [call EXCEPT ![i].reason = reason]
    /\ Goto(i, "cleanup")

\* The sequence numbers of the progress events.
downloadStarted == 1
analysisStarted == 2
optimizationStarted == 3
outputAnalysisStarted == 4
uploadStarted == 5
optimizationCompleted == 6

Sequences == downloadStarted..optimizationCompleted

\* pg_notify, which needs a live context.
notify(i, sequence) == Live(i) /\ signal' = [signal EXCEPT ![call[i].job] = sequence]

\* A progress signal; an error (the payload is too long, the database fails, the
\* context is over) is logged and ignored.
publishProgress(i, sequence) == UNCHANGED signal \/ notify(i, sequence)

\* The handler returns: nil, a TerminalResultError, a ResultPublishError
\* (retryable) or any other error (plain).
Return(i, r) == Goto(i, "returned") /\ ret' = [ret EXCEPT ![i] = r]

\* mkdirTemp makes a new directory for each call.
CreateJobWorkDir(i) == dirs' = [dirs EXCEPT ![i] = @ + 1]

\* What a HEAD can say of the source: an answer without a length counts as 0.
ContentLengths == Sizes \cup {0}

\* PutObject replaces the output object of the command.
PutObject(i) == store' = [store EXCEPT ![call[i].job] = call[i].output]

\* A run of the command line tools is killed with the job context.
CommandSucceeds(i) == Live(i)
-----------------------------------------------------------------------------
\* Mutation: the deferred cleanup is registered before the error of
\* CreateJobWorkDir is looked at.
HandleMeshJobDefersFirst(i) ==
    /\ stage[i] = "spec"
    /\ body[call[i].job] = "valid"
    /\ pipelineFailed(i, "INTERNAL")
    /\ UNCHANGED <<ctx, ret, dirs, store, signal, results, faults>>

\* HandleMeshJob, processJob and the head of runPipeline: parse, check the job
\* id, build the job spec, make the work directory.
HandleMeshJob(i) ==
    /\ stage[i] = "spec"
    /\ \/ /\ body[call[i].job] = "identity"
          /\ Return(i, "plain")
          /\ UNCHANGED <<call, dirs>>
       \/ /\ body[call[i].job] = "rejected"
          /\ call' = [call EXCEPT ![i].reason = "REJECTED"]
          /\ Goto(i, "publish")
          /\ UNCHANGED <<ret, dirs>>
       \/ /\ body[call[i].job] = "valid"
          /\ CreateJobWorkDir(i)
          /\ Goto(i, "head")
          /\ UNCHANGED <<ret, call>>
       \/ /\ body[call[i].job] = "valid"
          /\ call' = [call EXCEPT ![i].reason = "INTERNAL"]
          /\ Goto(i, "publish")
          /\ UNCHANGED <<ret, dirs>>
    /\ UNCHANGED <<ctx, store, signal, results, faults>>

\* HEAD of the source object, which may be replaced before it is downloaded.
GetObjectSize(i) ==
    /\ stage[i] = "head"
    /\ publishProgress(i, downloadStarted)
    /\ \/ pipelineFailed(i, "SOURCE_NOT_FOUND")
       \/ \E remoteSize \in ContentLengths :
            /\ Live(i)
            /\ \/ remoteSize > MaxInputBytes /\ pipelineFailed(i, "REJECTED")
               \/ remoteSize <= MaxInputBytes /\ Goto(i, "download") /\ UNCHANGED call
    /\ UNCHANGED <<ctx, ret, dirs, store, results, faults>>

\* Mutation: the size of the downloaded file is not compared with the limit.
DownloadUnchecked(i) ==
    /\ stage[i] = "download"
    /\ Live(i)
    /\ \E size \in Sizes : call' = [call EXCEPT ![i].size = size]
    /\ Goto(i, "inspect")
    /\ UNCHANGED <<ctx, ret, dirs, store, signal, results, faults>>

\* GET of the source object into the work directory and stat of the file.
Download(i) ==
    /\ stage[i] = "download"
    /\ \/ pipelineFailed(i, "DOWNLOAD_FAILED")
       \/ \E size \in Sizes :
            /\ Live(i)
            /\ \/ size > MaxInputBytes /\ pipelineFailed(i, "REJECTED")
               \/ /\ size <= MaxInputBytes
                  /\ call' = [call EXCEPT ![i].size = size]
                  /\ Goto(i, "inspect")
    /\ UNCHANGED <<ctx, ret, dirs, store, signal, results, faults>>

\* Inspect the downloaded file.
InspectSource(i) ==
    /\ stage[i] = "inspect"
    /\ publishProgress(i, analysisStarted)
    /\ \/ pipelineFailed(i, "OPTIMIZATION_FAILED")
       \/ CommandSucceeds(i) /\ Goto(i, "optimize") /\ UNCHANGED call
    /\ UNCHANGED <<ctx, ret, dirs, store, results, faults>>

\* The optimizer command writes the output file.
Optimize(i) ==
    /\ stage[i] = "optimize"
    /\ publishProgress(i, optimizationStarted)
    /\ \/ pipelineFailed(i, "OPTIMIZATION_FAILED")
       \/ \E file \in Contents :
            /\ CommandSucceeds(i)
            /\ call' = [call EXCEPT ![i].output = file]
            /\ Goto(i, "verify")
    /\ UNCHANGED <<ctx, ret, dirs, store, results, faults>>

\* Inspect, stat and hash the output file.
InspectOutput(i) ==
    /\ stage[i] = "verify"
    /\ publishProgress(i, outputAnalysisStarted)
    /\ \/ pipelineFailed(i, "OPTIMIZATION_FAILED")
       \/ CommandSucceeds(i) /\ Goto(i, "upload") /\ UNCHANGED call
    /\ UNCHANGED <<ctx, ret, dirs, store, results, faults>>

\* Mutation: the error of the PUT is dropped.
UploadErrorDropped(i) ==
    /\ stage[i] = "upload"
    /\ UNCHANGED store \/ PutObject(i)
    /\ Goto(i, "cleanup")
    /\ UNCHANGED <<ctx, call, ret, dirs, signal, results, faults>>

\* PUT of the output file.  An error does not mean that the object was not
\* written.
Upload(i) ==
    /\ stage[i] = "upload"
    /\ publishProgress(i, uploadStarted)
    /\ \/ pipelineFailed(i, "UPLOAD_FAILED") /\ UNCHANGED store
       \/ /\ Live(i)
          /\ PutObject(i)
          /\ \/ Goto(i, "cleanup") /\ UNCHANGED call
             \/ pipelineFailed(i, "UPLOAD_FAILED")
    /\ UNCHANGED <<ctx, ret, dirs, results, faults>>

\* Mutation: the work directory is removed only after a success.
CleanupOnSuccessOnly(i) ==
    /\ stage[i] = "cleanup"
    /\ dirs' = [dirs EXCEPT ![i] = IF call[i].reason = NoReason THEN @ - 1 ELSE @]
    /\ Goto(i, "publish")
    /\ UNCHANGED <<ctx, call, ret, store, signal, results, faults>>

\* The deferred removal of the work directory; a failure is only logged.
CleanupJobWorkDir(i) ==
    /\ stage[i] = "cleanup"
    /\ \/ dirs' = [dirs EXCEPT ![i] = @ - 1] /\ UNCHANGED faults
       \/ Fault("disk") /\ UNCHANGED dirs
    /\ Goto(i, "publish")
    /\ UNCHANGED <<ctx, call, ret, store, signal, results>>

\* The event the handler builds: a completed event describes the input and the
\* output file, a failed one only its reason.
ResultEvent(i) ==
    LET c == call[i]
    IN  IF c.reason = NoReason THEN c ELSE [c EXCEPT !.size = 0, !.output = None]

enqueueResult(i) == results' = results \cup {ResultEvent(i)}

\* The ways an enqueue can fail: the event does not marshal (the text of a failed
\* optimizer command is not UTF-8), the job context is over before the call is
\* made, or the database fails it, before or after the row is inserted.
enqueueResultFails(i) ==
    \/ /\ call[i].reason = "OPTIMIZATION_FAILED"
       /\ Fault("encoding")
       /\ UNCHANGED results
    \/ ~Live(i) /\ UNCHANGED <<results, faults>>
    \/ /\ Live(i)
       /\ Fault("database")
       /\ UNCHANGED results \/ enqueueResult(i)

\* Mutation: an error of the publication turns the success into a failure event.
PublishCompleteThenFail(i) ==
    /\ stage[i] = "publish" /\ call[i].reason = NoReason
    /\ enqueueResultFails(i)
    /\ call' = [call EXCEPT ![i].reason = "INTERNAL"]
    /\ UNCHANGED <<stage, ctx, ret, dirs, store, signal>>

\* Mutation: the last progress signal is sent before the result is enqueued.
PublishProgressFirst(i) ==
    /\ stage[i] = "publish" /\ call[i].reason = NoReason
    /\ publishProgress(i, optimizationCompleted)
    /\ enqueueResultFails(i)
    /\ Return(i, "retryable")
    /\ UNCHANGED <<ctx, call, dirs, store>>

\* processJob after a pipeline without error: the completed event, and only when
\* it is in the result queue the last progress signal.  (A process that crashes between
\* the two leaves what one leaves that crashes after a signal that was not sent.)
PublishComplete(i) ==
    /\ stage[i] = "publish" /\ call[i].reason = NoReason
    /\ \/ /\ Live(i)
          /\ enqueueResult(i)
          /\ publishProgress(i, optimizationCompleted)
          /\ Return(i, "nil")
          /\ UNCHANGED faults
       \/ /\ enqueueResultFails(i)
          /\ Return(i, "retryable")
          /\ UNCHANGED signal
    /\ UNCHANGED <<ctx, call, dirs, store>>

\* publishFail: the failed event, under the same job context.
PublishFail(i) ==
    /\ stage[i] = "publish" /\ call[i].reason # NoReason
    /\ \/ /\ Live(i)
          /\ enqueueResult(i)
          /\ Return(i, "terminal")
          /\ UNCHANGED faults
       \/ /\ enqueueResultFails(i)
          /\ Return(i, "retryable")
    /\ UNCHANGED <<ctx, call, dirs, store, signal>>

\* The job's own timeout, 20 minutes by default, passes while the handler runs.
Deadline(i) ==
    /\ stage[i] \notin {"idle", "returned"}
    /\ Live(i)
    /\ Fault("deadline")
    /\ ctx' = [ctx EXCEPT ![i] = "done"]
    /\ UNCHANGED <<stage, call, ret, dirs, store, signal, results>>

HandlerStep(i) ==
    \/ HandleMeshJob(i)
    \/ GetObjectSize(i)
    \/ Download(i)
    \/ InspectSource(i)
    \/ Optimize(i)
    \/ InspectOutput(i)
    \/ Upload(i)
    \/ CleanupJobWorkDir(i)
    \/ PublishComplete(i)
    \/ PublishFail(i)
-----------------------------------------------------------------------------
ProcessorInit ==
    /\ body \in [Messages -> Bodies]
    /\ stage = [i \in Instances |-> "idle"]
    /\ ctx = [i \in Instances |-> "live"]
    /\ call = [i \in Instances |-> NoCall]
    /\ ret = [i \in Instances |-> "none"]
    /\ dirs = [i \in Instances |-> 0]
    /\ store = [m \in Messages |-> None]
    /\ signal = [m \in Messages |-> 0]
    /\ results = {}
    /\ faults = 0

ProcessorTypeOK ==
    /\ body \in [Messages -> Bodies]
    /\ stage \in [Instances -> Stages]
    /\ ctx \in [Instances -> {"live", "done"}]
    /\ call \in [Instances -> Call]
    /\ ret \in [Instances -> Returns]
    /\ dirs \in [Instances -> Nat]
    /\ store \in [Messages -> Contents \cup {None}]
    /\ signal \in [Messages -> Sequences \cup {0}]
    /\ results \subseteq Result
    /\ faults \in 0..MaxFaults
=============================================================================
