------------------------- MODULE MeshConsumerProofs -------------------------
(***************************************************************************)
(* Proofs about MeshConsumer, for any number of instances and commands,    *)
(* any retry limit, any fault kinds and any number of faults.              *)
(***************************************************************************)
EXTENDS MeshConsumer, TLAPS

Assumptions ==
    /\ None \notin Messages /\ None \notin Contents
    /\ Sizes \subseteq Nat /\ MaxInputBytes \in Nat
    /\ MaxFaults \in Nat /\ RetryLimit \in Nat

LEMMA AssumptionsHold == Assumptions
BY NoneAssumption, SizesAssumption, MaxFaultsAssumption, RetryLimitAssumption DEF Assumptions

\* The stages between the creation and the removal of the work directory.
WorkDirStages == PipelineStages \cup {"cleanup"}

\* The worker and its handler agree: the handler is active exactly while the worker
\* is in "handle", a worker that holds a message has a command in its call record,
\* a command
\* that breaks the contract is not in the handler, and a work directory exists from
\* its creation to its removal.
Control ==
    \A i \in Instances :
        /\ at[i] \in Holding => call[i].job \in Messages
        /\ at[i] = "handle" <=> stage[i] # "idle"
        /\ at[i] = "handle" => body[call[i].job] # "contract"
        /\ stage[i] \in WorkDirStages => dirs[i] > 0

TypeInv == TypeOK /\ Control
-----------------------------------------------------------------------------
\* The names the actions use are members of their sets.
LEMMA Names ==
    /\ {"idle", "spec", "cleanup", "publish", "returned",
        "head", "download", "inspect", "optimize", "verify", "upload"} = Stages
    /\ {"none", "nil", "terminal", "retryable", "plain"} = Returns
    /\ {"REJECTED", "SOURCE_NOT_FOUND", "DOWNLOAD_FAILED", "OPTIMIZATION_FAILED",
        "UPLOAD_FAILED", "INTERNAL", NoReason} = FailureReasons \cup {NoReason}
    /\ NoReason \notin FailureReasons
BY DEF Stages, PipelineStages, Returns, FailureReasons, NoReason

\* Assigning one field of a call keeps its type and the other fields.
LEMMA SetReason ==
    ASSUME call \in [Instances -> Call], NEW i \in Instances,
           NEW reason \in FailureReasons \cup {NoReason},
           call' = [call EXCEPT ![i].reason = reason]
    PROVE  /\ call' \in [Instances -> Call]
           /\ call'[i] = [call[i] EXCEPT !.reason = reason]
           /\ call'[i].job = call[i].job /\ call'[i].delivery = call[i].delivery
           /\ call'[i].size = call[i].size /\ call'[i].output = call[i].output
           /\ call'[i].reason = reason
           /\ \A j \in Instances : j # i => call'[j] = call[j]
BY DEF Call

LEMMA SetSize ==
    ASSUME call \in [Instances -> Call], NEW i \in Instances, NEW size \in Nat,
           call' = [call EXCEPT ![i].size = size]
    PROVE  /\ call' \in [Instances -> Call]
           /\ call'[i].job = call[i].job /\ call'[i].delivery = call[i].delivery
           /\ call'[i].reason = call[i].reason /\ call'[i].output = call[i].output
           /\ call'[i].size = size
           /\ \A j \in Instances : j # i => call'[j] = call[j]
BY DEF Call

LEMMA SetOutput ==
    ASSUME call \in [Instances -> Call], NEW i \in Instances, NEW file \in Contents,
           call' = [call EXCEPT ![i].output = file]
    PROVE  /\ call' \in [Instances -> Call]
           /\ call'[i].job = call[i].job /\ call'[i].delivery = call[i].delivery
           /\ call'[i].reason = call[i].reason /\ call'[i].size = call[i].size
           /\ call'[i].output = file
           /\ \A j \in Instances : j # i => call'[j] = call[j]
BY DEF Call

LEMMA GotoStage ==
    ASSUME stage \in [Instances -> Stages], NEW i \in Instances, NEW s \in Stages, Goto(i, s)
    PROVE  /\ stage' \in [Instances -> Stages]
           /\ stage'[i] = s
           /\ \A j \in Instances : j # i => stage'[j] = stage[j]
BY DEF Goto

LEMMA PublishProgressType ==
    ASSUME signal \in [Messages -> Sequences \cup {0}], NEW i \in Instances, NEW n \in Sequences,
           publishProgress(i, n)
    PROVE  signal' \in [Messages -> Sequences \cup {0}]
BY DEF publishProgress, notify

LEMMA SequencesType ==
    {downloadStarted, analysisStarted, optimizationStarted, outputAnalysisStarted,
     uploadStarted, optimizationCompleted} \subseteq Sequences
BY DEF Sequences, downloadStarted, analysisStarted, optimizationStarted,
       outputAnalysisStarted, uploadStarted, optimizationCompleted

LEMMA FaultType ==
    ASSUME faults \in 0..MaxFaults, NEW k, Fault(k)
    PROVE  faults' \in 0..MaxFaults
BY AssumptionsHold DEF Fault, Assumptions

\* The result event of an active call has its type; it names the command and the
\* delivery of the call, and its outcome is the one of the call.
LEMMA ResultEventType ==
    ASSUME call \in [Instances -> Call], NEW i \in Instances, call[i].job \in Messages
    PROVE  /\ ResultEvent(i) \in Result
           /\ ResultEvent(i).job = call[i].job
           /\ ResultEvent(i).delivery = call[i].delivery
           /\ ResultEvent(i).reason = call[i].reason
           /\ call[i].reason = NoReason => ResultEvent(i) = call[i]
BY DEF Call, Result, ResultEvent
-----------------------------------------------------------------------------
\* What every step of the handler of instance i leaves alone.
HandlerFrame(i) ==
    /\ call'[i].job = call[i].job /\ call'[i].delivery = call[i].delivery
    /\ \A j \in Instances : j # i =>
          call'[j] = call[j] /\ stage'[j] = stage[j] /\ ret'[j] = ret[j] /\ dirs'[j] = dirs[j]

\* The three kinds of handler step, as far as the invariants tell them apart.
SpecStep(i) ==
    /\ stage[i] = "spec" /\ results' = results
    /\ \/ body[call[i].job] = "identity" /\ stage'[i] = "returned" /\ ret'[i] = "plain"
       \/ body[call[i].job] = "valid" /\ stage'[i] = "head" /\ dirs'[i] > 0 /\ ret' = ret
       \/ body[call[i].job] \in {"rejected", "valid"} /\ stage'[i] = "publish" /\ ret' = ret

PipelineStep(i) ==
    /\ stage[i] \in WorkDirStages
    /\ results' = results /\ ret' = ret
    /\ \/ stage'[i] \in WorkDirStages /\ dirs'[i] > 0
       \/ stage'[i] = "publish"

PublishStep(i) ==
    /\ stage[i] = "publish" /\ stage'[i] = "returned"
    /\ \/ results' = results \cup {ResultEvent(i)} /\ ret'[i] \in {"nil", "terminal", "retryable"}
       \/ results' = results /\ ret'[i] = "retryable"

HandlerPre(i) ==
    /\ ProcessorTypeOK
    /\ call[i].job \in Messages
    /\ stage[i] \in WorkDirStages => dirs[i] > 0

\* Giving up keeps the types and leads to the cleanup.
LEMMA PipelineFailedEffect ==
    ASSUME ProcessorTypeOK, NEW i \in Instances, NEW reason \in FailureReasons,
           pipelineFailed(i, reason)
    PROVE  /\ call' \in [Instances -> Call] /\ stage' \in [Instances -> Stages]
           /\ call'[i].job = call[i].job /\ call'[i].delivery = call[i].delivery
           /\ \A j \in Instances : j # i => call'[j] = call[j] /\ stage'[j] = stage[j]
           /\ stage'[i] = "cleanup"
BY SetReason, GotoStage, Names, ZenonT(30) DEF pipelineFailed, ProcessorTypeOK

\* Parsing, validation and the creation of the work directory.
LEMMA HandleMeshJobEffect ==
    ASSUME NEW i \in Instances, HandlerPre(i), body' = body, HandleMeshJob(i)
    PROVE  ProcessorTypeOK' /\ HandlerFrame(i) /\ SpecStep(i)
PROOF
<1> USE DEF HandlerPre, ProcessorTypeOK, HandleMeshJob, HandlerFrame, SpecStep
<1>1. CASE body[call[i].job] = "identity" /\ Return(i, "plain") /\ UNCHANGED <<call, dirs>>
  BY <1>1, GotoStage, Names DEF Return
<1>2. CASE /\ body[call[i].job] = "rejected" /\ call' = [call EXCEPT ![i].reason = "REJECTED"]
           /\ Goto(i, "publish") /\ UNCHANGED <<ret, dirs>>
  <2>1. /\ call' \in [Instances -> Call]
        /\ call'[i].job = call[i].job /\ call'[i].delivery = call[i].delivery
        /\ \A j \in Instances : j # i => call'[j] = call[j]
    BY <1>2, SetReason, Names
  <2>2. /\ body[call[i].job] \in {"rejected", "valid"}
        /\ Goto(i, "publish") /\ UNCHANGED <<ret, dirs, ctx, store, signal, results, faults>>
    BY <1>2
  <2> HIDE DEF HandleMeshJob
  <2>3. stage[i] = "spec"
    BY DEF HandleMeshJob
  <2> QED
    BY <2>1, <2>2, <2>3, GotoStage, Names
<1>3. CASE /\ body[call[i].job] = "valid" /\ CreateJobWorkDir(i)
           /\ Goto(i, "head") /\ UNCHANGED <<ret, call>>
  BY <1>3, GotoStage, Names DEF CreateJobWorkDir
<1>4. CASE /\ body[call[i].job] = "valid" /\ call' = [call EXCEPT ![i].reason = "INTERNAL"]
           /\ Goto(i, "publish") /\ UNCHANGED <<ret, dirs>>
  <2>1. /\ call' \in [Instances -> Call]
        /\ call'[i].job = call[i].job /\ call'[i].delivery = call[i].delivery
        /\ \A j \in Instances : j # i => call'[j] = call[j]
    BY <1>4, SetReason, Names
  <2>2. /\ body[call[i].job] \in {"rejected", "valid"}
        /\ Goto(i, "publish") /\ UNCHANGED <<ret, dirs, ctx, store, signal, results, faults>>
    BY <1>4
  <2> HIDE DEF HandleMeshJob
  <2>3. stage[i] = "spec"
    BY DEF HandleMeshJob
  <2> QED
    BY <2>1, <2>2, <2>3, GotoStage, Names
<1> QED
  BY <1>1, <1>2, <1>3, <1>4

\* The calls of the pipeline and the removal of the work directory.
LEMMA PipelineEffect ==
    ASSUME NEW i \in Instances, HandlerPre(i), body' = body,
           \/ GetObjectSize(i) \/ Download(i) \/ InspectSource(i) \/ Optimize(i)
           \/ InspectOutput(i) \/ Upload(i) \/ CleanupJobWorkDir(i)
    PROVE  ProcessorTypeOK' /\ HandlerFrame(i) /\ PipelineStep(i)
PROOF
<1> USE DEF HandlerPre, HandlerFrame, PipelineStep
<1>a. /\ {"head", "download", "inspect", "optimize", "verify", "upload", "cleanup"} = WorkDirStages
      /\ {"REJECTED", "SOURCE_NOT_FOUND", "DOWNLOAD_FAILED", "OPTIMIZATION_FAILED",
          "UPLOAD_FAILED", "INTERNAL"} = FailureReasons
  BY DEF WorkDirStages, PipelineStages, FailureReasons
<1>1. CASE GetObjectSize(i)
  <2>1. signal' \in [Messages -> Sequences \cup {0}]
    BY <1>1, PublishProgressType, SequencesType DEF GetObjectSize, ProcessorTypeOK
  <2>2. CASE pipelineFailed(i, "SOURCE_NOT_FOUND") \/ pipelineFailed(i, "REJECTED")
    BY <1>1, <1>a, <2>1, <2>2, PipelineFailedEffect DEF GetObjectSize, ProcessorTypeOK
  <2>3. CASE Goto(i, "download") /\ UNCHANGED call
    BY <1>1, <1>a, <2>1, <2>3, GotoStage, Names DEF GetObjectSize, ProcessorTypeOK
  <2> QED
    BY <1>1, <2>2, <2>3 DEF GetObjectSize
<1>2. CASE Download(i)
  <2>2. CASE pipelineFailed(i, "DOWNLOAD_FAILED") \/ pipelineFailed(i, "REJECTED")
    BY <1>2, <1>a, <2>2, PipelineFailedEffect DEF Download, ProcessorTypeOK
  <2>3. ASSUME NEW size \in Sizes, call' = [call EXCEPT ![i].size = size], Goto(i, "inspect")
        PROVE  ProcessorTypeOK' /\ HandlerFrame(i) /\ PipelineStep(i)
    <3>1. size \in Nat
      BY AssumptionsHold DEF Assumptions
    <3> QED
      <4>1. /\ call' \in [Instances -> Call]
          /\ call'[i].job = call[i].job /\ call'[i].delivery = call[i].delivery
          /\ \A j \in Instances : j # i => call'[j] = call[j]
        BY <2>3, <3>1, SetSize DEF ProcessorTypeOK
      <4>2. /\ stage[i] = "download" /\ Goto(i, "inspect")
            /\ UNCHANGED <<ctx, ret, dirs, store, signal, results, faults>>
        BY <1>2, <2>3 DEF Download
      <4> QED
        BY <1>a, <4>1, <4>2, GotoStage, Names DEF ProcessorTypeOK
  <2> QED
    BY <1>2, <2>2, <2>3 DEF Download
<1>3. CASE InspectSource(i)
  <2>1. signal' \in [Messages -> Sequences \cup {0}]
    BY <1>3, PublishProgressType, SequencesType DEF InspectSource, ProcessorTypeOK
  <2>2. CASE pipelineFailed(i, "OPTIMIZATION_FAILED")
    BY <1>3, <1>a, <2>1, <2>2, PipelineFailedEffect DEF InspectSource, ProcessorTypeOK
  <2>3. CASE Goto(i, "optimize") /\ UNCHANGED call
    BY <1>3, <1>a, <2>1, <2>3, GotoStage, Names DEF InspectSource, ProcessorTypeOK
  <2> QED
    BY <1>3, <2>2, <2>3 DEF InspectSource
<1>4. CASE Optimize(i)
  <2>1. signal' \in [Messages -> Sequences \cup {0}]
    BY <1>4, PublishProgressType, SequencesType DEF Optimize, ProcessorTypeOK
  <2>2. CASE pipelineFailed(i, "OPTIMIZATION_FAILED")
    BY <1>4, <1>a, <2>1, <2>2, PipelineFailedEffect DEF Optimize, ProcessorTypeOK
  <2>3. ASSUME NEW file \in Contents, call' = [call EXCEPT ![i].output = file], Goto(i, "verify")
        PROVE  ProcessorTypeOK' /\ HandlerFrame(i) /\ PipelineStep(i)
    <3>1. /\ call' \in [Instances -> Call]
          /\ call'[i].job = call[i].job /\ call'[i].delivery = call[i].delivery
          /\ \A j \in Instances : j # i => call'[j] = call[j]
      BY <2>3, SetOutput DEF ProcessorTypeOK
    <3>2. /\ stage[i] = "optimize" /\ Goto(i, "verify")
          /\ UNCHANGED <<ctx, ret, dirs, store, results, faults>>
      BY <1>4, <2>3 DEF Optimize
    <3> QED
      BY <1>a, <2>1, <3>1, <3>2, GotoStage, Names DEF ProcessorTypeOK
  <2> QED
    BY <1>4, <2>2, <2>3 DEF Optimize
<1>5. CASE InspectOutput(i)
  <2>1. signal' \in [Messages -> Sequences \cup {0}]
    BY <1>5, PublishProgressType, SequencesType DEF InspectOutput, ProcessorTypeOK
  <2>2. CASE pipelineFailed(i, "OPTIMIZATION_FAILED")
    BY <1>5, <1>a, <2>1, <2>2, PipelineFailedEffect DEF InspectOutput, ProcessorTypeOK
  <2>3. CASE Goto(i, "upload") /\ UNCHANGED call
    BY <1>5, <1>a, <2>1, <2>3, GotoStage, Names DEF InspectOutput, ProcessorTypeOK
  <2> QED
    BY <1>5, <2>2, <2>3 DEF InspectOutput
<1>6. CASE Upload(i)
  <2>1. signal' \in [Messages -> Sequences \cup {0}]
    BY <1>6, PublishProgressType, SequencesType DEF Upload, ProcessorTypeOK
  <2>2. store' \in [Messages -> Contents \cup {None}]
    BY <1>6 DEF Upload, PutObject, ProcessorTypeOK, Call
  <2>3. CASE pipelineFailed(i, "UPLOAD_FAILED")
    BY <1>6, <1>a, <2>1, <2>2, <2>3, PipelineFailedEffect DEF Upload, ProcessorTypeOK
  <2>4. CASE Goto(i, "cleanup") /\ UNCHANGED call
    BY <1>6, <1>a, <2>1, <2>2, <2>4, GotoStage, Names DEF Upload, ProcessorTypeOK
  <2> QED
    BY <1>6, <2>3, <2>4 DEF Upload
<1>7. CASE CleanupJobWorkDir(i)
  <2>1. dirs' \in [Instances -> Nat] /\ \A j \in Instances : j # i => dirs'[j] = dirs[j]
    BY <1>7, <1>a DEF CleanupJobWorkDir, ProcessorTypeOK
  <2>2. faults' \in 0..MaxFaults
    BY <1>7, FaultType DEF CleanupJobWorkDir, ProcessorTypeOK
  <2> QED
    BY <1>7, <1>a, <2>1, <2>2, GotoStage, Names DEF CleanupJobWorkDir, ProcessorTypeOK
<1> QED
  BY <1>1, <1>2, <1>3, <1>4, <1>5, <1>6, <1>7

\* The publication of the result event.
LEMMA PublishEffect ==
    ASSUME NEW i \in Instances, HandlerPre(i), body' = body,
           PublishComplete(i) \/ PublishFail(i)
    PROVE  ProcessorTypeOK' /\ HandlerFrame(i) /\ PublishStep(i)
PROOF
<1> USE DEF HandlerPre, HandlerFrame, PublishStep
<1>1. ResultEvent(i) \in Result
  BY ResultEventType DEF ProcessorTypeOK
<1>2. ASSUME enqueueResultFails(i)
      PROVE  /\ results' = results \/ results' = results \cup {ResultEvent(i)}
             /\ faults' \in 0..MaxFaults
  BY <1>2, FaultType DEF enqueueResultFails, enqueueResult, ProcessorTypeOK
<1>3. CASE PublishComplete(i)
  <2>1. signal' \in [Messages -> Sequences \cup {0}]
    BY <1>3, PublishProgressType, SequencesType DEF PublishComplete, ProcessorTypeOK
  <2>2. CASE Live(i) /\ enqueueResult(i) /\ Return(i, "nil") /\ UNCHANGED faults
    BY <1>1, <1>3, <2>1, <2>2, GotoStage, Names
    DEF PublishComplete, enqueueResult, Return, ProcessorTypeOK
  <2>3. CASE enqueueResultFails(i) /\ Return(i, "retryable")
    BY <1>1, <1>2, <1>3, <2>1, <2>3, GotoStage, Names DEF PublishComplete, Return, ProcessorTypeOK
  <2> QED
    BY <1>3, <2>2, <2>3 DEF PublishComplete
<1>4. CASE PublishFail(i)
  <2>2. CASE Live(i) /\ enqueueResult(i) /\ Return(i, "terminal") /\ UNCHANGED faults
    BY <1>1, <1>4, <2>2, GotoStage, Names
    DEF PublishFail, enqueueResult, Return, ProcessorTypeOK
  <2>3. CASE enqueueResultFails(i) /\ Return(i, "retryable")
    BY <1>1, <1>2, <1>4, <2>3, GotoStage, Names DEF PublishFail, Return, ProcessorTypeOK
  <2> QED
    BY <1>4, <2>2, <2>3 DEF PublishFail
<1> QED
  BY <1>3, <1>4

\* Every step of the handler keeps the types, touches only its own instance and is
\* one of the three kinds.
LEMMA HandlerEffect ==
    ASSUME NEW i \in Instances, HandlerPre(i), body' = body, HandlerStep(i)
    PROVE  /\ ProcessorTypeOK' /\ HandlerFrame(i)
           /\ SpecStep(i) \/ PipelineStep(i) \/ PublishStep(i)
BY HandleMeshJobEffect, PipelineEffect, PublishEffect DEF HandlerStep
-----------------------------------------------------------------------------
\* What the queue's calls do to a row.
LEMMA RowOps ==
    ASSUME NEW row \in Row
    PROVE  /\ RowRead(row) \in Row /\ RowRead(row).st = row.st
           /\ RowRead(row).readCount = row.readCount + 1
           /\ RowDelete(row) \in Row /\ RowDelete(row).readCount = row.readCount
           /\ RowDelete(row).st = IF row.st = "queued" THEN "deleted" ELSE row.st
           /\ RowArchive(row) \in Row /\ RowArchive(row).readCount = row.readCount
           /\ RowArchive(row).st = IF row.st = "queued" THEN "archived" ELSE row.st
           /\ RowSetVt(row, TRUE) \in Row /\ RowSetVt(row, TRUE).st = row.st
           /\ RowSetVt(row, TRUE).readCount = row.readCount
           /\ RowSetVt(row, FALSE) \in Row /\ RowSetVt(row, FALSE).st = row.st
           /\ RowSetVt(row, FALSE).readCount = row.readCount
           /\ RowExpire(row) \in Row /\ RowExpire(row).st = row.st
           /\ RowExpire(row).readCount = row.readCount
PROOF
<1> USE DEF Row, RowStates
<1>1. /\ RowRead(row) \in Row /\ RowRead(row).st = row.st
      /\ RowRead(row).readCount = row.readCount + 1
  BY DEF RowRead
<1>2. /\ RowDelete(row) \in Row /\ RowDelete(row).readCount = row.readCount
      /\ RowDelete(row).st = IF row.st = "queued" THEN "deleted" ELSE row.st
  BY DEF RowDelete
<1>3. /\ RowArchive(row) \in Row /\ RowArchive(row).readCount = row.readCount
      /\ RowArchive(row).st = IF row.st = "queued" THEN "archived" ELSE row.st
  BY DEF RowArchive
<1>4. /\ RowSetVt(row, TRUE) \in Row /\ RowSetVt(row, TRUE).st = row.st
      /\ RowSetVt(row, TRUE).readCount = row.readCount
  BY DEF RowSetVt
<1>5. /\ RowSetVt(row, FALSE) \in Row /\ RowSetVt(row, FALSE).st = row.st
      /\ RowSetVt(row, FALSE).readCount = row.readCount
  BY DEF RowSetVt
<1>6. /\ RowExpire(row) \in Row /\ RowExpire(row).st = row.st
      /\ RowExpire(row).readCount = row.readCount
  BY DEF RowExpire
<1> QED
  BY <1>1, <1>2, <1>3, <1>4, <1>5, <1>6

\* One row of the queue is replaced.
LEMMA SetRowEffect ==
    ASSUME queue \in [Messages -> Row], NEW m \in Messages, NEW row \in Row, SetRow(m, row)
    PROVE  /\ queue' \in [Messages -> Row]
           /\ queue'[m] = row
           /\ \A n \in Messages : n # m => queue'[n] = queue[n]
BY DEF SetRow

\* A settling call under the parent context replaces the row of the message in
\* hand, or fails and leaves the queue alone.
LEMMA SettleEffect ==
    ASSUME TypeOK, NEW i \in Instances, call[i].job \in Messages, NEW row \in Row,
           SettleUnderParent(i, row)
    PROVE  /\ queue' \in [Messages -> Row] /\ faults' \in 0..MaxFaults
           /\ queue' = queue \/ SetRow(call[i].job, row)
BY SetRowEffect, FaultType DEF SettleUnderParent, TypeOK, ProcessorTypeOK

LEMMA NewCallType ==
    ASSUME NEW m \in Messages \cup {None}, NEW d \in Nat
    PROVE  /\ NewCall(m, d) \in Call
           /\ NewCall(m, d).job = m /\ NewCall(m, d).delivery = d
BY DEF NewCall, Call

LEMMA NoCallType == NoCall \in Call
BY NewCallType DEF NoCall

\* Back to the top of the loop.
LEMMA NextMessageEffect ==
    ASSUME TypeOK, NEW i \in Instances, NextMessage(i)
    PROVE  /\ at' \in [Instances -> AtStates] /\ call' \in [Instances -> Call]
           /\ at'[i] = "poll"
           /\ \A j \in Instances : j # i => at'[j] = at[j] /\ call'[j] = call[j]
BY NoCallType DEF NextMessage, GoAt, TypeOK, ProcessorTypeOK, AtStates

\* What a settling call of instance i leaves alone.
SettleFrame(i) ==
    /\ TypeOK'
    /\ UNCHANGED settleUnchanged
    /\ at'[i] = "poll"
    /\ \A j \in Instances : j # i => at'[j] = at[j] /\ call'[j] = call[j]

\* The four settling calls.
LEMMA SettlingEffect ==
    ASSUME TypeOK, Control, NEW i \in Instances
    PROVE  /\ complete(i) => SettleFrame(i)
                /\ (queue' = queue \/ SetRow(call[i].job, RowDelete(queue[call[i].job])))
           /\ deadLetter(i) => SettleFrame(i)
                /\ (queue' = queue \/ SetRow(call[i].job, RowArchive(queue[call[i].job])))
           /\ retry(i) => SettleFrame(i)
                /\ (queue' = queue \/ SetRow(call[i].job, RowSetVt(queue[call[i].job], TRUE)))
           /\ requeue(i) => SettleFrame(i)
                /\ (queue' = queue \/ SetRow(call[i].job, RowSetVt(queue[call[i].job], FALSE)))
PROOF
<1> DEFINE job == call[i].job
<1>1. ASSUME at[i] \in Holding
      PROVE  /\ job \in Messages /\ queue[job] \in Row
             /\ RowDelete(queue[job]) \in Row /\ RowArchive(queue[job]) \in Row
             /\ RowSetVt(queue[job], TRUE) \in Row /\ RowSetVt(queue[job], FALSE) \in Row
  <2>1. job \in Messages
    BY <1>1 DEF Control
  <2>2. queue[job] \in Row
    BY <2>1 DEF TypeOK
  <2> QED
    BY <2>1, <2>2, RowOps
<1>2. ASSUME NextMessage(i), UNCHANGED settleUnchanged,
             queue' \in [Messages -> Row], faults' \in 0..MaxFaults
      PROVE  SettleFrame(i)
  BY <1>2, NextMessageEffect DEF SettleFrame, settleUnchanged, TypeOK, ProcessorTypeOK
<1>3. ASSUME complete(i)
      PROVE  SettleFrame(i) /\ (queue' = queue \/ SetRow(job, RowDelete(queue[job])))
  BY <1>1, <1>2, <1>3, SettleEffect DEF complete, Holding
<1>4. ASSUME deadLetter(i)
      PROVE  SettleFrame(i) /\ (queue' = queue \/ SetRow(job, RowArchive(queue[job])))
  BY <1>1, <1>2, <1>4, SettleEffect DEF deadLetter, Holding
<1>5. ASSUME retry(i)
      PROVE  SettleFrame(i) /\ (queue' = queue \/ SetRow(job, RowSetVt(queue[job], TRUE)))
  BY <1>1, <1>2, <1>5, SettleEffect DEF retry, Holding
<1>6. ASSUME requeue(i)
      PROVE  SettleFrame(i) /\ (queue' = queue \/ SetRow(job, RowSetVt(queue[job], FALSE)))
  <2>1. CASE SetRow(job, RowSetVt(queue[job], FALSE)) /\ UNCHANGED faults
    BY <1>1, <1>2, <1>6, <2>1, SetRowEffect DEF requeue, Holding, TypeOK, ProcessorTypeOK
  <2>2. CASE Fault("database") /\ UNCHANGED queue
    BY <1>2, <1>6, <2>2, FaultType DEF requeue, TypeOK, ProcessorTypeOK
  <2> QED
    BY <1>6, <2>1, <2>2 DEF requeue
<1> QED
  BY <1>3, <1>4, <1>5, <1>6
-----------------------------------------------------------------------------
\* The types and the agreement of worker and handler are inductive.
LEMMA TypeInvInit == Init => TypeInv
PROOF
<1> SUFFICES ASSUME Init PROVE TypeInv
  OBVIOUS
<1>1. ProcessorTypeOK
  BY AssumptionsHold, Names, NoCallType DEF Assumptions, Init, ProcessorInit, ProcessorTypeOK
<1>2. queue \in [Messages -> Row] /\ at \in [Instances -> AtStates] /\ mode \in [Instances -> Modes]
  BY DEF Init, Enqueued, Row, RowStates, AtStates, Modes
<1>3. Control
  BY DEF Init, ProcessorInit, Control, Holding, WorkDirStages, PipelineStages
<1> QED
  BY <1>1, <1>2, <1>3 DEF TypeInv, TypeOK

LEMMA TypeInvNext == TypeInv /\ [Next]_vars => TypeInv'
PROOF
<1> SUFFICES ASSUME TypeOK, Control, [Next]_vars
             PROVE  TypeInv'
  BY DEF TypeInv
<1> USE DEF TypeInv, TypeOK
<1>1. CASE UNCHANGED vars
  BY <1>1 DEF vars, procVars, ProcessorTypeOK, Control
<1>2. ASSUME NEW i \in Instances, Start(i) PROVE TypeInv'
  BY <1>2 DEF Start, CleanupStaleWorkDirs, StartConsumer, GoAt, ProcessorTypeOK, Control, AtStates, Modes, Holding,
              WorkDirStages, PipelineStages
<1>3. ASSUME NEW i \in Instances, StartFails(i) PROVE TypeInv'
  <2>1. PICK left \in 0..dirs[i] : dirs' = [dirs EXCEPT ![i] = left]
    BY <1>3 DEF StartFails
  <2>2. dirs[i] \in Nat /\ left \in Nat
    BY <2>1 DEF ProcessorTypeOK
  <2>3. faults' \in 0..MaxFaults
    BY <1>3, FaultType DEF StartFails, ProcessorTypeOK
  <2>4. stage[i] = "idle" /\ "idle" \notin WorkDirStages
    BY <1>3 DEF StartFails, Control, WorkDirStages, PipelineStages
  <2> QED
    BY <1>3, <2>1, <2>2, <2>3, <2>4 DEF StartFails, ProcessorTypeOK, Control
<1>4. ASSUME NEW i \in Instances, Ready(i) PROVE TypeInv'
  BY <1>4 DEF Ready, procVars, ProcessorTypeOK, Control, Modes
<1>5. ASSUME NEW i \in Instances, HealthListenFails(i) PROVE TypeInv'
  BY <1>5, FaultType DEF HealthListenFails, ProcessorTypeOK, Control, Modes
<1>6. ASSUME NEW i \in Instances, Shutdown(i) PROVE TypeInv'
  BY <1>6, FaultType DEF Shutdown, ProcessorTypeOK, Control, Modes
<1>7. ASSUME NEW i \in Instances, Crash(i) PROVE TypeInv'
  BY <1>7, FaultType, Names, NoCallType
  DEF Crash, Exit, GoAt, ProcessorTypeOK, Control, Modes, AtStates, Holding, WorkDirStages,
      PipelineStages
<1>8. ASSUME NEW i \in Instances, Timeout(i) PROVE TypeInv'
  BY <1>8, FaultType DEF Timeout, Deadline, ProcessorTypeOK, Control
<1>9. ASSUME NEW i \in Instances, WorkerSelect(i) PROVE TypeInv'
  BY <1>9 DEF WorkerSelect, Exit, GoAt, procVars, ProcessorTypeOK, Control, Modes, AtStates, Holding
<1>10. ASSUME NEW i \in Instances, NEW m \in Messages, Read(i, m) PROVE TypeInv'
  <2>1. queue' \in [Messages -> Row]
    BY <1>10, RowOps, SetRowEffect DEF Read
  <2>2. queue[m].readCount + 1 \in Nat
    BY DEF Row
  <2>3. call' \in [Instances -> Call] /\ call'[i].job = m
        /\ \A j \in Instances : j # i => call'[j] = call[j]
    BY <1>10, <2>2, NewCallType DEF Read, ProcessorTypeOK
  <2>4. stage[i] = "idle"
    BY <1>10 DEF Read, Control
  <2>5. CASE body[m] = "contract" /\ GoAt(i, "deadLetter") /\ UNCHANGED stage
    BY <1>10, <2>1, <2>3, <2>4, <2>5
    DEF Read, GoAt, ProcessorTypeOK, Control, AtStates, Holding
  <2>6. CASE body[m] # "contract" /\ GoAt(i, "handle") /\ Goto(i, "spec")
    <3>1. "spec" \in Stages /\ "spec" \notin WorkDirStages
      BY DEF Stages, WorkDirStages, PipelineStages
    <3> QED
      BY <1>10, <2>1, <2>3, <2>4, <2>6, <3>1, GotoStage
      DEF Read, GoAt, ProcessorTypeOK, Control, AtStates, Holding
  <2> QED
    BY <1>10, <2>5, <2>6 DEF Read
<1>11. ASSUME NEW i \in Instances, ReadNothing(i) PROVE TypeInv'
  <2>1. queue' \in [Messages -> Row] /\ faults' \in 0..MaxFaults
    BY <1>11, RowOps, SetRowEffect, FaultType DEF ReadNothing, ProcessorTypeOK
  <2> QED
    BY <1>11, <2>1 DEF ReadNothing, GoAt, ProcessorTypeOK, Control, AtStates, Holding
<1>12. ASSUME NEW i \in Instances, ReadCancelled(i) PROVE TypeInv'
  BY <1>12 DEF ReadCancelled, Exit, GoAt, procVars, ProcessorTypeOK, Control, Modes, AtStates, Holding
<1>13. ASSUME NEW i \in Instances, Handler(i) PROVE TypeInv'
  <2>1. HandlerPre(i) /\ HandlerStep(i) /\ UNCHANGED <<body, queue, at, mode>> /\ at[i] = "handle"
    BY <1>13 DEF Handler, HandlerPre, Control, Holding
  <2>2. /\ ProcessorTypeOK' /\ HandlerFrame(i)
        /\ SpecStep(i) \/ PipelineStep(i) \/ PublishStep(i)
    BY <2>1, HandlerEffect
  <2>3. stage'[i] # "idle" /\ (stage'[i] \in WorkDirStages => dirs'[i] > 0)
    BY <2>2 DEF SpecStep, PipelineStep, PublishStep, WorkDirStages, PipelineStages
  <2> QED
    BY <2>1, <2>2, <2>3 DEF HandlerFrame, Control
<1>14. ASSUME NEW i \in Instances, ProcessReturn(i) PROVE TypeInv'
  <2>1. Settlement(i) \in {"complete", "requeue", "retry", "deadLetter"}
    BY DEF Settlement
  <2>2. "idle" \in Stages /\ "idle" \notin WorkDirStages /\ "none" \in Returns
    BY DEF Stages, WorkDirStages, PipelineStages, Returns
  <2> QED
    BY <1>14, <2>1, <2>2, GotoStage
    DEF ProcessReturn, GoAt, ProcessorTypeOK, Control, AtStates, Holding
<1>15. ASSUME NEW i \in Instances, complete(i) \/ retry(i) \/ deadLetter(i) \/ requeue(i)
       PROVE  TypeInv'
  <2>1. SettleFrame(i)
    <3> HIDE DEF TypeOK
    <3> QED
      BY <1>15, SettlingEffect
  <2>2. at[i] # "handle"
    BY <1>15 DEF complete, retry, deadLetter, requeue
  <2> QED
    BY <2>1, <2>2 DEF SettleFrame, settleUnchanged, Control, Holding
<1>16. ASSUME NEW m \in Messages, VisibilityTimeout(m) \/ LeaseOverrun(m) PROVE TypeInv'
  <2>1. queue' \in [Messages -> Row] /\ faults' \in 0..MaxFaults
    BY <1>16, RowOps, SetRowEffect, FaultType DEF VisibilityTimeout, LeaseOverrun, ProcessorTypeOK
  <2> QED
    BY <1>16, <2>1 DEF VisibilityTimeout, LeaseOverrun, expireUnchanged, ProcessorTypeOK, Control
<1> QED
  BY <1>1, <1>2, <1>3, <1>4, <1>5, <1>6, <1>7, <1>8, <1>9, <1>10, <1>11, <1>12, <1>13, <1>14,
     <1>15, <1>16
  DEF Next, WorkerStep

\* The type invariant of the consumer holds in every behaviour.
THEOREM TypeCorrect == Spec => []TypeOK
PROOF
<1>1. TypeInv => TypeOK
  BY DEF TypeInv
<1> QED
  BY <1>1, TypeInvInit, TypeInvNext, PTL DEF Spec
-----------------------------------------------------------------------------
(***************************************************************************)
(* The inductive invariant behind the safety properties.  The properties   *)
(* themselves speak of the queue and of the results only; what makes them  *)
(* inductive is what each worker knows about the message in its hands.     *)
(***************************************************************************)

\* A delivery in hand is one the queue has made, and no two workers hold the same
\* delivery of the same command, even when one of them has overrun its lease.
DeliveryInv ==
    /\ \A i \in Instances : at[i] \in Holding =>
          call[i].delivery > 0 /\ call[i].delivery <= queue[call[i].job].readCount
    /\ \A i, j \in Instances :
          /\ i # j /\ at[i] \in Holding /\ at[j] \in Holding
          /\ call[i].job = call[j].job
          => call[i].delivery # call[j].delivery
    /\ \A r \in results : r.delivery > 0 /\ r.delivery <= queue[r.job].readCount

\* A handler that has not returned has not published, and one that returned nil or
\* a TerminalResultError has.
AnswerInv ==
    /\ \A i \in Instances : at[i] = "handle" /\ stage[i] # "returned" =>
          \A r \in results : ~(r.job = call[i].job /\ r.delivery = call[i].delivery)
    /\ \A i \in Instances :
          /\ \/ at[i] = "complete"
             \/ at[i] = "handle" /\ stage[i] = "returned" /\ ret[i] \in {"nil", "terminal"}
          => HasResult(call[i].job)

\* Why a worker dead-letters the message in its hands; only a command that passed
\* validateJobID gets further than the first stage of the handler.
VerdictInv ==
    \A i \in Instances :
        /\ at[i] = "handle" /\ stage[i] = "returned" =>
              /\ ret[i] \in {"nil", "terminal", "retryable", "plain"}
              /\ ret[i] = "plain" => Malformed(call[i].job)
        /\ at[i] = "handle" /\ stage[i] \notin {"spec", "returned"} => ~Malformed(call[i].job)
        /\ at[i] = "deadLetter" => Malformed(call[i].job) \/ call[i].delivery > RetryLimit

SettleInv == AckedOnlyWithResult /\ DeadLetterJustified

IInv ==
    /\ TypeInv /\ DeliveryInv /\ AnswerInv /\ VerdictInv
    /\ OneResultPerDelivery /\ SettleInv

LEMMA IInvInit == Init => IInv
PROOF
<1> SUFFICES ASSUME Init PROVE IInv
  OBVIOUS
<1>1. TypeInv
  BY TypeInvInit
<1>2. DeliveryInv /\ AnswerInv /\ VerdictInv /\ OneResultPerDelivery
  BY DEF Init, ProcessorInit, DeliveryInv, AnswerInv, VerdictInv, OneResultPerDelivery, Holding
<1>3. SettleInv
  BY DEF Init, Enqueued, SettleInv, AckedOnlyWithResult, DeadLetterJustified
<1> QED
  BY <1>1, <1>2, <1>3 DEF IInv

\* A step that gives no message to a worker, enqueues no result, and keeps
\* every row where it is.
LEMMA UnheldStep ==
    ASSUME IInv, TypeInv', body' = body, results' = results,
           \A m \in Messages : queue'[m].st = queue[m].st /\ queue[m].readCount <= queue'[m].readCount,
           \A j \in Instances :
               \/ at'[j] \notin Holding
               \/ at'[j] = at[j] /\ call'[j] = call[j] /\ stage'[j] = stage[j] /\ ret'[j] = ret[j]
    PROVE  IInv'
PROOF
<1> USE DEF IInv
<1>1. DeliveryInv'
  <2>1. \A m \in Messages : queue[m].readCount \in Nat /\ queue'[m].readCount \in Nat
    BY DEF TypeInv, TypeOK, Row
  <2>2. \A i \in Instances : call[i].delivery \in Nat
    BY DEF TypeInv, TypeOK, ProcessorTypeOK, Call
  <2>3. \A i \in Instances : at[i] \in Holding => call[i].job \in Messages
    BY DEF TypeInv, Control
  <2>4. \A r \in results : r.job \in Messages /\ r.delivery \in Nat
    BY DEF TypeInv, TypeOK, ProcessorTypeOK, Result
  <2> QED
    BY <2>1, <2>2, <2>3, <2>4 DEF DeliveryInv
<1>2. AnswerInv'
  BY DEF AnswerInv, HasResult, Holding
<1>3. VerdictInv'
  BY DEF VerdictInv, Malformed, Holding
<1>4. OneResultPerDelivery'
  BY DEF OneResultPerDelivery
<1>5. SettleInv'
  <2>1. \A m \in Messages : queue[m].readCount \in Nat /\ queue'[m].readCount \in Nat
    BY DEF TypeInv, TypeOK, Row
  <2> QED
    BY <2>1, AssumptionsHold
    DEF SettleInv, AckedOnlyWithResult, DeadLetterJustified, HasResult, Malformed, Assumptions
<1> QED
  BY <1>1, <1>2, <1>3, <1>4, <1>5

\* Read gives a delivery nobody has had before.
LEMMA ReadStep ==
    ASSUME IInv, TypeInv', NEW i \in Instances, NEW m \in Messages, Read(i, m)
    PROVE  IInv'
PROOF
<1> USE DEF IInv
<1> DEFINE d == queue[m].readCount + 1
<1>1. /\ \A n \in Messages : queue[n].readCount \in Nat
      /\ \A j \in Instances : call[j].delivery \in Nat
      /\ \A r \in results : r.job \in Messages /\ r.delivery \in Nat
      /\ \A j \in Instances : at[j] \in Holding => call[j].job \in Messages
  BY DEF TypeInv, TypeOK, Row, Control, ProcessorTypeOK, Call, Result
<1>2. /\ queue'[m].readCount = d /\ queue'[m].st = queue[m].st
      /\ \A n \in Messages : n # m => queue'[n] = queue[n]
  BY RowOps, SetRowEffect, ZenonT(30) DEF Read, TypeInv, TypeOK
<1>3. /\ call'[i].job = m /\ call'[i].delivery = d
      /\ \A j \in Instances : j # i => call'[j] = call[j]
  BY <1>1, NewCallType DEF Read, TypeInv, TypeOK, ProcessorTypeOK
<1>4. /\ body' = body /\ results' = results /\ ret' = ret
      /\ \A j \in Instances : j # i => at'[j] = at[j] /\ stage'[j] = stage[j]
      /\ at[i] = "read"
      /\ \/ body[m] = "contract" /\ at'[i] = "deadLetter"
         \/ at'[i] = "handle" /\ stage'[i] = "spec"
  BY DEF Read, GoAt, Goto, TypeInv, TypeOK, ProcessorTypeOK
<1> HIDE DEF d
<1>5. d \in Nat /\ d > queue[m].readCount /\ d > 0
  BY <1>1 DEF d
<1>6. DeliveryInv'
  BY <1>1, <1>2, <1>3, <1>4, <1>5 DEF DeliveryInv
<1>7. AnswerInv'
  <2>1. \A r \in results : ~(r.job = m /\ r.delivery = d)
    BY <1>1, <1>5 DEF DeliveryInv
  <2> QED
    BY <1>3, <1>4, <2>1 DEF AnswerInv, HasResult
<1>8. VerdictInv'
  BY <1>3, <1>4 DEF VerdictInv, Malformed
<1>9. OneResultPerDelivery'
  BY <1>4 DEF OneResultPerDelivery
<1>10. SettleInv'
  BY <1>1, <1>2, <1>4, <1>5, AssumptionsHold
  DEF SettleInv, AckedOnlyWithResult, DeadLetterJustified, HasResult, Malformed, Assumptions
<1> QED
  BY <1>6, <1>7, <1>8, <1>9, <1>10

\* A step of the handler publishes at most the one event of its delivery.
LEMMA HandlerInvStep ==
    ASSUME IInv, TypeInv', NEW i \in Instances, Handler(i)
    PROVE  IInv'
PROOF
<1> USE DEF IInv
<1>1. /\ HandlerPre(i) /\ HandlerStep(i) /\ at[i] = "handle"
      /\ body' = body /\ queue' = queue /\ at' = at
  BY DEF Handler, HandlerPre, TypeInv, TypeOK, Control, Holding
<1>2. /\ HandlerFrame(i)
      /\ SpecStep(i) \/ PipelineStep(i) \/ PublishStep(i)
  BY <1>1, HandlerEffect
<1>3. /\ ResultEvent(i).job = call[i].job /\ ResultEvent(i).delivery = call[i].delivery
      /\ call[i].job \in Messages
  BY <1>1, ResultEventType DEF HandlerPre, ProcessorTypeOK
<1>4. \/ results' = results
      \/ /\ results' = results \cup {ResultEvent(i)}
         /\ stage[i] # "returned" /\ stage'[i] = "returned"
  BY <1>2 DEF SpecStep, PipelineStep, PublishStep
<1>5. \A j \in Instances : call'[j].job = call[j].job /\ call'[j].delivery = call[j].delivery
  BY <1>2 DEF HandlerFrame
<1>6. \A j \in Instances : j # i => stage'[j] = stage[j] /\ ret'[j] = ret[j]
  BY <1>2 DEF HandlerFrame
<1>7. stage[i] \notin {"returned", "idle"}
  BY <1>2 DEF SpecStep, PipelineStep, PublishStep, WorkDirStages, PipelineStages
<1>8. \A j \in Instances : j # i /\ at[j] = "handle" =>
         ~(call[j].job = call[i].job /\ call[j].delivery = call[i].delivery)
  BY <1>1 DEF DeliveryInv, Holding
<1>9. DeliveryInv'
  BY <1>1, <1>3, <1>4, <1>5 DEF DeliveryInv, Holding
<1>10. AnswerInv'
  <2>1. \A j \in Instances : at'[j] = "handle" /\ stage'[j] # "returned" =>
           \A r \in results' : ~(r.job = call'[j].job /\ r.delivery = call'[j].delivery)
    BY <1>1, <1>3, <1>4, <1>5, <1>6, <1>7, <1>8 DEF AnswerInv
  <2>2. \A j \in Instances :
          /\ j # i
          /\ \/ at'[j] = "complete"
             \/ at'[j] = "handle" /\ stage'[j] = "returned" /\ ret'[j] \in {"nil", "terminal"}
          => HasResult(call[j].job)'
    BY <1>1, <1>4, <1>5, <1>6 DEF AnswerInv, HasResult
  <2>3. stage'[i] = "returned" /\ ret'[i] \in {"nil", "terminal"} => HasResult(call[i].job)'
    BY <1>2, <1>3, <1>5 DEF SpecStep, PipelineStep, PublishStep, HasResult, WorkDirStages, PipelineStages
  <2> QED
    BY <1>1, <2>1, <2>2, <2>3 DEF AnswerInv
<1>11. VerdictInv'
  <2>1. stage'[i] = "returned" => /\ ret'[i] \in {"nil", "terminal", "retryable", "plain"}
                                  /\ ret'[i] = "plain" => Malformed(call[i].job)
    BY <1>2 DEF SpecStep, PipelineStep, PublishStep, Malformed, WorkDirStages, PipelineStages
  <2>2. stage'[i] \notin {"spec", "returned"} => ~Malformed(call[i].job)
    BY <1>1, <1>2
    DEF VerdictInv, SpecStep, PipelineStep, PublishStep, Malformed, WorkDirStages, PipelineStages
  <2> QED
    BY <1>1, <1>5, <1>6, <2>1, <2>2 DEF VerdictInv, Malformed
<1>12. OneResultPerDelivery'
  BY <1>1, <1>3, <1>4 DEF AnswerInv, OneResultPerDelivery
<1>13. SettleInv'
  BY <1>1, <1>4 DEF SettleInv, AckedOnlyWithResult, DeadLetterJustified, HasResult, Malformed
<1> QED
  BY <1>9, <1>10, <1>11, <1>12, <1>13

\* The verdict on a returned handler: Complete only with a result, the archive only
\* for a command that cannot be handled or has used its attempts.
LEMMA ProcessReturnStep ==
    ASSUME IInv, TypeInv', NEW i \in Instances, ProcessReturn(i)
    PROVE  IInv'
PROOF
<1> USE DEF IInv
<1>1. /\ at[i] = "handle" /\ stage[i] = "returned"
      /\ at'[i] = Settlement(i)
      /\ \A j \in Instances : j # i => at'[j] = at[j] /\ stage'[j] = stage[j] /\ ret'[j] = ret[j]
      /\ body' = body /\ call' = call /\ results' = results /\ queue' = queue
  BY DEF ProcessReturn, GoAt, Goto, TypeInv, TypeOK, ProcessorTypeOK
<1>2. /\ Settlement(i) \in {"complete", "requeue", "retry", "deadLetter"}
      /\ Settlement(i) = "complete" => ret[i] \in {"nil", "terminal"}
      /\ Settlement(i) = "deadLetter" =>
            ret[i] \notin {"nil", "terminal"} /\ (ret[i] = "retryable" => ~(call[i].delivery <= RetryLimit))
  BY DEF Settlement
<1>3. DeliveryInv'
  BY <1>1, <1>2 DEF DeliveryInv, Holding
<1>4. AnswerInv'
  BY <1>1, <1>2 DEF AnswerInv, HasResult
<1>5. VerdictInv'
  <2>1. call[i].delivery \in Nat
    BY DEF TypeInv, TypeOK, ProcessorTypeOK, Call
  <2>2. at'[i] = "deadLetter" => Malformed(call[i].job) \/ call[i].delivery > RetryLimit
    BY <1>1, <1>2, <2>1, AssumptionsHold DEF VerdictInv, Assumptions
  <2> QED
    BY <1>1, <1>2, <2>2 DEF VerdictInv, Malformed
<1>6. OneResultPerDelivery' /\ SettleInv'
  BY <1>1 DEF OneResultPerDelivery, SettleInv, AckedOnlyWithResult, DeadLetterJustified, HasResult, Malformed
<1> QED
  BY <1>3, <1>4, <1>5, <1>6

\* Deleting or archiving the message in hand.
LEMMA FinalSettleStep ==
    ASSUME IInv, TypeInv', NEW i \in Instances, complete(i) \/ deadLetter(i)
    PROVE  IInv'
PROOF
<1> USE DEF IInv
<1> DEFINE job == call[i].job
<1>1. SettleFrame(i) /\ TypeOK /\ Control
  BY SettlingEffect DEF TypeInv
<1>2. /\ body' = body /\ results' = results /\ stage' = stage /\ ret' = ret
      /\ at'[i] = "poll"
      /\ \A j \in Instances : j # i => at'[j] = at[j] /\ call'[j] = call[j]
  BY <1>1 DEF SettleFrame, settleUnchanged
<1>3. \A j \in Instances :
         \/ at'[j] \notin Holding
         \/ at'[j] = at[j] /\ call'[j] = call[j] /\ stage'[j] = stage[j] /\ ret'[j] = ret[j]
  BY <1>2 DEF Holding
<1>4. job \in Messages /\ queue[job] \in Row /\ queue[job].readCount \in Nat
  BY <1>1 DEF Control, Holding, complete, deadLetter, TypeOK, Row
<1>5. CASE queue' = queue
  <2>1. \A m \in Messages : queue'[m].st = queue[m].st /\ queue[m].readCount <= queue'[m].readCount
    BY <1>1, <1>5 DEF TypeOK, Row
  <2> QED
    BY <1>2, <1>3, <2>1, UnheldStep
<1>6. CASE queue' # queue
  <2>1. /\ \A n \in Messages : queue'[n].readCount = queue[n].readCount
        /\ \A n \in Messages : n # job => queue'[n].st = queue[n].st
        /\ queue'[job].st = queue[job].st
           \/ (at[i] = "complete" /\ queue'[job].st = "deleted")
           \/ (at[i] = "deadLetter" /\ queue'[job].st = "archived")
    <3>1. CASE complete(i)
      <4>1. SetRow(job, RowDelete(queue[job])) /\ at[i] = "complete"
        BY <1>1, <1>6, <3>1, SettlingEffect DEF complete
      <4>2. /\ RowDelete(queue[job]) \in Row /\ RowDelete(queue[job]).readCount = queue[job].readCount
            /\ RowDelete(queue[job]).st \in {queue[job].st, "deleted"}
        BY <1>4, RowOps
      <4>3. /\ queue'[job] = RowDelete(queue[job])
            /\ \A n \in Messages : n # job => queue'[n] = queue[n]
        BY <1>1, <1>4, <4>1, <4>2, SetRowEffect DEF TypeOK
      <4> QED
        BY <4>1, <4>2, <4>3
    <3>2. CASE deadLetter(i)
      <4>1. SetRow(job, RowArchive(queue[job])) /\ at[i] = "deadLetter"
        BY <1>1, <1>6, <3>2, SettlingEffect DEF deadLetter
      <4>2. /\ RowArchive(queue[job]) \in Row /\ RowArchive(queue[job]).readCount = queue[job].readCount
            /\ RowArchive(queue[job]).st \in {queue[job].st, "archived"}
        BY <1>4, RowOps
      <4>3. /\ queue'[job] = RowArchive(queue[job])
            /\ \A n \in Messages : n # job => queue'[n] = queue[n]
        BY <1>1, <1>4, <4>1, <4>2, SetRowEffect DEF TypeOK
      <4> QED
        BY <4>1, <4>2, <4>3
    <3> QED
      BY <3>1, <3>2
  <2>2. DeliveryInv'
    <3>1. /\ \A j \in Instances : at[j] \in Holding => call[j].job \in Messages
          /\ \A r \in results : r.job \in Messages
      BY <1>1 DEF Control, TypeOK, ProcessorTypeOK, Result
    <3> QED
      BY <1>2, <1>3, <2>1, <3>1 DEF DeliveryInv
  <2>3. AnswerInv'
    BY <1>2, <1>3 DEF AnswerInv, HasResult, Holding
  <2>4. VerdictInv'
    BY <1>2, <1>3 DEF VerdictInv, Malformed, Holding
  <2>5. OneResultPerDelivery'
    BY <1>2 DEF OneResultPerDelivery
  <2>6. AckedOnlyWithResult'
    BY <1>2, <2>1 DEF SettleInv, AckedOnlyWithResult, AnswerInv, HasResult
  <2>7. DeadLetterJustified'
    <3>1. at[i] = "deadLetter" => Malformed(job) \/ queue[job].readCount > RetryLimit
      <4>1. call[i].delivery \in Nat
        BY <1>1 DEF TypeOK, ProcessorTypeOK, Call
      <4> QED
        BY <1>4, <4>1, AssumptionsHold DEF VerdictInv, DeliveryInv, Holding, Assumptions
    <3> QED
      BY <1>2, <2>1, <3>1 DEF SettleInv, DeadLetterJustified, Malformed
  <2> QED
    BY <2>2, <2>3, <2>4, <2>5, <2>6, <2>7 DEF SettleInv
<1> QED
  BY <1>5, <1>6

LEMMA IInvNext == IInv /\ [Next]_vars => IInv'
PROOF
<1> SUFFICES ASSUME IInv, [Next]_vars PROVE IInv'
  OBVIOUS
<1>a. TypeInv /\ TypeInv' /\ TypeOK /\ Control
  BY TypeInvNext DEF IInv, TypeInv
<1>b. \A m \in Messages : queue[m].readCount \in Nat /\ queue[m] \in Row
  BY <1>a DEF TypeOK, Row
<1>1. CASE UNCHANGED vars
  BY <1>1, <1>a, <1>b, UnheldStep DEF vars, procVars
<1>2. ASSUME NEW i \in Instances,
             \/ Start(i) \/ StartFails(i) \/ Ready(i) \/ HealthListenFails(i) \/ Shutdown(i)
             \/ Crash(i) \/ Timeout(i) \/ WorkerSelect(i) \/ ReadCancelled(i)
      PROVE  IInv'
  <2>1. body' = body /\ results' = results /\ queue' = queue
    BY <1>2 DEF Start, StartFails, Ready, HealthListenFails, Shutdown, Crash, Timeout,
                Deadline, WorkerSelect, ReadCancelled, procVars
  <2>2. \A j \in Instances :
           \/ at'[j] \notin Holding
           \/ at'[j] = at[j] /\ call'[j] = call[j] /\ stage'[j] = stage[j] /\ ret'[j] = ret[j]
    <3>1. CASE Start(i)
      BY <1>a, <3>1 DEF Start, StartConsumer, GoAt, Holding, TypeOK
    <3>2. CASE StartFails(i) \/ Ready(i) \/ HealthListenFails(i) \/ Shutdown(i) \/ Timeout(i)
      BY <3>2 DEF StartFails, Ready, HealthListenFails, Shutdown, Timeout, Deadline, procVars
    <3>3. CASE Crash(i)
      BY <1>a, <3>3 DEF Crash, Exit, GoAt, Holding, TypeOK, ProcessorTypeOK
    <3>4. CASE WorkerSelect(i) \/ ReadCancelled(i)
      BY <1>a, <3>4 DEF WorkerSelect, ReadCancelled, Exit, GoAt, procVars, Holding, TypeOK
    <3> QED
      BY <1>2, <3>1, <3>2, <3>3, <3>4
  <2> QED
    BY <1>a, <1>b, <2>1, <2>2, UnheldStep
<1>3. ASSUME NEW i \in Instances, NEW m \in Messages, Read(i, m) PROVE IInv'
  BY <1>3, <1>a, ReadStep
<1>4. ASSUME NEW i \in Instances, ReadNothing(i) PROVE IInv'
  <2>1. \A m \in Messages : queue'[m].st = queue[m].st /\ queue[m].readCount <= queue'[m].readCount
    <3>1. CASE queue' = queue
      BY <3>1, <1>b
    <3>2. ASSUME NEW m \in Messages, SetRow(m, RowRead(queue[m]))
          PROVE  \A n \in Messages : queue'[n].st = queue[n].st /\ queue[n].readCount <= queue'[n].readCount
      <4>1. /\ RowRead(queue[m]) \in Row /\ RowRead(queue[m]).st = queue[m].st
            /\ RowRead(queue[m]).readCount = queue[m].readCount + 1
        BY <1>b, RowOps
      <4>2. queue'[m] = RowRead(queue[m]) /\ \A n \in Messages : n # m => queue'[n] = queue[n]
        BY <1>a, <3>2, <4>1, SetRowEffect DEF TypeOK
      <4> QED
        BY <1>b, <4>1, <4>2
    <3> QED
      BY <1>4, <3>1, <3>2 DEF ReadNothing
  <2>2. /\ body' = body /\ results' = results /\ call' = call /\ stage' = stage /\ ret' = ret
        /\ \A j \in Instances : at'[j] \notin Holding \/ at'[j] = at[j]
    BY <1>4, <1>a DEF ReadNothing, GoAt, Holding, TypeOK
  <2> QED
    BY <1>a, <2>1, <2>2, UnheldStep
<1>5. ASSUME NEW i \in Instances, Handler(i) PROVE IInv'
  BY <1>5, <1>a, HandlerInvStep
<1>6. ASSUME NEW i \in Instances, ProcessReturn(i) PROVE IInv'
  BY <1>6, <1>a, ProcessReturnStep
<1>7. ASSUME NEW i \in Instances, complete(i) \/ deadLetter(i) PROVE IInv'
  BY <1>7, <1>a, FinalSettleStep
<1>8. ASSUME NEW i \in Instances, retry(i) \/ requeue(i) PROVE IInv'
  <2>1. /\ SettleFrame(i)
        /\ \/ queue' = queue
           \/ SetRow(call[i].job, RowSetVt(queue[call[i].job], TRUE))
           \/ SetRow(call[i].job, RowSetVt(queue[call[i].job], FALSE))
    BY <1>8, <1>a, SettlingEffect
  <2>2. call[i].job \in Messages
    BY <1>8, <1>a DEF retry, requeue, Control, Holding
  <2>3. \A m \in Messages : queue'[m].st = queue[m].st /\ queue[m].readCount <= queue'[m].readCount
    <3>1. ASSUME NEW row \in Row, row.st = queue[call[i].job].st,
                 row.readCount = queue[call[i].job].readCount, SetRow(call[i].job, row)
          PROVE  \A n \in Messages : queue'[n].st = queue[n].st /\ queue[n].readCount <= queue'[n].readCount
      <4>1. queue'[call[i].job] = row /\ \A n \in Messages : n # call[i].job => queue'[n] = queue[n]
        BY <1>a, <2>2, <3>1, SetRowEffect DEF TypeOK
      <4> QED
        BY <1>b, <2>2, <3>1, <4>1
    <3>2. /\ RowSetVt(queue[call[i].job], TRUE) \in Row
          /\ RowSetVt(queue[call[i].job], TRUE).st = queue[call[i].job].st
          /\ RowSetVt(queue[call[i].job], TRUE).readCount = queue[call[i].job].readCount
          /\ RowSetVt(queue[call[i].job], FALSE) \in Row
          /\ RowSetVt(queue[call[i].job], FALSE).st = queue[call[i].job].st
          /\ RowSetVt(queue[call[i].job], FALSE).readCount = queue[call[i].job].readCount
      BY <1>b, <2>2, RowOps
    <3>3. CASE queue' = queue
      BY <1>b, <3>3
    <3> QED
      BY <2>1, <3>1, <3>2, <3>3, Zenon
  <2> QED
    BY <1>a, <2>1, <2>3, UnheldStep DEF SettleFrame, settleUnchanged, Holding
<1>9. ASSUME NEW m \in Messages, VisibilityTimeout(m) \/ LeaseOverrun(m) PROVE IInv'
  <2>1. SetRow(m, RowExpire(queue[m])) /\ UNCHANGED expireUnchanged
    BY <1>9 DEF VisibilityTimeout, LeaseOverrun
  <2>2. \A n \in Messages : queue'[n].st = queue[n].st /\ queue[n].readCount <= queue'[n].readCount
    <3>1. /\ RowExpire(queue[m]) \in Row /\ RowExpire(queue[m]).st = queue[m].st
          /\ RowExpire(queue[m]).readCount = queue[m].readCount
      BY <1>b, RowOps
    <3>2. queue'[m] = RowExpire(queue[m]) /\ \A n \in Messages : n # m => queue'[n] = queue[n]
      BY <1>a, <2>1, <3>1, SetRowEffect DEF TypeOK
    <3> QED
      BY <1>b, <3>1, <3>2
  <2> QED
    BY <1>a, <2>1, <2>2, UnheldStep DEF expireUnchanged
<1> QED
  BY <1>1, <1>2, <1>3, <1>4, <1>5, <1>6, <1>7, <1>8, <1>9 DEF Next, WorkerStep

LEMMA Invariance == Spec => []IInv
BY IInvInit, IInvNext, PTL DEF Spec

\* No command is deleted without a result event, for any number of instances,
\* crashes, cancellations, overrun leases and database errors.
THEOREM AckedOnlyWithResultCorrect == Spec => []AckedOnlyWithResult
PROOF
<1>1. IInv => AckedOnlyWithResult
  BY DEF IInv, SettleInv
<1> QED
  BY <1>1, Invariance, PTL

\* No command is archived that could be handled and has attempts left.
THEOREM DeadLetterJustifiedCorrect == Spec => []DeadLetterJustified
PROOF
<1>1. IInv => DeadLetterJustified
  BY DEF IInv, SettleInv
<1> QED
  BY <1>1, Invariance, PTL

\* A delivery publishes at most one result event.
THEOREM OneResultPerDeliveryCorrect == Spec => []OneResultPerDelivery
PROOF
<1>1. IInv => OneResultPerDelivery
  BY DEF IInv
<1> QED
  BY <1>1, Invariance, PTL
-----------------------------------------------------------------------------
(***************************************************************************)
(* MeshConsumer implements JobDelivery.  The abstract state is a function  *)
(* of the queue, the results and the bodies, written out here.             *)
(***************************************************************************)
AbsMalformed == {m \in Messages : Malformed(m)}
AbsStatus == [m \in Messages |-> queue[m].st]
AbsAttempts == [m \in Messages |-> queue[m].readCount]

AbsUnchanged ==
    AbsMalformed' = AbsMalformed /\ AbsStatus' = AbsStatus
    /\ AbsAttempts' = AbsAttempts /\ Answers' = Answers

\* The answer a result event stands for.
AnswerOf(r) == [job |-> r.job, delivery |-> r.delivery, outcome |-> Outcome(r)]

\* A step that keeps the results and, of the rows, their place and their count.
LEMMA AbsStutter ==
    ASSUME body' = body, results' = results,
           \A m \in Messages : queue'[m].st = queue[m].st /\ queue'[m].readCount = queue[m].readCount
    PROVE  AbsUnchanged
BY DEF AbsUnchanged, AbsMalformed, AbsStatus, AbsAttempts, Answers, Malformed, Outcome, Completed

\* Reading a row is a delivery.
LEMMA AbsDeliver ==
    ASSUME TypeOK, body' = body, results' = results, NEW m \in Messages,
           Readable(queue[m]), SetRow(m, RowRead(queue[m]))
    PROVE  Delivery!Next
PROOF
<1>1. queue[m] \in Row /\ queue[m].st = "queued" /\ queue[m].readCount \in Nat
  BY DEF TypeOK, Readable, Row
<1>2. /\ RowRead(queue[m]) \in Row /\ RowRead(queue[m]).st = queue[m].st
      /\ RowRead(queue[m]).readCount = queue[m].readCount + 1
  BY <1>1, RowOps
<1>3. queue'[m] = RowRead(queue[m]) /\ \A n \in Messages : n # m => queue'[n] = queue[n]
  BY <1>2, SetRowEffect DEF TypeOK
<1>4. /\ AbsMalformed' = AbsMalformed /\ Answers' = Answers
  BY DEF AbsMalformed, Malformed, Answers, Outcome, Completed
<1>5. AbsStatus' = AbsStatus
  BY <1>2, <1>3 DEF AbsStatus
<1>6. AbsAttempts' = [AbsAttempts EXCEPT ![m] = @ + 1]
  BY <1>2, <1>3 DEF AbsAttempts
<1>7. AbsStatus[m] = "queued"
  BY <1>1 DEF AbsStatus
<1>8. Delivery!Deliver(m)
  BY <1>4, <1>5, <1>6, <1>7 DEF Delivery!Deliver, AbsStatus, AbsAttempts, AbsMalformed
<1> QED
  BY <1>8 DEF Delivery!Next

\* Enqueueing the event of a delivery in the handler is its answer.
LEMMA AbsAnswer ==
    ASSUME IInv, NEW i \in Instances, body' = body, queue' = queue,
           at[i] = "handle", stage[i] = "publish",
           results' = results \cup {ResultEvent(i)}
    PROVE  Delivery!Next
PROOF
<1> DEFINE m == call[i].job
           d == call[i].delivery
           o == Outcome(ResultEvent(i))
<1>1. /\ m \in Messages /\ call \in [Instances -> Call] /\ d \in Nat
      /\ d > 0 /\ d <= queue[m].readCount /\ queue[m].readCount \in Nat
  BY DEF IInv, TypeInv, TypeOK, Control, ProcessorTypeOK, DeliveryInv, Holding, Call, Row
<1>2. ResultEvent(i).job = m /\ ResultEvent(i).delivery = d
  BY <1>1, ResultEventType
<1>3. \A r \in results : ~(r.job = m /\ r.delivery = d)
  BY DEF IInv, AnswerInv
<1>4. m \notin AbsMalformed
  BY DEF IInv, VerdictInv, AbsMalformed
<1>5. o \in Delivery!Outcomes
  BY DEF Outcome, Delivery!Outcomes
<1>6. \A a \in Answers : ~(a.job = m /\ a.delivery = d)
  BY <1>3 DEF Answers
<1>7. Answers' = Answers \cup {[job |-> m, delivery |-> d, outcome |-> o]}
  <2>1. Answers = {AnswerOf(r) : r \in results} /\ Answers' = {AnswerOf(r) : r \in results'}
    BY DEF Answers, AnswerOf, Outcome, Completed
  <2>2. AnswerOf(ResultEvent(i)) = [job |-> m, delivery |-> d, outcome |-> o]
    BY <1>2 DEF AnswerOf
  <2> QED
    BY <2>1, <2>2
<1>8. AbsMalformed' = AbsMalformed /\ AbsStatus' = AbsStatus /\ AbsAttempts' = AbsAttempts
  BY DEF AbsMalformed, Malformed, AbsStatus, AbsAttempts
<1>9. d \in 1..AbsAttempts[m]
  BY <1>1 DEF AbsAttempts
<1>10. Delivery!Answer(m, d, o)
  BY <1>4, <1>6, <1>7, <1>8 DEF Delivery!Answer, AbsMalformed, AbsStatus, AbsAttempts
<1> QED
  BY <1>1, <1>5, <1>9, <1>10 DEF Delivery!Next, AbsAttempts

LEMMA AbsSettle ==
    ASSUME NEW m \in Messages, Delivery!Acknowledge(m) \/ Delivery!Bury(m)
    PROVE  Delivery!Next
BY DEF Delivery!Next

\* Deleting the row is the acknowledgement, or nothing when it is settled already.
LEMMA AbsComplete ==
    ASSUME IInv, NEW i \in Instances, complete(i)
    PROVE  Delivery!Next \/ AbsUnchanged
PROOF
<1>0. call[i].job \in Messages
  BY DEF IInv, TypeInv, complete, Control, Holding
<1>m. PICK m \in Messages : m = call[i].job
  BY <1>0
<1>1. /\ TypeOK /\ Control /\ at[i] = "complete" /\ m \in Messages
      /\ queue[m] \in Row
  BY DEF IInv, TypeInv, complete, Control, Holding, TypeOK
<1>2. /\ SettleFrame(i)
      /\ queue' = queue \/ SetRow(m, RowDelete(queue[m]))
  BY <1>1, <1>m, SettlingEffect
<1>3. body' = body /\ results' = results
  BY <1>2 DEF SettleFrame, settleUnchanged
<1>4. CASE queue' = queue
  BY <1>3, <1>4, AbsStutter
<1>5. CASE SetRow(m, RowDelete(queue[m]))
  <2>1. /\ RowDelete(queue[m]) \in Row /\ RowDelete(queue[m]).readCount = queue[m].readCount
        /\ RowDelete(queue[m]).st = IF queue[m].st = "queued" THEN "deleted" ELSE queue[m].st
    BY <1>1, RowOps
  <2>2. queue'[m] = RowDelete(queue[m]) /\ \A n \in Messages : n # m => queue'[n] = queue[n]
    BY <1>1, <1>5, <2>1, SetRowEffect DEF TypeOK
  <2>3. CASE queue[m].st # "queued"
    BY <1>3, <2>1, <2>2, <2>3, AbsStutter
  <2>4. CASE queue[m].st = "queued"
    <3>1. AbsMalformed' = AbsMalformed /\ Answers' = Answers
      BY <1>3 DEF AbsMalformed, Malformed, Answers, Outcome, Completed
    <3>2. AbsAttempts' = AbsAttempts
      BY <2>1, <2>2 DEF AbsAttempts
    <3>3. AbsStatus' = [AbsStatus EXCEPT ![m] = "deleted"] /\ AbsStatus[m] = "queued"
      BY <1>1, <2>1, <2>2, <2>4 DEF AbsStatus
    <3>4. \E a \in Answers : a.job = m
      <4>1. PICK r \in results : r.job = m
        BY <1>1, <1>m DEF IInv, AnswerInv, HasResult
      <4>2. AnswerOf(r) \in Answers /\ AnswerOf(r).job = m
        BY <4>1 DEF Answers, AnswerOf
      <4> QED
        BY <4>2
    <3>5. Delivery!Acknowledge(m)
      BY <3>1, <3>2, <3>3, <3>4 DEF Delivery!Acknowledge, AbsStatus, AbsAttempts, AbsMalformed
    <3> QED
      BY <1>1, <3>5, AbsSettle
  <2> QED
    BY <2>3, <2>4
<1> QED
  BY <1>2, <1>4, <1>5

\* Archiving the row is the burial, or nothing when it is settled already.
LEMMA AbsDeadLetter ==
    ASSUME IInv, NEW i \in Instances, deadLetter(i)
    PROVE  Delivery!Next \/ AbsUnchanged
PROOF
<1>0. call[i].job \in Messages
  BY DEF IInv, TypeInv, deadLetter, Control, Holding
<1>m. PICK m \in Messages : m = call[i].job
  BY <1>0
<1>1. /\ TypeOK /\ Control /\ at[i] = "deadLetter" /\ m \in Messages
      /\ queue[m] \in Row /\ queue[m].readCount \in Nat /\ call[i].delivery \in Nat
  BY DEF IInv, TypeInv, deadLetter, Control, Holding, TypeOK, Row, ProcessorTypeOK, Call
<1>2. /\ SettleFrame(i)
      /\ queue' = queue \/ SetRow(m, RowArchive(queue[m]))
  BY <1>1, <1>m, SettlingEffect
<1>3. body' = body /\ results' = results
  BY <1>2 DEF SettleFrame, settleUnchanged
<1>4. CASE queue' = queue
  BY <1>3, <1>4, AbsStutter
<1>5. CASE SetRow(m, RowArchive(queue[m]))
  <2>1. /\ RowArchive(queue[m]) \in Row /\ RowArchive(queue[m]).readCount = queue[m].readCount
        /\ RowArchive(queue[m]).st = IF queue[m].st = "queued" THEN "archived" ELSE queue[m].st
    BY <1>1, RowOps
  <2>2. queue'[m] = RowArchive(queue[m]) /\ \A n \in Messages : n # m => queue'[n] = queue[n]
    BY <1>1, <1>5, <2>1, SetRowEffect DEF TypeOK
  <2>3. CASE queue[m].st # "queued"
    BY <1>3, <2>1, <2>2, <2>3, AbsStutter
  <2>4. CASE queue[m].st = "queued"
    <3>1. AbsMalformed' = AbsMalformed /\ Answers' = Answers
      BY <1>3 DEF AbsMalformed, Malformed, Answers, Outcome, Completed
    <3>2. AbsAttempts' = AbsAttempts
      BY <2>1, <2>2 DEF AbsAttempts
    <3>3. AbsStatus' = [AbsStatus EXCEPT ![m] = "archived"] /\ AbsStatus[m] = "queued"
      BY <1>1, <2>1, <2>2, <2>4 DEF AbsStatus
    <3>4. Malformed(m) \/ queue[m].readCount > RetryLimit
      BY <1>1, <1>m, AssumptionsHold DEF IInv, VerdictInv, DeliveryInv, Holding, Assumptions
    <3>5. m \in AbsMalformed \/ AbsAttempts[m] > RetryLimit
      BY <1>1, <3>4 DEF AbsMalformed, AbsAttempts
    <3>6. Delivery!Bury(m)
      BY <3>1, <3>2, <3>3, <3>5 DEF Delivery!Bury, AbsStatus, AbsAttempts, AbsMalformed
    <3> QED
      BY <1>1, <3>6, AbsSettle
  <2> QED
    BY <2>3, <2>4
<1> QED
  BY <1>2, <1>4, <1>5

\* Every step of the service is a step of JobDelivery or none.
LEMMA RefinementStep ==
    ASSUME IInv, [Next]_vars
    PROVE  Delivery!Next \/ AbsUnchanged
PROOF
<1>a. TypeOK /\ Control
  BY DEF IInv, TypeInv
<1>1. CASE UNCHANGED vars
  BY <1>1, AbsStutter DEF vars, procVars
<1>2. ASSUME NEW i \in Instances,
             \/ Start(i) \/ StartFails(i) \/ Ready(i) \/ HealthListenFails(i) \/ Shutdown(i)
             \/ Crash(i) \/ Timeout(i) \/ WorkerSelect(i) \/ ReadCancelled(i) \/ ProcessReturn(i)
      PROVE  AbsUnchanged
  <2>1. body' = body /\ results' = results /\ queue' = queue
    BY <1>2 DEF Start, StartFails, Ready, HealthListenFails, Shutdown, Crash, Timeout,
                Deadline, WorkerSelect, ReadCancelled, ProcessReturn, procVars
  <2> QED
    BY <2>1, AbsStutter
<1>3. ASSUME NEW i \in Instances, NEW m \in Messages, Read(i, m) PROVE Delivery!Next
  BY <1>3, <1>a, AbsDeliver DEF Read
<1>4. ASSUME NEW i \in Instances, ReadNothing(i) PROVE Delivery!Next \/ AbsUnchanged
  <2>1. body' = body /\ results' = results
    BY <1>4 DEF ReadNothing
  <2>2. CASE queue' = queue
    BY <2>1, <2>2, AbsStutter
  <2>3. ASSUME NEW m \in Messages, Readable(queue[m]), SetRow(m, RowRead(queue[m]))
        PROVE  Delivery!Next
    BY <1>a, <2>1, <2>3, AbsDeliver
  <2> QED
    BY <1>4, <2>2, <2>3 DEF ReadNothing
<1>5. ASSUME NEW i \in Instances, Handler(i) PROVE Delivery!Next \/ AbsUnchanged
  <2>1. /\ HandlerPre(i) /\ HandlerStep(i) /\ at[i] = "handle" /\ body' = body /\ queue' = queue
    BY <1>5, <1>a DEF Handler, HandlerPre, TypeOK, Control, Holding
  <2>2. \/ results' = results
        \/ stage[i] = "publish" /\ results' = results \cup {ResultEvent(i)}
    BY <2>1, HandlerEffect DEF SpecStep, PipelineStep, PublishStep
  <2> QED
    BY <2>1, <2>2, AbsStutter, AbsAnswer
<1>6. ASSUME NEW i \in Instances, complete(i) PROVE Delivery!Next \/ AbsUnchanged
  BY <1>6, AbsComplete
<1>7. ASSUME NEW i \in Instances, deadLetter(i) PROVE Delivery!Next \/ AbsUnchanged
  BY <1>7, AbsDeadLetter
<1>8. ASSUME NEW row \in Row, NEW m \in Messages, SetRow(m, row), body' = body, results' = results,
             row.st = queue[m].st, row.readCount = queue[m].readCount
      PROVE  AbsUnchanged
  <2>1. queue'[m] = row /\ \A n \in Messages : n # m => queue'[n] = queue[n]
    BY <1>8, <1>a, SetRowEffect DEF TypeOK
  <2>2. \A n \in Messages : queue'[n].st = queue[n].st /\ queue'[n].readCount = queue[n].readCount
    BY <1>8, <2>1
  <2> QED
    BY <1>8, <2>2, AbsStutter
<1>9. ASSUME NEW i \in Instances, retry(i) \/ requeue(i) PROVE AbsUnchanged
  <2>1. /\ SettleFrame(i)
        /\ \/ queue' = queue
           \/ SetRow(call[i].job, RowSetVt(queue[call[i].job], TRUE))
           \/ SetRow(call[i].job, RowSetVt(queue[call[i].job], FALSE))
    BY <1>9, <1>a, SettlingEffect
  <2>2. body' = body /\ results' = results
    BY <2>1 DEF SettleFrame, settleUnchanged
  <2>3. call[i].job \in Messages /\ queue[call[i].job] \in Row
    BY <1>9, <1>a DEF retry, requeue, Control, Holding, TypeOK
  <2>4. CASE queue' = queue
    BY <2>2, <2>4, AbsStutter
  <2>5. CASE SetRow(call[i].job, RowSetVt(queue[call[i].job], TRUE))
    BY <1>8, <2>2, <2>3, <2>5, RowOps, Zenon
  <2>6. CASE SetRow(call[i].job, RowSetVt(queue[call[i].job], FALSE))
    BY <1>8, <2>2, <2>3, <2>6, RowOps, Zenon
  <2> QED
    BY <2>1, <2>4, <2>5, <2>6, Zenon
<1>10. ASSUME NEW m \in Messages, VisibilityTimeout(m) \/ LeaseOverrun(m) PROVE AbsUnchanged
  <2>1. SetRow(m, RowExpire(queue[m])) /\ body' = body /\ results' = results
    BY <1>10 DEF VisibilityTimeout, LeaseOverrun, expireUnchanged
  <2>2. queue[m] \in Row
    BY <1>a DEF TypeOK
  <2> QED
    BY <1>8, <2>1, <2>2, RowOps, Zenon
<1> QED
  BY <1>1, <1>2, <1>3, <1>4, <1>5, <1>6, <1>7, <1>9, <1>10 DEF Next, WorkerStep

\* The service implements JobDelivery: every behaviour of workers, processes, queue
\* and faults is, seen through the queue and the results, one the abstract
\* specification allows.
THEOREM Refinement == Spec => RefinesJobDelivery
PROOF
<1>1. Init => Delivery!Init
  <2> SUFFICES ASSUME Init PROVE Delivery!Init
    OBVIOUS
  <2>1. AbsMalformed \in SUBSET Messages
    BY DEF AbsMalformed
  <2>2. AbsStatus = [m \in Messages |-> "queued"] /\ AbsAttempts = [m \in Messages |-> 0]
    BY DEF AbsStatus, AbsAttempts, Init, Enqueued
  <2>3. Answers = {}
    BY DEF Answers, Init, ProcessorInit
  <2> QED
    BY <2>1, <2>2, <2>3 DEF Delivery!Init, AbsMalformed, AbsStatus, AbsAttempts
<1>2. IInv /\ [Next]_vars => [Delivery!Next]_(Delivery!jdVars)
  BY RefinementStep DEF AbsUnchanged, AbsMalformed, AbsStatus, AbsAttempts, Delivery!jdVars
<1> QED
  BY <1>1, <1>2, Invariance, PTL DEF Spec, RefinesJobDelivery, Delivery!Spec
=============================================================================
