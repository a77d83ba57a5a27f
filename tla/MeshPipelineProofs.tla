------------------------- MODULE MeshPipelineProofs -------------------------
(***************************************************************************)
(* Proofs about MeshConsumer that need to know how far the handler has got *)
(* with its command: what a completed event stands for, when the last      *)
(* progress signal is sent, and that no work directory is left behind; and *)
(* those that rest on the lease: as long as the visibility timeout         *)
(* outlasts the job, a command is in one pair of hands, and the bucket     *)
(* holds what the completed event says.                                    *)
(***************************************************************************)
EXTENDS MeshConsumerProofs

\* The stages that have the downloaded file, and those that have the output file.
DownloadedStages == {"inspect", "optimize", "verify", "upload"}
OptimizedStages == {"verify", "upload"}

\* The stages after the pipeline, where reason tells how it went.
VerdictStages == {"cleanup", "publish"}

\* What the handler of instance i has established about its command so far.  A
\* pipeline that was not given up has passed every check on its way.
Accepted(i) ==
    LET c == call[i]
    IN  /\ stage[i] \in {"spec"} \cup PipelineStages => c.reason = NoReason
        /\ stage[i] \in WorkDirStages => body[c.job] = "valid"
        /\ stage[i] \in DownloadedStages => c.size <= MaxInputBytes
        /\ stage[i] \in OptimizedStages => c.output \in Contents
        /\ stage[i] \in VerdictStages /\ c.reason = NoReason =>
              body[c.job] = "valid" /\ c.size <= MaxInputBytes /\ c.output \in Contents

\* A pipeline that was not given up has written its output file to the bucket.
Uploaded(i) ==
    stage[i] \in VerdictStages /\ call[i].reason = NoReason =>
        store[call[i].job] = call[i].output

\* The handler has one work directory from its creation to its removal, unless a
\* removal failed.
OneWorkDir(i) ==
    "disk" \notin FaultKinds =>
        dirs[i] = IF stage[i] \in WorkDirStages THEN 1 ELSE 0

\* What a handler step does to the bucket and to the progress signals.
SharedEffect(i) ==
    /\ \/ store' = store
       \/ stage[i] = "upload" /\ store' = [store EXCEPT ![call[i].job] = call[i].output]
    /\ \A m \in Messages : signal'[m] = optimizationCompleted =>
          \/ signal[m] = optimizationCompleted
          \/ m = call[i].job /\ call[i].reason = NoReason /\ ResultEvent(i) \in results'

StepPre(i) == HandlerPre(i) /\ Accepted(i) /\ OneWorkDir(i)

StepPost(i) ==
    /\ Accepted(i)' /\ OneWorkDir(i)' /\ SharedEffect(i)
    /\ Uploaded(i) => Uploaded(i)'
-----------------------------------------------------------------------------
\* The sets of stages, written out.
LEMMA StageSets ==
    /\ PipelineStages = {"head", "download", "inspect", "optimize", "verify", "upload"}
    /\ WorkDirStages = {"head", "download", "inspect", "optimize", "verify", "upload", "cleanup"}
    /\ NoReason \notin FailureReasons
    /\ {"REJECTED", "SOURCE_NOT_FOUND", "DOWNLOAD_FAILED", "OPTIMIZATION_FAILED",
        "UPLOAD_FAILED", "INTERNAL"} = FailureReasons
BY DEF PipelineStages, WorkDirStages, NoReason, FailureReasons

\* No signal but the last one says 100 percent.
LEMMA OtherProgress ==
    ASSUME signal \in [Messages -> Sequences \cup {0}], NEW i \in Instances,
           call[i].job \in Messages, NEW n \in Sequences, n # optimizationCompleted,
           publishProgress(i, n)
    PROVE  \A m \in Messages : signal'[m] = optimizationCompleted => signal[m] = optimizationCompleted
BY DEF publishProgress, notify

LEMMA OtherSequences ==
    optimizationCompleted \notin {downloadStarted, analysisStarted, optimizationStarted,
                                  outputAnalysisStarted, uploadStarted}
BY DEF downloadStarted, analysisStarted, optimizationStarted, outputAnalysisStarted,
       uploadStarted, optimizationCompleted

\* Giving up on the pipeline needs no more than the directory and the validity of
\* the command, which the stages before it already had.
LEMMA GivenUp ==
    ASSUME NEW i \in Instances, StepPre(i), body' = body, dirs' = dirs,
           stage[i] \in PipelineStages, NEW reason \in FailureReasons, pipelineFailed(i, reason)
    PROVE  Accepted(i)' /\ OneWorkDir(i)' /\ Uploaded(i)'
PROOF
<1>1. call'[i].job = call[i].job /\ call'[i].reason = reason /\ stage'[i] = "cleanup"
  BY SetReason, GotoStage, Names DEF StepPre, HandlerPre, ProcessorTypeOK, pipelineFailed
<1>2. reason # NoReason
  BY StageSets
<1> QED
  BY <1>1, <1>2, StageSets
  DEF StepPre, Accepted, OneWorkDir, Uploaded, DownloadedStages, OptimizedStages, VerdictStages

LEMMA SpecDetail ==
    ASSUME NEW i \in Instances, StepPre(i), body' = body, HandleMeshJob(i)
    PROVE  StepPost(i)
PROOF
<1> USE DEF StepPre, HandlerPre, StepPost
<1>a. stage[i] = "spec" /\ UNCHANGED <<store, signal>>
  BY DEF HandleMeshJob
<1>b. SharedEffect(i)
  BY <1>a DEF SharedEffect
<1>1. CASE body[call[i].job] = "identity" /\ Return(i, "plain") /\ UNCHANGED <<call, dirs>>
  <2>1. stage'[i] = "returned"
    BY <1>1, GotoStage, Names DEF Return, ProcessorTypeOK
  <2> QED
    BY <1>1, <1>a, <1>b, <2>1, StageSets
    DEF Accepted, OneWorkDir, Uploaded, DownloadedStages, OptimizedStages, VerdictStages
<1>2. ASSUME NEW reason \in FailureReasons, call' = [call EXCEPT ![i].reason = reason],
             Goto(i, "publish"), UNCHANGED dirs
      PROVE  StepPost(i)
  <2>1. call'[i].reason = reason /\ stage'[i] = "publish" /\ reason # NoReason
    BY <1>2, SetReason, GotoStage, Names, StageSets DEF ProcessorTypeOK
  <2> QED
    BY <1>2, <1>a, <1>b, <2>1, StageSets
    DEF Accepted, OneWorkDir, Uploaded, DownloadedStages, OptimizedStages, VerdictStages
<1>3. CASE body[call[i].job] = "valid" /\ CreateJobWorkDir(i) /\ Goto(i, "head") /\ UNCHANGED call
  <2>1. stage'[i] = "head" /\ dirs'[i] = dirs[i] + 1
    BY <1>3, GotoStage, Names DEF CreateJobWorkDir, ProcessorTypeOK
  <2>2. call[i].reason = NoReason
    BY <1>a DEF Accepted
  <2> QED
    BY <1>3, <1>a, <1>b, <2>1, <2>2, StageSets
    DEF Accepted, OneWorkDir, Uploaded, DownloadedStages, OptimizedStages, VerdictStages
<1> QED
  BY <1>1, <1>2, <1>3, StageSets DEF HandleMeshJob
\* A stage that keeps the work directory goes on, or gives up.
LEMMA HeadDetail ==
    ASSUME NEW i \in Instances, StepPre(i), body' = body, GetObjectSize(i)
    PROVE  StepPost(i)
PROOF
<1>a. stage[i] = "head" /\ UNCHANGED <<dirs, store>> /\ publishProgress(i, downloadStarted)
  BY DEF GetObjectSize
<1>b. SharedEffect(i)
  BY <1>a, OtherProgress, OtherSequences, SequencesType
  DEF SharedEffect, StepPre, HandlerPre, ProcessorTypeOK
<1>1. CASE pipelineFailed(i, "SOURCE_NOT_FOUND") \/ pipelineFailed(i, "REJECTED")
  BY <1>1, <1>a, <1>b, GivenUp, StageSets DEF StepPost
<1>2. CASE Goto(i, "download") /\ UNCHANGED call
  <2>1. stage'[i] = "download"
    BY <1>2, GotoStage, Names DEF StepPre, HandlerPre, ProcessorTypeOK
  <2> QED
    BY <1>2, <1>a, <1>b, <2>1, StageSets
    DEF StepPre, StepPost, Accepted, OneWorkDir, Uploaded, DownloadedStages, OptimizedStages, VerdictStages
<1> QED
  BY <1>1, <1>2 DEF GetObjectSize

LEMMA DownloadDetail ==
    ASSUME NEW i \in Instances, StepPre(i), body' = body, Download(i)
    PROVE  StepPost(i)
PROOF
<1>a. stage[i] = "download" /\ UNCHANGED <<dirs, store, signal>>
  BY DEF Download
<1>b. SharedEffect(i)
  BY <1>a DEF SharedEffect
<1>1. CASE pipelineFailed(i, "DOWNLOAD_FAILED") \/ pipelineFailed(i, "REJECTED")
  BY <1>1, <1>a, <1>b, GivenUp, StageSets DEF StepPost
<1>2. ASSUME NEW size \in Sizes, size <= MaxInputBytes, call' = [call EXCEPT ![i].size = size],
             Goto(i, "inspect")
      PROVE  StepPost(i)
  <2>1. size \in Nat
    BY AssumptionsHold DEF Assumptions
  <2>2. /\ call'[i].job = call[i].job /\ call'[i].reason = call[i].reason
        /\ call'[i].size = size /\ stage'[i] = "inspect"
    BY <1>2, <2>1, SetSize, GotoStage, Names DEF StepPre, HandlerPre, ProcessorTypeOK
  <2> HIDE <1>2
  <2>3. size <= MaxInputBytes
    BY <1>2
  <2> QED
    BY <1>a, <1>b, <2>2, <2>3, StageSets
    DEF StepPre, StepPost, Accepted, OneWorkDir, Uploaded, DownloadedStages, OptimizedStages, VerdictStages
<1> QED
  BY <1>1, <1>2 DEF Download

LEMMA InspectDetail ==
    ASSUME NEW i \in Instances, StepPre(i), body' = body, InspectSource(i) \/ InspectOutput(i)
    PROVE  StepPost(i)
PROOF
<1>a. /\ stage[i] \in {"inspect", "verify"} /\ UNCHANGED <<dirs, store>>
      /\ publishProgress(i, analysisStarted) \/ publishProgress(i, outputAnalysisStarted)
  BY DEF InspectSource, InspectOutput
<1>b. SharedEffect(i)
  BY <1>a, OtherProgress, OtherSequences, SequencesType
  DEF SharedEffect, StepPre, HandlerPre, ProcessorTypeOK
<1>1. CASE pipelineFailed(i, "OPTIMIZATION_FAILED")
  BY <1>1, <1>a, <1>b, GivenUp, StageSets DEF StepPost
<1>2. CASE /\ UNCHANGED call
           /\ \/ stage[i] = "inspect" /\ Goto(i, "optimize")
              \/ stage[i] = "verify" /\ Goto(i, "upload")
  <2>1. \/ stage[i] = "inspect" /\ stage'[i] = "optimize"
        \/ stage[i] = "verify" /\ stage'[i] = "upload"
    BY <1>2, GotoStage, Names DEF StepPre, HandlerPre, ProcessorTypeOK
  <2> QED
    BY <1>2, <1>a, <1>b, <2>1, StageSets
    DEF StepPre, StepPost, Accepted, OneWorkDir, Uploaded, DownloadedStages, OptimizedStages, VerdictStages
<1> QED
  BY <1>1, <1>2 DEF InspectSource, InspectOutput

LEMMA OptimizeDetail ==
    ASSUME NEW i \in Instances, StepPre(i), body' = body, Optimize(i)
    PROVE  StepPost(i)
PROOF
<1>a. stage[i] = "optimize" /\ UNCHANGED <<dirs, store>> /\ publishProgress(i, optimizationStarted)
  BY DEF Optimize
<1>b. SharedEffect(i)
  BY <1>a, OtherProgress, OtherSequences, SequencesType
  DEF SharedEffect, StepPre, HandlerPre, ProcessorTypeOK
<1>1. CASE pipelineFailed(i, "OPTIMIZATION_FAILED")
  BY <1>1, <1>a, <1>b, GivenUp, StageSets DEF StepPost
<1>2. ASSUME NEW file \in Contents, call' = [call EXCEPT ![i].output = file], Goto(i, "verify")
      PROVE  StepPost(i)
  <2>1. /\ call'[i].job = call[i].job /\ call'[i].reason = call[i].reason
        /\ call'[i].size = call[i].size /\ call'[i].output = file /\ stage'[i] = "verify"
    BY <1>2, SetOutput, GotoStage, Names DEF StepPre, HandlerPre, ProcessorTypeOK
  <2> HIDE <1>2
  <2> QED
    BY <1>a, <1>b, <2>1, StageSets
    DEF StepPre, StepPost, Accepted, OneWorkDir, Uploaded, DownloadedStages, OptimizedStages, VerdictStages
<1> QED
  BY <1>1, <1>2 DEF Optimize

\* A PUT that reports success has written the object.
LEMMA UploadDetail ==
    ASSUME NEW i \in Instances, StepPre(i), body' = body, Upload(i)
    PROVE  StepPost(i)
PROOF
<1>a. stage[i] = "upload" /\ UNCHANGED dirs /\ publishProgress(i, uploadStarted)
  BY DEF Upload
<1>b. SharedEffect(i)
  BY <1>a, OtherProgress, OtherSequences, SequencesType
  DEF SharedEffect, StepPre, HandlerPre, ProcessorTypeOK, Upload, PutObject
<1>1. CASE pipelineFailed(i, "UPLOAD_FAILED")
  BY <1>1, <1>a, <1>b, GivenUp, StageSets DEF StepPost
<1>2. CASE PutObject(i) /\ Goto(i, "cleanup") /\ UNCHANGED call
  <2>1. stage'[i] = "cleanup" /\ store'[call[i].job] = call[i].output
    BY <1>2, GotoStage, Names DEF StepPre, HandlerPre, ProcessorTypeOK, PutObject
  <2> QED
    BY <1>2, <1>a, <1>b, <2>1, StageSets
    DEF StepPre, StepPost, Accepted, OneWorkDir, Uploaded, DownloadedStages, OptimizedStages, VerdictStages
<1> QED
  BY <1>1, <1>2 DEF Upload

\* The removal of the work directory says nothing about the outcome.
LEMMA CleanupDetail ==
    ASSUME NEW i \in Instances, StepPre(i), body' = body, CleanupJobWorkDir(i)
    PROVE  StepPost(i)
PROOF
<1>1. /\ stage[i] = "cleanup" /\ UNCHANGED <<call, store, signal>>
      /\ dirs' = [dirs EXCEPT ![i] = @ - 1] \/ "disk" \in FaultKinds
      /\ Goto(i, "publish")
  BY DEF CleanupJobWorkDir, Fault
<1>2. stage'[i] = "publish"
  BY <1>1, GotoStage, Names DEF StepPre, HandlerPre, ProcessorTypeOK
<1>3. "disk" \notin FaultKinds => dirs'[i] = 0
  BY <1>1, StageSets DEF StepPre, HandlerPre, ProcessorTypeOK, OneWorkDir
<1> QED
  BY <1>1, <1>2, <1>3, StageSets
  DEF StepPre, StepPost, SharedEffect, Accepted, OneWorkDir, Uploaded, DownloadedStages,
      OptimizedStages, VerdictStages

\* The signal that says 100 percent goes with a completed event.
LEMMA PublishDetail ==
    ASSUME NEW i \in Instances, StepPre(i), body' = body, PublishComplete(i) \/ PublishFail(i)
    PROVE  StepPost(i)
PROOF
<1>1. stage[i] = "publish" /\ UNCHANGED <<call, dirs, store>>
  BY DEF PublishComplete, PublishFail
<1>2. stage'[i] = "returned"
  BY GotoStage, Names
  DEF StepPre, HandlerPre, ProcessorTypeOK, PublishComplete, PublishFail, Return
<1>3. SharedEffect(i)
  <2>1. CASE signal' = signal
    BY <1>1, <2>1 DEF SharedEffect
  <2>2. CASE call[i].reason = NoReason /\ enqueueResult(i) /\ publishProgress(i, optimizationCompleted)
    <3>1. ResultEvent(i) \in results'
      BY <2>2 DEF enqueueResult
    <3>2. \A m \in Messages : m = call[i].job \/ signal'[m] = signal[m]
      BY <2>2 DEF publishProgress, notify, StepPre, HandlerPre, ProcessorTypeOK
    <3> QED
      BY <1>1, <2>2, <3>1, <3>2 DEF SharedEffect
  <2> QED
    BY <2>1, <2>2 DEF PublishComplete, PublishFail
<1> QED
  BY <1>1, <1>2, <1>3, StageSets
  DEF StepPre, StepPost, Accepted, OneWorkDir, Uploaded, DownloadedStages, OptimizedStages,
      VerdictStages

\* Every step of the handler keeps what it has established.
LEMMA HandlerDetail ==
    ASSUME NEW i \in Instances, StepPre(i), body' = body, HandlerStep(i)
    PROVE  StepPost(i)
BY SpecDetail, HeadDetail, DownloadDetail, InspectDetail, OptimizeDetail, UploadDetail,
   CleanupDetail, PublishDetail
DEF HandlerStep
-----------------------------------------------------------------------------
\* The inductive invariant: what the handlers have established, and the two
\* properties of the result queue and of the signals that rest on it.
PInv ==
    /\ \A i \in Instances : Accepted(i)
    /\ \A i \in Instances : at[i] # "stopped" => OneWorkDir(i)
    /\ CompletedIsAccepted
    /\ ProgressAfterResult

LEMMA PInvInit == Init => PInv
PROOF
<1> SUFFICES ASSUME Init PROVE PInv
  OBVIOUS
<1>1. \A i \in Instances : Accepted(i)
  BY StageSets
  DEF Init, ProcessorInit, Accepted, DownloadedStages, OptimizedStages, VerdictStages
<1>2. \A i \in Instances : at[i] = "stopped"
  BY DEF Init
<1>3. CompletedIsAccepted /\ ProgressAfterResult
  BY DEF Init, ProcessorInit, CompletedIsAccepted, ProgressAfterResult, optimizationCompleted
<1> QED
  BY <1>1, <1>2, <1>3 DEF PInv

\* A step outside the handlers: the call of a worker stays as it is, is over, or
\* has just begun, and a process that was not running has no directory left.
LEMMA OutsideStep ==
    ASSUME PInv, body' = body, results' = results, signal' = signal,
           \A j \in Instances :
               \/ stage'[j] = "idle"
               \/ stage'[j] = "spec" /\ call'[j].reason = NoReason
               \/ stage'[j] = stage[j] /\ call'[j] = call[j],
           \A j \in Instances : at'[j] # "stopped" =>
               \/ stage'[j] = "idle" /\ dirs'[j] = 0
               \/ /\ at[j] # "stopped" /\ dirs'[j] = dirs[j]
                  /\ stage'[j] \in WorkDirStages <=> stage[j] \in WorkDirStages
    PROVE  PInv'
PROOF
<1>1. \A j \in Instances : Accepted(j)'
  BY StageSets DEF PInv, Accepted, DownloadedStages, OptimizedStages, VerdictStages
<1>2. \A j \in Instances : at'[j] # "stopped" => OneWorkDir(j)'
  BY StageSets DEF PInv, OneWorkDir
<1>3. CompletedIsAccepted' /\ ProgressAfterResult'
  BY DEF PInv, CompletedIsAccepted, ProgressAfterResult, Completed
<1> QED
  BY <1>1, <1>2, <1>3 DEF PInv

\* A step of one handler.
LEMMA InsideStep ==
    ASSUME TypeInv, PInv, NEW i \in Instances, Handler(i)
    PROVE  PInv'
PROOF
<1>1. /\ HandlerPre(i) /\ HandlerStep(i) /\ at[i] = "handle" /\ body' = body /\ at' = at
  BY DEF Handler, HandlerPre, TypeInv, TypeOK, Control, Holding
<1>2. StepPre(i)
  BY <1>1 DEF StepPre, PInv
<1>3. StepPost(i) /\ HandlerFrame(i)
  BY <1>1, <1>2, HandlerDetail, HandlerEffect
<1>4. \/ results' = results
      \/ stage[i] = "publish" /\ results' = results \cup {ResultEvent(i)}
  BY <1>1, HandlerEffect DEF SpecStep, PipelineStep, PublishStep
<1>5. \A j \in Instances : Accepted(j)'
  BY <1>1, <1>3 DEF PInv, StepPost, HandlerFrame, Accepted
<1>6. \A j \in Instances : at'[j] # "stopped" => OneWorkDir(j)'
  BY <1>1, <1>3 DEF PInv, StepPost, HandlerFrame, OneWorkDir
<1>7. CompletedIsAccepted'
  <2>1. /\ ResultEvent(i).job = call[i].job
        /\ ResultEvent(i).reason = call[i].reason
        /\ call[i].reason = NoReason => ResultEvent(i) = call[i]
    BY <1>1, ResultEventType DEF HandlerPre, ProcessorTypeOK
  <2>2. stage[i] = "publish" /\ call[i].reason = NoReason =>
           body[call[i].job] = "valid" /\ call[i].size <= MaxInputBytes /\ call[i].output # None
    BY AssumptionsHold DEF PInv, Accepted, VerdictStages, Assumptions
  <2> QED
    BY <1>1, <1>4, <2>1, <2>2 DEF PInv, CompletedIsAccepted, Completed
<1>8. ProgressAfterResult'
  <2> SUFFICES ASSUME NEW m \in Messages, signal'[m] = optimizationCompleted
               PROVE  \E r \in results' : r.job = m /\ Completed(r)
    BY DEF ProgressAfterResult, Completed
  <2>1. CASE signal[m] = optimizationCompleted
    BY <1>4, <2>1 DEF PInv, ProgressAfterResult
  <2>2. CASE m = call[i].job /\ call[i].reason = NoReason /\ ResultEvent(i) \in results'
    BY <1>1, <2>2, ResultEventType DEF HandlerPre, ProcessorTypeOK, Completed
  <2> QED
    BY <1>3, <2>1, <2>2 DEF StepPost, SharedEffect
<1> QED
  BY <1>5, <1>6, <1>7, <1>8 DEF PInv

LEMMA PInvNext == TypeInv /\ PInv /\ [Next]_vars => PInv'
PROOF
<1> SUFFICES ASSUME TypeInv, PInv, [Next]_vars PROVE PInv'
  OBVIOUS
<1>a. TypeOK /\ Control
  BY DEF TypeInv
<1>1. CASE UNCHANGED vars
  BY <1>1, OutsideStep DEF vars, procVars
<1>2. ASSUME NEW i \in Instances, Start(i) PROVE PInv'
  BY <1>2, <1>a, OutsideStep
  DEF Start, CleanupStaleWorkDirs, StartConsumer, GoAt, Control, TypeOK, ProcessorTypeOK
<1>3. ASSUME NEW i \in Instances, StartFails(i) PROVE PInv'
  BY <1>3, <1>a, OutsideStep DEF StartFails, TypeOK, ProcessorTypeOK
<1>4. ASSUME NEW i \in Instances,
             Ready(i) \/ HealthListenFails(i) \/ Shutdown(i) \/ Timeout(i)
      PROVE  PInv'
  BY <1>4, OutsideStep DEF Ready, HealthListenFails, Shutdown, Timeout, Deadline, procVars
<1>5. ASSUME NEW i \in Instances, Crash(i) PROVE PInv'
  BY <1>5, <1>a, OutsideStep DEF Crash, Exit, GoAt, TypeOK, ProcessorTypeOK
<1>6. ASSUME NEW i \in Instances, WorkerSelect(i) \/ ReadCancelled(i) PROVE PInv'
  BY <1>6, <1>a, OutsideStep DEF WorkerSelect, ReadCancelled, Exit, GoAt, procVars, TypeOK
<1>7. ASSUME NEW i \in Instances, NEW m \in Messages, Read(i, m) PROVE PInv'
  <2>1. /\ at[i] = "read" /\ stage[i] = "idle" /\ call'[i].reason = NoReason
        /\ \A j \in Instances : j # i => call'[j] = call[j] /\ stage'[j] = stage[j] /\ at'[j] = at[j]
        /\ stage'[i] \in {"idle", "spec"}
        /\ body' = body /\ results' = results /\ signal' = signal /\ dirs' = dirs
    BY <1>7, <1>a DEF Read, NewCall, GoAt, Goto, Control, TypeOK, ProcessorTypeOK
  <2> QED
    BY <2>1, StageSets, OutsideStep
<1>8. ASSUME NEW i \in Instances, ReadNothing(i) PROVE PInv'
  BY <1>8, <1>a, OutsideStep DEF ReadNothing, GoAt, TypeOK
<1>9. ASSUME NEW i \in Instances, Handler(i) PROVE PInv'
  BY <1>9, InsideStep
<1>10. ASSUME NEW i \in Instances, ProcessReturn(i) PROVE PInv'
  BY <1>10, <1>a, StageSets, OutsideStep
  DEF ProcessReturn, GoAt, Goto, TypeOK, ProcessorTypeOK
<1>11. ASSUME NEW i \in Instances, complete(i) \/ retry(i) \/ deadLetter(i) \/ requeue(i)
       PROVE  PInv'
  <2>1. SettleFrame(i)
    BY <1>11, <1>a, SettlingEffect
  <2>2. at[i] \notin {"handle", "stopped"}
    BY <1>11 DEF complete, retry, deadLetter, requeue
  <2>3. stage[i] = "idle"
    BY <2>2, <1>a DEF Control
  <2> QED
    BY <2>1, <2>2, <2>3, OutsideStep DEF SettleFrame, settleUnchanged
<1>12. ASSUME NEW m \in Messages, VisibilityTimeout(m) \/ LeaseOverrun(m) PROVE PInv'
  BY <1>12, OutsideStep DEF VisibilityTimeout, LeaseOverrun, expireUnchanged
<1> QED
  BY <1>1, <1>2, <1>3, <1>4, <1>5, <1>6, <1>7, <1>8, <1>9, <1>10, <1>11, <1>12
  DEF Next, WorkerStep

LEMMA PipelineInvariance == Spec => [](TypeInv /\ PInv)
BY TypeInvInit, TypeInvNext, PInvInit, PInvNext, PTL DEF Spec

\* A completed event is about a valid job, its source was within the limit when it
\* was downloaded and its output was written, for any sizes and any replacement of
\* the object between HEAD and GET.
THEOREM CompletedIsAcceptedCorrect == Spec => []CompletedIsAccepted
PROOF
<1>1. PInv => CompletedIsAccepted
  BY DEF PInv
<1> QED
  BY <1>1, PipelineInvariance, PTL

\* The 100 percent signal is never ahead of the completed event.
THEOREM ProgressAfterResultCorrect == Spec => []ProgressAfterResult
PROOF
<1>1. PInv => ProgressAfterResult
  BY DEF PInv
<1> QED
  BY <1>1, PipelineInvariance, PTL

\* A running instance outside the handler has no work directory, however its jobs
\* ended and however often the process died before, unless a removal failed.
THEOREM WorkDirsReclaimedCorrect == Spec => []WorkDirsReclaimed
PROOF
<1>1. TypeInv /\ PInv => WorkDirsReclaimed
  BY StageSets DEF TypeInv, Control, PInv, OneWorkDir, WorkDirsReclaimed
<1> QED
  BY <1>1, PipelineInvariance, PTL
-----------------------------------------------------------------------------
(* The lease. *)

\* The worker that holds a message has its latest delivery, and the row is still
\* queued and hidden: only the holder settles it, and it does not expire before.
Leased(i) ==
    LET row == queue[call[i].job]
    IN  at[i] \in Holding =>
          row.st = "queued" /\ ~row.visible /\ call[i].delivery = row.readCount

\* The output of a pipeline that went through is in the bucket until its event is
\* published, and after that as long as no later delivery has begun.
StoreInv ==
    /\ \A i \in Instances : Uploaded(i)
    /\ \A r \in results :
          Completed(r) /\ queue[r.job].readCount = r.delivery => store[r.job] = r.output

LeaseInv ==
    "overrun" \notin FaultKinds => (\A i \in Instances : Leased(i)) /\ StoreInv

\* Everything known of a reachable state.
SafeInv == IInv /\ PInv /\ LeaseInv
-----------------------------------------------------------------------------
\* What the queue's calls do to the visibility of a row.
LEMMA RowVisibility ==
    ASSUME NEW row \in Row
    PROVE  /\ RowRead(row).visible = FALSE
           /\ RowExpire(row).visible = TRUE
BY DEF Row, RowRead, RowExpire

\* Two workers with the latest delivery of the same command are one.
LEMMA OneHolder ==
    ASSUME IInv, NEW i \in Instances, NEW j \in Instances, Leased(i), Leased(j),
           at[i] \in Holding, at[j] \in Holding, call[i].job = call[j].job
    PROVE  i = j
BY DEF IInv, DeliveryInv, Leased

\* A step in which the rows of held messages do not change and nobody writes to
\* the bucket or publishes.
LEMMA LeaseKept ==
    ASSUME IInv, LeaseInv, "overrun" \notin FaultKinds,
           store' = store, results' = results,
           \A j \in Instances :
               \/ at'[j] \notin Holding
               \/ /\ at[j] \in Holding /\ call'[j] = call[j]
                  /\ queue'[call[j].job] = queue[call[j].job],
           \A j \in Instances :
               \/ stage'[j] \notin VerdictStages
               \/ stage'[j] = stage[j] /\ call'[j] = call[j],
           \A m \in Messages :
               /\ queue'[m].readCount \in Nat
               /\ queue[m].readCount <= queue'[m].readCount
    PROVE  LeaseInv'
PROOF
<1>1. \A j \in Instances : Leased(j)'
  BY DEF LeaseInv, Leased
<1>2. \A j \in Instances : Uploaded(j)'
  BY DEF LeaseInv, StoreInv, Uploaded
<1>3. \A r \in results : r.job \in Messages /\ r.delivery \in Nat /\ r.delivery <= queue[r.job].readCount
  BY DEF IInv, TypeInv, TypeOK, ProcessorTypeOK, Result, DeliveryInv
<1>4. \A m \in Messages : queue[m].readCount \in Nat
  BY DEF IInv, TypeInv, TypeOK, Row
<1>5. \A r \in results' :
         Completed(r) /\ queue'[r.job].readCount = r.delivery => store'[r.job] = r.output
  BY <1>3, <1>4 DEF LeaseInv, StoreInv, Completed
<1> QED
  BY <1>1, <1>2, <1>5 DEF LeaseInv, StoreInv, Completed

\* Replacing a row nobody holds.
LEMMA RowOfNobody ==
    ASSUME IInv, LeaseInv, "overrun" \notin FaultKinds,
           NEW m \in Messages, NEW row \in Row, SetRow(m, row),
           queue[m].readCount <= row.readCount,
           \A j \in Instances : at[j] \in Holding => call[j].job # m,
           store' = store, results' = results, call' = call, stage' = stage,
           \A j \in Instances : at'[j] \notin Holding \/ at'[j] = at[j]
    PROVE  LeaseInv'
PROOF
<1>1. queue'[m] = row /\ \A n \in Messages : n # m => queue'[n] = queue[n]
  BY SetRowEffect DEF IInv, TypeInv, TypeOK
<1>2. /\ \A n \in Messages : queue[n].readCount \in Nat
      /\ row.readCount \in Nat
      /\ \A j \in Instances : at[j] \in Holding => call[j].job \in Messages
  BY DEF IInv, TypeInv, TypeOK, Control, Row
<1>3. \A n \in Messages : queue'[n].readCount \in Nat /\ queue[n].readCount <= queue'[n].readCount
  BY <1>1, <1>2
<1>4. \A j \in Instances :
         \/ at'[j] \notin Holding
         \/ at[j] \in Holding /\ call'[j] = call[j] /\ queue'[call[j].job] = queue[call[j].job]
  BY <1>1, <1>2
<1> QED
  BY <1>3, <1>4, LeaseKept
-----------------------------------------------------------------------------
LEMMA LeaseInvInit == Init => LeaseInv
BY DEF Init, ProcessorInit, LeaseInv, Leased, StoreInv, Uploaded, Holding, VerdictStages

\* A message is read by one worker, which becomes its only holder.
LEMMA LeaseRead ==
    ASSUME SafeInv, "overrun" \notin FaultKinds, NEW i \in Instances, NEW m \in Messages, Read(i, m)
    PROVE  LeaseInv'
PROOF
<1>a. IInv /\ LeaseInv /\ TypeOK /\ Control
  BY DEF SafeInv, IInv, TypeInv
<1>1. /\ queue[m] \in Row /\ queue[m].readCount \in Nat
      /\ queue[m].st = "queued" /\ queue[m].visible
  BY <1>a DEF TypeOK, Row, Read, Readable
<1>2. /\ queue'[m].readCount = queue[m].readCount + 1
      /\ queue'[m].st = "queued" /\ queue'[m].visible = FALSE
      /\ \A n \in Messages : n # m => queue'[n] = queue[n]
  <2>1. /\ RowRead(queue[m]) \in Row /\ RowRead(queue[m]).st = queue[m].st
        /\ RowRead(queue[m]).readCount = queue[m].readCount + 1
        /\ RowRead(queue[m]).visible = FALSE
    BY <1>1, RowOps, RowVisibility
  <2>2. SetRow(m, RowRead(queue[m]))
    BY DEF Read
  <2>3. queue'[m] = RowRead(queue[m]) /\ \A n \in Messages : n # m => queue'[n] = queue[n]
    BY <1>a, <2>1, <2>2, SetRowEffect DEF TypeOK
  <2> QED
    BY <1>1, <2>1, <2>3
<1>3. /\ call'[i].job = m /\ call'[i].delivery = queue[m].readCount + 1
      /\ \A j \in Instances : j # i => call'[j] = call[j]
  BY <1>a, <1>1, NewCallType DEF Read, TypeOK, ProcessorTypeOK
<1>4. /\ \A j \in Instances : j # i => at'[j] = at[j] /\ stage'[j] = stage[j]
      /\ stage[i] = "idle" /\ stage'[i] \in {"idle", "spec"}
      /\ store' = store /\ results' = results
  BY <1>a DEF Read, GoAt, Goto, TypeOK, ProcessorTypeOK, Control
<1>5. \A j \in Instances : at[j] \in Holding => call[j].job \in Messages /\ call[j].job # m
  BY <1>a, <1>1 DEF LeaseInv, Leased, Control
<1>6. \A j \in Instances : Leased(j)'
  BY <1>a, <1>2, <1>3, <1>4, <1>5 DEF LeaseInv, Leased
<1>7. \A j \in Instances : Uploaded(j)'
  BY <1>a, <1>3, <1>4 DEF LeaseInv, StoreInv, Uploaded, VerdictStages
<1>8. \A r \in results : r.job \in Messages /\ r.delivery \in Nat /\ r.delivery <= queue[r.job].readCount
  BY <1>a DEF IInv, TypeOK, ProcessorTypeOK, Result, DeliveryInv
<1>9. \A r \in results' :
         Completed(r) /\ queue'[r.job].readCount = r.delivery => store'[r.job] = r.output
  BY <1>a, <1>1, <1>2, <1>4, <1>8 DEF LeaseInv, StoreInv, Completed
<1> QED
  BY <1>6, <1>7, <1>9 DEF LeaseInv, StoreInv, Completed

\* Only the holder of a command writes its object, before its event is published;
\* the event then carries what was written.
LEMMA LeaseHandler ==
    ASSUME SafeInv, "overrun" \notin FaultKinds, NEW i \in Instances, Handler(i)
    PROVE  LeaseInv'
PROOF
<1>a. IInv /\ PInv /\ LeaseInv /\ TypeOK /\ Control
  BY DEF SafeInv, IInv, TypeInv
<1>1. /\ HandlerPre(i) /\ HandlerStep(i) /\ at[i] = "handle" /\ body' = body /\ at' = at
      /\ queue' = queue
  BY <1>a DEF Handler, HandlerPre, TypeOK, Control, Holding
<1>2. StepPost(i) /\ HandlerFrame(i)
  BY <1>1, <1>a, HandlerDetail, HandlerEffect DEF StepPre, PInv
<1>3. \/ results' = results
      \/ stage[i] = "publish" /\ results' = results \cup {ResultEvent(i)}
  BY <1>1, HandlerEffect DEF SpecStep, PipelineStep, PublishStep
<1>4. /\ \A j \in Instances : call'[j].job = call[j].job /\ call'[j].delivery = call[j].delivery
      /\ \A j \in Instances : j # i => call'[j] = call[j] /\ stage'[j] = stage[j]
  BY <1>2 DEF HandlerFrame
<1>5. \A j \in Instances : Leased(j)'
  BY <1>a, <1>1, <1>4 DEF LeaseInv, Leased
<1>6. store' = store \/ (stage[i] = "upload" /\ store' = [store EXCEPT ![call[i].job] = call[i].output])
  BY <1>2 DEF StepPost, SharedEffect
<1>7. \A m \in Messages : m # call[i].job => store'[m] = store[m]
  BY <1>6, <1>a DEF TypeOK, ProcessorTypeOK
<1>8. \A j \in Instances : Uploaded(j)'
  <2> SUFFICES ASSUME NEW j \in Instances, j # i, stage'[j] \in VerdictStages,
                      call'[j].reason = NoReason
               PROVE  store'[call'[j].job] = call'[j].output
    BY <1>a, <1>2 DEF StepPost, LeaseInv, StoreInv, Uploaded
  <2>1. stage[j] \in VerdictStages /\ call'[j] = call[j]
    BY <1>4
  <2>2. at[j] \in Holding /\ at[i] \in Holding
    BY <1>a, <1>1, <2>1 DEF Control, VerdictStages, Holding
  <2>3. call[j].job # call[i].job /\ call[j].job \in Messages
    BY <1>a, <2>2, OneHolder DEF LeaseInv, Control
  <2> QED
    BY <1>a, <1>7, <2>1, <2>3 DEF LeaseInv, StoreInv, Uploaded
<1>9. \A r \in results' :
         Completed(r) /\ queue[r.job].readCount = r.delivery => store'[r.job] = r.output
  <2> SUFFICES ASSUME NEW r \in results', Completed(r), queue[r.job].readCount = r.delivery
               PROVE  store'[r.job] = r.output
    OBVIOUS
  <2>1. CASE r \in results
    <3>1. r.job # call[i].job \/ store' = store
      <4>1. call[i].delivery = queue[call[i].job].readCount
        BY <1>a, <1>1 DEF LeaseInv, Leased, Holding
      <4> QED
        BY <1>a, <1>1, <1>6, <2>1, <4>1 DEF IInv, AnswerInv
    <3>2. r.job \in Messages
      BY <1>a, <2>1 DEF TypeOK, ProcessorTypeOK, Result
    <3> QED
      BY <1>a, <1>7, <2>1, <3>1, <3>2 DEF LeaseInv, StoreInv
  <2>2. CASE stage[i] = "publish" /\ r = ResultEvent(i)
    <3>1. call[i].reason = NoReason /\ r = call[i]
      BY <1>1, <2>2, ResultEventType DEF Completed, HandlerPre, ProcessorTypeOK
    <3>2. store[call[i].job] = call[i].output
      BY <1>a, <2>2, <3>1 DEF LeaseInv, StoreInv, Uploaded, VerdictStages
    <3> QED
      BY <1>6, <2>2, <3>1, <3>2
  <2> QED
    BY <1>3, <2>1, <2>2
<1> QED
  BY <1>1, <1>5, <1>8, <1>9 DEF LeaseInv, StoreInv, Completed

\* A settling call touches the row of the message in hand, which nobody else holds.
LEMMA LeaseSettle ==
    ASSUME SafeInv, "overrun" \notin FaultKinds, NEW i \in Instances,
           complete(i) \/ retry(i) \/ deadLetter(i) \/ requeue(i)
    PROVE  LeaseInv'
PROOF
<1> DEFINE job == call[i].job
<1>a. IInv /\ LeaseInv /\ TypeOK /\ Control
  BY DEF SafeInv, IInv, TypeInv
<1>1. SettleFrame(i)
  BY <1>a, SettlingEffect
<1>2. /\ store' = store /\ results' = results /\ stage' = stage
      /\ at'[i] = "poll"
      /\ \A j \in Instances : j # i => at'[j] = at[j] /\ call'[j] = call[j]
  BY <1>1 DEF SettleFrame, settleUnchanged
<1>3. at[i] \in Holding /\ at[i] # "handle" /\ job \in Messages /\ queue[job] \in Row
  BY <1>a DEF complete, retry, deadLetter, requeue, Holding, Control, TypeOK
<1>4. PICK row \in Row : /\ row.readCount = queue[job].readCount
                         /\ queue' = queue \/ SetRow(job, row)
  <2>1. \/ queue' = queue
        \/ SetRow(job, RowDelete(queue[job]))
        \/ SetRow(job, RowArchive(queue[job]))
        \/ SetRow(job, RowSetVt(queue[job], TRUE))
        \/ SetRow(job, RowSetVt(queue[job], FALSE))
    BY <1>a, SettlingEffect
  <2>2. /\ RowDelete(queue[job]) \in Row /\ RowDelete(queue[job]).readCount = queue[job].readCount
        /\ RowArchive(queue[job]) \in Row /\ RowArchive(queue[job]).readCount = queue[job].readCount
        /\ RowSetVt(queue[job], TRUE) \in Row /\ RowSetVt(queue[job], TRUE).readCount = queue[job].readCount
        /\ RowSetVt(queue[job], FALSE) \in Row /\ RowSetVt(queue[job], FALSE).readCount = queue[job].readCount
    BY <1>3, RowOps
  <2> QED
    BY <1>3, <2>1, <2>2, Zenon
<1>5. /\ \A n \in Messages : n # job => queue'[n] = queue[n]
      /\ \A n \in Messages : queue'[n].readCount = queue[n].readCount /\ queue[n].readCount \in Nat
  <2>1. \A n \in Messages : queue[n].readCount \in Nat
    BY <1>a DEF TypeOK, Row
  <2>2. CASE queue' = queue
    BY <2>1, <2>2
  <2>3. CASE SetRow(job, row)
    <3>1. queue'[job] = row /\ \A n \in Messages : n # job => queue'[n] = queue[n]
      BY <1>a, <1>3, <2>3, SetRowEffect DEF TypeOK
    <3> QED
      BY <1>4, <2>1, <3>1
  <2> QED
    BY <1>4, <2>2, <2>3
<1>6. \A j \in Instances : j # i /\ at[j] \in Holding => call[j].job \in Messages /\ call[j].job # job
  BY <1>a, <1>3, OneHolder DEF LeaseInv, Control
<1>7. \A j \in Instances :
         \/ at'[j] \notin Holding
         \/ at[j] \in Holding /\ call'[j] = call[j] /\ queue'[call[j].job] = queue[call[j].job]
  BY <1>2, <1>5, <1>6 DEF Holding
<1>8. \A j \in Instances :
         \/ stage'[j] \notin VerdictStages
         \/ stage'[j] = stage[j] /\ call'[j] = call[j]
  BY <1>a, <1>2, <1>3 DEF Control, VerdictStages
<1> QED
  BY <1>a, <1>2, <1>5, <1>7, <1>8, LeaseKept

LEMMA LeaseInvNext == SafeInv /\ [Next]_vars => LeaseInv'
PROOF
<1> SUFFICES ASSUME SafeInv, [Next]_vars, "overrun" \notin FaultKinds PROVE LeaseInv'
  BY DEF LeaseInv
<1>a. IInv /\ LeaseInv /\ TypeOK /\ Control
  BY DEF SafeInv, IInv, TypeInv
<1>b. \A m \in Messages : queue[m] \in Row /\ queue[m].readCount \in Nat
  BY <1>a DEF TypeOK, Row
<1>1. CASE UNCHANGED vars
  BY <1>1, <1>a, <1>b, LeaseKept DEF vars, procVars
<1>2. ASSUME NEW i \in Instances,
             \/ Start(i) \/ StartFails(i) \/ Ready(i) \/ HealthListenFails(i) \/ Shutdown(i)
             \/ Crash(i) \/ Timeout(i) \/ WorkerSelect(i) \/ ReadCancelled(i)
      PROVE  LeaseInv'
  <2>1. store' = store /\ results' = results /\ queue' = queue
    BY <1>2 DEF Start, StartFails, Ready, HealthListenFails, Shutdown, Crash, Timeout,
                Deadline, WorkerSelect, ReadCancelled, procVars
  <2>2. \A j \in Instances :
           /\ \/ at'[j] \notin Holding
              \/ at'[j] = at[j] /\ call'[j] = call[j]
           /\ \/ stage'[j] \notin VerdictStages
              \/ stage'[j] = stage[j] /\ call'[j] = call[j]
    <3>1. CASE Start(i)
      BY <1>a, <3>1 DEF Start, StartConsumer, GoAt, Holding, TypeOK
    <3>2. CASE StartFails(i) \/ Ready(i) \/ HealthListenFails(i) \/ Shutdown(i) \/ Timeout(i)
      BY <3>2 DEF StartFails, Ready, HealthListenFails, Shutdown, Timeout, Deadline, procVars
    <3>3. CASE Crash(i)
      BY <1>a, <3>3 DEF Crash, Exit, GoAt, Holding, VerdictStages, TypeOK, ProcessorTypeOK
    <3>4. CASE WorkerSelect(i) \/ ReadCancelled(i)
      BY <1>a, <3>4 DEF WorkerSelect, ReadCancelled, Exit, GoAt, procVars, Holding, TypeOK
    <3> QED
      BY <1>2, <3>1, <3>2, <3>3, <3>4
  <2> QED
    BY <1>a, <1>b, <2>1, <2>2, LeaseKept
<1>3. ASSUME NEW i \in Instances, NEW m \in Messages, Read(i, m) PROVE LeaseInv'
  BY <1>3, LeaseRead
<1>4. ASSUME NEW i \in Instances, ReadNothing(i) PROVE LeaseInv'
  <2>1. /\ store' = store /\ results' = results /\ call' = call /\ stage' = stage
        /\ \A j \in Instances : at'[j] \notin Holding \/ at'[j] = at[j]
    BY <1>4, <1>a DEF ReadNothing, GoAt, Holding, TypeOK
  <2>2. CASE queue' = queue
    BY <1>a, <1>b, <2>1, <2>2, LeaseKept
  <2>3. ASSUME NEW m \in Messages, Readable(queue[m]), SetRow(m, RowRead(queue[m]))
        PROVE  LeaseInv'
    <3>1. \A j \in Instances : at[j] \in Holding => call[j].job # m
      BY <1>a, <2>3 DEF LeaseInv, Leased, Readable
    <3>2. RowRead(queue[m]) \in Row /\ RowRead(queue[m]).readCount = queue[m].readCount + 1
      BY <1>b, RowOps
    <3>3. queue[m].readCount <= RowRead(queue[m]).readCount
      BY <1>b, <3>2
    <3> QED
      BY <1>a, <2>1, <2>3, <3>1, <3>2, <3>3, RowOfNobody
  <2> QED
    BY <1>4, <2>2, <2>3 DEF ReadNothing
<1>5. ASSUME NEW i \in Instances, Handler(i) PROVE LeaseInv'
  BY <1>5, LeaseHandler
<1>6. ASSUME NEW i \in Instances, ProcessReturn(i) PROVE LeaseInv'
  <2>1. /\ at[i] = "handle" /\ store' = store /\ results' = results /\ call' = call /\ queue' = queue
        /\ \A j \in Instances : j # i => at'[j] = at[j] /\ stage'[j] = stage[j]
        /\ stage'[i] = "idle"
    BY <1>6, <1>a DEF ProcessReturn, GoAt, Goto, TypeOK, ProcessorTypeOK
  <2> QED
    BY <1>a, <1>b, <2>1, LeaseKept DEF Holding, VerdictStages
<1>7. ASSUME NEW i \in Instances, complete(i) \/ retry(i) \/ deadLetter(i) \/ requeue(i)
      PROVE  LeaseInv'
  BY <1>7, LeaseSettle
<1>8. ASSUME NEW m \in Messages, VisibilityTimeout(m) PROVE LeaseInv'
  <2>1. \A j \in Instances : at[j] \in Holding => call[j].job # m
    BY <1>8, <1>a DEF VisibilityTimeout, CurrentHolder, Holds, LeaseInv, Leased
  <2>2. RowExpire(queue[m]) \in Row /\ RowExpire(queue[m]).readCount = queue[m].readCount
    BY <1>b, RowOps
  <2>3. queue[m].readCount <= RowExpire(queue[m]).readCount
    BY <1>b, <2>2
  <2> QED
    BY <1>8, <1>a, <2>1, <2>2, <2>3, RowOfNobody DEF VisibilityTimeout, expireUnchanged
<1>9. ~ \E m \in Messages : LeaseOverrun(m)
  BY DEF LeaseOverrun, Fault
<1> QED
  BY <1>1, <1>2, <1>3, <1>4, <1>5, <1>6, <1>7, <1>8, <1>9 DEF Next, WorkerStep

LEMMA SafeInvariance == Spec => []SafeInv
PROOF
<1>1. Init => SafeInv
  BY IInvInit, PInvInit, LeaseInvInit DEF SafeInv
<1>2. SafeInv /\ [Next]_vars => SafeInv'
  BY IInvNext, PInvNext, LeaseInvNext DEF SafeInv, IInv
<1> QED
  BY <1>1, <1>2, PTL DEF Spec

\* Without an overrun lease a command is in the hands of one worker at most, for any
\* number of instances, crashes, restarts and lost replies of the database.
THEOREM ExclusiveDeliveryCorrect == Spec => []ExclusiveDelivery
PROOF
<1>1. SafeInv => ExclusiveDelivery
  BY OneHolder DEF SafeInv, LeaseInv, ExclusiveDelivery, Holds
<1> QED
  BY <1>1, SafeInvariance, PTL

\* Without an overrun lease the object in the bucket is the one the completed event
\* of the latest delivery describes.
THEOREM ResultMatchesStoreCorrect == Spec => []ResultMatchesStore
PROOF
<1>1. SafeInv => ResultMatchesStore
  BY DEF SafeInv, LeaseInv, StoreInv, ResultMatchesStore
<1> QED
  BY <1>1, SafeInvariance, PTL

\* Without an overrun lease the output object of a settled command is not written
\* again: the writer holds the command, and a held command is still queued.
THEOREM SettledOutputFrozenCorrect == Spec => SettledOutputFrozen
PROOF
<1> DEFINE Frozen == "overrun" \notin FaultKinds =>
                        \A m \in Messages : queue[m].st # "queued" => store'[m] = store[m]
<1>1. SafeInv /\ [Next]_vars => [Frozen]_vars
  <2> SUFFICES ASSUME SafeInv, Next, "overrun" \notin FaultKinds,
                      NEW m \in Messages, queue[m].st # "queued"
               PROVE  store'[m] = store[m]
    OBVIOUS
  <2>1. CASE store' = store
    BY <2>1
  <2>2. ASSUME NEW i \in Instances, Handler(i) PROVE store'[m] = store[m]
    <3>a. IInv /\ PInv /\ LeaseInv /\ TypeOK /\ Control
      BY DEF SafeInv, IInv, TypeInv
    <3>1. /\ HandlerPre(i) /\ HandlerStep(i) /\ at[i] = "handle" /\ body' = body
      BY <2>2, <3>a DEF Handler, HandlerPre, TypeOK, Control, Holding
    <3>2. StepPost(i)
      BY <3>1, <3>a, HandlerDetail DEF StepPre, PInv
    <3>3. call[i].job # m
      BY <3>1, <3>a DEF LeaseInv, Leased, Holding
    <3> QED
      BY <3>a, <3>2, <3>3 DEF StepPost, SharedEffect, TypeOK, ProcessorTypeOK
  <2>3. ASSUME NEW i \in Instances, ~Handler(i),
               \/ Start(i) \/ StartFails(i) \/ Ready(i) \/ HealthListenFails(i) \/ Shutdown(i)
               \/ Crash(i) \/ Timeout(i) \/ WorkerStep(i)
        PROVE  store' = store
    BY <2>3 DEF Start, StartFails, Ready, HealthListenFails, Shutdown, Crash, Timeout, Deadline,
                WorkerStep, WorkerSelect, Read, ReadNothing, ReadCancelled, ProcessReturn,
                complete, retry, deadLetter, requeue, settleUnchanged, procVars
  <2>4. ASSUME NEW n \in Messages, VisibilityTimeout(n) \/ LeaseOverrun(n)
        PROVE  store' = store
    BY <2>4 DEF VisibilityTimeout, LeaseOverrun, expireUnchanged
  <2> QED
    BY <2>1, <2>2, <2>3, <2>4 DEF Next
<1> QED
  BY <1>1, SafeInvariance, PTL DEF Spec, SettledOutputFrozen
=============================================================================
