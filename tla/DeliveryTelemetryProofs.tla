---------------------- MODULE DeliveryTelemetryProofs ----------------------
(***************************************************************************)
(* Proofs about DeliveryTelemetry, for any number of instances, commands,  *)
(* deliveries and faults.  Telemetry only watches: every step of it is a   *)
(* step of MeshConsumer, so the invariant SafeInv of MeshPipelineProofs    *)
(* holds here.                                                             *)
(*                                                                         *)
(* What makes the records of a delivery agree is what its worker may still *)
(* say (StoryInv): nothing was said of the outcome while the handler runs, *)
(* or on the way to a completion or a requeue, and the failure was said    *)
(* before a retry or a burial; and no two workers have the same delivery.  *)
(***************************************************************************)
EXTENDS DeliveryTelemetry, MeshPipelineProofs

Kinds == Outcomes \cup JobOutcomes \cup
         {"retryAccepted", "retryFailed", "dlqAccepted", "dlqFailed",
          "jobStarted", "publishSucceeded", "publishFailed"}

RecordsType == records \subseteq [kind : Kinds, job : Messages, delivery : Nat]

\* The outcome of delivery d of command m has been reported.
Told(m, d) == \E r \in records : r.kind \in Outcomes /\ r.job = m /\ r.delivery = d

StoryInv ==
    /\ \A r \in records : r.delivery <= queue[r.job].readCount
    /\ \A i \in Instances :
        /\ at[i] \in {"handle", "complete", "requeue"} => ~Told(call[i].job, call[i].delivery)
        /\ at[i] \in {"retry", "deadLetter"} =>
              \E r \in records : r.kind = "handlerFailed" /\ r.job = call[i].job /\ r.delivery = call[i].delivery

\* Where no worker can lose its command to another one: no lease is overrun, or there
\* is only one worker.
Undisturbed == "overrun" \notin FaultKinds \/ \A i, j \in Instances : i = j

\* A command in hand is still in the queue.
HeldQueued == Undisturbed => \A i \in Instances : at[i] \in Holding => queue[call[i].job].st = "queued"

TelemetryInv ==
    RecordsType /\ StoryInv /\ OneOutcomePerDelivery /\ JobRecordsMatchResults
-----------------------------------------------------------------------------
\* Every step of TelemetryNext is a step of MeshConsumer's Next.
LEMMA WatchesOnly == [TelemetryNext]_telemetryVars => [Next]_vars
BY DEF TelemetryNext, ObservedStep, QuietStep, Next, WorkerStep, telemetryVars

LEMMA WatchedSafe == TelemetrySpec => []SafeInv
<1>1. TelemetryInit => SafeInv
  BY IInvInit, PInvInit, LeaseInvInit DEF TelemetryInit, SafeInv
<1>2. SafeInv /\ [TelemetryNext]_telemetryVars => SafeInv'
  BY WatchesOnly, IInvNext, PInvNext, LeaseInvNext DEF SafeInv, IInv
<1>. QED BY <1>1, <1>2, PTL DEF TelemetrySpec

LEMMA KindNames ==
    /\ {"retryAccepted", "retryFailed", "dlqAccepted", "dlqFailed", "jobStarted",
        "publishSucceeded", "publishFailed", "jobSucceeded", "jobFailed"} \cap Outcomes = {}
    /\ {"deliverySucceeded", "completionFailed", "handlerFailed", "requeued"} = Outcomes
    /\ {"jobSucceeded", "jobFailed"} = JobOutcomes
    /\ Outcomes \cap JobOutcomes = {}
BY DEF Outcomes, JobOutcomes

\* The records of kinds K about delivery d of command m.
About(K, m, d) == {[kind |-> k, job |-> m, delivery |-> d] : k \in K}

LEMMA AboutFields ==
    ASSUME NEW K, NEW m, NEW d
    PROVE  /\ \A r \in About(K, m, d) : r.kind \in K /\ r.job = m /\ r.delivery = d
           /\ \A k \in K : \E r \in About(K, m, d) : r.kind = k /\ r.job = m /\ r.delivery = d
           /\ \A r, s \in About(K, m, d) : r.kind = s.kind => r = s
<1> DEFINE about(k) == [kind |-> k, job |-> m, delivery |-> d]
<1>1. \A k : about(k).kind = k /\ about(k).job = m /\ about(k).delivery = d
  OBVIOUS
<1>2. About(K, m, d) = {about(k) : k \in K}
  BY DEF About
<1> HIDE DEF about
<1>. QED BY <1>1, <1>2

\* What a step may report of delivery d of command m: at most one outcome, and only
\* when it has none; of the job only what an event in the result queue says.
MayReport(K, m, d) ==
    /\ K \in SUBSET Kinds
    /\ K # {} => m \in Messages /\ d \in Nat /\ d <= queue'[m].readCount
    /\ \A k, l \in K \cap Outcomes : k = l
    /\ K \cap Outcomes # {} => ~Told(m, d)
    /\ \A k \in K \cap JobOutcomes :
          \E e \in results' : e.job = m /\ e.delivery = d /\ (Completed(e) <=> k = "jobSucceeded")

\* Where a report leaves the workers: without a command, with a command the report is
\* not about, or with this one on the way that fits the report.
FitsWorker(j, K, m, d) ==
    \/ at'[j] \notin Holding
    \/ /\ at'[j] = at[j] /\ call'[j].job = call[j].job /\ call'[j].delivery = call[j].delivery
       /\ K \cap Outcomes = {} \/ call[j].job # m \/ call[j].delivery # d
    \/ /\ call'[j].job = m /\ call'[j].delivery = d
       /\ at'[j] \in {"retry", "deadLetter"} => "handlerFailed" \in K
       /\ at'[j] \in {"handle", "complete", "requeue"} => K \cap Outcomes = {} /\ ~Told(m, d)

OnlyGrows ==
    /\ \A n \in Messages : queue[n].readCount <= queue'[n].readCount
    /\ results \subseteq results'

\* A step that reports what it may and leaves the workers fitting keeps the records
\* consistent.
LEMMA StoryStep ==
    ASSUME TelemetryInv, TypeInv, TypeInv', OnlyGrows, NEW K, NEW m, NEW d, MayReport(K, m, d),
           records' = records \cup About(K, m, d),
           \A j \in Instances : FitsWorker(j, K, m, d)
    PROVE  TelemetryInv'
<1> USE DEF MayReport, OnlyGrows
<1>0. /\ RecordsType /\ StoryInv /\ OneOutcomePerDelivery /\ JobRecordsMatchResults
      /\ \A n \in Messages : queue[n].readCount \in Nat /\ queue'[n].readCount \in Nat
  BY DEF TelemetryInv, TypeInv, TypeOK, Row
<1>1. RecordsType'
  BY <1>0 DEF RecordsType, About
<1>2. \A r \in records' : r.delivery <= queue'[r.job].readCount
  <2> SUFFICES ASSUME NEW r \in records' PROVE r.delivery <= queue'[r.job].readCount
    OBVIOUS
  <2>1. CASE r \in records
    BY <1>0, <2>1 DEF RecordsType, StoryInv
  <2>2. CASE r \in About(K, m, d)
    BY <2>2, AboutFields
  <2>. QED BY <2>1, <2>2
<1>3. ASSUME NEW x, NEW y, ~Told(x, y), K \cap Outcomes = {} \/ x # m \/ y # d
      PROVE  ~Told(x, y)'
  BY <1>3, AboutFields DEF Told
<1>4. ASSUME NEW j \in Instances, at'[j] \in Holding
      PROVE  /\ at'[j] \in {"handle", "complete", "requeue"} => ~Told(call[j].job, call[j].delivery)'
             /\ at'[j] \in {"retry", "deadLetter"} =>
                   \E r \in records' : r.kind = "handlerFailed" /\ r.job = call'[j].job /\ r.delivery = call'[j].delivery
  <2>1. CASE /\ at'[j] = at[j] /\ call'[j].job = call[j].job /\ call'[j].delivery = call[j].delivery
             /\ K \cap Outcomes = {} \/ call[j].job # m \/ call[j].delivery # d
    <3>1. /\ at[j] \in {"handle", "complete", "requeue"} => ~Told(call[j].job, call[j].delivery)
          /\ at[j] \in {"retry", "deadLetter"} =>
                \E r \in records : r.kind = "handlerFailed" /\ r.job = call[j].job /\ r.delivery = call[j].delivery
      BY <1>0 DEF StoryInv
    <3>2. at[j] \in {"handle", "complete", "requeue"} => ~Told(call[j].job, call[j].delivery)'
      BY <2>1, <3>1, AboutFields DEF Told
    <3>. QED BY <2>1, <3>1, <3>2
  <2>2. CASE /\ call'[j].job = m /\ call'[j].delivery = d
             /\ at'[j] \in {"retry", "deadLetter"} => "handlerFailed" \in K
             /\ at'[j] \in {"handle", "complete", "requeue"} => K \cap Outcomes = {} /\ ~Told(m, d)
    <3>1. at'[j] \in {"handle", "complete", "requeue"} => ~Told(call[j].job, call[j].delivery)'
      BY <2>2, AboutFields DEF Told
    <3>2. at'[j] \in {"retry", "deadLetter"} =>
             \E r \in records' : r.kind = "handlerFailed" /\ r.job = call'[j].job /\ r.delivery = call'[j].delivery
      BY <2>2, AboutFields
    <3>. QED BY <3>1, <3>2
  <2>. QED BY <1>4, <2>1, <2>2 DEF FitsWorker
<1>5. StoryInv'
  BY <1>2, <1>4 DEF StoryInv, Holding
<1>6. OneOutcomePerDelivery'
  <2> SUFFICES ASSUME NEW r \in records', NEW s \in records', r.kind \in Outcomes, s.kind \in Outcomes,
                      r.job = s.job, r.delivery = s.delivery
               PROVE  r = s
    BY DEF OneOutcomePerDelivery
  <2>1. CASE r \in records /\ s \in records
    BY <1>0, <2>1 DEF OneOutcomePerDelivery
  <2>2. CASE r \in About(K, m, d) /\ s \in About(K, m, d)
    BY <2>2, AboutFields
  <2>3. CASE r \in records /\ s \in About(K, m, d)
    BY <2>3, AboutFields DEF Told
  <2>4. CASE s \in records /\ r \in About(K, m, d)
    BY <2>4, AboutFields DEF Told
  <2>. QED BY <2>1, <2>2, <2>3, <2>4
<1>7. JobRecordsMatchResults'
  <2> SUFFICES ASSUME NEW r \in records', r.kind \in JobOutcomes
               PROVE  \E e \in results' : /\ e.job = r.job /\ e.delivery = r.delivery
                                          /\ Completed(e) <=> r.kind = "jobSucceeded"
    BY DEF JobRecordsMatchResults, Completed
  <2>1. CASE r \in records
    BY <1>0, <2>1 DEF JobRecordsMatchResults
  <2>2. CASE r \in About(K, m, d)
    BY <2>2, AboutFields
  <2>. QED BY <2>1, <2>2
<1>. QED BY <1>1, <1>5, <1>6, <1>7 DEF TelemetryInv
-----------------------------------------------------------------------------
(* The emissions. *)

\* The outcome of a settling call is reported once, by one of its two kinds.
LEMMA EmitByEffect ==
    ASSUME NEW i \in Instances, NEW A, NEW F, EmitBy(i, A, F)
    PROVE  \E K \in {A, F} : /\ records' = records \cup About(K, call[i].job, call[i].delivery)
                             /\ K = A => Settled(i) \/ A = F
BY DEF EmitBy, Emit, EmitFor, About

\* What a worker holds, and that nobody else holds the same delivery.
LEMMA OwnDelivery ==
    ASSUME IInv, NEW i \in Instances, at[i] \in Holding
    PROVE  /\ call[i].job \in Messages /\ call[i].delivery \in Nat
           /\ call[i].delivery <= queue[call[i].job].readCount
           /\ \A j \in Instances \ {i} : at[j] \in Holding =>
                 call[j].job # call[i].job \/ call[j].delivery # call[i].delivery
BY DEF IInv, TypeInv, TypeOK, Control, ProcessorTypeOK, Call, DeliveryInv

\* Reading counts a delivery, and no other call on a row changes the count.
LEMMA ReadCountGrows ==
    ASSUME TypeInv, NEW m \in Messages, NEW row \in Row,
           row.readCount >= queue[m].readCount, SetRow(m, row)
    PROVE  \A n \in Messages : queue[n].readCount <= queue'[n].readCount
<1>1. \A n \in Messages : queue[n].readCount \in Nat
  BY DEF TypeInv, TypeOK, Row
<1>2. queue'[m] = row /\ \A n \in Messages : n # m => queue'[n] = queue[n]
  BY SetRowEffect DEF TypeInv, TypeOK
<1>3. row.readCount \in Nat
  BY DEF Row
<1>. QED BY <1>1, <1>2, <1>3

\* A settling call of worker i tells one outcome or none, and lets go of the command.
LEMMA SettlingStory ==
    ASSUME SafeInv, TelemetryInv, TypeInv', NEW i \in Instances, at[i] \in Holding,
           complete(i) \/ retry(i) \/ deadLetter(i) \/ requeue(i),
           NEW K \in SUBSET Kinds, K \cap JobOutcomes = {},
           \A k, l \in K \cap Outcomes : k = l,
           K \cap Outcomes # {} => at[i] \in {"complete", "requeue"},
           records' = records \cup About(K, call[i].job, call[i].delivery)
    PROVE  TelemetryInv'
<1> DEFINE m == call[i].job
           d == call[i].delivery
<1>1. IInv /\ TypeInv /\ TypeOK /\ Control
  BY DEF SafeInv, IInv, TypeInv
<1>2. /\ m \in Messages /\ d \in Nat /\ d <= queue[m].readCount /\ queue[m] \in Row
      /\ \A j \in Instances \ {i} : at[j] \in Holding => call[j].job # m \/ call[j].delivery # d
  BY <1>1, OwnDelivery DEF TypeOK
<1>3. /\ SettleFrame(i)
      /\ \/ queue' = queue
         \/ \E row \in {RowDelete(queue[m]), RowArchive(queue[m]), RowSetVt(queue[m], TRUE), RowSetVt(queue[m], FALSE)} :
               SetRow(m, row)
  BY <1>1, SettlingEffect
<1>4. \A row \in {RowDelete(queue[m]), RowArchive(queue[m]), RowSetVt(queue[m], TRUE), RowSetVt(queue[m], FALSE)} :
         row \in Row /\ row.readCount = queue[m].readCount
  BY <1>2, RowOps, ZenonT(30)
<1>5. \A n \in Messages : queue[n].readCount <= queue'[n].readCount
  <2>1. \A n \in Messages : queue[n].readCount \in Nat
    BY <1>1 DEF TypeOK, Row
  <2>2. CASE queue' = queue
    BY <2>1, <2>2
  <2>3. ASSUME NEW row \in {RowDelete(queue[m]), RowArchive(queue[m]), RowSetVt(queue[m], TRUE), RowSetVt(queue[m], FALSE)},
               SetRow(m, row)
        PROVE  \A n \in Messages : queue[n].readCount <= queue'[n].readCount
    <3>1. row \in Row /\ row.readCount = queue[m].readCount /\ queue[m].readCount \in Nat
      BY <1>2, <1>4, <2>1
    <3>2. row.readCount >= queue[m].readCount
      BY <3>1
    <3>. QED BY <1>1, <1>2, <2>3, <3>1, <3>2, ReadCountGrows
  <2>. QED BY <1>3, <2>2, <2>3
<1>6. results' = results
  BY <1>3 DEF SettleFrame, settleUnchanged
<1>7. /\ \A n \in Messages : queue[n].readCount \in Nat /\ queue'[n].readCount \in Nat
      /\ d <= queue'[m].readCount
  <2>1. \A n \in Messages : queue[n].readCount \in Nat /\ queue'[n].readCount \in Nat
    BY <1>1 DEF TypeInv, TypeOK, Row
  <2>. QED BY <1>2, <1>5, <2>1
<1>8. MayReport(K, m, d)
  <2>1. K \cap Outcomes # {} => ~Told(m, d)
    BY DEF TelemetryInv, StoryInv
  <2>. QED BY <1>2, <1>7, <2>1 DEF MayReport
<1>9. at'[i] \notin Holding /\ \A j \in Instances \ {i} : at'[j] = at[j] /\ call'[j] = call[j]
  BY <1>3 DEF SettleFrame, Holding
<1>10. \A j \in Instances : FitsWorker(j, K, m, d)
  BY <1>2, <1>9 DEF FitsWorker
<1>11. OnlyGrows
  BY <1>5, <1>6 DEF OnlyGrows
<1>. QED BY <1>1, <1>8, <1>10, <1>11, StoryStep

\* A step without a record, in which no worker gets a command or moves on with one.
LEMMA QuietStory ==
    ASSUME TelemetryInv, TypeInv, TypeInv', OnlyGrows, records' = records,
           \A j \in Instances : at'[j] \notin Holding \/ (at'[j] = at[j] /\ call'[j] = call[j])
    PROVE  TelemetryInv'
<1>1. About({}, None, 0) = {} /\ MayReport({}, None, 0)
  BY DEF About, MayReport
<1>2. \A j \in Instances : FitsWorker(j, {}, None, 0)
  BY DEF FitsWorker
<1>. QED BY <1>1, <1>2, StoryStep

\* A new delivery has no record yet; when its message breaks the contract, its
\* failure is reported and it is on its way to the archive.
LEMMA ReadStory ==
    ASSUME SafeInv, TelemetryInv, TypeInv', NEW i \in Instances, NEW m \in Messages,
           Read(i, m), emitRead(i)
    PROVE  TelemetryInv'
<1> DEFINE d == queue[m].readCount + 1
           K == IF at'[i] = "deadLetter" THEN {"handlerFailed"} ELSE {}
<1>1. IInv /\ TypeInv /\ TypeOK
  BY DEF SafeInv, IInv, TypeInv
<1>2. /\ \A n \in Messages : queue[n] \in Row /\ queue[n].readCount \in Nat
      /\ \A j \in Instances : at[j] \in Holding =>
            call[j].job \in Messages /\ call[j].delivery \in Nat /\ call[j].delivery <= queue[call[j].job].readCount
  BY <1>1, OwnDelivery DEF TypeOK, Row
<1>3. /\ queue'[m].readCount = d
      /\ \A n \in Messages : n # m => queue'[n] = queue[n]
  BY <1>1, RowOps, SetRowEffect DEF Read, TypeOK
<1>4. /\ call'[i].job = m /\ call'[i].delivery = d
      /\ \A j \in Instances : j # i => call'[j] = call[j]
  BY <1>1, <1>2, NewCallType DEF Read, TypeOK, ProcessorTypeOK
<1>5. /\ results' = results
      /\ \A j \in Instances : j # i => at'[j] = at[j]
      /\ at'[i] \in {"deadLetter", "handle"}
  BY <1>1 DEF Read, GoAt, TypeOK
<1>6. records' = records \cup About(K, m, d)
  BY <1>4 DEF emitRead, EmitFor, About
<1> HIDE DEF d
<1>7. d \in Nat /\ d > queue[m].readCount
  BY <1>2 DEF d
<1>8. ~Told(m, d)
  BY <1>2, <1>7 DEF TelemetryInv, StoryInv, Told
<1>9. OnlyGrows
  BY <1>2, <1>3, <1>5, <1>7 DEF OnlyGrows
<1>10. MayReport(K, m, d)
  BY <1>3, <1>7, <1>8, KindNames DEF MayReport, Kinds
<1>11. \A j \in Instances : FitsWorker(j, K, m, d)
  <2>1. FitsWorker(i, K, m, d)
    BY <1>4, <1>5, <1>8 DEF FitsWorker
  <2>2. ASSUME NEW j \in Instances, j # i PROVE FitsWorker(j, K, m, d)
    BY <1>2, <1>4, <1>5, <1>7, <2>2 DEF FitsWorker
  <2>. QED BY <2>1, <2>2
<1> HIDE DEF K
<1>. QED BY <1>1, <1>6, <1>9, <1>10, <1>11, StoryStep

\* When the handler returns, its failure is reported exactly on the way to a retry
\* or a burial.
LEMMA ReturnStory ==
    ASSUME SafeInv, TelemetryInv, TypeInv', NEW i \in Instances, ProcessReturn(i), emitReturn(i)
    PROVE  TelemetryInv'
<1> DEFINE m == call[i].job
           d == call[i].delivery
           K == IF Settlement(i) \in {"retry", "deadLetter"} THEN {"handlerFailed"} ELSE {}
<1>1. IInv /\ TypeInv /\ TypeOK
  BY DEF SafeInv, IInv, TypeInv
<1>2. /\ at[i] = "handle" /\ at'[i] = Settlement(i) /\ call' = call /\ queue' = queue /\ results' = results
      /\ \A j \in Instances : j # i => at'[j] = at[j]
  BY <1>1 DEF ProcessReturn, GoAt, TypeOK
<1>3. /\ m \in Messages /\ d \in Nat /\ d <= queue[m].readCount
      /\ \A j \in Instances \ {i} : at[j] \in Holding => call[j].job # m \/ call[j].delivery # d
  BY <1>1, <1>2, OwnDelivery DEF Holding
<1>4. ~Told(m, d)
  BY <1>2 DEF TelemetryInv, StoryInv
<1>5. records' = records \cup About(K, m, d)
  BY DEF emitReturn, Emit, EmitFor, About
<1>6. OnlyGrows
  <2>1. \A n \in Messages : queue[n].readCount \in Nat
    BY <1>1 DEF TypeOK, Row
  <2>. QED BY <1>2, <2>1 DEF OnlyGrows
<1>7. MayReport(K, m, d)
  BY <1>2, <1>3, <1>4, KindNames DEF MayReport, Kinds
<1>8. \A j \in Instances : FitsWorker(j, K, m, d)
  <2>1. FitsWorker(i, K, m, d)
    BY <1>2, <1>4 DEF FitsWorker
  <2>2. ASSUME NEW j \in Instances, j # i PROVE FitsWorker(j, K, m, d)
    BY <1>2, <1>3, <2>2 DEF FitsWorker
  <2>. QED BY <2>1, <2>2
<1> HIDE DEF K
<1>. QED BY <1>1, <1>5, <1>6, <1>7, <1>8, StoryStep

\* A handler that returns nil has enqueued the completed event of its delivery, one
\* that returns a TerminalResultError the failed one.
LEMMA PublishVerdict ==
    ASSUME NEW i \in Instances, HandlerPre(i), HandlerStep(i), stage[i] = "publish",
           ret'[i] \in {"nil", "terminal"}
    PROVE  \E e \in results' : /\ e.job = call[i].job /\ e.delivery = call[i].delivery
                               /\ Completed(e) <=> ret'[i] = "nil"
<1>1. /\ ResultEvent(i).job = call[i].job /\ ResultEvent(i).delivery = call[i].delivery
      /\ ResultEvent(i).reason = call[i].reason
  BY ResultEventType DEF HandlerPre, ProcessorTypeOK
<1>2. PublishComplete(i) \/ PublishFail(i)
  BY DEF HandlerStep, HandleMeshJob, GetObjectSize, Download, InspectSource, Optimize,
         InspectOutput, Upload, CleanupJobWorkDir
<1>3. \A r : Return(i, r) => ret'[i] = r
  BY DEF Return, HandlerPre, ProcessorTypeOK
<1>4. /\ ResultEvent(i) \in results'
      /\ call[i].reason = NoReason <=> ret'[i] = "nil"
  BY <1>2, <1>3 DEF PublishComplete, PublishFail, enqueueResult
<1>. QED BY <1>1, <1>4 DEF Completed

\* The handler reports nothing of the delivery's outcome, and of its job what it has
\* published.
LEMMA HandlerStory ==
    ASSUME SafeInv, TelemetryInv, TypeInv', NEW i \in Instances, Handler(i), emitJob(i)
    PROVE  TelemetryInv'
<1> DEFINE m == call[i].job
           d == call[i].delivery
<1>1. IInv /\ TypeInv /\ TypeOK /\ Control
  BY DEF SafeInv, IInv, TypeInv
<1>2. /\ HandlerPre(i) /\ HandlerStep(i) /\ at[i] = "handle" /\ body' = body /\ at' = at /\ queue' = queue
  BY <1>1 DEF Handler, HandlerPre, TypeOK, Control, Holding
<1>3. /\ m \in Messages /\ d \in Nat /\ d <= queue[m].readCount
  BY <1>1, <1>2, OwnDelivery DEF Holding
<1>4. \A j \in Instances : call'[j].job = call[j].job /\ call'[j].delivery = call[j].delivery
  BY <1>2, HandlerEffect DEF HandlerFrame
<1>5. OnlyGrows
  <2>1. \A n \in Messages : queue[n].readCount \in Nat
    BY <1>1 DEF TypeOK, Row
  <2>2. results \subseteq results'
    BY <1>2, HandlerEffect DEF SpecStep, PipelineStep, PublishStep
  <2>. QED BY <1>2, <2>1, <2>2 DEF OnlyGrows
<1>6. PICK K \in SUBSET {"jobStarted", "publishSucceeded", "publishFailed", "jobSucceeded", "jobFailed"} :
         /\ records' = records \cup About(K, m, d)
         /\ "jobSucceeded" \in K => stage[i] = "publish" /\ ret'[i] = "nil"
         /\ "jobFailed" \in K => stage[i] = "publish" /\ ret'[i] = "terminal"
  <2>1. \A K : Emit(i, K) => records' = records \cup About(K, m, d)
    BY DEF Emit, EmitFor, About
  <2>2. About({}, m, d) = {}
    BY DEF About
  <2>. QED BY <2>1, <2>2 DEF emitJob
<1>7. MayReport(K, m, d)
  <2>1. K \cap Outcomes = {} /\ K \in SUBSET Kinds
    BY DEF Outcomes, JobOutcomes, Kinds
  <2>2. ASSUME NEW k \in K \cap JobOutcomes
        PROVE  \E e \in results' : e.job = m /\ e.delivery = d /\ (Completed(e) <=> k = "jobSucceeded")
    <3>1. CASE k = "jobSucceeded"
      BY <1>2, <1>6, <3>1, PublishVerdict
    <3>2. CASE k = "jobFailed"
      BY <1>2, <1>6, <3>2, PublishVerdict
    <3>. QED BY <3>1, <3>2, <2>2 DEF JobOutcomes
  <2>. QED BY <1>2, <1>3, <2>1, <2>2 DEF MayReport
<1>8. \A j \in Instances : FitsWorker(j, K, m, d)
  BY <1>2, <1>4, <1>6, KindNames DEF FitsWorker
<1>. QED BY <1>1, <1>5, <1>6, <1>7, <1>8, StoryStep

\* The four settling calls report one outcome or none.
LEMMA SettleStory ==
    ASSUME SafeInv, TelemetryInv, TypeInv', NEW i \in Instances,
           \/ complete(i) /\ emitComplete(i)
           \/ retry(i) /\ emitQueueRetryResult(i)
           \/ deadLetter(i) /\ emitQueueDLQResult(i)
           \/ requeue(i) /\ emitRequeue(i)
    PROVE  TelemetryInv'
<1>1. CASE complete(i) /\ emitComplete(i)
  <2>1. at[i] = "complete" /\ at[i] \in Holding
    BY <1>1 DEF complete, Holding
  <2>2. PICK K \in {{"deliverySucceeded"}, {"completionFailed"}} :
           records' = records \cup About(K, call[i].job, call[i].delivery)
    BY <1>1, EmitByEffect DEF emitComplete
  <2>3. K \in SUBSET Kinds /\ K \cap JobOutcomes = {} /\ \A k, l \in K \cap Outcomes : k = l
    BY DEF Kinds, Outcomes, JobOutcomes
  <2>. QED BY <1>1, <2>1, <2>2, <2>3, SettlingStory
<1>2. CASE retry(i) /\ emitQueueRetryResult(i)
  <2>1. at[i] = "retry" /\ at[i] \in Holding
    BY <1>2 DEF retry, Holding
  <2>2. PICK K \in {{"retryAccepted"}, {"retryFailed"}} :
           records' = records \cup About(K, call[i].job, call[i].delivery)
    BY <1>2, EmitByEffect DEF emitQueueRetryResult
  <2>3. K \in SUBSET Kinds /\ K \cap JobOutcomes = {} /\ K \cap Outcomes = {}
    BY DEF Kinds, Outcomes, JobOutcomes
  <2>. QED BY <1>2, <2>1, <2>2, <2>3, SettlingStory
<1>3. CASE deadLetter(i) /\ emitQueueDLQResult(i)
  <2>1. at[i] = "deadLetter" /\ at[i] \in Holding
    BY <1>3 DEF deadLetter, Holding
  <2>2. PICK K \in {{"dlqAccepted"}, {"dlqFailed"}} :
           records' = records \cup About(K, call[i].job, call[i].delivery)
    BY <1>3, EmitByEffect DEF emitQueueDLQResult
  <2>3. K \in SUBSET Kinds /\ K \cap JobOutcomes = {} /\ K \cap Outcomes = {}
    BY DEF Kinds, Outcomes, JobOutcomes
  <2>. QED BY <1>3, <2>1, <2>2, <2>3, SettlingStory
<1>4. CASE requeue(i) /\ emitRequeue(i)
  <2>1. at[i] = "requeue" /\ at[i] \in Holding
    BY <1>4 DEF requeue, Holding
  <2>2. PICK K \in {{"requeued", "retryAccepted"}, {"requeued", "retryFailed"}} :
           records' = records \cup About(K, call[i].job, call[i].delivery)
    BY <1>4, EmitByEffect DEF emitRequeue
  <2>3. K \in SUBSET Kinds /\ K \cap JobOutcomes = {} /\ \A k, l \in K \cap Outcomes : k = l
    BY DEF Kinds, Outcomes, JobOutcomes
  <2>. QED BY <1>4, <2>1, <2>2, <2>3, SettlingStory
<1>. QED BY <1>1, <1>2, <1>3, <1>4
-----------------------------------------------------------------------------
LEMMA TelemetryInvInit == TelemetryInit => TelemetryInv
BY DEF TelemetryInit, Init, TelemetryInv, RecordsType, StoryInv, Told, OneOutcomePerDelivery,
       JobRecordsMatchResults

LEMMA TelemetryInvNext == SafeInv /\ TelemetryInv /\ [TelemetryNext]_telemetryVars => TelemetryInv'
<1> SUFFICES ASSUME SafeInv, TelemetryInv, [TelemetryNext]_telemetryVars PROVE TelemetryInv'
  OBVIOUS
<1>a. TypeInv /\ TypeInv' /\ TypeOK
  BY WatchesOnly, TypeInvNext DEF SafeInv, IInv, TypeInv
<1>b. \A n \in Messages : queue[n] \in Row /\ queue[n].readCount \in Nat
  BY <1>a DEF TypeOK, Row
<1>1. CASE UNCHANGED telemetryVars
  BY <1>1, <1>a, <1>b, QuietStory DEF telemetryVars, vars, procVars, OnlyGrows
<1>2. ASSUME NEW i \in Instances, ObservedStep(i) PROVE TelemetryInv'
  BY <1>2, <1>a, ReadStory, ReturnStory, HandlerStory, SettleStory DEF ObservedStep
<1>3. ASSUME NEW i \in Instances, QuietStep(i) PROVE TelemetryInv'
  <2>1. records' = records
    BY <1>3 DEF QuietStep
  <2>2. CASE \/ Start(i) \/ StartFails(i) \/ Ready(i) \/ HealthListenFails(i) \/ Shutdown(i)
             \/ Crash(i) \/ Timeout(i) \/ WorkerSelect(i) \/ ReadCancelled(i)
    <3>1. results' = results /\ queue' = queue
      BY <2>2 DEF Start, StartFails, Ready, HealthListenFails, Shutdown, Crash, Timeout,
                  Deadline, WorkerSelect, ReadCancelled, procVars
    <3>2. \A j \in Instances : at'[j] \notin Holding \/ (at'[j] = at[j] /\ call'[j] = call[j])
      <4>1. CASE Start(i)
        BY <1>a, <4>1 DEF Start, StartConsumer, GoAt, Holding, TypeOK
      <4>2. CASE StartFails(i) \/ Ready(i) \/ HealthListenFails(i) \/ Shutdown(i) \/ Timeout(i)
        BY <4>2 DEF StartFails, Ready, HealthListenFails, Shutdown, Timeout, Deadline, procVars
      <4>3. CASE Crash(i)
        BY <1>a, <4>3 DEF Crash, Exit, GoAt, Holding, TypeOK, ProcessorTypeOK
      <4>4. CASE WorkerSelect(i) \/ ReadCancelled(i)
        BY <1>a, <4>4 DEF WorkerSelect, ReadCancelled, Exit, GoAt, procVars, Holding, TypeOK
      <4>. QED BY <2>2, <4>1, <4>2, <4>3, <4>4
    <3>. QED BY <1>a, <1>b, <2>1, <3>1, <3>2, QuietStory DEF OnlyGrows
  <2>3. CASE ReadNothing(i)
    <3>1. /\ results' = results
          /\ \A j \in Instances : at'[j] \notin Holding \/ (at'[j] = at[j] /\ call'[j] = call[j])
      BY <1>a, <2>3 DEF ReadNothing, GoAt, Holding, TypeOK
    <3>2. \A n \in Messages : queue[n].readCount <= queue'[n].readCount
      <4>1. ASSUME NEW m \in Messages, SetRow(m, RowRead(queue[m]))
            PROVE  \A n \in Messages : queue[n].readCount <= queue'[n].readCount
        <5>1. RowRead(queue[m]) \in Row /\ RowRead(queue[m]).readCount = queue[m].readCount + 1
          BY <1>b, RowOps
        <5>2. RowRead(queue[m]).readCount >= queue[m].readCount
          BY <1>b, <5>1
        <5>. QED BY <1>a, <4>1, <5>1, <5>2, ReadCountGrows
      <4>. QED BY <1>b, <2>3, <4>1 DEF ReadNothing
    <3>. QED BY <1>a, <2>1, <3>1, <3>2, QuietStory DEF OnlyGrows
  <2>. QED BY <1>3, <2>2, <2>3 DEF QuietStep
<1>4. ASSUME NEW m \in Messages, VisibilityTimeout(m) \/ LeaseOverrun(m), records' = records
      PROVE  TelemetryInv'
  <2>1. SetRow(m, RowExpire(queue[m])) /\ UNCHANGED expireUnchanged
    BY <1>4 DEF VisibilityTimeout, LeaseOverrun
  <2>2. RowExpire(queue[m]) \in Row /\ RowExpire(queue[m]).readCount = queue[m].readCount
    BY <1>b, RowOps
  <2>3. RowExpire(queue[m]).readCount >= queue[m].readCount
    BY <1>b, <2>2
  <2>4. \A n \in Messages : queue[n].readCount <= queue'[n].readCount
    BY <1>a, <2>1, <2>2, <2>3, ReadCountGrows
  <2>. QED BY <1>4, <1>a, <2>1, <2>4, QuietStory DEF OnlyGrows, expireUnchanged
<1>. QED BY <1>1, <1>2, <1>3, <1>4 DEF TelemetryNext

LEMMA TelemetryInvariance == TelemetrySpec => [](SafeInv /\ TelemetryInv)
<1>1. TelemetryInit => TelemetryInv
  BY TelemetryInvInit
<1>2. SafeInv /\ TelemetryInv /\ [TelemetryNext]_telemetryVars => TelemetryInv'
  BY TelemetryInvNext
<1>. QED BY <1>1, <1>2, WatchedSafe, PTL DEF TelemetrySpec

\* A delivery is reported as succeeded, as failed or as requeued, and never as two of
\* them, for any number of instances, overrun leases, crashes and lost replies.
THEOREM OneOutcomePerDeliveryCorrect == TelemetrySpec => []OneOutcomePerDelivery
<1>1. TelemetryInv => OneOutcomePerDelivery
  BY DEF TelemetryInv
<1>. QED BY <1>1, TelemetryInvariance, PTL

\* A job is reported as succeeded or failed only with the event of the same delivery
\* in the result queue that says so.
THEOREM JobRecordsMatchResultsCorrect == TelemetrySpec => []JobRecordsMatchResults
<1>1. TelemetryInv => JobRecordsMatchResults
  BY DEF TelemetryInv
<1>. QED BY <1>1, TelemetryInvariance, PTL

\* A worker goes back to its loop with a command in hand only by a settling call.
LEMMA LetGoBySettling ==
    ASSUME TypeInv, TelemetryNext, NEW i \in Instances, at[i] \in Holding, at'[i] = "poll"
    PROVE  \/ complete(i) /\ emitComplete(i)
           \/ retry(i) /\ emitQueueRetryResult(i)
           \/ deadLetter(i) /\ emitQueueDLQResult(i)
           \/ requeue(i) /\ emitRequeue(i)
<1> USE DEF TypeInv, TypeOK
<1>1. ASSUME NEW k \in Instances, ObservedStep(k), k # i PROVE at'[i] = at[i]
  BY <1>1 DEF ObservedStep, Read, ProcessReturn, complete, retry, deadLetter, requeue, Handler,
              NextMessage, GoAt
<1>2. ASSUME NEW k \in Instances, QuietStep(k) PROVE at'[i] = at[i] \/ at[i] \notin Holding \/ at'[i] # "poll"
  BY <1>2 DEF QuietStep, Start, StartConsumer, StartFails, Ready, HealthListenFails, Shutdown,
              Crash, Exit, Timeout, WorkerSelect, ReadNothing, ReadCancelled, GoAt, Holding
<1>3. ASSUME NEW m \in Messages, VisibilityTimeout(m) \/ LeaseOverrun(m) PROVE at' = at
  BY <1>3 DEF VisibilityTimeout, LeaseOverrun, expireUnchanged
<1>4. ASSUME NEW m \in Messages, Read(i, m) PROVE at[i] \notin Holding
  BY <1>4 DEF Read, Holding
<1>5. ASSUME ProcessReturn(i) \/ Handler(i) PROVE at'[i] # "poll"
  BY <1>5 DEF ProcessReturn, Settlement, Handler, GoAt
<1>6. at[i] # "poll"
  BY DEF Holding
<1>. QED BY <1>1, <1>2, <1>3, <1>4, <1>5, <1>6 DEF TelemetryNext, ObservedStep

\* No delivery a worker finishes goes unreported: a completion and a requeue report
\* it whatever the call returned, a retry and a burial follow a reported failure.
THEOREM EveryDeliveryReportedCorrect == TelemetrySpec => EveryDeliveryReported
<1> DEFINE Reported == \A i \in Instances : at[i] \in Holding /\ at'[i] = "poll" =>
          \E k \in Outcomes : [kind |-> k, job |-> call[i].job, delivery |-> call[i].delivery] \in records'
<1>1. SafeInv /\ TelemetryInv /\ [TelemetryNext]_telemetryVars => [Reported]_telemetryVars
  <2> SUFFICES ASSUME SafeInv, TelemetryInv, TelemetryNext,
                      NEW i \in Instances, at[i] \in Holding, at'[i] = "poll"
               PROVE  \E k \in Outcomes :
                         [kind |-> k, job |-> call[i].job, delivery |-> call[i].delivery] \in records'
    OBVIOUS
  <2> DEFINE record(k) == [kind |-> k, job |-> call[i].job, delivery |-> call[i].delivery]
  <2>1. \/ complete(i) /\ emitComplete(i)
        \/ retry(i) /\ emitQueueRetryResult(i)
        \/ deadLetter(i) /\ emitQueueDLQResult(i)
        \/ requeue(i) /\ emitRequeue(i)
    BY LetGoBySettling DEF SafeInv, IInv
  <2>2. \A A, F : EmitBy(i, A, F) => \E K \in {A, F} : records' = records \cup About(K, call[i].job, call[i].delivery)
    BY EmitByEffect
  <2>3. \A K : About(K, call[i].job, call[i].delivery) = {record(k) : k \in K}
    BY DEF About
  <2> HIDE DEF record
  <2>4. CASE complete(i) /\ emitComplete(i)
    <3>1. PICK K \in {{"deliverySucceeded"}, {"completionFailed"}} :
             records' = records \cup About(K, call[i].job, call[i].delivery)
      BY <2>2, <2>4 DEF emitComplete
    <3>2. record("deliverySucceeded") \in records' \/ record("completionFailed") \in records'
      BY <2>3, <3>1
    <3>. QED BY <3>2 DEF Outcomes, record
  <2>5. CASE requeue(i) /\ emitRequeue(i)
    <3>1. PICK K \in {{"requeued", "retryAccepted"}, {"requeued", "retryFailed"}} :
             records' = records \cup About(K, call[i].job, call[i].delivery)
      BY <2>2, <2>5 DEF emitRequeue
    <3>2. record("requeued") \in records'
      BY <2>3, <3>1
    <3>. QED BY <3>2 DEF Outcomes, record
  <2>6. CASE (retry(i) /\ emitQueueRetryResult(i)) \/ (deadLetter(i) /\ emitQueueDLQResult(i))
    <3>1. at[i] \in {"retry", "deadLetter"}
      BY <2>6 DEF retry, deadLetter
    <3>2. PICK r \in records : r.kind = "handlerFailed" /\ r.job = call[i].job /\ r.delivery = call[i].delivery
      BY <3>1 DEF TelemetryInv, StoryInv
    <3>3. r = record("handlerFailed")
      BY <3>2 DEF TelemetryInv, RecordsType, record
    <3>4. records \subseteq records'
      BY <2>2, <2>6 DEF emitQueueRetryResult, emitQueueDLQResult
    <3>. QED BY <3>2, <3>3, <3>4 DEF Outcomes, record
  <2>. QED BY <2>1, <2>4, <2>5, <2>6
<1>. QED BY <1>1, TelemetryInvariance, PTL DEF TelemetrySpec, EveryDeliveryReported
-----------------------------------------------------------------------------
(* What is reported as settled is settled. *)

\* A row leaves the queue only by a completion or a burial, and never comes back.
LEMMA RowsStay ==
    ASSUME TypeInv, [Next]_vars, NEW n \in Messages
    PROVE  \/ queue'[n].st = queue[n].st
           \/ /\ queue[n].st = "queued"
              /\ \E i \in Instances : at[i] \in Holding /\ at'[i] = "poll" /\ call[i].job = n
<1>a. TypeOK /\ Control
  BY DEF TypeInv
<1>b. \A m \in Messages : queue[m] \in Row
  BY <1>a DEF TypeOK
<1>1. CASE queue' = queue
  BY <1>1
<1>2. ASSUME NEW m \in Messages, NEW row \in Row, row.st = queue[m].st, SetRow(m, row)
      PROVE  queue'[n].st = queue[n].st
  BY <1>2, <1>a, SetRowEffect DEF TypeOK
<1>3. ASSUME NEW i \in Instances, NEW m \in Messages, Read(i, m) PROVE queue'[n].st = queue[n].st
  BY <1>3, <1>2, <1>b, RowOps DEF Read
<1>4. ASSUME NEW i \in Instances, ReadNothing(i) PROVE queue'[n].st = queue[n].st
  BY <1>4, <1>2, <1>b, RowOps DEF ReadNothing
<1>5. ASSUME NEW m \in Messages, VisibilityTimeout(m) \/ LeaseOverrun(m) PROVE queue'[n].st = queue[n].st
  BY <1>5, <1>2, <1>b, RowOps DEF VisibilityTimeout, LeaseOverrun
<1>6. ASSUME NEW i \in Instances, complete(i) \/ retry(i) \/ deadLetter(i) \/ requeue(i)
      PROVE  \/ queue'[n].st = queue[n].st
             \/ queue[n].st = "queued" /\ at[i] \in Holding /\ at'[i] = "poll" /\ call[i].job = n
  <2> DEFINE m == call[i].job
  <2>1. at[i] \in Holding /\ m \in Messages
    BY <1>6, <1>a DEF complete, retry, deadLetter, requeue, Holding, Control
  <2>2. /\ at'[i] = "poll"
        /\ \/ queue' = queue
           \/ SetRow(m, RowDelete(queue[m])) \/ SetRow(m, RowArchive(queue[m]))
           \/ SetRow(m, RowSetVt(queue[m], TRUE)) \/ SetRow(m, RowSetVt(queue[m], FALSE))
    BY <1>6, <1>a, SettlingEffect DEF SettleFrame
  <2>3. CASE SetRow(m, RowSetVt(queue[m], TRUE)) \/ SetRow(m, RowSetVt(queue[m], FALSE))
    BY <1>2, <1>b, <2>1, <2>3, RowOps
  <2>4. CASE SetRow(m, RowDelete(queue[m])) \/ SetRow(m, RowArchive(queue[m]))
    <3>1. /\ n # m => queue'[n] = queue[n]
          /\ queue'[m] = RowDelete(queue[m]) \/ queue'[m] = RowArchive(queue[m])
      BY <1>a, <1>b, <2>1, <2>4, RowOps, SetRowEffect DEF TypeOK
    <3>2. queue[m].st # "queued" => queue'[m].st = queue[m].st
      BY <1>b, <2>1, <3>1, RowOps, ZenonT(30)
    <3>. QED BY <2>1, <2>2, <3>1, <3>2
  <2>. QED BY <1>1, <2>2, <2>3, <2>4
<1>7. ASSUME NEW i \in Instances,
             \/ Start(i) \/ StartFails(i) \/ Ready(i) \/ HealthListenFails(i) \/ Shutdown(i)
             \/ Crash(i) \/ Timeout(i) \/ WorkerSelect(i) \/ ReadCancelled(i) \/ Handler(i) \/ ProcessReturn(i)
      PROVE  queue' = queue
  BY <1>7 DEF Start, StartFails, Ready, HealthListenFails, Shutdown, Crash, Timeout,
              WorkerSelect, ReadCancelled, Handler, ProcessReturn
<1>8. CASE UNCHANGED vars
  BY <1>8 DEF vars
<1>. QED BY <1>1, <1>3, <1>4, <1>5, <1>6, <1>7, <1>8 DEF Next, WorkerStep

\* A worker with a command has just read it, or had it before.
LEMMA HandsStay ==
    ASSUME TypeInv, [Next]_vars, NEW j \in Instances, at'[j] \in Holding
    PROVE  \/ \E m \in Messages : Read(j, m)
           \/ at[j] \in Holding /\ call'[j].job = call[j].job
<1>a. TypeOK /\ Control
  BY DEF TypeInv
<1>1. CASE UNCHANGED vars
  BY <1>1 DEF vars, procVars
<1>2. ASSUME NEW i \in Instances,
             \/ Start(i) \/ StartFails(i) \/ Ready(i) \/ HealthListenFails(i) \/ Shutdown(i)
             \/ Crash(i) \/ Timeout(i) \/ WorkerSelect(i) \/ ReadNothing(i) \/ ReadCancelled(i)
      PROVE  at[j] \in Holding /\ call'[j].job = call[j].job
  <2>1. CASE Start(i) \/ WorkerSelect(i) \/ ReadNothing(i) \/ ReadCancelled(i)
    BY <1>a, <2>1 DEF Start, StartConsumer, WorkerSelect, ReadNothing, ReadCancelled, Exit, GoAt,
                      procVars, Holding, TypeOK
  <2>2. CASE StartFails(i) \/ Ready(i) \/ HealthListenFails(i) \/ Shutdown(i) \/ Timeout(i)
    BY <2>2 DEF StartFails, Ready, HealthListenFails, Shutdown, Timeout, Deadline, procVars
  <2>3. CASE Crash(i)
    BY <1>a, <2>3 DEF Crash, Exit, GoAt, Holding, TypeOK, ProcessorTypeOK
  <2>. QED BY <1>2, <2>1, <2>2, <2>3
<1>3. ASSUME NEW i \in Instances, NEW m \in Messages, Read(i, m), i # j
      PROVE  at[j] \in Holding /\ call'[j].job = call[j].job
  BY <1>3, <1>a DEF Read, GoAt, TypeOK, ProcessorTypeOK
<1>4. ASSUME NEW i \in Instances, Handler(i) PROVE at[j] \in Holding /\ call'[j].job = call[j].job
  <2>1. HandlerPre(i) /\ HandlerStep(i) /\ body' = body /\ at' = at
    BY <1>4, <1>a DEF Handler, HandlerPre, TypeOK, Control, Holding
  <2>. QED BY <2>1, HandlerEffect DEF HandlerFrame
<1>5. ASSUME NEW i \in Instances, ProcessReturn(i) PROVE at[j] \in Holding /\ call'[j].job = call[j].job
  BY <1>5, <1>a DEF ProcessReturn, GoAt, Holding, TypeOK
<1>6. ASSUME NEW i \in Instances, complete(i) \/ retry(i) \/ deadLetter(i) \/ requeue(i)
      PROVE  at[j] \in Holding /\ call'[j].job = call[j].job
  BY <1>6, <1>a, SettlingEffect DEF SettleFrame, Holding
<1>7. ASSUME NEW m \in Messages, VisibilityTimeout(m) \/ LeaseOverrun(m)
      PROVE  at[j] \in Holding /\ call'[j].job = call[j].job
  BY <1>7 DEF VisibilityTimeout, LeaseOverrun, expireUnchanged
<1>. QED BY <1>1, <1>2, <1>3, <1>4, <1>5, <1>6, <1>7 DEF Next, WorkerStep

\* While nobody can lose a command to another worker, a command in hand is queued.
LEMMA HeldQueuedNext == SafeInv /\ SafeInv' /\ HeldQueued /\ [Next]_vars => HeldQueued'
<1> SUFFICES ASSUME SafeInv, SafeInv', HeldQueued, [Next]_vars, Undisturbed,
                    NEW j \in Instances, at'[j] \in Holding
             PROVE  queue'[call'[j].job].st = "queued"
  BY DEF HeldQueued, Undisturbed
<1>a. TypeInv /\ TypeOK /\ Control
  BY DEF SafeInv, IInv, TypeInv
<1>1. CASE "overrun" \notin FaultKinds
  BY <1>1 DEF SafeInv, LeaseInv, Leased
<1>2. CASE \A i, k \in Instances : i = k
  <2>1. \A n \in Messages : queue'[n].st = queue[n].st
    BY <1>a, <1>2, RowsStay DEF Holding
  <2>2. ASSUME NEW m \in Messages, Read(j, m) PROVE queue'[call'[j].job].st = "queued"
    <3>1. call'[j].job = m
      <4>1. queue[m].readCount + 1 \in Nat
        BY <1>a DEF TypeOK, Row
      <4>. QED BY <1>a, <2>2, <4>1, NewCallType DEF Read, TypeOK, ProcessorTypeOK
    <3>. QED BY <2>1, <2>2, <3>1 DEF Read, Readable
  <2>3. CASE at[j] \in Holding /\ call'[j].job = call[j].job
    BY <1>a, <2>1, <2>3 DEF HeldQueued, Control
  <2>. QED BY <1>a, <2>2, <2>3, HandsStay
<1>. QED BY <1>1, <1>2 DEF Undisturbed

\* What the step reports as settled it has settled.
LEMMA HandoffNext ==
    ASSUME SafeInv, TelemetryInv, HeldQueued, Undisturbed, HandoffTruthful,
           [TelemetryNext]_telemetryVars
    PROVE  HandoffTruthful'
<1>a. TypeInv /\ TypeOK /\ Control /\ faults \in Nat
  BY DEF SafeInv, IInv, TypeInv, TypeOK, ProcessorTypeOK
<1>1. \A r \in records : r.job \in Messages
  BY DEF TelemetryInv, RecordsType
<1>2. \A n \in Messages : queue[n].st # "queued" => queue'[n].st = queue[n].st
  BY <1>a, WatchesOnly, RowsStay
<1>3. ASSUME NEW K, NEW m, NEW d, records' = records \cup About(K, m, d),
             "deliverySucceeded" \in K => queue'[m].st = "deleted",
             "dlqAccepted" \in K => queue'[m].st = "archived"
      PROVE  HandoffTruthful'
  <2> SUFFICES ASSUME NEW r \in records'
               PROVE  /\ r.kind = "deliverySucceeded" => queue'[r.job].st = "deleted"
                      /\ r.kind = "dlqAccepted" => queue'[r.job].st = "archived"
    BY DEF HandoffTruthful
  <2>1. CASE r \in records
    BY <1>1, <1>2, <2>1 DEF HandoffTruthful
  <2>2. CASE r \in About(K, m, d)
    BY <1>3, <2>2, AboutFields
  <2>. QED BY <1>3, <2>1, <2>2
<1>4. CASE records' = records
  <2>1. About({}, None, 0) = {}
    BY DEF About
  <2>. QED BY <1>3, <1>4, <2>1
<1>5. ASSUME NEW i \in Instances, ObservedStep(i) PROVE HandoffTruthful'
  <2> DEFINE m == call[i].job
             d == call[i].delivery
  <2>1. \A K : Emit(i, K) => records' = records \cup About(K, m, d)
    BY DEF Emit, EmitFor, About
  <2>2. ASSUME at[i] \in Holding PROVE m \in Messages /\ queue[m] \in Row /\ queue[m].st = "queued"
    BY <1>a, <2>2 DEF HeldQueued, Control, TypeOK
  <2>3. ASSUME NEW row \in Row, m \in Messages, SettleUnderParent(i, row), at[i] # "requeue", Settled(i)
        PROVE  queue'[m] = row
    BY <1>a, <2>3, SetRowEffect DEF SettleUnderParent, Settled, Fault, TypeOK
  <2>4. CASE complete(i) /\ emitComplete(i)
    <3>1. at[i] \in Holding /\ at[i] # "requeue" /\ SettleUnderParent(i, RowDelete(queue[m]))
      BY <2>4 DEF complete, Holding
    <3>2. RowDelete(queue[m]) \in Row /\ RowDelete(queue[m]).st = "deleted"
      BY <2>2, <3>1, RowOps
    <3>3. PICK K \in {{"deliverySucceeded"}, {"completionFailed"}} :
             /\ records' = records \cup About(K, m, d)
             /\ K = {"deliverySucceeded"} => Settled(i) \/ {"deliverySucceeded"} = {"completionFailed"}
      BY <2>4, EmitByEffect DEF emitComplete
    <3>. QED BY <1>3, <2>2, <2>3, <3>1, <3>2, <3>3
  <2>5. CASE deadLetter(i) /\ emitQueueDLQResult(i)
    <3>1. at[i] \in Holding /\ at[i] # "requeue" /\ SettleUnderParent(i, RowArchive(queue[m]))
      BY <2>5 DEF deadLetter, Holding
    <3>2. RowArchive(queue[m]) \in Row /\ RowArchive(queue[m]).st = "archived"
      BY <2>2, <3>1, RowOps
    <3>3. PICK K \in {{"dlqAccepted"}, {"dlqFailed"}} :
             /\ records' = records \cup About(K, m, d)
             /\ K = {"dlqAccepted"} => Settled(i) \/ {"dlqAccepted"} = {"dlqFailed"}
      BY <2>5, EmitByEffect DEF emitQueueDLQResult
    <3>. QED BY <1>3, <2>2, <2>3, <3>1, <3>2, <3>3
  <2>6. CASE \/ \E n \in Messages : Read(i, n) /\ emitRead(i)
             \/ ProcessReturn(i) /\ emitReturn(i)
             \/ retry(i) /\ emitQueueRetryResult(i)
             \/ requeue(i) /\ emitRequeue(i)
             \/ Handler(i) /\ emitJob(i)
    <3>1. \E K, n, e : /\ records' = records \cup About(K, n, e)
                       /\ "deliverySucceeded" \notin K /\ "dlqAccepted" \notin K
      <4>1. ASSUME emitRead(i) \/ emitReturn(i)
            PROVE  \E K \in {{}, {"handlerFailed"}} : \E n, e : records' = records \cup About(K, n, e)
        <5>1. \A K, c : EmitFor(K, c) => records' = records \cup About(K, c.job, c.delivery)
          BY DEF EmitFor, About
        <5>2. \E K \in {{}, {"handlerFailed"}} : EmitFor(K, call[i]) \/ EmitFor(K, call'[i])
          BY <4>1 DEF emitRead, emitReturn, Emit
        <5>. QED BY <5>1, <5>2
      <4>2. ASSUME emitQueueRetryResult(i) \/ emitRequeue(i)
            PROVE  \E K \in {{"retryAccepted"}, {"retryFailed"}, {"requeued", "retryAccepted"}, {"requeued", "retryFailed"}} :
                      records' = records \cup About(K, m, d)
        BY <4>2, <2>1 DEF emitQueueRetryResult, emitRequeue, EmitBy
      <4>3. ASSUME emitJob(i)
            PROVE  \E K \in {{}, {"jobStarted"}, {"publishSucceeded", "jobSucceeded"},
                             {"publishSucceeded", "jobFailed"}, {"publishFailed"}} :
                      records' = records \cup About(K, m, d)
        <5>1. About({}, m, d) = {}
          BY DEF About
        <5>. QED BY <4>3, <2>1, <5>1 DEF emitJob
      <4>. QED BY <2>6, <4>1, <4>2, <4>3
    <3>. QED BY <1>3, <3>1
  <2>. QED BY <1>5, <2>4, <2>5, <2>6 DEF ObservedStep
<1>. QED BY <1>4, <1>5 DEF TelemetryNext, QuietStep, telemetryVars

\* A delivery reported as succeeded has its command deleted and an accepted burial has
\* it archived, where no worker can lose its command to another one.
THEOREM HandoffTruthfulCorrect == Undisturbed /\ TelemetrySpec => []HandoffTruthful
<1>1. TelemetryInit => HeldQueued /\ HandoffTruthful
  BY DEF TelemetryInit, Init, HeldQueued, HandoffTruthful, Holding
<1>2. SafeInv /\ SafeInv' /\ HeldQueued /\ [TelemetryNext]_telemetryVars => HeldQueued'
  BY HeldQueuedNext, WatchesOnly
<1>3. Undisturbed /\ SafeInv /\ TelemetryInv /\ HeldQueued /\ HandoffTruthful
        /\ [TelemetryNext]_telemetryVars => HandoffTruthful'
  BY HandoffNext
<1>4. Undisturbed => []Undisturbed
  <2>1. Undisturbed /\ [TRUE]_telemetryVars => Undisturbed'
    BY DEF Undisturbed
  <2>. QED BY <2>1, PTL
<1>. QED BY <1>1, <1>2, <1>3, <1>4, TelemetryInvariance, PTL DEF TelemetrySpec
=============================================================================
