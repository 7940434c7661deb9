------------------------- MODULE AnalysisJob_proofs -------------------------
(***************************************************************************)
(* Proofs, for every value of the constants, of the safety properties of   *)
(* AnalysisJobProperties.                                                  *)
(***************************************************************************)
EXTENDS AnalysisJobProperties, TLAPS

Typed == TypeOK /\ ControlInv

LEMMA InitTyped == Init => Typed
  BY ConstantsAssumption DEF Init, Typed, TypeOK, ControlInv, Status, RequestPC,
     WorkerPC, PipelinePC, HandlerPC, ProgressSteps

LEMMA ProgressStepsType ==
    /\ Len(ProgressSteps) = 9
    /\ \A i \in 1 .. 9 : ProgressSteps[i] \in 0 .. 100
    /\ \A i \in 1 .. 8 : ProgressSteps[i] # 100
  BY DEF ProgressSteps

LEMMA MessageType ==
    /\ \A m \in Message : m.id \in Ids /\ m.retries \in 0 .. MaxRetries
    /\ \A id \in Ids : First(id) \in Message
    /\ \A m \in Message : m.retries < MaxRetries =>
          [id |-> m.id, retries |-> m.retries + 1] \in Message
  BY ConstantsAssumption DEF Message, First

LEMMA AfterPublishType ==
    /\ AfterPublish(1) = "download"
    /\ \A i \in 2 .. 7 : AfterPublish(i) = "publish"
    /\ AfterPublish(8) = "save"
    /\ AfterPublish(9) = "notify"
<1>1. \A i \in 2 .. 7 : i # 1 /\ i # 8 /\ i # 9
  OBVIOUS
<1>2. 8 # 1 /\ 9 # 1 /\ 9 # 8 /\ 1 # 8 /\ 1 # 9 /\ 8 # 9
  OBVIOUS
<1>3. 1 \notin 2 .. 7 /\ 8 \notin 2 .. 7 /\ 9 \notin 2 .. 7
  OBVIOUS
<1>4. QED
  BY <1>1, <1>2, <1>3, Zenon DEF AfterPublish

LEMMA SendType ==
    ASSUME queue \in [Message -> Nat], NEW m \in Message, Send(m)
    PROVE  queue' \in [Message -> Nat]
<1>1. queue[m] + 1 \in Nat
  OBVIOUS
<1>2. queue' = [queue EXCEPT ![m] = queue[m] + 1]
  BY DEF Send
<1>3. QED
  BY <1>1, <1>2

LEMMA TypedStep ==
    ASSUME Typed, [Next]_vars
    PROVE  Typed'
<1> USE ConstantsAssumption, LockOutlivesExecution, ProgressStepsType, MessageType
    DEF Typed, TypeOK, ControlInv, Ids, Status, RequestPC, WorkerPC,
        PipelinePC, HandlerPC, Goto, Proceed, Raise, Fault, Respond, Release,
        dbVars, s3Vars, redisVars, apiVars, runVars, taskVars
<1>1. CASE UNCHANGED vars
  BY <1>1 DEF vars
<1>2. ASSUME NEW id \in Uploads, GetUploadUrl(id)
      PROVE  Typed'
  BY <1>2 DEF GetUploadUrl
<1>3. ASSUME NEW id \in Uploads, PutObject(id)
      PROVE  Typed'
  BY <1>3 DEF PutObject
<1>4. ASSUME NEW id \in Uploads, UrlExpires(id)
      PROVE  Typed'
  BY <1>4 DEF UrlExpires
<1>5. ASSUME NEW r \in Requests, NEW id \in Ids, StartAnalysis(r, id)
      PROVE  Typed'
  <2>1. TypeOK'
    <3>1. arow' \in [Requests -> BOOLEAN]
      <4>1. CASE arow' = [arow EXCEPT ![r] = TRUE]
        BY <4>1
      <4>2. CASE arow' = [arow EXCEPT ![r] = FALSE]
        BY <4>2
      <4>3. QED
        BY <1>5, <4>1, <4>2 DEF StartAnalysis
    <3>2. QED
      BY <1>5, <3>1 DEF StartAnalysis
  <2>2. ControlInv'
    BY <1>5 DEF StartAnalysis
  <2>3. QED
    BY <2>1, <2>2
<1>6. ASSUME NEW r \in Requests, FlushMetadata(r)
      PROVE  Typed'
  BY <1>6 DEF FlushMetadata
<1>7. ASSUME NEW r \in Requests, NEW id \in Fallbacks, StartFallback(r, id)
      PROVE  Typed'
  BY <1>7 DEF StartFallback
<1>8. ASSUME NEW r \in Requests, Delay(r)
      PROVE  Typed'
  <2>1. queue' \in [Message -> Nat]
    <3>1. CASE UNCHANGED queue
      BY <3>1
    <3>2. CASE Send(First(aid[r]))
      <4>1. aid[r] \in Ids
        BY <1>8 DEF Delay
      <4>2. First(aid[r]) \in Message
        BY <4>1
      <4>3. QED
        BY <3>2, <4>2, SendType
    <3>3. QED
      BY <1>8, <3>1, <3>2 DEF Delay
  <2>2. TypeOK'
    BY <1>8, <2>1 DEF Delay
  <2>3. ControlInv'
    BY <1>8 DEF Delay
  <2>4. QED
    BY <2>2, <2>3
<1>9. ASSUME NEW r \in Requests, Commit(r)
      PROVE  Typed'
  BY <1>9 DEF Commit, WriteRow
<1>10. ASSUME NEW w \in Workers, NEW m \in Message, Deliver(w, m)
       PROVE  Typed'
  BY <1>10 DEF Deliver
<1>11. ASSUME NEW w \in Workers, AcquireLock(w)
       PROVE  Typed'
  <2>1. TypeOK'
    BY <1>11 DEF AcquireLock, SetNX
  <2>2. ControlInv'
    BY <1>11 DEF AcquireLock, SetNX
  <2>3. QED
    BY <2>1, <2>2
<1>12. ASSUME NEW w \in Workers, MarkProcessing(w)
       PROVE  Typed'
  <2>1. status' \in [Ids -> Status]
    <3>1. CASE UpdateStatus(job[w].id, "processing")
      BY <3>1 DEF UpdateStatus
    <3>2. CASE UNCHANGED status
      BY <3>2
    <3>3. QED
      BY <1>12, <3>1, <3>2 DEF MarkProcessing
  <2>2. TypeOK'
    BY <1>12, <2>1 DEF MarkProcessing
  <2>3. ControlInv'
    BY <1>12 DEF MarkProcessing
  <2>4. QED
    BY <2>2, <2>3
<1>13. ASSUME NEW w \in Workers, PublishProgress(w)
       PROVE  Typed'
  <2>1. step[w] \in 1 .. 9
    BY <1>13 DEF PublishProgress
  <2>2. /\ pc' = [pc EXCEPT ![w] = AfterPublish(step[w])]
        /\ step' = [step EXCEPT ![w] = step[w] + 1]
    BY <1>13 DEF PublishProgress
  <2>3. /\ AfterPublish(step[w]) \in {"download", "publish", "save", "notify"}
        /\ AfterPublish(step[w]) = "download" => step[w] = 1
        /\ AfterPublish(step[w]) = "publish" => step[w] \in 2 .. 7
        /\ AfterPublish(step[w]) = "save" => step[w] = 8
    BY <2>1, AfterPublishType
  <2>4. TypeOK'
    BY <1>13, <2>1, <2>2, <2>3 DEF PublishProgress
  <2>5. ControlInv'
    BY <1>13, <2>1, <2>2, <2>3 DEF PublishProgress
  <2>6. QED
    BY <2>4, <2>5
<1>14. ASSUME NEW w \in Workers, Download(w)
       PROVE  Typed'
  BY <1>14 DEF Download
<1>15. ASSUME NEW w \in Workers, SaveResult(w)
       PROVE  Typed'
  BY <1>15 DEF SaveResult, SaveAnalysisResult, UpdateStatus
<1>16. ASSUME NEW w \in Workers, DeleteSource(w)
       PROVE  Typed'
  BY <1>16 DEF DeleteSource
<1>17. ASSUME NEW w \in Workers, Notify(w)
       PROVE  Typed'
  BY <1>17 DEF Notify
<1>18. ASSUME NEW w \in Workers, HandleException(w)
       PROVE  Typed'
  BY <1>18 DEF HandleException, Send
<1>19. ASSUME NEW w \in Workers, MarkFailed(w)
       PROVE  Typed'
  BY <1>19 DEF MarkFailed, UpdateStatus
<1>20. ASSUME NEW w \in Workers, Ack(w)
       PROVE  Typed'
  BY <1>20 DEF Ack
<1>21. ASSUME NEW w \in Workers, SoftTimeLimit(w)
       PROVE  Typed'
  <2>1. CASE /\ pc[w] = "publish"
             /\ pc' = [pc EXCEPT ![w] = AfterPublish(step[w])]
             /\ step' = [step EXCEPT ![w] = step[w] + 1]
    <3>1. step[w] \in 1 .. 9
      BY <2>1
    <3>2. /\ AfterPublish(step[w]) \in {"download", "publish", "save", "notify"}
          /\ AfterPublish(step[w]) = "download" => step[w] = 1
          /\ AfterPublish(step[w]) = "publish" => step[w] \in 2 .. 7
          /\ AfterPublish(step[w]) = "save" => step[w] = 8
      BY <3>1, AfterPublishType
    <3>3. TypeOK'
      BY <1>21, <2>1, <3>1, <3>2 DEF SoftTimeLimit
    <3>4. ControlInv'
      BY <1>21, <2>1, <3>1, <3>2 DEF SoftTimeLimit
    <3>5. QED
      BY <3>3, <3>4
  <2>2. CASE /\ step' = step
             /\ \/ pc' = [pc EXCEPT ![w] = "fail"]
                \/ pc' = [pc EXCEPT ![w] = "ack"]
    BY <1>21, <2>2 DEF SoftTimeLimit
  <2>3. CASE /\ step' = step /\ pc[w] = "delete"
             /\ pc' = [pc EXCEPT ![w] = "publish"]
    BY <1>21, <2>3 DEF SoftTimeLimit
  <2>4. QED
    BY <1>21, <2>1, <2>2, <2>3 DEF SoftTimeLimit
<1>22. ASSUME NEW w \in Workers, HardTimeLimit(w) \/ ChildLost(w)
       PROVE  Typed'
  <2>1. TypeOK'
    <3>1. CASE HardTimeLimit(w)
      BY <3>1 DEF HardTimeLimit
    <3>2. CASE ChildLost(w)
      BY <3>2 DEF ChildLost
    <3>3. QED
      BY <1>22, <3>1, <3>2
  <2>2. ControlInv'
    <3>1. CASE HardTimeLimit(w)
      BY <3>1 DEF HardTimeLimit
    <3>2. CASE ChildLost(w)
      BY <3>2 DEF ChildLost
    <3>3. QED
      BY <1>22, <3>1, <3>2
  <2>3. QED
    BY <2>1, <2>2
<1>23. ASSUME NEW w \in Workers, NodeCrash(w)
       PROVE  Typed'
  BY <1>23 DEF NodeCrash, Send
<1>24. ASSUME NEW w \in Workers, ConnectionLoss(w)
       PROVE  Typed'
  BY <1>24 DEF ConnectionLoss, Send
<1>25. ASSUME Tick
       PROVE  Typed'
  <2>1. TypeOK'
    <3>1. submitted' \in [Ids -> 0 .. LockTTL]
      BY <1>25 DEF Tick, Decrease
    <3>2. progressTTL' \in [Ids -> 0 .. ProgressTTL]
      BY <1>25 DEF Tick, Decrease
    <3>3. progress' \in [Ids -> 0 .. 100]
      BY <1>25 DEF Tick
    <3>4. clock' \in [Workers -> 0 .. HardLimit]
      BY <1>25 DEF Tick, Executing
    <3>5. QED
      BY <1>25, <3>1, <3>2, <3>3, <3>4 DEF Tick
  <2>2. ControlInv'
    BY <1>25 DEF Tick, Decrease, Executing
  <2>3. QED
    BY <2>1, <2>2
<1> HIDE ConstantsAssumption, LockOutlivesExecution, ProgressStepsType,
    MessageType
    DEF Typed, TypeOK, ControlInv, Goto, Proceed, Raise, Fault, Respond, Release,
        dbVars, s3Vars, redisVars, apiVars, runVars, taskVars
<1>26. QED
  BY <1>1, <1>2, <1>3, <1>4, <1>5, <1>6, <1>7, <1>8, <1>9, <1>10, <1>11,
     <1>12, <1>13, <1>14, <1>15, <1>16, <1>17, <1>18, <1>19, <1>20, <1>21,
     <1>22, <1>23, <1>24, <1>25
  DEF Next, Client, Request, Handler, Execute, Environment

-----------------------------------------------------------------------------
(* Mutual exclusion *)

\* No process starts working on a job, and no key loses lifetime.
RunnersKeep ==
    /\ submitted' = submitted
    /\ \A w \in Workers : pc'[w] \in PipelinePC =>
          /\ pc[w] \in PipelinePC
          /\ job'[w] = job[w]
          /\ clock'[w] = clock[w]

LEMMA RunnerStep ==
    ASSUME Typed, [Next]_vars
    PROVE  RunnersKeep \/ Tick \/ \E w \in Workers : AcquireLock(w)
<1> USE DEF Typed, TypeOK, RunnersKeep, PipelinePC, Goto, Proceed, Raise, Release,
        dbVars, s3Vars, redisVars, apiVars, runVars, taskVars
<1>1. CASE UNCHANGED vars
  BY <1>1 DEF vars
<1>2. CASE Client
  BY <1>2 DEF Client, GetUploadUrl, PutObject, UrlExpires
<1>3. ASSUME NEW r \in Requests, Request(r)
      PROVE  RunnersKeep
  BY <1>3 DEF Request, StartAnalysis, StartFallback, Handler, FlushMetadata,
     Delay, Commit, WriteRow
<1>4. ASSUME NEW w \in Workers, Execute(w), ~AcquireLock(w)
      PROVE  RunnersKeep
  <2>1. CASE \E m \in Message : Deliver(w, m)
    BY <2>1 DEF Deliver
  <2>2. CASE MarkProcessing(w) \/ Download(w) \/ Notify(w)
    BY <2>2 DEF MarkProcessing, Download, Notify
  <2>3. CASE PublishProgress(w)
    BY <2>3 DEF PublishProgress
  <2>4. CASE SaveResult(w) \/ DeleteSource(w)
    BY <2>4 DEF SaveResult, DeleteSource
  <2>5. CASE HandleException(w) \/ MarkFailed(w) \/ Ack(w)
    BY <2>5 DEF HandleException, MarkFailed, Ack
  <2>6. QED
    BY <1>4, <2>1, <2>2, <2>3, <2>4, <2>5 DEF Execute
<1>5. ASSUME NEW w \in Workers, Environment(w)
      PROVE  RunnersKeep
  <2>1. CASE SoftTimeLimit(w)
    BY <2>1 DEF SoftTimeLimit, HandlerPC
  <2>2. CASE HardTimeLimit(w) \/ ChildLost(w) \/ NodeCrash(w)
    BY <2>2 DEF HardTimeLimit, ChildLost, NodeCrash
  <2>3. CASE ConnectionLoss(w)
    BY <2>3 DEF ConnectionLoss
  <2>4. QED
    BY <1>5, <2>1, <2>2, <2>3 DEF Environment
<1> HIDE DEF RunnersKeep
<1>6. QED
  BY <1>1, <1>2, <1>3, <1>4, <1>5 DEF Next

\* A job somebody works on has a live key.
LEMMA KeyIsAlive ==
    ASSUME Typed, LockInv, NEW w \in Workers, pc[w] \in PipelinePC
    PROVE  submitted[job[w].id] > 0
<1>1. job[w].id \in Ids
  BY MessageType DEF Typed, ControlInv, PipelinePC
<1>2. QED
  BY <1>1, ConstantsAssumption, LockOutlivesExecution DEF Typed, TypeOK, LockInv

LEMMA ExclusionStep ==
    ASSUME Typed, LockInv, MutualExclusion, [Next]_vars
    PROVE  LockInv' /\ MutualExclusion'
<1>1. CASE RunnersKeep
  BY <1>1 DEF RunnersKeep, LockInv, MutualExclusion, Running
<1>2. CASE Tick
  <2>1. \A w \in Workers : pc[w] \in PipelinePC =>
           submitted'[job[w].id] + clock'[w] = submitted[job[w].id] + clock[w]
    <3> SUFFICES ASSUME NEW w \in Workers, pc[w] \in PipelinePC
                 PROVE  submitted'[job[w].id] + clock'[w]
                          = submitted[job[w].id] + clock[w]
      OBVIOUS
    <3>1. job[w].id \in Ids
      BY MessageType DEF Typed, ControlInv, PipelinePC
    <3>2. submitted'[job[w].id] = submitted[job[w].id] - 1
      BY <1>2, <3>1, KeyIsAlive DEF Tick, Decrease
    <3>3. clock'[w] = clock[w] + 1
      BY <1>2 DEF Tick, Executing, PipelinePC
    <3>4. QED
      BY <3>1, <3>2, <3>3, ConstantsAssumption DEF Typed, TypeOK
  <2>2. pc' = pc /\ job' = job
    BY <1>2 DEF Tick
  <2>3. QED
    BY <2>1, <2>2 DEF LockInv, MutualExclusion, Running
<1>3. ASSUME NEW w \in Workers, AcquireLock(w)
      PROVE  LockInv' /\ MutualExclusion'
  <2> DEFINE id == job[w].id
  <2>1. id \in Ids /\ pc[w] = "lock"
    BY <1>3, MessageType DEF AcquireLock, Typed, ControlInv
  <2>2. /\ job' = job /\ clock' = clock
        /\ \A v \in Workers : v # w => pc'[v] = pc[v]
        /\ \A i \in Ids : i # id => submitted'[i] = submitted[i]
        /\ submitted[id] > 0 => submitted' = submitted
    BY <1>3, <2>1 DEF AcquireLock, SetNX, Goto, Proceed, Raise, runVars, Typed, TypeOK
  <2>3. pc'[w] \in PipelinePC => submitted[id] = 0 /\ submitted'[id] = LockTTL
    BY <1>3, <2>1 DEF AcquireLock, SetNX, Goto, Proceed, Raise, Typed, TypeOK,
       PipelinePC
  <2>4. \A v \in Workers : v # w /\ pc[v] \in PipelinePC =>
           submitted'[job[v].id] = submitted[job[v].id]
    <3> SUFFICES ASSUME NEW v \in Workers, v # w, pc[v] \in PipelinePC
                 PROVE  submitted'[job[v].id] = submitted[job[v].id]
      OBVIOUS
    <3>1. job[v].id \in Ids
      BY MessageType DEF Typed, ControlInv, PipelinePC
    <3>2. QED
      BY <2>2, <3>1, KeyIsAlive
  <2>5. LockInv'
    <3> SUFFICES ASSUME NEW v \in Workers, pc'[v] \in PipelinePC
                 PROVE  submitted'[job[v].id] + clock[v] >= LockTTL
      BY <2>2 DEF LockInv
    <3>1. CASE v = w
      <4>1. clock[w] \in Nat
        BY ConstantsAssumption DEF Typed, TypeOK
      <4>2. QED
        BY <2>3, <3>1, <4>1, ConstantsAssumption
    <3>2. CASE v # w
      BY <2>2, <2>4, <3>2 DEF LockInv
    <3>3. QED
      BY <3>1, <3>2
  <2>6. \A v \in Workers : v # w /\ pc[v] \in PipelinePC /\ job[v].id = id =>
           pc'[w] \notin PipelinePC
    <3> SUFFICES ASSUME NEW v \in Workers, pc[v] \in PipelinePC, job[v].id = id
                 PROVE  pc'[w] \notin PipelinePC
      OBVIOUS
    <3>1. submitted[id] > 0
      BY KeyIsAlive
    <3>2. submitted[id] # 0
      BY <2>1, <3>1, ConstantsAssumption DEF Typed, TypeOK
    <3>3. QED
      BY <2>3, <3>2
  <2>7. MutualExclusion'
    BY <2>2, <2>6 DEF MutualExclusion, Running
  <2>8. QED
    BY <2>5, <2>7
<1>4. QED
  BY <1>1, <1>2, <1>3, RunnerStep

\* The SET NX of run_analysis (analysis_worker.py:145-148) keeps the executions
\* of one job apart: two pool processes are never between that statement and
\* the end of the task for the same job, whatever is redelivered, retried,
\* submitted twice or interrupted, because the key's TTL exceeds the hard limit.
THEOREM Exclusion == Spec => []MutualExclusion
<1>1. Init => Typed /\ LockInv /\ MutualExclusion
  BY InitTyped DEF Init, LockInv, MutualExclusion, Running, PipelinePC
<1>2. Typed /\ LockInv /\ MutualExclusion /\ [Next]_vars
        => Typed' /\ LockInv' /\ MutualExclusion'
  BY TypedStep, ExclusionStep
<1>3. QED
  BY <1>1, <1>2, PTL DEF Spec

\* Every variable keeps its type, and the control points of requests and
\* processes agree with the message and the progress index they carry.
THEOREM TypeCorrect == Spec => []TypeOK
<1>1. Typed /\ [Next]_vars => Typed'
  BY TypedStep
<1>2. Typed => TypeOK
  BY DEF Typed
<1>3. QED
  BY <1>1, <1>2, InitTyped, PTL DEF Spec

-----------------------------------------------------------------------------
(* Results and replays *)

\* Rows never disappear and results are never withdrawn.
RowsKeep ==
    /\ results \subseteq results'
    /\ \A id \in Ids : Visible(id) => status'[id] # "absent"

LEMMA RowsGrow ==
    ASSUME Typed, [Next]_vars
    PROVE  RowsKeep
<1> USE DEF Typed, TypeOK, RowsKeep, Visible, dbVars, apiVars
<1>1. CASE UNCHANGED vars
  BY <1>1 DEF vars
<1>2. CASE Client
  BY <1>2 DEF Client, GetUploadUrl, PutObject, UrlExpires
<1>3. ASSUME NEW r \in Requests, Request(r)
      PROVE  RowsKeep
  BY <1>3 DEF Request, StartAnalysis, StartFallback, Handler, FlushMetadata,
     Delay, Commit, WriteRow
<1>4. ASSUME NEW w \in Workers, Execute(w)
      PROVE  RowsKeep
  <2>1. CASE \/ \E m \in Message : Deliver(w, m)
             \/ AcquireLock(w) \/ PublishProgress(w) \/ Download(w)
             \/ DeleteSource(w) \/ Notify(w) \/ HandleException(w) \/ Ack(w)
    BY <2>1 DEF Deliver, AcquireLock, PublishProgress, Download, DeleteSource,
       Notify, HandleException, Ack
  <2>2. CASE MarkProcessing(w)
    BY <2>2 DEF MarkProcessing, UpdateStatus
  <2>3. CASE SaveResult(w)
    BY <2>3 DEF SaveResult, SaveAnalysisResult, UpdateStatus
  <2>4. CASE MarkFailed(w)
    BY <2>4 DEF MarkFailed, UpdateStatus
  <2>5. QED
    BY <1>4, <2>1, <2>2, <2>3, <2>4 DEF Execute
<1>5. ASSUME NEW w \in Workers, Environment(w)
      PROVE  RowsKeep
  BY <1>5 DEF Environment, SoftTimeLimit, HardTimeLimit, ChildLost, NodeCrash,
     ConnectionLoss
<1>6. CASE Tick
  BY <1>6 DEF Tick
<1> HIDE DEF RowsKeep
<1>7. QED
  BY <1>1, <1>2, <1>3, <1>4, <1>5, <1>6 DEF Next

\* How an execution can get past its download and past its save, and who
\* reports 100 %.
Advance ==
    /\ \A w \in Workers : PastDownload(w)' =>
          /\ job'[w] = job[w]
          /\ PastDownload(w) \/ job[w].id \in s3
    /\ \A w \in Workers : PastSave(w)' =>
          /\ job'[w] = job[w]
          /\ PastSave(w) \/ job[w].id \in results'
    /\ \A id \in Ids : progress'[id] = 100 =>
          \/ progress[id] = 100
          \/ \E w \in Workers : PastSave(w) /\ job[w].id = id

LEMMA AdvanceStep ==
    ASSUME Typed, ResultInv, [Next]_vars
    PROVE  Advance
<1> USE DEF Typed, TypeOK, Advance, PastDownload, PastSave, Goto, Proceed,
        Raise, Release, dbVars, s3Vars, redisVars, apiVars, runVars, taskVars
<1>1. CASE UNCHANGED vars
  BY <1>1 DEF vars
<1>2. CASE Client
  BY <1>2 DEF Client, GetUploadUrl, PutObject, UrlExpires
<1>3. ASSUME NEW r \in Requests, Request(r)
      PROVE  Advance
  BY <1>3 DEF Request, StartAnalysis, StartFallback, Handler, FlushMetadata,
     Delay, Commit, WriteRow
<1>4. ASSUME NEW w \in Workers, Execute(w)
      PROVE  Advance
  <2>1. CASE \E m \in Message : Deliver(w, m)
    BY <2>1 DEF Deliver
  <2>2. CASE AcquireLock(w) \/ Notify(w)
    BY <2>2 DEF AcquireLock, Notify
  <2>3. CASE MarkProcessing(w)
    BY <2>3 DEF MarkProcessing, ControlInv
  <2>4. CASE PublishProgress(w)
    <3>1. step[w] \in 1 .. 9 /\ pc[w] = "publish"
      BY <2>4 DEF PublishProgress, ControlInv
    <3>2. /\ job' = job /\ results' = results
          /\ pc' = [pc EXCEPT ![w] = AfterPublish(step[w])]
          /\ step' = [step EXCEPT ![w] = step[w] + 1]
      BY <2>4 DEF PublishProgress
    <3>3. \A v \in Workers : PastDownload(v)' => PastDownload(v)
      BY <3>1, <3>2, AfterPublishType
    <3>4. \A v \in Workers : PastSave(v)' => PastSave(v)
      BY <3>1, <3>2, AfterPublishType
    <3>5. \A id \in Ids : progress'[id] = 100 =>
             progress[id] = 100 \/ (PastSave(w) /\ job[w].id = id)
      BY <2>4, <3>1, ProgressStepsType DEF PublishProgress
    <3>6. QED
      BY <3>2, <3>3, <3>4, <3>5
  <2>5. CASE Download(w)
    BY <2>5 DEF Download, ControlInv
  <2>6. CASE SaveResult(w)
    BY <2>6 DEF SaveResult, SaveAnalysisResult, UpdateStatus, ResultInv
  <2>7. CASE DeleteSource(w)
    BY <2>7 DEF DeleteSource
  <2>8. CASE HandleException(w) \/ MarkFailed(w) \/ Ack(w)
    BY <2>8 DEF HandleException, MarkFailed, Ack
  <2> HIDE DEF Advance
  <2>9. QED
    BY <1>4, <2>1, <2>2, <2>3, <2>4, <2>5, <2>6, <2>7, <2>8 DEF Execute
<1>5. ASSUME NEW w \in Workers, Environment(w)
      PROVE  Advance
  <2>1. CASE SoftTimeLimit(w)
    <3>1. /\ job' = job /\ results' = results /\ progress' = progress
          /\ \A v \in Workers : v # w => pc'[v] = pc[v] /\ step'[v] = step[v]
      BY <2>1 DEF SoftTimeLimit
    <3>2. CASE pc'[w] \in {"fail", "ack"}
      BY <3>1, <3>2
    <3>3. CASE /\ pc[w] = "publish"
               /\ pc'[w] = AfterPublish(step[w])
               /\ step'[w] = step[w] + 1
      <4>1. step[w] \in 1 .. 9
        BY <3>3 DEF ControlInv
      <4>2. PastDownload(w)' => PastDownload(w)
        BY <3>3, <4>1, AfterPublishType
      <4>3. PastSave(w)' => PastSave(w)
        BY <3>3, <4>1, AfterPublishType
      <4>4. QED
        BY <3>1, <4>2, <4>3
    <3>4. CASE pc[w] = "delete"
      BY <3>1, <3>4
    <3> HIDE DEF Advance
    <3>5. QED
      BY <2>1, <3>2, <3>3, <3>4 DEF SoftTimeLimit
  <2>2. CASE HardTimeLimit(w) \/ ChildLost(w) \/ NodeCrash(w)
    BY <2>2 DEF HardTimeLimit, ChildLost, NodeCrash
  <2>3. CASE ConnectionLoss(w)
    BY <2>3 DEF ConnectionLoss
  <2> HIDE DEF Advance
  <2>4. QED
    BY <1>5, <2>1, <2>2, <2>3 DEF Environment
<1>6. CASE Tick
  BY <1>6 DEF Tick
<1> HIDE DEF Advance
<1>7. QED
  BY <1>1, <1>2, <1>3, <1>4, <1>5, <1>6 DEF Next

\* Replays and upload URLs appear for committed rows only.
LEMMA SourceStep ==
    ASSUME Typed, SourceInv, [Next]_vars
    PROVE  SourceInv'
<1> USE DEF s3Vars, SourceInv, Visible
<1>1. RowsKeep
  BY RowsGrow
<1>2. CASE s3' \cup urls' \subseteq s3 \cup urls
  BY <1>1, <1>2 DEF RowsKeep, Ids
<1>3. ASSUME NEW id \in Uploads, GetUploadUrl(id)
      PROVE  SourceInv'
  <2>1. status'[id] = "pending"
    BY <1>3 DEF GetUploadUrl, Typed, TypeOK, Ids
  <2>2. s3' \cup urls' \subseteq (s3 \cup urls) \cup {id}
    BY <1>3 DEF GetUploadUrl
  <2>3. QED
    BY <1>1, <2>1, <2>2 DEF RowsKeep, Ids
<1>4. \/ s3' \cup urls' \subseteq s3 \cup urls
      \/ \E id \in Uploads : GetUploadUrl(id)
  <2>1. CASE UNCHANGED vars
    BY <2>1 DEF vars
  <2>2. CASE Client
    BY <2>2 DEF Client, PutObject, UrlExpires
  <2>3. ASSUME NEW r \in Requests, Request(r)
        PROVE  s3' \cup urls' \subseteq s3 \cup urls
    BY <2>3 DEF Request, StartAnalysis, StartFallback, Handler, FlushMetadata,
       Delay, Commit, WriteRow
  <2>4. ASSUME NEW w \in Workers, Execute(w)
        PROVE  s3' \cup urls' \subseteq s3 \cup urls
    BY <2>4 DEF Execute, Deliver, AcquireLock, MarkProcessing,
       PublishProgress, Download, SaveResult, DeleteSource, Notify,
       HandleException, MarkFailed, Ack
  <2>5. ASSUME NEW w \in Workers, Environment(w)
        PROVE  s3' \cup urls' \subseteq s3 \cup urls
    BY <2>5 DEF Environment, SoftTimeLimit, HardTimeLimit, ChildLost,
       NodeCrash, ConnectionLoss
  <2>6. CASE Tick
    BY <2>6 DEF Tick
  <2>7. QED
    BY <2>1, <2>2, <2>3, <2>4, <2>5, <2>6 DEF Next
<1>5. QED
  BY <1>2, <1>3, <1>4

LEMMA ResultStep ==
    ASSUME Typed, SourceInv, ResultInv, [Next]_vars
    PROVE  ResultInv'
<1>1. RowsKeep /\ Advance
  BY RowsGrow, AdvanceStep
<1>2. \A w \in Workers : PastDownload(w) \/ PastSave(w) => job[w].id \in Ids
  BY MessageType DEF Typed, ControlInv, PastDownload, PastSave
<1>3. ASSUME NEW w \in Workers, PastDownload(w)'
      PROVE  Visible(job[w].id)'
  <2>1. CASE PastDownload(w)
    BY <1>1, <1>2, <1>3, <2>1 DEF RowsKeep, Advance, ResultInv, Visible
  <2>2. CASE job[w].id \in s3
    BY <1>1, <1>3, <2>2 DEF RowsKeep, Advance, SourceInv, Visible, Ids
  <2>3. QED
    BY <1>1, <1>3, <2>1, <2>2 DEF Advance
<1>4. ASSUME NEW w \in Workers, PastSave(w)'
      PROVE  job'[w].id \in results'
  BY <1>1, <1>4 DEF RowsKeep, Advance, ResultInv
<1>5. DoneSignalImpliesResult'
  BY <1>1 DEF RowsKeep, Advance, ResultInv, DoneSignalImpliesResult
<1>6. QED
  BY <1>3, <1>4, <1>5 DEF ResultInv

ResultsSafe == Typed /\ SourceInv /\ ResultInv

LEMMA InitResults == Init => ResultsSafe
  BY InitTyped DEF ResultsSafe, Init, SourceInv, ResultInv, PastDownload,
     PastSave, DoneSignalImpliesResult

LEMMA ResultsSafeStep == ResultsSafe /\ [Next]_vars => ResultsSafe'
  BY TypedStep, SourceStep, ResultStep DEF ResultsSafe

\* A client that polls GET /status and reads 100 % (analysis_worker.py:203)
\* finds the result saved at analysis_worker.py:189-194, in every interleaving
\* of duplicated, retried, crashed and interrupted executions.
THEOREM DoneSignal == Spec => []DoneSignalImpliesResult
<1>1. ResultsSafe => DoneSignalImpliesResult
  BY DEF ResultsSafe, ResultInv
<1>2. QED
  BY <1>1, InitResults, ResultsSafeStep, PTL DEF Spec

\* The delete of analysis_worker.py:197-200 never removes a replay whose result
\* is not in the database.
THEOREM SourceKept == Spec => SourceKeptUntilResult
<1>1. ResultsSafe /\ [Next]_vars =>
        [\A id \in Ids : id \in s3 /\ id \notin s3' => id \in results]_vars
  <2> SUFFICES ASSUME ResultsSafe, Next, NEW id \in Ids, id \in s3, id \notin s3'
               PROVE  id \in results
    BY DEF vars, s3Vars
  <2> USE DEF s3Vars
  <2>1. ~Client /\ ~Tick /\ \A r \in Requests : ~Request(r)
    BY DEF Client, GetUploadUrl, PutObject, UrlExpires, Tick, Request,
       StartAnalysis, StartFallback, Handler, FlushMetadata, Delay, Commit, WriteRow
  <2>2. \A w \in Workers : ~Environment(w)
    BY DEF Environment, SoftTimeLimit, HardTimeLimit, ChildLost, NodeCrash,
       ConnectionLoss
  <2>3. PICK w \in Workers : DeleteSource(w)
    BY <2>1, <2>2 DEF Next, Execute, Deliver, AcquireLock, MarkProcessing,
       PublishProgress, Download, SaveResult, Notify, HandleException,
       MarkFailed, Ack
  <2>4. PastSave(w) /\ job[w].id = id
    BY <2>3 DEF DeleteSource, PastSave
  <2>5. QED
    BY <2>4 DEF ResultsSafe, ResultInv
<1>2. QED
  BY <1>1, InitResults, ResultsSafeStep, PTL DEF Spec, SourceKeptUntilResult

-----------------------------------------------------------------------------
(* The job service implements the contract *)

LEMMA RunnersStay ==
    ASSUME \A w \in Workers :
              /\ pc'[w] \in PipelinePC <=> pc[w] \in PipelinePC
              /\ pc[w] \in PipelinePC => job'[w] = job[w]
    PROVE  Runners' = Runners
  BY DEF Runners, Running

LEMMA RunnersLeave ==
    ASSUME NEW w \in Workers,
           pc[w] \in PipelinePC, pc'[w] \notin PipelinePC, job[w].id \in Ids,
           \A v \in Workers : v # w => pc'[v] = pc[v] /\ job'[v] = job[v]
    PROVE  Runners' = [Runners EXCEPT ![job[w].id] = @ \ {w}]
  BY DEF Runners, Running

LEMMA RunnersEnter ==
    ASSUME NEW w \in Workers,
           pc[w] \notin PipelinePC, pc'[w] \in PipelinePC, job' = job,
           job[w].id \in Ids, Runners[job[w].id] = {},
           \A v \in Workers : v # w => pc'[v] = pc[v]
    PROVE  Runners' = [Runners EXCEPT ![job[w].id] = {w}]
  BY DEF Runners, Running

\* An execution that goes on, or ends in this step.
LEMMA RunnerMayStop ==
    ASSUME NEW w \in Workers,
           pc[w] \in PipelinePC, job[w].id \in Ids,
           pc'[w] \in PipelinePC => job'[w] = job[w],
           \A v \in Workers : v # w => pc'[v] = pc[v] /\ job'[v] = job[v]
    PROVE  Contract!MayStop(job[w].id, w)
<1>1. CASE pc'[w] \in PipelinePC
  <2>1. Runners' = Runners
    BY <1>1, RunnersStay
  <2>2. QED
    BY <2>1 DEF Contract!MayStop
<1>2. CASE pc'[w] \notin PipelinePC
  <2>1. Runners' = [Runners EXCEPT ![job[w].id] = @ \ {w}]
    BY <1>2, RunnersLeave
  <2>2. QED
    BY <2>1 DEF Contract!MayStop
<1>3. QED
  BY <1>1, <1>2

ContractStep == [Contract!Next]_(Contract!contractVars)

\* A step that leaves row, result and replay alone and at most ends one
\* execution.
LEMMA StopOrStutter ==
    ASSUME NEW w \in Workers, status' = status, results' = results, s3' = s3,
           pc[w] \in PipelinePC => job[w].id \in Ids,
           pc'[w] \in PipelinePC => pc[w] \in PipelinePC /\ job'[w] = job[w],
           \A v \in Workers : v # w => pc'[v] = pc[v] /\ job'[v] = job[v]
    PROVE  ContractStep
<1>1. CASE pc[w] \in PipelinePC /\ pc'[w] \notin PipelinePC
  <2>1. Runners' = [Runners EXCEPT ![job[w].id] = @ \ {w}]
    BY <1>1, RunnersLeave
  <2>2. w \in Runners[job[w].id]
    BY <1>1 DEF Runners, Running
  <2>3. Contract!Stop(job[w].id, w)
    BY <2>1, <2>2 DEF Contract!Stop
  <2>4. QED
    BY <1>1, <2>3 DEF ContractStep, Contract!Next
<1>2. CASE pc[w] \in PipelinePC <=> pc'[w] \in PipelinePC
  <2>1. Runners' = Runners
    BY <1>2, RunnersStay
  <2>2. QED
    BY <2>1 DEF ContractStep, Contract!contractVars
<1>3. QED
  BY <1>1, <1>2

LEMMA Refines ==
    ASSUME Typed, LockInv, SourceInv, ResultInv, [Next]_vars
    PROVE  ContractStep
<1> USE DEF Goto, Proceed, Raise, Release, dbVars, s3Vars, redisVars, apiVars,
        runVars, taskVars
<1>t. /\ status \in [Ids -> Status]
      /\ pc \in [Workers -> WorkerPC]
      /\ job \in [Workers -> Message \cup {None}]
      /\ \A w \in Workers : pc[w] # "idle" => job[w].id \in Ids
  BY MessageType DEF Typed, TypeOK, ControlInv
<1>s. ASSUME status' = status, results' = results, s3' = s3, pc' = pc, job' = job
      PROVE  ContractStep
  BY <1>s, RunnersStay DEF ContractStep, Contract!contractVars
<1>1. CASE UNCHANGED vars
  BY <1>1, <1>s DEF vars
<1>2. ASSUME NEW id \in Uploads,
             GetUploadUrl(id) \/ PutObject(id) \/ UrlExpires(id)
      PROVE  ContractStep
  <2>1. Runners' = Runners
    BY <1>2, RunnersStay DEF GetUploadUrl, PutObject, UrlExpires
  <2>2. CASE GetUploadUrl(id)
    <3>1. Contract!Submit(id)
      BY <2>1, <2>2 DEF GetUploadUrl, Contract!Submit, Contract!Known,
         Contract!SetRow
    <3>2. QED
      BY <3>1 DEF Ids, ContractStep, Contract!Next
  <2>3. CASE PutObject(id)
    <3>1. Contract!Provide(id)
      BY <2>1, <2>3 DEF PutObject, Contract!Provide, Contract!Known,
         SourceInv, Visible
    <3>2. QED
      BY <3>1 DEF Ids, ContractStep, Contract!Next
  <2>4. CASE UrlExpires(id)
    BY <2>4, <1>s DEF UrlExpires
  <2>5. QED
    BY <1>2, <2>2, <2>3, <2>4
<1>3. ASSUME NEW r \in Requests, Request(r)
      PROVE  ContractStep
  <2>1. CASE Commit(r) /\ ~Visible(aid[r]) /\ status' # status
    <3>1. aid[r] \in Ids
      BY <2>1 DEF Commit, Typed, ControlInv
    <3>2. Runners' = Runners
      BY <2>1, RunnersStay DEF Commit, WriteRow
    <3>3. Contract!Submit(aid[r])
      BY <2>1, <3>2 DEF Commit, WriteRow, Visible, Contract!Submit, Contract!Known,
         Contract!SetRow
    <3>4. QED
      BY <3>1, <3>3 DEF ContractStep, Contract!Next
  <2>2. CASE /\ status' = status /\ results' = results /\ s3' = s3
             /\ pc' = pc /\ job' = job
    BY <2>2, <1>s
  <2>3. QED
    BY <1>3, <2>1, <2>2 DEF Request, StartAnalysis, StartFallback, Handler,
       FlushMetadata, Delay, Commit, WriteRow
<1>4. ASSUME NEW w \in Workers, Execute(w)
      PROVE  ContractStep
  <2> DEFINE id == job[w].id
  <2>1. CASE \/ \E m \in Message : Deliver(w, m)
             \/ PublishProgress(w) \/ Download(w)
             \/ Notify(w) \/ HandleException(w) \/ Ack(w)
             \/ AcquireLock(w) /\ pc'[w] # "mark"
    <3>1. /\ status' = status /\ results' = results /\ s3' = s3
          /\ \A v \in Workers : v # w => pc'[v] = pc[v] /\ job'[v] = job[v]
      BY <2>1, <1>t DEF Deliver, AcquireLock, PublishProgress, Download,
         Notify, HandleException, Ack
    <3>2. pc'[w] \in PipelinePC => pc[w] \in PipelinePC /\ job'[w] = job[w]
      BY <2>1, <1>t DEF Deliver, AcquireLock, PublishProgress, Download, Notify,
         HandleException, Ack, PipelinePC
    <3>3. pc[w] \in PipelinePC => job[w].id \in Ids
      BY <1>t DEF PipelinePC
    <3>4. QED
      BY <3>1, <3>2, <3>3, StopOrStutter
  <2>2. CASE AcquireLock(w) /\ pc'[w] = "mark"
    <3>1. /\ pc[w] = "lock" /\ id \in Ids /\ submitted[id] = 0
          /\ status' = status /\ results' = results /\ s3' = s3 /\ job' = job
          /\ \A v \in Workers : v # w => pc'[v] = pc[v]
      BY <2>2, <1>t DEF AcquireLock
    <3>2. Runners[id] = {}
      <4>1. ASSUME NEW v \in Workers, pc[v] \in PipelinePC
            PROVE  job[v].id # id
        <5>1. submitted[job[v].id] > 0
          BY <4>1, KeyIsAlive
        <5>2. QED
          BY <3>1, <5>1
      <4>2. QED
        BY <3>1, <4>1 DEF Runners, Running
    <3>3. Runners' = [Runners EXCEPT ![id] = {w}]
      BY <2>2, <3>1, <3>2, RunnersEnter DEF PipelinePC
    <3>4. Contract!Claim(id, w)
      BY <3>1, <3>2, <3>3 DEF Contract!Claim
    <3>5. QED
      BY <3>1, <3>4 DEF ContractStep, Contract!Next
  <2>3. CASE MarkProcessing(w) \/ SaveResult(w) \/ DeleteSource(w)
    <3>1. /\ id \in Ids /\ pc[w] \in PipelinePC /\ job' = job
          /\ \A v \in Workers : v # w => pc'[v] = pc[v]
      BY <2>3, <1>t DEF MarkProcessing, SaveResult, DeleteSource, PipelinePC
    <3>2. Contract!MayStop(id, w) /\ w \in Runners[id]
      BY <3>1, RunnerMayStop DEF Runners, Running
    <3>3. CASE \/ status' = status /\ results' = results /\ s3' = s3
      BY <3>1, <3>3, <1>t, StopOrStutter
    <3>4. CASE MarkProcessing(w) /\ status' # status
      <4>1. Contract!Begin(id, w)
        BY <3>2, <3>4 DEF MarkProcessing, UpdateStatus, Visible,
           Contract!Begin, Contract!Known, Contract!SetRow
      <4>2. QED
        BY <3>1, <4>1 DEF ContractStep, Contract!Next
    <3>5. CASE SaveResult(w) /\ SaveAnalysisResult(id)
      <4>1. Visible(id)
        BY <3>5 DEF SaveResult, ResultInv, PastDownload
      <4>2. Contract!Store(id, w)
        BY <3>2, <3>5, <4>1 DEF SaveResult, SaveAnalysisResult, UpdateStatus,
           Visible, Contract!Store, Contract!Known, Contract!SetRow
      <4>3. QED
        BY <3>1, <4>2 DEF ContractStep, Contract!Next
    <3>6. CASE DeleteSource(w) /\ s3' = s3 \ {id}
      <4>1. id \in results
        BY <3>6 DEF DeleteSource, ResultInv, PastSave
      <4>2. Runners' = Runners
        BY <3>1, <3>6, RunnersStay DEF DeleteSource, PipelinePC
      <4>3. Contract!Discard(id, w)
        BY <3>2, <3>6, <4>1, <4>2 DEF DeleteSource, Contract!Discard
      <4>4. QED
        BY <3>1, <4>3 DEF ContractStep, Contract!Next
    <3>7. QED
      BY <2>3, <3>3, <3>4, <3>5, <3>6 DEF MarkProcessing, SaveResult,
         DeleteSource
  <2>4. CASE MarkFailed(w)
    <3>1. /\ id \in Ids /\ results' = results /\ s3' = s3
          /\ Runners' = Runners
      BY <2>4, <1>t, RunnersStay DEF MarkFailed, PipelinePC
    <3>2. CASE status' = status
      BY <3>1, <3>2 DEF ContractStep, Contract!contractVars
    <3>3. CASE status' # status
      <4>1. Contract!Fail(id)
        BY <2>4, <3>1, <3>3 DEF MarkFailed, UpdateStatus, Visible,
           Contract!Fail, Contract!Known, Contract!SetRow
      <4>2. QED
        BY <3>1, <4>1 DEF ContractStep, Contract!Next
    <3>4. QED
      BY <3>2, <3>3
  <2>5. QED
    BY <1>4, <2>1, <2>2, <2>3, <2>4 DEF Execute
<1>5. ASSUME NEW w \in Workers, Environment(w)
      PROVE  ContractStep
  <2>1. /\ status' = status /\ results' = results /\ s3' = s3
        /\ \A v \in Workers : v # w => pc'[v] = pc[v] /\ job'[v] = job[v]
    BY <1>5, <1>t DEF Environment, SoftTimeLimit, HardTimeLimit, ChildLost,
       NodeCrash, ConnectionLoss
  <2>2. pc'[w] \in PipelinePC => pc[w] \in PipelinePC /\ job'[w] = job[w]
    BY <1>5, <1>t DEF Environment, SoftTimeLimit, HardTimeLimit, ChildLost,
       NodeCrash, ConnectionLoss, PipelinePC, HandlerPC
  <2>3. pc[w] \in PipelinePC => job[w].id \in Ids
    BY <1>t DEF PipelinePC
  <2>4. QED
    BY <2>1, <2>2, <2>3, StopOrStutter
<1>6. CASE Tick
  BY <1>6, <1>s DEF Tick
<1>7. QED
  BY <1>1, <1>2, <1>3, <1>4, <1>5, <1>6 DEF Next, Client

\* The API, the queue and the worker together implement the contract of one
\* job: one process at a time works on it (analysis_worker.py:145-148), only
\* that process stores the result (189-194) and discards the replay (197-200),
\* and a row never disappears.
THEOREM Refinement == Spec => ImplementsContract
<1> DEFINE Inv == ResultsSafe /\ LockInv /\ MutualExclusion
<1>1. Init => Inv
  BY InitResults DEF Init, LockInv, MutualExclusion, Running, PipelinePC
<1>2. Inv /\ [Next]_vars => Inv'
  BY ResultsSafeStep, ExclusionStep DEF ResultsSafe
<1>3. Inv /\ [Next]_vars => [Contract!Next]_(Contract!contractVars)
  BY Refines DEF ResultsSafe, ContractStep
<1>4. Init => Contract!Init
  BY DEF Init, Contract!Init, Runners, Running, PipelinePC
<1>5. QED
  <2> HIDE DEF Inv
  <2>1. QED
    BY <1>1, <1>2, <1>3, <1>4, PTL DEF Spec, ImplementsContract, Contract!Spec

\* What the contract says of a caller's data, from its steps alone: a complete
\* row has a result, and a job that had its replay or its result has one of
\* them.
CompleteHasResult == \A id \in Ids : status[id] = "complete" => id \in results
ReplayOrResult(id) == id \in s3 \/ id \in results

LEMMA ContractKeepsData ==
    ASSUME TypeOK, [Contract!Next]_(Contract!contractVars)
    PROVE  /\ CompleteHasResult => CompleteHasResult'
           /\ \A id \in Ids : ReplayOrResult(id) => ReplayOrResult(id)'
<1> USE DEF CompleteHasResult, ReplayOrResult, TypeOK
<1>1. CASE UNCHANGED Contract!contractVars
  BY <1>1 DEF Contract!contractVars
<1>2. ASSUME NEW j \in Ids, Contract!Submit(j) \/ Contract!Provide(j) \/ Contract!Fail(j)
      PROVE  /\ CompleteHasResult => CompleteHasResult'
             /\ \A id \in Ids : ReplayOrResult(id) => ReplayOrResult(id)'
  BY <1>2 DEF Contract!Submit, Contract!Provide, Contract!Fail, Contract!SetRow
<1>3. ASSUME NEW j \in Ids, NEW p \in Workers, Contract!Store(j, p)
      PROVE  /\ CompleteHasResult => CompleteHasResult'
             /\ \A id \in Ids : ReplayOrResult(id) => ReplayOrResult(id)'
  BY <1>3 DEF Contract!Store, Contract!SetRow
<1>4. ASSUME NEW j \in Ids, NEW p \in Workers,
             \/ Contract!Claim(j, p) \/ Contract!Begin(j, p)
             \/ Contract!Discard(j, p) \/ Contract!Stop(j, p)
      PROVE  /\ CompleteHasResult => CompleteHasResult'
             /\ \A id \in Ids : ReplayOrResult(id) => ReplayOrResult(id)'
  BY <1>4 DEF Contract!Claim, Contract!Begin, Contract!Discard, Contract!Stop,
              Contract!SetRow
<1> QED
  BY <1>1, <1>2, <1>3, <1>4 DEF Contract!Next

\* A row that says "complete" has its result, also while executions are repeated
\* and time limits strike: the save writes both at once
\* (analysis_worker.py:189-194), and get_result answers 200 for such a row
\* without looking at the columns (api/analysis.py:305-321).
THEOREM CompletedHasResult == Spec => []CompleteHasResult
<1>1. Contract!Init => CompleteHasResult
  BY DEF Contract!Init, CompleteHasResult
<1>2. TypeOK /\ CompleteHasResult /\ [Contract!Next]_(Contract!contractVars)
        => CompleteHasResult'
  BY ContractKeepsData
<1> QED
  BY <1>1, <1>2, Refinement, TypeCorrect, PTL
  DEF ImplementsContract, Contract!Spec

\* Once a replay is uploaded its job has the replay or the result, for ever:
\* no crash, duplicate, retry or time limit leaves it without both
\* (analysis_worker.py:189-200).
THEOREM NothingIsLost ==
    ASSUME NEW id \in Ids
    PROVE  Spec => [](ReplayOrResult(id) => []ReplayOrResult(id))
<1>1. TypeOK /\ ReplayOrResult(id) /\ [Contract!Next]_(Contract!contractVars)
        => ReplayOrResult(id)'
  BY ContractKeepsData
<1> QED
  BY <1>1, Refinement, TypeCorrect, PTL DEF ImplementsContract, Contract!Spec

-----------------------------------------------------------------------------
(* Metadata *)

\* What workers and time leave alone, where messages and executions come from,
\* and when a status changes.
WorkerFrame ==
    /\ metadata' = metadata /\ apc' = apc /\ aid' = aid /\ arow' = arow
    /\ \A id \in Ids : Visible(id)' <=> Visible(id)
    /\ \A m \in Message : queue'[m] > 0 =>
          \/ queue[m] > 0
          \/ \E w \in Workers : pc[w] # "idle" /\ m.id = job[w].id
    /\ \A w \in Workers : pc'[w] # "idle" =>
          \/ pc[w] # "idle" /\ job'[w] = job[w]
          \/ job'[w] \in Message /\ queue[job'[w]] > 0
    /\ \A id \in Ids : status'[id] # status[id] =>
          \E w \in Workers :
              pc[w] # "idle" /\ job[w].id = id /\ Visible(id) /\ ~RowLocked(id)

LEMMA WorkerStep ==
    ASSUME Typed, NEW w \in Workers, Execute(w) \/ Environment(w)
    PROVE  WorkerFrame
<1> USE DEF WorkerFrame, Visible, dbVars, s3Vars, redisVars, apiVars, runVars,
            taskVars
<1>t. /\ status \in [Ids -> Status] /\ queue \in [Message -> Nat]
      /\ pc \in [Workers -> WorkerPC]
      /\ job \in [Workers -> Message \cup {None}]
      /\ \A v \in Workers : pc[v] # "idle" => job[v] \in Message
      /\ held[w] => pc[w] # "idle"
  BY DEF Typed, TypeOK, ControlInv
<1> USE DEF Goto, Proceed, Raise, Release
<1>1. CASE \E m \in Message : Deliver(w, m)
  BY <1>1, <1>t DEF Deliver
<1>2. CASE AcquireLock(w) \/ PublishProgress(w) \/ Download(w)
  BY <1>2, <1>t DEF AcquireLock, PublishProgress, Download
<1>3. CASE DeleteSource(w) \/ Notify(w) \/ Ack(w)
  BY <1>3, <1>t DEF DeleteSource, Notify, Ack
<1>4. CASE MarkProcessing(w)
  BY <1>4, <1>t DEF MarkProcessing, UpdateStatus
<1>5. CASE SaveResult(w)
  BY <1>5, <1>t DEF SaveResult, SaveAnalysisResult, UpdateStatus
<1>6. CASE MarkFailed(w)
  BY <1>6, <1>t DEF MarkFailed, UpdateStatus
<1>7. CASE HandleException(w)
  <2>1. CASE queue' = queue
    BY <1>7, <2>1, <1>t DEF HandleException
  <2>2. CASE /\ job[w].retries < MaxRetries
             /\ Send([id |-> job[w].id, retries |-> job[w].retries + 1])
    <3>1. \A m \in Message : queue'[m] > 0 =>
             queue[m] > 0 \/ m.id = job[w].id
      BY <2>2, <1>t DEF Send
    <3>2. pc[w] # "idle"
      BY <1>7 DEF HandleException
    <3>3. QED
      BY <1>7, <3>1, <3>2, <1>t DEF HandleException
  <2>3. QED
    BY <1>7, <2>1, <2>2 DEF HandleException
<1>8. CASE SoftTimeLimit(w)
  BY <1>8, <1>t DEF SoftTimeLimit, Executing
<1>9. CASE HardTimeLimit(w) \/ ChildLost(w)
  BY <1>9, <1>t DEF HardTimeLimit, ChildLost
<1>10. CASE NodeCrash(w) \/ ConnectionLoss(w)
  BY <1>10, <1>t DEF NodeCrash, ConnectionLoss, Send
<1> HIDE DEF WorkerFrame
<1>11. QED
  BY <1>1, <1>2, <1>3, <1>4, <1>5, <1>6, <1>7, <1>8, <1>9, <1>10
  DEF Execute, Environment

LEMMA MetadataWorkerStep ==
    ASSUME Typed, MetadataInv, WorkerFrame
    PROVE  MetadataInv'
<1>1. \A id \in Ids : MetadataComes(id) => MetadataComes(id)'
  BY DEF WorkerFrame, MetadataComes
<1>2. \A m \in Message : queue'[m] > 0 => MetadataComes(m.id)'
  BY <1>1, MessageType DEF WorkerFrame, MetadataInv
<1>3. \A w \in Workers : pc'[w] # "idle" => MetadataComes(job[w].id)'
  <2> SUFFICES ASSUME NEW w \in Workers, pc'[w] # "idle"
               PROVE  MetadataComes(job[w].id)'
    OBVIOUS
  <2>1. CASE pc[w] # "idle" /\ job'[w] = job[w]
    <3>1. MetadataComes(job[w].id) /\ job[w].id \in Ids
      BY <2>1, MessageType DEF MetadataInv, Typed, ControlInv
    <3>2. QED
      BY <2>1, <3>1 DEF WorkerFrame, MetadataComes
  <2>2. CASE job'[w] \in Message /\ queue[job'[w]] > 0
    <3>1. MetadataComes(job'[w].id) /\ job'[w].id \in Ids
      BY <2>2, MessageType DEF MetadataInv
    <3>2. QED
      BY <3>1 DEF WorkerFrame, MetadataComes
  <2>3. QED
    BY <2>1, <2>2 DEF WorkerFrame
<1>4. ProcessingHasMetadata'
  <2> SUFFICES ASSUME NEW id \in Ids,
                      status'[id] \in {"processing", "complete", "failed"}
               PROVE  \/ id \in metadata'
                      \/ \E r \in Requests : aid'[r] = id /\ apc'[r] = "failed"
    BY DEF ProcessingHasMetadata
  <2>1. CASE status'[id] = status[id]
    BY <2>1 DEF WorkerFrame, MetadataInv, ProcessingHasMetadata
  <2>2. CASE status'[id] # status[id]
    <3>1. MetadataComes(id) /\ Visible(id) /\ ~RowLocked(id)
      BY <2>2 DEF WorkerFrame, MetadataInv
    <3>2. QED
      BY <3>1 DEF WorkerFrame, MetadataComes, RowLocked
  <2>3. QED
    BY <2>1, <2>2
<1>5. \A r \in Requests :
         apc'[r] \in {"flush", "delay", "commit"} /\ ~arow'[r] =>
             \/ aid'[r] \in metadata'
             \/ aid'[r] \in Fallbacks /\ ~Visible(aid[r])'
  BY DEF WorkerFrame, MetadataInv, Typed, ControlInv
<1>6. QED
  BY <1>2, <1>3, <1>4, <1>5 DEF MetadataInv

\* A request keeps the metadata of every job coming.
RequestFrame ==
    /\ \A id \in Ids : MetadataComes(id) => MetadataComes(id)'
    /\ pc' = pc /\ job' = job
    /\ \A id \in Ids : status'[id] = status[id] \/ status'[id] = "pending"
    /\ metadata \subseteq metadata'
    /\ \A r \in Requests : apc[r] = "failed" => apc'[r] = "failed" /\ aid'[r] = aid[r]

LEMMA MetadataRequestStep ==
    ASSUME Typed, MetadataInv, RequestFrame,
           \A m \in Message : queue'[m] > 0 =>
               queue[m] > 0 \/ MetadataComes(m.id)',
           \A r \in Requests :
               apc'[r] \in {"flush", "delay", "commit"} /\ ~arow'[r] =>
                   \/ aid'[r] \in metadata'
                   \/ aid'[r] \in Fallbacks /\ ~Visible(aid[r])'
    PROVE  MetadataInv'
<1>1. \A m \in Message : queue'[m] > 0 => MetadataComes(m.id)'
  BY MessageType DEF RequestFrame, MetadataInv
<1>2. \A w \in Workers : pc'[w] # "idle" => MetadataComes(job[w].id)'
  <2> SUFFICES ASSUME NEW w \in Workers, pc'[w] # "idle"
               PROVE  MetadataComes(job[w].id)'
    OBVIOUS
  <2>1. MetadataComes(job[w].id) /\ job[w].id \in Ids
    BY MessageType DEF RequestFrame, MetadataInv, Typed, ControlInv
  <2>2. MetadataComes(job[w].id) => MetadataComes(job[w].id)'
    <3> DEFINE id == job[w].id
    <3>1. \A i \in Ids : MetadataComes(i) => MetadataComes(i)'
      BY DEF RequestFrame
    <3>2. job' = job
      BY DEF RequestFrame
    <3>3. QED
      BY <2>1, <3>1, <3>2 DEF MetadataComes
  <2>3. QED
    BY <2>1, <2>2
<1>3. ProcessingHasMetadata'
  BY DEF RequestFrame, MetadataInv, ProcessingHasMetadata
<1>4. QED
  BY <1>1, <1>2, <1>3 DEF MetadataInv

LEMMA MetadataStep ==
    ASSUME Typed, MetadataInv, [Next]_vars
    PROVE  MetadataInv'
<1> USE DEF dbVars, s3Vars, redisVars, apiVars, runVars, taskVars
<1>t. /\ status \in [Ids -> Status] /\ queue \in [Message -> Nat]
      /\ apc \in [Requests -> RequestPC]
      /\ aid \in [Requests -> Ids \cup {None}]
      /\ arow \in [Requests -> BOOLEAN]
      /\ \A r \in Requests :
            apc[r] \in {"flush", "delay", "commit"} => aid[r] \in Ids
  BY DEF Typed, TypeOK, ControlInv
<1>i. \A r \in Requests :
         apc[r] \in {"flush", "delay", "commit"} /\ ~arow[r] =>
             \/ aid[r] \in metadata
             \/ aid[r] \in Fallbacks /\ ~Visible(aid[r])
  BY DEF MetadataInv
<1>1. CASE UNCHANGED vars \/ Tick
  <2>1. WorkerFrame
    BY <1>1, <1>t DEF vars, Tick, WorkerFrame, Visible
  <2>2. QED
    BY <2>1, MetadataWorkerStep
<1>2. ASSUME NEW w \in Workers, Execute(w) \/ Environment(w)
      PROVE  MetadataInv'
  BY <1>2, WorkerStep, MetadataWorkerStep
<1>3. ASSUME NEW id \in Uploads, GetUploadUrl(id)
      PROVE  MetadataInv'
  <2>1. /\ status' = [status EXCEPT ![id] = "pending"]
        /\ metadata' = metadata /\ queue' = queue /\ pc' = pc /\ job' = job
        /\ apc' = apc /\ aid' = aid /\ arow' = arow
    BY <1>3 DEF GetUploadUrl
  <2>2. id \in Ids /\ id \notin Fallbacks
    BY ConstantsAssumption DEF Ids
  <2>3. RequestFrame
    BY <2>1, <2>2, <1>t, <1>i DEF RequestFrame, MetadataComes, Visible
  <2>4. QED
    BY <2>1, <2>2, <2>3, <1>t, <1>i, MetadataRequestStep DEF Visible
<1>4. ASSUME NEW id \in Uploads, PutObject(id) \/ UrlExpires(id)
      PROVE  MetadataInv'
  <2>1. WorkerFrame
    BY <1>4, <1>t DEF PutObject, UrlExpires, WorkerFrame, Visible
  <2>2. QED
    BY <2>1, MetadataWorkerStep
<1>5. ASSUME NEW r \in Requests, NEW id \in Ids, StartAnalysis(r, id)
      PROVE  MetadataInv'
  <2>1. /\ status' = status /\ metadata' = metadata /\ queue' = queue
        /\ pc' = pc /\ job' = job /\ apc[r] = "new"
        /\ apc' = [apc EXCEPT ![r] = "flush"]
        /\ aid' = [aid EXCEPT ![r] = id]
        /\ \/ arow' = [arow EXCEPT ![r] = TRUE]
           \/ id \in metadata /\ arow' = [arow EXCEPT ![r] = FALSE]
    BY <1>5 DEF StartAnalysis, Respond
  <2>2. \A q \in Requests : q # r =>
           apc'[q] = apc[q] /\ aid'[q] = aid[q] /\ arow'[q] = arow[q]
    BY <2>1, <1>t
  <2>3. RequestFrame
    BY <2>1, <2>2 DEF RequestFrame, MetadataComes, Visible
  <2>4. arow'[r] \/ aid'[r] \in metadata'
    BY <2>1, <1>t
  <2>5. QED
    BY <2>1, <2>2, <2>3, <2>4, <1>i, MetadataRequestStep DEF Visible
<1>6. ASSUME NEW r \in Requests, NEW id \in Fallbacks, StartFallback(r, id)
      PROVE  MetadataInv'
  <2>1. /\ status' = status /\ metadata' = metadata /\ queue' = queue
        /\ pc' = pc /\ job' = job /\ apc[r] = "new" /\ ~Visible(id)
        /\ apc' = [apc EXCEPT ![r] = "delay"]
        /\ aid' = [aid EXCEPT ![r] = id] /\ arow' = arow
    BY <1>6 DEF StartFallback, Respond, Visible
  <2>2. \A q \in Requests : q # r => apc'[q] = apc[q] /\ aid'[q] = aid[q]
    BY <2>1, <1>t
  <2>3. RequestFrame
    BY <2>1, <2>2 DEF RequestFrame, MetadataComes, Visible
  <2>4. aid'[r] \in Fallbacks /\ ~Visible(aid[r])'
    BY <2>1, <1>t DEF Visible
  <2>5. QED
    BY <2>1, <2>2, <2>3, <2>4, <1>i, MetadataRequestStep DEF Visible
<1>7. ASSUME NEW r \in Requests, FlushMetadata(r)
      PROVE  MetadataInv'
  <2>1. /\ status' = status /\ metadata' = metadata /\ queue' = queue
        /\ pc' = pc /\ job' = job /\ apc[r] = "flush"
        /\ apc' = [apc EXCEPT ![r] = "delay"]
        /\ aid' = aid /\ arow' = arow
    BY <1>7 DEF FlushMetadata, Respond
  <2>2. \A q \in Requests : q # r => apc'[q] = apc[q]
    BY <2>1, <1>t
  <2>3. RequestFrame
    BY <2>1, <2>2 DEF RequestFrame, MetadataComes, Visible
  <2>4. QED
    BY <2>1, <2>2, <2>3, <1>i, MetadataRequestStep DEF Visible
<1>8. ASSUME NEW r \in Requests, Delay(r)
      PROVE  MetadataInv'
  <2>1. /\ status' = status /\ metadata' = metadata
        /\ pc' = pc /\ job' = job /\ apc[r] = "delay"
        /\ \/ apc' = [apc EXCEPT ![r] = "commit"]
           \/ apc' = [apc EXCEPT ![r] = "failed"]
        /\ queue' = queue \/ Send(First(aid[r]))
        /\ aid' = aid /\ arow' = arow /\ aid[r] \in Ids
    BY <1>8, <1>t DEF Delay, Respond
  <2>2. /\ \A q \in Requests : q # r => apc'[q] = apc[q]
        /\ apc'[r] \in {"commit", "failed"}
    BY <2>1, <1>t
  <2>3. RequestFrame
    BY <2>1, <2>2 DEF RequestFrame, MetadataComes, Visible
  <2>4. MetadataComes(aid[r])'
    BY <2>1, <2>2, <1>i, <1>t DEF MetadataComes, Visible
  <2>5. \A m \in Message : queue'[m] > 0 => queue[m] > 0 \/ m.id = aid[r]
    <3>1. CASE queue' = queue
      BY <3>1
    <3>2. CASE Send(First(aid[r]))
      <4>1. First(aid[r]).id = aid[r]
        BY DEF First
      <4>2. \A m \in Message : m # First(aid[r]) => queue'[m] = queue[m]
        BY <3>2, <1>t DEF Send
      <4>3. QED
        BY <4>1, <4>2
    <3>3. QED
      BY <2>1, <3>1, <3>2
  <2>6. \A m \in Message : m.id = aid[r] => MetadataComes(m.id)'
    BY <2>1, <2>4 DEF MetadataComes
  <2>7. QED
    BY <2>1, <2>2, <2>3, <2>5, <2>6, <1>i, MetadataRequestStep DEF Visible
<1>9. ASSUME NEW r \in Requests, Commit(r)
      PROVE  MetadataInv'
  <2>1. /\ queue' = queue /\ pc' = pc /\ job' = job /\ apc[r] = "commit"
        /\ aid' = aid /\ arow' = arow /\ aid[r] \in Ids
        /\ metadata \subseteq metadata' /\ metadata' \subseteq metadata \cup {aid[r]}
        /\ \A id \in Ids : id # aid[r] => status'[id] = status[id]
        /\ status'[aid[r]] = status[aid[r]] \/ status'[aid[r]] = "pending"
        /\ status'[aid[r]] # status[aid[r]] => aid[r] \in metadata'
    BY <1>9, <1>t DEF Commit, WriteRow, Respond
  <2>2. /\ \A q \in Requests : q # r => apc'[q] = apc[q]
        /\ apc'[r] \in {"done", "failed"}
        /\ apc'[r] = "done" => aid[r] \in metadata'
    BY <1>9, <1>t DEF Commit, WriteRow, Respond
  <2>3. \A id \in Ids : MetadataComes(id) => MetadataComes(id)'
    BY <2>1, <2>2, <1>t DEF MetadataComes, Visible
  <2>4. RequestFrame
    BY <2>1, <2>2, <2>3 DEF RequestFrame
  <2>5. \A q \in Requests :
           apc'[q] \in {"flush", "delay", "commit"} /\ ~arow'[q] =>
               \/ aid'[q] \in metadata'
               \/ aid'[q] \in Fallbacks /\ ~Visible(aid[q])'
    BY <2>1, <2>2, <1>i, <1>t DEF Visible
  <2>6. QED
    BY <2>1, <2>4, <2>5, MetadataRequestStep
<1>10. QED
  BY <1>1, <1>2, <1>3, <1>4, <1>5, <1>6, <1>7, <1>8, <1>9
  DEF Next, Client, Request, Handler

\* A worker that overtakes the commit of the start request (delay is called at
\* api/analysis.py:225, the commit comes at core/database.py:48) never leaves a
\* row without metadata behind, unless that request was answered 500.
THEOREM MetadataPresent == Spec => []ProcessingHasMetadata
<1>1. Init => Typed /\ MetadataInv
  BY InitTyped DEF Init, MetadataInv, ProcessingHasMetadata
<1>2. Typed /\ MetadataInv /\ [Next]_vars => Typed' /\ MetadataInv'
  BY TypedStep, MetadataStep
<1>3. MetadataInv => ProcessingHasMetadata
  BY DEF MetadataInv
<1>4. QED
  BY <1>1, <1>2, <1>3, PTL DEF Spec

-----------------------------------------------------------------------------
(* Settled rows *)

\* What a step of process w has to keep for FinalInv: the other processes and
\* the requests stay where they are, no key goes, only messages of its own job
\* appear, and only the process that works on a job settles it.
AttemptFrame(w) ==
    /\ \A v \in Workers : v # w =>
          pc'[v] = pc[v] /\ job'[v] = job[v] /\ step'[v] = step[v] /\ clock'[v] = clock[v]
    /\ apc' = apc /\ aid' = aid
    /\ \A id \in Ids : submitted[id] > 0 => submitted'[id] > 0
    /\ pc'[w] # "idle" =>
          \/ pc[w] # "idle" /\ job'[w] = job[w]
          \/ job'[w] \in Message /\ queue[job'[w]] > 0
    /\ \A m \in Message : queue'[m] > 0 =>
          \/ queue[m] > 0
          \/ /\ pc[w] # "idle" /\ m.id = job[w].id
             /\ m.retries > 0 => submitted[m.id] > 0
    /\ \A id \in Ids : Settled(id)' =>
          Settled(id) \/ (pc[w] \in PipelinePC /\ job[w].id = id)

LEMMA FinalWorkerStep ==
    ASSUME Typed, FinalInv, MutualExclusion,
           NEW w \in Workers, AttemptFrame(w), AttemptInv(w)'
    PROVE  FinalInv'
<1>t. \A v \in Workers : pc[v] # "idle" => job[v] \in Message /\ job[v].id \in Ids
  BY MessageType DEF Typed, ControlInv
<1>p. "idle" \notin PipelinePC
  BY DEF PipelinePC
<1>1. \A id \in Ids : Active(id)' => Active(id)
  <2> SUFFICES ASSUME NEW id \in Ids, Active(id)'
               PROVE  Active(id)
    OBVIOUS
  <2>1. CASE \E v \in Workers : pc'[v] # "idle" /\ job'[v].id = id
    <3>1. PICK v \in Workers : pc'[v] # "idle" /\ job'[v].id = id
      BY <2>1
    <3>2. CASE pc[v] # "idle" /\ job'[v] = job[v]
      BY <3>1, <3>2 DEF Active
    <3>3. CASE job'[v] \in Message /\ queue[job'[v]] > 0
      BY <3>1, <3>3 DEF Active
    <3>4. QED
      BY <3>1, <3>2, <3>3 DEF AttemptFrame
  <2>2. CASE \E m \in Message : queue'[m] > 0 /\ m.id = id
    BY <2>2 DEF AttemptFrame, Active
  <2>3. CASE \E r \in Requests :
                apc'[r] \in {"flush", "delay", "commit"} /\ aid'[r] = id
    BY <2>3 DEF AttemptFrame, Active
  <2>4. QED
    BY <2>1, <2>2, <2>3 DEF Active
<1>2. \A id \in Ids : Settled(id)' /\ Active(id)' => submitted'[id] > 0
  <2> SUFFICES ASSUME NEW id \in Ids, Settled(id)', Active(id)'
               PROVE  submitted[id] > 0
    BY DEF AttemptFrame
  <2>1. CASE Settled(id)
    BY <1>1, <2>1 DEF FinalInv
  <2>2. CASE pc[w] \in PipelinePC /\ job[w].id = id
    BY <2>2 DEF FinalInv, AttemptInv
  <2>3. QED
    BY <2>1, <2>2 DEF AttemptFrame
<1>3. \A m \in Message : queue'[m] > 0 /\ m.retries > 0 => submitted'[m.id] > 0
  BY MessageType DEF AttemptFrame, FinalInv
<1>4. ASSUME NEW v \in Workers, v # w
      PROVE  AttemptInv(v)'
  <2>1. pc'[v] = pc[v] /\ job'[v] = job[v] /\ step'[v] = step[v] /\ clock'[v] = clock[v]
    BY <1>4 DEF AttemptFrame
  <2>2. AttemptInv(v)
    BY DEF FinalInv
  <2>3. pc[v] # "idle" /\ submitted[job[v].id] > 0 => submitted'[job[v].id] > 0
    BY <1>t DEF AttemptFrame
  <2>4. pc[v] \in PipelinePC /\ Settled(job[v].id)' => Settled(job[v].id)
    BY <1>t, <1>p, <1>4, <2>1 DEF AttemptFrame, MutualExclusion, Running, Settled
  <2>5. pc[v] \in PipelinePC \cup {"except"} => pc[v] # "idle"
    BY <1>p
  <2>6. /\ clock'[v] = 0 /\ pc'[v] # "fail"
        /\ pc'[v] # "idle" /\ job'[v].retries > 0 => submitted'[job'[v].id] > 0
        /\ pc'[v] \in PipelinePC \cup {"except"} =>
              submitted'[job'[v].id] > 0 /\ job'[v].retries = 0
    BY <2>1, <2>2, <2>3, <2>5 DEF AttemptInv
  <2>7. pc'[v] \in PipelinePC /\ Settled(job[v].id)' => PastSave(v)'
    BY <2>1, <2>2, <2>4 DEF AttemptInv, PastSave
  <2>8. QED
    BY <2>6, <2>7 DEF AttemptInv
<1>5. \A v \in Workers : AttemptInv(v)'
  BY <1>4
<1>6. QED
  BY <1>2, <1>3, <1>5 DEF FinalInv

LEMMA FinalExecuteStep ==
    ASSUME Typed, Undisturbed, FinalInv, NEW w \in Workers, Execute(w)
    PROVE  AttemptFrame(w) /\ AttemptInv(w)'
<1> USE DEF dbVars, s3Vars, redisVars, apiVars, runVars, taskVars, Goto
<1>t. /\ status \in [Ids -> Status] /\ queue \in [Message -> Nat]
      /\ submitted \in [Ids -> 0 .. LockTTL]
      /\ pc \in [Workers -> WorkerPC] /\ step \in [Workers -> 1 .. 10]
      /\ job \in [Workers -> Message \cup {None}]
      /\ clock \in [Workers -> 0 .. HardLimit]
      /\ pc[w] # "idle" => job[w] \in Message
      /\ pc[w] = "publish" => step[w] \in 1 .. 9
      /\ pc[w] \in {"idle", "lock", "mark"} => step[w] = 1
      /\ pc[w] = "download" => step[w] = 2
      /\ pc[w] \in {"save", "delete"} => step[w] = 9
  BY ProgressStepsType DEF Typed, TypeOK, ControlInv
<1>m. /\ pc[w] # "idle" => job[w].id \in Ids /\ job[w].retries \in 0 .. MaxRetries
      /\ \A m \in Message : m.id \in Ids /\ m.retries \in Nat
  BY <1>t, MessageType, ConstantsAssumption
<1>i. AttemptInv(w)
  BY DEF FinalInv
<1>l. \A id \in Ids : Settled(id) /\ Active(id) => submitted[id] > 0
  BY DEF FinalInv
<1>a. pc[w] # "idle" => Active(job[w].id)
  BY DEF Active
<1>1. ASSUME NEW m \in Message, Deliver(w, m)
      PROVE  AttemptFrame(w) /\ AttemptInv(w)'
  <2>1. /\ pc' = [pc EXCEPT ![w] = "lock"] /\ job' = [job EXCEPT ![w] = m]
        /\ step' = step /\ clock' = clock /\ submitted' = submitted
        /\ status' = status /\ apc' = apc /\ aid' = aid /\ queue[m] > 0
        /\ queue' = [queue EXCEPT ![m] = queue[m] - 1]
    BY <1>1 DEF Deliver, Proceed
  <2>2. AttemptFrame(w)
    BY <2>1, <1>t DEF AttemptFrame, Settled
  <2>3. m.retries > 0 => submitted[m.id] > 0
    BY <2>1 DEF FinalInv
  <2>4. AttemptInv(w)'
    BY <2>1, <2>3, <1>t, <1>i DEF AttemptInv, PipelinePC
  <2>5. QED
    BY <2>2, <2>4
<1>2. CASE AcquireLock(w)
  <2> DEFINE id == job[w].id
  <2>1. /\ pc[w] = "lock" /\ job' = job /\ step' = step /\ clock' = clock
        /\ status' = status /\ apc' = apc /\ aid' = aid /\ queue' = queue
        /\ \/ /\ submitted[id] = 0 /\ pc' = [pc EXCEPT ![w] = "mark"]
              /\ submitted' = [submitted EXCEPT ![id] = LockTTL]
           \/ submitted' = submitted /\ pc' = [pc EXCEPT ![w] = "ack"]
    BY <1>2 DEF AcquireLock, SetNX, Proceed, Raise, Fault, Undisturbed
  <2>2. id \in Ids /\ LockTTL > 0 /\ LockTTL \in Nat
    BY <2>1, <1>m, LockOutlivesExecution, ConstantsAssumption
  <2>3. AttemptFrame(w)
    BY <2>1, <2>2, <1>t DEF AttemptFrame, Settled
  <2>4. CASE pc' = [pc EXCEPT ![w] = "ack"] /\ submitted' = submitted
    <3>1. pc'[w] = "ack" /\ "ack" \notin PipelinePC \cup {"except"}
      BY <2>4, <1>t DEF PipelinePC
    <3>2. QED
      BY <2>1, <2>3, <2>4, <3>1, <1>i DEF AttemptInv
  <2>5. CASE /\ submitted[id] = 0 /\ pc' = [pc EXCEPT ![w] = "mark"]
             /\ submitted' = [submitted EXCEPT ![id] = LockTTL]
    <3>1. submitted'[id] > 0 /\ pc'[w] = "mark"
      BY <2>2, <2>5, <1>t
    <3>2. job[w].retries = 0
      BY <2>1, <2>5, <1>i, <1>m, ConstantsAssumption DEF AttemptInv
    <3>3. ~Settled(id)'
      BY <2>1, <2>2, <2>5, <1>l, <1>a DEF Settled
    <3>4. QED
      BY <2>1, <2>3, <3>1, <3>2, <3>3, <1>i, <1>t DEF AttemptInv, PipelinePC
  <2>6. QED
    BY <2>1, <2>3, <2>4, <2>5
<1>3. CASE MarkProcessing(w)
  <2>1. /\ pc[w] = "mark" /\ job' = job /\ step' = step /\ clock' = clock
        /\ submitted' = submitted /\ apc' = apc /\ aid' = aid /\ queue' = queue
        /\ \/ pc' = [pc EXCEPT ![w] = "publish"]
           \/ pc' = [pc EXCEPT ![w] = "except"]
        /\ status' = status \/ UpdateStatus(job[w].id, "processing")
    BY <1>3 DEF MarkProcessing, Proceed, Raise
  <2>2. job[w].id \in Ids /\ ~Settled(job[w].id)
    BY <2>1, <1>i, <1>m, <1>t DEF AttemptInv, PipelinePC, PastSave
  <2>3. \A id \in Ids : Settled(id)' => Settled(id) /\ id # job[w].id
    BY <2>1, <2>2, <1>t DEF UpdateStatus, Settled
  <2>4. AttemptFrame(w)
    BY <2>1, <2>3, <1>t DEF AttemptFrame
  <2>5. pc'[w] \in {"publish", "except"} /\ pc[w] \in PipelinePC
    BY <2>1, <1>t DEF PipelinePC
  <2>6. ~Settled(job[w].id)'
    BY <2>1, <2>2, <1>t DEF UpdateStatus, Settled
  <2>7. AttemptInv(w)'
    BY <2>1, <2>5, <2>6, <1>i DEF AttemptInv, PipelinePC
  <2>8. QED
    BY <2>4, <2>7
<1>4. CASE PublishProgress(w)
  <2>1. /\ pc[w] = "publish" /\ job' = job /\ clock' = clock
        /\ submitted' = submitted /\ apc' = apc /\ aid' = aid /\ queue' = queue
        /\ status' = status
        /\ pc' = [pc EXCEPT ![w] = AfterPublish(step[w])]
        /\ step' = [step EXCEPT ![w] = step[w] + 1]
    BY <1>4 DEF PublishProgress
  <2>2. /\ AfterPublish(step[w]) \in {"download", "publish", "save", "notify"}
        /\ step[w] = 9 => AfterPublish(step[w]) = "notify"
    BY <2>1, <1>t, AfterPublishType
  <2>3. AttemptFrame(w)
    BY <2>1, <2>2, <1>t DEF AttemptFrame, Settled
  <2>4. /\ pc[w] \in PipelinePC /\ pc'[w] \in PipelinePC /\ pc'[w] # "fail"
        /\ PastSave(w) => PastSave(w)'
    BY <2>1, <2>2, <1>t DEF PipelinePC, PastSave
  <2>5. AttemptInv(w)'
    BY <2>1, <2>4, <1>i DEF AttemptInv, Settled
  <2>6. QED
    BY <2>3, <2>5
<1>5. CASE Download(w)
  <2>1. /\ pc[w] = "download" /\ job' = job /\ step' = step /\ clock' = clock
        /\ submitted' = submitted /\ apc' = apc /\ aid' = aid /\ queue' = queue
        /\ status' = status
        /\ \/ pc' = [pc EXCEPT ![w] = "publish"]
           \/ pc' = [pc EXCEPT ![w] = "except"]
    BY <1>5 DEF Download, Proceed, Raise
  <2>2. AttemptFrame(w)
    BY <2>1, <1>t DEF AttemptFrame, Settled
  <2>3. ~Settled(job[w].id)
    BY <2>1, <1>i, <1>t DEF AttemptInv, PipelinePC, PastSave
  <2>4. AttemptInv(w)'
    BY <2>1, <2>3, <1>i, <1>t DEF AttemptInv, PipelinePC, Settled
  <2>5. QED
    BY <2>2, <2>4
<1>6. CASE SaveResult(w)
  <2>1. /\ pc[w] = "save" /\ job' = job /\ step' = step /\ clock' = clock
        /\ submitted' = submitted /\ apc' = apc /\ aid' = aid /\ queue' = queue
        /\ \/ pc' = [pc EXCEPT ![w] = "delete"]
           \/ pc' = [pc EXCEPT ![w] = "except"]
        /\ status' = status \/ UpdateStatus(job[w].id, "complete")
    BY <1>6 DEF SaveResult, SaveAnalysisResult, Proceed, Raise
  <2>2. \A id \in Ids : Settled(id)' => Settled(id) \/ id = job[w].id
    BY <2>1, <1>t DEF UpdateStatus, Settled
  <2>3. pc[w] \in PipelinePC
    BY <2>1 DEF PipelinePC
  <2>4. AttemptFrame(w)
    BY <2>1, <2>2, <2>3, <1>t DEF AttemptFrame
  <2>5. pc'[w] \in {"delete", "except"}
    BY <2>1, <1>t
  <2>6. AttemptInv(w)'
    BY <2>1, <2>3, <2>5, <1>i DEF AttemptInv, PipelinePC, PastSave
  <2>7. QED
    BY <2>4, <2>6
<1>7. CASE DeleteSource(w) \/ Notify(w)
  <2>1. /\ pc[w] \in {"delete", "notify"} /\ job' = job /\ step' = step
        /\ clock' = clock /\ submitted' = submitted /\ status' = status
        /\ apc' = apc /\ aid' = aid /\ queue' = queue
        /\ \/ pc' = [pc EXCEPT ![w] = "publish"] /\ pc[w] = "delete"
           \/ pc' = [pc EXCEPT ![w] = "ack"]
           \/ pc' = [pc EXCEPT ![w] = "except"]
    BY <1>7 DEF DeleteSource, Notify, Proceed, Raise
  <2>2. AttemptFrame(w)
    BY <2>1, <1>t DEF AttemptFrame, Settled
  <2>3. /\ pc'[w] \in {"publish", "ack", "except"} /\ pc[w] \in PipelinePC
        /\ pc'[w] = "publish" => PastSave(w)'
    BY <2>1, <1>t DEF PipelinePC, PastSave
  <2>4. AttemptInv(w)'
    BY <2>1, <2>3, <1>i DEF AttemptInv, PipelinePC
  <2>5. QED
    BY <2>2, <2>4
<1>8. CASE HandleException(w)
  <2> DEFINE again == [id |-> job[w].id, retries |-> job[w].retries + 1]
  <2>1. pc[w] = "except" /\ job[w].retries = 0 /\ submitted[job[w].id] > 0
    BY <1>8, <1>i DEF HandleException, AttemptInv
  <2>2. /\ job' = job /\ step' = step /\ clock' = clock
        /\ submitted' = submitted /\ status' = status
        /\ apc' = apc /\ aid' = aid
        /\ queue' = queue \/ Send(again)
        /\ pc' = [pc EXCEPT ![w] = "ack"]
    BY <1>8, <2>1, ConstantsAssumption DEF HandleException, Undisturbed
  <2>3. \A m \in Message : queue'[m] > 0 => queue[m] > 0 \/ m.id = job[w].id
    BY <2>2, <1>t DEF Send
  <2>4. AttemptFrame(w)
    BY <2>1, <2>2, <2>3, <1>t DEF AttemptFrame, Settled
  <2>5. AttemptInv(w)'
    BY <2>1, <2>2, <1>t, <1>i DEF AttemptInv, PipelinePC
  <2>6. QED
    BY <2>4, <2>5
<1>9. CASE MarkFailed(w)
  BY <1>9, <1>i DEF MarkFailed, AttemptInv
<1>10. CASE Ack(w)
  <2>1. /\ pc' = [pc EXCEPT ![w] = "idle"] /\ job' = [job EXCEPT ![w] = None]
        /\ step' = [step EXCEPT ![w] = 1] /\ clock' = [clock EXCEPT ![w] = 0]
        /\ submitted' = submitted /\ status' = status
        /\ apc' = apc /\ aid' = aid /\ queue' = queue
    BY <1>10 DEF Ack, Release
  <2>2. AttemptFrame(w)
    BY <2>1, <1>t DEF AttemptFrame, Settled
  <2>3. AttemptInv(w)'
    BY <2>1, <1>t DEF AttemptInv, PipelinePC
  <2>4. QED
    BY <2>2, <2>3
<1>11. QED
  BY <1>1, <1>2, <1>3, <1>4, <1>5, <1>6, <1>7, <1>8, <1>9, <1>10 DEF Execute

LEMMA FinalEnvironmentStep ==
    ASSUME Typed, Undisturbed, FinalInv, NEW w \in Workers, Environment(w)
    PROVE  AttemptFrame(w) /\ AttemptInv(w)'
<1>t. /\ status \in [Ids -> Status] /\ queue \in [Message -> Nat]
      /\ pc \in [Workers -> WorkerPC] /\ step \in [Workers -> 1 .. 10]
      /\ job \in [Workers -> Message \cup {None}]
      /\ clock \in [Workers -> 0 .. HardLimit]
      /\ pc[w] # "idle" => job[w] \in Message
      /\ held[w] => pc[w] # "idle"
  BY ProgressStepsType DEF Typed, TypeOK, ControlInv
<1>i. AttemptInv(w)
  BY DEF FinalInv
<1>1. ~SoftTimeLimit(w)
  BY <1>i, ConstantsAssumption DEF SoftTimeLimit, Undisturbed, AttemptInv
<1>2. ASSUME Send(job[w]), job[w] \in Message, pc[w] # "idle"
      PROVE  \A m \in Message : queue'[m] > 0 =>
                \/ queue[m] > 0
                \/ m.id = job[w].id /\ (m.retries > 0 => submitted[m.id] > 0)
  BY <1>2, <1>t, <1>i DEF Send, AttemptInv
<1>3. CASE HardTimeLimit(w) \/ ChildLost(w) \/ NodeCrash(w)
  <2>1. /\ pc' = [pc EXCEPT ![w] = "idle"] /\ job' = [job EXCEPT ![w] = None]
        /\ step' = [step EXCEPT ![w] = 1] /\ clock' = [clock EXCEPT ![w] = 0]
        /\ submitted' = submitted /\ status' = status
        /\ apc' = apc /\ aid' = aid
        /\ queue' = queue \/ (Send(job[w]) /\ pc[w] # "idle")
    BY <1>3 DEF HardTimeLimit, ChildLost, NodeCrash, Release, Goto, dbVars,
       s3Vars, redisVars, apiVars
  <2>2. \A m \in Message : queue'[m] > 0 =>
           \/ queue[m] > 0
           \/ /\ pc[w] # "idle" /\ m.id = job[w].id
              /\ m.retries > 0 => submitted[m.id] > 0
    BY <2>1, <1>2, <1>t
  <2>3. AttemptFrame(w)
    BY <2>1, <2>2, <1>t DEF AttemptFrame, Settled
  <2>4. AttemptInv(w)'
    BY <2>1, <1>t DEF AttemptInv, PipelinePC
  <2>5. QED
    BY <2>3, <2>4
<1>4. CASE ConnectionLoss(w)
  <2>1. /\ pc' = pc /\ job' = job /\ step' = step /\ clock' = clock
        /\ submitted' = submitted /\ status' = status
        /\ apc' = apc /\ aid' = aid /\ Send(job[w]) /\ pc[w] # "idle"
    BY <1>4, <1>t DEF ConnectionLoss, dbVars, s3Vars, redisVars, apiVars
  <2>2. AttemptFrame(w)
    BY <2>1, <1>2, <1>t DEF AttemptFrame, Settled
  <2>3. AttemptInv(w)'
    BY <2>1, <1>i DEF AttemptInv, PastSave, Settled
  <2>4. QED
    BY <2>2, <2>3
<1>5. QED
  BY <1>1, <1>3, <1>4 DEF Environment

\* Requests and clients neither touch a key, an execution or a result, nor settle
\* a row, and a request starts only on a job that is not settled.
Quiet ==
    /\ pc' = pc /\ job' = job /\ step' = step /\ clock' = clock
    /\ submitted' = submitted /\ results' = results
    /\ \A id \in Ids :
          \/ status'[id] = status[id]
          \/ ~Settled(id) /\ status'[id] = "pending"
    /\ \A m \in Message : queue'[m] > 0 => (queue[m] > 0 \/ m.retries = 0)
    /\ \A id \in Ids : Active(id)' => (Active(id) \/ ~Settled(id))

LEMMA RequestsAreQuiet ==
    ASSUME Typed,
           Client \/ (\E r \in Requests : Request(r)) \/ UNCHANGED vars
    PROVE  Quiet
<1> USE DEF dbVars, s3Vars, redisVars, apiVars, runVars, taskVars
<1>t. /\ status \in [Ids -> Status] /\ queue \in [Message -> Nat]
      /\ apc \in [Requests -> RequestPC]
      /\ aid \in [Requests -> Ids \cup {None}]
      /\ \A r \in Requests :
            apc[r] \in {"flush", "delay", "commit"} => aid[r] \in Ids
  BY DEF Typed, TypeOK, ControlInv
<1> DEFINE
      Still ==
        /\ pc' = pc /\ job' = job /\ step' = step /\ clock' = clock
        /\ submitted' = submitted /\ results' = results
      Rows ==
        \A id \in Ids :
            \/ status'[id] = status[id]
            \/ ~Settled(id) /\ status'[id] = "pending"
      Calm ==
        /\ \A m \in Message : queue'[m] > 0 => (queue[m] > 0 \/ m.retries = 0)
        /\ \A id \in Ids : Active(id)' => (Active(id) \/ ~Settled(id))
<1>2. CASE UNCHANGED vars
  BY <1>2 DEF vars, Active, Quiet
<1>3. CASE Client
  <2>1. Still /\ Calm
    BY <1>3 DEF Client, GetUploadUrl, PutObject, UrlExpires, Active
  <2>2. Rows
    BY <1>3, <1>t DEF Client, GetUploadUrl, PutObject, UrlExpires, Settled
  <2>3. QED
    BY <2>1, <2>2 DEF Quiet
<1>4. ASSUME NEW r \in Requests, NEW id \in Ids, StartAnalysis(r, id)
      PROVE  Still /\ Rows /\ Calm
  <2>1. /\ Still /\ status' = status /\ queue' = queue /\ status[id] = "pending"
        /\ apc' = [apc EXCEPT ![r] = "flush"] /\ aid' = [aid EXCEPT ![r] = id]
    BY <1>4 DEF StartAnalysis, Respond
  <2>2. \A q \in Requests :
           \/ apc'[q] = apc[q] /\ aid'[q] = aid[q]
           \/ aid'[q] = id
    BY <2>1, <1>t
  <2>3. QED
    BY <2>1, <2>2 DEF Active, Settled
<1>5. ASSUME NEW r \in Requests, NEW id \in Fallbacks, StartFallback(r, id)
      PROVE  Still /\ Rows /\ Calm
  <2>1. /\ Still /\ status' = status /\ queue' = queue /\ status[id] = "absent"
        /\ apc' = [apc EXCEPT ![r] = "delay"] /\ aid' = [aid EXCEPT ![r] = id]
    BY <1>5 DEF StartFallback, Respond
  <2>2. \A q \in Requests :
           \/ apc'[q] = apc[q] /\ aid'[q] = aid[q]
           \/ aid'[q] = id
    BY <2>1, <1>t
  <2>3. QED
    BY <2>1, <2>2 DEF Active, Settled
<1>6. ASSUME NEW r \in Requests, FlushMetadata(r)
      PROVE  Still /\ Rows /\ Calm
  <2>1. /\ Still /\ status' = status /\ queue' = queue /\ aid' = aid
        /\ apc[r] = "flush" /\ apc' = [apc EXCEPT ![r] = "delay"]
    BY <1>6 DEF FlushMetadata, Respond
  <2>2. \A q \in Requests :
           apc'[q] \in {"flush", "delay", "commit"} =>
               apc[q] \in {"flush", "delay", "commit"}
    BY <2>1, <1>t
  <2>3. QED
    BY <2>1, <2>2 DEF Active
<1>7. ASSUME NEW r \in Requests, Delay(r)
      PROVE  Still /\ Rows /\ Calm
  <2>1. /\ Still /\ status' = status /\ aid' = aid /\ apc[r] = "delay"
        /\ \/ apc' = [apc EXCEPT ![r] = "commit"]
           \/ apc' = [apc EXCEPT ![r] = "failed"]
        /\ queue' = queue \/ Send(First(aid[r]))
    BY <1>7 DEF Delay, Respond
  <2>2. \A q \in Requests :
           apc'[q] \in {"flush", "delay", "commit"} =>
               apc[q] \in {"flush", "delay", "commit"}
    BY <2>1, <1>t
  <2>3. First(aid[r]).id = aid[r] /\ First(aid[r]).retries = 0
    BY DEF First
  <2>4. \A m \in Message : queue'[m] > 0 => queue[m] > 0 \/ m = First(aid[r])
    BY <2>1, <1>t DEF Send
  <2>5. Calm
    BY <2>1, <2>2, <2>3, <2>4 DEF Active
  <2>6. QED
    BY <2>1, <2>5
<1>8. ASSUME NEW r \in Requests, Commit(r)
      PROVE  Still /\ Rows /\ Calm
  <2>1. /\ Still /\ queue' = queue /\ aid' = aid /\ apc[r] = "commit"
        /\ \/ apc' = [apc EXCEPT ![r] = "done"]
           \/ apc' = [apc EXCEPT ![r] = "failed"]
        /\ status' = status \/ WriteRow(r)
    BY <1>8 DEF Commit, Respond
  <2>2. \A q \in Requests :
           apc'[q] \in {"flush", "delay", "commit"} =>
               apc[q] \in {"flush", "delay", "commit"}
    BY <2>1, <1>t
  <2>3. Calm
    BY <2>1, <2>2 DEF Active
  <2>4. Rows
    BY <2>1, <1>t DEF WriteRow, Visible, Settled
  <2>5. QED
    BY <2>1, <2>3, <2>4
<1>9. ASSUME NEW r \in Requests, Request(r)
      PROVE  Still /\ Rows /\ Calm
  BY <1>4, <1>5, <1>6, <1>7, <1>8, <1>9 DEF Request, Handler
<1>10. QED
  BY <1>2, <1>3, <1>9 DEF Quiet

LEMMA FinalRequestStep ==
    ASSUME Typed, FinalInv, Quiet
    PROVE  FinalInv' /\ \A id \in Ids : Settled(id) => status'[id] = status[id]
<1>1. \A id \in Ids : Settled(id)' => Settled(id)
  BY DEF Quiet, Settled
<1>2. \A id \in Ids : Settled(id)' /\ Active(id)' => submitted'[id] > 0
  BY <1>1 DEF Quiet, FinalInv
<1>3. \A m \in Message : queue'[m] > 0 /\ m.retries > 0 => submitted'[m.id] > 0
  BY DEF Quiet, FinalInv
<1>4. ASSUME NEW w \in Workers
      PROVE  AttemptInv(w)'
  <2>1. AttemptInv(w)
    BY DEF FinalInv
  <2>2. pc[w] \in PipelinePC => job[w].id \in Ids
    BY MessageType DEF Typed, ControlInv, PipelinePC
  <2>3. pc[w] \in PipelinePC /\ Settled(job[w].id)' => Settled(job[w].id)
    BY <1>1, <2>2 DEF Quiet, Settled
  <2>4. QED
    BY <2>1, <2>3 DEF Quiet, Settled, AttemptInv, PastSave
<1>5. \A id \in Ids : Settled(id) => status'[id] = status[id]
  BY DEF Quiet
<1>6. QED
  BY <1>2, <1>3, <1>4, <1>5 DEF FinalInv

\* Time passes only when nobody is active.
LEMMA FinalTickStep ==
    ASSUME Typed, Undisturbed, FinalInv, Tick
    PROVE  FinalInv' /\ status' = status
<1>t. /\ queue \in [Message -> Nat]
      /\ clock \in [Workers -> 0 .. HardLimit]
  BY DEF Typed, TypeOK
<1>1. /\ \A w \in Workers : pc[w] = "idle"
      /\ \A r \in Requests : apc[r] \notin {"flush", "delay", "commit"}
      /\ \A m \in Message : queue[m] = 0
  BY <1>t DEF Tick, InFlight, Undisturbed
<1>2. /\ pc' = pc /\ apc' = apc /\ aid' = aid /\ queue' = queue /\ job' = job
      /\ status' = status
      /\ \A w \in Workers : clock'[w] = clock[w]
  BY <1>1 DEF Tick, apiVars, dbVars, Executing
<1>3. \A id \in Ids : ~Active(id)'
  BY <1>1, <1>2 DEF Active
<1>4. \A w \in Workers : AttemptInv(w)'
  BY <1>1, <1>2 DEF FinalInv, AttemptInv, PipelinePC
<1>5. \A m \in Message : queue'[m] = 0
  BY <1>1, <1>2
<1>6. QED
  BY <1>2, <1>3, <1>4, <1>5 DEF FinalInv

LEMMA FinalStep ==
    ASSUME Typed, Undisturbed, FinalInv, MutualExclusion, [Next]_vars
    PROVE  FinalInv'
<1>1. ASSUME NEW w \in Workers, Execute(w) \/ Environment(w)
      PROVE  FinalInv'
  BY <1>1, FinalExecuteStep, FinalEnvironmentStep, FinalWorkerStep
<1>2. QED
  BY <1>1, RequestsAreQuiet, FinalRequestStep, FinalTickStep DEF Next

\* A settled row is past the statements that could overwrite it.
LEMMA SettledStays ==
    ASSUME Typed, Undisturbed, FinalInv, [Next]_vars
    PROVE  \A id \in Ids : Settled(id) => status'[id] = status[id]
<1>1. ASSUME NEW w \in Workers, Execute(w) \/ Environment(w),
             NEW id \in Ids, Settled(id)
      PROVE  status'[id] = status[id]
  <2> USE DEF dbVars, s3Vars, redisVars, apiVars, runVars, taskVars
  <2>1. AttemptInv(w)
    BY DEF FinalInv
  <2>2. status \in [Ids -> Status]
    BY DEF Typed, TypeOK
  <2>3. CASE MarkProcessing(w) \/ SaveResult(w)
    <3>1. pc[w] \in {"mark", "save"} /\ ~PastSave(w)
      BY <2>3 DEF MarkProcessing, SaveResult, PastSave
    <3>2. id # job[w].id
      BY <1>1, <2>1, <3>1 DEF AttemptInv, PipelinePC
    <3>3. QED
      BY <2>2, <2>3, <3>2 DEF MarkProcessing, SaveResult, SaveAnalysisResult,
         UpdateStatus
  <2>4. CASE MarkFailed(w)
    BY <2>1, <2>4 DEF MarkFailed, AttemptInv
  <2>5. CASE Execute(w) /\ ~MarkProcessing(w) /\ ~SaveResult(w) /\ ~MarkFailed(w)
    BY <2>5 DEF Execute, Deliver, AcquireLock, PublishProgress, Download,
       DeleteSource, Notify, HandleException, Ack
  <2>6. CASE Environment(w)
    BY <2>6 DEF Environment, SoftTimeLimit, HardTimeLimit, ChildLost, NodeCrash,
       ConnectionLoss
  <2>7. QED
    BY <1>1, <2>3, <2>4, <2>5, <2>6
<1>2. QED
  BY <1>1, RequestsAreQuiet, FinalRequestStep, FinalTickStep DEF Next

\* The status that ends an analysis is never overwritten (models/analysis.py:13-15)
\* by a second submission, a redelivered or retried message, a crash or a lost
\* answer of database, storage or broker: whoever could still overwrite it finds
\* the key of run_analysis. Undisturbed names what has to be excluded: Redis
\* errors, time running out under a job, and no retry to absorb a late error.
THEOREM SettledFinal == ASSUME Undisturbed PROVE Spec => SettledIsFinal
<1> DEFINE Inv == Typed /\ LockInv /\ MutualExclusion /\ FinalInv
<1>1. Init => Inv
  <2>1. Init => FinalInv
    BY DEF Init, FinalInv, Settled, AttemptInv, PipelinePC
  <2>2. QED
    BY <2>1, InitTyped DEF Init, LockInv, MutualExclusion, Running, PipelinePC
<1>2. Inv /\ [Next]_vars => Inv'
  BY TypedStep, ExclusionStep, FinalStep
<1>3. Inv /\ [Next]_vars =>
         [\A id \in Ids : status[id] \in {"complete", "failed"} =>
             status'[id] = status[id]]_vars
  BY SettledStays DEF Settled
<1>4. QED
  <2> HIDE DEF Inv
  <2>1. QED
    BY <1>1, <1>2, <1>3, PTL DEF Spec, SettledIsFinal

-----------------------------------------------------------------------------
(* Stored results *)

\* Whatever process w does, it gives up no key, saves only from "save", sets a
\* row to processing only from "mark", and comes to "mark" with a new key.
StoredFrame(w) ==
    /\ \A id \in Ids : submitted[id] > 0 => submitted'[id] > 0
    /\ \A id \in Ids : id \in results' =>
          \/ id \in results
          \/ pc[w] = "save" /\ job[w].id = id /\ status'[id] = "complete"
    /\ \A id \in Ids : status'[id] \in {status[id], "complete", "failed"}
          \/ (pc[w] = "mark" /\ job[w].id = id)
    /\ \A v \in Workers : pc'[v] = "mark" =>
          /\ job'[v] = job[v] /\ pc[v] # "idle"
          /\ pc[v] = "mark" \/ (v = w /\ submitted[job[v].id] = 0)

LEMMA StoredFrameStep ==
    ASSUME Typed, NEW w \in Workers, Execute(w) \/ Environment(w)
    PROVE  StoredFrame(w)
<1> USE DEF dbVars, s3Vars, redisVars, apiVars, runVars, taskVars, Goto, Proceed,
            Raise, Release, StoredFrame
<1>t. /\ status \in [Ids -> Status] /\ submitted \in [Ids -> 0 .. LockTTL]
      /\ pc \in [Workers -> WorkerPC] /\ results \subseteq Ids
      /\ job \in [Workers -> Message \cup {None}]
      /\ pc[w] # "idle" => job[w] \in Message /\ job[w].id \in Ids
      /\ pc[w] = "publish" => step[w] \in 1 .. 9
  BY MessageType DEF Typed, TypeOK, ControlInv
<1>1. CASE \E m \in Message : Deliver(w, m)
  BY <1>1, <1>t DEF Deliver
<1>2. CASE AcquireLock(w)
  <2>1. job[w].id \in Ids /\ LockTTL \in Nat /\ LockTTL > 0
    BY <1>2, <1>t, LockOutlivesExecution, ConstantsAssumption DEF AcquireLock
  <2>2. \A id \in Ids : submitted[id] > 0 => submitted'[id] > 0
    BY <1>2, <2>1, <1>t DEF AcquireLock, SetNX
  <2> QED
    BY <1>2, <2>1, <2>2, <1>t DEF AcquireLock
<1>3. CASE MarkProcessing(w)
  BY <1>3, <1>t DEF MarkProcessing, UpdateStatus
<1>4. CASE PublishProgress(w)
  <2>1. AfterPublish(step[w]) # "mark"
    BY <1>4, <1>t DEF PublishProgress, AfterPublish
  <2> QED
    BY <1>4, <2>1, <1>t DEF PublishProgress
<1>5. CASE Download(w) \/ DeleteSource(w) \/ Notify(w) \/ Ack(w)
  BY <1>5, <1>t DEF Download, DeleteSource, Notify, Ack
<1>6. CASE SaveResult(w)
  BY <1>6, <1>t DEF SaveResult, SaveAnalysisResult, UpdateStatus
<1>7. CASE HandleException(w)
  BY <1>7, <1>t DEF HandleException
<1>8. CASE MarkFailed(w)
  BY <1>8, <1>t DEF MarkFailed, UpdateStatus
<1>9. CASE SoftTimeLimit(w)
  <2>1. pc[w] = "publish" => AfterPublish(step[w]) # "mark"
    BY <1>t DEF AfterPublish
  <2> QED
    BY <1>9, <2>1, <1>t DEF SoftTimeLimit
<1>10. CASE HardTimeLimit(w) \/ ChildLost(w)
  BY <1>10, <1>t DEF HardTimeLimit, ChildLost
<1>11. CASE NodeCrash(w) \/ ConnectionLoss(w)
  BY <1>11, <1>t DEF NodeCrash, ConnectionLoss
<1> HIDE DEF StoredFrame
<1> QED
  BY <1>1, <1>2, <1>3, <1>4, <1>5, <1>6, <1>7, <1>8, <1>9, <1>10, <1>11
  DEF Execute, Environment

LEMMA StoredWorkerStep ==
    ASSUME Typed, LockInv, MutualExclusion, StoredInv, NEW w \in Workers,
           WorkerFrame, StoredFrame(w), results' \subseteq Ids
    PROVE  StoredInv'
<1>t. /\ \A v \in Workers : pc[v] # "idle" => job[v].id \in Ids
      /\ results \subseteq Ids /\ submitted \in [Ids -> 0 .. LockTTL]
  BY MessageType DEF Typed, TypeOK, ControlInv
<1>1. \A id \in Ids : Active(id)' => Active(id)
  <2> SUFFICES ASSUME NEW id \in Ids, Active(id)'
               PROVE  Active(id)
    OBVIOUS
  <2>1. CASE \E v \in Workers : pc'[v] # "idle" /\ job'[v].id = id
    BY <2>1 DEF WorkerFrame, Active
  <2>2. CASE \E m \in Message : queue'[m] > 0 /\ m.id = id
    BY <2>2 DEF WorkerFrame, Active
  <2>3. CASE \E r \in Requests :
                apc'[r] \in {"flush", "delay", "commit"} /\ aid'[r] = id
    BY <2>3 DEF WorkerFrame, Active
  <2> QED
    BY <2>1, <2>2, <2>3 DEF Active
<1>2. pc[w] = "save" => submitted[job[w].id] > 0
  BY KeyIsAlive DEF PipelinePC
<1>3. StoredIsSettled'
  <2> SUFFICES ASSUME NEW id \in results'
               PROVE  status'[id] \in {"complete", "failed"}
    BY DEF StoredIsSettled, Settled
  <2>1. CASE id \in results
    <3>1. status[id] \in {"complete", "failed"} /\ ~(pc[w] = "mark" /\ job[w].id = id)
      BY <2>1 DEF StoredInv, StoredIsSettled, Settled
    <3> QED
      BY <2>1, <3>1, <1>t DEF StoredFrame
  <2>2. CASE id \notin results
    BY <2>2 DEF StoredFrame
  <2> QED
    BY <2>1, <2>2
<1>4. \A id \in results' : Active(id)' => submitted'[id] > 0
  <2> SUFFICES ASSUME NEW id \in results', Active(id)'
               PROVE  submitted[id] > 0
    BY DEF StoredFrame
  <2>1. CASE id \in results
    BY <2>1, <1>1 DEF StoredInv
  <2>2. CASE id \notin results
    BY <2>2, <1>2 DEF StoredFrame
  <2> QED
    BY <2>1, <2>2
<1>5. ASSUME NEW v \in Workers, pc'[v] = "mark"
      PROVE  job'[v].id \notin results'
  <2>1. job'[v] = job[v] /\ pc[v] # "idle" /\ job[v].id \in Ids
    BY <1>5, <1>t DEF StoredFrame
  <2>2. job[v].id \notin results
    <3>1. CASE pc[v] = "mark"
      BY <3>1 DEF StoredInv
    <3>2. CASE submitted[job[v].id] = 0
      <4>1. Active(job[v].id)
        BY <2>1 DEF Active
      <4> QED
        BY <3>2, <4>1 DEF StoredInv
    <3> QED
      BY <1>5, <3>1, <3>2 DEF StoredFrame
  <2>3. ~(pc[w] = "save" /\ job[w].id = job[v].id)
    <3> SUFFICES ASSUME pc[w] = "save", job[w].id = job[v].id
                 PROVE  FALSE
      OBVIOUS
    <3>1. v # w /\ pc[v] = "mark"
      BY <1>2, <1>5, <1>t, <2>1 DEF StoredFrame
    <3> QED
      BY <3>1, <2>1 DEF MutualExclusion, Running, PipelinePC
  <2> QED
    BY <2>1, <2>2, <2>3 DEF StoredFrame
<1> QED
  BY <1>3, <1>4, <1>5 DEF StoredInv

LEMMA StoredStep ==
    ASSUME Typed, LockInv, MutualExclusion, InTime, StoredInv, [Next]_vars
    PROVE  StoredInv'
<1>t. results \subseteq Ids
  BY DEF Typed, TypeOK
<1>1. ASSUME NEW w \in Workers, Execute(w) \/ Environment(w)
      PROVE  StoredInv'
  <2>1. results' \subseteq Ids
    BY TypedStep DEF Typed, TypeOK
  <2> QED
    BY <1>1, <2>1, WorkerStep, StoredFrameStep, StoredWorkerStep
<1>2. CASE Quiet
  BY <1>2, <1>t DEF Quiet, StoredInv, StoredIsSettled, Settled
<1>3. CASE Tick
  <2>1. /\ \A w \in Workers : pc[w] = "idle"
        /\ \A r \in Requests : apc[r] \notin {"flush", "delay", "commit"}
        /\ \A m \in Message : ~(queue[m] > 0)
    BY <1>3 DEF Tick, InFlight, InTime
  <2>2. UNCHANGED <<pc, apc, queue, status, results>>
    BY <1>3 DEF Tick, apiVars, dbVars
  <2>3. \A id \in Ids : ~Active(id)'
    BY <2>1, <2>2 DEF Active
  <2> QED
    BY <2>1, <2>2, <2>3, <1>t DEF StoredInv, StoredIsSettled, Settled
<1> QED
  BY <1>1, <1>2, <1>3, RequestsAreQuiet DEF Next

\* A job whose result is stored never goes back to waiting or in progress, although
\* Redis may answer the SET NX of run_analysis with errors
\* (analysis_worker.py:145) and any other fault may strike: what remains of
\* SettledIsFinal then is that the row may be marked failed. Time running out
\* under a job or a message is excluded: with it the key goes and the job is run
\* once more.
THEOREM StoredStaysSettled == ASSUME InTime PROVE Spec => []StoredIsSettled
<1> DEFINE Inv == Typed /\ LockInv /\ MutualExclusion /\ StoredInv
<1>1. Init => Inv
  <2>1. Init => StoredInv
    BY DEF Init, StoredInv, StoredIsSettled
  <2> QED
    BY <2>1, InitTyped DEF Init, LockInv, MutualExclusion, Running, PipelinePC
<1>2. Inv /\ [Next]_vars => Inv'
  BY TypedStep, ExclusionStep, StoredStep
<1>3. Inv => StoredIsSettled
  BY DEF StoredInv
<1> QED
  <2> HIDE DEF Inv
  <2> QED
    BY <1>1, <1>2, <1>3, PTL DEF Spec
=============================================================================
