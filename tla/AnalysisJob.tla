---------------------------- MODULE AnalysisJob ----------------------------
(***************************************************************************)
(* One analysis job from the HTTP request that queues it to the Celery    *)
(* worker that runs it: the request handlers of api/analysis.py with       *)
(* their database transactions, the broker, the Celery task run_analysis  *)
(* of workers/analysis_worker.py, the Redis duplicate-submission key and   *)
(* progress key, the replay file in S3, and the row of analysis_records.   *)
(*                                                                         *)
(* Every statement of run_analysis that touches shared state is one        *)
(* action, so two executions of the same job interleave at exactly the     *)
(* points where the code can be preempted, killed or interrupted.          *)
(***************************************************************************)
EXTENDS Naturals, Sequences, FiniteSets

CONSTANTS
    Uploads,      \* analysis ids created by POST /upload-url
    Fallbacks,    \* analysis ids created by POST /fallback
    Workers,      \* Celery pool processes
    Requests,     \* calls of POST /start and POST /fallback
    MaxRetries,   \* max_retries of the task (2 in the code)
    SoftLimit,    \* soft_time_limit, in clock ticks (300 s in the code)
    HardLimit,    \* time_limit (360 s)
    LockTTL,      \* TTL of the duplicate-submission key (3600 s)
    ProgressTTL,  \* TTL of the progress key (3600 s)
    FaultKinds,   \* the kinds of fault an instance explores
    MaxFaults,    \* bound on the number of faults in one behaviour
    None          \* "no job", "no analysis id"

Ids == Uploads \cup Fallbacks
Message == [id : Ids, retries : 0 .. MaxRetries]
AllFaultKinds == {"lock", "publish", "db", "s3", "broker", "lost", "crash",
                  "connection", "slow", "backlog"}

ASSUME ConstantsAssumption ==
    /\ Uploads \cap Fallbacks = {}
    /\ None \notin Ids /\ None \notin Message
    /\ MaxRetries \in Nat
    /\ SoftLimit \in Nat /\ HardLimit \in Nat
    /\ LockTTL \in Nat /\ ProgressTTL \in Nat
    /\ FaultKinds \subseteq AllFaultKinds
    /\ MaxFaults \in Nat

(***************************************************************************)
(* The duplicate-submission key outlives any execution: 3600 s > 360 s.    *)
(***************************************************************************)
ASSUME LockOutlivesExecution == HardLimit < LockTTL

VARIABLES
    \* the committed row of analysis_records
    status,       \* [Ids -> Status]; "absent": no committed row
    results,      \* ids whose layer and script columns are filled
    metadata,     \* ids whose metadata_json column is filled
    \* S3
    s3,           \* ids whose .rofl object exists
    urls,         \* ids whose presigned PUT URL is still valid
    \* Redis
    submitted,    \* remaining TTL of submitted:{id}, 0 when the key is absent
    progress,     \* value of analysis_progress_pct:{id}, 0 when absent
    progressTTL,  \* its remaining TTL
    \* the broker
    queue,        \* copies of each message that are waiting
    \* request handlers
    apc, aid,     \* next statement (failed: answered 500), analysis id
    arow,         \* TRUE if the transaction's flush writes (and locks) the row
    \* worker processes
    pc,           \* next statement of run_analysis
    job,          \* the message being executed
    step,         \* index into ProgressSteps of the next publish
    clock,        \* ticks since the execution started
    warned,       \* TRUE once the soft time limit signal was delivered
    held,         \* TRUE while the broker keeps the message unacked for it
    faults        \* number of faults so far

dbVars == <<status, results, metadata>>
s3Vars == <<s3, urls>>
redisVars == <<submitted, progress, progressTTL>>
apiVars == <<apc, aid, arow>>
runVars == <<job, step, clock, warned, held>>
taskVars == <<pc, runVars>>
vars == <<dbVars, s3Vars, redisVars, queue, apiVars, taskVars, faults>>

Status == {"absent", "pending", "processing", "complete", "failed"}
RequestPC == {"new", "flush", "delay", "commit", "done", "failed"}
PipelinePC == {"mark", "publish", "download", "save", "delete", "notify"}
HandlerPC == {"except", "fail"}
WorkerPC == {"idle", "lock", "ack"} \cup PipelinePC \cup HandlerPC

\* Variant of ProgressSteps: the "script" step already reports 100 %.
ProgressSteps_EarlyEnd == <<0, 10, 25, 45, 60, 70, 85, 100, 100>>

\* PROGRESS_STEPS in the order run_analysis publishes them, the initial 0 first.
ProgressSteps == <<0, 10, 25, 45, 60, 70, 85, 95, 100>>

TypeOK ==
    /\ status \in [Ids -> Status]
    /\ results \subseteq Ids
    /\ metadata \subseteq Ids
    /\ s3 \subseteq Ids
    /\ urls \subseteq Ids
    /\ submitted \in [Ids -> 0 .. LockTTL]
    /\ progress \in [Ids -> 0 .. 100]
    /\ progressTTL \in [Ids -> 0 .. ProgressTTL]
    /\ queue \in [Message -> Nat]
    /\ apc \in [Requests -> RequestPC]
    /\ aid \in [Requests -> Ids \cup {None}]
    /\ arow \in [Requests -> BOOLEAN]
    /\ pc \in [Workers -> WorkerPC]
    /\ job \in [Workers -> Message \cup {None}]
    /\ step \in [Workers -> 1 .. Len(ProgressSteps) + 1]
    /\ clock \in [Workers -> 0 .. HardLimit]
    /\ warned \in [Workers -> BOOLEAN]
    /\ held \in [Workers -> BOOLEAN]
    /\ faults \in 0 .. MaxFaults

Init ==
    /\ status = [id \in Ids |-> "absent"]
    /\ results = {} /\ metadata = {} /\ s3 = {} /\ urls = {}
    /\ submitted = [id \in Ids |-> 0]
    /\ progress = [id \in Ids |-> 0]
    /\ progressTTL = [id \in Ids |-> 0]
    /\ queue = [m \in Message |-> 0]
    /\ apc = [r \in Requests |-> "new"]
    /\ aid = [r \in Requests |-> None]
    /\ arow = [r \in Requests |-> FALSE]
    /\ pc = [w \in Workers |-> "idle"]
    /\ job = [w \in Workers |-> None]
    /\ step = [w \in Workers |-> 1]
    /\ clock = [w \in Workers |-> 0]
    /\ warned = [w \in Workers |-> FALSE]
    /\ held = [w \in Workers |-> FALSE]
    /\ faults = 0

-----------------------------------------------------------------------------
(* Helpers *)

Fault(kind) ==
    /\ kind \in FaultKinds
    /\ faults < MaxFaults
    /\ faults' = faults + 1

Visible(id) == status[id] # "absent"

\* Variant of RowLocked: the handler does not flush its UPDATE before it queues
\* the task.
RowLocked_NoFlush(id) == FALSE

\* A flushed but uncommitted UPDATE of the row: other writers wait for it.
RowLocked(id) ==
    \E r \in Requests : apc[r] \in {"delay", "commit"} /\ arow[r] /\ aid[r] = id

Send(m) == queue' = [queue EXCEPT ![m] = @ + 1]

First(id) == [id |-> id, retries |-> 0]

Goto(w, label) == pc' = [pc EXCEPT ![w] = label]

Respond(r, label) == apc' = [apc EXCEPT ![r] = label]

Executing(w) == pc[w] \notin {"idle", "ack"}

Running(w, id) == pc[w] \in PipelinePC /\ job[w].id = id

\* _update_status: a missing row is logged and ignored; the commit blocks on
\* a row locked by another transaction.
UpdateStatus(id, s) ==
    /\ ~RowLocked(id)
    /\ status' = IF Visible(id) THEN [status EXCEPT ![id] = s] ELSE status

\* Variants of SaveAnalysisResult: the result columns, or the status, are
\* forgotten.
SaveAnalysisResult_NoLayers(id) ==
    UpdateStatus(id, "complete") /\ UNCHANGED results
SaveAnalysisResult_KeepStatus(id) ==
    UpdateStatus(id, status[id]) /\ results' = results \cup {id}

\* _save_analysis_result: status and all result columns in one transaction.
SaveAnalysisResult(id) ==
    /\ UpdateStatus(id, "complete")
    /\ results' = IF Visible(id) THEN results \cup {id} ELSE results

\* The worker process is free again.
Release(w) ==
    /\ Goto(w, "idle")
    /\ job' = [job EXCEPT ![w] = None]
    /\ step' = [step EXCEPT ![w] = 1]
    /\ clock' = [clock EXCEPT ![w] = 0]
    /\ warned' = [warned EXCEPT ![w] = FALSE]
    /\ held' = [held EXCEPT ![w] = FALSE]

\* Variant of AfterPublish: the replay is deleted before the result is saved.
AfterPublish_DeleteFirst(i) ==
    CASE i = 1 -> "download" [] i = 8 -> "delete" [] i = 9 -> "save"
      [] i \in 2 .. 7 -> "publish"

\* The statement that follows the i-th publish.
AfterPublish(i) ==
    CASE i = 1 -> "download"
      [] i = 8 -> "save"
      [] i = 9 -> "notify"
      [] i \in 2 .. 7 -> "publish"

-----------------------------------------------------------------------------
(* Request handlers (api/analysis.py) *)

\* get_upload_url: the row is inserted and committed before the client learns
\* the id, and nothing outside the database changes: one step.
GetUploadUrl(id) ==
    /\ status[id] = "absent"
    /\ status' = [status EXCEPT ![id] = "pending"]
    /\ urls' = urls \cup {id}
    /\ UNCHANGED <<results, metadata, s3, redisVars, queue, apiVars, taskVars,
                   faults>>

\* The client PUTs the replay, as often as it likes while the URL is valid.
PutObject(id) ==
    /\ id \in urls
    /\ s3' = s3 \cup {id}
    /\ UNCHANGED <<dbVars, urls, redisVars, queue, apiVars, taskVars, faults>>

UrlExpires(id) ==
    /\ id \in urls
    /\ urls' = urls \ {id}
    /\ UNCHANGED <<dbVars, s3, redisVars, queue, apiVars, taskVars, faults>>

\* start_analysis up to the status check, for any pending row (nothing stops
\* it from naming a fallback row); a request answered 404 or 409 changes
\* nothing. If the row already carries metadata the new value may be
\* equal to it, and then the flush emits no UPDATE.
StartAnalysis(r, id) ==
    /\ apc[r] = "new"
    /\ status[id] = "pending"
    /\ \/ arow' = [arow EXCEPT ![r] = TRUE]
       \/ id \in metadata /\ arow' = [arow EXCEPT ![r] = FALSE]
    /\ aid' = [aid EXCEPT ![r] = id]
    /\ Respond(r, "flush")
    /\ UNCHANGED <<dbVars, s3Vars, redisVars, queue, taskVars, faults>>

\* The UPDATE of metadata_json waits for another transaction's row lock; the
\* status read before the wait is not read again.
FlushMetadata(r) ==
    /\ apc[r] = "flush"
    /\ arow[r] => ~RowLocked(aid[r])
    /\ Respond(r, "delay")
    /\ UNCHANGED <<dbVars, s3Vars, redisVars, queue, aid, arow, taskVars,
                   faults>>

\* start_fallback_analysis: INSERT and flush; no one else sees the new row.
StartFallback(r, id) ==
    /\ apc[r] = "new"
    /\ status[id] = "absent"
    /\ \A q \in Requests : aid[q] # id
    /\ Respond(r, "delay")
    /\ aid' = [aid EXCEPT ![r] = id]
    /\ UNCHANGED <<dbVars, s3Vars, redisVars, queue, arow, taskVars, faults>>

\* run_analysis.delay(...), still inside the transaction. If it raises, and the
\* message may have reached the broker even then, the transaction is rolled back.
Delay(r) ==
    /\ apc[r] = "delay"
    /\ \/ Send(First(aid[r])) /\ Respond(r, "commit") /\ UNCHANGED faults
       \/ Send(First(aid[r])) /\ Respond(r, "failed") /\ Fault("broker")
       \/ UNCHANGED queue /\ Respond(r, "failed") /\ Fault("broker")
    /\ UNCHANGED <<dbVars, s3Vars, redisVars, aid, arow, taskVars>>

\* Variant of WriteRow: the response's status "queued" is stored in the row.
WriteRow_Queued(r) ==
    /\ metadata' = metadata \cup {aid[r]}
    /\ status' = [status EXCEPT ![aid[r]] = "queued"]

\* The UPDATE of start_analysis, or the INSERT of start_fallback_analysis.
WriteRow(r) ==
    /\ metadata' = metadata \cup {aid[r]}
    /\ status' = IF Visible(aid[r]) THEN status
                 ELSE [status EXCEPT ![aid[r]] = "pending"]

\* get_db_session commits after the handler returned. If the commit fails, or
\* the API process dies first, the queued message stays; after an error the
\* commit may have been executed.
Commit(r) ==
    /\ apc[r] = "commit"
    /\ \/ WriteRow(r) /\ Respond(r, "done") /\ UNCHANGED faults
       \/ WriteRow(r) /\ Respond(r, "failed") /\ Fault("db")
       \/ UNCHANGED <<status, metadata>> /\ Respond(r, "failed") /\ Fault("db")
    /\ UNCHANGED <<results, s3Vars, redisVars, queue, aid, arow, taskVars>>

-----------------------------------------------------------------------------
(* run_analysis (workers/analysis_worker.py) *)

Proceed(w, label) == Goto(w, label) /\ UNCHANGED faults

\* The statement raises inside the task's try.
Raise(w, kind) == Goto(w, "except") /\ Fault(kind)

Deliver(w, m) ==
    /\ pc[w] = "idle"
    /\ queue[m] > 0
    /\ queue' = [queue EXCEPT ![m] = @ - 1]
    /\ Proceed(w, "lock")
    /\ job' = [job EXCEPT ![w] = m]
    /\ held' = [held EXCEPT ![w] = TRUE]
    /\ UNCHANGED <<dbVars, s3Vars, redisVars, apiVars, step, clock, warned>>

\* Variants of SetNX: the key lives only as long as the soft limit; the key is
\* not stored.
SetNX_ShortTTL(id) == submitted' = [submitted EXCEPT ![id] = SoftLimit]
SetNX_NotStored(id) == UNCHANGED submitted

\* SET submitted:{id} 1 NX EX 3600
SetNX(id) ==
    submitted' = IF submitted[id] = 0 THEN [submitted EXCEPT ![id] = LockTTL]
                 ELSE submitted

\* If the key exists the task returns already_submitted, which acks it. If
\* _redis.set raises, the server may have executed it.
AcquireLock(w) ==
    LET id == job[w].id IN
    /\ pc[w] = "lock"
    /\ \/ submitted[id] = 0 /\ SetNX(id) /\ Proceed(w, "mark")
       \/ submitted[id] > 0 /\ UNCHANGED submitted /\ Proceed(w, "ack")
       \/ SetNX(id) /\ Raise(w, "lock")
       \/ UNCHANGED submitted /\ Raise(w, "lock")
    /\ UNCHANGED <<dbVars, s3Vars, progress, progressTTL, queue, apiVars, runVars>>

\* After a database error the commit may or may not have been executed.
MarkProcessing(w) ==
    /\ pc[w] = "mark"
    /\ \/ UpdateStatus(job[w].id, "processing") /\ Proceed(w, "publish")
       \/ UpdateStatus(job[w].id, "processing") /\ Raise(w, "db")
       \/ UNCHANGED status /\ Raise(w, "db")
    /\ UNCHANGED <<results, metadata, s3Vars, redisVars, queue, apiVars, runVars>>

\* _publish_progress, SETEX part (the Pub/Sub message leaves no state); it
\* swallows every error.
PublishProgress(w) ==
    LET id == job[w].id IN
    /\ pc[w] = "publish"
    /\ \/ /\ progress' = [progress EXCEPT ![id] = ProgressSteps[step[w]]]
          /\ progressTTL' = [progressTTL EXCEPT ![id] = ProgressTTL]
          /\ UNCHANGED faults
       \/ UNCHANGED <<progress, progressTTL>> /\ Fault("publish")
    /\ Goto(w, AfterPublish(step[w]))
    /\ step' = [step EXCEPT ![w] = @ + 1]
    /\ UNCHANGED <<dbVars, s3Vars, submitted, queue, apiVars, job, clock, warned,
                   held>>

\* It raises for a missing object, for the empty s3_key of a fallback job, and
\* on an S3 error.
Download(w) ==
    /\ pc[w] = "download"
    /\ \/ job[w].id \in s3 /\ Proceed(w, "publish")
       \/ job[w].id \notin s3 /\ Proceed(w, "except")
       \/ Raise(w, "s3")
    /\ UNCHANGED <<dbVars, s3Vars, redisVars, queue, apiVars, runVars>>

SaveResult(w) ==
    /\ pc[w] = "save"
    /\ \/ SaveAnalysisResult(job[w].id) /\ Proceed(w, "delete")
       \/ SaveAnalysisResult(job[w].id) /\ Raise(w, "db")
       \/ UNCHANGED <<status, results>> /\ Raise(w, "db")
    /\ UNCHANGED <<metadata, s3Vars, redisVars, queue, apiVars, runVars>>

\* A failed delete is only logged.
DeleteSource(w) ==
    /\ pc[w] = "delete"
    /\ \/ s3' = s3 \ {job[w].id} /\ UNCHANGED faults
       \/ UNCHANGED s3 /\ Fault("s3")
    /\ Goto(w, "publish")
    /\ UNCHANGED <<dbVars, urls, redisVars, queue, apiVars, runVars>>

\* The second publish of the completion message, outside any inner try.
Notify(w) ==
    /\ pc[w] = "notify"
    /\ Proceed(w, "ack") \/ Raise(w, "publish")
    /\ UNCHANGED <<dbVars, s3Vars, redisVars, queue, apiVars, runVars>>

\* except Exception: a retry is a new message, Celery acks the old one after;
\* if publishing it fails, Celery rejects the task without requeueing it.
HandleException(w) ==
    /\ pc[w] = "except"
    /\ \/ /\ job[w].retries < MaxRetries
          /\ \/ Send([id |-> job[w].id, retries |-> job[w].retries + 1]) /\ UNCHANGED faults
             \/ UNCHANGED queue /\ Fault("broker")
          /\ Goto(w, "ack")
       \/ job[w].retries = MaxRetries /\ Proceed(w, "fail") /\ UNCHANGED queue
    /\ UNCHANGED <<dbVars, s3Vars, redisVars, apiVars, runVars>>

\* _update_status(..., "failed", ...) of either except clause; an error in it
\* escapes the task.
MarkFailed(w) ==
    /\ pc[w] = "fail"
    /\ \/ UpdateStatus(job[w].id, "failed") /\ UNCHANGED faults
       \/ UpdateStatus(job[w].id, "failed") /\ Fault("db")
       \/ UNCHANGED status /\ Fault("db")
    /\ Goto(w, "ack")
    /\ UNCHANGED <<results, metadata, s3Vars, redisVars, queue, apiVars, runVars>>

\* Variant of Ack: the ended task is returned to the queue.
Ack_Requeue(w) ==
    /\ pc[w] = "ack"
    /\ Send(job[w])
    /\ Release(w)
    /\ UNCHANGED <<dbVars, s3Vars, redisVars, apiVars, faults>>

\* acks_late: the message leaves the broker when the task has ended, whether
\* it returned or raised (task_acks_on_failure_or_timeout keeps its default).
Ack(w) ==
    /\ pc[w] = "ack"
    /\ Release(w)
    /\ UNCHANGED <<dbVars, s3Vars, redisVars, queue, apiVars, faults>>

-----------------------------------------------------------------------------
(* Time limits, crashes and the passage of time *)

\* SoftTimeLimitExceeded surfaces wherever the process is. Inside the task
\* body it reaches its own except clause; inside a try that catches Exception
\* (publish, delete) it may be swallowed; inside an except clause it escapes.
SoftTimeLimit(w) ==
    /\ Executing(w)
    /\ clock[w] >= SoftLimit
    /\ ~warned[w]
    /\ warned' = [warned EXCEPT ![w] = TRUE]
    /\ \/ /\ pc[w] \in {"lock"} \cup PipelinePC
          /\ Goto(w, "fail")
          /\ UNCHANGED step
       \/ /\ pc[w] = "publish"
          /\ Goto(w, AfterPublish(step[w]))
          /\ step' = [step EXCEPT ![w] = @ + 1]
       \/ /\ pc[w] = "delete"
          /\ Goto(w, "publish")
          /\ UNCHANGED step
       \/ /\ pc[w] \in HandlerPC
          /\ Goto(w, "ack")
          /\ UNCHANGED step
    /\ UNCHANGED <<dbVars, s3Vars, redisVars, queue, apiVars, job, clock, held,
                   faults>>

\* The pool kills the process and acks the message.
HardTimeLimit(w) ==
    /\ Executing(w)
    /\ clock[w] = HardLimit
    /\ Release(w)
    /\ UNCHANGED <<dbVars, s3Vars, redisVars, queue, apiVars, faults>>

\* The pool process dies (WorkerLostError); reject_on_worker_lost is not set,
\* so the message is acked as a failure.
ChildLost(w) ==
    /\ Executing(w)
    /\ Fault("lost")
    /\ Release(w)
    /\ UNCHANGED <<dbVars, s3Vars, redisVars, queue, apiVars>>

\* The whole worker dies or is restarted: its unacked message goes back.
NodeCrash(w) ==
    /\ pc[w] # "idle"
    /\ Fault("crash")
    /\ IF held[w] THEN Send(job[w]) ELSE UNCHANGED queue
    /\ Release(w)
    /\ UNCHANGED <<dbVars, s3Vars, redisVars, apiVars>>

\* The worker loses its broker connection: the unacked message goes back to
\* the queue while the execution continues.
ConnectionLoss(w) ==
    /\ held[w]
    /\ Fault("connection")
    /\ Send(job[w])
    /\ held' = [held EXCEPT ![w] = FALSE]
    /\ UNCHANGED <<dbVars, s3Vars, redisVars, apiVars, pc, job, step, clock,
                   warned>>

Decrease(ttl) == [id \in Ids |-> IF ttl[id] = 0 THEN 0 ELSE ttl[id] - 1]

InFlight ==
    \/ \E w \in Workers : pc[w] # "idle"
    \/ \E r \in Requests : apc[r] \in {"flush", "delay", "commit"}

\* One clock tick. An execution never outlives HardLimit (HardTimeLimit must
\* come first). "slow" lets time pass while a request or a task is in flight,
\* "backlog" while a message waits in the broker.
Tick ==
    /\ \A w \in Workers : Executing(w) => clock[w] < HardLimit
    /\ InFlight => "slow" \in FaultKinds
    /\ (\E m \in Message : queue[m] > 0) => "backlog" \in FaultKinds
    /\ submitted' = Decrease(submitted)
    /\ progressTTL' = Decrease(progressTTL)
    /\ progress' = [id \in Ids |-> IF progressTTL[id] <= 1 THEN 0
                                   ELSE progress[id]]
    /\ clock' = [w \in Workers |-> IF Executing(w) THEN clock[w] + 1
                                   ELSE clock[w]]
    /\ UNCHANGED <<dbVars, s3Vars, queue, apiVars, pc, job, step, warned, held,
                   faults>>

-----------------------------------------------------------------------------
(* Specification *)

Handler(r) == FlushMetadata(r) \/ Delay(r) \/ Commit(r)

Request(r) ==
    \/ \E id \in Ids : StartAnalysis(r, id)
    \/ \E id \in Fallbacks : StartFallback(r, id)
    \/ Handler(r)

Client ==
    \E id \in Uploads : GetUploadUrl(id) \/ PutObject(id) \/ UrlExpires(id)

Execute(w) ==
    \/ \E m \in Message : Deliver(w, m)
    \/ AcquireLock(w) \/ MarkProcessing(w) \/ PublishProgress(w) \/ Download(w)
    \/ SaveResult(w) \/ DeleteSource(w) \/ Notify(w) \/ HandleException(w)
    \/ MarkFailed(w) \/ Ack(w)

Environment(w) ==
    \/ SoftTimeLimit(w) \/ HardTimeLimit(w) \/ ChildLost(w) \/ NodeCrash(w)
    \/ ConnectionLoss(w)

Next ==
    \/ Client
    \/ \E r \in Requests : Request(r)
    \/ \E w \in Workers : Execute(w) \/ Environment(w)
    \/ Tick

Spec == Init /\ [][Next]_vars

(***************************************************************************)
(* Fairness: the event loop resumes a handler whose await is ready, and a  *)
(* live pool process keeps executing and fetching. The client, faults and  *)
(* time are not fair.                                                      *)
(***************************************************************************)
Fairness ==
    /\ \A r \in Requests : WF_vars(Handler(r))
    /\ \A w \in Workers : WF_vars(Execute(w))

FairSpec == Spec /\ Fairness
=============================================================================
