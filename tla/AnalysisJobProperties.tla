----------------------- MODULE AnalysisJobProperties -----------------------
(***************************************************************************)
(* Correctness properties of the job life cycle modelled in AnalysisJob.   *)
(***************************************************************************)
EXTENDS AnalysisJob

(* Safety *)

\* At most one process at a time works on a job: the SET NX of
\* analysis_worker.py:145-148 keeps out duplicated submissions, redelivered
\* messages and retries while an execution is alive.
MutualExclusion ==
    \A w1, w2 \in Workers, id \in Ids :
        Running(w1, id) /\ Running(w2, id) => w1 = w2

\* A client that reads 100 % from Redis finds the result columns filled in the
\* database: no crash, retry or duplicate publishes completion too early.
DoneSignalImpliesResult ==
    \A id \in Ids : progress[id] = 100 => id \in results

\* The replay is deleted from S3 only after the result is committed: a job
\* interrupted anywhere still has either its input or its output.
SourceKeptUntilResult ==
    [][\A id \in Ids : id \in s3 /\ id \notin s3' => id \in results]_vars

\* A row that left "pending" carries the metadata of its start request, unless
\* a request for it was answered 500. The task is queued before the commit, but
\* the worker's UPDATE waits for the row lock of the flushed one.
ProcessingHasMetadata ==
    \A id \in Ids :
        status[id] \in {"processing", "complete", "failed"} =>
            \/ id \in metadata
            \/ \E r \in Requests : aid[r] = id /\ apc[r] = "failed"

\* "complete" and "failed" are final states of a row (the transition diagram in
\* models/analysis.py:13-15). It holds while Redis answers, no time limit is
\* reached and no message outlives the duplicate key.
SettledIsFinal ==
    [][\A id \in Ids :
          status[id] \in {"complete", "failed"} => status'[id] = status[id]]_vars

(* The inductive invariant behind the safety properties *)

\* Control points and the data they rely on: a busy process has a message, and
\* the index of the next publish fits the statement it is at.
ControlInv ==
    /\ \A w \in Workers :
          /\ pc[w] # "idle" => job[w] \in Message
          /\ pc[w] = "idle" => ~held[w]
          /\ pc[w] \in {"idle", "lock", "mark"} => step[w] = 1
          /\ pc[w] = "publish" => step[w] \in 1 .. 9
          /\ pc[w] = "download" => step[w] = 2
          /\ pc[w] \in {"save", "delete"} => step[w] = 9
    /\ \A r \in Requests :
          apc[r] \in {"flush", "delay", "commit"} => aid[r] \in Ids

\* While a process works on a job the key of the job lives: what the key has
\* lost of its TTL, the execution has spent of its time limit.
LockInv ==
    \A w \in Workers :
        pc[w] \in PipelinePC => submitted[job[w].id] + clock[w] >= LockTTL

\* A replay, or a URL to upload it, belongs to a committed row.
SourceInv ==
    s3 \cup urls \subseteq {id \in Uploads : Visible(id)}

PastDownload(w) ==
    pc[w] \in {"save", "delete", "notify"} \/ (pc[w] = "publish" /\ step[w] > 1)

PastSave(w) ==
    pc[w] \in {"delete", "notify"} \/ (pc[w] = "publish" /\ step[w] = 9)

\* An execution past its download has a row to write to, and one past its save
\* has written the result.
ResultInv ==
    /\ \A w \in Workers : PastDownload(w) => Visible(job[w].id)
    /\ \A w \in Workers : PastSave(w) => job[w].id \in results
    /\ DoneSignalImpliesResult

\* The metadata of a job is stored, or its commit can still be waited for, or a
\* request for it failed.
MetadataComes(id) ==
    \/ id \in metadata
    \/ \E r \in Requests :
          /\ aid[r] = id
          /\ \/ apc[r] = "failed"
             \/ apc[r] = "commit" /\ (arow[r] \/ ~Visible(id))

\* Messages and executions exist only for jobs whose metadata comes; a request
\* that does not lock its row needs no lock.
MetadataInv ==
    /\ ProcessingHasMetadata
    /\ \A m \in Message : queue[m] > 0 => MetadataComes(m.id)
    /\ \A w \in Workers : pc[w] # "idle" => MetadataComes(job[w].id)
    /\ \A r \in Requests :
          apc[r] \in {"flush", "delay", "commit"} /\ ~arow[r] =>
              \/ aid[r] \in metadata
              \/ aid[r] \in Fallbacks /\ ~Visible(aid[r])

Settled(id) == status[id] \in {"complete", "failed"}

\* Somebody still executes, delivers or submits the job.
Active(id) ==
    \/ \E w \in Workers : pc[w] # "idle" /\ job[w].id = id
    \/ \E m \in Message : queue[m] > 0 /\ m.id = id
    \/ \E r \in Requests :
          apc[r] \in {"flush", "delay", "commit"} /\ aid[r] = id

\* Redis answers, time passes only while no job is in flight, the soft limit is
\* not zero, and one retry at least is left to a first execution.
Undisturbed ==
    /\ FaultKinds \cap {"lock", "slow", "backlog"} = {}
    /\ SoftLimit > 0
    /\ MaxRetries > 0

\* A retry finds the key of the execution it repeats; who works on a job, or
\* leaves its try body, holds the key on the first attempt; the row is settled
\* by the save of that very execution.
AttemptInv(w) ==
    /\ clock[w] = 0
    /\ pc[w] # "fail"
    /\ pc[w] # "idle" /\ job[w].retries > 0 => submitted[job[w].id] > 0
    /\ pc[w] \in PipelinePC \cup {"except"} =>
          submitted[job[w].id] > 0 /\ job[w].retries = 0
    /\ pc[w] \in PipelinePC /\ Settled(job[w].id) => PastSave(w)

\* While anybody is about to touch a settled job, its key is there to stop them.
FinalInv ==
    /\ \A id \in Ids : Settled(id) /\ Active(id) => submitted[id] > 0
    /\ \A m \in Message : queue[m] > 0 /\ m.retries > 0 => submitted[m.id] > 0
    /\ \A w \in Workers : AttemptInv(w)

\* Time passes only while no job is in flight; errors of Redis are not excluded.
InTime == FaultKinds \cap {"slow", "backlog"} = {}

\* A job whose result is stored is never shown as waiting or in progress again:
\* its row stays complete, or is marked failed by an execution that got nowhere
\* near the key.
StoredIsSettled == \A id \in results : Settled(id)

\* While anybody is about to touch a job with a stored result, its key is there
\* to stop them, so nobody is about to mark it as processing.
StoredInv ==
    /\ StoredIsSettled
    /\ \A id \in results : Active(id) => submitted[id] > 0
    /\ \A w \in Workers : pc[w] = "mark" => job[w].id \notin results

(* Refinement *)

\* The job service implements the abstract contract: a process works on a job
\* while it is between acquiring the key and leaving the try body.
Runners == [id \in Ids |-> {w \in Workers : Running(w, id)}]

Contract == INSTANCE AnalysisContract WITH
    Jobs <- Ids,
    Processes <- Workers,
    row <- status,
    stored <- results,
    source <- s3,
    runners <- Runners

ImplementsContract == Contract!Spec

(* Liveness *)

Submitted(id) ==
    \E r \in Requests : aid[r] = id /\ apc[r] = "commit"

\* Every message leaves the broker: retries are bounded and every outcome of
\* run_analysis acks.
QueueDrains ==
    \A m \in Message : queue[m] > 0 ~> queue[m] = 0

\* A job submitted with its replay in S3, and not yet taken by a worker, is
\* completed, however often it is submitted or redelivered, and although lost
\* progress messages may send a finished task through a retry.
UploadCompletes ==
    \A id \in Uploads :
        Submitted(id) /\ id \in s3 /\ submitted[id] = 0
            /\ status[id] = "pending"
        ~> status[id] = "complete"

(* What the documentation promises and the code does not do *)

\* An execution that has its replay at hand ends with the job complete or
\* failed: what interrupts it is retried after 30 s (celery_config.py:34-36) or
\* processed again after a worker restart (celery_config.py:30-32).
InterruptedJobSettles ==
    \A id \in Uploads :
        (\E w \in Workers : Running(w, id) /\ pc[w] = "download" /\ id \in s3)
        ~> status[id] \in {"complete", "failed"}

\* A fallback job is analysed from the match id (api/analysis.py:335-339).
FallbackCompletes ==
    \A id \in Fallbacks : Submitted(id) ~> status[id] = "complete"

\* The metadata is stored before the task is queued (the order stated in
\* api/analysis.py:201): an execution finds it.
RunnerFindsMetadata ==
    \A w \in Workers, id \in Ids :
        Running(w, id) /\ pc[w] # "mark" => id \in metadata
=============================================================================
