-------------------------- MODULE CaptionIngestion --------------------------
(***************************************************************************)
(* Caption ingestion: POST /sources/process-approved (apps/api/afs/         *)
(* routes.py), the Celery task afs.ingestion.process_approved_source        *)
(* (apps/worker/worker/tasks.py) and the raw-evidence bucket                *)
(* (services/storage.py).                                                   *)
(*                                                                          *)
(* Several HTTP requests and several worker processes run at once over one  *)
(* PostgreSQL database (READ COMMITTED: every SELECT sees the latest        *)
(* commits), one Redis broker and one S3 bucket.  An action is the work     *)
(* between two points where another process can get in: a committed         *)
(* transaction, a SELECT whose result is used later, an upload, a message.  *)
(*                                                                          *)
(* Every source here is approved and on YouTube, and is named by its rank   *)
(* in the order the endpoint selects in (1 has the highest relevance).      *)
(***************************************************************************)
EXTENDS Integers, FiniteSets

CONSTANTS
    NumSources,      \* how many approved YouTube sources there are
    MaxJobs,         \* bound: rows of background_jobs of this job type
    Requests,        \* HTTP requests that can be in progress at once
    Workers,         \* Celery worker processes
    Limits,          \* the values of body.limit requests are sent with
    Captions,        \* texts the caption track of a video can have when fetched
    NoCaption,       \* none of them
    MaxDay,          \* bound: days that pass (UTC dates in object keys)
    BlockLimit,      \* recent IP blocks that start the cooldown: 3 in the code
    ZyteBatchMax,    \* sources whose Zyte estimate fits the batch budget
    MaxBatches,      \* bound: how often the endpoint is called
    MaxDuplicates,   \* bound: deliveries repeated while the first one goes on
    MaxDeaths,       \* bound: worker machines that die
    MaxLosses        \* bound: messages lost with an API or a pool process

ASSUME NumSourcesAssumption == NumSources \in Nat \ {0}
ASSUME MaxJobsAssumption == MaxJobs \in Nat \ {0}
ASSUME ProcessesAssumption == IsFiniteSet(Workers) /\ IsFiniteSet(Requests)
ASSUME LimitsAssumption == Limits \subseteq Nat \ {0}
ASSUME CaptionsAssumption == NoCaption \notin Captions
ASSUME BlockLimitAssumption == BlockLimit \in Nat \ {0}
ASSUME BoundsAssumption ==
    /\ MaxDay \in Nat \ {0}
    /\ ZyteBatchMax \in Nat
    /\ MaxBatches \in Nat
    /\ MaxDuplicates \in Nat
    /\ MaxDeaths \in Nat
    /\ MaxLosses \in Nat

Sources == 1 .. NumSources
JobIds == 1 .. MaxJobs        \* in the order of commit
Days == 1 .. MaxDay

\* BackgroundJob.status.  The failed rows whose error is the IP-block message
\* and whose finished_at is in the last 30 minutes are "blocked"; every other
\* failed row is "failed".  "absent": the row does not exist.
Status == {"absent", "queued", "running", "succeeded", "failed", "blocked", "cancelled"}
MutActive == {"queued"}  \* mutant: running jobs are overlooked
Active == {"queued", "running"}

\* A row of background_jobs: its payload keeps the source and use_zyte_proxy.
\* created_at is when the transaction that inserted it began.
Row == [source : Sources, status : Status, zyte : BOOLEAN, created : 0 .. MaxBatches]

\* put_immutable's object key: "raw/" + UTC date + sha256 of the payload, which
\* holds the video id and the captions.
Key == [day : Days, source : Sources, caption : Captions]

\* What one successful task inserts in one transaction: the raw_artifacts and
\* source_versions rows, the transcript with its segments, and the chunks.
Ingestion == [source : Sources, version : Nat \ {0}, key : Key]

NoJob == 0

VARIABLES
    job,          \* [JobIds -> Row], background_jobs
    queue,        \* [JobIds -> Nat], messages of the "ingestion" queue per job
    request,      \* [Requests -> ...], the requests in progress
    worker,       \* [Workers -> ...], the tasks in progress
    store,        \* the object keys of the bucket
    evidence,     \* the ingestions committed so far
    day,          \* today
    batches, duplicates, deaths, losses,  \* how much of each bound is used
    overlaps   \* requests that came in while another one was in progress

database == <<job, evidence>>
bounds == <<batches, duplicates, deaths, losses, overlaps>>
vars == <<job, evidence, queue, request, worker, store, day, batches, duplicates, deaths, losses,
          overlaps>>

-----------------------------------------------------------------------------
(* What the SELECTs of the endpoint and of the task return.                 *)

\* The count of failed rows with the IP-block message of the last 30 minutes.
RecentBlocks == {j \in JobIds : job[j].status = "blocked"}
MutCooldownActive == Cardinality(RecentBlocks) > BlockLimit  \* mutant: off by one
CooldownActive == Cardinality(RecentBlocks) >= BlockLimit

\* "SELECT chunks.id WHERE chunks.source_id = s" finds something.
HasChunks(s) == \E e \in evidence : e.source = s

JobsOf(s) == {j \in JobIds : job[j].status # "absent" /\ job[j].source = s}

\* latest_job_by_source: the youngest job of a source, as loaded now.
LatestJob(s) ==
    IF JobsOf(s) = {} THEN NoJob
    ELSE CHOOSE j \in JobsOf(s) : \A i \in JobsOf(s) : job[i].created <= job[j].created

LoadedJob == [id : JobIds \cup {NoJob}, status : Status, zyte : BOOLEAN]
Load(s) ==
    LET j == LatestJob(s) IN
    IF j = NoJob THEN [id |-> NoJob, status |-> "absent", zyte |-> FALSE]
    ELSE [id |-> j, status |-> job[j].status, zyte |-> job[j].zyte]

\* ORDER BY relevance LIMIT n over the sources without chunks.
FirstUnprocessed(n) ==
    LET without == {s \in Sources : ~HasChunks(s)} IN
    {s \in without : Cardinality({t \in without : t < s}) < n}

Ingestions(s) == {e \in evidence : e.source = s}

\* COALESCE(MAX(version), 0) over the versions of s is n.
IsMaxVersion(s, n) ==
    /\ n = 0 <=> Ingestions(s) = {}
    /\ n # 0 => \E e \in Ingestions(s) : e.version = n
    /\ \A e \in Ingestions(s) : e.version <= n

-----------------------------------------------------------------------------
IdleRequest == [pc |-> "idle", began |-> 0, zyte |-> FALSE, limit |-> 0,
                loaded |-> [s \in Sources |-> [id |-> NoJob, status |-> "absent", zyte |-> FALSE]],
                targets |-> {}, unsent |-> {}]

IdleWorker == [pc |-> "idle", job |-> NoJob, zyte |-> FALSE, copy |-> "absent",
               caption |-> NoCaption, day |-> 0, version |-> 0, fault |-> "failed"]

Init ==
    /\ job = [j \in JobIds |-> [source |-> 1, status |-> "absent", zyte |-> FALSE, created |-> 0]]
    /\ queue = [j \in JobIds |-> 0]
    /\ request = [r \in Requests |-> IdleRequest]
    /\ worker = [w \in Workers |-> IdleWorker]
    /\ store = {}
    /\ evidence = {}
    /\ day = 1
    /\ batches = 0
    /\ duplicates = 0
    /\ deaths = 0
    /\ losses = 0
    /\ overlaps = 0

-----------------------------------------------------------------------------
(* The endpoint process_approved_sources.                                   *)

\* A request comes in.  Direct mode reads the cooldown and answers 429 while it
\* is active, which changes nothing; Zyte mode does not look at it.
StartBatch(r, zyte, limit) ==
    /\ request[r].pc = "idle"
    /\ batches < MaxBatches
    /\ ~zyte => ~CooldownActive
    /\ request' = [request EXCEPT ![r] =
                      [IdleRequest EXCEPT !.pc = "jobs", !.began = batches + 1,
                                          !.zyte = zyte, !.limit = limit]]
    /\ batches' = batches + 1
    /\ overlaps' = IF \E q \in Requests \ {r} : request[q].pc # "idle" THEN overlaps + 1 ELSE overlaps
    /\ UNCHANGED <<database, queue, worker, store, day, duplicates, deaths, losses>>

\* The second SELECT: the latest job of every source, kept in the session.
ReadJobs(r) ==
    /\ request[r].pc = "jobs"
    /\ request' = [request EXCEPT ![r].pc = "sources",
                                  ![r].loaded = [s \in Sources |-> Load(s)]]
    /\ UNCHANGED <<database, queue, worker, store, day, bounds>>

\* The third SELECT, cut by LIMIT before the sources with an active job are
\* dropped.  Nothing left: the request ends; a Zyte batch beyond the budget: 422.
ReadSources(r) ==
    /\ request[r].pc = "sources"
    /\ LET targets == {s \in FirstUnprocessed(request[r].limit) :
                          request[r].loaded[s].status \notin Active}
           refused == request[r].zyte /\ Cardinality(targets) > ZyteBatchMax
       IN request' = [request EXCEPT ![r] =
                         IF targets = {} \/ refused THEN IdleRequest
                         ELSE [@ EXCEPT !.pc = "commit", !.targets = targets]]
    /\ UNCHANGED <<database, queue, worker, store, day, bounds>>

\* The transaction: the loaded job of each source is set back to queued, and a
\* source without one gets a new row.  The session writes only columns it has
\* changed, so a payload already loaded with the wanted mode is not written.
CommitBatch(r) ==
    LET rq == request[r]
        fresh == {s \in rq.targets : rq.loaded[s].id = NoJob}
        reused == rq.targets \ fresh
        used == {j \in JobIds : job[j].status # "absent"}
        nextId == Cardinality(used) + 1
    IN
    /\ rq.pc = "commit"
    /\ \E new \in [fresh -> JobIds] :
          /\ {new[s] : s \in fresh} = nextId .. nextId + Cardinality(fresh) - 1
          /\ \A s, t \in fresh : s < t => new[s] < new[t]
          /\ LET id == [s \in rq.targets |-> IF s \in fresh THEN new[s] ELSE rq.loaded[s].id]
                 requeued == {id[s] : s \in reused}
             IN
             /\ job' = [j \in JobIds |->
                   IF \E s \in fresh : new[s] = j
                   THEN [source |-> CHOOSE s \in fresh : new[s] = j,
                         status |-> "queued", zyte |-> rq.zyte, created |-> rq.began]
                   ELSE IF j \in requeued
                   THEN [job[j] EXCEPT !.status = "queued",
                            !.zyte = IF rq.loaded[job[j].source].zyte = rq.zyte THEN @ ELSE rq.zyte]
                   ELSE job[j]]
             /\ request' = [request EXCEPT ![r].pc = "send",
                                           ![r].unsent = {id[s] : s \in rq.targets}]
    /\ UNCHANGED <<evidence, queue, worker, store, day, bounds>>

\* send_task for the next committed job, after the commit and outside of it.
SendTask(r) ==
    LET unsent == request[r].unsent IN
    /\ request[r].pc = "send"
    /\ \E j \in unsent :
          /\ \A i \in unsent : job[j].source <= job[i].source
          /\ queue' = [queue EXCEPT ![j] = @ + 1]
          /\ request' = [request EXCEPT ![r] =
                            IF unsent = {j} THEN IdleRequest
                            ELSE [@ EXCEPT !.unsent = unsent \ {j}]]
    /\ UNCHANGED <<database, worker, store, day, bounds>>

\* The API process dies, or the broker refuses a message, before all are sent.
SendFails(r) ==
    /\ request[r].pc = "send"
    /\ losses < MaxLosses
    /\ request' = [request EXCEPT ![r] = IdleRequest]
    /\ losses' = losses + 1
    /\ UNCHANGED <<database, queue, worker, store, day, batches, duplicates, deaths, overlaps>>

-----------------------------------------------------------------------------
(* The task process_approved_source.                                        *)

SourceOf(w) == job[worker[w].job].source

\* The task returns and its message is acknowledged (task_acks_late).
Ack(w) == worker' = [worker EXCEPT ![w] = IdleWorker]

Goto(w, pc) == worker' = [worker EXCEPT ![w].pc = pc]

SetStatus(j, status) == job' = [job EXCEPT ![j].status = status]

\* A result is written into the payload as this task has loaded it, over whatever
\* mode a request has set since.
Succeed(w) ==
    job' = [job EXCEPT ![worker[w].job].status = "succeeded",
                       ![worker[w].job].zyte = worker[w].zyte]

\* A worker takes a message and loads the job.  A cancelled job ends the task.
\* In direct mode an active cooldown defers the job: its row is cancelled.
Receive(w, j) ==
    /\ worker[w].pc = "idle"
    /\ queue[j] > 0
    /\ queue' = [queue EXCEPT ![j] = @ - 1]
    /\ \/ /\ job[j].status = "cancelled"
          /\ UNCHANGED <<job, worker>>
       \/ /\ job[j].status # "cancelled"
          /\ ~job[j].zyte
          /\ CooldownActive
          /\ SetStatus(j, "cancelled")
          /\ UNCHANGED worker
       \/ /\ job[j].status # "cancelled"
          /\ job[j].zyte \/ ~CooldownActive
          /\ worker' = [worker EXCEPT ![w] = [IdleWorker EXCEPT
                           !.pc = "marking", !.job = j,
                           !.zyte = job[j].zyte, !.copy = job[j].status]]
          /\ UNCHANGED job
    /\ UNCHANGED <<request, evidence, store, day, bounds>>

\* Mutant: a job that is running already is left to its other delivery.
MutMarkRunning(w) ==
    /\ worker[w].pc = "marking"
    /\ IF worker[w].copy = "running" THEN UNCHANGED job /\ Ack(w)
       ELSE SetStatus(worker[w].job, "running") /\ Goto(w, "checking")
    /\ UNCHANGED <<request, queue, evidence, store, day, bounds>>

\* The first commit: the job is running.  A job loaded as running is not
\* written, for its status has not changed in this session.
MarkRunning(w) ==
    /\ worker[w].pc = "marking"
    /\ IF worker[w].copy = "running" THEN UNCHANGED job
       ELSE SetStatus(worker[w].job, "running")
    /\ Goto(w, "checking")
    /\ UNCHANGED <<request, queue, evidence, store, day, bounds>>

\* Mutant: a source counts as processed as soon as its captions are uploaded.
MutCheckChunks(w) ==
    /\ worker[w].pc = "checking"
    /\ IF \E k \in store : k.source = SourceOf(w)
       THEN Succeed(w) /\ Ack(w)
       ELSE Goto(w, "fetching") /\ UNCHANGED job
    /\ UNCHANGED <<request, queue, evidence, store, day, bounds>>

\* A source that already has chunks ends the task: "already_processed".
CheckChunks(w) ==
    /\ worker[w].pc = "checking"
    /\ IF HasChunks(SourceOf(w))
       THEN Succeed(w) /\ Ack(w)
       ELSE Goto(w, "fetching") /\ UNCHANGED job
    /\ UNCHANGED <<request, queue, evidence, store, day, bounds>>

\* The captions arrive, straight from YouTube or through Zyte.
FetchCaptions(w, caption) ==
    /\ worker[w].pc = "fetching"
    /\ worker' = [worker EXCEPT ![w].pc = "storing", ![w].caption = caption]
    /\ UNCHANGED <<database, request, queue, store, day, bounds>>

\* YouTube answers a direct fetch with its IP-block error.  (Through a proxy the
\* library words it differently, and the code's ilike pattern does not match.)
FetchBlocked(w) ==
    /\ worker[w].pc = "fetching"
    /\ ~worker[w].zyte
    /\ worker' = [worker EXCEPT ![w].pc = "failing", ![w].fault = "blocked"]
    /\ UNCHANGED <<database, request, queue, store, day, bounds>>

\* Mutant: a store that cannot be reached is taken for a key that exists.
MutPutImmutable(w) ==
    /\ worker[w].pc = "storing"
    /\ store' \in {store, store \cup {[day |-> day, source |-> SourceOf(w), caption |-> worker[w].caption]}}
    /\ worker' = [worker EXCEPT ![w].pc = "versioning", ![w].day = day]
    /\ UNCHANGED <<database, request, queue, day, bounds>>

\* put_immutable: conditional on the key being free; a key that is taken (409 or
\* 412) is not an error.
PutImmutable(w) ==
    /\ worker[w].pc = "storing"
    /\ store' = store \cup {[day |-> day, source |-> SourceOf(w), caption |-> worker[w].caption]}
    /\ worker' = [worker EXCEPT ![w].pc = "versioning", ![w].day = day]
    /\ UNCHANGED <<database, request, queue, day, bounds>>

\* SELECT COALESCE(MAX(version), 0) + 1.
ReadVersion(w) ==
    /\ worker[w].pc = "versioning"
    /\ \E n \in {0} \cup {e.version : e \in evidence} :
          /\ IsMaxVersion(SourceOf(w), n)
          /\ worker' = [worker EXCEPT ![w].pc = "inserting", ![w].version = n + 1]
    /\ UNCHANGED <<database, request, queue, store, day, bounds>>

\* Mutant: only raw_artifacts.object_key is UNIQUE.
MutCollides(s, version, key) == \E e \in evidence : e.key = key

\* The UNIQUE constraints raw_artifacts.object_key and
\* source_versions(source_id, version).
Collides(s, version, key) ==
    \E e \in evidence : e.key = key \/ (e.source = s /\ e.version = version)

\* The last transaction: every row of the ingestion, and the job succeeded.
Publish(w) ==
    LET s == SourceOf(w)
        row == [source |-> s, version |-> worker[w].version,
                key |-> [day |-> worker[w].day, source |-> s, caption |-> worker[w].caption]]
    IN
    /\ worker[w].pc = "inserting"
    /\ IF Collides(row.source, row.version, row.key)
       THEN /\ worker' = [worker EXCEPT ![w].pc = "failing", ![w].fault = "failed"]
            /\ UNCHANGED database
       ELSE /\ evidence' = evidence \cup {row}
            /\ Succeed(w)
            /\ Ack(w)
    /\ UNCHANGED <<request, queue, store, day, bounds>>

\* Mutant: an exception the task's wrapper does not catch.
MutRaise(w) ==
    /\ worker[w].pc \in {"marking", "checking", "fetching", "storing", "versioning", "inserting"}
    /\ Ack(w)
    /\ UNCHANGED <<database, request, queue, store, day, bounds>>

\* Any other exception between two commits: no caption track, the store or the
\* database refusing, the soft time limit.  The open transaction is rolled back.
Raise(w) ==
    /\ worker[w].pc \in {"marking", "checking", "fetching", "storing", "versioning", "inserting"}
    /\ worker' = [worker EXCEPT ![w].pc = "failing", ![w].fault = "failed"]
    /\ UNCHANGED <<database, request, queue, store, day, bounds>>

\* Mutant: a state Celery has and JobStatus does not.
MutRecordFailure(w) ==
    /\ worker[w].pc = "failing"
    /\ SetStatus(worker[w].job, "retry")
    /\ Ack(w)
    /\ UNCHANGED <<request, queue, evidence, store, day, bounds>>

\* _set_ingestion_failure: whatever the row says by now, it is failed.  When this write
\* fails too, the row is left as it is: a ConnectionError or TimeoutError puts the message
\* back (autoretry_for), which is WorkerDies; after any other it is gone (ChildKilled).
RecordFailure(w) ==
    /\ worker[w].pc = "failing"
    /\ SetStatus(worker[w].job, worker[w].fault)
    /\ Ack(w)
    /\ UNCHANGED <<request, queue, evidence, store, day, bounds>>

-----------------------------------------------------------------------------
(* The environment.                                                         *)

\* The broker hands out a message that is not acknowledged a second time (the
\* visibility timeout), the first delivery goes on.
Redeliver(w) ==
    /\ worker[w].pc # "idle"
    /\ duplicates < MaxDuplicates
    /\ queue' = [queue EXCEPT ![worker[w].job] = @ + 1]
    /\ duplicates' = duplicates + 1
    /\ UNCHANGED <<database, request, worker, store, day, batches, deaths, losses, overlaps>>

\* The worker's machine dies; its unacknowledged message comes back.
WorkerDies(w) ==
    /\ worker[w].pc # "idle"
    /\ deaths < MaxDeaths
    /\ queue' = [queue EXCEPT ![worker[w].job] = @ + 1]
    /\ Ack(w)
    /\ deaths' = deaths + 1
    /\ UNCHANGED <<database, request, store, day, batches, duplicates, losses, overlaps>>

\* The pool process is killed (task_time_limit, out of memory): with
\* task_acks_late and no task_reject_on_worker_lost the message is acknowledged.
ChildKilled(w) ==
    /\ worker[w].pc # "idle"
    /\ losses < MaxLosses
    /\ Ack(w)
    /\ losses' = losses + 1
    /\ UNCHANGED <<database, request, queue, store, day, batches, duplicates, deaths, overlaps>>

\* Thirty minutes have passed since this IP block.
BlockAges(j) ==
    /\ job[j].status = "blocked"
    /\ SetStatus(j, "failed")
    /\ UNCHANGED <<request, queue, worker, evidence, store, day, bounds>>

DayPasses ==
    /\ day < MaxDay
    /\ day' = day + 1
    /\ UNCHANGED <<database, request, queue, worker, store, bounds>>

-----------------------------------------------------------------------------
RequestStep(r) == ReadJobs(r) \/ ReadSources(r) \/ CommitBatch(r) \/ SendTask(r)

WorkerStep(w) ==
    \/ \E j \in JobIds : Receive(w, j)
    \/ MarkRunning(w)
    \/ CheckChunks(w)
    \/ \E c \in Captions : FetchCaptions(w, c)
    \/ PutImmutable(w)
    \/ ReadVersion(w)
    \/ Publish(w)
    \/ RecordFailure(w)

Fault ==
    \/ \E r \in Requests : SendFails(r)
    \/ \E w \in Workers : Redeliver(w) \/ WorkerDies(w) \/ ChildKilled(w)

Next ==
    \/ \E r \in Requests, zyte \in BOOLEAN, n \in Limits : StartBatch(r, zyte, n)
    \/ \E r \in Requests : RequestStep(r)
    \/ \E w \in Workers : WorkerStep(w) \/ FetchBlocked(w) \/ Raise(w)
    \/ \E j \in JobIds : BlockAges(j)
    \/ DayPasses
    \/ Fault

Spec == Init /\ [][Next]_vars

\* A request that has been accepted runs on, and every worker keeps working.
\* Nothing makes YouTube block, a task fail, time pass or a machine die.
Fairness ==
    /\ \A r \in Requests : WF_vars(RequestStep(r))
    /\ \A w \in Workers : WF_vars(WorkerStep(w))

FairSpec == Spec /\ Fairness

-----------------------------------------------------------------------------
(* Properties.                                                              *)

WorkerPcs == {"idle", "marking", "checking", "fetching", "storing", "versioning",
              "inserting", "failing"}
RequestPcs == {"idle", "jobs", "sources", "commit", "send"}

RequestState ==
    [pc : RequestPcs, began : 0 .. MaxBatches, zyte : BOOLEAN, limit : Nat, loaded : [Sources -> LoadedJob],
     targets : SUBSET Sources, unsent : SUBSET JobIds]
WorkerState ==
    [pc : WorkerPcs, job : JobIds \cup {NoJob}, zyte : BOOLEAN, copy : Status,
     caption : Captions \cup {NoCaption}, day : Days \cup {0}, version : Nat,
     fault : {"failed", "blocked"}]

DatabaseOK ==
    /\ job \in [JobIds -> Row]
    /\ evidence \subseteq Ingestion

RequestsOK == request \in [Requests -> RequestState]

\* What a task has got hold of by the step it has reached.
Carries(task) ==
    /\ task.pc # "idle" => task.job \in JobIds
    /\ task.pc \in {"storing", "versioning", "inserting"} => task.caption \in Captions
    /\ task.pc \in {"versioning", "inserting"} => task.day \in Days
    /\ task.pc = "inserting" => task.version # 0

WorkersOK ==
    /\ worker \in [Workers -> WorkerState]
    /\ \A w \in Workers : Carries(worker[w])

OutsideOK ==
    /\ queue \in [JobIds -> Nat]
    /\ store \subseteq Key
    /\ day \in Days

BoundsOK ==
    /\ batches \in Nat /\ duplicates \in Nat /\ deaths \in Nat /\ losses \in Nat
    /\ overlaps \in Nat

\* Type correctness of the tables, the processes, the broker and the bucket.
TypeOK == DatabaseOK /\ RequestsOK /\ WorkersOK /\ OutsideOK /\ BoundsOK

\* A job only reads "succeeded" when its source has evidence, whichever of its
\* deliveries wrote the row and in whatever order they ended.
SucceededHasEvidence ==
    \A j \in JobIds : job[j].status = "succeeded" => HasChunks(job[j].source)

\* Every raw_artifacts row names an object that is in the bucket: the upload
\* comes before the transaction, and a failure in between leaves no row.
EvidenceIsStored == \A e \in evidence : e.key \in store

\* The versions of a source are 1 .. n, one row each, although MAX(version) + 1
\* is read before the insert and two deliveries may both have read it.
VersionsContiguous ==
    \A s \in Sources :
        /\ {e.version : e \in Ingestions(s)} = 1 .. Cardinality(Ingestions(s))
        /\ \A e, f \in Ingestions(s) : e.version = f.version => e = f

\* The tasks that went past the cooldown check and may still be blocked.
MayBeBlocked ==
    {w \in Workers : \/ worker[w].pc \in {"marking", "checking", "fetching"} /\ ~worker[w].zyte
                     \/ worker[w].pc = "failing" /\ worker[w].fault = "blocked"}

\* The cooldown is a check before an act: the workers that passed it together
\* overshoot the limit, but by no more than their number.
CooldownOvershoot ==
    Cardinality(RecentBlocks) + Cardinality(MayBeBlocked) <= BlockLimit - 1 + Cardinality(Workers)

\* Something still has to act on job j: a message, a task, or a request that has
\* committed it and not yet sent its message.
HasOwner(j) ==
    \/ queue[j] > 0
    \/ \E w \in Workers : worker[w].pc # "idle" /\ worker[w].job = j
    \/ \E r \in Requests : request[r].pc = "send" /\ j \in request[r].unsent

\* As long as no message was lost with a process, no job is left queued or
\* running with nothing to move it: not by a failure, a dead worker machine, a
\* repeated delivery or another request that takes the row over.
ActiveJobHasOwner ==
    losses = 0 => \A j \in JobIds : job[j].status \in Active => HasOwner(j)

\* A row as JobLifeCycle sees it: an IP block is a failure like any other.
LifeStatus == [j \in JobIds |-> IF job[j].status = "blocked" THEN "failed" ELSE job[j].status]
Life == INSTANCE JobLifeCycle WITH
            Jobs <- JobIds, status <- LifeStatus, owned <- [j \in JobIds |-> HasOwner(j)], lost <- losses

\* The jobs implement the abstract life of a row: only an owner changes a row, and an
\* owner goes only with the step that ends it, although requests take rows over on
\* stale reads, deliveries are repeated, and two tasks may write one row.
JobsFollowLifeCycle == Life!Spec

\* A source is ingested once, as long as no two requests have overlapped and the broker
\* has repeated no delivery in progress: whatever fails, dies or is lost, and however
\* many requests and workers follow each other.  No lock keeps requests apart.
IngestedOnce ==
    overlaps = 0 /\ duplicates = 0 => \A s \in Sources : Cardinality(Ingestions(s)) <= 1

\* Every queued or running job comes to an end, when no message is lost.
JobsEnd == \A j \in JobIds : job[j].status \in Active ~> job[j].status \notin Active

-----------------------------------------------------------------------------
(* What the repository says of this part, and the code does not keep.        *)

\* docs/approved-source-processing.md: "The admin Jobs page can queue every
\* approved YouTube source that does not already have chunks."  A source whose
\* latest job is active is not queued, so that job must be going to end.
UnprocessedCanBeQueued ==
    \A s \in Sources :
        LET j == LatestJob(s) IN
        ~HasChunks(s) /\ j # NoJob => (job[j].status \in Active => HasOwner(j))
=============================================================================
