--------------------------- MODULE EvidenceReview ---------------------------
(***************************************************************************)
(* From ingested captions to evidence an answer may cite: speaker review    *)
(* (POST /speaker-reviews/bulk), cleanup of verified sources                *)
(* (POST /sources/clean-verified and the task clean_verified_sources),      *)
(* interview analysis (POST /interview-turns/analyze and the task           *)
(* analyze_interview_turns) and turn review (POST /interview-turns/review). *)
(*                                                                          *)
(* They all write chunks.answer_eligible, the column that search_chunks     *)
(* filters on.  The tasks and the turn review read rows, wait for a model   *)
(* provider, and write by primary key afterwards without a lock or a        *)
(* re-check: an action is what lies between two such waits.                 *)
(***************************************************************************)
EXTENDS Integers, FiniteSets

CONSTANTS
    Sources,        \* ingested caption sources
    Passages,       \* the raw caption chunks of a source, by their text
    Turns,          \* the turns an analysis finds in a source, by their text
    Rewrites,       \* the texts the cleanup model may make of a passage
    Flagged,        \* the texts prompt_injection_flags finds something in
    Workers,        \* Celery worker processes
    Admins,         \* turn-review requests that can be in progress at once
    Requests,       \* requests for a job that can be in progress at once
    AutoPublish,    \* settings.interview_turn_auto_publish_iyin
    Limits,         \* values of body.limit of a cleanup request
    MaxJobs,        \* bound: cleanup and analysis jobs
    MaxReviews,     \* bound: speaker reviews
    MaxTurnReviews, \* bound: turn reviews
    MaxRepeats,     \* bound: deliveries repeated while the first one goes on
    MaxDeaths,      \* bound: worker machines that die
    MaxLosses       \* bound: messages lost with an API or a pool process

ASSUME TextsAssumption ==
    Passages \cap Turns = {} /\ Flagged \subseteq Passages \cup Turns \cup Rewrites
ASSUME FiniteAssumption ==
    IsFiniteSet(Sources) /\ IsFiniteSet(Passages) /\ IsFiniteSet(Turns) /\ IsFiniteSet(Requests)
ASSUME SettingsAssumption == AutoPublish \in BOOLEAN /\ Limits \subseteq Nat \ {0}
ASSUME BoundsAssumption ==
    /\ MaxJobs \in Nat
    /\ MaxReviews \in Nat
    /\ MaxTurnReviews \in Nat
    /\ MaxRepeats \in Nat
    /\ MaxDeaths \in Nat
    /\ MaxLosses \in Nat

JobIds == 1 .. MaxJobs
Decisions == {"verified_single_speaker", "mixed_speakers", "rejected_not_founder", "pending"}

\* A chunk is named by its source, the source version that inserted it (each
\* version is inserted once) and its origin, the captured passage or turn it is
\* made from.  text is what it stores, which a cleanup rewrites; flags says that
\* quality_flags is not empty, whatever text it was computed from; kind stands for
\* embedding_version; speaker for speaker_id, set whenever speaker_verified is.
Chunk == [source : Sources, version : Nat \ {0}, origin : Passages \cup Turns,
          text : Passages \cup Turns \cup Rewrites, flags : BOOLEAN,
          kind : {"raw", "cleaned", "turn"}, speaker : BOOLEAN, eligible : BOOLEAN]

\* A row of interview_turn_suggestions.  run numbers the analyses; reviewer is
\* "admin" when reviewed_by is set; chunk is the version of chunk_id, 0 for NULL.
Suggestion == [source : Sources, run : Nat \ {0}, turn : Turns,
               status : {"pending", "approved", "rejected", "superseded"},
               reviewer : {"none", "admin"}, chunk : Nat]

\* source is {s} for the analysis of s, {} for a cleanup.
Job == [type : {"none", "cleanup", "analysis"}, source : SUBSET Sources, limit : Nat,
        status : {"absent", "queued", "running", "succeeded", "failed"}]
Active == {"queued", "running"}

VARIABLES
    review,       \* [Sources -> Decisions]: transcripts.review_status, which
                  \* sources.speaker_verified always agrees with
    version,      \* [Sources -> Nat]: MAX(source_versions.version)
    chunks,       \* SUBSET Chunk
    suggestions,  \* SUBSET Suggestion
    job,          \* [JobIds -> Job]
    queue,        \* [JobIds -> Nat], messages of the "ai" queue
    worker,       \* [Workers -> ...], the tasks in progress
    admin,        \* [Admins -> ...], the turn reviews in progress
    request,      \* [Requests -> ...], the requests for a job in progress
    runs, reviews, turnReviews, repeats, deaths, losses   \* counters for the bounds

evidence == <<review, version, chunks, suggestions>>
bounds == <<runs, reviews, turnReviews, repeats, deaths, losses>>
vars == <<review, version, chunks, suggestions, job, queue, worker, admin, request,
          runs, reviews, turnReviews, repeats, deaths, losses>>

-----------------------------------------------------------------------------
IsVerified(s) == review[s] = "verified_single_speaker"

\* Mutant: speaker_verified instead of answer_eligible, so that chunks that are
\* already superseded are read again.
MutRawEligible(s) == {c \in chunks : c.source = s /\ c.kind = "raw" /\ c.speaker}

\* The raw caption chunks a cleanup reads: eligible and not yet cleaned.
RawEligible(s) == {c \in chunks : c.source = s /\ c.kind = "raw" /\ c.eligible}

Cleanable == {s \in Sources : IsVerified(s) /\ RawEligible(s) # {}}

Smaller(m, n) == IF m < n THEN m ELSE n

IdleWorker == [pc |-> "idle", job |-> 0, todo |-> {}, source |-> {}, old |-> {}]
IdleAdmin == [pc |-> "idle", picked |-> {}]
IdleRequest == [pc |-> "idle", type |-> "none", source |-> {}, limit |-> 0, job |-> 0]

\* Ingestion has left one version of raw chunks that nobody has reviewed.
Init ==
    /\ review = [s \in Sources |-> "pending"]
    /\ version = [s \in Sources |-> 1]
    /\ chunks = {[source |-> s, version |-> 1, origin |-> p, text |-> p, flags |-> p \in Flagged,
                  kind |-> "raw", speaker |-> FALSE, eligible |-> FALSE] : s \in Sources, p \in Passages}
    /\ suggestions = {}
    /\ job = [j \in JobIds |-> [type |-> "none", source |-> {}, limit |-> 0, status |-> "absent"]]
    /\ queue = [j \in JobIds |-> 0]
    /\ worker = [w \in Workers |-> IdleWorker]
    /\ admin = [a \in Admins |-> IdleAdmin]
    /\ request = [r \in Requests |-> IdleRequest]
    /\ runs = 0 /\ reviews = 0 /\ turnReviews = 0 /\ repeats = 0 /\ deaths = 0 /\ losses = 0

-----------------------------------------------------------------------------
(* Speaker review: one transaction over the selected sources.  Every chunk  *)
(* of them is set, whatever its kind and whatever version superseded it.    *)

\* Mutants: flags are ignored; a source that is not verified keeps its citable chunks.
MutReviewedFlags(c, verified) == [c EXCEPT !.speaker = verified, !.eligible = verified]
MutReviewedKeeps(c, verified) ==
    [c EXCEPT !.speaker = verified, !.eligible = (@ \/ verified) /\ ~c.flags]

Reviewed(c, verified) ==
    [c EXCEPT !.speaker = verified, !.eligible = verified /\ ~c.flags]

SpeakerReview(S, decision) ==
    /\ reviews < MaxReviews
    /\ reviews' = reviews + 1
    /\ review' = [s \in Sources |-> IF s \in S THEN decision ELSE review[s]]
    /\ chunks' = {IF c.source \in S THEN Reviewed(c, decision = "verified_single_speaker") ELSE c
                     : c \in chunks}
    /\ UNCHANGED <<version, suggestions, job, queue, worker, admin, request,
                   runs, turnReviews, repeats, deaths, losses>>

-----------------------------------------------------------------------------
(* The endpoints that queue a job: what they read, the commit of the row,   *)
(* and the message, in this order and with no lock.                         *)

Ask(r, type, source, limit) ==
    /\ request[r].pc = "idle"
    /\ request' = [request EXCEPT ![r] = [pc |-> "commit", type |-> type, source |-> source,
                                          limit |-> limit, job |-> 0]]
    /\ UNCHANGED <<evidence, job, queue, worker, admin, bounds>>

\* clean_verified_sources: nothing while a cleanup is active or none is needed.
RequestCleanup(r, limit) ==
    /\ ~\E j \in JobIds : job[j].type = "cleanup" /\ job[j].status \in Active
    /\ Cleanable # {}
    /\ Ask(r, "cleanup", {}, Smaller(limit, Cardinality(Cleanable)))

\* analyze_interview_turns: only a mixed-speaker source, one active job each.
RequestAnalysis(r, s) ==
    /\ review[s] = "mixed_speakers"
    /\ ~\E j \in JobIds : job[j].type = "analysis" /\ job[j].source = {s} /\ job[j].status \in Active
    /\ Ask(r, "analysis", {s}, 0)

CommitJob(r, j) ==
    /\ request[r].pc = "commit"
    /\ job[j].status = "absent"
    /\ \A i \in JobIds : i < j => job[i].status # "absent"
    /\ job' = [job EXCEPT ![j] = [type |-> request[r].type, source |-> request[r].source,
                                  limit |-> request[r].limit, status |-> "queued"]]
    /\ request' = [request EXCEPT ![r].pc = "send", ![r].job = j]
    /\ UNCHANGED <<evidence, queue, worker, admin, bounds>>

SendTask(r) ==
    /\ request[r].pc = "send"
    /\ queue' = [queue EXCEPT ![request[r].job] = @ + 1]
    /\ request' = [request EXCEPT ![r] = IdleRequest]
    /\ UNCHANGED <<evidence, job, worker, admin, bounds>>

\* The API process dies, or the broker refuses the message.
SendFails(r) ==
    /\ request[r].pc = "send"
    /\ losses < MaxLosses
    /\ losses' = losses + 1
    /\ request' = [request EXCEPT ![r] = IdleRequest]
    /\ UNCHANGED <<evidence, job, queue, worker, admin, runs, reviews, turnReviews, repeats, deaths>>

-----------------------------------------------------------------------------
(* The tasks.  Neither looks at the status the job already has.             *)

SetStatus(j, status) == job' = [job EXCEPT ![j].status = status]
Ack(w) == worker' = [worker EXCEPT ![w] = IdleWorker]

Deliver(w, j) ==
    /\ worker[w].pc = "idle"
    /\ queue[j] > 0
    /\ queue' = [queue EXCEPT ![j] = @ - 1]
    /\ SetStatus(j, "running")

\* A cleanup begins: SELECT DISTINCT ... LIMIT, in no particular order.
StartCleanup(w, j) ==
    /\ job[j].type = "cleanup"
    /\ Deliver(w, j)
    /\ \E todo \in SUBSET Cleanable :
          /\ Cardinality(todo) = Smaller(job[j].limit, Cardinality(Cleanable))
          /\ worker' = [worker EXCEPT ![w] =
                           [IdleWorker EXCEPT !.pc = "cleanup", !.job = j, !.todo = todo]]
    /\ UNCHANGED <<evidence, admin, request, bounds>>

\* Mutant: a source with nothing left to clean is not passed over.
MutCleanRead(w, s) ==
    /\ worker[w].pc = "cleanup"
    /\ s \in worker[w].todo
    /\ RawEligible(s) # {}
    /\ worker' = [worker EXCEPT ![w].pc = "cleaning", ![w].todo = @ \ {s},
                               ![w].source = {s}, ![w].old = RawEligible(s)]
    /\ UNCHANGED <<evidence, job, queue, admin, request, bounds>>

\* The next source: its eligible raw chunks are read, and sent to the provider.
CleanRead(w, s) ==
    /\ worker[w].pc = "cleanup"
    /\ s \in worker[w].todo
    /\ worker' = IF RawEligible(s) = {} THEN [worker EXCEPT ![w].todo = @ \ {s}]
                 ELSE [worker EXCEPT ![w].pc = "cleaning", ![w].todo = @ \ {s},
                                     ![w].source = {s}, ![w].old = RawEligible(s)]
    /\ UNCHANGED <<evidence, job, queue, admin, request, bounds>>

\* Mutant: a cleaned copy waits for a review of its own.
MutCleaned(c, v, text) ==
    [c EXCEPT !.version = v, !.text = text, !.kind = "cleaned", !.eligible = FALSE]

\* The cleaned copy of a raw chunk: the text the model returned, with the speaker
\* and the flags of the chunk that was read.  Nobody looks for flags in the new text.
Cleaned(c, v, text) ==
    [c EXCEPT !.version = v, !.text = text, !.kind = "cleaned", !.eligible = ~c.flags]

\* The provider has answered with every chunk exactly once.  One transaction
\* inserts the new version and disables the chunks that were read.
CleanPublish(w, s) ==
    LET old == worker[w].old
        v == version[s] + 1
        same(c, d) == c.version = d.version /\ c.origin = d.origin /\ c.source = d.source
    IN
    /\ worker[w].pc = "cleaning"
    /\ worker[w].source = {s}
    /\ version' = [version EXCEPT ![s] = v]
    /\ \E rewrite \in [old -> Rewrites] :
          chunks' = {IF \E d \in old : same(c, d) THEN [c EXCEPT !.eligible = FALSE] ELSE c : c \in chunks}
                    \cup {Cleaned(c, v, rewrite[c]) : c \in old}
    /\ worker' = [worker EXCEPT ![w].pc = "cleanup", ![w].source = {}, ![w].old = {}]
    /\ UNCHANGED <<review, suggestions, job, queue, admin, request, bounds>>

\* Mutant: a status JobStatus does not have.
MutCleanEnd(w) ==
    /\ worker[w].pc = "cleanup"
    /\ worker[w].todo = {}
    /\ SetStatus(worker[w].job, "completed")
    /\ Ack(w)
    /\ UNCHANGED <<evidence, queue, admin, request, bounds>>

CleanEnd(w) ==
    /\ worker[w].pc = "cleanup"
    /\ worker[w].todo = {}
    /\ SetStatus(worker[w].job, "succeeded")
    /\ Ack(w)
    /\ UNCHANGED <<evidence, queue, admin, request, bounds>>

\* An analysis begins; the segments it reads never change.
StartAnalysis(w, j) ==
    /\ job[j].type = "analysis"
    /\ Deliver(w, j)
    /\ worker' = [worker EXCEPT ![w] =
                     [IdleWorker EXCEPT !.pc = "analysing", !.job = j, !.source = job[j].source]]
    /\ UNCHANGED <<evidence, admin, request, bounds>>

\* The turns that get a chunk at once: with auto-publish those the model is sure
\* are the founder's.  (Mutant: the setting is not read.)
MutPublished(confident) == confident
Published(confident) == IF AutoPublish THEN confident ELSE {}

\* The suggestions an analysis inserts; with auto-publish none is left pending.
NewSuggestions(s, run, confident, v) ==
    {[source |-> s, run |-> run, turn |-> t, reviewer |-> "none",
      status |-> IF ~AutoPublish THEN "pending" ELSE IF t \in confident THEN "approved" ELSE "rejected",
      chunk |-> IF t \in Published(confident) THEN v ELSE 0] : t \in Turns}

\* Mutant: no chunk is made of a turn with flags.
MutTurnChunks(s, v, turns) ==
    {[source |-> s, version |-> v, origin |-> t, text |-> t, flags |-> FALSE,
      kind |-> "turn", speaker |-> TRUE, eligible |-> TRUE] : t \in turns \ Flagged}

TurnChunks(s, v, turns) ==
    {[source |-> s, version |-> v, origin |-> t, text |-> t, flags |-> t \in Flagged,
      kind |-> "turn", speaker |-> TRUE, eligible |-> t \notin Flagged] : t \in turns}

\* The model has labelled every turn.  One transaction supersedes the pending
\* suggestions of the source and inserts the new ones with their chunks.
AnalysisPublish(w, s, confident) ==
    LET published == Published(confident)
        v == version[s] + 1
    IN
    /\ worker[w].pc = "analysing"
    /\ worker[w].source = {s}
    /\ runs' = runs + 1
    /\ version' = IF published = {} THEN version ELSE [version EXCEPT ![s] = v]
    /\ chunks' = chunks \cup TurnChunks(s, v, published)
    /\ suggestions' =
          {IF g.source = s /\ g.status = "pending" THEN [g EXCEPT !.status = "superseded"] ELSE g
              : g \in suggestions} \cup NewSuggestions(s, runs + 1, confident, v)
    /\ SetStatus(worker[w].job, "succeeded")
    /\ Ack(w)
    /\ UNCHANGED <<review, queue, admin, request, reviews, turnReviews, repeats, deaths, losses>>

\* The provider's answer stays invalid, the budget is used up, a version number
\* collides, ...: rollback, and _set_ingestion_failure.  When that write fails too,
\* the row is left as it is: a ConnectionError or TimeoutError puts the message back
\* (autoretry_for), which is WorkerDies; after any other the message is gone
\* (ChildKilled).
TaskFails(w) ==
    /\ worker[w].pc # "idle"
    /\ SetStatus(worker[w].job, "failed")
    /\ Ack(w)
    /\ UNCHANGED <<evidence, queue, admin, request, bounds>>

\* The broker repeats a delivery that is still being worked on, or one whose
\* worker has died with its open transaction.
Redeliver(w) ==
    /\ worker[w].pc # "idle"
    /\ repeats < MaxRepeats
    /\ repeats' = repeats + 1
    /\ queue' = [queue EXCEPT ![worker[w].job] = @ + 1]
    /\ UNCHANGED <<evidence, job, worker, admin, request, runs, reviews, turnReviews, deaths, losses>>

\* Mutant: without task_acks_late the message is gone when the task begins.
MutWorkerDies(w) ==
    /\ worker[w].pc # "idle"
    /\ deaths < MaxDeaths
    /\ deaths' = deaths + 1
    /\ Ack(w)
    /\ UNCHANGED <<evidence, job, queue, admin, request, runs, reviews, turnReviews, repeats, losses>>

WorkerDies(w) ==
    /\ worker[w].pc # "idle"
    /\ deaths < MaxDeaths
    /\ deaths' = deaths + 1
    /\ queue' = [queue EXCEPT ![worker[w].job] = @ + 1]
    /\ Ack(w)
    /\ UNCHANGED <<evidence, job, admin, request, runs, reviews, turnReviews, repeats, losses>>

\* The pool process is killed (task_time_limit, out of memory): with
\* task_acks_late and no task_reject_on_worker_lost the message is acknowledged.
ChildKilled(w) ==
    /\ worker[w].pc # "idle"
    /\ losses < MaxLosses
    /\ losses' = losses + 1
    /\ Ack(w)
    /\ UNCHANGED <<evidence, job, queue, admin, request, runs, reviews, turnReviews, repeats, deaths>>

-----------------------------------------------------------------------------
(* Turn review.  The pending suggestions are read, an approval waits for    *)
(* their embeddings, and the rows are written by primary key.               *)

TurnReviewRead(a, decision, picked) ==
    /\ admin[a].pc = "idle"
    /\ turnReviews < MaxTurnReviews
    /\ turnReviews' = turnReviews + 1
    /\ \A g \in picked : g.status = "pending"
    /\ \A g, h \in picked : g.source = h.source
    /\ admin' = [admin EXCEPT ![a] = [pc |-> decision, picked |-> picked]]
    /\ UNCHANGED <<evidence, job, queue, worker, request, runs, reviews, repeats, deaths, losses>>

Picked(a, g) == \E h \in admin[a].picked : h.source = g.source /\ h.run = g.run /\ h.turn = g.turn

TurnReject(a) ==
    /\ admin[a].pc = "reject"
    /\ suggestions' = {IF Picked(a, g) THEN [g EXCEPT !.status = "rejected", !.reviewer = "admin"] ELSE g
                          : g \in suggestions}
    /\ admin' = [admin EXCEPT ![a] = IdleAdmin]
    /\ UNCHANGED <<review, version, chunks, job, queue, worker, request, bounds>>

TurnApprove(a, s) ==
    LET v == version[s] + 1 IN
    /\ admin[a].pc = "approve_as_iyin"
    /\ \A h \in admin[a].picked : h.source = s
    /\ version' = [version EXCEPT ![s] = v]
    /\ chunks' = chunks \cup TurnChunks(s, v, {h.turn : h \in admin[a].picked})
    /\ suggestions' = {IF Picked(a, g)
                       THEN [g EXCEPT !.status = "approved", !.reviewer = "admin", !.chunk = v] ELSE g
                          : g \in suggestions}
    /\ admin' = [admin EXCEPT ![a] = IdleAdmin]
    /\ UNCHANGED <<review, job, queue, worker, request, bounds>>

\* The embedding provider or the commit fails: nothing is written.
TurnReviewFails(a) ==
    /\ admin[a].pc # "idle"
    /\ admin' = [admin EXCEPT ![a] = IdleAdmin]
    /\ UNCHANGED <<evidence, job, queue, worker, request, bounds>>

-----------------------------------------------------------------------------
Asking(r) ==
    \/ \E limit \in Limits : RequestCleanup(r, limit)
    \/ \E s \in Sources : RequestAnalysis(r, s)

RequestStep(r) == SendTask(r) \/ \E j \in JobIds : CommitJob(r, j)

TaskStep(w) ==
    \/ \E j \in JobIds : StartCleanup(w, j) \/ StartAnalysis(w, j)
    \/ \E s \in Sources : CleanRead(w, s) \/ CleanPublish(w, s)
    \/ \E s \in Sources, confident \in SUBSET Turns : AnalysisPublish(w, s, confident)
    \/ CleanEnd(w)

Fault(w) == TaskFails(w) \/ Redeliver(w) \/ WorkerDies(w) \/ ChildKilled(w)

TurnReviewStep(a) ==
    \/ \E decision \in {"approve_as_iyin", "reject"}, picked \in SUBSET suggestions \ {{}} :
          TurnReviewRead(a, decision, picked)
    \/ TurnReject(a)
    \/ \E s \in Sources : TurnApprove(a, s)
    \/ TurnReviewFails(a)

Next ==
    \/ \E S \in SUBSET Sources \ {{}}, decision \in Decisions : SpeakerReview(S, decision)
    \/ \E r \in Requests : Asking(r) \/ RequestStep(r) \/ SendFails(r)
    \/ \E w \in Workers : TaskStep(w) \/ Fault(w)
    \/ \E a \in Admins : TurnReviewStep(a)

Spec == Init /\ [][Next]_vars

\* A request that has been accepted runs on and Celery keeps its workers busy;
\* administrators and faults are not scheduled.
Fairness ==
    /\ \A r \in Requests : WF_vars(RequestStep(r))
    /\ \A w \in Workers : WF_vars(TaskStep(w))

FairSpec == Spec /\ Fairness

-----------------------------------------------------------------------------
(* Properties.                                                              *)

WorkerState == [pc : {"idle", "cleanup", "cleaning", "analysing"}, job : JobIds \cup {0},
                todo : SUBSET Sources, source : SUBSET Sources, old : SUBSET Chunk]
AdminState == [pc : {"idle", "reject", "approve_as_iyin"}, picked : SUBSET Suggestion]
RequestState == [pc : {"idle", "commit", "send"}, type : {"none", "cleanup", "analysis"},
                 source : SUBSET Sources, limit : Nat, job : JobIds \cup {0}]

EvidenceOK ==
    /\ review \in [Sources -> Decisions]
    /\ version \in [Sources -> Nat \ {0}]
    /\ chunks \subseteq Chunk
    /\ suggestions \subseteq Suggestion

JobsOK == job \in [JobIds -> Job] /\ queue \in [JobIds -> Nat]

WorkersOK ==
    /\ worker \in [Workers -> WorkerState]
    /\ \A w \in Workers : worker[w].pc # "idle" => worker[w].job \in JobIds

AdminsOK == admin \in [Admins -> AdminState]

RequestsOK ==
    /\ request \in [Requests -> RequestState]
    /\ \A r \in Requests : request[r].pc = "send" => request[r].job \in JobIds

BoundsOK ==
    /\ runs \in Nat /\ reviews \in Nat /\ turnReviews \in Nat
    /\ repeats \in Nat /\ deaths \in Nat /\ losses \in Nat

\* Type correctness of the tables, the queue and the processes.
TypeOK == EvidenceOK /\ JobsOK /\ WorkersOK /\ AdminsOK /\ RequestsOK /\ BoundsOK

\* What search_chunks may return.
Citable == {c \in chunks : c.eligible}

\* The captured text of a chunk has no flags, nor the stored one unless a cleanup wrote it.
NoCapturedFlags(c) == c.origin \notin Flagged /\ (c.kind # "cleaned" => c.text \notin Flagged)

\* Injection flags found when a text was captured outlast every writer: a chunk made
\* from such a passage or turn is never citable, nor is its cleaned copy, whatever the
\* reviews after it.  It says nothing of the text a cleanup wrote, which may have flags
\* of its own: the code publishes it under the flags of the text it replaces.
CapturedFlagsExcluded == \A c \in Citable : NoCapturedFlags(c)

\* Citable evidence is attributed to a speaker.  Cleanup copies the attribution
\* it read before its long wait, when it may have changed since.
CitableHasSpeaker == \A c \in Citable : c.speaker

CitablePassages(s) == {c.origin : c \in {d \in Citable : d.source = s}} \cap Passages

\* As long as a source stays verified, a passage that could be cited can still be
\* cited after every step: cleanup replaces a chunk in one commit, and a job that
\* fails or dies half way leaves each source either as it was or cleaned.
NoEvidenceGap ==
    [][\A s \in Sources :
          IsVerified(s) /\ IsVerified(s)' => CitablePassages(s) \subseteq CitablePassages(s)']_vars

\* An approved suggestion has its chunk, also when it was read while pending and
\* superseded, rejected or approved by someone else before the commit.
ApprovedHasChunk ==
    \A g \in suggestions : g.status = "approved" =>
        \E c \in chunks : c.kind = "turn" /\ c.source = g.source /\ c.version = g.chunk /\ c.text = g.turn

\* A turn is cited only after an administrator has reviewed that turn of that source,
\* whatever analyses supersede and reviews race.  It holds while AutoPublish is off;
\* on, which is its default, the analysis publishes the confident turns itself.
TurnsApprovedByAdmin ==
    \A c \in Citable : c.kind = "turn" =>
        \E g \in suggestions : g.source = c.source /\ g.turn = c.text /\ g.reviewer = "admin"

\* A passage of a source can be cited once: from its raw chunk or from one cleaned
\* copy.  It holds while jobs are asked for one at a time, no second speaker review
\* has been made, and no delivery has been repeated during its first one; failed jobs,
\* dead workers, lost messages and further cleanup jobs do not break it.
CitedOnce ==
    Cardinality(Requests) = 1 /\ repeats = 0 /\ reviews <= 1 =>
        \A c, d \in Citable : c.source = d.source /\ c.origin = d.origin /\ c.origin \in Passages => c = d

\* Something still has to act on job j: the request that committed it, a message or a task.
HasOwner(j) ==
    \/ queue[j] > 0
    \/ \E w \in Workers : worker[w].pc # "idle" /\ worker[w].job = j
    \/ \E r \in Requests : request[r].pc = "send" /\ request[r].job = j

Life == INSTANCE JobLifeCycle WITH
            Jobs <- JobIds, status <- [j \in JobIds |-> job[j].status],
            owned <- [j \in JobIds |-> HasOwner(j)], lost <- losses

\* Cleanup and analysis jobs implement the same abstract life of a row: none is left
\* without an owner by a failure, a dead machine, a repeated delivery or a task that
\* ends while another one works on the same row.
TasksFollowLifeCycle == Life!Spec

\* Every cleanup and analysis job comes to an end, unless a message is lost: then a
\* cleanup may stay queued, and RequestCleanup answers that it is active ever after.
TasksEnd == \A j \in JobIds : job[j].status \in Active ~> job[j].status \notin Active \/ losses > 0

-----------------------------------------------------------------------------
(* What the repository says of this part, and the code does not keep.        *)

\* docs/openai-rag-and-cleanup.md: "Only sources already marked
\* verified_single_speaker are eligible for automated cleanup.  Mixed-speaker and
\* rejected sources remain excluded."  No rejected source has citable cleaned text.
RejectedSourcesExcluded ==
    \A c \in Citable : c.kind = "cleaned" => review[c.source] # "rejected_not_founder"

\* docs/interview-turn-review.md: the administrator approves verified passages "or
\* reject[s] incorrect suggestions ... Only those reviewed chunks become
\* answer-eligible."  A suggestion an administrator has rejected stays rejected.
RejectionStands ==
    [][\A g \in suggestions : g.status = "rejected" /\ g.reviewer = "admin" => g \in suggestions']_vars
=============================================================================
