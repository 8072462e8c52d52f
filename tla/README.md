# Verification of the evidence pipeline

TLA+ models, model-checking runs and machine-checked proofs for *Ask Iyin*, a
retrieval application that answers questions from what one person has said in
public. Its central promise is about *evidence*: an answer may only cite passages
that are attributed to the speaker, had no prompt-injection flags when they were
captured, and were let through by an administrator. The code that
keeps this promise is spread over HTTP endpoints (`apps/api/afs/routes.py`), Celery
tasks (`apps/worker/worker/tasks.py`), a bucket and a broker, which share rows of one
PostgreSQL database and hold no locks. That is what is modelled here.

Paths below are relative to the repository.

## 1. Inventory

| Component | State it keeps | Operations | Talks to | Hard part | Correct when |
|---|---|---|---|---|---|
| Caption ingestion (`routes.py` 400-553, `tasks.py` 62-390, `storage.py`, `youtube_ingestion.py`, `celery_app.py`) | `background_jobs`, `raw_artifacts`, `source_versions`, transcripts, chunks; bucket objects; broker messages | queue a batch; run a task; record a failure | PostgreSQL, Redis, S3, YouTube, Zyte | requests and workers race; repeated or lost deliveries; upload outside the transaction; cooldown computed from rows | succeeded jobs have evidence, recorded evidence is stored, versions have no holes, jobs end, the cooldown holds |
| Speaker review (`routes.py` 1460-1657) | `transcripts.review_status`, `sources.speaker_verified`, `chunks.speaker_*`, `answer_eligible` | one bulk decision | the same chunks as the three rows below | races with tasks that work on earlier reads | what was captured with flags or is unattributed is never citable |
| Verified-source cleanup (`routes.py` 556-630, `tasks.py` 409-678) | cleanup jobs, `source_versions`, chunks | queue; per source: read, ask the provider, replace | OpenAI | stale reads, partial failure, double delivery | replaces atomically, loses nothing, cites once |
| Interview analysis (`routes.py` 1176-1253, `tasks.py` 681-1035) | analysis jobs, `interview_turn_suggestions`, chunks | queue; label; supersede and insert | OpenAI or Gemini | supersedes what is being reviewed; auto-publish | an approved suggestion has its chunk |
| Turn review (`routes.py` 1303-1452) | suggestions, chunks, versions | approve, reject | OpenAI embeddings | read, long wait, write by key | no turn is citable that nobody reviewed |
| Candidate review (`routes.py` 194-361, `scripts/import_discovery.py`) | `source_candidates`, `sources`, `audit_logs` | approve or reject one, approve many | admin UI | check then act on `status`; UNIQUE URL | an approved candidate has its source, a source one approval |
| AI budget (`tasks.py` 474-483, 719-745; `routes.py` 1040-1075) | `provider_cost_records` | compare a monthly sum with the cap before a call | every provider call | the cost is known only after the call; providers counted differ | overshoot is bounded |
| Sessions (`auth.py`, `scripts/sync_admin_credentials.py`) | `users`, `sessions` | login, logout, look up, rotate the password | every endpoint | two statements look a session up; a login or a request that overlaps a rotation | an old password leaves no session behind but an overlapping login's; no request acts on a session that was over when it came in |
| Rate limiter (`observability.py` 74-112) | a deque of times per client and path | admit or refuse | login, ask, corrections | window boundary, refusals | at most `limit` requests in any window, and no refusal without that many |
| Retrieval and answers (`routes.py` 700-1130, `services/retrieval.py`) | none (reads) | rank, fuse, diversify, answer, cite | chunks, OpenAI | two statements see different commits | only citable chunks are returned |
| Chunking and content checks (`services/content.py`, `youtube_ingestion.py`) | none | captions to chunks, flags | ingestion, import | boundaries | no caption is dropped, size bounds |
| Provider adapters (`services/providers.py`) | none | embeddings, cleanup, analysis by bisection | OpenAI, Gemini | partial or repeated items in an answer | every input is answered exactly once |
| Crawler (`services/crawler`) | counters of a crawl | parse, stop | the web | limits | the crawl stops in its limits |
| Interview batch script (`scripts/process_mixed_interviews.py`) | sets of sources queued, completed, failed | queue an analysis, poll it, reject and approve in batches | the API, one request at a time | the rows it has listed change before it posts; a job that never ends | it ends; what it counts as reviewed is reviewed; only turns labelled Iyin's are let through |
| Web application (`apps/web`) | conversation and review state of a page | ask, select, review | the API | late answers | an answer lands in its conversation |
| Discovery import, seed, fixtures, evaluation, manual import, corrections, catalogue | rows | single inserts and reads | PostgreSQL | none | not modelled |

`PROJECT.json` lists the same components with their status, and under *hazards* the
lines at which the behaviour in the column "hard part" bites.

## 2. Modules

| Module | What it is |
|---|---|
| `CaptionIngestion` | endpoint, task, bucket and broker of caption ingestion |
| `JobLifeCycle` | the abstract specification of a job's row, which the jobs of `CaptionIngestion` and of `EvidenceReview` implement |
| `CaptionIngestionProofs` | eight theorems about it |
| `CooldownHistory` | the same within one 30-minute window, with a history variable counting IP-block responses |
| `MCCaptionIngestion` | its TLC instances |
| `EvidenceReview` | speaker review, cleanup, interview analysis and turn review over shared chunks |
| `EvidenceReviewProofs` | eight theorems about it |
| `MCEvidenceReview` | its TLC instances |
| `InterviewScript` | the batch script, composed with the server of `EvidenceReview` |
| `InterviewScriptProofs` | five theorems about it, over those of `EvidenceReviewProofs` |
| `MCInterviewScript` | its TLC instance |
| `Answers` | questions over the evidence of `EvidenceReview`, while its writers go on |
| `AnswersProofs` | seven theorems about it |
| `MCAnswers` | its TLC instance |
| `ModelCalls` | the calls of a cleanup or an analysis to a model provider: validation, retries, the monthly limit |
| `ModelCallsProofs` | five theorems about it |
| `MCModelCalls` | its TLC instance |
| `CandidateReview` | discovered candidates, their single and bulk reviews, and the sources these make |
| `CandidateReviewProofs` | four theorems about it |
| `MCCandidateReview` | its TLC instance |
| `RateLimiter` | the rate limiter of the middleware |
| `RateLimiterProofs` | two theorems about it |
| `Sessions` | login behind the limiter, the checks of an administrative request, logout, and the change of the credentials |
| `SessionsProofs` | three theorems about it |
| `MCSessions` | its TLC instance |

An operator whose name begins with `Mut` stands next to the definition it is a
mutation of: with it in place of that definition, a run that passes fails. It shows
that the property can be broken by a plausible mistake in that code.

### CaptionIngestion

An action is what lies between two points where another process can get in: a
commit, a `SELECT` whose result is used later, an upload, a message.

| Variable | Code |
|---|---|
| `job` | `background_jobs` rows of this type: status, source and `use_zyte_proxy`; "blocked" is a failed row with the IP-block message that finished in the last 30 minutes |
| `queue` | messages of the `ingestion` queue |
| `request` | local variables of `process_approved_sources`; `loaded` is what its session holds of `latest_job_by_source` |
| `worker` | local variables of `_process_approved_source`; `copy` is the status the session loaded |
| `store` | object keys: UTC date and content digest, not the digest alone |
| `overlaps` | not in the code: how many requests came in while another was in progress |
| `evidence` | artifact, version, transcript, segments and chunks, which one transaction inserts together |

`StartBatch`, `ReadJobs`, `ReadSources`, `CommitBatch`, `SendTask` are the endpoint:
cooldown, latest jobs, `LIMIT` before sources with an active job are dropped, one
commit, then messages one by one. `Receive` to `Publish` are the task in the order of
its commits; `Raise` is any exception in between and `RecordFailure` is
`_set_ingestion_failure`, which writes `failed` over whatever the row says by then.
A job whose source has chunks, and one that has inserted them, end in `Succeed`, which
writes the payload back as the session has loaded it and so takes back a
`use_zyte_proxy` that a request has set meanwhile. The newest job of a source is by
`created_at`, the start of the transaction that inserted the row and not its commit.
When `RecordFailure` itself fails the row is left as it is: a connection error or a
timeout puts the message back, which is what `WorkerDies` does, and after any other
error it is gone, as in `ChildKilled`; `TaskFails` of `EvidenceReview` is the same.
Two details of SQLAlchemy are kept because outcomes depend on them: a session writes
only attributes it has changed (a task that loads a running job writes no status, an
endpoint that loads a payload with the wanted mode does not write the payload), and
the identity map keeps the values of the first read.

The environment: `Redeliver` (visibility timeout: the message is handed out again
while the first delivery goes on), `WorkerDies` (the machine: the message comes
back), `ChildKilled` (the pool process: with `task_acks_late` and without
`task_reject_on_worker_lost` Celery acknowledges), `SendFails` (the API process or
the broker between the commit and the message), `BlockAges`, `DayPasses`.

### JobLifeCycle

A row is `absent`, `queued`, `running` or ended, and is *owned* while somebody is still
going to act on it. `Queue` is the commit of an endpoint, `Start` and `End` are what a
task writes, `Drop` is a task that finds its row cancelled, and `Lose` is a process that
is gone with what it owned. Nobody but an owner changes a row, and an owner goes only in
the step that ends it or by `Lose`.

| Abstract | `CaptionIngestion` | `EvidenceReview` |
|---|---|---|
| `status` | `LifeStatus`: the status of `job`, an IP block being a failure | the status of `job` |
| `owned` | `HasOwner`: a request about to send, a message, or a task | the same |
| `lost` | `losses` | the same |

The two modules guard a row differently. A caption task looks at the status that its
session has loaded and leaves a cancelled row alone, a finished one not; cleanup and
analysis look at nothing. Both keep to the same life. It is about rows whose endpoint sends a
message: `POST /ingestion-jobs`, `/discovery` and the two imports also insert queued
rows (`manual_import`, `file_import`, `serp_discovery` or any type by name), which no
task of the repository consumes.

### EvidenceReview

| Variable | Code |
|---|---|
| `review` | `transcripts.review_status`; `sources.speaker_verified` is set with it in the same transaction |
| `version` | `MAX(source_versions.version)` |
| `chunks` | chunk rows, named by source, inserting version and `origin`, the captured passage or turn they were made from; `text` is what they store, `flags` that `quality_flags` is not empty, and `kind` stands for `embedding_version` |
| `suggestions` | `interview_turn_suggestions` |
| `job`, `queue`, `request` | the jobs, the `ai` queue and the endpoints that queue them |
| `worker` | `_clean_verified_sources` (`todo` = `source_ids`, `old` = the rows read) and `_analyze_interview_turns` |
| `admin` | `review_interview_turns` between its read and its commit |

`SpeakerReview` is one transaction over every chunk of the selected sources.
`RequestCleanup` or `RequestAnalysis`, `CommitJob`, `SendTask` are the endpoints: the
check for an active job and the insert are separate, so two requests may both pass.
`StartCleanup`, `CleanRead`, `CleanPublish`, `CleanEnd` are the loop of the cleanup,
with the provider's wait between `CleanRead` and `CleanPublish`. A cleaned copy stores
any text of `Rewrites`, flagged or not, under the flags of the row that was read: the
task does not look for flags in what the model returned (`Cleaned`). `AnalysisPublish` is
the one transaction of an analysis, with the confident turns published at once when
`AutoPublish` is on. `TurnReviewRead` and then `TurnReject` or `TurnApprove` are a
turn review, with the wait for embeddings in between. No task looks at the status its
row already has; `TaskFails` rolls the open transaction back and writes `failed`.

### InterviewScript

The script is a process of its own beside the server. Every step of it is one HTTP
request, and everything else goes on between two of them.

| Variable | Code |
|---|---|
| `script.mode` | `--existing-only`, `--exclude-only`, or neither |
| `script.pc`, `first`, `todo`, `source` | where `run` and `review_pending` are: the loop over the listed sources (`first`), or a round of polling |
| `script.listed`, `queued`, `completed`, `failed` | `mixed_sources()` and the sets of source ids of `run` |
| `script.snapshot` | `latest_by_source` of the round |
| `script.reject`, `approve` | the ids of `review_pending` that are still to be posted |
| `label` | `suggested_role == "iyin"` in the rows of an analysis |
| `Script`, `ScriptRequest` | the entries of `admin` and `request` in which the server works for the script |

`Begin` lists the mixed interviews. `NextSource` lists the suggestions of the next one:
if there are some they are reviewed (`ListPending`, `PostReview` for each batch,
`SourceReviewed`), if there are none an analysis is asked for (`Analyze`, then the
server's `AnalysisCommitted` and `AnalysisQueued`). `Poll`, `Look` and `EndOfRound` are
the polling loop. A response that is not 2xx ends the script (`Died`): 422 for a source
that is no longer mixed, 404 for a batch with a suggestion that is no longer pending, and
`AnalysisRefused` and `ReviewRefused` for an error of the server. After `ScriptFails` the
server still ends what the script had asked for.

### Answers

`Answers` extends `EvidenceReview` with a question (`ask`) and a history variable
(`seen`: the chunks that could be cited at some moment since the question came in).
Its next-state relation is every step of the writers or a step of the question.

| Action | Code |
|---|---|
| `Question` | `POST /ask` comes in; `mode` is "vector" for `EMBEDDING_PROVIDER=openai` |
| `KeywordRank`, `VectorRank` | the two ranking statements of `search_chunks`, each over the chunks that are eligible when it runs, in any order |
| `LoadRows` | the third statement, which does not filter again, and the fusion, the sort and the diversification: `Score` is the sum of `1 / (k + rank)` as a fraction, `Diversified` and `FirstRows` are the loop |
| `Answer` | the provider names any chunks; `Validated` keeps the ones it was given |
| `AskFails` | 502, 503, or the database |

### ModelCalls

One task is the analysis of an interview or the cleanup of one source. `todo` is the
stack of batches still to be sent, so that the recursion of `analyze_batch` is a state
and can be seen half way. A model may return any list of segments or rows, of the
right JSON shape; `Preserves`, `Kept` and `Complete` are what the provider classes do
with it, including the answer about a single chunk, whose id is not looked at. `Kept`
leaves the rows their places, so that a chunk answered twice counts twice; `cleaned` is
the set of the rows accepted so far. A turn is a cut of its batch (`Groupings`).
`Bisected` and `OneByOne` are the two ways on after a `ValueError`; any other error is
`TaskFails`. `recorded` is what the tasks insert into `provider_cost_records` when
they succeed, `others` what answers and turn reviews insert.

### CandidateReview

| Variable | Code |
|---|---|
| `status` | `source_candidates.status` by `normalized_url`; "absent" is no row |
| `sources` | `sources`: `canonical_url` and `candidate_id` |
| `audits` | rows "candidate.approved" of `audit_logs`, by candidate |
| `review` | a request between its reads and its commit: what it picked, and its decision |

`CreateCandidate` is the endpoint and the import of a discovery file. `ReviewRead` is
`review_candidate` up to the check of `status`; `BulkRead` and `BulkCheckUrls` are the
two SELECTs of `bulk_approve_candidates`. `Approve` and `Reject` are the transaction
that writes: nothing reads `status` again, and only the UNIQUE `canonical_url`
(`MayCommit`) refuses. `ReviewFails` is that refusal and every other rollback.

### RateLimiter and Sessions

| Variable | Code |
|---|---|
| `now` | `time.monotonic()`, and the clock of the database's timestamps |
| `events` | `events` of the middleware, by client and path |
| `admitted`, `refused` | history: the times of what was let through, and of the last refusal |
| `password` | `users.password_hash`, by how often it was changed |
| `sessions` | rows of `sessions`; `password` and `overlap` in them are history |
| `login` | `login` of `routes.py`, with `create_session`, between its statements |
| `sync` | `sync_admin_credentials.py` between its DELETE, with what that sees, and its commit |
| `call` | an administrative request between `require_csrf`, `current_user` and its handler; `live` is history: whether its session was open when it came in |

`Admit` and `Refuse` are `dispatch` up to the handler, one step because it does not wait
between the clock and the queue. `LoginArrives` is a login that is admitted. `SyncDelete`
deletes the sessions that are committed by then; `LoginVerify` may read the old hash
before `SyncCommit` and `LoginCommit` may come after it. `CheckCsrf` and `CheckUser` each
look the session up, and `Act` is the handler, which does not look again.

### Abstractions, and what they leave out

- Texts are model values; whether a text has flags is fixed by the text (`Flagged`),
  because `prompt_injection_flags` is a function of it. A raw chunk and a turn get the
  flags of their text. A cleaned chunk gets a text of `Rewrites`, which is whatever the
  model makes of the passage, and the flags of the chunk it replaces. No later step
  reads the text of a cleaned chunk, so one rewrite, a flagged one, is enough for
  `review_cleanup` and `answers`.
- `CaptionIngestion`: the limit of 500 job rows is above every bound; `ensure_bucket`
  and the contents of caption tracks are left out; the cooldown check and the
  deferring commit are one action; a Zyte batch refused by its estimate changes
  nothing; an IP block through Zyte is an ordinary failure, because the library words
  it differently and the pattern the code searches for does not match.
- `Answers`: every source is approved, in tier A or B, of the founder asked about and
  a work of its own; the rows of one fused score come in any order.
- `ModelCalls`: texts, roles and confidence are left out; costs are small integers; a
  task ends without a trace of its local variables; the change of month is left out.
- `EvidenceReview`: the two SELECTs of a cleanup request are one action; two reads of
  one source in `CleanRead` (budget, rows) are one action and an exhausted budget is a
  `TaskFails`; `MAX(version) + 1` and its insert are one action, and a collision at
  the UNIQUE constraint is a `TaskFails`; `speaker_assignments` and segment columns
  are left out because nothing else reads them; `cancel_requested` is left out because
  nothing sets it; the confident turns of an analysis are any subset of its turns.
- `CandidateReview`: a transaction that writes is one action, because the first row it
  updates or inserts keeps others waiting until it ends; the check for a duplicate
  candidate and its insert are one action, as `normalized_url` is UNIQUE; founders,
  scores, tiers and notes are left out.
- `InterviewScript`: the script's login is left out, and so are the sizes of the lists it
  reads (200 sources, 200 jobs, 5000 suggestions), which are above every bound; the
  order of the sources is any; the waits between rounds take no time.
- `RateLimiter`, `Sessions`: times are small integers; the queues of the other limited
  paths are further keys; there is one administrator, who exists and is active; the
  script's branch that changes an administrator's address, `GET /auth/me` and the
  attributes of the cookie are left out.
- Deadlock is not checked (`CHECK_DEADLOCK FALSE`): every counter has a bound, the
  system may use them all up, and it may then rightly have nothing to do.

## 3. Runs

Every run that is expected to pass explores its whole state space.

| Run | Instance | Shows |
|---|---|---|
| `ingest_race` | 2 sources taken one at a time, 2 jobs, 2 requests, 2 workers, 2 dates, `BlockLimit` 1; 2 batches, 1 repeat, 1 death, 1 loss | `TypeOK`, `SucceededHasEvidence`, `EvidenceIsStored`, `VersionsContiguous`, `ActiveJobHasOwner`, `CooldownOvershoot`, `IngestedOnce`, `JobsFollowLifeCycle` |
| `ingest_live` | 1 source, 2 jobs, 2 requests, 2 workers; 2 batches, 1 repeat, 1 death, no loss, with fairness | `JobsEnd` |
| `review_cleanup` | 2 sources, 2 passages (one flagged), 1 rewrite (flagged), 1 turn, 2 jobs, 2 workers, 2 speaker reviews, 1 turn review, 1 repeat, 1 death, 1 loss, auto-publish off | `TypeOK`, `CapturedFlagsExcluded`, `CitableHasSpeaker`, `NoEvidenceGap`, `CitedOnce`, `TasksFollowLifeCycle` |
| `interview_script` | the script in its three modes over 1 source with 2 turns (one flagged), batches of 1; 1 request of somebody else, 2 jobs, 2 workers, 2 speaker reviews, 1 death, 1 loss, auto-publish off, with fairness | `ApprovedHasChunk`, `TurnsApprovedByAdmin`, `EndMeansReviewed`, `CitedTurnsLabelled`, `TasksEnd`, `ScriptEnds` |
| `answers` | 2 sources, 2 passages (one flagged), 1 rewrite (flagged), 1 turn, 2 jobs, 2 speaker reviews, 3 results of at most 2 per work | `AskTypeOK`, `AnswersWereCitable`, `AnswersFlagsExcluded`, `ResultsDiverse`, `RankingsRespected`, `AnswerCitesOnce` |
| `model_calls` | 4 segments in batches of 3, 2 chunks, 2 tasks at once, 3 in all, 1 other call, limit 3, with fairness | `SegmentsInOrder`, `ChunksCleanedOnce`, `CallsBounded`, `CostOvershoot`, `CallsEnd` |
| `candidate_review` | 3 candidates, any of them with a source from before, 3 reviews at once | `TypeOK`, `ApprovedHasSource`, `ApprovalsAudited`, `BulkAllOrNothing` |
| `sessions` | 2 logins from 1 client, 1 administrative request after another, limit 2 in a window of 2, sessions of 2, 4 ticks, 1 change of the password | `WindowLimit`, `RefusedWhenFull`, `OldSessionsRevoked`, `ActsWithLiveSession` |

`ingest_race`, `review_cleanup` and `sessions` use the symmetry of processes: requests,
workers, logins and calls are interchangeable in the modules, and none of these runs
checks liveness. Sources are numbers and are not in the symmetry.

In `interview_script` two turns are the least that an analysis can label differently and
that are posted in two batches, so that the rows of the second may change after the
first; the request of somebody else brings a second analysis between any two steps of
the script. In `sessions` two logins let one be refused or overlap a rotation beside
another; a window of 2 in 4 ticks has an event that leaves it exactly, and one that does
not. The theorems cover every size of both.

In `answers` two jobs and two reviews give a source a raw chunk, a cleaned one and
turns, so that rankings of up to three chunks of two works meet limits of 2 and 3. In
`model_calls` three segments are the least that are halved twice and unevenly, the
fourth makes a second batch; a third task is needed for one to start when the others
have used the limit up. All its calls go to one provider, whose records both kinds
of task then share.

Two workers and one source are what the races need: each of them is between two
deliveries, two requests, or a review and a task, about one source. Two sources are
added where a step acts on one of several (`LIMIT`, the loop of a cleanup). One
repeat, one death and one loss are each enough for every order of that fault and the
steps of the others; two jobs let a failed or dead one be followed by another. A
`BlockLimit` of 1 brings the cooldown within reach of two jobs; the theorem
`CooldownCorrect` covers every limit.

In `candidate_review` three candidates let two bulk approvals share one candidate and
differ in another, and the third review rejects or approves it alone meanwhile.

Conditions are part of the properties where the code needs them. `ActiveJobHasOwner`
says nothing once a message is lost, `CitedOnce` nothing where a second request could
overlap, or once a delivery is repeated or a second speaker review is made,
`IngestedOnce` nothing once two requests overlap or a delivery is repeated, and
`TurnsApprovedByAdmin` is checked where auto-publish is off. `TasksEnd` and `ScriptEnds`
say nothing once a message is lost: the row it was for stays queued, and the script
polls it for ever. `CitedTurnsLabelled` needs that nobody else reviews turns and that
auto-publish is off, `OldSessionsRevoked` leaves the sessions of overlapping logins out.
`CapturedFlagsExcluded` and `AnswersFlagsExcluded` are about the flags of what was
captured, and of a turn; they leave out the text that a cleanup wrote.
`AnswerCitesOnce` needs what `CitedOnce` needs and the keyword mode: with embeddings the
two rankings are two statements, and may see a chunk and its cleaned copy. Some of what
happens otherwise is below; the condition of a single speaker review is there because
verifying a cleaned source again enables its raw chunks beside the cleaned ones
(`routes.py` 1551-1562), although `docs/progress.md` calls them retained but disabled
for answers.

### Where the code and the documentation disagree

These runs end in a violation of what a document says; the trace is the scenario.

| Run | Document | What the code does |
|---|---|---|
| `cooldown_forgotten` | "Direct caption requests activate a 30-minute cooldown after three recent YouTube IP-block responses" (`docs/approved-source-processing.md`) | the count is of failed rows, and queueing those sources again clears them |
| `queue_stuck` | "can queue every approved YouTube source that does not already have chunks" (same) | a message lost after the commit leaves its row queued for ever, and the endpoint passes its source over |
| `rejected_cleaned` | "Mixed-speaker and rejected sources remain excluded" (`docs/openai-rag-and-cleanup.md`) | a source rejected during the provider's wait gets citable cleaned chunks |
| `rejection_lost` | "Only those reviewed chunks become answer-eligible" (`docs/interview-turn-review.md`) | an approval that read a suggestion as pending overwrites a rejection committed meanwhile |

Others were met and have no run. The text that a cleanup stores is published under the
flags of the text it replaces (`tasks.py` 571, 585-586) and `prompt_injection_flags` never
sees it, while both writers of turns call it on the text they store (`tasks.py` 920,
`routes.py` 1408): a rewritten text with an injection pattern can be cited.
`docs/security-threat-model.md` (22) names "Injection-pattern flags" as a control and does
not say of what text, so that there is no sentence to check it against. `docs/interview-turn-review.md` says that the monthly
guard sums OpenAI and Gemini costs and "still caps total spend", but the cleanup counts
OpenAI only (`tasks.py` 466-478), calls whose answer is not valid are paid and not
recorded, and answers are recorded and never refused; `docs/openai-rag-and-cleanup.md`
says a cleanup requires every input chunk id exactly once, but a single chunk takes the
first row returned, whatever its id; `put_immutable`'s key holds the date beside the
digest, so equal payloads of two days are two objects (`storage.py` 39-41); and
`docs/interview-turn-review.md` says that no suggested turn enters public retrieval
until an administrator approves it, while `interview_turn_auto_publish_iyin` lets the
task publish confident turns itself. `sync_admin_credentials.py` ends with "existing
sessions revoked" (line 32), but a login that has verified the old password when the
script deletes may commit its session afterwards, which then stays until it expires. In
`CandidateReview` a rejection that read its
candidate as pending overwrites an approval committed meanwhile: the candidate is
rejected and its source stays approved, which is why `ApprovedHasSource` goes one way
only.

## 4. Fairness

`Fairness` is weak fairness of a request's next step and of a worker's next step.
A request that was accepted runs on: nothing in an endpoint waits for another actor.
A Celery worker takes a waiting message when it is idle, and a task goes on because
every call it makes has a time limit or is ended by `task_soft_time_limit`; when it
ends in an exception instead, that step is a `Raise` or `TaskFails`, which is allowed
and not required. Faults, failures, administrators and the clock are never required
to happen. `JobsEnd` is checked without losses, and `TasksEnd` and `ScriptEnds` up to the
first, because a lost message defeats them in the code (`queue_stuck`). `ScriptFairness`
adds that the script takes its next step, which is its own loop with a time limit on
every request, and that the server ends what it was asked. `CallsEnd` assumes that a call is answered or
ends in an error, because every client of a provider has a time limit.

## 5. Proofs

All theorems hold for every value of the constants that satisfies the named
assumptions of the modules (finite sets of sources, texts, requests, workers and tasks;
bounds and limits in `Nat`; disjoint passages and turns); two, `AdminCorrect` and
`ScriptAdminCorrect`, also assume that auto-publish is off. Every invariant that a
passing run checks is a theorem, and so is every action property and every
refinement.

`CaptionIngestionProofs`:

- `TypeCorrect` - `TypeOK` is inductive. Its part `Carries` says what a task has got
  hold of by each step; without it `Publish` could insert version 0 or no key.
- `SucceededCorrect` - `SucceededHasEvidence`: evidence is never deleted, and the
  three steps that write `succeeded` find it or insert it in the same transaction.
- `OwnerCorrect` - `ActiveJobHasOwner` is inductive with `TypeOK`: the owner of a row
  moves from request to message to task and is given up only by a step that ends the
  row; a repeated delivery adds an owner and never takes one.
- `CooldownCorrect` - `CooldownOvershoot` is inductive because it counts the recent
  blocks together with the tasks that may still add one: passing the check needs fewer
  than the limit, and a block only moves from the second count to the first.
- `EvidenceCorrect` - `EvidenceIsStored` is not inductive: a task inserts what it
  uploaded some steps ago, for the source its row names *now*. The invariant
  `EvidenceInv` adds `Uploaded` (a task past the upload has its object in the bucket),
  `ReferencesLive` (requests, messages and tasks refer to rows that exist) and
  `RowsInOrder` (the rows in use are `1..n`, so a commit takes free ones), which
  together say that nobody changes the source of a row that a task works on.
- `LifeCorrect` - `JobsFollowLifeCycle`, that is `Spec => Life!Spec`. The initial states
  map, and `LifeStep` maps every step to a step of `JobLifeCycle` or to a stutter: a
  commit is `Queue` of all the rows of its batch, new and requeued (`LifeOfCommit`), a send
  hands a row from the request to the message and changes nothing (`LifeOfSend`), a task
  that begins, ends, or is dropped is `Start`, `End` or `Drop` (`LifeOfTask`), and the
  lost processes are `Lose` (`LifeOfFault`). `TypeOK` is all the invariant it needs.
- `VersionsCorrect` - `VersionsContiguous`. `MAX(version)` is read in one step and the row
  inserted in another, so the number a task holds may be stale. `VersionInv` adds that it
  lies in `1 .. n + 1` where the source has `n` rows (`VersionRead`): a smaller one is
  refused by the UNIQUE constraint, and `n + 1` closes no gap because there is none. Rows
  are only added (`EvidenceSteps`), and `SourceKept` from `EvidenceInv` says that the
  source the task reads through its row is the same at both steps.
- `IngestedOnceCorrect` - `IngestedOnce`. `QuietInv` says that, while requests do not
  overlap and no delivery is repeated, there is one row for a source, one owner for a row,
  and an owned row is active and its source without evidence. That is inductive only
  with what a request holds between its statements: what it has loaded of a source may
  miss that a job has ended, never that one has begun (`LoadedIsCurrent`), and the
  sources it is about to queue have neither a job nor chunks (`TargetsFresh`). Failures,
  deaths and lost messages need no condition: they only take owners away.

`EvidenceReviewProofs`:

- `TypeCorrect` - `TypeOK`.
- `CapturedFlagsCorrect`, `SpeakerCorrect` - `CapturedFlagsExcluded` and
  `CitableHasSpeaker`, from `CitableInv`, which adds `OldHasSpeaker`: the rows a cleanup
  has read and not yet written back had a speaker when read; and `FlagsOfCapture`: the
  flags of a chunk, in the table or read by a cleanup, are those of its origin, and its
  text is its origin unless a cleanup wrote it. The lemma `ChunkOrigins` lists where a
  chunk of the next state can come from.
- `NoGapCorrect` - the action property `NoEvidenceGap`, from the lemma `NoGapStep`.
  Its argument: a step that disables a raw chunk of a source that stays verified
  inserts a copy of the same passage, with the same (no) flags, in the same transaction.
- `ApprovedCorrect` - `ApprovedHasChunk`: no writer deletes a chunk or changes its text
  (`ChunksKept`), and the only two steps that set `approved` insert the chunk.
- `AdminCorrect` - `TurnsApprovedByAdmin`, assuming `~AutoPublish`. Its invariant
  `ReviewInv` adds `PickedStored` (what a turn review has read is still in the table
  under its key) and `TurnsReviewed` (every turn chunk, citable or not, so that a later
  speaker review cannot make an unreviewed one citable); `SuggestionsKept` says that no
  writer deletes a suggestion or takes its reviewer away.
- `LifeCorrect` - `TasksFollowLifeCycle`, along the same lines: the task does not look at
  its row, but it holds the row's message, so that what it writes is an owner's step.
- `CitedOnceCorrect` - `CitedOnce`, under its three conditions. `OnceInv` adds one owner
  for a job, one active cleanup at a time (`OneCleanup`), that what a cleanup has read can
  still be cited when it publishes (`ReadCurrent`), and that before the one speaker review
  there is one chunk of each passage and none is citable (`RawBefore`). Each
  part fails without the condition it is for: a second cleanup publishes a second
  copy of what the first has replaced, a second review enables the raw chunks again.

`InterviewScriptProofs`: `ScriptSpec` does not imply `Spec`, because `PostReview` reads a
batch for an administrator beyond the bound on turn reviews. `ScriptSteps` says that every
step is one of `EvidenceReview` or a `Posted`, so that the lemmas about its steps are used
again, and only `Posted` is new:

- `ScriptTypeCorrect`, `ScriptApprovedCorrect`, `ScriptAdminCorrect` - `TypeOK`,
  `ApprovedHasChunk` and `TurnsApprovedByAdmin` with the script at work.
- `EndCorrect` - `EndMeansReviewed`. What the script has listed changes before it posts,
  and a post decides nothing when one of its ids is no longer pending. `ProgressInv`
  therefore says that a pending suggestion the script has read is in a list still to be
  posted, in the request on its way, or left on purpose by an exclusion pass
  (`ReviewProgress`), that analyses that come later are numbered higher than what was read
  (`RunsBounded`), and that a listed interview is always in one of the script's sets
  (`NoneForgotten`).
- `LabelledCorrect` - `CitedTurnsLabelled`. `LabelInv` follows the labels from the lists
  through the request in progress (`SortedOut`), which the server ends even when the script
  has died, and says it of every turn chunk, citable or not (`TurnsLabelled`); a label
  that is missing stays missing because a run's turns are labelled once (`NotIyinsKept`).

`AnswersProofs`:

- `EvidenceUnchanged` - `AskSpec => Spec`: the theorems above hold of the system with
  questions.
- `AnswersCitable` - `AnswersWereCitable`. Its invariant `AskInv` says that all a
  question holds was citable at some moment since it came in and that, while it is
  open, the history has what is citable now.
- `AnswersFlagsCorrect` - `AnswersFlagsExcluded`, from the two above and `CitableInv`: no
  answer cites what was captured with flags, from the speaker review to the citation. The
  history holds ids, whose origin has no flags (`SeenUnflagged`); that the row behind an id
  still stores its origin, unless a cleanup wrote it, is `FlagsOfCapture`.
- `AskTypeCorrect`, `DiverseCorrect`, `FusionCorrect` - `AskTypeOK`, `ResultsDiverse` and
  `RankingsRespected`, from one invariant. `QuestionInv` adds that the evidence is
  finite, that the two rankings are finite and of positive ranks (`FusedFinite`), and that
  there are no results before rows are loaded. A better rank is a larger fraction,
  for any two ranks and any `RankConstant`, so that the sort keeps what both rankings agree
  on; the loop of the diversification only drops.
- `CitesOnceCorrect` - `AnswerCitesOnce`, from `OnceInv` of `EvidenceReview`. A keyword
  question sees one copy of a passage in the one statement that filters (`CitesInv`); the
  statement that loads rows can lose some to a cleanup and never adds one.

`CandidateReviewProofs`:

- `TypeCorrect`, `ApprovedCorrect`, `AuditCorrect` - their invariant `Inv` is inductive
  because an approval commits only when no source has one of its URLs, so it never
  counts one twice and never approves without inserting.
- `BulkCorrect` - the action property `BulkAllOrNothing`, with the part `BulkApproves` of
  `Inv`: what a bulk review writes is never a rejection.

`RateLimiterProofs`:

- `LimitCorrect` - `WindowLimit`. The history of what was admitted never shrinks; the
  invariant says that the queue is a suffix of it and that everything before that suffix
  has left the window. The queue has fewer than `Limit` events when one is added, so the
  one `Limit` places earlier is either not in it or does not exist.
- `RefusalCorrect` - `RefusedWhenFull`: the same suffix, of which a refusal finds `Limit`.

`SessionsProofs`:

- `RevokedCorrect` - `OldSessionsRevoked`. Its invariant adds what holds half way: the
  script will delete every session that did not overlap it (`SyncSees`), and a login that
  has verified holds the password of now unless it overlapped (`LoginsCurrent`).
- `LiveCorrect` - `ActsWithLiveSession`, with `CallsLive`: the first of the two look-ups is
  what makes a request live, and tokens are handed out only after their commit.
- `LimiterUnchanged` - `SessionsSpec => LimiterSpec`: the limiter's theorems hold of the
  login path.

`ModelCallsProofs`: `CallsInv` gives every running task its arithmetic, and the four
properties follow from it, for every number of segments and chunks and every batch size.

- `CallsCorrect` - `CallsInv`. For an analysis, `Analysed` says that the turns so far are
  consecutive intervals from 0 to some `n`, that the batches left are the intervals from
  `n` to the end, and that each bisection has added one batch, so that calls are counted by
  batches: `calls = Len(todo) + 2 * done - Len(Batches)`. For a cleanup, `CleanedSoFar` says
  that the first `k` chunks have one text each and what is left is everything or the
  other chunks one at a time.
- `SegmentsCorrect` - `SegmentsInOrder`: intervals that follow each other flatten to the
  numbers in order (`FlattenConsecutive`), and `HalvesConsecutive`, `BatchesConsecutive` and
  `GroupingConsecutive` say that bisecting, batching and grouping keep them so.
- `CleanedCorrect` - `ChunksCleanedOnce`: rows that name every chunk and are as many as
  the chunks have one text each (`CompleteRows`).
- `CallsBoundedCorrect` - `CallsBounded`: every batch has a segment, so there are at
  most as many batches as segments left.
- `OvershootCorrect` - `CostOvershoot`. The limit is compared once, before the first call, so
  what a task has yet to record must be reserved: `MoneyInv` says that a provider's records
  and the most its running tasks may add stay under the limit plus what all the tasks may
  add. It is conditional on the provider having been paid or called, because a limit of 0
  lets no task begin.

`SegmentsInOrder` uses `FlattenSeq` of the community modules. What it returns is found by
expanding the recursive function of its definition, and `UpTo` is induction over the set of
numbers up to a bound, which needs no theorem with an operator for a parameter.

Only model-checked: `JobsEnd`, `TasksEnd`, `ScriptEnds` and `CallsEnd`, since liveness under
fairness and `ENABLED` are out of the prover's reach; and the four violations, which are
traces and not theorems.

## 6. Plan

An abstract `CitableEvidence` (passages appear and disappear only by review), implemented
by `EvidenceReview` and read by `Answers`, with its refinement as a theorem; then the
functions of `services/content.py` that cut captions into chunks, over bounded texts.

## 7. Not modelled

- Chunking (`caption_chunks`, `semantic_chunks`) and the content checks: pure functions
  of texts, whose results the models take as model values. What they do with a text
  could be checked over bounded inputs and is not yet.
- The web application: `AskForm` and `InterviewTurnReview` keep requests and history of
  one page, which nothing else reads. An answer that comes in late lands in the
  conversation that is selected by then (`ask-form.tsx` 165), and two tabs overwrite each
  other's history (111); both are listed as hazards.
- The crawler: parsing of pages, and counters that end a crawl of one process.
- Manual import, file import, corrections and the catalogue: single inserts and reads;
  the job rows they insert have no consumer.
- Scoring, URL normalisation, evaluation, seeding, migrations, deployment, HTTP parsing,
  prompts and provider protocols: configuration, input and output, or fixed data.
