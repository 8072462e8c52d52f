----------------------- MODULE CaptionIngestionProofs -----------------------
(***************************************************************************)
(* What CaptionIngestion keeps for any number of sources, requests and      *)
(* worker processes and for any bounds.                                     *)
(***************************************************************************)
EXTENDS CaptionIngestion, FiniteSetTheorems, WellFoundedInduction, TLAPS

-----------------------------------------------------------------------------
(* Operators.                                                               *)

\* A non-empty set of numbers up to n has a largest one.
LEMMA MaximumExists ==
    ASSUME NEW n \in Nat, NEW S \in SUBSET (1 .. n), S # {}
    PROVE  \E m \in S : \A i \in S : i <= m
<1> DEFINE T == {n - i : i \in S}
<1>1. T \subseteq Nat /\ T # {}
  <2>1. PICK i \in S : TRUE
    OBVIOUS
  <2>2. n - i \in T
    BY <2>1
  <2> QED
    BY <2>2
<1>2. PICK x \in T : \A y \in T : <<y, x>> \notin OpToRel(<, Nat)
  BY <1>1, NatLessThanWellFounded, WFMin, Zenon
<1>3. \A y \in T : ~(y < x)
  BY <1>1, <1>2 DEF OpToRel
<1>4. PICK m \in S : x = n - m
  OBVIOUS
<1>5. ASSUME NEW i \in S PROVE i <= m
  <2>1. ~(n - i < x)
    BY <1>3
  <2> QED
    BY <2>1, <1>4
<1> QED
  BY <1>5

\* Of the jobs of a source, if it has one, some job was created last.
LEMMA LatestExists ==
    ASSUME TypeOK, NEW s \in Sources, JobsOf(s) # {}
    PROVE  \E j \in JobsOf(s) : \A i \in JobsOf(s) : job[i].created <= job[j].created
<1> DEFINE T == {job[i].created + 1 : i \in JobsOf(s)}
<1>1. \A i \in JobsOf(s) : job[i].created \in 0 .. MaxBatches
  BY DEF TypeOK, DatabaseOK, Row, JobsOf
<1>2. T # {} /\ T \in SUBSET (1 .. MaxBatches + 1)
  BY <1>1, BoundsAssumption
<1> HIDE DEF T
<1>3. PICK m \in T : \A x \in T : x <= m
  <2>1. MaxBatches + 1 \in Nat
    BY BoundsAssumption
  <2> QED
    BY <1>2, <2>1, MaximumExists
<1>4. PICK j \in JobsOf(s) : m = job[j].created + 1
  BY DEF T
<1>5. ASSUME NEW i \in JobsOf(s) PROVE job[i].created <= job[j].created
  <2>1. job[i].created + 1 <= job[j].created + 1
    BY <1>3, <1>4 DEF T
  <2> QED
    BY <1>1, <2>1
<1> QED
  BY <1>5

\* The latest job of a source is a job of that source.
LEMMA LatestJobType ==
    ASSUME TypeOK, NEW s \in Sources, LatestJob(s) # NoJob
    PROVE  LatestJob(s) \in JobsOf(s)
<1>1. JobsOf(s) # {}
  BY DEF LatestJob
<1>2. \E j \in JobsOf(s) : \A i \in JobsOf(s) : job[i].created <= job[j].created
  BY <1>1, LatestExists
<1> QED
  BY <1>1, <1>2 DEF LatestJob

\* What the endpoint loads for a source is a row of the source or nothing.
LEMMA LoadType ==
    ASSUME TypeOK, NEW s \in Sources
    PROVE  /\ Load(s) \in LoadedJob
           /\ Load(s).id # NoJob => Load(s).id \in JobsOf(s)
<1>1. CASE LatestJob(s) = NoJob
  BY <1>1 DEF Load, LoadedJob, Status
<1>2. CASE LatestJob(s) # NoJob
  <2>1. LatestJob(s) \in JobsOf(s)
    BY <1>2, LatestJobType
  <2>2. job[LatestJob(s)] \in Row
    BY <2>1 DEF TypeOK, DatabaseOK, JobsOf
  <2> QED
    BY <1>2, <2>1, <2>2 DEF Load, LoadedJob, Row, JobsOf
<1> QED
  BY <1>1, <1>2

-----------------------------------------------------------------------------
(* Type correctness: what one update of a row or of a process keeps.        *)

\* A step that writes row i: its status, and perhaps the mode in its payload.
RowSet(i, status) ==
    \E zyte \in BOOLEAN : job' = [job EXCEPT ![i].status = status, ![i].zyte = zyte]

\* What the code does to one row is such a step.
LEMMA RowWrites ==
    ASSUME TypeOK
    PROVE  /\ \A i \in JobIds : \A status : SetStatus(i, status) => RowSet(i, status)
           /\ \A w \in Workers : Succeed(w) => RowSet(worker[w].job, "succeeded")
<1>1. ASSUME NEW i \in JobIds, NEW status, SetStatus(i, status) PROVE RowSet(i, status)
  <2>1. job[i] \in Row /\ job[i].zyte \in BOOLEAN
    BY DEF TypeOK, DatabaseOK, Row
  <2>2. job' = [job EXCEPT ![i].status = status, ![i].zyte = job[i].zyte]
    BY <1>1, <2>1 DEF SetStatus, TypeOK, DatabaseOK, Row
  <2> QED
    BY <2>1, <2>2 DEF RowSet
<1>2. ASSUME NEW w \in Workers, Succeed(w)
      PROVE  RowSet(worker[w].job, "succeeded")
  <2>1. worker[w].zyte \in BOOLEAN
    BY DEF TypeOK, WorkersOK, WorkerState
  <2> QED
    BY <1>2, <2>1 DEF Succeed, RowSet
<1> QED
  BY <1>1, <1>2

LEMMA RowSetType ==
    ASSUME DatabaseOK, NEW j \in JobIds, NEW status \in Status, RowSet(j, status)
    PROVE  job' \in [JobIds -> Row]
<1>1. PICK zyte \in BOOLEAN :
        job' = [job EXCEPT ![j] = [job[j] EXCEPT !.status = status, !.zyte = zyte]]
  BY DEF RowSet
<1>2. job[j] \in Row
  BY DEF DatabaseOK
<1>3. [job[j] EXCEPT !.status = status, !.zyte = zyte] \in Row
  BY <1>2 DEF Row
<1> QED
  BY <1>1, <1>3 DEF DatabaseOK

LEMMA WorkerUpdate ==
    ASSUME WorkersOK, NEW w \in Workers, NEW q \in WorkerState,
           Carries(q),
           worker' = [worker EXCEPT ![w] = q]
    PROVE  WorkersOK'
BY DEF WorkersOK

LEMMA RequestUpdate ==
    ASSUME RequestsOK, NEW r \in Requests, NEW q \in RequestState,
           request' = [request EXCEPT ![r] = q]
    PROVE  RequestsOK'
BY DEF RequestsOK

LEMMA IdleWorkerType == IdleWorker \in WorkerState /\ Carries(IdleWorker)
BY DEF IdleWorker, WorkerState, WorkerPcs, Status, Carries

LEMMA IdleRequestType == IdleRequest \in RequestState /\ IdleRequest.pc = "idle"
<1>1. [id |-> NoJob, status |-> "absent", zyte |-> FALSE] \in LoadedJob
  BY DEF LoadedJob, Status
<1> QED
  BY <1>1, BoundsAssumption DEF IdleRequest, RequestState, RequestPcs

LEMMA AckType ==
    ASSUME WorkersOK, NEW w \in Workers, Ack(w)
    PROVE  WorkersOK'
BY WorkerUpdate, IdleWorkerType DEF Ack

LEMMA GotoType ==
    ASSUME WorkersOK, NEW w \in Workers, worker[w].job \in JobIds,
           NEW pc \in {"checking", "fetching"}, Goto(w, pc)
    PROVE  WorkersOK'
<1> DEFINE q == [worker[w] EXCEPT !.pc = pc]
<1>1. worker[w] \in WorkerState /\ worker' = [worker EXCEPT ![w] = q]
  BY DEF WorkersOK, Goto
<1>2. q \in WorkerState /\ Carries(q)
  BY <1>1 DEF WorkerState, WorkerPcs, Carries
<1> HIDE DEF q
<1> QED
  BY <1>1, <1>2, WorkerUpdate

-----------------------------------------------------------------------------
(* Type correctness of the specification.                                   *)

LEMMA TypeInit == Init => TypeOK
<1> SUFFICES ASSUME Init PROVE TypeOK
  OBVIOUS
<1>1. DatabaseOK
  BY NumSourcesAssumption, BoundsAssumption DEF Init, DatabaseOK, Row, Status, Sources
<1>2. RequestsOK
  BY IdleRequestType DEF Init, RequestsOK
<1>3. WorkersOK
  BY IdleWorkerType DEF Init, WorkersOK
<1>4. OutsideOK /\ BoundsOK
  BY BoundsAssumption DEF Init, OutsideOK, BoundsOK, Days
<1> QED
  BY <1>1, <1>2, <1>3, <1>4 DEF TypeOK

\* The endpoint's commit makes rows of the sources it selected and writes rows
\* that it loaded.
LEMMA CommitBatchType ==
    ASSUME TypeOK, NEW r \in Requests, CommitBatch(r)
    PROVE  TypeOK'
<1> DEFINE rq == request[r]
           fresh == {s \in rq.targets : rq.loaded[s].id = NoJob}
<1>1. rq \in RequestState /\ rq.zyte \in BOOLEAN /\ rq.targets \subseteq Sources
      /\ rq.began \in 0 .. MaxBatches /\ rq.loaded \in [Sources -> LoadedJob]
  BY DEF TypeOK, RequestsOK, RequestState
<1>2. PICK new \in [fresh -> JobIds] :
        LET id == [s \in rq.targets |-> IF s \in fresh THEN new[s] ELSE rq.loaded[s].id]
            requeued == {id[s] : s \in rq.targets \ fresh}
        IN  /\ job' = [j \in JobIds |->
                  IF \E s \in fresh : new[s] = j
                  THEN [source |-> CHOOSE s \in fresh : new[s] = j,
                        status |-> "queued", zyte |-> rq.zyte, created |-> rq.began]
                  ELSE IF j \in requeued
                  THEN [job[j] EXCEPT !.status = "queued",
                           !.zyte = IF rq.loaded[job[j].source].zyte = rq.zyte THEN @ ELSE rq.zyte]
                  ELSE job[j]]
            /\ request' = [request EXCEPT ![r].pc = "send",
                                          ![r].unsent = {id[s] : s \in rq.targets}]
  BY DEF CommitBatch
<1> DEFINE id == [s \in rq.targets |-> IF s \in fresh THEN new[s] ELSE rq.loaded[s].id]
           sent == [rq EXCEPT !.pc = "send", !.unsent = {id[s] : s \in rq.targets}]
<1>3. {id[s] : s \in rq.targets} \subseteq JobIds
  <2>1. ASSUME NEW s \in rq.targets PROVE id[s] \in JobIds
    BY <1>1 DEF LoadedJob
  <2> QED
    BY <2>1
<1>4. ASSUME NEW j \in JobIds PROVE job'[j] \in Row
  <2>1. CASE \E s \in fresh : new[s] = j
    <3>1. (CHOOSE s \in fresh : new[s] = j) \in Sources
      BY <2>1, <1>1
    <3>2. job'[j] = [source |-> CHOOSE s \in fresh : new[s] = j,
                     status |-> "queued", zyte |-> rq.zyte, created |-> rq.began]
      BY <2>1, <1>2
    <3> QED
      BY <3>1, <3>2, <1>1 DEF Row, Status
  <2>2. CASE ~\E s \in fresh : new[s] = j
    <3>1. job[j] \in Row
      BY DEF TypeOK, DatabaseOK
    <3>2. rq.loaded[job[j].source].zyte \in BOOLEAN
      BY <3>1, <1>1 DEF LoadedJob, Row
    <3>3. \/ job'[j] = job[j]
          \/ job'[j] = [job[j] EXCEPT !.status = "queued",
                           !.zyte = IF rq.loaded[job[j].source].zyte = rq.zyte THEN @ ELSE rq.zyte]
      BY <2>2, <1>2
    <3> QED
      BY <3>1, <3>2, <3>3, <1>1 DEF Row, Status
  <2> QED
    BY <2>1, <2>2
<1>5. DatabaseOK'
  <2>1. job' \in [JobIds -> Row]
    BY <1>2, <1>4
  <2> QED
    BY <2>1 DEF CommitBatch, TypeOK, DatabaseOK
<1>6. RequestsOK'
  <2>1. request' = [request EXCEPT ![r] = sent]
    BY <1>2
  <2>2. sent \in RequestState
    BY <1>1, <1>3 DEF RequestState, RequestPcs
  <2> HIDE DEF sent
  <2> QED
    BY <2>1, <2>2, RequestUpdate DEF TypeOK
<1>7. WorkersOK' /\ OutsideOK' /\ BoundsOK'
  BY DEF CommitBatch, TypeOK, WorkersOK, OutsideOK, BoundsOK, bounds
<1> QED
  BY <1>5, <1>6, <1>7 DEF TypeOK

LEMMA RequestStepType ==
    ASSUME TypeOK, NEW r \in Requests, RequestStep(r)
    PROVE  TypeOK'
<1>1. request[r] \in RequestState
  BY DEF TypeOK, RequestsOK
<1>2. CASE ReadJobs(r)
  <2> DEFINE q == [request[r] EXCEPT !.pc = "sources", !.loaded = [s \in Sources |-> Load(s)]]
  <2>1. [s \in Sources |-> Load(s)] \in [Sources -> LoadedJob]
    BY LoadType
  <2>2. q \in RequestState
    BY <1>1, <2>1 DEF RequestState, RequestPcs
  <2>3. request' = [request EXCEPT ![r] = q]
    BY <1>2 DEF ReadJobs
  <2> HIDE DEF q
  <2>4. RequestsOK'
    BY <2>2, <2>3, RequestUpdate DEF TypeOK
  <2>5. DatabaseOK' /\ WorkersOK' /\ OutsideOK' /\ BoundsOK'
    BY <1>2 DEF ReadJobs, TypeOK, DatabaseOK, WorkersOK, OutsideOK, BoundsOK, database, bounds
  <2> QED
    BY <2>4, <2>5 DEF TypeOK
<1>3. CASE ReadSources(r)
  <2> DEFINE targets == {s \in FirstUnprocessed(request[r].limit) :
                            request[r].loaded[s].status \notin Active}
             q == [request[r] EXCEPT !.pc = "commit", !.targets = targets]
  <2>1. request' = [request EXCEPT ![r] = IdleRequest] \/ request' = [request EXCEPT ![r] = q]
    BY <1>3 DEF ReadSources
  <2>2. targets \in SUBSET Sources
    BY DEF FirstUnprocessed
  <2> HIDE DEF targets
  <2>3. q \in RequestState
    BY <1>1, <2>2 DEF RequestState, RequestPcs
  <2> HIDE DEF q
  <2>4. RequestsOK'
    BY <2>1, <2>3, IdleRequestType, RequestUpdate DEF TypeOK
  <2>5. DatabaseOK' /\ WorkersOK' /\ OutsideOK' /\ BoundsOK'
    BY <1>3 DEF ReadSources, TypeOK, DatabaseOK, WorkersOK, OutsideOK, BoundsOK, database, bounds
  <2> QED
    BY <2>4, <2>5 DEF TypeOK
<1>4. CASE CommitBatch(r)
  BY <1>4, CommitBatchType
<1>5. CASE SendTask(r)
  <2> DEFINE unsent == request[r].unsent
  <2>1. unsent \subseteq JobIds
    BY <1>1 DEF RequestState
  <2>2. PICK j \in unsent :
          /\ queue' = [queue EXCEPT ![j] = @ + 1]
          /\ request' = [request EXCEPT ![r] =
                            IF unsent = {j} THEN IdleRequest ELSE [@ EXCEPT !.unsent = unsent \ {j}]]
    BY <1>5 DEF SendTask
  <2> DEFINE q == [request[r] EXCEPT !.unsent = unsent \ {j}]
  <2>3. request' = [request EXCEPT ![r] = IdleRequest] \/ request' = [request EXCEPT ![r] = q]
    BY <2>2
  <2>4. q \in RequestState
    BY <1>1, <2>1 DEF RequestState
  <2> HIDE DEF q
  <2>5. RequestsOK'
    BY <2>3, <2>4, IdleRequestType, RequestUpdate DEF TypeOK
  <2>6. queue' \in [JobIds -> Nat]
    BY <2>1, <2>2 DEF TypeOK, OutsideOK
  <2>7. DatabaseOK' /\ WorkersOK' /\ OutsideOK' /\ BoundsOK'
    BY <1>5, <2>6 DEF SendTask, TypeOK, DatabaseOK, WorkersOK, OutsideOK, BoundsOK, database, bounds
  <2> QED
    BY <2>5, <2>7 DEF TypeOK
<1> QED
  BY <1>2, <1>3, <1>4, <1>5 DEF RequestStep

LEMMA WorkerStepType ==
    ASSUME TypeOK, NEW w \in Workers, WorkerStep(w) \/ FetchBlocked(w) \/ Raise(w)
    PROVE  TypeOK'
<1>1. worker[w] \in WorkerState /\ Carries(worker[w])
  BY DEF TypeOK, WorkersOK
<1>2. CASE \E j \in JobIds : Receive(w, j)
  <2>1. PICK j \in JobIds : Receive(w, j)
    BY <1>2
  <2> DEFINE q == [IdleWorker EXCEPT !.pc = "marking", !.job = j,
                                     !.zyte = job[j].zyte, !.copy = job[j].status]
  <2>2. job[j] \in Row
    BY DEF TypeOK, DatabaseOK
  <2>3. q \in WorkerState /\ Carries(q)
    BY <2>2 DEF IdleWorker, WorkerState, WorkerPcs, Row, Status, Carries
  <2>4. \/ UNCHANGED <<job, worker>>
        \/ RowSet(j, "cancelled") /\ UNCHANGED worker
        \/ worker' = [worker EXCEPT ![w] = q] /\ UNCHANGED job
    BY <2>1, RowWrites DEF Receive
  <2> HIDE DEF q
  <2>5. WorkersOK'
    <3>1. CASE UNCHANGED worker
      BY <3>1 DEF TypeOK, WorkersOK
    <3>2. CASE worker' = [worker EXCEPT ![w] = q]
      BY <2>3, <3>2, WorkerUpdate DEF TypeOK
    <3> QED
      BY <2>4, <3>1, <3>2
  <2>6. job' \in [JobIds -> Row]
    <3>1. CASE UNCHANGED job
      BY <3>1 DEF TypeOK, DatabaseOK
    <3>2. CASE RowSet(j, "cancelled")
      BY <3>2, RowSetType DEF TypeOK, Status
    <3> QED
      BY <2>4, <3>1, <3>2
  <2>7. queue' \in [JobIds -> Nat]
    BY <2>1 DEF Receive, TypeOK, OutsideOK
  <2>8. DatabaseOK' /\ RequestsOK' /\ OutsideOK' /\ BoundsOK'
    BY <2>1, <2>6, <2>7 DEF Receive, TypeOK, DatabaseOK, RequestsOK, OutsideOK, BoundsOK, bounds
  <2> QED
    BY <2>5, <2>8 DEF TypeOK
<1>3. CASE MarkRunning(w)
  <2>1. job' \in [JobIds -> Row]
    BY <1>1, <1>3, RowSetType, RowWrites DEF MarkRunning, Carries, TypeOK, DatabaseOK, Status
  <2>2. WorkersOK'
    BY <1>1, <1>3, GotoType DEF MarkRunning, Carries, TypeOK
  <2> QED
    BY <1>3, <2>1, <2>2 DEF MarkRunning, TypeOK, DatabaseOK, RequestsOK, OutsideOK, BoundsOK, bounds
<1>4. CASE CheckChunks(w)
  <2>1. job' \in [JobIds -> Row]
    BY <1>1, <1>4, RowSetType, RowWrites DEF CheckChunks, Carries, TypeOK, DatabaseOK, Status
  <2>2. WorkersOK'
    BY <1>1, <1>4, GotoType, AckType DEF CheckChunks, Carries, TypeOK
  <2> QED
    BY <1>4, <2>1, <2>2 DEF CheckChunks, TypeOK, DatabaseOK, RequestsOK, OutsideOK, BoundsOK, bounds
<1>5. CASE \E c \in Captions : FetchCaptions(w, c)
  <2>1. PICK c \in Captions : FetchCaptions(w, c)
    BY <1>5
  <2> DEFINE q == [worker[w] EXCEPT !.pc = "storing", !.caption = c]
  <2>2. q \in WorkerState /\ Carries(q)
    BY <1>1, <2>1 DEF FetchCaptions, WorkerState, WorkerPcs, Carries
  <2>3. worker' = [worker EXCEPT ![w] = q]
    BY <2>1 DEF FetchCaptions
  <2> HIDE DEF q
  <2>4. WorkersOK'
    BY <2>2, <2>3, WorkerUpdate DEF TypeOK
  <2> QED
    BY <2>1, <2>4 DEF FetchCaptions, TypeOK, DatabaseOK, RequestsOK, OutsideOK, BoundsOK, database, bounds
<1>6. CASE PutImmutable(w)
  <2> DEFINE key == [day |-> day, source |-> SourceOf(w), caption |-> worker[w].caption]
             q == [worker[w] EXCEPT !.pc = "versioning", !.day = day]
  <2>1. worker[w].job \in JobIds /\ worker[w].caption \in Captions /\ day \in Days
    BY <1>1, <1>6 DEF PutImmutable, Carries, TypeOK, OutsideOK
  <2>2. q \in WorkerState /\ Carries(q)
    BY <1>1, <2>1 DEF WorkerState, WorkerPcs, Carries
  <2>3. worker' = [worker EXCEPT ![w] = q] /\ store' = store \cup {key}
    BY <1>6 DEF PutImmutable
  <2>4. key \in Key
    BY <2>1 DEF SourceOf, TypeOK, DatabaseOK, Row, Key
  <2> HIDE DEF q, key
  <2>5. WorkersOK'
    BY <2>2, <2>3, WorkerUpdate DEF TypeOK
  <2>6. OutsideOK'
    BY <1>6, <2>3, <2>4 DEF PutImmutable, TypeOK, OutsideOK
  <2> QED
    BY <1>6, <2>5, <2>6 DEF PutImmutable, TypeOK, DatabaseOK, RequestsOK, BoundsOK, database, bounds
<1>7. CASE ReadVersion(w)
  <2>1. PICK n \in {0} \cup {e.version : e \in evidence} :
          worker' = [worker EXCEPT ![w].pc = "inserting", ![w].version = n + 1]
    BY <1>7 DEF ReadVersion
  <2> DEFINE q == [worker[w] EXCEPT !.pc = "inserting", !.version = n + 1]
  <2>2. n \in Nat
    <3>1. \A e \in evidence : e.version \in Nat
      BY DEF TypeOK, DatabaseOK, Ingestion
    <3> QED
      BY <2>1, <3>1
  <2>3. q \in WorkerState /\ Carries(q)
    <3>1. worker[w].pc = "versioning" /\ n + 1 \in Nat /\ n + 1 # 0
      BY <1>7, <2>2 DEF ReadVersion
    <3> QED
      BY <1>1, <3>1 DEF WorkerState, WorkerPcs, Carries
  <2>4. worker' = [worker EXCEPT ![w] = q]
    BY <2>1
  <2> HIDE DEF q
  <2>5. WorkersOK'
    BY <2>3, <2>4, WorkerUpdate DEF TypeOK
  <2> QED
    BY <1>7, <2>5 DEF ReadVersion, TypeOK, DatabaseOK, RequestsOK, OutsideOK, BoundsOK, database, bounds
<1>8. CASE Publish(w)
  <2> DEFINE s == SourceOf(w)
             row == [source |-> s, version |-> worker[w].version,
                     key |-> [day |-> worker[w].day, source |-> s, caption |-> worker[w].caption]]
             q == [worker[w] EXCEPT !.pc = "failing", !.fault = "failed"]
  <2>1. worker[w].job \in JobIds
    BY <1>1, <1>8 DEF Publish, Carries
  <2>2. row \in Ingestion
    BY <1>1, <1>8, <2>1 DEF Publish, Carries, SourceOf, TypeOK, DatabaseOK, Row, Key, Ingestion, WorkerState
  <2>3. q \in WorkerState /\ Carries(q)
    BY <1>1, <2>1 DEF WorkerState, WorkerPcs, Carries
  <2>4. \/ worker' = [worker EXCEPT ![w] = q] /\ UNCHANGED database
        \/ /\ evidence' = evidence \cup {row}
           /\ RowSet(worker[w].job, "succeeded")
           /\ Ack(w)
    BY <1>8, RowWrites DEF Publish
  <2> HIDE DEF q, row
  <2>5. WorkersOK'
    BY <2>3, <2>4, WorkerUpdate, AckType DEF TypeOK
  <2>6. DatabaseOK'
    BY <2>1, <2>2, <2>4, RowSetType DEF TypeOK, DatabaseOK, Status, database
  <2> QED
    BY <1>8, <2>5, <2>6 DEF Publish, TypeOK, RequestsOK, OutsideOK, BoundsOK, bounds
<1>9. CASE RecordFailure(w)
  <2>1. worker[w].job \in JobIds /\ worker[w].fault \in Status
    BY <1>1, <1>9 DEF RecordFailure, Carries, WorkerState, Status
  <2>2. WorkersOK'
    BY <1>9, AckType DEF RecordFailure, TypeOK
  <2>3. DatabaseOK'
    BY <1>9, <2>1, RowSetType, RowWrites DEF RecordFailure, TypeOK, DatabaseOK
  <2> QED
    BY <1>9, <2>2, <2>3 DEF RecordFailure, TypeOK, RequestsOK, OutsideOK, BoundsOK, bounds
<1>10. ASSUME NEW fault \in {"failed", "blocked"}, worker[w].pc # "idle",
              worker' = [worker EXCEPT ![w].pc = "failing", ![w].fault = fault]
       PROVE  WorkersOK'
  <2> DEFINE q == [worker[w] EXCEPT !.pc = "failing", !.fault = fault]
  <2>1. q \in WorkerState /\ Carries(q)
    BY <1>1, <1>10 DEF WorkerState, WorkerPcs, Carries
  <2>2. worker' = [worker EXCEPT ![w] = q]
    BY <1>10
  <2> HIDE DEF q
  <2> QED
    BY <2>1, <2>2, WorkerUpdate DEF TypeOK
<1>11. CASE FetchBlocked(w)
  <2>1. WorkersOK'
    BY <1>10, <1>11 DEF FetchBlocked
  <2> QED
    BY <1>11, <2>1 DEF FetchBlocked, TypeOK, DatabaseOK, RequestsOK, OutsideOK, BoundsOK, database, bounds
<1>12. CASE Raise(w)
  <2>1. WorkersOK'
    BY <1>10, <1>12 DEF Raise
  <2> QED
    BY <1>12, <2>1 DEF Raise, TypeOK, DatabaseOK, RequestsOK, OutsideOK, BoundsOK, database, bounds
<1> QED
  BY <1>2, <1>3, <1>4, <1>5, <1>6, <1>7, <1>8, <1>9, <1>11, <1>12 DEF WorkerStep

\* The steps of users, of the clock and of faults.
LEMMA OutsideStepType ==
    ASSUME TypeOK,
           \/ \E r \in Requests, zyte \in BOOLEAN, n \in Limits : StartBatch(r, zyte, n)
           \/ \E j \in JobIds : BlockAges(j)
           \/ DayPasses
           \/ Fault
    PROVE  TypeOK'
<1>1. ASSUME NEW r \in Requests, NEW zyte \in BOOLEAN, NEW n \in Limits, StartBatch(r, zyte, n)
      PROVE  TypeOK'
  <2> DEFINE q == [IdleRequest EXCEPT !.pc = "jobs", !.began = batches + 1, !.zyte = zyte, !.limit = n]
  <2>1. q \in RequestState
    <3>1. batches + 1 \in 0 .. MaxBatches /\ n \in Nat
      <4>1. batches \in Nat /\ batches < MaxBatches /\ MaxBatches \in Nat
        BY <1>1, BoundsAssumption DEF StartBatch, TypeOK, BoundsOK
      <4> QED
        BY <4>1, LimitsAssumption
    <3> QED
      BY <3>1, IdleRequestType DEF RequestState, RequestPcs
  <2>2. request' = [request EXCEPT ![r] = q]
    BY <1>1 DEF StartBatch
  <2> HIDE DEF q
  <2>3. RequestsOK'
    BY <2>1, <2>2, RequestUpdate DEF TypeOK
  <2> QED
    <3>1. batches \in Nat /\ batches' = batches + 1 /\ UNCHANGED <<duplicates, deaths, losses>>
      BY <1>1 DEF StartBatch, TypeOK, BoundsOK
    <3>2. overlaps' = overlaps \/ overlaps' = overlaps + 1
      BY <1>1 DEF StartBatch
    <3>3. BoundsOK'
      BY <3>1, <3>2 DEF TypeOK, BoundsOK
    <3>4. DatabaseOK' /\ WorkersOK' /\ OutsideOK'
      BY <1>1 DEF StartBatch, TypeOK, DatabaseOK, WorkersOK, OutsideOK, database
    <3> QED
      BY <2>3, <3>3, <3>4 DEF TypeOK
<1>2. ASSUME NEW r \in Requests, SendFails(r) PROVE TypeOK'
  <2>1. RequestsOK'
    BY <1>2, IdleRequestType, RequestUpdate DEF SendFails, TypeOK
  <2> QED
    BY <1>2, <2>1 DEF SendFails, TypeOK, DatabaseOK, WorkersOK, OutsideOK, BoundsOK, database
<1>3. ASSUME NEW w \in Workers, Redeliver(w) PROVE TypeOK'
  <2>1. worker[w].job \in JobIds
    BY <1>3 DEF Redeliver, TypeOK, WorkersOK, Carries
  <2> QED
    BY <1>3, <2>1 DEF Redeliver, TypeOK, DatabaseOK, RequestsOK, WorkersOK, OutsideOK, BoundsOK, database
<1>4. ASSUME NEW w \in Workers, WorkerDies(w) PROVE TypeOK'
  <2>1. worker[w].job \in JobIds
    BY <1>4 DEF WorkerDies, TypeOK, WorkersOK, Carries
  <2>2. WorkersOK'
    BY <1>4, AckType DEF WorkerDies, TypeOK
  <2> QED
    BY <1>4, <2>1, <2>2 DEF WorkerDies, TypeOK, DatabaseOK, RequestsOK, OutsideOK, BoundsOK, database
<1>5. ASSUME NEW w \in Workers, ChildKilled(w) PROVE TypeOK'
  <2>1. WorkersOK'
    BY <1>5, AckType DEF ChildKilled, TypeOK
  <2> QED
    BY <1>5, <2>1 DEF ChildKilled, TypeOK, DatabaseOK, RequestsOK, OutsideOK, BoundsOK, database
<1>6. ASSUME NEW j \in JobIds, BlockAges(j) PROVE TypeOK'
  <2>1. job' \in [JobIds -> Row]
    BY <1>6, RowWrites, RowSetType DEF BlockAges, TypeOK, Status
  <2> QED
    BY <1>6, <2>1 DEF BlockAges, TypeOK, DatabaseOK, RequestsOK, WorkersOK, OutsideOK, BoundsOK, bounds
<1>7. CASE DayPasses
  <2>1. day' \in Days
    BY <1>7, BoundsAssumption DEF DayPasses, TypeOK, OutsideOK, Days
  <2> QED
    BY <1>7, <2>1 DEF DayPasses, TypeOK, DatabaseOK, RequestsOK, WorkersOK, OutsideOK, BoundsOK, bounds, database
<1> QED
  BY <1>1, <1>2, <1>3, <1>4, <1>5, <1>6, <1>7 DEF Fault

LEMMA TypeStep == TypeOK /\ [Next]_vars => TypeOK'
<1> SUFFICES ASSUME TypeOK, [Next]_vars PROVE TypeOK'
  OBVIOUS
<1>1. CASE Next
  BY <1>1, RequestStepType, WorkerStepType, OutsideStepType DEF Next
<1>2. CASE UNCHANGED vars
  BY <1>2 DEF vars, TypeOK, DatabaseOK, RequestsOK, WorkersOK, OutsideOK, BoundsOK
<1> QED
  BY <1>1, <1>2

\* Every table, process, message and object always has its type: the rows the
\* endpoint writes are rows it has loaded or new rows of sources it has selected,
\* and a task that stores or inserts has fetched captions and has a date.
THEOREM TypeCorrect == Spec => []TypeOK
<1> QED
  BY TypeInit, TypeStep, PTL DEF Spec

-----------------------------------------------------------------------------
(* What the steps that write background_jobs do to it.                      *)

\* The endpoint's commit leaves a row alone or queues it and keeps its id to send.
LEMMA CommitBatchRows ==
    ASSUME TypeOK, NEW r \in Requests, CommitBatch(r)
    PROVE  /\ evidence' = evidence
           /\ request'[r].pc = "send"
           /\ \A j \in JobIds : \/ job'[j] = job[j]
                                \/ job'[j].status = "queued" /\ j \in request'[r].unsent
<1> DEFINE rq == request[r]
           fresh == {s \in rq.targets : rq.loaded[s].id = NoJob}
<1>1. PICK new \in [fresh -> JobIds] :
        LET id == [s \in rq.targets |-> IF s \in fresh THEN new[s] ELSE rq.loaded[s].id]
            requeued == {id[s] : s \in rq.targets \ fresh}
        IN  /\ job' = [j \in JobIds |->
                  IF \E s \in fresh : new[s] = j
                  THEN [source |-> CHOOSE s \in fresh : new[s] = j,
                        status |-> "queued", zyte |-> rq.zyte, created |-> rq.began]
                  ELSE IF j \in requeued
                  THEN [job[j] EXCEPT !.status = "queued",
                           !.zyte = IF rq.loaded[job[j].source].zyte = rq.zyte THEN @ ELSE rq.zyte]
                  ELSE job[j]]
            /\ request' = [request EXCEPT ![r].pc = "send",
                                          ![r].unsent = {id[s] : s \in rq.targets}]
  BY DEF CommitBatch
<1> DEFINE id == [s \in rq.targets |-> IF s \in fresh THEN new[s] ELSE rq.loaded[s].id]
           requeued == {id[s] : s \in rq.targets \ fresh}
<1>2. request[r] \in RequestState
  BY DEF TypeOK, RequestsOK
<1>3. request'[r].pc = "send" /\ request'[r].unsent = {id[s] : s \in rq.targets}
  BY <1>1, <1>2 DEF TypeOK, RequestsOK, RequestState
<1>4. ASSUME NEW j \in JobIds
      PROVE  \/ job'[j] = job[j]
             \/ job'[j].status = "queued" /\ j \in request'[r].unsent
  <2>1. CASE \E s \in fresh : new[s] = j
    <3>1. job'[j].status = "queued"
      BY <1>1, <2>1
    <3>2. PICK s \in fresh : new[s] = j
      BY <2>1
    <3>3. s \in rq.targets /\ id[s] = j
      BY <3>2
    <3> QED
      BY <1>3, <3>1, <3>3
  <2>2. CASE j \in requeued /\ ~\E s \in fresh : new[s] = j
    <3>1. job[j] \in Row
      BY DEF TypeOK, DatabaseOK
    <3>2. job'[j] = [job[j] EXCEPT !.status = "queued",
                        !.zyte = IF rq.loaded[job[j].source].zyte = rq.zyte THEN @ ELSE rq.zyte]
      BY <1>1, <2>2
    <3>3. job'[j].status = "queued"
      BY <3>1, <3>2 DEF Row
    <3>4. j \in {id[s] : s \in rq.targets}
      BY <2>2
    <3> QED
      BY <1>3, <3>3, <3>4
  <2>3. CASE j \notin requeued /\ ~\E s \in fresh : new[s] = j
    BY <1>1, <2>3
  <2> QED
    BY <2>1, <2>2, <2>3
<1> QED
  BY <1>3, <1>4 DEF CommitBatch

\* A step that sets the status of a row changes no other row and no source.
LEMMA RowSetRows ==
    ASSUME DatabaseOK, NEW i \in JobIds, NEW status, RowSet(i, status)
    PROVE  /\ job'[i].status = status /\ job'[i].source = job[i].source
           /\ \A j \in JobIds : j # i => job'[j] = job[j]
<1>1. job[i] \in Row
  BY DEF DatabaseOK
<1>2. PICK zyte \in BOOLEAN :
        job' = [job EXCEPT ![i] = [job[i] EXCEPT !.status = status, !.zyte = zyte]]
  BY DEF RowSet
<1> QED
  BY <1>1, <1>2 DEF DatabaseOK, Row

-----------------------------------------------------------------------------
(* A job that reads "succeeded" has evidence.                               *)

LEMMA SucceededStep ==
    ASSUME TypeOK, SucceededHasEvidence, [Next]_vars
    PROVE  SucceededHasEvidence'
<1> SUFFICES ASSUME NEW j \in JobIds, job'[j].status = "succeeded"
             PROVE  \E e \in evidence' : e.source = job'[j].source
  BY DEF SucceededHasEvidence, HasChunks
<1>1. ASSUME job'[j] = job[j], evidence \subseteq evidence'
      PROVE  \E e \in evidence' : e.source = job'[j].source
  BY <1>1 DEF SucceededHasEvidence, HasChunks
<1>2. CASE UNCHANGED database
  BY <1>1, <1>2 DEF database
<1>3. ASSUME NEW r \in Requests, CommitBatch(r)
      PROVE  \E e \in evidence' : e.source = job'[j].source
  BY <1>1, <1>3, CommitBatchRows
<1>4. ASSUME NEW i \in JobIds, NEW status, status # "succeeded", evidence' = evidence,
             RowSet(i, status)
      PROVE  \E e \in evidence' : e.source = job'[j].source
  BY <1>1, <1>4, RowSetRows DEF TypeOK
<1>5. ASSUME NEW w \in Workers, CheckChunks(w)
      PROVE  \E e \in evidence' : e.source = job'[j].source
  <2>1. worker[w].job \in JobIds
    BY <1>5 DEF CheckChunks, TypeOK, WorkersOK, Carries
  <2>2. CASE HasChunks(SourceOf(w)) /\ RowSet(worker[w].job, "succeeded") /\ evidence' = evidence
    BY <1>1, <2>1, <2>2, RowSetRows DEF HasChunks, SourceOf, TypeOK
  <2> QED
    BY <1>2, <1>5, <2>2, RowWrites DEF CheckChunks, database
<1>6. ASSUME NEW w \in Workers, Publish(w)
      PROVE  \E e \in evidence' : e.source = job'[j].source
  <2>1. worker[w].job \in JobIds
    BY <1>6 DEF Publish, TypeOK, WorkersOK, Carries
  <2>2. CASE UNCHANGED database
    BY <1>2, <2>2
  <2>3. CASE ~UNCHANGED database
    <3>1. PICK row : row.source = SourceOf(w) /\ evidence' = evidence \cup {row}
      BY <1>6, <2>3 DEF Publish
    <3>2. RowSet(worker[w].job, "succeeded")
      BY <1>6, <2>3, RowWrites DEF Publish
    <3> QED
      BY <1>1, <2>1, <3>1, <3>2, RowSetRows DEF SourceOf, TypeOK
  <2> QED
    BY <2>2, <2>3
<1>7. CASE \E r \in Requests : RequestStep(r)
  BY <1>2, <1>3, <1>7 DEF RequestStep, ReadJobs, ReadSources, SendTask
<1>8. ASSUME NEW w \in Workers, WorkerStep(w)
      PROVE  \E e \in evidence' : e.source = job'[j].source
  <2>1. worker[w].pc # "idle" => worker[w].job \in JobIds
    BY DEF TypeOK, WorkersOK, Carries
  <2>2. CASE \E i \in JobIds : Receive(w, i)
    BY <1>2, <1>4, <2>2, RowWrites DEF Receive, database
  <2>3. CASE MarkRunning(w)
    BY <1>2, <1>4, <2>1, <2>3, RowWrites DEF MarkRunning, database
  <2>4. CASE RecordFailure(w)
    <3>1. worker[w].fault # "succeeded"
      BY DEF TypeOK, WorkersOK, WorkerState
    <3> QED
      BY <1>4, <2>1, <2>4, <3>1, RowWrites DEF RecordFailure
  <2> QED
    BY <1>2, <1>5, <1>6, <1>8, <2>2, <2>3, <2>4 DEF WorkerStep, FetchCaptions, PutImmutable, ReadVersion
<1>9. CASE \E i \in JobIds : BlockAges(i)
  BY <1>4, <1>9, RowWrites DEF BlockAges
<1>10. CASE DayPasses \/ Fault
  BY <1>2, <1>10 DEF DayPasses, Fault, SendFails, Redeliver, WorkerDies, ChildKilled
<1>11. CASE UNCHANGED vars
  BY <1>2, <1>11 DEF vars, database
<1> QED
  BY <1>2, <1>7, <1>8, <1>9, <1>10, <1>11 DEF Next, StartBatch, FetchBlocked, Raise

\* A job only reads "succeeded" when its source has evidence, for any number of
\* requests, workers, repeated deliveries and failures.
THEOREM SucceededCorrect == Spec => []SucceededHasEvidence
<1>1. Init => SucceededHasEvidence
  BY DEF Init, SucceededHasEvidence
<1> QED
  BY <1>1, SucceededStep, TypeCorrect, PTL DEF Spec

-----------------------------------------------------------------------------
(* An active job is owned, as long as nothing is lost.                      *)

\* The owner of j stays when nothing that could own j lets go of it.
LEMMA OwnerKept ==
    ASSUME NEW j \in JobIds, HasOwner(j),
           queue[j] > 0 => queue'[j] > 0,
           \A w \in Workers : worker[w].pc # "idle" /\ worker[w].job = j
                                  => worker'[w].pc # "idle" /\ worker'[w].job = j,
           \A r \in Requests : request[r].pc = "send" /\ j \in request[r].unsent
                                  => request'[r].pc = "send" /\ j \in request'[r].unsent
    PROVE  HasOwner(j)'
BY DEF HasOwner

\* A task that moves to another step still owns its job.
LEMMA OwnerMoves ==
    ASSUME TypeOK, NEW j \in JobIds, HasOwner(j), NEW w \in Workers, UNCHANGED <<queue, request>>,
           \A v \in Workers : v # w => worker'[v] = worker[v],
           worker'[w].pc # "idle", worker'[w].job = worker[w].job
    PROVE  HasOwner(j)'
BY OwnerKept

\* A task that ends owned no other job.
LEMMA OwnerOfOther ==
    ASSUME TypeOK, NEW j \in JobIds, HasOwner(j), NEW w \in Workers, j # worker[w].job,
           Ack(w), queue[j] > 0 => queue'[j] > 0, UNCHANGED request
    PROVE  HasOwner(j)'
<1>1. \A v \in Workers : v # w => worker'[v] = worker[v]
  BY DEF Ack, TypeOK, WorkersOK
<1> QED
  BY <1>1, OwnerKept

LEMMA OwnerStep ==
    ASSUME TypeOK, ActiveJobHasOwner, [Next]_vars
    PROVE  ActiveJobHasOwner'
<1> SUFFICES ASSUME losses' = 0, NEW j \in JobIds, job'[j].status \in Active
             PROVE  HasOwner(j)'
  BY DEF ActiveJobHasOwner, Active
<1>1. ASSUME losses = 0, job[j].status \in Active PROVE HasOwner(j)
  BY <1>1 DEF ActiveJobHasOwner
<1>2. CASE UNCHANGED <<job, losses, queue, worker, request>>
  BY <1>1, <1>2, OwnerKept
<1>3. ASSUME NEW r \in Requests, UNCHANGED <<job, losses, queue, worker>>, request[r].pc # "send",
             \A q \in Requests : q # r => request'[q] = request[q]
      PROVE  HasOwner(j)'
  BY <1>1, <1>3, OwnerKept
<1>4. ASSUME NEW r \in Requests, CommitBatch(r) PROVE HasOwner(j)'
  <2>1. \A q \in Requests : q # r => request'[q] = request[q]
    BY <1>4 DEF CommitBatch, TypeOK, RequestsOK
  <2>2. CASE job'[j] = job[j]
    BY <1>1, <1>4, <2>1, <2>2, OwnerKept DEF CommitBatch, bounds
  <2>3. CASE job'[j].status = "queued" /\ j \in request'[r].unsent
    BY <1>4, <2>3, CommitBatchRows DEF HasOwner
  <2> QED
    BY <1>4, <2>2, <2>3, CommitBatchRows
<1>5. ASSUME NEW r \in Requests, SendTask(r) PROVE HasOwner(j)'
  <2>1. PICK i \in request[r].unsent :
          /\ queue' = [queue EXCEPT ![i] = @ + 1]
          /\ request' = [request EXCEPT ![r] =
                            IF request[r].unsent = {i} THEN IdleRequest
                            ELSE [@ EXCEPT !.unsent = request[r].unsent \ {i}]]
    BY <1>5 DEF SendTask
  <2>2. i \in JobIds /\ queue \in [JobIds -> Nat] /\ request[r] \in RequestState
    BY <2>1 DEF TypeOK, RequestsOK, RequestState, OutsideOK
  <2>3. CASE j = i
    <3>1. queue'[j] > 0
      BY <2>1, <2>2, <2>3
    <3> QED
      BY <3>1 DEF HasOwner
  <2>4. CASE j # i
    <3>1. queue'[j] = queue[j]
      BY <2>1, <2>2, <2>4
    <3>2. j \in request[r].unsent => request'[r].pc = "send" /\ j \in request'[r].unsent
      BY <1>5, <2>1, <2>2, <2>4 DEF SendTask, TypeOK, RequestsOK, RequestState
    <3>3. \A q \in Requests : q # r => request'[q] = request[q]
      BY <2>1 DEF TypeOK, RequestsOK
    <3>4. HasOwner(j) /\ UNCHANGED worker
      BY <1>1, <1>5 DEF SendTask, database, bounds
    <3> QED
      BY <3>1, <3>2, <3>3, <3>4, OwnerKept
  <2> QED
    BY <2>3, <2>4
<1>6. ASSUME NEW w \in Workers, NEW i \in JobIds, Receive(w, i) PROVE HasOwner(j)'
  <2>1. queue \in [JobIds -> Nat] /\ queue' = [queue EXCEPT ![i] = @ - 1] /\ UNCHANGED <<losses, request>>
    BY <1>6 DEF Receive, TypeOK, OutsideOK, bounds
  <2>2. CASE UNCHANGED <<job, worker>> /\ job[i].status = "cancelled"
    <3>1. j # i
      BY <2>2 DEF Active
    <3> QED
      BY <1>1, <2>1, <2>2, <3>1, OwnerKept
  <2>3. CASE RowSet(i, "cancelled") /\ UNCHANGED worker
    <3>1. j # i /\ job'[j] = job[j]
      BY <2>3, RowSetRows DEF TypeOK, Active
    <3> QED
      BY <1>1, <2>1, <2>3, <3>1, OwnerKept
  <2>4. CASE UNCHANGED job /\ worker' = [worker EXCEPT ![w] =
                [IdleWorker EXCEPT !.pc = "marking", !.job = i, !.zyte = job[i].zyte, !.copy = job[i].status]]
    <3>1. worker'[w].pc = "marking" /\ worker'[w].job = i /\ \A v \in Workers : v # w => worker'[v] = worker[v]
      BY <2>4 DEF TypeOK, WorkersOK, IdleWorker
    <3>2. CASE j = i
      BY <3>1, <3>2 DEF HasOwner
    <3>3. CASE j # i
      <4>1. worker[w].pc = "idle" /\ queue'[j] = queue[j]
        BY <1>6, <2>1, <3>3 DEF Receive
      <4> QED
        BY <1>1, <2>1, <2>4, <3>1, <4>1, OwnerKept
    <3> QED
      BY <3>2, <3>3
  <2> QED
    BY <1>6, <2>2, <2>3, <2>4, RowWrites DEF Receive
<1>7. ASSUME NEW w \in Workers, UNCHANGED <<losses, queue, request>>,
             \A v \in Workers : v # w => worker'[v] = worker[v],
             worker'[w].pc # "idle", worker'[w].job = worker[w].job,
             job'[j] = job[j] \/ j = worker[w].job
      PROVE  HasOwner(j)'
  <2>1. CASE j = worker[w].job
    BY <1>7, <2>1 DEF HasOwner
  <2>2. CASE job'[j] = job[j]
    BY <1>1, <1>7, <2>2, OwnerMoves
  <2> QED
    BY <1>7, <2>1, <2>2
<1>8. ASSUME NEW w \in Workers, worker[w].job \in JobIds, NEW status, status \notin Active,
             UNCHANGED <<losses, queue, request>>, RowSet(worker[w].job, status), Ack(w)
      PROVE  HasOwner(j)'
  <2>1. j # worker[w].job /\ job'[j] = job[j]
    BY <1>8, RowSetRows DEF TypeOK
  <2> QED
    BY <1>1, <1>8, <2>1, OwnerOfOther
<1>9. ASSUME NEW w \in Workers, WorkerStep(w) \/ FetchBlocked(w) \/ Raise(w) PROVE HasOwner(j)'
  <2>1. /\ worker \in [Workers -> WorkerState] /\ worker[w] \in WorkerState
        /\ worker[w].pc # "idle" => worker[w].job \in JobIds
    BY DEF TypeOK, WorkersOK, Carries
  <2>2. CASE MarkRunning(w)
    <3>1. /\ \A v \in Workers : v # w => worker'[v] = worker[v]
          /\ worker'[w].pc = "checking" /\ worker'[w].job = worker[w].job
      BY <2>1, <2>2 DEF MarkRunning, Goto, WorkerState
    <3>2. job'[j] = job[j] \/ j = worker[w].job
      BY <2>1, <2>2, RowSetRows, RowWrites DEF MarkRunning, TypeOK
    <3> QED
      BY <1>7, <2>2, <3>1, <3>2 DEF MarkRunning, bounds
  <2>3. CASE CheckChunks(w)
    <3>1. CASE RowSet(worker[w].job, "succeeded") /\ Ack(w)
      <4>1. worker[w].job \in JobIds /\ UNCHANGED <<losses, queue, request>>
        BY <2>1, <2>3 DEF CheckChunks, bounds
      <4>2. "succeeded" \notin Active
        BY DEF Active
      <4> QED
        BY <1>8, <3>1, <4>1, <4>2
    <3>2. CASE Goto(w, "fetching") /\ UNCHANGED job
      <4>1. /\ \A v \in Workers : v # w => worker'[v] = worker[v]
            /\ worker'[w].pc = "fetching" /\ worker'[w].job = worker[w].job
        BY <2>1, <3>2 DEF Goto, WorkerState
      <4> QED
        BY <1>7, <2>3, <3>2, <4>1 DEF CheckChunks, bounds
    <3> QED
      BY <2>3, <3>1, <3>2, RowWrites DEF CheckChunks
  <2>4. CASE Publish(w) /\ RowSet(worker[w].job, "succeeded") /\ Ack(w)
    <3>1. worker[w].job \in JobIds /\ UNCHANGED <<losses, queue, request>>
      BY <2>1, <2>4 DEF Publish, bounds
    <3>2. "succeeded" \notin Active
      BY DEF Active
    <3> QED
      BY <1>8, <2>4, <3>1, <3>2
  <2>5. CASE RecordFailure(w)
    <3>1. worker[w].fault \notin Active
      BY <2>1 DEF WorkerState, Active
    <3> QED
      BY <1>8, <2>1, <2>5, <3>1, RowWrites DEF RecordFailure, bounds
  <2>6. CASE \/ \E c \in Captions : FetchCaptions(w, c)
             \/ PutImmutable(w) \/ ReadVersion(w) \/ FetchBlocked(w) \/ Raise(w)
             \/ /\ Publish(w) /\ UNCHANGED database
                /\ worker' = [worker EXCEPT ![w].pc = "failing", ![w].fault = "failed"]
    <3>1. \/ \E c \in Captions : worker' = [worker EXCEPT ![w].pc = "storing", ![w].caption = c]
          \/ worker' = [worker EXCEPT ![w].pc = "versioning", ![w].day = day]
          \/ \E n : worker' = [worker EXCEPT ![w].pc = "inserting", ![w].version = n + 1]
          \/ \E f : worker' = [worker EXCEPT ![w].pc = "failing", ![w].fault = f]
      BY <2>6 DEF FetchCaptions, PutImmutable, ReadVersion, FetchBlocked, Raise
    <3>2. /\ \A v \in Workers : v # w => worker'[v] = worker[v]
          /\ worker'[w].pc # "idle" /\ worker'[w].job = worker[w].job
      BY <2>1, <3>1 DEF WorkerState
    <3>3. UNCHANGED <<job, losses, queue, request>>
      BY <2>6 DEF FetchCaptions, PutImmutable, ReadVersion, FetchBlocked, Raise, Publish, database, bounds
    <3> QED
      BY <1>7, <3>2, <3>3
  <2>7. Publish(w) =>
          \/ RowSet(worker[w].job, "succeeded") /\ Ack(w)
          \/ /\ UNCHANGED database
             /\ worker' = [worker EXCEPT ![w].pc = "failing", ![w].fault = "failed"]
    BY RowWrites DEF Publish
  <2> QED
    BY <1>6, <1>9, <2>2, <2>3, <2>4, <2>5, <2>6, <2>7 DEF WorkerStep
<1>10. ASSUME NEW w \in Workers, Redeliver(w) \/ WorkerDies(w) PROVE HasOwner(j)'
  <2>1. worker[w].job \in JobIds /\ queue \in [JobIds -> Nat]
    BY <1>10 DEF Redeliver, WorkerDies, TypeOK, WorkersOK, OutsideOK, Carries
  <2>2. /\ queue' = [queue EXCEPT ![worker[w].job] = @ + 1] /\ UNCHANGED <<job, losses, request>>
        /\ UNCHANGED worker \/ Ack(w)
    BY <1>10 DEF Redeliver, WorkerDies, database
  <2>3. CASE j = worker[w].job
    <3>1. queue'[j] > 0
      BY <2>1, <2>2, <2>3
    <3> QED
      BY <3>1 DEF HasOwner
  <2>4. CASE j # worker[w].job
    <3>1. queue'[j] = queue[j] /\ HasOwner(j)
      BY <1>1, <2>1, <2>2, <2>4
    <3> QED
      BY <2>2, <2>4, <3>1, OwnerKept, OwnerOfOther
  <2> QED
    BY <2>3, <2>4
<1>11. ASSUME NEW i \in JobIds, BlockAges(i) PROVE HasOwner(j)'
  <2>1. j # i /\ job'[j] = job[j]
    BY <1>11, RowSetRows, RowWrites DEF BlockAges, TypeOK, Active
  <2> QED
    BY <1>1, <1>11, <2>1, OwnerKept DEF BlockAges, bounds
<1>12. CASE \E r \in Requests : SendFails(r)
  BY <1>12 DEF SendFails, TypeOK, BoundsOK
<1>13. CASE \E w \in Workers : ChildKilled(w)
  BY <1>13 DEF ChildKilled, TypeOK, BoundsOK
<1>14. ASSUME NEW r \in Requests,
              ReadJobs(r) \/ ReadSources(r) \/ \E zyte \in BOOLEAN, n \in Limits : StartBatch(r, zyte, n)
       PROVE  HasOwner(j)'
  <2>1. request[r].pc # "send" /\ UNCHANGED <<job, losses, queue, worker>>
    BY <1>14 DEF ReadJobs, ReadSources, StartBatch, database, bounds
  <2>2. \A q \in Requests : q # r => request'[q] = request[q]
    BY <1>14 DEF ReadJobs, ReadSources, StartBatch, TypeOK, RequestsOK
  <2> QED
    BY <1>3, <2>1, <2>2
<1>15. CASE DayPasses \/ UNCHANGED vars
  BY <1>2, <1>15 DEF DayPasses, vars, database, bounds
<1> QED
  BY <1>4, <1>5, <1>9, <1>10, <1>11, <1>12, <1>13, <1>14, <1>15 DEF Next, RequestStep, Fault

\* While no message has been lost with a process, no job is left queued or running
\* with nothing to move it, for any number of requests, workers and repeats.
THEOREM OwnerCorrect == Spec => []ActiveJobHasOwner
<1>1. Init => ActiveJobHasOwner
  BY DEF Init, ActiveJobHasOwner, Active
<1> QED
  BY <1>1, OwnerStep, TypeCorrect, PTL DEF Spec

-----------------------------------------------------------------------------
(* The cooldown is overshot by no more than the number of workers.          *)

LEMMA BlocksFinite ==
    /\ IsFiniteSet(RecentBlocks) /\ Cardinality(RecentBlocks) \in Nat
    /\ IsFiniteSet(MayBeBlocked) /\ Cardinality(MayBeBlocked) \in Nat
    /\ Cardinality(MayBeBlocked) <= Cardinality(Workers) /\ Cardinality(Workers) \in Nat
<1>1. IsFiniteSet(JobIds)
  BY FS_Interval, MaxJobsAssumption DEF JobIds
<1>2. RecentBlocks \in SUBSET JobIds /\ MayBeBlocked \in SUBSET Workers
  BY DEF RecentBlocks, MayBeBlocked
<1> QED
  BY <1>1, <1>2, ProcessesAssumption, FS_Subset, FS_CardinalityType

\* No block is recorded and no task goes past the check.
LEMMA FewerBlocks ==
    ASSUME CooldownOvershoot, RecentBlocks' \subseteq RecentBlocks, MayBeBlocked' \subseteq MayBeBlocked
    PROVE  CooldownOvershoot'
<1>1. Cardinality(RecentBlocks') <= Cardinality(RecentBlocks) /\ Cardinality(RecentBlocks') \in Nat
  BY BlocksFinite, FS_Subset, FS_CardinalityType
<1>2. Cardinality(MayBeBlocked') <= Cardinality(MayBeBlocked) /\ Cardinality(MayBeBlocked') \in Nat
  BY BlocksFinite, FS_Subset, FS_CardinalityType
<1> QED
  BY <1>1, <1>2, BlocksFinite, BlockLimitAssumption DEF CooldownOvershoot

\* A block is recorded by a task that could be blocked, and ends.
LEMMA BlockRecorded ==
    ASSUME CooldownOvershoot, NEW w \in MayBeBlocked, NEW i,
           RecentBlocks' \subseteq RecentBlocks \cup {i}, MayBeBlocked' \subseteq MayBeBlocked \ {w}
    PROVE  CooldownOvershoot'
<1>1. /\ IsFiniteSet(RecentBlocks \cup {i})
      /\ Cardinality(RecentBlocks \cup {i}) <= Cardinality(RecentBlocks) + 1
      /\ Cardinality(RecentBlocks \cup {i}) \in Nat
  <2>1. /\ IsFiniteSet(RecentBlocks \cup {i})
        /\ Cardinality(RecentBlocks \cup {i}) =
              IF i \in RecentBlocks THEN Cardinality(RecentBlocks) ELSE Cardinality(RecentBlocks) + 1
    BY BlocksFinite, FS_AddElement
  <2> QED
    BY <2>1, BlocksFinite
<1>2. /\ IsFiniteSet(MayBeBlocked \ {w})
      /\ Cardinality(MayBeBlocked \ {w}) = Cardinality(MayBeBlocked) - 1
  BY BlocksFinite, FS_RemoveElement
<1>3. Cardinality(RecentBlocks') <= Cardinality(RecentBlocks) + 1 /\ Cardinality(RecentBlocks') \in Nat
  <2>1. RecentBlocks' \in SUBSET (RecentBlocks \cup {i})
    OBVIOUS
  <2>2. IsFiniteSet(RecentBlocks') /\ Cardinality(RecentBlocks') <= Cardinality(RecentBlocks \cup {i})
    BY <1>1, <2>1, FS_Subset
  <2> QED
    BY <1>1, <2>2, BlocksFinite, FS_CardinalityType
<1>4. Cardinality(MayBeBlocked') <= Cardinality(MayBeBlocked) - 1 /\ Cardinality(MayBeBlocked') \in Nat
  <2>1. MayBeBlocked' \in SUBSET (MayBeBlocked \ {w})
    OBVIOUS
  <2>2. IsFiniteSet(MayBeBlocked') /\ Cardinality(MayBeBlocked') <= Cardinality(MayBeBlocked \ {w})
    BY <1>2, <2>1, FS_Subset
  <2> QED
    BY <1>2, <2>2, FS_CardinalityType
<1> QED
  BY <1>3, <1>4, BlocksFinite, BlockLimitAssumption DEF CooldownOvershoot

\* A task goes past the check, which has seen fewer blocks than the limit.
LEMMA CheckPassed ==
    ASSUME ~CooldownActive, RecentBlocks' = RecentBlocks, MayBeBlocked' \subseteq Workers
    PROVE  CooldownOvershoot'
<1>1. Cardinality(MayBeBlocked') <= Cardinality(Workers) /\ Cardinality(MayBeBlocked') \in Nat
  <2>1. IsFiniteSet(MayBeBlocked')
    BY ProcessesAssumption, FS_Subset
  <2> QED
    BY <2>1, ProcessesAssumption, FS_Subset, FS_CardinalityType
<1>2. Cardinality(RecentBlocks) <= BlockLimit - 1
  BY BlocksFinite, BlockLimitAssumption DEF CooldownActive
<1> QED
  BY <1>1, <1>2, BlocksFinite, BlockLimitAssumption DEF CooldownOvershoot

\* Setting a row to another status than "blocked" makes no recent block.
LEMMA NoNewBlock ==
    ASSUME TypeOK, NEW i \in JobIds, NEW status, RowSet(i, status)
    PROVE  /\ status # "blocked" => RecentBlocks' \subseteq RecentBlocks
           /\ RecentBlocks' \subseteq RecentBlocks \cup {i}
BY RowSetRows DEF TypeOK, RecentBlocks

LEMMA CooldownStep ==
    ASSUME TypeOK, CooldownOvershoot, [Next]_vars
    PROVE  CooldownOvershoot'
<1>1. ASSUME UNCHANGED worker, RecentBlocks' \subseteq RecentBlocks PROVE CooldownOvershoot'
  BY <1>1, FewerBlocks DEF MayBeBlocked
<1>2. CASE UNCHANGED <<job, worker>>
  BY <1>1, <1>2 DEF RecentBlocks
<1>3. ASSUME NEW r \in Requests, RequestStep(r) PROVE CooldownOvershoot'
  <2>1. CASE CommitBatch(r)
    <3>1. RecentBlocks' \subseteq RecentBlocks
      BY <2>1, CommitBatchRows DEF RecentBlocks
    <3> QED
      BY <1>1, <2>1, <3>1 DEF CommitBatch
  <2> QED
    BY <1>2, <1>3, <2>1 DEF RequestStep, ReadJobs, ReadSources, SendTask, database
<1>4. ASSUME NEW w \in Workers, \A v \in Workers : v # w => worker'[v] = worker[v],
             w \in MayBeBlocked' => w \in MayBeBlocked, RecentBlocks' \subseteq RecentBlocks
      PROVE  CooldownOvershoot'
  <2>1. MayBeBlocked' \subseteq MayBeBlocked
    BY <1>4 DEF MayBeBlocked
  <2> QED
    BY <1>4, <2>1, FewerBlocks
<1>5. ASSUME NEW w \in Workers, WorkerStep(w) \/ FetchBlocked(w) \/ Raise(w) PROVE CooldownOvershoot'
  <2>1. /\ worker \in [Workers -> WorkerState] /\ worker[w] \in WorkerState
        /\ worker[w].pc # "idle" => worker[w].job \in JobIds
    BY DEF TypeOK, WorkersOK, Carries
  <2>2. ASSUME NEW i \in JobIds, Receive(w, i) PROVE CooldownOvershoot'
    <3>1. CASE UNCHANGED worker
      BY <1>1, <1>2, <2>2, <3>1, NoNewBlock, RowWrites DEF Receive
    <3>2. CASE UNCHANGED job /\ worker'[w].pc # "idle"
      <4>1. /\ worker' = [worker EXCEPT ![w] = [IdleWorker EXCEPT
                   !.pc = "marking", !.job = i, !.zyte = job[i].zyte, !.copy = job[i].status]]
            /\ job[i].zyte \/ ~CooldownActive
        BY <2>1, <2>2, <3>2 DEF Receive
      <4>2. /\ \A v \in Workers : v # w => worker'[v] = worker[v]
            /\ worker'[w].pc = "marking" /\ worker'[w].zyte = job[i].zyte
        BY <2>1, <4>1 DEF IdleWorker
      <4>3. RecentBlocks' = RecentBlocks
        BY <3>2 DEF RecentBlocks
      <4>4. CASE ~CooldownActive
        BY <4>3, <4>4, CheckPassed DEF MayBeBlocked
      <4>5. CASE job[i].zyte
        <5>1. w \notin MayBeBlocked'
          BY <4>2, <4>5 DEF MayBeBlocked
        <5> QED
          BY <1>4, <4>2, <4>3, <5>1
      <4> QED
        BY <4>1, <4>4, <4>5
    <3> QED
      BY <2>1, <2>2, <3>1, <3>2 DEF Receive, IdleWorker
  <2>3. CASE RecordFailure(w)
    <3>1. /\ \A v \in Workers : v # w => worker'[v] = worker[v]
          /\ worker'[w].pc = "idle" /\ w \notin MayBeBlocked'
      BY <2>1, <2>3 DEF RecordFailure, Ack, IdleWorker, MayBeBlocked
    <3>2. CASE worker[w].fault = "blocked"
      <4>1. w \in MayBeBlocked
        BY <2>3, <3>2 DEF RecordFailure, MayBeBlocked
      <4>2. MayBeBlocked' \subseteq MayBeBlocked \ {w}
        BY <3>1 DEF MayBeBlocked
      <4>3. RecentBlocks' \subseteq RecentBlocks \cup {worker[w].job}
        BY <2>1, <2>3, NoNewBlock, RowWrites DEF RecordFailure
      <4> QED
        BY <4>1, <4>2, <4>3, BlockRecorded
    <3>3. CASE worker[w].fault # "blocked"
      BY <1>4, <2>1, <2>3, <3>1, <3>3, NoNewBlock, RowWrites DEF RecordFailure
    <3> QED
      BY <3>2, <3>3
  <2>4. ASSUME RecentBlocks' \subseteq RecentBlocks,
               \/ Ack(w)
               \/ Goto(w, "checking") /\ worker[w].pc = "marking"
               \/ Goto(w, "fetching") /\ worker[w].pc = "checking"
               \/ \E c \in Captions : worker' = [worker EXCEPT ![w].pc = "storing", ![w].caption = c]
               \/ worker' = [worker EXCEPT ![w].pc = "versioning", ![w].day = day]
               \/ \E n : worker' = [worker EXCEPT ![w].pc = "inserting", ![w].version = n + 1]
               \/ worker' = [worker EXCEPT ![w].pc = "failing", ![w].fault = "failed"]
               \/ /\ worker[w].pc = "fetching" /\ ~worker[w].zyte
                  /\ worker' = [worker EXCEPT ![w].pc = "failing", ![w].fault = "blocked"]
        PROVE  CooldownOvershoot'
    <3>1. \A v \in Workers : v # w => worker'[v] = worker[v]
      BY <2>1, <2>4 DEF Ack, Goto
    <3>2. w \in MayBeBlocked' => w \in MayBeBlocked
      BY <2>1, <2>4 DEF Ack, IdleWorker, Goto, MayBeBlocked, WorkerState
    <3> QED
      BY <1>4, <2>4, <3>1, <3>2
  <2>5. CASE UNCHANGED job
    <3>1. RecentBlocks' = RecentBlocks
      BY <2>5 DEF RecentBlocks
    <3> QED
      BY <1>5, <2>2, <2>3, <2>4, <3>1 DEF WorkerStep, MarkRunning, CheckChunks, FetchCaptions,
         PutImmutable, ReadVersion, Publish, FetchBlocked, Raise
  <2>6. CASE MarkRunning(w) \/ CheckChunks(w)
    <3>1. RecentBlocks' \subseteq RecentBlocks
      BY <2>1, <2>5, <2>6, NoNewBlock, RowWrites DEF MarkRunning, CheckChunks, RecentBlocks
    <3> QED
      BY <2>4, <2>6, <3>1 DEF MarkRunning, CheckChunks
  <2>7. CASE Publish(w)
    <3>1. CASE RowSet(worker[w].job, "succeeded") /\ Ack(w)
      BY <2>1, <2>4, <2>7, <3>1, NoNewBlock DEF Publish
    <3> QED
      BY <2>5, <2>7, <3>1, RowWrites DEF Publish, database
  <2> QED
    BY <1>5, <2>2, <2>3, <2>5, <2>6, <2>7
       DEF WorkerStep, FetchCaptions, PutImmutable, ReadVersion, FetchBlocked, Raise, database
<1>6. ASSUME NEW j \in JobIds, BlockAges(j) PROVE CooldownOvershoot'
  BY <1>1, <1>6, NoNewBlock, RowWrites DEF BlockAges
<1>7. ASSUME NEW w \in Workers, WorkerDies(w) \/ ChildKilled(w) PROVE CooldownOvershoot'
  <2>1. \A v \in Workers : v # w => worker'[v] = worker[v]
    BY <1>7 DEF WorkerDies, ChildKilled, Ack, TypeOK, WorkersOK
  <2>2. w \notin MayBeBlocked' /\ RecentBlocks' = RecentBlocks
    BY <1>7 DEF WorkerDies, ChildKilled, Ack, IdleWorker, TypeOK, WorkersOK, MayBeBlocked, RecentBlocks, database
  <2> QED
    BY <1>4, <2>1, <2>2
<1>8. CASE UNCHANGED vars
  BY <1>2, <1>8 DEF vars
<1> QED
  BY <1>2, <1>3, <1>5, <1>6, <1>7, <1>8
     DEF Next, StartBatch, DayPasses, Fault, SendFails, Redeliver, database

\* The recent IP blocks never exceed the limit by more than the number of worker
\* processes, although the check and the record of a block are separate steps.
THEOREM CooldownCorrect == Spec => []CooldownOvershoot
<1>1. Init => CooldownOvershoot
  <2> SUFFICES ASSUME Init PROVE CooldownOvershoot
    OBVIOUS
  <2>1. RecentBlocks = {} /\ MayBeBlocked = {}
    BY DEF Init, RecentBlocks, MayBeBlocked, IdleWorker
  <2> QED
    BY <2>1, FS_EmptySet, BlocksFinite, BlockLimitAssumption DEF CooldownOvershoot
<1> QED
  BY <1>1, CooldownStep, TypeCorrect, PTL DEF Spec

-----------------------------------------------------------------------------
(* Committed evidence is in the bucket.  A task names its object by the     *)
(* source of its job row, so the row has to stay the same row: ids are      *)
(* given in order and every process refers to rows that exist.              *)

Live(j) == job[j].status # "absent"

RowsInOrder == \E n \in 0 .. MaxJobs : {j \in JobIds : Live(j)} = 1 .. n

\* The rows a request, a message or a task refers to exist.
ReferencesLive ==
    /\ \A j \in JobIds : queue[j] > 0 => Live(j)
    /\ \A w \in Workers : worker[w].pc # "idle" => Live(worker[w].job)
    /\ \A r \in Requests :
          /\ request[r].pc \in {"sources", "commit"} =>
                \A s \in Sources : request[r].loaded[s].id # NoJob => Live(request[r].loaded[s].id)
          /\ request[r].pc = "send" => \A j \in request[r].unsent : Live(j)

\* The object key of the task that w works on.
KeyOf(w) == [day |-> worker[w].day, source |-> SourceOf(w), caption |-> worker[w].caption]

\* What a task is about to insert a row for has been uploaded.
Uploaded == \A w \in Workers : worker[w].pc \in {"versioning", "inserting"} => KeyOf(w) \in store

EvidenceInv == TypeOK /\ RowsInOrder /\ ReferencesLive /\ Uploaded /\ EvidenceIsStored

\* The endpoint's commit takes the next free ids, and writes over no other row.
LEMMA CommitBatchLive ==
    ASSUME TypeOK, RowsInOrder, ReferencesLive, NEW r \in Requests, CommitBatch(r)
    PROVE  /\ RowsInOrder'
           /\ \A j \in JobIds : Live(j) => Live(j)' /\ job'[j].source = job[j].source
           /\ \A j \in request'[r].unsent : Live(j)'
<1> DEFINE rq == request[r]
           fresh == {s \in rq.targets : rq.loaded[s].id = NoJob}
           used == {j \in JobIds : Live(j)}
           k == Cardinality(fresh)
<1>1. PICK n \in 0 .. MaxJobs : used = 1 .. n
  BY DEF RowsInOrder
<1>2. n \in Nat /\ n <= MaxJobs /\ Cardinality(used) = n
  <2>1. n \in Nat /\ n <= MaxJobs
    BY <1>1, MaxJobsAssumption
  <2>2. Cardinality(1 .. n) = IF 1 > n THEN 0 ELSE n - 1 + 1
    BY <2>1, FS_Interval
  <2>3. Cardinality(1 .. n) = n
    BY <2>1, <2>2
  <2> QED
    BY <1>1, <2>1, <2>3
<1>3. PICK new \in [fresh -> JobIds] :
        /\ {new[s] : s \in fresh} = n + 1 .. n + 1 + k - 1
        /\ LET id == [s \in rq.targets |-> IF s \in fresh THEN new[s] ELSE rq.loaded[s].id]
               requeued == {id[s] : s \in rq.targets \ fresh}
           IN  /\ job' = [j \in JobIds |->
                     IF \E s \in fresh : new[s] = j
                     THEN [source |-> CHOOSE s \in fresh : new[s] = j,
                           status |-> "queued", zyte |-> rq.zyte, created |-> rq.began]
                     ELSE IF j \in requeued
                     THEN [job[j] EXCEPT !.status = "queued",
                              !.zyte = IF rq.loaded[job[j].source].zyte = rq.zyte THEN @ ELSE rq.zyte]
                     ELSE job[j]]
               /\ request' = [request EXCEPT ![r].pc = "send",
                                             ![r].unsent = {id[s] : s \in rq.targets}]
  BY <1>2 DEF CommitBatch, Live
<1> DEFINE id == [s \in rq.targets |-> IF s \in fresh THEN new[s] ELSE rq.loaded[s].id]
           requeued == {id[s] : s \in rq.targets \ fresh}
           Taken(j) == \E s \in fresh : new[s] = j
<1>4. rq \in RequestState /\ rq.pc = "commit" /\ rq.targets \subseteq Sources
  BY DEF CommitBatch, TypeOK, RequestsOK, RequestState
<1>5. k \in Nat
  <2>1. fresh \in SUBSET Sources
    BY <1>4
  <2>2. IsFiniteSet(Sources)
    BY FS_Interval, NumSourcesAssumption DEF Sources
  <2> QED
    BY <2>1, <2>2, FS_Subset, FS_CardinalityType
<1> HIDE DEF k
<1>6. \A j : Taken(j) <=> j \in n + 1 .. n + k
  <2>1. \A j : Taken(j) <=> j \in {new[s] : s \in fresh}
    OBVIOUS
  <2>2. n + 1 + k - 1 = n + k
    BY <1>2, <1>5
  <2>3. {new[s] : s \in fresh} = n + 1 .. n + k
    BY <1>3, <2>2
  <2> QED
    BY <2>1, <2>3
<1>7. \A j \in JobIds : Live(j) <=> j \in 1 .. n
  BY <1>1
<1>8. ASSUME NEW j \in JobIds, Taken(j) PROVE Live(j)' /\ ~Live(j)
  <2>1. job'[j].status = "queued"
    BY <1>3, <1>8
  <2> QED
    BY <1>2, <1>5, <1>6, <1>7, <1>8, <2>1 DEF Live
<1>9. ASSUME NEW j \in JobIds, j \in requeued, ~Taken(j)
      PROVE  Live(j) /\ Live(j)' /\ job'[j].source = job[j].source
  <2>1. PICK s \in rq.targets \ fresh : j = rq.loaded[s].id
    BY <1>9
  <2>2. Live(j)
    BY <1>4, <2>1 DEF ReferencesLive
  <2>3. job[j] \in Row
    BY DEF TypeOK, DatabaseOK
  <2>4. job'[j] = [job[j] EXCEPT !.status = "queued",
                      !.zyte = IF rq.loaded[job[j].source].zyte = rq.zyte THEN @ ELSE rq.zyte]
    BY <1>3, <1>9
  <2> QED
    BY <2>2, <2>3, <2>4 DEF Live, Row
<1>10. ASSUME NEW j \in JobIds, j \notin requeued, ~Taken(j) PROVE job'[j] = job[j]
  BY <1>3, <1>10
<1>11. RowsInOrder'
  <2>1. n + k \in 0 .. MaxJobs
    <3>1. CASE k = 0
      BY <1>1, <3>1, MaxJobsAssumption
    <3>2. CASE k > 0
      <4>1. Taken(n + k)
        BY <1>2, <1>5, <1>6, <3>2
      <4>2. n + k \in JobIds
        BY <1>3, <4>1
      <4> QED
        BY <4>2, MaxJobsAssumption DEF JobIds
    <3> QED
      BY <1>5, <3>1, <3>2
  <2>2. \A j \in JobIds : Live(j)' <=> Live(j) \/ Taken(j)
    BY <1>8, <1>9, <1>10 DEF Live
  <2>3. \A j \in JobIds : Live(j)' <=> j \in 1 .. n + k
    <3> HIDE DEF Taken
    <3>1. \A j \in JobIds : j \in Int /\ (j \in 1 .. n + k <=> j \in 1 .. n \/ j \in n + 1 .. n + k)
      BY <1>2, <1>5 DEF JobIds
    <3> QED
      BY <1>6, <1>7, <2>2, <3>1
  <2>4. {j \in JobIds : Live(j)'} = 1 .. n + k
    BY <2>1, <2>3, MaxJobsAssumption DEF JobIds
  <2> QED
    BY <2>1, <2>4 DEF RowsInOrder, Live
<1>12. \A j \in JobIds : Live(j) => Live(j)' /\ job'[j].source = job[j].source
  BY <1>8, <1>9, <1>10 DEF Live
<1>13. ASSUME NEW j \in request'[r].unsent PROVE Live(j)'
  <2>1. request'[r].unsent = {id[s] : s \in rq.targets}
    BY <1>3, <1>4 DEF TypeOK, RequestsOK, RequestState
  <2>2. PICK s \in rq.targets : j = id[s]
    BY <1>13, <2>1
  <2>3. CASE s \in fresh
    <3>1. j \in JobIds /\ Taken(j)
      BY <2>2, <2>3
    <3> QED
      BY <3>1, <1>8
  <2>4. CASE s \notin fresh
    <3>1. j \in requeued /\ j = rq.loaded[s].id
      BY <2>2, <2>4
    <3>2. j \in JobIds
      BY <1>4, <2>4, <3>1 DEF RequestState, LoadedJob
    <3> QED
      BY <1>8, <1>9, <3>1, <3>2
  <2> QED
    BY <2>3, <2>4
<1> QED
  BY <1>11, <1>12, <1>13

\* No step deletes a row or gives it to another source.
LEMMA RowsKept ==
    ASSUME TypeOK, RowsInOrder, ReferencesLive, [Next]_vars
    PROVE  /\ RowsInOrder'
           /\ \A j \in JobIds : Live(j) => Live(j)' /\ job'[j].source = job[j].source
<1> DEFINE Kept == RowsInOrder' /\ \A j \in JobIds : Live(j) => Live(j)' /\ job'[j].source = job[j].source
<1> SUFFICES Kept
  OBVIOUS
<1>1. CASE UNCHANGED job
  BY <1>1 DEF RowsInOrder, Live
<1>2. ASSUME NEW i \in JobIds, Live(i), NEW status \in Status \ {"absent"}, RowSet(i, status)
      PROVE  Kept
  <2>1. \A j \in JobIds : (Live(j)' <=> Live(j)) /\ job'[j].source = job[j].source
    BY <1>2, RowSetRows DEF TypeOK, Live
  <2>2. {j \in JobIds : Live(j)} = {j \in JobIds : Live(j)'}
    BY <2>1
  <2> QED
    BY <2>1, <2>2 DEF RowsInOrder, Live
<1>3. ASSUME NEW r \in Requests, RequestStep(r) PROVE Kept
  BY <1>1, <1>3, CommitBatchLive DEF RequestStep, ReadJobs, ReadSources, SendTask, database
<1>4. ASSUME NEW w \in Workers, WorkerStep(w) \/ FetchBlocked(w) \/ Raise(w) PROVE Kept
  <2>1. /\ worker[w].pc # "idle" => worker[w].job \in JobIds /\ Live(worker[w].job)
        /\ worker[w].fault \in Status \ {"absent"}
    BY DEF TypeOK, WorkersOK, WorkerState, Carries, ReferencesLive, Status
  <2>2. {"running", "succeeded", "cancelled"} \subseteq Status \ {"absent"}
    BY DEF Status
  <2>3. CASE \E i \in JobIds : Receive(w, i)
    BY <1>1, <1>2, <2>2, <2>3, RowWrites DEF Receive, ReferencesLive
  <2>4. CASE MarkRunning(w)
    BY <1>1, <1>2, <2>1, <2>2, <2>4, RowWrites DEF MarkRunning
  <2>5. CASE CheckChunks(w)
    BY <1>1, <1>2, <2>1, <2>2, <2>5, RowWrites DEF CheckChunks
  <2>6. CASE RecordFailure(w)
    BY <1>2, <2>1, <2>6, RowWrites DEF RecordFailure
  <2>7. CASE Publish(w)
    <3>1. worker[w].pc = "inserting" /\ (UNCHANGED job \/ RowSet(worker[w].job, "succeeded"))
      BY <2>7, RowWrites DEF Publish, database
    <3> QED
      BY <1>1, <1>2, <2>1, <2>2, <3>1
  <2>8. CASE \/ \E c \in Captions : FetchCaptions(w, c)
             \/ PutImmutable(w) \/ ReadVersion(w) \/ FetchBlocked(w) \/ Raise(w)
    BY <1>1, <2>8 DEF FetchCaptions, PutImmutable, ReadVersion, FetchBlocked, Raise, database
  <2> QED
    BY <1>4, <2>3, <2>4, <2>5, <2>6, <2>7, <2>8 DEF WorkerStep
<1>5. ASSUME NEW j \in JobIds, BlockAges(j) PROVE Kept
  BY <1>2, <1>5, RowWrites DEF BlockAges, Live, Status
<1>6. CASE \/ \E r \in Requests, zyte \in BOOLEAN, n \in Limits : StartBatch(r, zyte, n)
           \/ DayPasses \/ Fault \/ UNCHANGED vars
  BY <1>1, <1>6 DEF StartBatch, DayPasses, Fault, SendFails, Redeliver, WorkerDies, ChildKilled, vars, database
<1> HIDE DEF Kept
<1> QED
  BY <1>3, <1>4, <1>5, <1>6 DEF Next

\* A task that goes on keeps its job, and touches no other task.
LEMMA TaskMoves ==
    ASSUME TypeOK, NEW w \in Workers,
           \/ MarkRunning(w) \/ CheckChunks(w) \/ PutImmutable(w) \/ ReadVersion(w)
           \/ \E c \in Captions : FetchCaptions(w, c)
           \/ Publish(w) \/ RecordFailure(w) \/ FetchBlocked(w) \/ Raise(w)
           \/ WorkerDies(w) \/ ChildKilled(w)
    PROVE  /\ \A v \in Workers : v # w => worker'[v] = worker[v]
           /\ worker'[w].pc # "idle" => worker[w].pc # "idle" /\ worker'[w].job = worker[w].job
<1>1. worker \in [Workers -> WorkerState] /\ worker[w] \in WorkerState
  BY DEF TypeOK, WorkersOK
<1>2. worker[w].pc # "idle"
  BY DEF MarkRunning, CheckChunks, PutImmutable, ReadVersion, FetchCaptions, Publish, RecordFailure,
     FetchBlocked, Raise, WorkerDies, ChildKilled
<1>3. \/ Ack(w)
      \/ \E pc : Goto(w, pc)
      \/ \E c : worker' = [worker EXCEPT ![w].pc = "storing", ![w].caption = c]
      \/ worker' = [worker EXCEPT ![w].pc = "versioning", ![w].day = day]
      \/ \E n : worker' = [worker EXCEPT ![w].pc = "inserting", ![w].version = n + 1]
      \/ \E f : worker' = [worker EXCEPT ![w].pc = "failing", ![w].fault = f]
  BY DEF MarkRunning, CheckChunks, PutImmutable, ReadVersion, FetchCaptions, Publish, RecordFailure,
     FetchBlocked, Raise, WorkerDies, ChildKilled
<1> QED
  BY <1>1, <1>2, <1>3 DEF Ack, IdleWorker, Goto, WorkerState

\* Rows exist before something refers to them.
LEMMA ReferencesStep ==
    ASSUME TypeOK, RowsInOrder, ReferencesLive, [Next]_vars
    PROVE  ReferencesLive'
<1> DEFINE QueueLive == \A j \in JobIds : queue[j] > 0 => Live(j)
           WorkersLive == \A w \in Workers : worker[w].pc # "idle" => Live(worker[w].job)
           RequestLive(r) ==
              /\ request[r].pc \in {"sources", "commit"} =>
                    \A s \in Sources : request[r].loaded[s].id # NoJob => Live(request[r].loaded[s].id)
              /\ request[r].pc = "send" => \A j \in request[r].unsent : Live(j)
<1>1. \A j \in JobIds : Live(j) => Live(j)'
  BY RowsKept
<1>2. QueueLive /\ WorkersLive /\ \A r \in Requests : RequestLive(r)
  BY DEF ReferencesLive
<1>3. queue \in [JobIds -> Nat]
  BY DEF TypeOK, OutsideOK
<1>4. \A w \in Workers : worker[w].pc # "idle" => worker[w].job \in JobIds
  BY DEF TypeOK, WorkersOK, Carries
<1>5. \A r \in Requests : /\ request[r].unsent \subseteq JobIds
                          /\ \A s \in Sources : request[r].loaded[s].id \in JobIds \cup {NoJob}
  BY DEF TypeOK, RequestsOK, RequestState, LoadedJob
<1>6. ASSUME UNCHANGED queue PROVE QueueLive'
  BY <1>1, <1>2, <1>6 DEF Live
<1>7. ASSUME NEW i \in JobIds, Live(i), queue' = [queue EXCEPT ![i] = @ + 1] PROVE QueueLive'
  BY <1>1, <1>2, <1>3, <1>7
<1>8. ASSUME UNCHANGED worker PROVE WorkersLive'
  BY <1>1, <1>2, <1>4, <1>8 DEF Live
<1>9. ASSUME NEW w \in Workers, \A v \in Workers : v # w => worker'[v] = worker[v],
             worker'[w].pc # "idle" => worker[w].pc # "idle" /\ worker'[w].job = worker[w].job
      PROVE  WorkersLive'
  BY <1>1, <1>2, <1>4, <1>9 DEF Live
<1>10. ASSUME NEW r \in Requests, UNCHANGED request[r] PROVE RequestLive(r)'
  BY <1>1, <1>2, <1>5, <1>10 DEF Live
<1>11. ASSUME NEW r \in Requests, RequestStep(r) PROVE ReferencesLive'
  <2>1. \A q \in Requests : q # r => request'[q] = request[q]
    BY <1>11 DEF RequestStep, ReadJobs, ReadSources, CommitBatch, SendTask, TypeOK, RequestsOK
  <2>2. WorkersLive'
    BY <1>8, <1>11 DEF RequestStep, ReadJobs, ReadSources, CommitBatch, SendTask
  <2>3. request \in [Requests -> RequestState] /\ request[r] \in RequestState
    BY DEF TypeOK, RequestsOK
  <2>4. CASE ReadJobs(r)
    <3>1. request'[r].pc = "sources" /\ \A s \in Sources : request'[r].loaded[s] = Load(s)
      BY <2>3, <2>4 DEF ReadJobs, RequestState
    <3>2. \A s \in Sources : Load(s).id # NoJob => Live(Load(s).id)
      BY LoadType DEF JobsOf, Live
    <3>3. RequestLive(r)'
      BY <3>1, <3>2, <2>4 DEF ReadJobs, database, Live
    <3> QED
      BY <1>6, <1>10, <2>1, <2>2, <2>4, <3>3 DEF ReadJobs, ReferencesLive
  <2>5. CASE ReadSources(r)
    <3>1. \/ request'[r].pc = "idle"
          \/ request'[r].pc = "commit" /\ request[r].pc = "sources" /\ request'[r].loaded = request[r].loaded
      BY <2>3, <2>5 DEF ReadSources, RequestState, IdleRequest
    <3>2. RequestLive(r)'
      BY <1>1, <1>2, <1>5, <3>1, <2>5 DEF ReadSources, Live
    <3> QED
      BY <1>6, <1>10, <2>1, <2>2, <2>5, <3>2 DEF ReadSources, ReferencesLive
  <2>6. CASE CommitBatch(r)
    <3>1. RequestLive(r)'
      BY <2>6, CommitBatchRows, CommitBatchLive DEF Live
    <3> QED
      BY <1>6, <1>10, <2>1, <2>2, <2>6, <3>1 DEF CommitBatch, ReferencesLive
  <2>7. CASE SendTask(r)
    <3>1. PICK j \in request[r].unsent :
            /\ queue' = [queue EXCEPT ![j] = @ + 1]
            /\ request' = [request EXCEPT ![r] =
                              IF request[r].unsent = {j} THEN IdleRequest
                              ELSE [@ EXCEPT !.unsent = request[r].unsent \ {j}]]
      BY <2>7 DEF SendTask
    <3>2. Live(j) /\ j \in JobIds
      BY <1>2, <1>5, <2>7, <3>1 DEF SendTask
    <3>3. \/ request'[r].pc = "idle"
          \/ request'[r].pc = "send" /\ request'[r].unsent \subseteq request[r].unsent
      BY <2>3, <2>7, <3>1 DEF SendTask, RequestState, IdleRequest
    <3>4. RequestLive(r)'
      BY <1>1, <1>2, <1>5, <2>7, <3>3 DEF SendTask, Live
    <3> QED
      BY <1>7, <1>10, <2>1, <2>2, <3>1, <3>2, <3>4 DEF ReferencesLive
  <2> QED
    BY <1>11, <2>4, <2>5, <2>6, <2>7 DEF RequestStep
<1>12. ASSUME NEW r \in Requests, UNCHANGED <<queue, worker>>,
              \A q \in Requests : q # r => request'[q] = request[q],
              request'[r].pc \notin {"sources", "commit", "send"}
       PROVE  ReferencesLive'
  BY <1>6, <1>8, <1>10, <1>12 DEF ReferencesLive
<1>13. CASE \E r \in Requests :
               SendFails(r) \/ \E zyte \in BOOLEAN, n \in Limits : StartBatch(r, zyte, n)
  <2>1. PICK r \in Requests :
               SendFails(r) \/ \E zyte \in BOOLEAN, n \in Limits : StartBatch(r, zyte, n)
    BY <1>13
  <2>2. /\ \A q \in Requests : q # r => request'[q] = request[q]
        /\ request'[r].pc \notin {"sources", "commit", "send"}
    <3>1. \/ request' = [request EXCEPT ![r] = IdleRequest]
          \/ \E zyte \in BOOLEAN, n \in Limits : request' = [request EXCEPT ![r] =
                [IdleRequest EXCEPT !.pc = "jobs", !.began = batches + 1, !.zyte = zyte, !.limit = n]]
      BY <2>1 DEF SendFails, StartBatch
    <3> QED
      <4>1. CASE request' = [request EXCEPT ![r] = IdleRequest]
        BY <4>1 DEF IdleRequest, TypeOK, RequestsOK
      <4>2. ASSUME NEW zyte, NEW n, request' = [request EXCEPT ![r] =
                      [IdleRequest EXCEPT !.pc = "jobs", !.began = batches + 1,
                                          !.zyte = zyte, !.limit = n]]
            PROVE  <2>2!1 /\ <2>2!2
        BY <4>2 DEF IdleRequest, TypeOK, RequestsOK
      <4> QED
        BY <3>1, <4>1, <4>2
  <2> QED
    BY <1>12, <2>1, <2>2 DEF SendFails, StartBatch
<1>14. ASSUME NEW w \in Workers, NEW i \in JobIds, Receive(w, i) PROVE ReferencesLive'
  <2>1. Live(i)
    BY <1>2, <1>14 DEF Receive
  <2>2. QueueLive'
    BY <1>1, <1>2, <1>3, <1>14 DEF Receive
  <2>3. WorkersLive'
    <3>1. CASE UNCHANGED worker
      BY <1>8, <3>1
    <3>2. CASE worker' = [worker EXCEPT ![w] = [IdleWorker EXCEPT
                  !.pc = "marking", !.job = i, !.zyte = job[i].zyte, !.copy = job[i].status]]
      <4>1. worker'[w].job = i /\ \A v \in Workers : v # w => worker'[v] = worker[v]
        BY <3>2 DEF IdleWorker, TypeOK, WorkersOK
      <4> QED
        BY <1>1, <1>2, <1>4, <2>1, <4>1 DEF Live
    <3> QED
      BY <1>14, <3>1, <3>2 DEF Receive
  <2> QED
    BY <1>10, <1>14, <2>2, <2>3 DEF Receive, ReferencesLive
<1>15. ASSUME NEW w \in Workers,
              \/ MarkRunning(w) \/ CheckChunks(w) \/ PutImmutable(w) \/ ReadVersion(w)
              \/ \E c \in Captions : FetchCaptions(w, c)
              \/ Publish(w) \/ RecordFailure(w) \/ FetchBlocked(w) \/ Raise(w) \/ ChildKilled(w)
       PROVE  ReferencesLive'
  <2>1. WorkersLive'
    BY <1>9, <1>15, TaskMoves
  <2>2. UNCHANGED <<queue, request>>
    BY <1>15 DEF MarkRunning, CheckChunks, PutImmutable, ReadVersion, FetchCaptions, Publish,
       RecordFailure, FetchBlocked, Raise, ChildKilled
  <2> QED
    BY <1>6, <1>10, <2>1, <2>2 DEF ReferencesLive
<1>16. ASSUME NEW w \in Workers, Redeliver(w) \/ WorkerDies(w) PROVE ReferencesLive'
  <2>1. worker[w].job \in JobIds /\ Live(worker[w].job)
    BY <1>2, <1>4, <1>16 DEF Redeliver, WorkerDies
  <2>2. QueueLive'
    BY <1>7, <1>16, <2>1 DEF Redeliver, WorkerDies
  <2>3. WorkersLive'
    BY <1>8, <1>9, <1>16, TaskMoves DEF Redeliver
  <2> QED
    BY <1>10, <1>16, <2>2, <2>3 DEF Redeliver, WorkerDies, ReferencesLive
<1>17. CASE UNCHANGED <<queue, worker, request>>
  BY <1>6, <1>8, <1>10, <1>17 DEF ReferencesLive
<1> QED
  BY <1>11, <1>13, <1>14, <1>15, <1>16, <1>17
     DEF Next, WorkerStep, Fault, BlockAges, DayPasses, vars

LEMMA StoredStep ==
    ASSUME EvidenceInv, [Next]_vars
    PROVE  Uploaded' /\ EvidenceIsStored'
<1>1. TypeOK /\ RowsInOrder /\ ReferencesLive /\ Uploaded /\ EvidenceIsStored
  BY DEF EvidenceInv
<1>2. worker \in [Workers -> WorkerState]
  BY <1>1 DEF TypeOK, WorkersOK
<1>3. ASSUME NEW w \in Workers, worker[w].pc # "idle"
      PROVE  job'[worker[w].job].source = SourceOf(w)
  <2>1. worker[w].job \in JobIds /\ Live(worker[w].job)
    BY <1>1, <1>3 DEF TypeOK, WorkersOK, Carries, ReferencesLive
  <2> QED
    BY <1>1, <2>1, RowsKept DEF SourceOf
<1>4. ASSUME NEW w \in Workers, store \subseteq store',
             worker[w].pc \in {"versioning", "inserting"},
             worker'[w].job = worker[w].job, worker'[w].day = worker[w].day,
             worker'[w].caption = worker[w].caption
      PROVE  KeyOf(w)' \in store'
  BY <1>1, <1>3, <1>4 DEF Uploaded, KeyOf, SourceOf
<1>5. ASSUME store \subseteq store',
             \A w \in Workers : worker'[w].pc \in {"versioning", "inserting"} =>
                \/ worker'[w] = worker[w]
                \/ /\ worker[w].pc = "versioning"
                   /\ worker'[w].job = worker[w].job /\ worker'[w].day = worker[w].day
                   /\ worker'[w].caption = worker[w].caption
      PROVE  Uploaded'
  <2> SUFFICES ASSUME NEW w \in Workers, worker'[w].pc \in {"versioning", "inserting"}
               PROVE  KeyOf(w)' \in store'
    BY DEF Uploaded
  <2> QED
    BY <1>4, <1>5
<1>6. ASSUME store \subseteq store', evidence' = evidence PROVE EvidenceIsStored'
  BY <1>1, <1>6 DEF EvidenceIsStored
<1>7. ASSUME NEW w \in Workers, PutImmutable(w) PROVE Uploaded' /\ EvidenceIsStored'
  <2> DEFINE key == [day |-> day, source |-> SourceOf(w), caption |-> worker[w].caption]
  <2>1. store' = store \cup {key} /\ worker[w].pc = "storing" /\ UNCHANGED database
    BY <1>7 DEF PutImmutable
  <2>2. worker'[w].day = day /\ worker'[w].job = worker[w].job /\ worker'[w].caption = worker[w].caption
    BY <1>2, <1>7 DEF PutImmutable, WorkerState
  <2>3. KeyOf(w)' = key
    BY <1>3, <2>1, <2>2 DEF KeyOf, SourceOf
  <2>4. \A v \in Workers : v # w => worker'[v] = worker[v]
    BY <1>2, <1>7 DEF PutImmutable
  <2>5. ASSUME NEW v \in Workers, worker'[v].pc \in {"versioning", "inserting"}
        PROVE  KeyOf(v)' \in store'
    BY <1>4, <2>1, <2>3, <2>4, <2>5
  <2> QED
    BY <1>6, <2>1, <2>5 DEF Uploaded, database
<1>8. ASSUME NEW w \in Workers, ReadVersion(w) PROVE Uploaded' /\ EvidenceIsStored'
  <2>1. PICK n : worker' = [worker EXCEPT ![w].pc = "inserting", ![w].version = n + 1]
    BY <1>8 DEF ReadVersion
  <2>2. /\ worker'[w].job = worker[w].job /\ worker'[w].day = worker[w].day
        /\ worker'[w].caption = worker[w].caption /\ worker[w].pc = "versioning"
        /\ \A v \in Workers : v # w => worker'[v] = worker[v]
    BY <1>2, <1>8, <2>1 DEF WorkerState, ReadVersion
  <2> QED
    BY <1>5, <1>6, <1>8, <2>2 DEF ReadVersion, database
<1>9. ASSUME NEW w \in Workers,
             \/ MarkRunning(w) \/ CheckChunks(w) \/ RecordFailure(w)
             \/ \E c \in Captions : FetchCaptions(w, c)
             \/ FetchBlocked(w) \/ Raise(w) \/ WorkerDies(w) \/ ChildKilled(w)
      PROVE  Uploaded' /\ EvidenceIsStored'
  <2>1. store' = store /\ evidence' = evidence
    BY <1>9 DEF MarkRunning, CheckChunks, RecordFailure, FetchCaptions, FetchBlocked, Raise,
       WorkerDies, ChildKilled, database
  <2>2. \A v \in Workers : v # w => worker'[v] = worker[v]
    BY <1>1, <1>9, TaskMoves
  <2>3. worker'[w].pc \in {"idle", "checking", "fetching", "storing", "failing"}
    BY <1>2, <1>9 DEF MarkRunning, CheckChunks, RecordFailure, FetchCaptions, FetchBlocked, Raise,
       WorkerDies, ChildKilled, Ack, IdleWorker, Goto, WorkerState
  <2> QED
    BY <1>5, <1>6, <2>1, <2>2, <2>3
<1>10. ASSUME NEW w \in Workers, Publish(w) PROVE Uploaded' /\ EvidenceIsStored'
  <2>1. \A v \in Workers : v # w => worker'[v] = worker[v]
    BY <1>1, <1>10, TaskMoves
  <2>2. worker'[w].pc \in {"idle", "failing"}
    BY <1>2, <1>10 DEF Publish, Ack, IdleWorker, WorkerState
  <2>3. worker[w].pc = "inserting" /\ store' = store
    BY <1>10 DEF Publish
  <2>4. \A e \in evidence' : e \in evidence \/ e.key = KeyOf(w)
    BY <1>10 DEF Publish, KeyOf, database
  <2>5. KeyOf(w) \in store
    BY <1>1, <2>3 DEF Uploaded
  <2> QED
    BY <1>1, <1>5, <2>1, <2>2, <2>3, <2>4, <2>5 DEF EvidenceIsStored
<1>11. ASSUME NEW w \in Workers, NEW i \in JobIds, Receive(w, i) PROVE Uploaded' /\ EvidenceIsStored'
  <2>1. \/ UNCHANGED worker
        \/ worker'[w].pc = "marking" /\ \A v \in Workers : v # w => worker'[v] = worker[v]
    BY <1>2, <1>11 DEF Receive, IdleWorker
  <2> QED
    BY <1>5, <1>6, <1>11, <2>1 DEF Receive
<1>12. CASE UNCHANGED <<worker, store, evidence>>
  BY <1>5, <1>6, <1>12
<1>13. CASE \/ \E r \in Requests : RequestStep(r) \/ SendFails(r)
            \/ \E r \in Requests, zyte \in BOOLEAN, n \in Limits : StartBatch(r, zyte, n)
            \/ \E w \in Workers : Redeliver(w)
            \/ \E j \in JobIds : BlockAges(j)
            \/ DayPasses
            \/ UNCHANGED vars
  BY <1>12, <1>13 DEF RequestStep, ReadJobs, ReadSources, CommitBatch, SendTask, SendFails, StartBatch,
     Redeliver, BlockAges, DayPasses, vars, database
<1> QED
  BY <1>7, <1>8, <1>9, <1>10, <1>11, <1>13 DEF Next, WorkerStep, Fault

LEMMA EvidenceHolds == Spec => []EvidenceInv
<1>1. Init => EvidenceInv
  <2> SUFFICES ASSUME Init PROVE EvidenceInv
    OBVIOUS
  <2>1. {j \in JobIds : Live(j)} = 1 .. 0
    BY DEF Init, Live
  <2>2. RowsInOrder
    BY <2>1, MaxJobsAssumption DEF RowsInOrder
  <2>3. ReferencesLive /\ Uploaded /\ EvidenceIsStored
    BY DEF Init, IdleWorker, IdleRequest, ReferencesLive, Uploaded, EvidenceIsStored
  <2> QED
    BY <2>2, <2>3, TypeInit DEF EvidenceInv
<1>2. EvidenceInv /\ [Next]_vars => EvidenceInv'
  BY TypeStep, RowsKept, ReferencesStep, StoredStep DEF EvidenceInv
<1> QED
  BY <1>1, <1>2, PTL DEF Spec

\* Every committed ingestion names an object that is in the bucket, whatever was
\* interrupted between the upload and the commit, and whoever uploads the same.
THEOREM EvidenceCorrect == Spec => []EvidenceIsStored
<1>1. EvidenceInv => EvidenceIsStored
  BY DEF EvidenceInv
<1> QED
  BY <1>1, EvidenceHolds, PTL

-----------------------------------------------------------------------------
(* The jobs implement JobLifeCycle.                                         *)

\* The transaction of a batch leaves every row it is going to send queued.
LEMMA CommitBatchQueues ==
    ASSUME TypeOK, NEW r \in Requests, CommitBatch(r)
    PROVE  \A j \in request'[r].unsent : job'[j].status = "queued"
<1> DEFINE rq == request[r]
           fresh == {s \in rq.targets : rq.loaded[s].id = NoJob}
<1>1. PICK new \in [fresh -> JobIds] :
        LET id == [s \in rq.targets |-> IF s \in fresh THEN new[s] ELSE rq.loaded[s].id]
            requeued == {id[s] : s \in rq.targets \ fresh}
        IN  /\ job' = [j \in JobIds |->
                  IF \E s \in fresh : new[s] = j
                  THEN [source |-> CHOOSE s \in fresh : new[s] = j,
                        status |-> "queued", zyte |-> rq.zyte, created |-> rq.began]
                  ELSE IF j \in requeued
                  THEN [job[j] EXCEPT !.status = "queued",
                           !.zyte = IF rq.loaded[job[j].source].zyte = rq.zyte THEN @ ELSE rq.zyte]
                  ELSE job[j]]
            /\ request' = [request EXCEPT ![r].pc = "send",
                                          ![r].unsent = {id[s] : s \in rq.targets}]
  BY DEF CommitBatch
<1> DEFINE id == [s \in rq.targets |-> IF s \in fresh THEN new[s] ELSE rq.loaded[s].id]
           requeued == {id[s] : s \in rq.targets \ fresh}
<1>2. request[r] \in RequestState
  BY DEF TypeOK, RequestsOK
<1>3. request'[r].unsent = {id[s] : s \in rq.targets}
  BY <1>1, <1>2 DEF TypeOK, RequestsOK, RequestState
<1>4. ASSUME NEW s \in rq.targets PROVE job'[id[s]].status = "queued"
  <2>1. id[s] \in JobIds
    <3>1. rq.targets \subseteq Sources /\ rq.loaded \in [Sources -> LoadedJob]
      BY <1>2 DEF RequestState
    <3> QED
      BY <3>1 DEF LoadedJob
  <2>2. CASE \E t \in fresh : new[t] = id[s]
    BY <1>1, <2>1, <2>2
  <2>3. CASE ~\E t \in fresh : new[t] = id[s]
    <3>1. s \notin fresh /\ id[s] \in requeued
      BY <2>3
    <3>2. job[id[s]] \in Row
      BY <2>1 DEF TypeOK, DatabaseOK
    <3>3. job'[id[s]] = [job[id[s]] EXCEPT !.status = "queued",
              !.zyte = IF rq.loaded[job[id[s]].source].zyte = rq.zyte THEN @ ELSE rq.zyte]
      BY <1>1, <2>1, <2>3, <3>1
    <3> QED
      BY <3>2, <3>3 DEF Row
  <2> QED
    BY <2>2, <2>3
<1> QED
  BY <1>3, <1>4

\* As JobLifeCycle sees an error in a row.
LifeOf(status) == IF status = "blocked" THEN "failed" ELSE status
Owned == [j \in JobIds |-> HasOwner(j)]

LEMMA LifeStatusOf ==
    /\ LifeStatus = [j \in JobIds |-> LifeOf(job[j].status)]
    /\ LifeStatus' = [j \in JobIds |-> LifeOf(job'[j].status)]
    /\ Owned' = [j \in JobIds |-> HasOwner(j)']
BY DEF LifeStatus, LifeOf, Owned

\* Whether j has an owner does not change when nothing that could own it does.
LEMMA OwnerSame ==
    ASSUME NEW j \in JobIds,
           queue'[j] > 0 <=> queue[j] > 0,
           \A w \in Workers : (worker'[w].pc # "idle" /\ worker'[w].job = j)
                                  <=> (worker[w].pc # "idle" /\ worker[w].job = j),
           \A r \in Requests : (request'[r].pc = "send" /\ j \in request'[r].unsent)
                                  <=> (request[r].pc = "send" /\ j \in request[r].unsent)
    PROVE  HasOwner(j)' <=> HasOwner(j)
BY DEF HasOwner

LEMMA HasOwnerBoolean ==
    ASSUME NEW j \in JobIds
    PROVE  HasOwner(j) \in BOOLEAN /\ HasOwner(j)' \in BOOLEAN
BY DEF HasOwner

LEMMA OwnedSame ==
    ASSUME \A j \in JobIds : HasOwner(j)' <=> HasOwner(j)
    PROVE  Owned' = Owned
<1>1. \A j \in JobIds : HasOwner(j)' = HasOwner(j)
  BY HasOwnerBoolean
<1>2. Owned' = [j \in JobIds |-> HasOwner(j)']
  BY LifeStatusOf
<1>3. Owned = [j \in JobIds |-> HasOwner(j)]
  BY DEF Owned
<1> QED
  BY <1>1, <1>2, <1>3

LEMMA LifeStutters ==
    ASSUME \A j \in JobIds : LifeOf(job'[j].status) = LifeOf(job[j].status),
           \A j \in JobIds : HasOwner(j)' <=> HasOwner(j),
           losses' = losses
    PROVE  UNCHANGED Life!vars
<1>1. LifeStatus' = LifeStatus
  BY LifeStatusOf
<1>2. Owned' = Owned
  BY OwnedSame
<1> QED
  BY <1>1, <1>2 DEF Life!vars, Owned

\* One row is set to status, and the other rows keep their owners.
LEMMA LifeMoves ==
    ASSUME TypeOK, NEW i \in JobIds, NEW status, RowSet(i, status), HasOwner(i),
           \A j \in JobIds \ {i} : HasOwner(j)' <=> HasOwner(j),
           losses' = losses,
           \/ status = "running" /\ HasOwner(i)'
           \/ LifeOf(status) \in {"succeeded", "failed", "cancelled"}
    PROVE  Life!Next
<1>1. job'[i].status = status /\ \A j \in JobIds : j # i => job'[j] = job[j]
  BY RowSetRows DEF TypeOK
<1>2. LifeStatus' = [LifeStatus EXCEPT ![i] = LifeOf(status)]
  BY <1>1, LifeStatusOf
<1>3. Owned' = [Owned EXCEPT ![i] = HasOwner(i)'] /\ Owned[i] = HasOwner(i)
  <2>1. \A j \in JobIds : j # i => HasOwner(j)' = HasOwner(j)
    BY HasOwnerBoolean
  <2>2. Owned' = [j \in JobIds |-> HasOwner(j)']
    BY LifeStatusOf
  <2>3. Owned = [j \in JobIds |-> HasOwner(j)]
    BY DEF Owned
  <2> QED
    BY <2>1, <2>2, <2>3
<1>4. HasOwner(i)' \in BOOLEAN /\ HasOwner(i) \in BOOLEAN
  BY HasOwnerBoolean
<1>5. CASE status = "running" /\ HasOwner(i)'
  <2>1. \A j \in JobIds : HasOwner(j)' <=> HasOwner(j)
    BY <1>5
  <2>3. Owned' = Owned
    BY <2>1, OwnedSame
  <2>4. Life!Start(i)
    BY <1>2, <1>3, <1>5, <2>3 DEF Life!Start, LifeOf, Owned
  <2> QED
    BY <2>4 DEF Life!Next
<1>6. CASE LifeOf(status) \in {"succeeded", "failed", "cancelled"}
  <2>1. Life!End(i)
    BY <1>2, <1>3, <1>4, <1>6 DEF Life!End, Life!Ended, Owned
  <2> QED
    BY <2>1 DEF Life!Next
<1> QED
  BY <1>5, <1>6

\* A process is lost with what it owned.
LEMMA LifeLoses ==
    ASSUME UNCHANGED job, losses' = losses + 1,
           \A j \in JobIds : HasOwner(j)' => HasOwner(j)
    PROVE  Life!Next
<1> DEFINE S == {j \in JobIds : HasOwner(j) /\ ~HasOwner(j)'}
<1>1. LifeStatus' = LifeStatus
  BY DEF LifeStatus
<1>2. Owned' = [j \in JobIds |-> j \notin S /\ Owned[j]] /\ \A j \in S : Owned[j]
  <2>1. \A j \in JobIds : Owned[j] = HasOwner(j) /\ HasOwner(j) \in BOOLEAN /\ HasOwner(j)' \in BOOLEAN
    BY DEF Owned, HasOwner
  <2>2. \A j \in JobIds : HasOwner(j)' = (j \notin S /\ Owned[j])
    BY <2>1
  <2> HIDE DEF S
  <2>3. Owned' = [j \in JobIds |-> j \notin S /\ Owned[j]]
    BY <2>2, LifeStatusOf
  <2>4. \A j \in S : Owned[j]
    BY <2>1 DEF S
  <2> QED
    BY <2>3, <2>4
<1>3. S \in SUBSET JobIds
  OBVIOUS
<1> HIDE DEF S
<1>4. Life!Lose(S)
  BY <1>1, <1>2 DEF Life!Lose, Owned
<1> QED
  BY <1>3, <1>4 DEF Life!Next

\* Steps of a request that neither commit nor send.
LEMMA LifeOfReads ==
    ASSUME TypeOK, NEW r \in Requests,
           ReadJobs(r) \/ ReadSources(r) \/ \E zyte \in BOOLEAN, n \in Limits : StartBatch(r, zyte, n)
    PROVE  UNCHANGED Life!vars
<1>1. request[r].pc # "send" /\ UNCHANGED <<job, losses, queue, worker>>
  BY DEF ReadJobs, ReadSources, StartBatch, database, bounds
<1>2. \A q \in Requests : q # r => request'[q] = request[q]
  BY DEF ReadJobs, ReadSources, StartBatch, TypeOK, RequestsOK
<1>3. request'[r].pc # "send"
  <2>1. request[r] \in RequestState
    BY DEF TypeOK, RequestsOK
  <2>2. \/ request' = [request EXCEPT ![r] = IdleRequest]
        \/ \E q : request' = [request EXCEPT ![r] = q] /\ q.pc # "send"
    <3>1. CASE ReadJobs(r)
      <4> DEFINE q == [request[r] EXCEPT !.pc = "sources", !.loaded = [s \in Sources |-> Load(s)]]
      <4>1. request' = [request EXCEPT ![r] = q] /\ q.pc = "sources"
        BY <3>1, <2>1 DEF ReadJobs, RequestState
      <4> HIDE DEF q
      <4> QED
        BY <4>1
    <3>2. CASE ReadSources(r)
      <4> DEFINE targets == {s \in FirstUnprocessed(request[r].limit) :
                                request[r].loaded[s].status \notin Active}
                 q == [request[r] EXCEPT !.pc = "commit", !.targets = targets]
      <4>1. request' = [request EXCEPT ![r] = IdleRequest] \/ request' = [request EXCEPT ![r] = q]
        BY <3>2 DEF ReadSources
      <4>2. q.pc = "commit"
        BY <2>1 DEF RequestState
      <4> HIDE DEF q
      <4> QED
        BY <4>1, <4>2
    <3>3. ASSUME NEW zyte \in BOOLEAN, NEW n \in Limits, StartBatch(r, zyte, n)
          PROVE  \E q : request' = [request EXCEPT ![r] = q] /\ q.pc # "send"
      <4> DEFINE q == [IdleRequest EXCEPT !.pc = "jobs", !.began = batches + 1, !.zyte = zyte, !.limit = n]
      <4>1. request' = [request EXCEPT ![r] = q] /\ q.pc = "jobs"
        BY <3>3 DEF StartBatch, IdleRequest
      <4> HIDE DEF q
      <4> QED
        BY <4>1
    <3> QED
      BY <3>1, <3>2, <3>3
  <2>3. IdleRequest.pc = "idle" /\ request \in [Requests -> RequestState]
    BY DEF IdleRequest, TypeOK, RequestsOK
  <2> QED
    BY <2>2, <2>3
<1>4. ASSUME NEW j \in JobIds PROVE HasOwner(j)' <=> HasOwner(j)
  BY <1>1, <1>2, <1>3, OwnerSame
<1> QED
  BY <1>1, <1>4, LifeStutters

\* The commit queues rows, and owns them.
LEMMA LifeOfCommit ==
    ASSUME TypeOK, NEW r \in Requests, CommitBatch(r)
    PROVE  Life!Next
<1> DEFINE S == request'[r].unsent
<1>1. /\ request'[r].pc = "send"
      /\ \A j \in JobIds : \/ job'[j] = job[j]
                           \/ job'[j].status = "queued" /\ j \in request'[r].unsent
  BY CommitBatchRows
<1>2. \A j \in S : job'[j].status = "queued"
  BY CommitBatchQueues
<1>3. S \in SUBSET JobIds
  BY CommitBatchType DEF TypeOK, RequestsOK, RequestState
<1>4. UNCHANGED <<queue, worker, losses>> /\ request[r].pc = "commit"
  BY DEF CommitBatch, bounds
<1>5. \A q \in Requests : q # r => request'[q] = request[q]
  BY DEF CommitBatch, TypeOK, RequestsOK
<1>6. ASSUME NEW j \in JobIds PROVE HasOwner(j)' <=> (j \in S \/ HasOwner(j))
  BY <1>1, <1>4, <1>5 DEF HasOwner
<1>7. LifeStatus' = [j \in JobIds |-> IF j \in S THEN "queued" ELSE LifeStatus[j]]
  <2>1. \A j \in JobIds : LifeOf(job'[j].status) = IF j \in S THEN "queued" ELSE LifeOf(job[j].status)
    BY <1>1, <1>2 DEF LifeOf
  <2> HIDE DEF S
  <2> QED
    BY <2>1, LifeStatusOf
<1>8. Owned' = [j \in JobIds |-> j \in S \/ Owned[j]]
  <2>1. \A j \in JobIds : HasOwner(j)' = (j \in S \/ Owned[j])
    BY <1>6 DEF Owned, HasOwner
  <2> HIDE DEF S
  <2> QED
    BY <2>1, LifeStatusOf
<1> HIDE DEF S
<1>9. Life!Queue(S)
  BY <1>4, <1>7, <1>8 DEF Life!Queue, Owned
<1> QED
  BY <1>3, <1>9 DEF Life!Next

\* A message takes a row over from the request that sent it.
LEMMA LifeOfSend ==
    ASSUME TypeOK, NEW r \in Requests, SendTask(r)
    PROVE  UNCHANGED Life!vars
<1>1. PICK i \in request[r].unsent :
        /\ queue' = [queue EXCEPT ![i] = @ + 1]
        /\ request' = [request EXCEPT ![r] =
                          IF request[r].unsent = {i} THEN IdleRequest
                          ELSE [@ EXCEPT !.unsent = request[r].unsent \ {i}]]
  BY DEF SendTask
<1>2. /\ i \in JobIds /\ queue \in [JobIds -> Nat] /\ request[r] \in RequestState
      /\ request[r].pc = "send" /\ UNCHANGED <<job, worker, losses>>
  BY <1>1 DEF SendTask, TypeOK, RequestsOK, RequestState, OutsideOK, database, bounds
<1>3. \A q \in Requests : q # r => request'[q] = request[q]
  BY <1>1 DEF TypeOK, RequestsOK
<1>4. ASSUME NEW j \in JobIds PROVE HasOwner(j)' <=> HasOwner(j)
  <2>1. CASE j = i
    <3>1. queue'[i] > 0
      BY <1>1, <1>2
    <3> QED
      BY <1>1, <1>2, <2>1, <3>1 DEF HasOwner
  <2>2. CASE j # i
    <3>1. queue'[j] = queue[j]
      BY <1>1, <1>2, <2>2
    <3>2. (request'[r].pc = "send" /\ j \in request'[r].unsent) <=> j \in request[r].unsent
      <4>1. CASE request[r].unsent = {i}
        <5>1. request'[r] = IdleRequest
          BY <1>1, <4>1 DEF TypeOK, RequestsOK
        <5> QED
          BY <2>2, <4>1, <5>1 DEF IdleRequest
      <4>2. CASE request[r].unsent # {i}
        <5>1. request'[r] = [request[r] EXCEPT !.unsent = request[r].unsent \ {i}]
          BY <1>1, <4>2 DEF TypeOK, RequestsOK
        <5> QED
          BY <1>2, <2>2, <5>1 DEF RequestState
      <4> QED
        BY <4>1, <4>2
    <3> QED
      BY <1>2, <1>3, <3>1, <3>2, OwnerSame
  <2> QED
    BY <2>1, <2>2
<1> QED
  BY <1>2, <1>4, LifeStutters

LEMMA LifeOfReceive ==
    ASSUME TypeOK, NEW w \in Workers, NEW i \in JobIds, Receive(w, i)
    PROVE  [Life!Next]_(Life!vars)
<1>1. /\ queue \in [JobIds -> Nat] /\ queue' = [queue EXCEPT ![i] = @ - 1] /\ queue[i] > 0
      /\ UNCHANGED <<losses, request>> /\ worker[w].pc = "idle"
  BY DEF Receive, TypeOK, OutsideOK, bounds
<1>2. HasOwner(i)
  BY <1>1 DEF HasOwner
<1>3. \A j \in JobIds \ {i} : queue'[j] = queue[j]
  BY <1>1
<1>4. CASE UNCHANGED <<job, worker>> /\ job[i].status = "cancelled"
  <2>1. \A j \in JobIds \ {i} : HasOwner(j)' <=> HasOwner(j)
    BY <1>1, <1>3, <1>4, OwnerSame
  <2>2. CASE HasOwner(i)'
    <3>1. \A j \in JobIds : HasOwner(j)' <=> HasOwner(j)
      BY <1>2, <2>1, <2>2
    <3> QED
      BY <1>1, <1>4, <3>1, LifeStutters
  <2>3. CASE ~HasOwner(i)'
    <3>1. LifeStatus' = LifeStatus /\ LifeStatus[i] = "cancelled"
      BY <1>4 DEF LifeStatus
    <3>2. Owned' = [Owned EXCEPT ![i] = FALSE] /\ Owned[i]
      <4>1. \A j \in JobIds : HasOwner(j) \in BOOLEAN /\ HasOwner(j)' \in BOOLEAN
        BY DEF HasOwner
      <4> QED
        BY <1>2, <2>1, <2>3, <4>1, LifeStatusOf DEF Owned
    <3>3. Life!Drop(i)
      BY <1>1, <3>1, <3>2 DEF Life!Drop, Life!Ended, Owned
    <3> QED
      BY <3>3 DEF Life!Next
  <2> QED
    BY <2>2, <2>3
<1>5. CASE RowSet(i, "cancelled") /\ UNCHANGED worker
  <2>1. \A j \in JobIds \ {i} : HasOwner(j)' <=> HasOwner(j)
    BY <1>1, <1>3, <1>5, OwnerSame
  <2> QED
    BY <1>1, <1>2, <1>5, <2>1, LifeMoves DEF LifeOf
<1>6. CASE UNCHANGED job /\ worker' = [worker EXCEPT ![w] =
              [IdleWorker EXCEPT !.pc = "marking", !.job = i, !.zyte = job[i].zyte, !.copy = job[i].status]]
  <2>1. worker'[w].pc = "marking" /\ worker'[w].job = i /\ \A v \in Workers : v # w => worker'[v] = worker[v]
    BY <1>6 DEF TypeOK, WorkersOK, IdleWorker
  <2>2. HasOwner(i)'
    BY <2>1 DEF HasOwner
  <2>3. \A j \in JobIds \ {i} : HasOwner(j)' <=> HasOwner(j)
    BY <1>1, <1>3, <2>1, OwnerSame
  <2>4. \A j \in JobIds : HasOwner(j)' <=> HasOwner(j)
    BY <1>2, <2>2, <2>3
  <2> QED
    BY <1>1, <1>6, <2>4, LifeStutters
<1> QED
  BY <1>4, <1>5, <1>6, RowWrites DEF Receive

\* A task that stays with its job owns what it owned.
LEMMA OwnersOfTask ==
    ASSUME TypeOK, NEW w \in Workers, worker[w].pc # "idle", UNCHANGED <<queue, request>>,
           \A v \in Workers : v # w => worker'[v] = worker[v],
           worker'[w].pc # "idle", worker'[w].job = worker[w].job
    PROVE  \A j \in JobIds : HasOwner(j)' <=> HasOwner(j)
BY OwnerSame

\* A task that ends owned no other job.
LEMMA OwnersOfAck ==
    ASSUME TypeOK, NEW w \in Workers, worker[w].pc # "idle", UNCHANGED <<queue, request>>, Ack(w)
    PROVE  \A j \in JobIds \ {worker[w].job} : HasOwner(j)' <=> HasOwner(j)
<1>1. worker'[w].pc = "idle" /\ \A v \in Workers : v # w => worker'[v] = worker[v]
  BY DEF Ack, IdleWorker, TypeOK, WorkersOK
<1> QED
  BY <1>1, OwnerSame

LEMMA LifeOfTask ==
    ASSUME TypeOK, NEW w \in Workers, WorkerStep(w) \/ FetchBlocked(w) \/ Raise(w)
    PROVE  [Life!Next]_(Life!vars)
<1>1. /\ worker \in [Workers -> WorkerState] /\ worker[w] \in WorkerState
      /\ worker[w].pc # "idle" => worker[w].job \in JobIds /\ HasOwner(worker[w].job)
  BY DEF TypeOK, WorkersOK, Carries, HasOwner
<1>2. ASSUME NEW status, LifeOf(status) \in {"succeeded", "failed", "cancelled"}, worker[w].pc # "idle",
             UNCHANGED <<losses, queue, request>>, RowSet(worker[w].job, status), Ack(w)
      PROVE  Life!Next
  BY <1>1, <1>2, OwnersOfAck, LifeMoves
<1>3. CASE MarkRunning(w)
  <2>1. /\ \A v \in Workers : v # w => worker'[v] = worker[v]
        /\ worker'[w].pc = "checking" /\ worker'[w].job = worker[w].job
    BY <1>1, <1>3 DEF MarkRunning, Goto, WorkerState
  <2>2. \A j \in JobIds : HasOwner(j)' <=> HasOwner(j)
    BY <1>3, <2>1, OwnersOfTask DEF MarkRunning
  <2>3. CASE UNCHANGED job
    BY <1>3, <2>2, <2>3, LifeStutters DEF MarkRunning, bounds
  <2>4. CASE RowSet(worker[w].job, "running")
    <3>1. worker[w].job \in JobIds /\ HasOwner(worker[w].job) /\ losses' = losses
      BY <1>1, <1>3 DEF MarkRunning, bounds
    <3> QED
      BY <2>2, <2>4, <3>1, LifeMoves
  <2> QED
    BY <1>1, <1>3, <2>3, <2>4, RowWrites DEF MarkRunning
<1>4. CASE CheckChunks(w)
  <2>1. worker[w].pc # "idle" /\ UNCHANGED <<losses, queue, request>>
    BY <1>4 DEF CheckChunks, bounds
  <2>2. CASE RowSet(worker[w].job, "succeeded") /\ Ack(w)
    BY <1>2, <2>1, <2>2 DEF LifeOf
  <2>3. CASE Goto(w, "fetching") /\ UNCHANGED job
    <3>1. /\ \A v \in Workers : v # w => worker'[v] = worker[v]
          /\ worker'[w].pc = "fetching" /\ worker'[w].job = worker[w].job
      BY <1>1, <2>3 DEF Goto, WorkerState
    <3> QED
      BY <2>1, <2>3, <3>1, OwnersOfTask, LifeStutters
  <2> QED
    BY <1>4, <2>2, <2>3, RowWrites DEF CheckChunks
<1>5. CASE Publish(w) /\ RowSet(worker[w].job, "succeeded") /\ Ack(w)
  BY <1>2, <1>5 DEF Publish, LifeOf, bounds
<1>6. CASE RecordFailure(w)
  <2>1. LifeOf(worker[w].fault) = "failed"
    BY <1>1 DEF WorkerState, LifeOf
  <2> QED
    BY <1>1, <1>2, <1>6, <2>1, RowWrites DEF RecordFailure, bounds
<1>7. CASE \/ \E c \in Captions : FetchCaptions(w, c)
           \/ PutImmutable(w) \/ ReadVersion(w) \/ FetchBlocked(w) \/ Raise(w)
           \/ /\ Publish(w) /\ UNCHANGED database
              /\ worker' = [worker EXCEPT ![w].pc = "failing", ![w].fault = "failed"]
  <2>1. \/ \E c \in Captions : worker' = [worker EXCEPT ![w].pc = "storing", ![w].caption = c]
        \/ worker' = [worker EXCEPT ![w].pc = "versioning", ![w].day = day]
        \/ \E n : worker' = [worker EXCEPT ![w].pc = "inserting", ![w].version = n + 1]
        \/ \E f : worker' = [worker EXCEPT ![w].pc = "failing", ![w].fault = f]
    BY <1>7 DEF FetchCaptions, PutImmutable, ReadVersion, FetchBlocked, Raise
  <2>2. /\ \A v \in Workers : v # w => worker'[v] = worker[v]
        /\ worker'[w].pc # "idle" /\ worker'[w].job = worker[w].job
    BY <1>1, <2>1 DEF WorkerState
  <2>3. worker[w].pc # "idle" /\ UNCHANGED <<job, losses, queue, request>>
    BY <1>7 DEF FetchCaptions, PutImmutable, ReadVersion, FetchBlocked, Raise, Publish, database, bounds
  <2> QED
    BY <2>2, <2>3, OwnersOfTask, LifeStutters
<1>8. Publish(w) =>
        \/ RowSet(worker[w].job, "succeeded") /\ Ack(w)
        \/ /\ UNCHANGED database
           /\ worker' = [worker EXCEPT ![w].pc = "failing", ![w].fault = "failed"]
  BY RowWrites DEF Publish
<1> QED
  BY <1>3, <1>4, <1>5, <1>6, <1>7, <1>8, LifeOfReceive DEF WorkerStep

LEMMA LifeOfFault ==
    ASSUME TypeOK, Fault
    PROVE  [Life!Next]_(Life!vars)
<1>1. ASSUME NEW w \in Workers, Redeliver(w) \/ WorkerDies(w)
      PROVE  UNCHANGED Life!vars
  <2>1. worker[w].pc # "idle" /\ worker[w].job \in JobIds /\ queue \in [JobIds -> Nat]
    BY <1>1 DEF Redeliver, WorkerDies, TypeOK, WorkersOK, OutsideOK, Carries
  <2>2. /\ queue' = [queue EXCEPT ![worker[w].job] = @ + 1] /\ UNCHANGED <<job, losses, request>>
        /\ UNCHANGED worker \/ Ack(w)
    BY <1>1 DEF Redeliver, WorkerDies, database
  <2>3. ASSUME NEW j \in JobIds PROVE HasOwner(j)' <=> HasOwner(j)
    <3>1. CASE j = worker[w].job
      <4>1. queue'[j] > 0
        BY <2>1, <2>2, <3>1
      <4> QED
        BY <2>1, <3>1, <4>1 DEF HasOwner
    <3>2. CASE j # worker[w].job
      <4>1. queue'[j] = queue[j]
        BY <2>1, <2>2, <3>2
      <4>2. \A v \in Workers : (worker'[v].pc # "idle" /\ worker'[v].job = j)
                                  <=> (worker[v].pc # "idle" /\ worker[v].job = j)
        <5>1. CASE UNCHANGED worker
          BY <5>1
        <5>2. CASE Ack(w)
          BY <3>2, <5>2 DEF Ack, IdleWorker, TypeOK, WorkersOK
        <5> QED
          BY <2>2, <5>1, <5>2
      <4> QED
        BY <2>2, <4>1, <4>2, OwnerSame
    <3> QED
      BY <3>1, <3>2
  <2> QED
    BY <2>2, <2>3, LifeStutters
<1>2. ASSUME NEW w \in Workers, ChildKilled(w)
      PROVE  Life!Next
  <2>1. worker[w].pc # "idle" /\ Ack(w) /\ UNCHANGED <<job, queue, request>> /\ losses' = losses + 1
    BY <1>2 DEF ChildKilled, database
  <2>2. worker[w].job \in JobIds /\ HasOwner(worker[w].job)
    BY <2>1 DEF TypeOK, WorkersOK, Carries, HasOwner
  <2>3. \A j \in JobIds : HasOwner(j)' => HasOwner(j)
    BY <2>1, <2>2, OwnersOfAck
  <2> QED
    BY <2>1, <2>3, LifeLoses
<1>3. ASSUME NEW r \in Requests, SendFails(r)
      PROVE  Life!Next
  <2>1. /\ request' = [request EXCEPT ![r] = IdleRequest] /\ losses' = losses + 1
        /\ UNCHANGED <<job, queue, worker>>
    BY <1>3 DEF SendFails, database
  <2>2. request'[r].pc = "idle" /\ \A q \in Requests : q # r => request'[q] = request[q]
    BY <2>1 DEF TypeOK, RequestsOK, IdleRequest
  <2>3. \A j \in JobIds : HasOwner(j)' => HasOwner(j)
    BY <2>1, <2>2 DEF HasOwner
  <2> QED
    BY <2>1, <2>3, LifeLoses
<1> QED
  BY <1>1, <1>2, <1>3 DEF Fault

LEMMA LifeStep == TypeOK /\ [Next]_vars => [Life!Next]_(Life!vars)
<1> SUFFICES ASSUME TypeOK, [Next]_vars PROVE [Life!Next]_(Life!vars)
  OBVIOUS
<1>1. CASE UNCHANGED <<job, losses, queue, worker, request>>
  <2>1. \A j \in JobIds : HasOwner(j)' <=> HasOwner(j)
    BY <1>1, OwnerSame
  <2> QED
    BY <1>1, <2>1, LifeStutters
<1>2. ASSUME NEW i \in JobIds, BlockAges(i)
      PROVE  UNCHANGED Life!vars
  <2>1. RowSet(i, "failed") /\ job[i].status = "blocked" /\ UNCHANGED <<losses, queue, worker, request>>
    BY <1>2, RowWrites DEF BlockAges, bounds
  <2>2. \A j \in JobIds : HasOwner(j)' <=> HasOwner(j)
    BY <2>1, OwnerSame
  <2>3. \A j \in JobIds : LifeOf(job'[j].status) = LifeOf(job[j].status)
    BY <2>1, RowSetRows DEF LifeOf, TypeOK
  <2> QED
    BY <2>1, <2>2, <2>3, LifeStutters
<1>3. ASSUME NEW r \in Requests, RequestStep(r)
      PROVE  [Life!Next]_(Life!vars)
  BY <1>3, LifeOfReads, LifeOfCommit, LifeOfSend DEF RequestStep
<1>4. ASSUME NEW r \in Requests, NEW zyte \in BOOLEAN, NEW n \in Limits, StartBatch(r, zyte, n)
      PROVE  UNCHANGED Life!vars
  BY <1>4, LifeOfReads
<1>5. CASE DayPasses \/ UNCHANGED vars
  BY <1>1, <1>5 DEF DayPasses, vars, database, bounds
<1> QED
  BY <1>2, <1>3, <1>4, <1>5, LifeOfTask, LifeOfFault DEF Next

\* Caption jobs implement the abstract life of a row: JobLifeCycle.
THEOREM LifeCorrect == Spec => JobsFollowLifeCycle
<1>1. Init => Life!Init
  <2> SUFFICES ASSUME Init PROVE Life!Init
    OBVIOUS
  <2>1. \A j \in JobIds : ~HasOwner(j)
    BY DEF Init, HasOwner, IdleRequest, IdleWorker
  <2>2. LifeStatus = [j \in JobIds |-> "absent"]
    BY DEF Init, LifeStatus
  <2>3. [j \in JobIds |-> HasOwner(j)] = [j \in JobIds |-> FALSE]
    <3>1. \A j \in JobIds : HasOwner(j) = FALSE
      BY <2>1, HasOwnerBoolean
    <3> QED
      BY <3>1
  <2> QED
    BY <2>2, <2>3 DEF Life!Init, Init
<1> QED
  BY <1>1, LifeStep, TypeCorrect, PTL DEF Spec, JobsFollowLifeCycle, Life!Spec

-----------------------------------------------------------------------------
(* The versions of a source are contiguous, although MAX(version) is read   *)
(* in one step and the row inserted in another: what a task has read is at  *)
(* most one more than the number of rows, and the UNIQUE constraint refuses *)
(* every smaller one.                                                       *)

VersionRead ==
    \A w \in Workers : worker[w].pc = "inserting" =>
        worker[w].version \in 1 .. Cardinality(Ingestions(SourceOf(w))) + 1

VersionInv == IsFiniteSet(evidence) /\ VersionRead /\ VersionsContiguous

\* The row that the task of w inserts.
InsertedBy(w) == [source |-> SourceOf(w), version |-> worker[w].version, key |-> KeyOf(w)]

\* Evidence is only added, by a task at its insert that meets no row it collides with.
LEMMA EvidenceSteps ==
    ASSUME TypeOK, [Next]_vars
    PROVE  \/ evidence' = evidence
           \/ \E w \in Workers :
                 /\ worker[w].pc = "inserting"
                 /\ ~Collides(SourceOf(w), worker[w].version, KeyOf(w))
                 /\ evidence' = evidence \cup {InsertedBy(w)}
                 /\ RowSet(worker[w].job, "succeeded") /\ Ack(w) /\ Publish(w)
<1>1. CASE \E w \in Workers : Publish(w)
  BY <1>1, RowWrites DEF Publish, database, InsertedBy, KeyOf
<1>2. CASE ~\E w \in Workers : Publish(w)
  <2>1. CASE \/ \E r \in Requests, zyte \in BOOLEAN, n \in Limits : StartBatch(r, zyte, n)
             \/ \E r \in Requests : RequestStep(r)
    BY <2>1 DEF StartBatch, RequestStep, ReadJobs, ReadSources, CommitBatch, SendTask, database
  <2>2. CASE \E w \in Workers : WorkerStep(w) \/ FetchBlocked(w) \/ Raise(w)
    BY <1>2, <2>2 DEF WorkerStep, Receive, MarkRunning, CheckChunks, FetchCaptions, PutImmutable,
       ReadVersion, RecordFailure, FetchBlocked, Raise, database
  <2>3. CASE (\E j \in JobIds : BlockAges(j)) \/ DayPasses \/ Fault \/ UNCHANGED vars
    BY <2>3 DEF BlockAges, DayPasses, Fault, SendFails, Redeliver, WorkerDies, ChildKilled, vars, database
  <2> QED
    BY <2>1, <2>2, <2>3 DEF Next
<1> QED
  BY <1>1, <1>2

\* A task comes to its insert by reading the versions.
LEMMA InsertingSteps ==
    ASSUME TypeOK, [Next]_vars, NEW w \in Workers, worker'[w].pc = "inserting"
    PROVE  worker'[w] = worker[w] \/ ReadVersion(w)
<1>1. worker \in [Workers -> WorkerState]
  BY DEF TypeOK, WorkersOK
<1>2. CASE UNCHANGED worker
  BY <1>2
<1>3. ASSUME NEW v \in Workers, NEW i \in JobIds, Receive(v, i) PROVE worker'[w] = worker[w]
  <2>1. worker'[v].pc = "marking" \/ UNCHANGED worker
    BY <1>1, <1>3 DEF Receive, IdleWorker
  <2>2. \A u \in Workers : u # v => worker'[u] = worker[u]
    BY <1>1, <1>3 DEF Receive
  <2> QED
    BY <2>1, <2>2
<1>4. ASSUME NEW v \in Workers,
             \/ MarkRunning(v) \/ CheckChunks(v) \/ RecordFailure(v) \/ PutImmutable(v) \/ Publish(v)
             \/ \E c \in Captions : FetchCaptions(v, c)
             \/ FetchBlocked(v) \/ Raise(v) \/ WorkerDies(v) \/ ChildKilled(v)
      PROVE  worker'[w] = worker[w]
  <2>1. \A u \in Workers : u # v => worker'[u] = worker[u]
    BY <1>4, TaskMoves
  <2>2. worker'[v].pc # "inserting"
    BY <1>1, <1>4 DEF MarkRunning, CheckChunks, RecordFailure, PutImmutable, Publish, FetchCaptions,
       FetchBlocked, Raise, WorkerDies, ChildKilled, Ack, IdleWorker, Goto, WorkerState
  <2> QED
    BY <2>1, <2>2
<1>5. ASSUME NEW v \in Workers, ReadVersion(v) PROVE worker'[w] = worker[w] \/ ReadVersion(w)
  BY <1>1, <1>5, TaskMoves
<1>6. CASE \/ \E r \in Requests : RequestStep(r) \/ SendFails(r)
           \/ \E r \in Requests, zyte \in BOOLEAN, n \in Limits : StartBatch(r, zyte, n)
           \/ \E v \in Workers : Redeliver(v)
           \/ \E j \in JobIds : BlockAges(j)
           \/ DayPasses
           \/ UNCHANGED vars
  BY <1>2, <1>6 DEF RequestStep, ReadJobs, ReadSources, CommitBatch, SendTask, SendFails, StartBatch,
     Redeliver, BlockAges, DayPasses, vars, database
<1> QED
  BY <1>3, <1>4, <1>5, <1>6 DEF Next, WorkerStep, Fault

\* A process goes on working on the same source.
LEMMA SourceKept ==
    ASSUME TypeOK, RowsInOrder, ReferencesLive, [Next]_vars, NEW w \in Workers,
           worker[w].pc # "idle", worker'[w].job = worker[w].job
    PROVE  SourceOf(w)' = SourceOf(w)
<1>1. worker[w].job \in JobIds /\ Live(worker[w].job)
  BY DEF TypeOK, WorkersOK, Carries, ReferencesLive
<1> QED
  BY <1>1, RowsKept DEF SourceOf

\* The ingestions of one source are as finite as all of them.
LEMMA IngestionsFinite ==
    ASSUME IsFiniteSet(evidence), NEW s
    PROVE  IsFiniteSet(Ingestions(s)) /\ Cardinality(Ingestions(s)) \in Nat
<1>1. Ingestions(s) \in SUBSET evidence
  BY DEF Ingestions
<1> QED
  BY <1>1, FS_Subset, FS_CardinalityType

LEMMA VersionStep ==
    ASSUME EvidenceInv, VersionInv, [Next]_vars
    PROVE  VersionInv'
<1> DEFINE n(s) == Cardinality(Ingestions(s))
<1>1. TypeOK /\ RowsInOrder /\ ReferencesLive /\ IsFiniteSet(evidence)
  BY DEF EvidenceInv, VersionInv
<1>2. \A s : IsFiniteSet(Ingestions(s)) /\ n(s) \in Nat
  BY <1>1, IngestionsFinite
<1>3. \A w \in Workers : worker[w].pc # "idle" => SourceOf(w) \in Sources
  BY <1>1 DEF TypeOK, DatabaseOK, Row, WorkersOK, Carries, SourceOf
<1>4. CASE evidence' = evidence
  <2>1. \A s : Ingestions(s)' = Ingestions(s)
    BY <1>4 DEF Ingestions
  <2>2. VersionsContiguous'
    BY <2>1 DEF VersionInv, VersionsContiguous
  <2>3. ASSUME NEW w \in Workers, worker'[w].pc = "inserting"
        PROVE  worker'[w].version \in 1 .. Cardinality(Ingestions(SourceOf(w))') + 1
    <3>1. CASE worker'[w] = worker[w]
      <4>1. SourceOf(w)' = SourceOf(w)
        BY <1>1, <2>3, <3>1, SourceKept
      <4> QED
        BY <2>1, <2>3, <3>1, <4>1 DEF VersionInv, VersionRead, Ingestions
    <3>2. CASE ReadVersion(w)
      <4>1. PICK m \in {0} \cup {e.version : e \in evidence} :
              /\ IsMaxVersion(SourceOf(w), m)
              /\ worker' = [worker EXCEPT ![w].pc = "inserting", ![w].version = m + 1]
        BY <3>2 DEF ReadVersion
      <4>2. /\ worker'[w].job = worker[w].job /\ worker'[w].version = m + 1
            /\ worker[w].pc = "versioning"
        BY <1>1, <3>2, <4>1 DEF ReadVersion, TypeOK, WorkersOK, WorkerState
      <4>3. SourceOf(w)' = SourceOf(w) /\ SourceOf(w) \in Sources
        BY <1>1, <1>3, <4>2, SourceKept
      <4>4. m \in 0 .. n(SourceOf(w))
        <5>1. CASE m = 0
          BY <1>2, <5>1
        <5>2. CASE m # 0
          <6>1. m \in {e.version : e \in Ingestions(SourceOf(w))}
            BY <4>1, <5>2 DEF IsMaxVersion
          <6> QED
            BY <1>2, <4>3, <6>1 DEF VersionInv, VersionsContiguous
        <5> QED
          BY <5>1, <5>2
      <4>5. m + 1 \in 1 .. n(SourceOf(w)) + 1
        BY <1>2, <4>4
      <4>6. Ingestions(SourceOf(w))' = Ingestions(SourceOf(w))
        BY <2>1, <4>3 DEF Ingestions
      <4> QED
        BY <4>2, <4>5, <4>6
    <3> QED
      BY <1>1, <2>3, <3>1, <3>2, InsertingSteps
  <2> QED
    BY <1>1, <1>4, <2>2, <2>3 DEF VersionInv, VersionRead
<1>5. ASSUME NEW w \in Workers, worker[w].pc = "inserting",
             ~Collides(SourceOf(w), worker[w].version, KeyOf(w)),
             evidence' = evidence \cup {InsertedBy(w)}, Ack(w), Publish(w)
      PROVE  VersionInv'
  <2>1. PICK s \in Sources : s = SourceOf(w)
    BY <1>3, <1>5
  <2>2. PICK row : row = InsertedBy(w)
    OBVIOUS
  <2>3. row.source = s /\ row.version = worker[w].version
    BY <2>1, <2>2 DEF InsertedBy
  <2>4. worker[w].version = n(s) + 1 /\ row \notin Ingestions(s)
    <3>1. worker[w].version \in 1 .. n(s) + 1
      BY <1>5, <2>1 DEF VersionInv, VersionRead
    <3>2. worker[w].version \notin {e.version : e \in Ingestions(s)}
      BY <1>5, <2>1 DEF Collides, Ingestions
    <3>3. worker[w].version \notin 1 .. n(s)
      BY <3>2 DEF VersionInv, VersionsContiguous
    <3> QED
      BY <1>2, <2>3, <3>1, <3>2, <3>3
  <2>5. /\ Ingestions(s)' = Ingestions(s) \cup {row}
        /\ \A t \in Sources : t # s => Ingestions(t)' = Ingestions(t)
    BY <1>5, <2>2, <2>3 DEF Ingestions
  <2>6. Cardinality(Ingestions(s)') = n(s) + 1
    BY <1>2, <2>4, <2>5, FS_AddElement
  <2>7. ASSUME NEW t \in Sources PROVE n(t)' \in {n(t), n(t) + 1}
    <3>1. CASE t = s
      BY <2>6, <3>1
    <3>2. CASE t # s
      BY <2>5, <3>2
    <3> QED
      BY <3>1, <3>2
  <2>8. VersionsContiguous'
    <3> SUFFICES ASSUME NEW t \in Sources
                 PROVE  /\ {e.version : e \in Ingestions(t)'} = 1 .. Cardinality(Ingestions(t)')
                        /\ \A e, f \in Ingestions(t)' : e.version = f.version => e = f
      BY DEF VersionsContiguous, Ingestions
    <3>1. /\ {e.version : e \in Ingestions(t)} = 1 .. n(t)
          /\ \A e, f \in Ingestions(t) : e.version = f.version => e = f
      BY DEF VersionInv, VersionsContiguous
    <3>2. CASE t # s
      BY <2>5, <3>1, <3>2
    <3>3. CASE t = s
      <4>1. {e.version : e \in Ingestions(s) \cup {row}} = {e.version : e \in Ingestions(s)} \cup {row.version}
        OBVIOUS
      <4>2. (1 .. n(s)) \cup {n(s) + 1} = 1 .. n(s) + 1 /\ n(s) + 1 \notin 1 .. n(s)
        BY <1>2
      <4>3. {e.version : e \in Ingestions(t)'} = 1 .. Cardinality(Ingestions(t)')
        BY <2>3, <2>4, <2>5, <2>6, <3>1, <3>3, <4>1, <4>2
      <4>4. \A e \in Ingestions(s) : e.version # row.version
        BY <2>3, <2>4, <3>1, <3>3, <4>2
      <4> QED
        BY <2>5, <3>1, <3>3, <4>3, <4>4
    <3> QED
      BY <3>2, <3>3
  <2>9. ASSUME NEW v \in Workers, worker'[v].pc = "inserting"
        PROVE  worker'[v].version \in 1 .. Cardinality(Ingestions(SourceOf(v))') + 1
    <3>1. v # w
      BY <1>1, <1>5, <2>9 DEF Ack, IdleWorker, TypeOK, WorkersOK
    <3>2. worker'[v] = worker[v]
      BY <1>1, <1>5, <3>1, TaskMoves
    <3>3. PICK t \in Sources : t = SourceOf(v)
      BY <1>3, <2>9, <3>2
    <3>4. t = SourceOf(v)'
      BY <1>1, <2>9, <3>2, <3>3, SourceKept
    <3>5. worker[v].version \in 1 .. n(t) + 1
      BY <2>9, <3>2, <3>3 DEF VersionInv, VersionRead
    <3>6. worker[v].version \in 1 .. n(t)' + 1
      BY <1>2, <2>7, <3>5
    <3> QED
      BY <3>2, <3>4, <3>6 DEF Ingestions
  <2>10. IsFiniteSet(evidence')
    BY <1>1, <1>5, FS_AddElement
  <2> QED
    BY <2>8, <2>9, <2>10 DEF VersionInv, VersionRead
<1> QED
  BY <1>1, <1>4, <1>5, EvidenceSteps

LEMMA VersionsHold == Spec => []VersionInv
<1>1. Init => VersionInv
  <2> SUFFICES ASSUME Init PROVE VersionInv
    OBVIOUS
  <2>1. evidence = {} /\ \A s : Ingestions(s) = {}
    BY DEF Init, Ingestions
  <2>2. 1 .. 0 = {}
    OBVIOUS
  <2>3. VersionsContiguous
    BY <2>1, <2>2, FS_EmptySet DEF VersionsContiguous
  <2> QED
    BY <2>1, <2>3, FS_EmptySet DEF VersionInv, VersionRead, Init, IdleWorker
<1> QED
  BY <1>1, VersionStep, EvidenceHolds, PTL DEF Spec

\* The versions of a source are 1 .. n, one row each, for any number of tasks that have
\* read the same MAX(version) before either of them inserts.
THEOREM VersionsCorrect == Spec => []VersionsContiguous
<1>1. VersionInv => VersionsContiguous
  BY DEF VersionInv
<1> QED
  BY <1>1, VersionsHold, PTL

-----------------------------------------------------------------------------
(* A source is ingested once, as long as no two requests overlap and no     *)
(* delivery is repeated: a source then has one row, the row one owner, and  *)
(* an owned row is active and of a source without evidence.                 *)

Quiet == overlaps = 0 /\ duplicates = 0

WorksOn(w, j) == worker[w].pc # "idle" /\ worker[w].job = j
Sends(r, j) == request[r].pc = "send" /\ j \in request[r].unsent

OneRequestAtATime ==
    \A q, r \in Requests : request[q].pc # "idle" /\ request[r].pc # "idle" => q = r

OneRowPerSource ==
    \A i, j \in JobIds : Live(i) /\ Live(j) /\ job[i].source = job[j].source => i = j

OneOwnerOf(j) ==
    /\ queue[j] <= 1
    /\ queue[j] > 0 => /\ \A w \in Workers : ~WorksOn(w, j)
                       /\ \A r \in Requests : ~Sends(r, j)
    /\ \A w \in Workers : WorksOn(w, j) => \A r \in Requests : ~Sends(r, j)
    /\ \A v, w \in Workers : WorksOn(v, j) /\ WorksOn(w, j) => v = w

OwnedIsFresh(j) == HasOwner(j) => job[j].status \in Active /\ ~HasChunks(job[j].source)

\* What request r loaded of a source is still so, but for a job that has ended since.
LoadedIsCurrent(r) ==
    request[r].pc \in {"sources", "commit"} =>
        \A s \in Sources :
            IF request[r].loaded[s].id = NoJob THEN \A j \in JobIds : Live(j) => job[j].source # s
            ELSE LET j == request[r].loaded[s].id IN
                 /\ Live(j) /\ job[j].source = s
                 /\ request[r].loaded[s].status \notin Active => job[j].status \notin Active

TargetsFresh(r) ==
    request[r].pc = "commit" =>
        \A s \in request[r].targets : request[r].loaded[s].status \notin Active /\ ~HasChunks(s)

OnceInv ==
    /\ OneRequestAtATime
    /\ OneRowPerSource
    /\ \A j \in JobIds : OneOwnerOf(j) /\ OwnedIsFresh(j)
    /\ \A r \in Requests : LoadedIsCurrent(r) /\ TargetsFresh(r)

QuietInv == /\ Quiet => OnceInv
            /\ IngestedOnce

LEMMA QuietBefore ==
    ASSUME TypeOK, [Next]_vars, Quiet'
    PROVE  /\ Quiet
           /\ \A w \in Workers : ~Redeliver(w)
           /\ \A r \in Requests, zyte \in BOOLEAN, n \in Limits :
                StartBatch(r, zyte, n) => \A q \in Requests \ {r} : request[q].pc = "idle"
<1>1. overlaps \in Nat /\ duplicates \in Nat
  BY DEF TypeOK, BoundsOK
<1>2. ASSUME NEW r \in Requests, NEW zyte \in BOOLEAN, NEW n \in Limits, StartBatch(r, zyte, n)
      PROVE  Quiet /\ \A q \in Requests \ {r} : request[q].pc = "idle"
  <2>1. duplicates' = duplicates /\ overlaps' =
          IF \E q \in Requests \ {r} : request[q].pc # "idle" THEN overlaps + 1 ELSE overlaps
    BY <1>2 DEF StartBatch
  <2>2. overlaps' = 0 /\ duplicates' = 0
    BY DEF Quiet
  <2>3. ~\E q \in Requests \ {r} : request[q].pc # "idle"
    BY <1>1, <2>1, <2>2
  <2> QED
    BY <2>1, <2>2, <2>3 DEF Quiet
<1>3. ASSUME NEW w \in Workers, Redeliver(w) PROVE FALSE
  BY <1>1, <1>3 DEF Redeliver, Quiet
<1>4. ASSUME UNCHANGED <<overlaps, duplicates>> PROVE Quiet
  BY <1>4 DEF Quiet
<1>5. ASSUME NEW r \in Requests, RequestStep(r) PROVE Quiet
  BY <1>4, <1>5 DEF RequestStep, ReadJobs, ReadSources, CommitBatch, SendTask, bounds
<1>6. ASSUME NEW w \in Workers, WorkerStep(w) \/ FetchBlocked(w) \/ Raise(w) PROVE Quiet
  BY <1>4, <1>6 DEF WorkerStep, Receive, MarkRunning, CheckChunks, FetchCaptions, PutImmutable,
     ReadVersion, Publish, RecordFailure, FetchBlocked, Raise, bounds
<1>7. ASSUME \/ \E j \in JobIds : BlockAges(j)
             \/ DayPasses
             \/ \E r \in Requests : SendFails(r)
             \/ \E w \in Workers : WorkerDies(w) \/ ChildKilled(w)
             \/ UNCHANGED vars
      PROVE  Quiet
  BY <1>4, <1>7 DEF BlockAges, DayPasses, SendFails, WorkerDies, ChildKilled, bounds, vars
<1>8. Quiet
  BY <1>2, <1>3, <1>5, <1>6, <1>7 DEF Next, Fault
<1> QED
  BY <1>2, <1>3, <1>8

\* Each row after the endpoint's commit: new, taken over, or left alone and not sent.
LEMMA CommitBatchWrites ==
    ASSUME TypeOK, RowsInOrder, ReferencesLive, NEW r \in Requests, CommitBatch(r)
    PROVE  LET rq == request[r]
               fresh == {s \in rq.targets : rq.loaded[s].id = NoJob}
           IN  \E new \in [fresh -> JobIds] : \A j \in JobIds :
                  \/ /\ ~Live(j) /\ job'[j].source \in fresh /\ new[job'[j].source] = j
                     /\ job'[j].status = "queued" /\ j \in request'[r].unsent
                  \/ /\ \E s \in rq.targets : j = rq.loaded[s].id
                     /\ job'[j].source = job[j].source /\ Live(j)
                     /\ job'[j].status = "queued" /\ j \in request'[r].unsent
                  \/ job'[j] = job[j] /\ j \notin request'[r].unsent
<1> DEFINE rq == request[r]
           fresh == {s \in rq.targets : rq.loaded[s].id = NoJob}
           used == {j \in JobIds : Live(j)}
           k == Cardinality(fresh)
<1>1. PICK n \in 0 .. MaxJobs : used = 1 .. n
  BY DEF RowsInOrder
<1>2. n \in Nat /\ Cardinality(used) = n
  <2>1. n \in Nat
    BY <1>1, MaxJobsAssumption
  <2>2. Cardinality(1 .. n) = n
    BY <2>1, FS_Interval
  <2> QED
    BY <1>1, <2>1, <2>2
<1>3. PICK new \in [fresh -> JobIds] :
        /\ {new[s] : s \in fresh} = n + 1 .. n + 1 + k - 1
        /\ LET id == [s \in rq.targets |-> IF s \in fresh THEN new[s] ELSE rq.loaded[s].id]
               requeued == {id[s] : s \in rq.targets \ fresh}
           IN  /\ job' = [j \in JobIds |->
                     IF \E s \in fresh : new[s] = j
                     THEN [source |-> CHOOSE s \in fresh : new[s] = j,
                           status |-> "queued", zyte |-> rq.zyte, created |-> rq.began]
                     ELSE IF j \in requeued
                     THEN [job[j] EXCEPT !.status = "queued",
                              !.zyte = IF rq.loaded[job[j].source].zyte = rq.zyte THEN @ ELSE rq.zyte]
                     ELSE job[j]]
               /\ request' = [request EXCEPT ![r].pc = "send",
                                             ![r].unsent = {id[s] : s \in rq.targets}]
  BY <1>2 DEF CommitBatch, Live
<1> DEFINE id == [s \in rq.targets |-> IF s \in fresh THEN new[s] ELSE rq.loaded[s].id]
           requeued == {id[s] : s \in rq.targets \ fresh}
           Taken(j) == \E s \in fresh : new[s] = j
<1>4. rq \in RequestState /\ rq.pc = "commit" /\ rq.targets \subseteq Sources
  BY DEF CommitBatch, TypeOK, RequestsOK, RequestState
<1>5. request'[r].unsent = {id[s] : s \in rq.targets}
  BY <1>3, <1>4 DEF TypeOK, RequestsOK, RequestState
<1>6. k \in Nat
  <2>1. fresh \in SUBSET Sources
    BY <1>4
  <2>2. IsFiniteSet(Sources)
    BY FS_Interval, NumSourcesAssumption DEF Sources
  <2> QED
    BY <2>1, <2>2, FS_Subset, FS_CardinalityType
<1> HIDE DEF k
<1>7. ASSUME NEW j \in JobIds, Taken(j)
      PROVE  /\ ~Live(j) /\ job'[j].source \in fresh /\ new[job'[j].source] = j
             /\ job'[j].status = "queued" /\ j \in request'[r].unsent
  <2>1. PICK s \in fresh : new[s] = j
    BY <1>7
  <2>2. j \in n + 1 .. n + 1 + k - 1
    BY <1>3, <2>1
  <2>3. j \notin 1 .. n
    BY <1>2, <1>6, <2>2
  <2>4. job'[j].source = (CHOOSE t \in fresh : new[t] = j) /\ job'[j].status = "queued"
    BY <1>3, <1>7
  <2>5. (CHOOSE t \in fresh : new[t] = j) \in fresh /\ new[CHOOSE t \in fresh : new[t] = j] = j
    BY <2>1
  <2>6. id[s] = j /\ s \in rq.targets
    BY <2>1
  <2> QED
    BY <1>1, <1>5, <2>3, <2>4, <2>5, <2>6
<1>8. ASSUME NEW j \in JobIds, j \in requeued, ~Taken(j)
      PROVE  /\ \E s \in rq.targets : j = rq.loaded[s].id
             /\ job'[j].source = job[j].source /\ Live(j)
             /\ job'[j].status = "queued" /\ j \in request'[r].unsent
  <2>1. PICK s \in rq.targets \ fresh : j = rq.loaded[s].id /\ j = id[s]
    BY <1>8
  <2>2. Live(j)
    BY <1>4, <2>1 DEF ReferencesLive
  <2>3. job[j] \in Row
    BY DEF TypeOK, DatabaseOK
  <2>4. job'[j] = [job[j] EXCEPT !.status = "queued",
                      !.zyte = IF rq.loaded[job[j].source].zyte = rq.zyte THEN @ ELSE rq.zyte]
    BY <1>3, <1>8
  <2>5. job'[j].source = job[j].source /\ job'[j].status = "queued"
    BY <2>3, <2>4 DEF Row
  <2> QED
    BY <1>5, <2>1, <2>2, <2>5
<1>9. ASSUME NEW j \in JobIds, j \notin requeued, ~Taken(j)
      PROVE  job'[j] = job[j] /\ j \notin request'[r].unsent
  <2>1. job'[j] = job[j]
    BY <1>3, <1>9
  <2>2. \A s \in rq.targets : id[s] # j
    BY <1>9
  <2> QED
    BY <1>5, <2>1, <2>2
<1> QED
  BY <1>7, <1>8, <1>9

\* Every other step changes the status of rows that exist, and only the task of a row
\* makes it active.
LEMMA StatusSteps ==
    ASSUME TypeOK, ReferencesLive, [Next]_vars, ~\E r \in Requests : CommitBatch(r), NEW j \in JobIds
    PROVE  \/ job'[j] = job[j]
           \/ /\ Live(j) /\ Live(j)' /\ job'[j].source = job[j].source
              /\ job'[j].status \in Active => \E w \in Workers : WorksOn(w, j)
<1> DEFINE Goal == \/ job'[j] = job[j]
                   \/ /\ Live(j) /\ Live(j)' /\ job'[j].source = job[j].source
                      /\ job'[j].status \in Active => \E w \in Workers : WorksOn(w, j)
<1> SUFFICES Goal
  OBVIOUS
<1>1. CASE UNCHANGED job
  BY <1>1
<1>2. ASSUME NEW i \in JobIds, Live(i), NEW status \in Status \ {"absent"}, RowSet(i, status),
             status \in Active => \E w \in Workers : WorksOn(w, i)
      PROVE  Goal
  BY <1>2, RowSetRows DEF TypeOK, Live
<1>3. ASSUME NEW w \in Workers, WorkerStep(w) \/ FetchBlocked(w) \/ Raise(w) PROVE Goal
  <2>1. /\ worker[w].pc # "idle" => /\ worker[w].job \in JobIds /\ Live(worker[w].job)
                                    /\ WorksOn(w, worker[w].job)
        /\ worker[w].fault \in Status \ {"absent"} /\ worker[w].fault \notin Active
    BY DEF TypeOK, WorkersOK, WorkerState, Carries, ReferencesLive, Status, Active, WorksOn
  <2>2. /\ {"running", "succeeded", "cancelled"} \subseteq Status \ {"absent"}
        /\ "succeeded" \notin Active /\ "cancelled" \notin Active
    BY DEF Status, Active
  <2>3. CASE \E i \in JobIds : Receive(w, i)
    BY <1>1, <1>2, <2>2, <2>3, RowWrites DEF Receive, ReferencesLive
  <2>4. CASE MarkRunning(w)
    BY <1>1, <1>2, <2>1, <2>2, <2>4, RowWrites DEF MarkRunning
  <2>5. CASE CheckChunks(w)
    BY <1>1, <1>2, <2>1, <2>2, <2>5, RowWrites DEF CheckChunks
  <2>6. CASE RecordFailure(w)
    BY <1>2, <2>1, <2>6, RowWrites DEF RecordFailure
  <2>7. CASE Publish(w)
    <3>1. worker[w].pc = "inserting" /\ (UNCHANGED job \/ RowSet(worker[w].job, "succeeded"))
      BY <2>7, RowWrites DEF Publish, database
    <3> QED
      BY <1>1, <1>2, <2>1, <2>2, <3>1
  <2>8. CASE \/ \E c \in Captions : FetchCaptions(w, c)
             \/ PutImmutable(w) \/ ReadVersion(w) \/ FetchBlocked(w) \/ Raise(w)
    BY <1>1, <2>8 DEF FetchCaptions, PutImmutable, ReadVersion, FetchBlocked, Raise, database
  <2> QED
    BY <1>3, <2>3, <2>4, <2>5, <2>6, <2>7, <2>8 DEF WorkerStep
<1>4. ASSUME NEW i \in JobIds, BlockAges(i) PROVE Goal
  <2>1. Live(i) /\ RowSet(i, "failed") /\ "failed" \in Status \ {"absent"} /\ "failed" \notin Active
    BY <1>4, RowWrites DEF BlockAges, Live, Status, Active
  <2> QED
    BY <1>2, <2>1
<1>5. CASE \E r \in Requests : RequestStep(r)
  BY <1>1, <1>5 DEF RequestStep, ReadJobs, ReadSources, SendTask, database
<1>6. CASE \/ \E r \in Requests, zyte \in BOOLEAN, n \in Limits : StartBatch(r, zyte, n)
           \/ DayPasses \/ Fault \/ UNCHANGED vars
  BY <1>1, <1>6 DEF StartBatch, DayPasses, Fault, SendFails, Redeliver, WorkerDies, ChildKilled, vars, database
<1> HIDE DEF Goal
<1> QED
  BY <1>3, <1>4, <1>5, <1>6 DEF Next

\* A request changes by its own steps only.
LEMMA RequestSteps ==
    ASSUME TypeOK, [Next]_vars, NEW r \in Requests, request'[r] # request[r]
    PROVE  \/ RequestStep(r)
           \/ SendFails(r)
           \/ \E zyte \in BOOLEAN, n \in Limits : StartBatch(r, zyte, n)
<1>1. request \in [Requests -> RequestState] /\ ~UNCHANGED request
  BY DEF TypeOK, RequestsOK
<1>2. \A q \in Requests : \A x : request' = [request EXCEPT ![q] = x] => q = r
  BY <1>1
<1>3. ASSUME NEW q \in Requests, NEW zyte \in BOOLEAN, NEW n \in Limits, StartBatch(q, zyte, n)
      PROVE  q = r
  BY <1>2, <1>3 DEF StartBatch
<1>4. ASSUME NEW q \in Requests, RequestStep(q) PROVE q = r
  <2>1. \A p \in Requests : p # q => request'[p] = request[p]
    BY <1>1, <1>4 DEF RequestStep, ReadJobs, ReadSources, CommitBatch, SendTask
  <2> QED
    BY <2>1
<1>5. ASSUME NEW q \in Requests, SendFails(q) PROVE q = r
  BY <1>2, <1>5 DEF SendFails
<1>6. ~\E w \in Workers : WorkerStep(w) \/ FetchBlocked(w) \/ Raise(w)
  BY <1>1 DEF WorkerStep, Receive, MarkRunning, CheckChunks, FetchCaptions, PutImmutable,
     ReadVersion, Publish, RecordFailure, FetchBlocked, Raise
<1>7. ~\/ \E j \in JobIds : BlockAges(j)
       \/ DayPasses
       \/ \E w \in Workers : Redeliver(w) \/ WorkerDies(w) \/ ChildKilled(w)
       \/ UNCHANGED vars
  BY <1>1 DEF BlockAges, DayPasses, Redeliver, WorkerDies, ChildKilled, vars
<1> QED
  BY <1>3, <1>4, <1>5, <1>6, <1>7 DEF Next, Fault

LEMMA RequestsApart ==
    ASSUME TypeOK, OneRequestAtATime, [Next]_vars, Quiet'
    PROVE  OneRequestAtATime'
<1>1. ASSUME NEW r \in Requests, request'[r].pc # "idle"
      PROVE  \/ request[r].pc # "idle"
             \/ \A q \in Requests \ {r} : request[q].pc = "idle" /\ request'[q] = request[q]
  <2>1. CASE request'[r] = request[r]
    BY <1>1, <2>1
  <2>2. CASE RequestStep(r) \/ SendFails(r)
    BY <2>2 DEF RequestStep, ReadJobs, ReadSources, CommitBatch, SendTask, SendFails
  <2>3. CASE \E zyte \in BOOLEAN, n \in Limits : StartBatch(r, zyte, n)
    <3>1. \A q \in Requests \ {r} : request[q].pc = "idle"
      BY <2>3, QuietBefore
    <3>2. \A q \in Requests \ {r} : request'[q] = request[q]
      BY <2>3 DEF StartBatch, TypeOK, RequestsOK
    <3> QED
      BY <3>1, <3>2
  <2> QED
    BY <2>1, <2>2, <2>3, RequestSteps
<1> QED
  BY <1>1 DEF OneRequestAtATime

LEMMA OneRowStep ==
    ASSUME TypeOK, RowsInOrder, ReferencesLive, OnceInv, [Next]_vars
    PROVE  OneRowPerSource'
<1> SUFFICES ASSUME NEW i \in JobIds, NEW j \in JobIds, Live(i)', Live(j)',
                    job'[i].source = job'[j].source
             PROVE  i = j
  BY DEF OneRowPerSource
<1>1. ASSUME NEW r \in Requests, CommitBatch(r) PROVE i = j
  <2> DEFINE rq == request[r]
             fresh == {s \in rq.targets : rq.loaded[s].id = NoJob}
  <2>1. PICK new \in [fresh -> JobIds] : \A h \in JobIds :
          \/ /\ ~Live(h) /\ job'[h].source \in fresh /\ new[job'[h].source] = h
             /\ job'[h].status = "queued" /\ h \in request'[r].unsent
          \/ /\ \E s \in rq.targets : h = rq.loaded[s].id
             /\ job'[h].source = job[h].source /\ Live(h)
             /\ job'[h].status = "queued" /\ h \in request'[r].unsent
          \/ job'[h] = job[h] /\ h \notin request'[r].unsent
    BY <1>1, CommitBatchWrites
  <2>2. \A h \in JobIds : Live(h)' =>
          \/ ~Live(h) /\ job'[h].source \in fresh /\ new[job'[h].source] = h
          \/ job'[h].source = job[h].source /\ Live(h)
    BY <2>1 DEF Live
  <2>3. rq.targets \subseteq Sources /\ rq.pc = "commit"
    BY <1>1 DEF CommitBatch, TypeOK, RequestsOK, RequestState
  <2>4. \A s \in fresh, h \in JobIds : Live(h) => job[h].source # s
    BY <2>3 DEF OnceInv, LoadedIsCurrent
  <2>5. Live(i) /\ Live(j) /\ job[i].source = job[j].source => i = j
    BY DEF OnceInv, OneRowPerSource
  <2> HIDE DEF fresh
  <2> QED
    BY <2>2, <2>4, <2>5
<1>2. CASE ~\E r \in Requests : CommitBatch(r)
  <2>1. \A h \in {i, j} : Live(h) /\ job'[h].source = job[h].source
    BY <1>2, StatusSteps DEF Live
  <2> QED
    BY <2>1 DEF OnceInv, OneRowPerSource
<1> QED
  BY <1>1, <1>2

\* Evidence of a source is added by the task of a row of that source.
LEMMA NewEvidence ==
    ASSUME TypeOK, ReferencesLive, [Next]_vars, NEW s, ~HasChunks(s), \E e \in evidence' : e.source = s
    PROVE  \E j \in JobIds, w \in Workers :
              Live(j) /\ WorksOn(w, j) /\ job[j].source = s /\ Publish(w) /\ RowSet(j, "succeeded") /\ Ack(w)
<1>1. PICK e \in evidence' : e.source = s
  OBVIOUS
<1>2. e \notin evidence
  BY <1>1 DEF HasChunks
<1>3. PICK w \in Workers : /\ worker[w].pc = "inserting" /\ e = InsertedBy(w)
                           /\ RowSet(worker[w].job, "succeeded") /\ Ack(w) /\ Publish(w)
  BY <1>1, <1>2, EvidenceSteps
<1>4. worker[w].job \in JobIds /\ Live(worker[w].job)
  BY <1>3 DEF TypeOK, WorkersOK, Carries, ReferencesLive
<1> QED
  BY <1>1, <1>3, <1>4 DEF WorksOn, InsertedBy, SourceOf

\* What a request has loaded does not age in a way that matters.
LEMMA LoadedStep ==
    ASSUME TypeOK, RowsInOrder, ReferencesLive, OnceInv, [Next]_vars, OneRequestAtATime', NEW r \in Requests
    PROVE  LoadedIsCurrent(r)' /\ TargetsFresh(r)'
<1>1. request \in [Requests -> RequestState]
  BY DEF TypeOK, RequestsOK
<1>2. \A s \in Sources : request[r].loaded[s].id # NoJob => request[r].loaded[s].id \in JobIds
  BY <1>1 DEF RequestState, LoadedJob
<1>3. ASSUME request[r].pc \in {"sources", "commit"}, request'[r].pc \in {"sources", "commit"},
             request'[r].loaded = request[r].loaded
      PROVE  LoadedIsCurrent(r)'
  <2>1. ASSUME NEW q \in Requests, CommitBatch(q) PROVE FALSE
    <3>1. q = r
      BY <1>3, <2>1 DEF OnceInv, OneRequestAtATime, CommitBatch
    <3>2. request'[q].pc = "send"
      BY <2>1, CommitBatchRows
    <3> QED
      BY <1>3, <3>1, <3>2
  <2>2. \A j \in JobIds :
          \/ job'[j] = job[j]
          \/ /\ Live(j) /\ Live(j)' /\ job'[j].source = job[j].source
             /\ job'[j].status \in Active => \E w \in Workers : WorksOn(w, j)
    BY <2>1, StatusSteps
  <2>3. ASSUME NEW s \in Sources
        PROVE  IF request[r].loaded[s].id = NoJob THEN \A j \in JobIds : job'[j].status # "absent" => job'[j].source # s
               ELSE LET j == request[r].loaded[s].id IN
                    /\ job'[j].status # "absent" /\ job'[j].source = s
                    /\ request[r].loaded[s].status \notin Active => job'[j].status \notin Active
    <3>1. CASE request[r].loaded[s].id = NoJob
      <4>1. \A j \in JobIds : Live(j) => job[j].source # s
        BY <1>3, <3>1 DEF OnceInv, LoadedIsCurrent
      <4> QED
        BY <2>2, <3>1, <4>1 DEF Live
    <3>2. CASE request[r].loaded[s].id # NoJob
      <4>1. PICK j \in JobIds : j = request[r].loaded[s].id
        BY <1>2, <3>2
      <4>2. /\ Live(j) /\ job[j].source = s
            /\ request[r].loaded[s].status \notin Active => job[j].status \notin Active
        BY <1>3, <3>2, <4>1 DEF OnceInv, LoadedIsCurrent
      <4>3. (\E w \in Workers : WorksOn(w, j)) => job[j].status \in Active
        BY DEF OnceInv, OwnedIsFresh, HasOwner, WorksOn
      <4>4. /\ Live(j)' /\ job'[j].source = s
            /\ request[r].loaded[s].status \notin Active => job'[j].status \notin Active
        BY <2>2, <4>2, <4>3 DEF Live
      <4> QED
        BY <3>2, <4>1, <4>4 DEF Live
    <3> QED
      BY <3>1, <3>2
  <2> QED
    BY <1>2, <1>3, <2>3 DEF LoadedIsCurrent, Live
<1>4. ASSUME NEW s \in Sources, request[r].pc \in {"sources", "commit"},
             request[r].loaded[s].status \notin Active, ~HasChunks(s)
      PROVE  ~\E e \in evidence' : e.source = s
  <2> SUFFICES ASSUME \E e \in evidence' : e.source = s PROVE FALSE
    OBVIOUS
  <2>1. PICK j \in JobIds, w \in Workers : Live(j) /\ WorksOn(w, j) /\ job[j].source = s
    BY <1>4, NewEvidence
  <2>2. job[j].status \in Active
    BY <2>1 DEF OnceInv, OwnedIsFresh, HasOwner, WorksOn
  <2>3. request[r].loaded[s].id # NoJob
    BY <1>4, <2>1 DEF OnceInv, LoadedIsCurrent
  <2>4. PICK i \in JobIds : i = request[r].loaded[s].id
    BY <1>2, <2>3
  <2>5. Live(i) /\ job[i].source = s /\ job[i].status \notin Active
    BY <1>4, <2>3, <2>4 DEF OnceInv, LoadedIsCurrent
  <2>6. i = j
    BY <2>1, <2>5 DEF OnceInv, OneRowPerSource
  <2> QED
    BY <2>2, <2>5, <2>6
<1>5. CASE request'[r] = request[r]
  <2>1. LoadedIsCurrent(r)'
    <3>1. CASE request[r].pc \in {"sources", "commit"}
      BY <1>3, <1>5, <3>1
    <3>2. CASE request[r].pc \notin {"sources", "commit"}
      BY <1>5, <3>2 DEF LoadedIsCurrent
    <3> QED
      BY <3>1, <3>2
  <2>2. TargetsFresh(r)'
    <3> SUFFICES ASSUME request[r].pc = "commit", NEW s \in request[r].targets
                 PROVE  request[r].loaded[s].status \notin Active /\ ~\E e \in evidence' : e.source = s
      BY <1>5 DEF TargetsFresh, HasChunks, Active
    <3>1. request[r].loaded[s].status \notin Active /\ ~HasChunks(s) /\ s \in Sources
      BY <1>1 DEF OnceInv, TargetsFresh, RequestState
    <3> QED
      BY <1>4, <3>1
  <2> QED
    BY <2>1, <2>2
<1>6. CASE ReadJobs(r)
  <2>1. /\ request'[r].pc = "sources" /\ UNCHANGED job
        /\ \A s \in Sources : request'[r].loaded[s] = Load(s)
    BY <1>1, <1>6 DEF ReadJobs, RequestState, database
  <2>2. ASSUME NEW s \in Sources
        PROVE  IF Load(s).id = NoJob THEN \A j \in JobIds : Live(j) => job[j].source # s
               ELSE LET j == Load(s).id IN
                    Live(j) /\ job[j].source = s /\ (Load(s).status \notin Active => job[j].status \notin Active)
    <3>1. CASE Load(s).id = NoJob
      <4>1. LatestJob(s) = NoJob
        BY <3>1 DEF Load
      <4>2. JobsOf(s) = {}
        <5>1. \A j \in JobsOf(s) : j # NoJob
          BY DEF JobsOf, JobIds, NoJob
        <5>2. JobsOf(s) # {} => LatestJob(s) \in JobsOf(s)
          BY LatestExists DEF LatestJob
        <5> QED
          BY <4>1, <5>1, <5>2
      <4> QED
        BY <3>1, <4>2 DEF JobsOf, Live
    <3>2. CASE Load(s).id # NoJob
      <4>1. Load(s).id \in JobsOf(s) /\ Load(s).status = job[Load(s).id].status
        BY <3>2, LoadType DEF Load
      <4> QED
        BY <3>2, <4>1 DEF JobsOf, Live
    <3> QED
      BY <3>1, <3>2
  <2> QED
    BY <2>1, <2>2 DEF LoadedIsCurrent, TargetsFresh, Live
<1>7. CASE ReadSources(r)
  <2> DEFINE targets == {s \in FirstUnprocessed(request[r].limit) :
                            request[r].loaded[s].status \notin Active}
  <2>1. \/ request'[r].pc = "idle"
        \/ /\ request'[r].pc = "commit" /\ request[r].pc = "sources"
           /\ request'[r].loaded = request[r].loaded /\ request'[r].targets = targets
    BY <1>1, <1>7 DEF ReadSources, RequestState, IdleRequest
  <2>2. evidence' = evidence
    BY <1>7 DEF ReadSources, database
  <2>3. \A s \in targets : ~HasChunks(s)
    BY DEF FirstUnprocessed
  <2>4. LoadedIsCurrent(r)'
    BY <1>3, <2>1 DEF LoadedIsCurrent
  <2>5. TargetsFresh(r)'
    BY <2>1, <2>2, <2>3 DEF TargetsFresh, HasChunks, Active
  <2> QED
    BY <2>4, <2>5
<1>8. ASSUME request'[r].pc \notin {"sources", "commit"} PROVE LoadedIsCurrent(r)' /\ TargetsFresh(r)'
  BY <1>8 DEF LoadedIsCurrent, TargetsFresh
<1>9. CASE CommitBatch(r)
  BY <1>8, <1>9, CommitBatchRows
<1>10. CASE SendTask(r)
  <2>1. request'[r].pc \in {"idle", "send"}
    BY <1>1, <1>10 DEF SendTask, RequestState, IdleRequest
  <2> QED
    BY <1>8, <2>1
<1>11. CASE SendFails(r)
  BY <1>1, <1>8, <1>11 DEF SendFails, IdleRequest
<1>12. CASE \E zyte \in BOOLEAN, n \in Limits : StartBatch(r, zyte, n)
  <2>1. request'[r].pc = "jobs"
    BY <1>1, <1>12 DEF StartBatch, IdleRequest
  <2> QED
    BY <1>8, <2>1
<1> QED
  BY <1>5, <1>6, <1>7, <1>9, <1>10, <1>11, <1>12, RequestSteps DEF RequestStep

\* Nothing comes to own j, and while j is owned its row stays active and fresh.
LEMMA OwnersShrink ==
    ASSUME NEW j \in JobIds, OneOwnerOf(j),
           queue[j] \in Nat, queue'[j] \in Nat, queue'[j] <= queue[j],
           \A w \in Workers : WorksOn(w, j)' => WorksOn(w, j),
           \A r \in Requests : Sends(r, j)' => Sends(r, j),
           HasOwner(j)' => job'[j].status \in Active /\ ~HasChunks(job[j].source)'
                           /\ job'[j].source = job[j].source
    PROVE  OneOwnerOf(j)' /\ OwnedIsFresh(j)'
<1>1. OneOwnerOf(j)'
  BY DEF OneOwnerOf
<1>2. OwnedIsFresh(j)'
  BY DEF OwnedIsFresh, HasChunks, Active
<1> QED
  BY <1>1, <1>2

\* The one owner of j hands it on: to the queue, or from the queue to the task of w.
LEMMA OwnerHandsOn ==
    ASSUME NEW j \in JobIds, OwnedIsFresh(j), HasOwner(j), UNCHANGED database,
           queue'[j] \in Nat, NEW w \in Workers,
           \A r \in Requests : ~Sends(r, j)',
           \/ queue'[j] <= 1 /\ \A v \in Workers : ~WorksOn(v, j)'
           \/ queue'[j] = 0 /\ \A v \in Workers : WorksOn(v, j)' => v = w
    PROVE  OneOwnerOf(j)' /\ OwnedIsFresh(j)'
<1>1. OneOwnerOf(j)'
  BY DEF OneOwnerOf
<1>2. OwnedIsFresh(j)'
  BY DEF OwnedIsFresh, HasChunks, Active, database
<1> QED
  BY <1>1, <1>2

LEMMA OwnersStep ==
    ASSUME TypeOK, RowsInOrder, ReferencesLive, OnceInv, [Next]_vars, Quiet', NEW j \in JobIds
    PROVE  OneOwnerOf(j)' /\ OwnedIsFresh(j)'
<1> DEFINE Goal == OneOwnerOf(j)' /\ OwnedIsFresh(j)'
<1> SUFFICES Goal
  OBVIOUS
<1>1. OneOwnerOf(j) /\ OwnedIsFresh(j) /\ OneRequestAtATime /\ OneRowPerSource
  BY DEF OnceInv
<1>2. /\ queue \in [JobIds -> Nat] /\ worker \in [Workers -> WorkerState]
      /\ request \in [Requests -> RequestState] /\ job[j] \in Row
  BY DEF TypeOK, OutsideOK, WorkersOK, RequestsOK, DatabaseOK
<1>3. HasOwner(j) <=> \/ queue[j] > 0
                      \/ \E w \in Workers : WorksOn(w, j)
                      \/ \E r \in Requests : Sends(r, j)
  BY DEF HasOwner, WorksOn, Sends
<1>4. HasOwner(j)' <=> \/ queue'[j] > 0
                       \/ \E w \in Workers : WorksOn(w, j)'
                       \/ \E r \in Requests : Sends(r, j)'
  BY DEF HasOwner, WorksOn, Sends
<1>5. HasOwner(j) => Live(j)
  BY <1>1 DEF OwnedIsFresh, Active, Live
<1>6. ASSUME UNCHANGED database, queue'[j] \in Nat, queue'[j] <= queue[j],
             \A w \in Workers : WorksOn(w, j)' => WorksOn(w, j),
             \A r \in Requests : Sends(r, j)' => Sends(r, j)
      PROVE  Goal
  <2>1. HasOwner(j)' => HasOwner(j)
    BY <1>2, <1>3, <1>4, <1>6
  <2>2. HasOwner(j)' => job'[j].status \in Active /\ ~HasChunks(job[j].source)'
                           /\ job'[j].source = job[j].source
    BY <1>1, <1>6, <2>1 DEF OwnedIsFresh, HasChunks, database
  <2> QED
    BY <1>1, <1>2, <1>6, <2>2, OwnersShrink
<1>7. \A r \in Requests : UNCHANGED request[r] => (Sends(r, j)' => Sends(r, j))
  BY DEF Sends
<1>8. \A w \in Workers : UNCHANGED worker[w] => (WorksOn(w, j)' => WorksOn(w, j))
  BY DEF WorksOn
<1>9. CASE UNCHANGED <<job, evidence, queue, worker>> /\
           \E r \in Requests : /\ \A q \in Requests : q # r => request'[q] = request[q]
                               /\ request'[r].pc # "send"
  BY <1>2, <1>6, <1>7, <1>8, <1>9 DEF Sends, database
<1>10. ASSUME NEW r \in Requests, RequestStep(r) PROVE Goal
  <2>1. \A q \in Requests : q # r => request'[q] = request[q] /\ request[q].pc = "idle"
    BY <1>1, <1>2, <1>10 DEF RequestStep, ReadJobs, ReadSources, CommitBatch, SendTask, OneRequestAtATime
  <2>2. \A q \in Requests : q # r => ~Sends(q, j) /\ ~Sends(q, j)'
    BY <2>1 DEF Sends
  <2>3. CASE ReadJobs(r)
    <3>1. request'[r].pc = "sources"
      BY <1>2, <2>3 DEF ReadJobs, RequestState
    <3> QED
      BY <1>9, <2>1, <2>3, <3>1 DEF ReadJobs, database
  <2>4. CASE ReadSources(r)
    <3>1. request'[r].pc \in {"idle", "commit"}
      BY <1>2, <2>4 DEF ReadSources, RequestState, IdleRequest
    <3> QED
      BY <1>9, <2>1, <2>4, <3>1 DEF ReadSources, database
  <2>5. CASE CommitBatch(r)
    <3> DEFINE rq == request[r]
               fresh == {s \in rq.targets : rq.loaded[s].id = NoJob}
    <3>1. rq.pc = "commit" /\ rq.targets \subseteq Sources
      BY <1>2, <2>5 DEF CommitBatch, RequestState
    <3>2. PICK new \in [fresh -> JobIds] : \A h \in JobIds :
          \/ /\ ~Live(h) /\ job'[h].source \in fresh /\ new[job'[h].source] = h
             /\ job'[h].status = "queued" /\ h \in request'[r].unsent
          \/ /\ \E s \in rq.targets : h = rq.loaded[s].id
             /\ job'[h].source = job[h].source /\ Live(h)
             /\ job'[h].status = "queued" /\ h \in request'[r].unsent
          \/ job'[h] = job[h] /\ h \notin request'[r].unsent
      BY <2>5, CommitBatchWrites
    <3>3. UNCHANGED <<evidence, queue, worker>>
      BY <2>5 DEF CommitBatch
    <3>4. CASE job'[j] = job[j] /\ j \notin request'[r].unsent
      <4>1. \A q \in Requests : Sends(q, j)' => Sends(q, j)
        BY <2>2, <3>4 DEF Sends
      <4>2. HasOwner(j)' => HasOwner(j)
        BY <1>3, <1>4, <1>8, <3>3, <4>1
      <4>3. HasOwner(j)' => job'[j].status \in Active /\ ~HasChunks(job[j].source)'
                               /\ job'[j].source = job[j].source
        BY <1>1, <3>3, <3>4, <4>2 DEF OwnedIsFresh, HasChunks
      <4>4. queue'[j] = queue[j] /\ queue[j] \in Nat
        BY <1>2, <3>3
      <4> QED
        BY <1>1, <1>8, <3>3, <4>1, <4>3, <4>4, OwnersShrink
    <3>5. CASE ~(job'[j] = job[j] /\ j \notin request'[r].unsent)
      <4>1. job'[j].status = "queued"
        BY <3>2, <3>5
      <4>2. PICK s \in rq.targets : job'[j].source = s /\ ~HasOwner(j)
        <5>1. CASE ~Live(j) /\ job'[j].source \in fresh
          BY <1>5, <5>1
        <5>2. ASSUME NEW s \in rq.targets, j = rq.loaded[s].id, job'[j].source = job[j].source
              PROVE  job'[j].source = s /\ ~HasOwner(j)
          <6>1. j # NoJob /\ s \in Sources
            BY <3>1 DEF JobIds, NoJob
          <6>2. /\ job[j].source = s
                /\ rq.loaded[s].status \notin Active => job[j].status \notin Active
            BY <3>1, <5>2, <6>1 DEF OnceInv, LoadedIsCurrent
          <6>3. rq.loaded[s].status \notin Active
            BY <3>1 DEF OnceInv, TargetsFresh
          <6> QED
            BY <1>1, <5>2, <6>2, <6>3 DEF OwnedIsFresh
        <5> QED
          BY <3>2, <3>5, <5>1, <5>2
      <4>3. ~HasChunks(s)
        BY <3>1 DEF OnceInv, TargetsFresh
      <4>4. OwnedIsFresh(j)'
        BY <3>3, <4>1, <4>2, <4>3 DEF OwnedIsFresh, HasChunks, Active
      <4>5. queue'[j] = 0 /\ \A w \in Workers : ~WorksOn(w, j)'
        <5>1. ~(queue[j] > 0) /\ \A w \in Workers : ~WorksOn(w, j)
          BY <1>3, <4>2
        <5> QED
          BY <1>2, <3>3, <5>1 DEF WorksOn
      <4>6. OneOwnerOf(j)'
        BY <4>5 DEF OneOwnerOf
      <4> QED
        BY <4>4, <4>6
    <3> QED
      BY <3>4, <3>5
  <2>6. CASE SendTask(r)
    <3>1. PICK i \in request[r].unsent :
            /\ queue' = [queue EXCEPT ![i] = @ + 1]
            /\ request' = [request EXCEPT ![r] =
                              IF request[r].unsent = {i} THEN IdleRequest
                              ELSE [@ EXCEPT !.unsent = request[r].unsent \ {i}]]
      BY <2>6 DEF SendTask
    <3>2. i \in JobIds /\ Sends(r, i) /\ UNCHANGED <<job, evidence, worker>>
      BY <1>2, <2>6, <3>1 DEF RequestState, SendTask, Sends, database
    <3>3. \/ request'[r].pc = "idle"
          \/ request'[r].pc = "send" /\ request'[r].unsent = request[r].unsent \ {i}
      BY <1>2, <2>6, <3>1 DEF SendTask, RequestState, IdleRequest
    <3>4. CASE j = i
      <4>1. HasOwner(j) /\ queue[j] = 0 /\ \A v \in Workers : ~WorksOn(v, j)
        <5>1. ~(queue[j] > 0) /\ \A v \in Workers : ~WorksOn(v, j)
          BY <1>1, <3>2, <3>4 DEF OneOwnerOf
        <5> QED
          BY <1>2, <1>3, <3>2, <3>4, <5>1
      <4>2. queue'[j] = 1
        BY <1>2, <3>1, <3>4, <4>1
      <4>3. \A v \in Workers : ~WorksOn(v, j)'
        BY <3>2, <4>1 DEF WorksOn
      <4>4. \A q \in Requests : ~Sends(q, j)'
        BY <2>2, <3>3, <3>4 DEF Sends
      <4>5. OneOwnerOf(j)'
        BY <4>2, <4>3, <4>4 DEF OneOwnerOf
      <4>6. OwnedIsFresh(j)'
        BY <1>1, <3>2, <4>1 DEF OwnedIsFresh, HasChunks, Active
      <4> QED
        BY <4>5, <4>6
    <3>5. CASE j # i
      <4>1. queue'[j] = queue[j] /\ queue[j] \in Nat
        BY <1>2, <3>1, <3>5
      <4>2. \A q \in Requests : Sends(q, j)' => Sends(q, j)
        BY <2>2, <2>6, <3>3 DEF Sends, SendTask
      <4> QED
        BY <1>6, <1>8, <3>2, <4>1, <4>2 DEF database
    <3> QED
      BY <3>4, <3>5
  <2> QED
    BY <1>10, <2>3, <2>4, <2>5, <2>6 DEF RequestStep
<1>11. ASSUME NEW w \in Workers, NEW i \in JobIds, Receive(w, i) PROVE Goal
  <2>1. /\ queue' = [queue EXCEPT ![i] = @ - 1] /\ queue[i] > 0 /\ UNCHANGED <<request, evidence>>
        /\ worker[w].pc = "idle"
    BY <1>11 DEF Receive
  <2>2. queue[i] = 1 /\ queue'[i] = 0
    <3>1. OneOwnerOf(i)
      BY DEF OnceInv
    <3> QED
      BY <1>2, <2>1, <3>1 DEF OneOwnerOf
  <2>3. queue'[j] \in Nat /\ queue'[j] <= queue[j] /\ queue[j] \in Nat
    BY <1>2, <2>1, <2>2
  <2>4. CASE UNCHANGED <<job, worker>>
    BY <1>6, <1>7, <1>8, <2>1, <2>3, <2>4 DEF database
  <2>5. CASE RowSet(i, "cancelled") /\ UNCHANGED worker
    <3>1. CASE j = i
      <4>1. ~HasOwner(j)'
        <5>1. \A v \in Workers : ~WorksOn(v, j)
          BY <1>1, <2>1, <3>1 DEF OneOwnerOf
        <5>2. \A r \in Requests : ~Sends(r, j)
          BY <1>1, <2>1, <3>1 DEF OneOwnerOf
        <5> QED
          BY <1>4, <1>7, <1>8, <2>1, <2>2, <2>5, <3>1, <5>1, <5>2
      <4> QED
        BY <1>1, <1>7, <1>8, <2>1, <2>3, <2>5, <4>1, OwnersShrink
    <3>2. CASE j # i
      <4>1. job'[j] = job[j]
        BY <2>5, <3>2, RowSetRows DEF TypeOK
      <4>2. HasOwner(j)' => HasOwner(j)
        BY <1>2, <1>3, <1>4, <1>7, <1>8, <2>1, <2>3, <2>5
      <4>3. HasOwner(j)' => job'[j].status \in Active /\ ~HasChunks(job[j].source)'
                               /\ job'[j].source = job[j].source
        BY <1>1, <2>1, <4>1, <4>2 DEF OwnedIsFresh, HasChunks
      <4> QED
        BY <1>1, <1>7, <1>8, <2>1, <2>3, <2>5, <4>3, OwnersShrink
    <3> QED
      BY <3>1, <3>2
  <2>6. CASE UNCHANGED job /\ worker' = [worker EXCEPT ![w] =
                [IdleWorker EXCEPT !.pc = "marking", !.job = i, !.zyte = job[i].zyte, !.copy = job[i].status]]
    <3>1. worker'[w].job = i /\ \A v \in Workers : v # w => worker'[v] = worker[v]
      BY <1>2, <2>6 DEF IdleWorker
    <3>2. CASE j = i
      <4>1. HasOwner(j) /\ (\A v \in Workers : ~WorksOn(v, j)) /\ \A r \in Requests : ~Sends(r, j)
        BY <1>1, <1>3, <2>1, <3>2 DEF OneOwnerOf
      <4>2. (\A v \in Workers : WorksOn(v, j)' => v = w) /\ \A r \in Requests : ~Sends(r, j)'
        BY <2>1, <3>1, <4>1 DEF WorksOn, Sends
      <4> QED
        BY <1>1, <2>1, <2>2, <2>3, <2>6, <3>2, <4>1, <4>2, OwnerHandsOn DEF database
    <3>3. CASE j # i
      <4>1. \A v \in Workers : WorksOn(v, j)' => WorksOn(v, j)
        BY <3>1, <3>3 DEF WorksOn
      <4> QED
        BY <1>6, <1>7, <2>1, <2>3, <2>6, <4>1 DEF database
    <3> QED
      BY <3>2, <3>3
  <2> QED
    BY <1>11, <2>4, <2>5, <2>6, RowWrites DEF Receive
<1>12. ASSUME NEW w \in Workers,
              \/ MarkRunning(w) \/ CheckChunks(w) \/ PutImmutable(w) \/ ReadVersion(w)
              \/ \E c \in Captions : FetchCaptions(w, c)
              \/ Publish(w) \/ RecordFailure(w) \/ FetchBlocked(w) \/ Raise(w) \/ ChildKilled(w)
       PROVE  Goal
  <2>1. UNCHANGED <<queue, request>>
    BY <1>12 DEF MarkRunning, CheckChunks, PutImmutable, ReadVersion, FetchCaptions, Publish,
       RecordFailure, FetchBlocked, Raise, ChildKilled
  <2>2. /\ \A v \in Workers : WorksOn(v, j)' => WorksOn(v, j)
        /\ worker[w].pc # "idle" /\ worker[w].job \in JobIds /\ WorksOn(w, worker[w].job)
    <3>1. worker[w].pc # "idle"
      BY <1>12 DEF MarkRunning, CheckChunks, PutImmutable, ReadVersion, FetchCaptions, Publish,
         RecordFailure, FetchBlocked, Raise, ChildKilled
    <3>2. /\ \A v \in Workers : v # w => worker'[v] = worker[v]
          /\ worker'[w].pc # "idle" => worker[w].pc # "idle" /\ worker'[w].job = worker[w].job
      BY <1>12, TaskMoves
    <3> QED
      BY <3>1, <3>2 DEF WorksOn, TypeOK, WorkersOK, Carries
  <2>3. queue'[j] \in Nat /\ queue'[j] <= queue[j] /\ queue[j] \in Nat
    BY <1>2, <2>1
  <2>4. HasOwner(j)' => HasOwner(j)
    BY <1>3, <1>4, <1>7, <2>1, <2>2
  <2>5. CASE UNCHANGED database
    BY <1>6, <1>7, <2>1, <2>2, <2>3, <2>5
  <2>6. ASSUME HasOwner(j)' => job'[j].status \in Active /\ ~HasChunks(job[j].source)'
                                 /\ job'[j].source = job[j].source
        PROVE  Goal
    BY <1>1, <1>7, <2>1, <2>2, <2>3, <2>6, OwnersShrink
  <2>7. ASSUME NEW status, RowSet(worker[w].job, status), evidence' = evidence,
               j # worker[w].job \/ status \in Active
        PROVE  Goal
    <3>1. job'[j].source = job[j].source /\ (job'[j].status = job[j].status \/ job'[j].status \in Active)
      BY <2>2, <2>7, RowSetRows DEF TypeOK
    <3> QED
      BY <1>1, <2>4, <2>6, <2>7, <3>1 DEF OwnedIsFresh, HasChunks
  <2>8. ASSUME Ack(w), j = worker[w].job PROVE Goal
    <3>1. ~(queue[j] > 0) /\ (\A r \in Requests : ~Sends(r, j)) /\ \A v \in Workers : WorksOn(v, j) => v = w
      BY <1>1, <2>2, <2>8 DEF OneOwnerOf
    <3>2. ~WorksOn(w, j)'
      BY <1>2, <2>8 DEF Ack, IdleWorker, WorksOn
    <3>3. ~HasOwner(j)'
      BY <1>2, <1>4, <1>7, <2>1, <2>2, <3>1, <3>2
    <3> QED
      BY <2>6, <3>3
  <2>9. CASE MarkRunning(w)
    <3>1. "running" \in Active /\ evidence' = evidence
      BY <2>9 DEF MarkRunning, Active
    <3>2. CASE UNCHANGED job
      BY <2>5, <3>1, <3>2 DEF database
    <3> QED
      BY <2>2, <2>7, <2>9, <3>1, <3>2, RowWrites DEF MarkRunning
  <2>10. CASE CheckChunks(w)
    <3>1. evidence' = evidence
      BY <2>10 DEF CheckChunks
    <3>2. CASE UNCHANGED job
      BY <2>5, <3>1, <3>2 DEF database
    <3>3. CASE RowSet(worker[w].job, "succeeded") /\ Ack(w)
      BY <2>7, <2>8, <3>1, <3>3
    <3> QED
      BY <2>10, <3>2, <3>3, RowWrites DEF CheckChunks
  <2>11. CASE RecordFailure(w)
    BY <2>2, <2>7, <2>8, <2>11, RowWrites DEF RecordFailure
  <2>12. CASE Publish(w) /\ ~UNCHANGED database
    <3>1. /\ RowSet(worker[w].job, "succeeded") /\ Ack(w)
          /\ \A e \in evidence' : e \in evidence \/ e.source = SourceOf(w)
      BY <2>12, RowWrites DEF Publish
    <3>2. ASSUME j # worker[w].job, HasOwner(j)'
          PROVE  job'[j].status \in Active /\ ~HasChunks(job[j].source)' /\ job'[j].source = job[j].source
      <4>1. job'[j] = job[j]
        BY <2>2, <3>1, <3>2, RowSetRows DEF TypeOK
      <4>2. job[j].status \in Active /\ ~HasChunks(job[j].source) /\ Live(j)
        BY <1>1, <1>5, <2>4, <3>2 DEF OwnedIsFresh
      <4>3. SourceOf(w) # job[j].source
        <5>1. Live(worker[w].job)
          BY <2>2 DEF ReferencesLive
        <5> QED
          BY <1>1, <2>2, <3>2, <4>2, <5>1 DEF OneRowPerSource, SourceOf
      <4>4. ~\E e \in evidence' : e.source = job[j].source
        BY <3>1, <4>2, <4>3 DEF HasChunks
      <4> QED
        BY <4>1, <4>2, <4>4 DEF HasChunks
    <3> QED
      BY <2>6, <2>8, <3>1, <3>2
  <2>13. CASE \/ \E c \in Captions : FetchCaptions(w, c)
              \/ PutImmutable(w) \/ ReadVersion(w) \/ FetchBlocked(w) \/ Raise(w) \/ ChildKilled(w)
    BY <2>5, <2>13 DEF FetchCaptions, PutImmutable, ReadVersion, FetchBlocked, Raise, ChildKilled
  <2> QED
    BY <1>12, <2>5, <2>9, <2>10, <2>11, <2>12, <2>13
<1>13. ASSUME NEW w \in Workers, WorkerDies(w) PROVE Goal
  <2>1. /\ queue' = [queue EXCEPT ![worker[w].job] = @ + 1] /\ UNCHANGED <<job, evidence, request>>
        /\ worker[w].pc # "idle" /\ Ack(w)
    BY <1>13 DEF WorkerDies, database
  <2>2. worker[w].job \in JobIds
    BY <2>1 DEF TypeOK, WorkersOK, Carries
  <2>3. \A v \in Workers : WorksOn(v, j)' => v # w /\ WorksOn(v, j)
    BY <1>2, <2>1 DEF Ack, IdleWorker, WorksOn
  <2>4. CASE j = worker[w].job
    <3>1. WorksOn(w, j)
      BY <2>1, <2>4 DEF WorksOn
    <3>2. /\ ~(queue[j] > 0) /\ (\A r \in Requests : ~Sends(r, j))
          /\ \A v \in Workers : WorksOn(v, j) => v = w
      BY <1>1, <3>1 DEF OneOwnerOf
    <3>3. queue'[j] = 1
      BY <1>2, <2>1, <2>4, <3>2
    <3>4. (\A v \in Workers : ~WorksOn(v, j)') /\ \A r \in Requests : ~Sends(r, j)'
      BY <1>7, <2>1, <2>3, <3>2
    <3> QED
      BY <1>1, <1>3, <2>1, <3>1, <3>3, <3>4, OwnerHandsOn DEF database
  <2>5. CASE j # worker[w].job
    <3>1. queue'[j] = queue[j] /\ queue[j] \in Nat
      BY <1>2, <2>1, <2>5
    <3> QED
      BY <1>6, <1>7, <2>1, <2>3, <3>1 DEF database
  <2> QED
    BY <2>4, <2>5
<1>14. ASSUME NEW i \in JobIds, BlockAges(i) PROVE Goal
  <2>1. UNCHANGED <<queue, worker, request, evidence>> /\ job[i].status = "blocked" /\ RowSet(i, "failed")
    BY <1>14, RowWrites DEF BlockAges
  <2>2. HasOwner(j)' => HasOwner(j)
    BY <1>3, <1>4, <1>7, <1>8, <2>1
  <2>3. HasOwner(j) => job'[j] = job[j]
    <3>1. HasOwner(j) => j # i
      BY <1>1, <2>1 DEF OwnedIsFresh, Active
    <3> QED
      BY <2>1, <3>1, RowSetRows DEF TypeOK
  <2>4. HasOwner(j)' => job'[j].status \in Active /\ ~HasChunks(job[j].source)'
                           /\ job'[j].source = job[j].source
    BY <1>1, <2>1, <2>2, <2>3 DEF OwnedIsFresh, HasChunks
  <2>5. queue'[j] \in Nat /\ queue'[j] <= queue[j] /\ queue[j] \in Nat
    BY <1>2, <2>1
  <2> QED
    BY <1>1, <1>7, <1>8, <2>1, <2>4, <2>5, OwnersShrink
<1>15. ASSUME NEW r \in Requests, SendFails(r) \/ \E zyte \in BOOLEAN, n \in Limits : StartBatch(r, zyte, n)
       PROVE  Goal
  <2>1. request'[r].pc \in {"idle", "jobs"} /\ \A q \in Requests : q # r => request'[q] = request[q]
    <3>1. CASE SendFails(r)
      BY <1>2, <3>1 DEF SendFails, IdleRequest
    <3>2. ASSUME NEW zyte \in BOOLEAN, NEW n \in Limits, StartBatch(r, zyte, n) PROVE <2>1
      BY <1>2, <3>2 DEF StartBatch, IdleRequest
    <3> QED
      BY <1>15, <3>1, <3>2
  <2> QED
    BY <1>9, <1>15, <2>1 DEF SendFails, StartBatch, database
<1>16. CASE DayPasses \/ UNCHANGED vars
  <2>1. UNCHANGED <<job, evidence, queue, worker, request>>
    BY <1>16 DEF DayPasses, vars, database
  <2> QED
    BY <1>2, <1>6, <1>7, <1>8, <2>1 DEF database
<1>17. ~\E w \in Workers : Redeliver(w)
  BY QuietBefore
<1> HIDE DEF Goal
<1> QED
  BY <1>10, <1>11, <1>12, <1>13, <1>14, <1>15, <1>16, <1>17 DEF Next, WorkerStep, Fault

\* A task that gets to its insert is of a source without evidence.
LEMMA IngestedStep ==
    ASSUME TypeOK, ReferencesLive, QuietInv, IsFiniteSet(evidence), [Next]_vars
    PROVE  IngestedOnce'
<1> SUFFICES ASSUME Quiet', NEW s \in Sources
             PROVE  Cardinality({e \in evidence' : e.source = s}) <= 1
  BY DEF IngestedOnce, Quiet, Ingestions
<1>1. Quiet /\ OnceInv /\ Cardinality(Ingestions(s)) <= 1
  BY QuietBefore DEF QuietInv, IngestedOnce, Quiet
<1>2. CASE evidence' = evidence
  BY <1>1, <1>2 DEF Ingestions
<1>3. ASSUME NEW w \in Workers, worker[w].pc = "inserting", evidence' = evidence \cup {InsertedBy(w)}
      PROVE  Cardinality({e \in evidence' : e.source = s}) <= 1
  <2>1. CASE SourceOf(w) # s
    <3>1. {e \in evidence' : e.source = s} = Ingestions(s)
      BY <1>3, <2>1 DEF InsertedBy, Ingestions
    <3> QED
      BY <1>1, <3>1
  <2>2. CASE SourceOf(w) = s
    <3>1. worker[w].job \in JobIds /\ WorksOn(w, worker[w].job)
      BY <1>3 DEF TypeOK, WorkersOK, Carries, WorksOn
    <3>2. ~HasChunks(s)
      BY <1>1, <2>2, <3>1 DEF OnceInv, OwnedIsFresh, HasOwner, WorksOn, SourceOf
    <3>3. {e \in evidence' : e.source = s} = {InsertedBy(w)}
      BY <1>3, <2>2, <3>2 DEF InsertedBy, HasChunks
    <3> QED
      BY <3>3, FS_Singleton
  <2> QED
    BY <2>1, <2>2
<1> QED
  BY <1>2, <1>3, EvidenceSteps

\* As long as no two requests have overlapped and no delivery was repeated, a source is
\* ingested at most once, for any number of requests and workers that follow each other
\* and whatever fails, dies or is lost.
THEOREM IngestedOnceCorrect == Spec => []IngestedOnce
<1>1. Init => QuietInv
  <2> SUFFICES ASSUME Init PROVE QuietInv
    OBVIOUS
  <2>1. /\ \A j \in JobIds : ~Live(j) /\ queue[j] = 0
        /\ \A w \in Workers : worker[w].pc = "idle"
        /\ \A r \in Requests : request[r].pc = "idle"
    BY DEF Init, Live, IdleWorker, IdleRequest
  <2>2. \A s : Ingestions(s) = {}
    BY DEF Init, Ingestions
  <2>3. IngestedOnce
    BY <2>2, FS_EmptySet DEF IngestedOnce
  <2>4. \A j \in JobIds : OneOwnerOf(j) /\ OwnedIsFresh(j)
    BY <2>1 DEF OneOwnerOf, OwnedIsFresh, HasOwner, WorksOn, Sends
  <2> QED
    BY <2>1, <2>3, <2>4 DEF QuietInv, OnceInv, OneRequestAtATime, OneRowPerSource, LoadedIsCurrent, TargetsFresh
<1>2. EvidenceInv /\ VersionInv /\ QuietInv /\ [Next]_vars => QuietInv'
  <2> SUFFICES ASSUME EvidenceInv, VersionInv, QuietInv, [Next]_vars PROVE QuietInv'
    OBVIOUS
  <2>1. TypeOK /\ RowsInOrder /\ ReferencesLive /\ IsFiniteSet(evidence)
    BY DEF EvidenceInv, VersionInv
  <2>2. IngestedOnce'
    BY <2>1, IngestedStep
  <2>3. ASSUME Quiet' PROVE OnceInv'
    <3>1. OnceInv
      BY <2>1, <2>3, QuietBefore DEF QuietInv
    <3>2. OneRequestAtATime'
      BY <2>1, <2>3, <3>1, RequestsApart DEF OnceInv
    <3> QED
      BY <2>1, <2>3, <3>1, <3>2, OneRowStep, OwnersStep, LoadedStep DEF OnceInv
  <2> QED
    BY <2>2, <2>3 DEF QuietInv
<1>3. QuietInv => IngestedOnce
  BY DEF QuietInv
<1> QED
  BY <1>1, <1>2, <1>3, EvidenceHolds, VersionsHold, PTL DEF Spec
=============================================================================
