------------------------ MODULE EvidenceReviewProofs ------------------------
(***************************************************************************)
(* What EvidenceReview keeps for any sources, texts, workers and            *)
(* administrators and for any bounds.                                       *)
(***************************************************************************)
EXTENDS EvidenceReview, FiniteSetTheorems, TLAPS

-----------------------------------------------------------------------------
(* Type correctness: what one update of a row or of a process keeps.        *)

LEMMA IdleWorkerType == IdleWorker \in WorkerState /\ IdleWorker.pc = "idle"
BY DEF IdleWorker, WorkerState

LEMMA IdleAdminType == IdleAdmin \in AdminState
BY DEF IdleAdmin, AdminState

LEMMA IdleRequestType == IdleRequest \in RequestState /\ IdleRequest.pc = "idle"
BY DEF IdleRequest, RequestState

LEMMA WorkerUpdate ==
    ASSUME WorkersOK, NEW w \in Workers, NEW q \in WorkerState,
           q.pc # "idle" => q.job \in JobIds,
           worker' = [worker EXCEPT ![w] = q]
    PROVE  WorkersOK'
BY DEF WorkersOK

LEMMA AckType ==
    ASSUME WorkersOK, NEW w \in Workers, Ack(w)
    PROVE  WorkersOK'
BY WorkerUpdate, IdleWorkerType DEF Ack

LEMMA AdminUpdate ==
    ASSUME AdminsOK, NEW a \in Admins, NEW q \in AdminState,
           admin' = [admin EXCEPT ![a] = q]
    PROVE  AdminsOK'
BY DEF AdminsOK

LEMMA RequestUpdate ==
    ASSUME RequestsOK, NEW r \in Requests, NEW q \in RequestState,
           q.pc = "send" => q.job \in JobIds,
           request' = [request EXCEPT ![r] = q]
    PROVE  RequestsOK'
BY DEF RequestsOK

LEMMA SetStatusType ==
    ASSUME JobsOK, NEW j \in JobIds,
           NEW status \in {"absent", "queued", "running", "succeeded", "failed"},
           SetStatus(j, status)
    PROVE  job' \in [JobIds -> Job]
BY DEF JobsOK, SetStatus, Job

LEMMA ReviewedType ==
    ASSUME NEW c \in Chunk, NEW v \in BOOLEAN
    PROVE  /\ Reviewed(c, v) \in Chunk
           /\ Reviewed(c, v).speaker = v
           /\ Reviewed(c, v).eligible <=> v /\ ~c.flags
           /\ Reviewed(c, v).origin = c.origin /\ Reviewed(c, v).source = c.source
           /\ Reviewed(c, v).text = c.text /\ Reviewed(c, v).flags = c.flags
           /\ Reviewed(c, v).version = c.version /\ Reviewed(c, v).kind = c.kind
BY DEF Reviewed, Chunk

LEMMA CleanedType ==
    ASSUME NEW c \in Chunk, NEW v \in Nat \ {0}, NEW t \in Rewrites
    PROVE  /\ Cleaned(c, v, t) \in Chunk
           /\ Cleaned(c, v, t).speaker = c.speaker
           /\ Cleaned(c, v, t).eligible <=> ~c.flags
           /\ Cleaned(c, v, t).origin = c.origin /\ Cleaned(c, v, t).source = c.source
           /\ Cleaned(c, v, t).flags = c.flags
           /\ Cleaned(c, v, t).version = v /\ Cleaned(c, v, t).kind = "cleaned"
BY DEF Cleaned, Chunk

LEMMA TurnChunksType ==
    ASSUME NEW s \in Sources, NEW v \in Nat \ {0}, NEW T \in SUBSET Turns, NEW c \in TurnChunks(s, v, T)
    PROVE  /\ c \in Chunk /\ c.kind = "turn" /\ c.speaker /\ c.source = s /\ c.version = v
           /\ c.text = c.origin /\ c.origin \in T
           /\ (c.flags <=> c.origin \in Flagged) /\ (c.eligible <=> ~c.flags)
<1>1. PICK t \in T : c = [source |-> s, version |-> v, origin |-> t, text |-> t, flags |-> t \in Flagged,
                         kind |-> "turn", speaker |-> TRUE, eligible |-> t \notin Flagged]
  BY DEF TurnChunks
<1>2. t \in Turns /\ c.origin = t /\ c.text = t
  BY <1>1
<1>3. (t \in Flagged) \in BOOLEAN /\ (t \notin Flagged) \in BOOLEAN
  OBVIOUS
<1>4. c \in Chunk
  BY <1>1, <1>2, <1>3 DEF Chunk
<1> QED
  BY <1>1, <1>2, <1>4

LEMMA SmallerType == \A m, n \in Nat : Smaller(m, n) \in Nat
BY DEF Smaller

LEMMA CleanableCount == Cardinality(Cleanable) \in Nat
BY FiniteAssumption, FS_Subset, FS_CardinalityType DEF Cleanable

-----------------------------------------------------------------------------
(* Type correctness of the specification.                                   *)

LEMMA TypeInit == Init => TypeOK
<1> SUFFICES ASSUME Init PROVE TypeOK
  OBVIOUS
<1>1. EvidenceOK
  <2>1. chunks \subseteq Chunk
    <3> SUFFICES ASSUME NEW c \in chunks PROVE c \in Chunk
      OBVIOUS
    <3>1. PICK s \in Sources, p \in Passages :
            c = [source |-> s, version |-> 1, origin |-> p, text |-> p, flags |-> p \in Flagged,
                 kind |-> "raw", speaker |-> FALSE, eligible |-> FALSE]
      BY DEF Init
    <3> QED
      BY <3>1 DEF Chunk
  <2> QED
    BY <2>1 DEF Init, EvidenceOK, Decisions
<1>2. JobsOK
  BY DEF Init, JobsOK, Job
<1>3. WorkersOK /\ AdminsOK /\ RequestsOK
  BY IdleWorkerType, IdleAdminType, IdleRequestType DEF Init, WorkersOK, AdminsOK, RequestsOK
<1> QED
  BY <1>1, <1>2, <1>3 DEF Init, TypeOK, BoundsOK

LEMMA SpeakerReviewType ==
    ASSUME TypeOK, NEW S \in SUBSET Sources, NEW decision \in Decisions, SpeakerReview(S, decision)
    PROVE  TypeOK'
<1>1. review' \in [Sources -> Decisions]
  BY DEF SpeakerReview, TypeOK, EvidenceOK
<1>2. chunks' \subseteq Chunk
  <2> SUFFICES ASSUME NEW c \in chunks' PROVE c \in Chunk
    OBVIOUS
  <2>1. PICK d \in chunks :
          c = IF d.source \in S THEN Reviewed(d, decision = "verified_single_speaker") ELSE d
    BY DEF SpeakerReview
  <2>2. d \in Chunk /\ Reviewed(d, decision = "verified_single_speaker") \in Chunk
    BY ReviewedType DEF TypeOK, EvidenceOK
  <2> QED
    BY <2>1, <2>2
<1> QED
  BY <1>1, <1>2 DEF SpeakerReview, TypeOK, EvidenceOK, JobsOK, WorkersOK, AdminsOK, RequestsOK, BoundsOK

LEMMA RequestStepType ==
    ASSUME TypeOK, NEW r \in Requests, Asking(r) \/ RequestStep(r) \/ SendFails(r)
    PROVE  TypeOK'
<1>1. request[r] \in RequestState /\ (request[r].pc = "send" => request[r].job \in JobIds)
  BY DEF TypeOK, RequestsOK
<1>2. ASSUME NEW type \in {"cleanup", "analysis"}, NEW source \in SUBSET Sources, NEW limit \in Nat,
             Ask(r, type, source, limit)
      PROVE  TypeOK'
  <2>1. [pc |-> "commit", type |-> type, source |-> source, limit |-> limit, job |-> 0] \in RequestState
    BY DEF RequestState
  <2>2. RequestsOK'
    BY <1>2, <2>1, RequestUpdate DEF Ask, TypeOK
  <2> QED
    BY <1>2, <2>2 DEF Ask, TypeOK, EvidenceOK, JobsOK, WorkersOK, AdminsOK, BoundsOK, evidence, bounds
<1>3. ASSUME NEW limit \in Limits, RequestCleanup(r, limit) PROVE TypeOK'
  <2>1. Smaller(limit, Cardinality(Cleanable)) \in Nat
    BY SmallerType, CleanableCount, SettingsAssumption
  <2> QED
    BY <1>2, <1>3, <2>1 DEF RequestCleanup
<1>4. ASSUME NEW s \in Sources, RequestAnalysis(r, s) PROVE TypeOK'
  BY <1>2, <1>4 DEF RequestAnalysis
<1>5. ASSUME NEW j \in JobIds, CommitJob(r, j) PROVE TypeOK'
  <2> DEFINE row == [type |-> request[r].type, source |-> request[r].source,
                     limit |-> request[r].limit, status |-> "queued"]
             q == [request[r] EXCEPT !.pc = "send", !.job = j]
  <2>1. row \in Job /\ job' = [job EXCEPT ![j] = row]
    BY <1>1, <1>5 DEF CommitJob, RequestState, Job
  <2>2. q \in RequestState /\ q.job = j
    BY <1>1 DEF RequestState
  <2>3. request' = [request EXCEPT ![r] = q]
    BY <1>5 DEF CommitJob
  <2> HIDE DEF row, q
  <2>4. RequestsOK'
    BY <2>2, <2>3, RequestUpdate DEF TypeOK
  <2>5. JobsOK'
    BY <1>5, <2>1 DEF CommitJob, TypeOK, JobsOK
  <2> QED
    BY <1>5, <2>4, <2>5 DEF CommitJob, TypeOK, EvidenceOK, WorkersOK, AdminsOK, BoundsOK, evidence, bounds
<1>6. CASE SendTask(r)
  <2>1. JobsOK'
    BY <1>1, <1>6 DEF SendTask, TypeOK, JobsOK
  <2>2. RequestsOK'
    BY <1>6, IdleRequestType, RequestUpdate DEF SendTask, TypeOK
  <2> QED
    BY <1>6, <2>1, <2>2 DEF SendTask, TypeOK, EvidenceOK, WorkersOK, AdminsOK, BoundsOK, evidence, bounds
<1>7. CASE SendFails(r)
  <2>1. RequestsOK'
    BY <1>7, IdleRequestType, RequestUpdate DEF SendFails, TypeOK
  <2> QED
    BY <1>7, <2>1 DEF SendFails, TypeOK, EvidenceOK, JobsOK, WorkersOK, AdminsOK, BoundsOK, evidence
<1> QED
  BY <1>3, <1>4, <1>5, <1>6, <1>7 DEF Asking, RequestStep

LEMMA DeliverType ==
    ASSUME TypeOK, NEW w \in Workers, NEW j \in JobIds, Deliver(w, j)
    PROVE  JobsOK'
BY SetStatusType DEF Deliver, TypeOK, JobsOK

LEMMA CleanupStepType ==
    ASSUME TypeOK, NEW w \in Workers,
           \/ \E j \in JobIds : StartCleanup(w, j)
           \/ \E s \in Sources : CleanRead(w, s) \/ CleanPublish(w, s)
           \/ CleanEnd(w)
    PROVE  TypeOK'
<1>1. worker[w] \in WorkerState /\ (worker[w].pc # "idle" => worker[w].job \in JobIds)
  BY DEF TypeOK, WorkersOK
<1>2. ASSUME NEW j \in JobIds, StartCleanup(w, j) PROVE TypeOK'
  <2>1. PICK todo \in SUBSET Cleanable :
          worker' = [worker EXCEPT ![w] = [IdleWorker EXCEPT !.pc = "cleanup", !.job = j, !.todo = todo]]
    BY <1>2 DEF StartCleanup
  <2> DEFINE q == [IdleWorker EXCEPT !.pc = "cleanup", !.job = j, !.todo = todo]
  <2>2. q \in WorkerState /\ q.job = j
    BY DEF IdleWorker, WorkerState, Cleanable
  <2> HIDE DEF q
  <2>3. WorkersOK'
    BY <2>1, <2>2, WorkerUpdate DEF TypeOK, q
  <2>4. JobsOK'
    BY <1>2, DeliverType DEF StartCleanup
  <2> QED
    BY <1>2, <2>3, <2>4 DEF StartCleanup, TypeOK, EvidenceOK, AdminsOK, RequestsOK, BoundsOK, evidence, bounds
<1>3. ASSUME NEW s \in Sources, CleanRead(w, s) PROVE TypeOK'
  <2> DEFINE rest == [worker[w] EXCEPT !.todo = @ \ {s}]
             read == [worker[w] EXCEPT !.pc = "cleaning", !.todo = @ \ {s},
                                       !.source = {s}, !.old = RawEligible(s)]
  <2>1. worker' = [worker EXCEPT ![w] = rest] \/ worker' = [worker EXCEPT ![w] = read]
    <3>1. CASE RawEligible(s) = {}
      BY <1>3, <3>1 DEF CleanRead
    <3>2. CASE RawEligible(s) # {}
      BY <1>3, <3>2 DEF CleanRead
    <3> QED
      BY <3>1, <3>2
  <2>2. rest \in WorkerState /\ rest.job \in JobIds
    BY <1>1, <1>3 DEF CleanRead, WorkerState
  <2>3. RawEligible(s) \subseteq Chunk
    BY DEF RawEligible, TypeOK, EvidenceOK
  <2>4. read \in WorkerState /\ read.job \in JobIds
    BY <1>1, <1>3, <2>3 DEF CleanRead, WorkerState
  <2> HIDE DEF rest, read
  <2>5. WorkersOK'
    BY <2>1, <2>2, <2>4, WorkerUpdate DEF TypeOK
  <2> QED
    BY <1>3, <2>5 DEF CleanRead, TypeOK, EvidenceOK, JobsOK, AdminsOK, RequestsOK, BoundsOK, evidence, bounds
<1>4. ASSUME NEW s \in Sources, CleanPublish(w, s) PROVE TypeOK'
  <2> DEFINE q == [worker[w] EXCEPT !.pc = "cleanup", !.source = {}, !.old = {}]
             v == version[s] + 1
  <2>1. q \in WorkerState /\ q.job \in JobIds
    BY <1>1, <1>4 DEF CleanPublish, WorkerState
  <2>2. worker' = [worker EXCEPT ![w] = q]
    BY <1>4 DEF CleanPublish
  <2> HIDE DEF q
  <2>3. WorkersOK'
    BY <2>1, <2>2, WorkerUpdate DEF TypeOK
  <2>4. v \in Nat \ {0}
    BY DEF TypeOK, EvidenceOK
  <2>5. version' \in [Sources -> Nat \ {0}]
    BY <1>4, <2>4 DEF CleanPublish, TypeOK, EvidenceOK
  <2> HIDE DEF v
  <2>6. ASSUME NEW c \in chunks' PROVE c \in Chunk
    <3>1. \A d \in worker[w].old, t \in Rewrites : Cleaned(d, v, t) \in Chunk
      BY <1>1, <2>4, CleanedType DEF WorkerState
    <3>2. \A d \in chunks : d \in Chunk /\ [d EXCEPT !.eligible = FALSE] \in Chunk
      BY DEF TypeOK, EvidenceOK, Chunk
    <3>3. \/ \E d \in worker[w].old, t \in Rewrites : c = Cleaned(d, v, t)
          \/ \E d \in chunks : c = d \/ c = [d EXCEPT !.eligible = FALSE]
      BY <1>4, <2>6 DEF CleanPublish, v
    <3> QED
      BY <3>1, <3>2, <3>3
  <2> QED
    BY <1>4, <2>3, <2>5, <2>6 DEF CleanPublish, TypeOK, EvidenceOK, JobsOK, AdminsOK, RequestsOK, BoundsOK, bounds
<1>5. CASE CleanEnd(w)
  <2>1. JobsOK'
    BY <1>1, <1>5, SetStatusType DEF CleanEnd, TypeOK, JobsOK
  <2>2. WorkersOK'
    BY <1>5, AckType DEF CleanEnd, TypeOK
  <2> QED
    BY <1>5, <2>1, <2>2 DEF CleanEnd, TypeOK, EvidenceOK, AdminsOK, RequestsOK, BoundsOK, evidence, bounds
<1> QED
  BY <1>2, <1>3, <1>4, <1>5

LEMMA PublishedType ==
    ASSUME NEW confident \in SUBSET Turns
    PROVE  Published(confident) \in SUBSET confident
BY DEF Published

LEMMA NewSuggestionsType ==
    ASSUME NEW s \in Sources, NEW run \in Nat \ {0}, NEW confident \in SUBSET Turns, NEW v \in Nat,
           NEW g \in NewSuggestions(s, run, confident, v)
    PROVE  /\ g \in Suggestion /\ g.source = s /\ g.reviewer = "none"
           /\ g.status = "approved" => AutoPublish /\ g.turn \in confident /\ g.chunk = v
<1>1. PICK t \in Turns : g =
        [source |-> s, run |-> run, turn |-> t, reviewer |-> "none",
         status |-> IF ~AutoPublish THEN "pending" ELSE IF t \in confident THEN "approved" ELSE "rejected",
         chunk |-> IF t \in Published(confident) THEN v ELSE 0]
  BY DEF NewSuggestions
<1>2. t \in Turns /\ g.turn = t /\ g.chunk \in Nat
  BY <1>1
<1>3. g.status = "approved" => AutoPublish /\ t \in confident
  BY <1>1
<1>4. AutoPublish => Published(confident) = confident
  BY SettingsAssumption DEF Published
<1> QED
  BY <1>1, <1>2, <1>3, <1>4 DEF Suggestion

LEMMA AnalysisStepType ==
    ASSUME TypeOK, NEW w \in Workers,
           \/ \E j \in JobIds : StartAnalysis(w, j)
           \/ \E s \in Sources, confident \in SUBSET Turns : AnalysisPublish(w, s, confident)
    PROVE  TypeOK'
<1>1. worker[w] \in WorkerState /\ (worker[w].pc # "idle" => worker[w].job \in JobIds)
  BY DEF TypeOK, WorkersOK
<1>2. ASSUME NEW j \in JobIds, StartAnalysis(w, j) PROVE TypeOK'
  <2> DEFINE q == [IdleWorker EXCEPT !.pc = "analysing", !.job = j, !.source = job[j].source]
  <2>1. job[j].source \in SUBSET Sources
    BY DEF TypeOK, JobsOK, Job
  <2>2. q \in WorkerState /\ q.job = j
    BY <2>1 DEF IdleWorker, WorkerState
  <2>3. worker' = [worker EXCEPT ![w] = q]
    BY <1>2 DEF StartAnalysis
  <2> HIDE DEF q
  <2>4. WorkersOK'
    BY <2>2, <2>3, WorkerUpdate DEF TypeOK
  <2>5. JobsOK'
    BY <1>2, DeliverType DEF StartAnalysis
  <2> QED
    BY <1>2, <2>4, <2>5 DEF StartAnalysis, TypeOK, EvidenceOK, AdminsOK, RequestsOK, BoundsOK, evidence, bounds
<1>3. ASSUME NEW s \in Sources, NEW confident \in SUBSET Turns, AnalysisPublish(w, s, confident)
      PROVE  TypeOK'
  <2> DEFINE v == version[s] + 1
             published == Published(confident)
  <2>1. v \in Nat \ {0} /\ runs + 1 \in Nat \ {0} /\ published \in SUBSET Turns
    BY PublishedType DEF TypeOK, EvidenceOK, BoundsOK
  <2>2. version' \in [Sources -> Nat \ {0}]
    BY <1>3, <2>1 DEF AnalysisPublish, TypeOK, EvidenceOK
  <2>3. chunks' = chunks \cup TurnChunks(s, v, published)
    BY <1>3 DEF AnalysisPublish
  <2>4. ASSUME NEW g \in suggestions' PROVE g \in Suggestion
    <3>1. \/ g \in NewSuggestions(s, runs + 1, confident, v)
          \/ \E h \in suggestions : g = h \/ g = [h EXCEPT !.status = "superseded"]
      BY <1>3, <2>4 DEF AnalysisPublish
    <3>2. \A h \in suggestions : h \in Suggestion /\ [h EXCEPT !.status = "superseded"] \in Suggestion
      BY DEF TypeOK, EvidenceOK, Suggestion
    <3> HIDE DEF v
    <3>3. v \in Nat /\ runs + 1 \in Nat \ {0}
      BY <2>1
    <3>4. CASE g \in NewSuggestions(s, runs + 1, confident, v)
      BY <3>3, <3>4, NewSuggestionsType
    <3> QED
      BY <3>1, <3>2, <3>4
  <2> HIDE DEF v, published
  <2>5. chunks' \subseteq Chunk
    BY <2>1, <2>3, TurnChunksType DEF TypeOK, EvidenceOK
  <2>6. EvidenceOK'
    BY <1>3, <2>2, <2>4, <2>5 DEF AnalysisPublish, TypeOK, EvidenceOK
  <2>7. worker[w].job \in JobIds
    BY <1>1, <1>3 DEF AnalysisPublish
  <2>8. JobsOK'
    BY <1>3, <2>7, SetStatusType DEF AnalysisPublish, TypeOK, JobsOK
  <2>9. WorkersOK'
    BY <1>3, AckType DEF AnalysisPublish, TypeOK
  <2> QED
    BY <1>3, <2>1, <2>6, <2>8, <2>9 DEF AnalysisPublish, TypeOK, AdminsOK, RequestsOK, BoundsOK
<1> QED
  BY <1>2, <1>3

LEMMA TaskFaultType ==
    ASSUME TypeOK, NEW w \in Workers, Fault(w)
    PROVE  TypeOK'
<1>1. worker[w].job \in JobIds
  BY DEF TypeOK, WorkersOK, Fault, TaskFails, Redeliver, WorkerDies, ChildKilled
<1>2. CASE TaskFails(w)
  <2>1. JobsOK'
    BY <1>1, <1>2, SetStatusType DEF TaskFails, TypeOK, JobsOK
  <2>2. WorkersOK'
    BY <1>2, AckType DEF TaskFails, TypeOK
  <2> QED
    BY <1>2, <2>1, <2>2 DEF TaskFails, TypeOK, EvidenceOK, AdminsOK, RequestsOK, BoundsOK, evidence, bounds
<1>3. CASE Redeliver(w)
  <2>1. JobsOK'
    BY <1>1, <1>3 DEF Redeliver, TypeOK, JobsOK
  <2> QED
    BY <1>3, <2>1 DEF Redeliver, TypeOK, EvidenceOK, WorkersOK, AdminsOK, RequestsOK, BoundsOK, evidence
<1>4. CASE WorkerDies(w)
  <2>1. JobsOK'
    BY <1>1, <1>4 DEF WorkerDies, TypeOK, JobsOK
  <2>2. WorkersOK'
    BY <1>4, AckType DEF WorkerDies, TypeOK
  <2> QED
    BY <1>4, <2>1, <2>2 DEF WorkerDies, TypeOK, EvidenceOK, AdminsOK, RequestsOK, BoundsOK, evidence
<1>5. CASE ChildKilled(w)
  <2>1. WorkersOK'
    BY <1>5, AckType DEF ChildKilled, TypeOK
  <2> QED
    BY <1>5, <2>1 DEF ChildKilled, TypeOK, EvidenceOK, JobsOK, AdminsOK, RequestsOK, BoundsOK, evidence
<1> QED
  BY <1>2, <1>3, <1>4, <1>5 DEF Fault

LEMMA TurnReviewStepType ==
    ASSUME TypeOK, NEW a \in Admins, TurnReviewStep(a)
    PROVE  TypeOK'
<1>1. admin[a] \in AdminState /\ suggestions \subseteq Suggestion
  BY DEF TypeOK, AdminsOK, EvidenceOK
<1>2. ASSUME NEW decision \in {"approve_as_iyin", "reject"}, NEW picked \in SUBSET suggestions,
             TurnReviewRead(a, decision, picked)
      PROVE  TypeOK'
  <2>1. [pc |-> decision, picked |-> picked] \in AdminState
    BY <1>1 DEF AdminState
  <2>2. AdminsOK'
    BY <1>2, <2>1, AdminUpdate DEF TurnReviewRead, TypeOK
  <2> QED
    BY <1>2, <2>2 DEF TurnReviewRead, TypeOK, EvidenceOK, JobsOK, WorkersOK, RequestsOK, BoundsOK, evidence
<1>3. CASE TurnReject(a)
  <2>1. suggestions' \subseteq Suggestion
    <3> SUFFICES ASSUME NEW g \in suggestions' PROVE g \in Suggestion
      OBVIOUS
    <3>1. PICK h \in suggestions : g = h \/ g = [h EXCEPT !.status = "rejected", !.reviewer = "admin"]
      BY <1>3 DEF TurnReject
    <3> QED
      BY <1>1, <3>1 DEF Suggestion
  <2>2. AdminsOK'
    BY <1>3, IdleAdminType, AdminUpdate DEF TurnReject, TypeOK
  <2> QED
    BY <1>3, <2>1, <2>2 DEF TurnReject, TypeOK, EvidenceOK, JobsOK, WorkersOK, RequestsOK, BoundsOK, bounds
<1>4. ASSUME NEW s \in Sources, TurnApprove(a, s) PROVE TypeOK'
  <2> DEFINE v == version[s] + 1
             turns == {h.turn : h \in admin[a].picked}
  <2>1. v \in Nat \ {0} /\ turns \in SUBSET Turns
    BY <1>1 DEF TypeOK, EvidenceOK, AdminState, Suggestion
  <2>2. version' \in [Sources -> Nat \ {0}]
    BY <1>4, <2>1 DEF TurnApprove, TypeOK, EvidenceOK
  <2>3. chunks' = chunks \cup TurnChunks(s, v, turns)
    BY <1>4 DEF TurnApprove
  <2>4. suggestions' \subseteq Suggestion
    <3> SUFFICES ASSUME NEW g \in suggestions' PROVE g \in Suggestion
      OBVIOUS
    <3>1. PICK h \in suggestions :
            g = h \/ g = [h EXCEPT !.status = "approved", !.reviewer = "admin", !.chunk = v]
      BY <1>4 DEF TurnApprove
    <3> HIDE DEF v
    <3> QED
      BY <1>1, <2>1, <3>1 DEF Suggestion
  <2> HIDE DEF v, turns
  <2>5. chunks' \subseteq Chunk
    BY <2>1, <2>3, TurnChunksType DEF TypeOK, EvidenceOK
  <2>6. AdminsOK'
    BY <1>4, IdleAdminType, AdminUpdate DEF TurnApprove, TypeOK
  <2> QED
    BY <1>4, <2>2, <2>4, <2>5, <2>6
       DEF TurnApprove, TypeOK, EvidenceOK, JobsOK, WorkersOK, RequestsOK, BoundsOK, bounds
<1>5. CASE TurnReviewFails(a)
  <2>1. AdminsOK'
    BY <1>5, IdleAdminType, AdminUpdate DEF TurnReviewFails, TypeOK
  <2> QED
    BY <1>5, <2>1 DEF TurnReviewFails, TypeOK, EvidenceOK, JobsOK, WorkersOK, RequestsOK, BoundsOK, bounds, evidence
<1> QED
  BY <1>2, <1>3, <1>4, <1>5 DEF TurnReviewStep

LEMMA TypeStep == TypeOK /\ [Next]_vars => TypeOK'
<1> SUFFICES ASSUME TypeOK, [Next]_vars PROVE TypeOK'
  OBVIOUS
<1>1. CASE Next
  BY <1>1, SpeakerReviewType, RequestStepType, CleanupStepType, AnalysisStepType, TaskFaultType,
     TurnReviewStepType DEF Next, TaskStep
<1>2. CASE UNCHANGED vars
  BY <1>2 DEF vars, TypeOK, EvidenceOK, JobsOK, WorkersOK, AdminsOK, RequestsOK, BoundsOK
<1> QED
  BY <1>1, <1>2

\* Every table, message and process always has its type.
THEOREM TypeCorrect == Spec => []TypeOK
<1> QED
  BY TypeInit, TypeStep, PTL DEF Spec

-----------------------------------------------------------------------------
(* Where the chunks come from.                                              *)

\* The four writers of chunks.
LEMMA ChunkWriters ==
    ASSUME [Next]_vars
    PROVE  \/ UNCHANGED chunks
           \/ \E S \in SUBSET Sources, decision \in Decisions : SpeakerReview(S, decision)
           \/ \E w \in Workers, s \in Sources : CleanPublish(w, s)
           \/ \E w \in Workers, s \in Sources, confident \in SUBSET Turns : AnalysisPublish(w, s, confident)
           \/ \E a \in Admins, s \in Sources : TurnApprove(a, s)
<1>1. ASSUME NEW r \in Requests, Asking(r) \/ RequestStep(r) \/ SendFails(r) PROVE UNCHANGED chunks
  BY <1>1 DEF Asking, RequestCleanup, RequestAnalysis, Ask, RequestStep, CommitJob, SendTask, SendFails,
     evidence
<1>2. ASSUME NEW w \in Workers, Fault(w) PROVE UNCHANGED chunks
  BY <1>2 DEF Fault, TaskFails, Redeliver, WorkerDies, ChildKilled, evidence
<1>3. ASSUME NEW w \in Workers, TaskStep(w)
      PROVE  \/ UNCHANGED chunks
             \/ \E s \in Sources : CleanPublish(w, s)
             \/ \E s \in Sources, confident \in SUBSET Turns : AnalysisPublish(w, s, confident)
  BY <1>3 DEF TaskStep, StartCleanup, StartAnalysis, CleanRead, CleanEnd, evidence
<1>4. ASSUME NEW a \in Admins, TurnReviewStep(a)
      PROVE  UNCHANGED chunks \/ \E s \in Sources : TurnApprove(a, s)
  BY <1>4 DEF TurnReviewStep, TurnReviewRead, TurnReject, TurnReviewFails, evidence
<1>5. CASE UNCHANGED vars
  BY <1>5 DEF vars
<1> QED
  BY <1>1, <1>2, <1>3, <1>4, <1>5 DEF Next

\* A chunk is as it was before the step, or was written by one of the four writers.
LEMMA ChunkOrigins ==
    ASSUME TypeOK, [Next]_vars, NEW c \in chunks'
    PROVE  \/ c \in chunks
           \/ \E d \in chunks, verified \in BOOLEAN : c = Reviewed(d, verified)
           \/ \E d \in chunks : c = [d EXCEPT !.eligible = FALSE]
           \/ \E w \in Workers, v \in Nat \ {0}, t \in Rewrites : \E d \in worker[w].old : c = Cleaned(d, v, t)
           \/ \E s \in Sources, v \in Nat \ {0}, T \in SUBSET Turns : c \in TurnChunks(s, v, T)
<1> DEFINE Origin ==
           \/ c \in chunks
           \/ \E d \in chunks, verified \in BOOLEAN : c = Reviewed(d, verified)
           \/ \E d \in chunks : c = [d EXCEPT !.eligible = FALSE]
           \/ \E w \in Workers, v \in Nat \ {0}, t \in Rewrites : \E d \in worker[w].old : c = Cleaned(d, v, t)
           \/ \E s \in Sources, v \in Nat \ {0}, T \in SUBSET Turns : c \in TurnChunks(s, v, T)
<1> SUFFICES Origin
  OBVIOUS
<1>1. CASE UNCHANGED chunks
  BY <1>1
<1>2. ASSUME NEW S \in SUBSET Sources, NEW decision \in Decisions, SpeakerReview(S, decision)
      PROVE  Origin
  BY <1>2 DEF SpeakerReview
<1>3. \A s \in Sources : version[s] + 1 \in Nat \ {0}
  BY DEF TypeOK, EvidenceOK
<1>4. ASSUME NEW w \in Workers, NEW s \in Sources, CleanPublish(w, s) PROVE Origin
  <2>1. \/ c \in chunks
        \/ \E d \in chunks : c = [d EXCEPT !.eligible = FALSE]
        \/ \E d \in worker[w].old, t \in Rewrites : c = Cleaned(d, version[s] + 1, t)
    BY <1>4 DEF CleanPublish
  <2> QED
    BY <1>3, <2>1
<1>5. ASSUME NEW w \in Workers, NEW s \in Sources, NEW confident \in SUBSET Turns,
             AnalysisPublish(w, s, confident)
      PROVE  Origin
  <2>1. c \in chunks \/ c \in TurnChunks(s, version[s] + 1, Published(confident))
    BY <1>5 DEF AnalysisPublish
  <2>2. Published(confident) \in SUBSET Turns
    BY PublishedType
  <2> QED
    BY <1>3, <2>1, <2>2
<1>6. ASSUME NEW a \in Admins, NEW s \in Sources, TurnApprove(a, s) PROVE Origin
  <2>1. c \in chunks \/ c \in TurnChunks(s, version[s] + 1, {h.turn : h \in admin[a].picked})
    BY <1>6 DEF TurnApprove
  <2>2. {h.turn : h \in admin[a].picked} \in SUBSET Turns
    BY DEF TypeOK, AdminsOK, AdminState, Suggestion
  <2> QED
    BY <1>3, <2>1, <2>2
<1> HIDE DEF Origin
<1> QED
  BY <1>1, <1>2, <1>4, <1>5, <1>6, ChunkWriters

\* What a cleanup has read stays as it is until it publishes.
LEMMA OldKept ==
    ASSUME TypeOK, [Next]_vars, NEW w \in Workers, NEW c \in worker'[w].old
    PROVE  \/ c \in worker[w].old
           \/ c \in chunks /\ c.eligible /\ c.kind = "raw"
<1>1. worker \in [Workers -> WorkerState] /\ worker[w] \in WorkerState
  BY DEF TypeOK, WorkersOK
<1>2. CASE worker'[w].old = worker[w].old
  BY <1>2
<1>3. ASSUME NEW v \in Workers, NEW s \in Sources, CleanRead(v, s)
      PROVE  worker'[w].old = worker[w].old \/ worker'[w].old = RawEligible(s)
  BY <1>1, <1>3 DEF CleanRead, WorkerState
<1>4. ASSUME NEW v \in Workers, Ack(v) PROVE c \in worker[w].old
  BY <1>1, <1>4 DEF Ack, IdleWorker
<1>5. ASSUME NEW v \in Workers, NEW s \in Sources, CleanPublish(v, s) PROVE c \in worker[w].old
  BY <1>1, <1>5 DEF CleanPublish, WorkerState
<1>6. ASSUME NEW v \in Workers, NEW j \in JobIds, StartCleanup(v, j) \/ StartAnalysis(v, j)
      PROVE  c \in worker[w].old
  <2>1. \/ \E todo \in SUBSET Cleanable : worker' = [worker EXCEPT ![v] =
               [IdleWorker EXCEPT !.pc = "cleanup", !.job = j, !.todo = todo]]
        \/ worker' = [worker EXCEPT ![v] =
               [IdleWorker EXCEPT !.pc = "analysing", !.job = j, !.source = job[j].source]]
    BY <1>6 DEF StartCleanup, StartAnalysis
  <2> QED
    BY <1>1, <2>1 DEF IdleWorker
<1>7. CASE UNCHANGED worker
  BY <1>7
<1>8. ASSUME NEW r \in Requests, Asking(r) \/ RequestStep(r) \/ SendFails(r) PROVE UNCHANGED worker
  BY <1>8 DEF Asking, RequestCleanup, RequestAnalysis, Ask, RequestStep, CommitJob, SendTask, SendFails
<1>9. ASSUME NEW v \in Workers, Fault(v) PROVE UNCHANGED worker \/ Ack(v)
  BY <1>9 DEF Fault, TaskFails, Redeliver, WorkerDies, ChildKilled
<1>10. ASSUME NEW a \in Admins, TurnReviewStep(a) PROVE UNCHANGED worker
  BY <1>10 DEF TurnReviewStep, TurnReviewRead, TurnReject, TurnApprove, TurnReviewFails
<1> QED
  BY <1>2, <1>3, <1>4, <1>5, <1>6, <1>7, <1>8, <1>9, <1>10
     DEF Next, TaskStep, SpeakerReview, CleanEnd, AnalysisPublish, RawEligible, vars

-----------------------------------------------------------------------------
(* What may be cited.                                                       *)

\* The chunks a cleanup has read had a speaker when it read them.
OldHasSpeaker == \A w \in Workers : \A c \in worker[w].old : c.speaker

\* The flags of a chunk are those of the text it was captured with, whatever it stores now.
Captured(c) == (c.flags <=> c.origin \in Flagged) /\ (c.kind # "cleaned" => c.text = c.origin)

\* So it is in the table, and for the rows that a cleanup has read.
FlagsOfCapture ==
    (\A c \in chunks : Captured(c)) /\ \A w \in Workers : \A c \in worker[w].old : Captured(c)

CitableInv ==
    TypeOK /\ FlagsOfCapture /\ CapturedFlagsExcluded /\ CitableHasSpeaker /\ OldHasSpeaker

LEMMA CitableInit == Init => CitableInv
<1> SUFFICES ASSUME Init PROVE CitableInv
  OBVIOUS
<1>1. ASSUME NEW c \in chunks PROVE ~c.eligible /\ Captured(c)
  <2>1. PICK s \in Sources, p \in Passages :
          c = [source |-> s, version |-> 1, origin |-> p, text |-> p, flags |-> p \in Flagged,
               kind |-> "raw", speaker |-> FALSE, eligible |-> FALSE]
    BY DEF Init
  <2>2. ~c.eligible /\ c.origin = p /\ c.text = p /\ (c.flags <=> p \in Flagged)
    BY <2>1
  <2> QED
    BY <2>2 DEF Captured
<1>2. OldHasSpeaker /\ \A w \in Workers : worker[w].old = {}
  BY DEF Init, IdleWorker, OldHasSpeaker
<1> QED
  BY <1>1, <1>2, TypeInit DEF CitableInv, FlagsOfCapture, CapturedFlagsExcluded, CitableHasSpeaker, Citable

\* Each of the four writers marks a chunk citable only when its flags are empty and it
\* has a speaker.  Speaker review and cleanup keep the flags it has; cleanup gives its
\* copy a text of its own, and the speaker the chunk had when it was read.
LEMMA CitableStep == CitableInv /\ [Next]_vars => CitableInv'
<1> SUFFICES ASSUME CitableInv, [Next]_vars PROVE CitableInv'
  OBVIOUS
<1>1. TypeOK /\ FlagsOfCapture /\ CapturedFlagsExcluded /\ CitableHasSpeaker /\ OldHasSpeaker
  BY DEF CitableInv
<1> DEFINE Good(c) == Captured(c) /\ (c.eligible => ~c.flags /\ c.speaker)
<1>2. chunks \subseteq Chunk /\ \A w \in Workers : worker[w].old \subseteq Chunk
  BY <1>1 DEF TypeOK, EvidenceOK, WorkersOK, WorkerState
<1>3. \A c \in chunks : Good(c)
  BY <1>1 DEF FlagsOfCapture, Captured, CapturedFlagsExcluded, NoCapturedFlags, CitableHasSpeaker, Citable
<1>4. ASSUME NEW c \in chunks' PROVE Good(c)
  <2>1. ASSUME NEW d \in chunks, NEW verified \in BOOLEAN, c = Reviewed(d, verified) PROVE Good(c)
    BY <1>2, <1>3, <2>1, ReviewedType DEF Captured
  <2>2. ASSUME NEW d \in chunks, c = [d EXCEPT !.eligible = FALSE] PROVE Good(c)
    BY <1>2, <1>3, <2>2 DEF Captured, Chunk
  <2>3. ASSUME NEW w \in Workers, NEW v \in Nat \ {0}, NEW t \in Rewrites, NEW d \in worker[w].old,
               c = Cleaned(d, v, t)
        PROVE  Good(c)
    <3>1. d \in Chunk /\ d.speaker /\ Captured(d)
      BY <1>1, <1>2 DEF OldHasSpeaker, FlagsOfCapture
    <3> QED
      BY <2>3, <3>1, CleanedType DEF Captured
  <2>4. ASSUME NEW s \in Sources, NEW v \in Nat \ {0}, NEW T \in SUBSET Turns, c \in TurnChunks(s, v, T)
        PROVE  Good(c)
    BY <2>4, TurnChunksType DEF Captured
  <2> HIDE DEF Good
  <2> QED
    BY <1>1, <1>3, <2>1, <2>2, <2>3, <2>4, ChunkOrigins
<1>5. CapturedFlagsExcluded' /\ CitableHasSpeaker'
  BY <1>4 DEF CapturedFlagsExcluded, NoCapturedFlags, Captured, CitableHasSpeaker, Citable
<1>6. OldHasSpeaker' /\ FlagsOfCapture'
  <2>1. ASSUME NEW w \in Workers, NEW c \in worker'[w].old PROVE c.speaker /\ Captured(c)
    <3>1. CASE c \in worker[w].old
      BY <1>1, <3>1 DEF OldHasSpeaker, FlagsOfCapture
    <3>2. CASE c \in chunks /\ c.eligible
      BY <1>3, <3>2
    <3> QED
      BY <1>1, <3>1, <3>2, OldKept
  <2> QED
    BY <1>4, <2>1 DEF OldHasSpeaker, FlagsOfCapture, Captured
<1> QED
  BY <1>1, <1>5, <1>6, TypeStep DEF CitableInv

\* What was captured with injection flags is never citable, not as raw chunk, as cleaned
\* copy or as turn, whichever of speaker review, cleanup, analysis and turn review wrote
\* it last; nothing is said of the texts that a cleanup writes.
THEOREM CapturedFlagsCorrect == Spec => []CapturedFlagsExcluded
<1>1. CitableInv => CapturedFlagsExcluded
  BY DEF CitableInv
<1> QED
  BY <1>1, CitableInit, CitableStep, PTL DEF Spec

\* Citable evidence is attributed to a speaker, although cleanup copies an
\* attribution that a review may have taken back since.
THEOREM SpeakerCorrect == Spec => []CitableHasSpeaker
<1>1. CitableInv => CitableHasSpeaker
  BY DEF CitableInv
<1> QED
  BY <1>1, CitableInit, CitableStep, PTL DEF Spec

-----------------------------------------------------------------------------
(* No step takes evidence away from a source that stays verified.           *)

LEMMA NoGapStep ==
    ASSUME CitableInv, [Next]_vars, NEW s \in Sources, IsVerified(s), IsVerified(s)',
           NEW c \in chunks, c.eligible, c.source = s, c.origin \in Passages
    PROVE  \E d \in chunks' : d.eligible /\ d.source = s /\ d.origin = c.origin
<1>1. c \in Chunk /\ c.origin \notin Flagged /\ ~c.flags
  BY DEF CitableInv, CapturedFlagsExcluded, NoCapturedFlags, FlagsOfCapture, Captured, Citable,
         TypeOK, EvidenceOK
<1>2. CASE chunks \subseteq chunks'
  BY <1>2
<1>3. ASSUME NEW S \in SUBSET Sources, NEW decision \in Decisions, SpeakerReview(S, decision)
      PROVE  \E d \in chunks' : d.eligible /\ d.source = s /\ d.origin = c.origin
  <2>1. CASE s \notin S
    <3>1. c \in chunks'
      BY <1>3, <2>1 DEF SpeakerReview
    <3> QED
      BY <3>1
  <2>2. CASE s \in S
    <3>1. decision = "verified_single_speaker"
      BY <1>3, <2>2 DEF SpeakerReview, IsVerified
    <3>2. Reviewed(c, TRUE) \in chunks'
      BY <1>3, <2>2, <3>1 DEF SpeakerReview
    <3> QED
      BY <1>1, <3>2, ReviewedType
  <2> QED
    BY <2>1, <2>2
<1>4. ASSUME NEW w \in Workers, NEW x \in Sources, CleanPublish(w, x)
      PROVE  \E d \in chunks' : d.eligible /\ d.source = s /\ d.origin = c.origin
  <2> DEFINE old == worker[w].old
             v == version[x] + 1
             same(d, e) == d.version = e.version /\ d.origin = e.origin /\ d.source = e.source
  <2>1. old \subseteq Chunk /\ v \in Nat \ {0}
    BY DEF CitableInv, TypeOK, EvidenceOK, WorkersOK, WorkerState
  <2>2. PICK rewrite \in [worker[w].old -> Rewrites] :
          chunks' = {IF \E e \in worker[w].old :
                            d.version = e.version /\ d.origin = e.origin /\ d.source = e.source
                        THEN [d EXCEPT !.eligible = FALSE] ELSE d : d \in chunks}
                    \cup {Cleaned(d, version[x] + 1, rewrite[d]) : d \in worker[w].old}
    BY <1>4 DEF CleanPublish
  <2>3. CASE \E e \in old : same(c, e)
    <3>1. PICK e \in old : same(c, e)
      BY <2>3
    <3>2. Cleaned(e, v, rewrite[e]) \in chunks' /\ rewrite[e] \in Rewrites
      BY <2>2
    <3>3. ~e.flags
      BY <1>1, <3>1 DEF CitableInv, FlagsOfCapture, Captured
    <3>4. /\ Cleaned(e, v, rewrite[e]).eligible
          /\ Cleaned(e, v, rewrite[e]).source = s /\ Cleaned(e, v, rewrite[e]).origin = c.origin
      BY <1>1, <2>1, <3>1, <3>2, <3>3, CleanedType
    <3> QED
      BY <3>2, <3>4
  <2>4. CASE ~\E e \in old : same(c, e)
    <3>1. c \in chunks'
      BY <2>2, <2>4
    <3> QED
      BY <3>1
  <2> QED
    BY <2>3, <2>4
<1>5. ASSUME NEW w \in Workers, NEW x \in Sources, NEW confident \in SUBSET Turns,
             AnalysisPublish(w, x, confident)
      PROVE  chunks \subseteq chunks'
  BY <1>5 DEF AnalysisPublish
<1>6. ASSUME NEW a \in Admins, NEW x \in Sources, TurnApprove(a, x) PROVE chunks \subseteq chunks'
  BY <1>6 DEF TurnApprove
<1>7. CASE UNCHANGED chunks
  BY <1>7
<1> QED
  BY <1>2, <1>3, <1>4, <1>5, <1>6, <1>7, ChunkWriters

\* As long as a source stays verified, what could be cited of it can still be cited
\* after every step: cleanup replaces chunks in one commit and is never half done.
THEOREM NoGapCorrect == Spec => NoEvidenceGap
<1>1. ASSUME CitableInv, [Next]_vars
      PROVE  [\A s \in Sources : IsVerified(s) /\ IsVerified(s)'
                 => CitablePassages(s) \subseteq CitablePassages(s)']_vars
  <2>1. ASSUME NEW s \in Sources, IsVerified(s), IsVerified(s)', NEW p \in CitablePassages(s)
        PROVE  p \in CitablePassages(s)'
    <3>1. PICK c \in chunks : c.eligible /\ c.source = s /\ c.origin = p /\ p \in Passages
      BY <2>1 DEF CitablePassages, Citable
    <3>2. PICK d \in chunks' : d.eligible /\ d.source = s /\ d.origin = p
      BY <1>1, <2>1, <3>1, NoGapStep
    <3> QED
      BY <3>1, <3>2 DEF CitablePassages, Citable
  <2> QED
    BY <2>1
<1> QED
  BY <1>1, CitableInit, CitableStep, PTL DEF Spec, NoEvidenceGap

-----------------------------------------------------------------------------
(* Turn review.                                                             *)

\* A chunk is never deleted or renamed.
LEMMA ChunksKept ==
    ASSUME TypeOK, [Next]_vars, NEW c \in chunks
    PROVE  \E d \in chunks' : /\ d.source = c.source /\ d.version = c.version
                              /\ d.origin = c.origin /\ d.text = c.text /\ d.kind = c.kind
<1>1. c \in Chunk
  BY DEF TypeOK, EvidenceOK
<1>2. CASE c \in chunks'
  BY <1>2
<1>3. ASSUME NEW S \in SUBSET Sources, NEW decision \in Decisions, SpeakerReview(S, decision)
      PROVE  c \in chunks' \/ \E verified \in BOOLEAN : Reviewed(c, verified) \in chunks'
  BY <1>3 DEF SpeakerReview
<1>4. ASSUME NEW w \in Workers, NEW s \in Sources, CleanPublish(w, s)
      PROVE  c \in chunks' \/ [c EXCEPT !.eligible = FALSE] \in chunks'
  <2> DEFINE same(x, d) == x.version = d.version /\ x.origin = d.origin /\ x.source = d.source
  <2>1. PICK rewrite \in [worker[w].old -> Rewrites] :
          chunks' = {IF \E d \in worker[w].old : same(x, d) THEN [x EXCEPT !.eligible = FALSE] ELSE x : x \in chunks}
                    \cup {Cleaned(x, version[s] + 1, rewrite[x]) : x \in worker[w].old}
    BY <1>4 DEF CleanPublish
  <2> DEFINE f(x) == IF \E d \in worker[w].old : same(x, d) THEN [x EXCEPT !.eligible = FALSE] ELSE x
  <2>2. f(c) \in chunks'
    <3> HIDE DEF f
    <3>1. f(c) \in {f(x) : x \in chunks}
      OBVIOUS
    <3>2. chunks' = {f(x) : x \in chunks} \cup {Cleaned(x, version[s] + 1, rewrite[x]) : x \in worker[w].old}
      BY <2>1 DEF f
    <3> QED
      BY <3>1, <3>2
  <2>3. f(c) = [c EXCEPT !.eligible = FALSE] \/ f(c) = c
    OBVIOUS
  <2> QED
    BY <2>2, <2>3
<1>5. CASE [c EXCEPT !.eligible = FALSE] \in chunks'
  BY <1>1, <1>5 DEF Chunk
<1>6. ASSUME NEW verified \in BOOLEAN, Reviewed(c, verified) \in chunks'
      PROVE  \E d \in chunks' : /\ d.source = c.source /\ d.version = c.version
                                /\ d.origin = c.origin /\ d.text = c.text /\ d.kind = c.kind
  BY <1>1, <1>6, ReviewedType
<1>7. CASE UNCHANGED chunks
  BY <1>2, <1>7
<1>8. ASSUME NEW w \in Workers, NEW x \in Sources, NEW confident \in SUBSET Turns,
             AnalysisPublish(w, x, confident)
      PROVE  c \in chunks'
  BY <1>8 DEF AnalysisPublish
<1>9. ASSUME NEW a \in Admins, NEW x \in Sources, TurnApprove(a, x) PROVE c \in chunks'
  BY <1>9 DEF TurnApprove
<1> QED
  BY <1>2, <1>3, <1>4, <1>5, <1>6, <1>7, <1>8, <1>9, ChunkWriters

\* A step that writes suggestions is an analysis or a turn review.
LEMMA SuggestionWriters ==
    ASSUME [Next]_vars
    PROVE  \/ UNCHANGED suggestions
           \/ \E w \in Workers, s \in Sources, confident \in SUBSET Turns : AnalysisPublish(w, s, confident)
           \/ \E a \in Admins : TurnReject(a)
           \/ \E a \in Admins, s \in Sources : TurnApprove(a, s)
<1>1. ASSUME NEW r \in Requests, Asking(r) \/ RequestStep(r) \/ SendFails(r)
      PROVE  UNCHANGED suggestions
  BY <1>1 DEF Asking, RequestStep, RequestCleanup, RequestAnalysis, Ask, CommitJob, SendTask, SendFails,
     evidence
<1>2. ASSUME NEW w \in Workers, Fault(w) PROVE UNCHANGED suggestions
  BY <1>2 DEF Fault, TaskFails, Redeliver, WorkerDies, ChildKilled, evidence
<1> QED
  BY <1>1, <1>2 DEF Next, TaskStep, TurnReviewStep, SpeakerReview, StartCleanup, CleanRead, CleanPublish,
     CleanEnd, StartAnalysis, TurnReviewRead, TurnReviewFails, vars, evidence

\* An approved suggestion was approved before, or by an analysis that publishes at
\* once, or by a turn review; the last two insert its chunk.
LEMMA ApprovedStep ==
    ASSUME TypeOK, ApprovedHasChunk, [Next]_vars
    PROVE  ApprovedHasChunk'
<1> SUFFICES ASSUME NEW g \in suggestions', g.status = "approved"
             PROVE  \E c \in chunks' : /\ c.kind = "turn" /\ c.source = g.source
                                       /\ c.version = g.chunk /\ c.text = g.turn
  BY DEF ApprovedHasChunk
<1> DEFINE HasChunk == \E c \in chunks' : /\ c.kind = "turn" /\ c.source = g.source
                                          /\ c.version = g.chunk /\ c.text = g.turn
<1> SUFFICES HasChunk
  OBVIOUS
<1>1. CASE g \in suggestions
  <2>1. PICK c \in chunks : c.kind = "turn" /\ c.source = g.source /\ c.version = g.chunk /\ c.text = g.turn
    BY <1>1 DEF ApprovedHasChunk
  <2> QED
    BY <2>1, ChunksKept
<1>2. suggestions \subseteq Suggestion /\ \A s \in Sources : version[s] + 1 \in Nat \ {0}
  BY DEF TypeOK, EvidenceOK
<1>3. ASSUME NEW s \in Sources, NEW v \in Nat \ {0}, NEW T, g.turn \in T, g.source = s, g.chunk = v,
             chunks' = chunks \cup TurnChunks(s, v, T)
      PROVE  HasChunk
  <2> DEFINE c == [source |-> s, version |-> v, origin |-> g.turn, text |-> g.turn,
                   flags |-> g.turn \in Flagged, kind |-> "turn", speaker |-> TRUE,
                   eligible |-> g.turn \notin Flagged]
  <2>1. c \in TurnChunks(s, v, T)
    BY <1>3 DEF TurnChunks
  <2>2. c \in chunks'
    BY <1>3, <2>1
  <2>3. c.kind = "turn" /\ c.source = g.source /\ c.version = g.chunk /\ c.text = g.turn
    BY <1>3
  <2> QED
    BY <2>2, <2>3
<1>4. ASSUME NEW w \in Workers, NEW s \in Sources, NEW confident \in SUBSET Turns,
             AnalysisPublish(w, s, confident)
      PROVE  HasChunk
  <2> DEFINE v == version[s] + 1
  <2>1. \/ g \in NewSuggestions(s, runs + 1, confident, v)
        \/ \E h \in suggestions : g = h \/ g = [h EXCEPT !.status = "superseded"]
    BY <1>4 DEF AnalysisPublish
  <2>2. \A h \in suggestions : [h EXCEPT !.status = "superseded"].status = "superseded"
    BY <1>2 DEF Suggestion
  <2>3. CASE g \in NewSuggestions(s, runs + 1, confident, v)
    <3>1. v \in Nat /\ runs + 1 \in Nat \ {0}
      BY <1>2 DEF TypeOK, BoundsOK
    <3>2. AutoPublish /\ g.turn \in confident /\ g.chunk = v /\ g.source = s
      BY <2>3, <3>1, NewSuggestionsType
    <3>3. chunks' = chunks \cup TurnChunks(s, v, confident)
      BY <1>4, <3>2 DEF AnalysisPublish, Published
    <3> QED
      BY <1>2, <1>3, <3>2, <3>3
  <2> QED
    BY <1>1, <2>1, <2>2, <2>3
<1>5. ASSUME NEW a \in Admins, NEW s \in Sources, TurnApprove(a, s) PROVE HasChunk
  <2> DEFINE v == version[s] + 1
             turns == {h.turn : h \in admin[a].picked}
  <2>1. PICK h \in suggestions :
          g = IF Picked(a, h) THEN [h EXCEPT !.status = "approved", !.reviewer = "admin", !.chunk = v] ELSE h
    BY <1>5 DEF TurnApprove
  <2>2. CASE Picked(a, h)
    <3>1. g.turn = h.turn /\ g.source = h.source /\ g.chunk = v
      BY <1>2, <2>1, <2>2 DEF Suggestion
    <3>2. h.turn \in turns /\ h.source = s
      BY <1>5, <2>2 DEF Picked, TurnApprove
    <3>3. chunks' = chunks \cup TurnChunks(s, v, turns)
      BY <1>5 DEF TurnApprove
    <3> QED
      BY <1>2, <1>3, <3>1, <3>2, <3>3
  <2> QED
    BY <1>1, <2>1, <2>2
<1>6. ASSUME NEW a \in Admins, TurnReject(a) PROVE g \in suggestions
  <2>1. \A h \in suggestions : [h EXCEPT !.status = "rejected", !.reviewer = "admin"].status = "rejected"
    BY <1>2 DEF Suggestion
  <2> QED
    BY <1>6, <2>1 DEF TurnReject
<1>7. CASE UNCHANGED suggestions
  BY <1>1, <1>7
<1> HIDE DEF HasChunk
<1> QED
  BY <1>1, <1>4, <1>5, <1>6, <1>7, SuggestionWriters

\* An approved suggestion has its chunk, also when it was read while pending and
\* superseded, rejected or approved by another request before the commit.
THEOREM ApprovedCorrect == Spec => []ApprovedHasChunk
<1>1. Init => TypeOK /\ ApprovedHasChunk
  BY TypeInit DEF Init, ApprovedHasChunk
<1>2. TypeOK /\ ApprovedHasChunk /\ [Next]_vars => (TypeOK /\ ApprovedHasChunk)'
  BY TypeStep, ApprovedStep
<1> QED
  BY <1>1, <1>2, PTL DEF Spec
-----------------------------------------------------------------------------
(* Turns and administrators.                                                *)

SameKey(g, h) == g.source = h.source /\ g.run = h.run /\ g.turn = h.turn

\* What a turn review has picked is still in the table.
PickedStored == \A a \in Admins : \A h \in admin[a].picked : \E g \in suggestions : SameKey(g, h)

\* Every turn chunk, citable or not, comes from a turn an administrator has reviewed.
TurnsReviewed ==
    \A c \in chunks : c.kind = "turn" =>
        \E g \in suggestions : g.source = c.source /\ g.turn = c.text /\ g.reviewer = "admin"

ReviewInv == TypeOK /\ PickedStored /\ TurnsReviewed

\* A suggestion is never deleted or renamed, and it never loses its reviewer.
LEMMA SuggestionsKept ==
    ASSUME TypeOK, [Next]_vars, NEW g \in suggestions
    PROVE  \E h \in suggestions' : SameKey(h, g) /\ (g.reviewer = "admin" => h.reviewer = "admin")
<1> DEFINE Kept == \E h \in suggestions' : SameKey(h, g) /\ (g.reviewer = "admin" => h.reviewer = "admin")
<1>1. g \in Suggestion
  BY DEF TypeOK, EvidenceOK
<1>2. CASE g \in suggestions'
  BY <1>2 DEF SameKey
<1>3. ASSUME NEW w \in Workers, NEW s \in Sources, NEW confident \in SUBSET Turns,
             AnalysisPublish(w, s, confident)
      PROVE  Kept
  <2>1. g \in suggestions' \/ [g EXCEPT !.status = "superseded"] \in suggestions'
    BY <1>3 DEF AnalysisPublish
  <2> QED
    BY <1>1, <1>2, <2>1 DEF SameKey, Suggestion
<1>4. ASSUME NEW a \in Admins, TurnReject(a) PROVE Kept
  <2>1. g \in suggestions' \/ [g EXCEPT !.status = "rejected", !.reviewer = "admin"] \in suggestions'
    BY <1>4 DEF TurnReject
  <2> QED
    BY <1>1, <1>2, <2>1 DEF SameKey, Suggestion
<1>5. ASSUME NEW a \in Admins, NEW s \in Sources, TurnApprove(a, s) PROVE Kept
  <2>1. \/ g \in suggestions'
        \/ [g EXCEPT !.status = "approved", !.reviewer = "admin", !.chunk = version[s] + 1] \in suggestions'
    BY <1>5 DEF TurnApprove
  <2> QED
    BY <1>1, <1>2, <2>1 DEF SameKey, Suggestion
<1>6. CASE UNCHANGED suggestions
  BY <1>2, <1>6
<1> HIDE DEF Kept
<1> QED
  BY <1>3, <1>4, <1>5, <1>6, SuggestionWriters DEF Kept

\* What is picked after a step was picked before it, or has just been read.
LEMMA PickedKept ==
    ASSUME TypeOK, [Next]_vars, NEW a \in Admins, NEW h \in admin'[a].picked
    PROVE  h \in admin[a].picked \/ h \in suggestions
<1>1. admin \in [Admins -> AdminState]
  BY DEF TypeOK, AdminsOK
<1>2. CASE UNCHANGED admin
  BY <1>2
<1>3. ASSUME NEW b \in Admins, TurnReviewStep(b) PROVE h \in admin[a].picked \/ h \in suggestions
  <2>1. ASSUME NEW decision, NEW picked \in SUBSET suggestions, TurnReviewRead(b, decision, picked)
        PROVE  h \in admin[a].picked \/ h \in suggestions
    BY <1>1, <2>1 DEF TurnReviewRead
  <2>2. CASE admin' = [admin EXCEPT ![b] = IdleAdmin]
    BY <1>1, <2>2 DEF IdleAdmin
  <2> QED
    BY <1>3, <2>1, <2>2 DEF TurnReviewStep, TurnReject, TurnApprove, TurnReviewFails
<1>4. ASSUME NEW r \in Requests, Asking(r) \/ RequestStep(r) \/ SendFails(r) PROVE UNCHANGED admin
  BY <1>4 DEF Asking, RequestStep, RequestCleanup, RequestAnalysis, Ask, CommitJob, SendTask, SendFails
<1>5. ASSUME NEW w \in Workers, TaskStep(w) \/ Fault(w) PROVE UNCHANGED admin
  BY <1>5 DEF TaskStep, StartCleanup, StartAnalysis, CleanRead, CleanPublish, AnalysisPublish, CleanEnd,
     Fault, TaskFails, Redeliver, WorkerDies, ChildKilled
<1> QED
  BY <1>2, <1>3, <1>4, <1>5 DEF Next, SpeakerReview, vars

\* Without auto-publish a turn chunk is as old as the step, or comes from a turn review.
LEMMA TurnChunkOrigins ==
    ASSUME ~AutoPublish, TypeOK, [Next]_vars, NEW c \in chunks', c.kind = "turn"
    PROVE  \/ \E d \in chunks : d.kind = "turn" /\ d.source = c.source /\ d.text = c.text
           \/ \E a \in Admins, s \in Sources :
                 /\ TurnApprove(a, s)
                 /\ c.source = s
                 /\ \E h \in admin[a].picked : h.turn = c.text /\ h.source = s
<1> DEFINE Old == \E d \in chunks : d.kind = "turn" /\ d.source = c.source /\ d.text = c.text
           New == \E a \in Admins, s \in Sources :
                     /\ TurnApprove(a, s)
                     /\ c.source = s
                     /\ \E h \in admin[a].picked : h.turn = c.text /\ h.source = s
<1> SUFFICES Old \/ New
  OBVIOUS
<1>1. chunks \subseteq Chunk /\ \A w \in Workers : worker[w].old \subseteq Chunk
  BY DEF TypeOK, EvidenceOK, WorkersOK, WorkerState
<1>2. CASE c \in chunks
  BY <1>2
<1>3. ASSUME NEW S \in SUBSET Sources, NEW decision \in Decisions, SpeakerReview(S, decision)
      PROVE  Old
  <2>1. PICK d \in chunks : c = d \/ \E verified \in BOOLEAN : c = Reviewed(d, verified)
    BY <1>3 DEF SpeakerReview
  <2>2. d.kind = c.kind /\ d.source = c.source /\ d.text = c.text
    BY <1>1, <2>1, ReviewedType
  <2> QED
    BY <2>2
<1>4. ASSUME NEW w \in Workers, NEW s \in Sources, CleanPublish(w, s) PROVE Old
  <2>1. \/ \E d \in chunks : c = d \/ c = [d EXCEPT !.eligible = FALSE]
        \/ \E d \in worker[w].old, t \in Rewrites : c = Cleaned(d, version[s] + 1, t)
    BY <1>4 DEF CleanPublish
  <2>2. ASSUME NEW d \in worker[w].old, NEW t \in Rewrites, c = Cleaned(d, version[s] + 1, t) PROVE FALSE
    <3>1. d \in Chunk /\ version[s] + 1 \in Nat \ {0}
      BY <1>1 DEF TypeOK, EvidenceOK
    <3> QED
      BY <2>2, <3>1, CleanedType
  <2>3. PICK d \in chunks : c = d \/ c = [d EXCEPT !.eligible = FALSE]
    BY <2>1, <2>2
  <2>4. d.kind = c.kind /\ d.source = c.source /\ d.text = c.text
    BY <1>1, <2>3 DEF Chunk
  <2> QED
    BY <2>4
<1>5. ASSUME NEW w \in Workers, NEW s \in Sources, NEW confident \in SUBSET Turns,
             AnalysisPublish(w, s, confident)
      PROVE  c \in chunks
  BY <1>5 DEF AnalysisPublish, Published, TurnChunks
<1>6. ASSUME NEW a \in Admins, NEW s \in Sources, TurnApprove(a, s), c \notin chunks
      PROVE  New
  <2>1. PICK v, T : T = {h.turn : h \in admin[a].picked} /\ chunks' = chunks \cup TurnChunks(s, v, T)
    BY <1>6 DEF TurnApprove
  <2>2. \A h \in admin[a].picked : h.source = s
    BY <1>6 DEF TurnApprove
  <2>3. c.source = s /\ c.text \in T
    BY <1>6, <2>1 DEF TurnChunks
  <2> QED
    BY <1>6, <2>1, <2>2, <2>3
<1> HIDE DEF Old, New
<1>7. CASE UNCHANGED chunks
  BY <1>2, <1>7
<1> QED
  BY <1>2, <1>3, <1>4, <1>5, <1>6, <1>7, ChunkWriters

LEMMA ReviewStep == ~AutoPublish /\ ReviewInv /\ [Next]_vars => ReviewInv'
<1> SUFFICES ASSUME ~AutoPublish, ReviewInv, [Next]_vars PROVE ReviewInv'
  OBVIOUS
<1>1. TypeOK /\ PickedStored /\ TurnsReviewed
  BY DEF ReviewInv
<1>2. PickedStored'
  <2> SUFFICES ASSUME NEW a \in Admins, NEW h \in admin'[a].picked
               PROVE  \E g \in suggestions' : SameKey(g, h)
    BY DEF PickedStored, SameKey
  <2>1. PICK f \in suggestions : SameKey(f, h)
    BY <1>1, PickedKept DEF PickedStored, SameKey
  <2>2. PICK g \in suggestions' : SameKey(g, f)
    BY <1>1, SuggestionsKept
  <2> QED
    BY <2>1, <2>2 DEF SameKey
<1>3. ASSUME NEW c \in chunks', c.kind = "turn"
      PROVE  \E g \in suggestions' : g.source = c.source /\ g.turn = c.text /\ g.reviewer = "admin"
  <2>1. CASE \E d \in chunks : d.kind = "turn" /\ d.source = c.source /\ d.text = c.text
    <3>1. PICK f \in suggestions : f.source = c.source /\ f.turn = c.text /\ f.reviewer = "admin"
      BY <1>1, <2>1 DEF TurnsReviewed
    <3>2. PICK g \in suggestions' : SameKey(g, f) /\ g.reviewer = "admin"
      BY <1>1, <3>1, SuggestionsKept
    <3> QED
      BY <3>1, <3>2 DEF SameKey
  <2>2. ASSUME NEW a \in Admins, NEW s \in Sources, TurnApprove(a, s), NEW h \in admin[a].picked,
               c.source = s, h.turn = c.text, h.source = s
        PROVE  \E g \in suggestions' : g.source = c.source /\ g.turn = c.text /\ g.reviewer = "admin"
    <3>1. PICK f \in suggestions : SameKey(f, h)
      BY <1>1 DEF PickedStored
    <3>2. Picked(a, f)
      BY <3>1 DEF Picked, SameKey
    <3> DEFINE g == [f EXCEPT !.status = "approved", !.reviewer = "admin", !.chunk = version[s] + 1]
    <3>3. g \in suggestions'
      BY <2>2, <3>2 DEF TurnApprove
    <3>4. f \in Suggestion
      BY <1>1 DEF TypeOK, EvidenceOK
    <3>5. g.source = c.source /\ g.turn = c.text /\ g.reviewer = "admin"
      BY <2>2, <3>1, <3>4 DEF SameKey, Suggestion
    <3> QED
      BY <3>3, <3>5
  <2> QED
    BY <1>1, <1>3, <2>1, <2>2, TurnChunkOrigins
<1> QED
  BY <1>1, <1>2, <1>3, TypeStep DEF ReviewInv, TurnsReviewed

\* While auto-publish is off, no turn is citable that no administrator has reviewed.
THEOREM AdminCorrect ==
    ASSUME ~AutoPublish
    PROVE  Spec => []TurnsApprovedByAdmin
<1>1. Init => ReviewInv
  <2> SUFFICES ASSUME Init PROVE ReviewInv
    OBVIOUS
  <2>1. PickedStored
    BY DEF Init, IdleAdmin, PickedStored
  <2>2. TurnsReviewed
    BY DEF Init, TurnsReviewed
  <2> QED
    BY <2>1, <2>2, TypeInit DEF ReviewInv
<1>2. ReviewInv /\ [Next]_vars => ReviewInv'
  BY ReviewStep
<1>3. ReviewInv => TurnsApprovedByAdmin
  BY DEF ReviewInv, TurnsReviewed, TurnsApprovedByAdmin, Citable
<1> QED
  BY <1>1, <1>2, <1>3, PTL DEF Spec

-----------------------------------------------------------------------------
(* The tasks implement JobLifeCycle.                                        *)

Statuses == [j \in JobIds |-> job[j].status]
Owned == [j \in JobIds |-> HasOwner(j)]

LEMMA MappedAfter ==
    /\ Statuses' = [j \in JobIds |-> job'[j].status]
    /\ Owned' = [j \in JobIds |-> HasOwner(j)']
BY DEF Statuses, Owned

LEMMA HasOwnerBoolean ==
    ASSUME NEW j \in JobIds
    PROVE  HasOwner(j) \in BOOLEAN /\ HasOwner(j)' \in BOOLEAN
BY DEF HasOwner

\* Whether j has an owner does not change when nothing that could own it does.
LEMMA OwnerSame ==
    ASSUME NEW j \in JobIds,
           queue'[j] > 0 <=> queue[j] > 0,
           \A w \in Workers : (worker'[w].pc # "idle" /\ worker'[w].job = j)
                                  <=> (worker[w].pc # "idle" /\ worker[w].job = j),
           \A r \in Requests : (request'[r].pc = "send" /\ request'[r].job = j)
                                  <=> (request[r].pc = "send" /\ request[r].job = j)
    PROVE  HasOwner(j)' <=> HasOwner(j)
BY DEF HasOwner

LEMMA OwnedSame ==
    ASSUME \A j \in JobIds : HasOwner(j)' <=> HasOwner(j)
    PROVE  Owned' = Owned
<1>1. \A j \in JobIds : HasOwner(j)' = HasOwner(j)
  BY HasOwnerBoolean
<1>2. Owned' = [j \in JobIds |-> HasOwner(j)']
  BY MappedAfter
<1>3. Owned = [j \in JobIds |-> HasOwner(j)]
  BY DEF Owned
<1> QED
  BY <1>1, <1>2, <1>3

LEMMA LifeStutters ==
    ASSUME UNCHANGED <<job, losses>>,
           \A j \in JobIds : HasOwner(j)' <=> HasOwner(j)
    PROVE  UNCHANGED Life!vars
<1>1. Statuses' = Statuses
  BY DEF Statuses
<1>2. Owned' = Owned
  BY OwnedSame
<1> QED
  BY <1>1, <1>2 DEF Life!vars, Owned, Statuses

LEMMA StatusSet ==
    ASSUME TypeOK, NEW i \in JobIds, NEW status, SetStatus(i, status)
    PROVE  Statuses' = [Statuses EXCEPT ![i] = status]
<1>1. job \in [JobIds -> Job] /\ job' = [job EXCEPT ![i].status = status]
  BY DEF TypeOK, JobsOK, SetStatus
<1>2. job'[i].status = status
  BY <1>1 DEF Job
<1>3. \A j \in JobIds : j # i => job'[j] = job[j]
  BY <1>1
<1>4. \A j \in JobIds : job'[j].status = IF j = i THEN status ELSE job[j].status
  BY <1>2, <1>3
<1> QED
  BY <1>4, MappedAfter DEF Statuses

\* One row starts or ends, and the other rows keep their owners.
LEMMA LifeMoves ==
    ASSUME TypeOK, NEW i \in JobIds, NEW status, SetStatus(i, status), HasOwner(i),
           \A j \in JobIds \ {i} : HasOwner(j)' <=> HasOwner(j),
           losses' = losses,
           \/ status = "running" /\ HasOwner(i)'
           \/ status \in {"succeeded", "failed"}
    PROVE  Life!Next
<1>1. Statuses' = [Statuses EXCEPT ![i] = status]
  BY StatusSet
<1>2. Owned' = [Owned EXCEPT ![i] = HasOwner(i)'] /\ Owned[i] = HasOwner(i)
  <2>1. \A j \in JobIds : j # i => HasOwner(j)' = HasOwner(j)
    BY HasOwnerBoolean
  <2>2. Owned' = [j \in JobIds |-> HasOwner(j)']
    BY MappedAfter
  <2>3. Owned = [j \in JobIds |-> HasOwner(j)]
    BY DEF Owned
  <2> QED
    BY <2>1, <2>2, <2>3
<1>3. HasOwner(i)' \in BOOLEAN /\ HasOwner(i) \in BOOLEAN
  BY HasOwnerBoolean
<1>4. CASE status = "running" /\ HasOwner(i)'
  <2>1. Owned' = Owned
    <3>1. \A j \in JobIds : HasOwner(j)' <=> HasOwner(j)
      BY <1>4
    <3> QED
      BY <3>1, OwnedSame
  <2>2. Life!Start(i)
    BY <1>1, <1>2, <1>4, <2>1 DEF Life!Start, Owned, Statuses
  <2> QED
    BY <2>2 DEF Life!Next
<1>5. CASE status \in {"succeeded", "failed"}
  <2>1. Life!End(i)
    BY <1>1, <1>2, <1>3, <1>5 DEF Life!End, Life!Ended, Owned, Statuses
  <2> QED
    BY <2>1 DEF Life!Next
<1> QED
  BY <1>4, <1>5

\* A process is lost with what it owned.
LEMMA LifeLoses ==
    ASSUME UNCHANGED job, losses' = losses + 1,
           \A j \in JobIds : HasOwner(j)' => HasOwner(j)
    PROVE  Life!Next
<1> DEFINE S == {j \in JobIds : HasOwner(j) /\ ~HasOwner(j)'}
<1>1. Statuses' = Statuses
  BY DEF Statuses
<1>2. Owned' = [j \in JobIds |-> j \notin S /\ Owned[j]] /\ \A j \in S : Owned[j]
  <2>1. \A j \in JobIds : Owned[j] = HasOwner(j) /\ HasOwner(j) \in BOOLEAN /\ HasOwner(j)' \in BOOLEAN
    BY DEF Owned, HasOwner
  <2>2. \A j \in JobIds : HasOwner(j)' = (j \notin S /\ Owned[j])
    BY <2>1
  <2> HIDE DEF S
  <2>3. Owned' = [j \in JobIds |-> j \notin S /\ Owned[j]]
    BY <2>2, MappedAfter
  <2>4. \A j \in S : Owned[j]
    BY <2>1 DEF S
  <2> QED
    BY <2>3, <2>4
<1>3. S \in SUBSET JobIds
  OBVIOUS
<1> HIDE DEF S
<1>4. Life!Lose(S)
  BY <1>1, <1>2 DEF Life!Lose, Owned, Statuses
<1> QED
  BY <1>3, <1>4 DEF Life!Next

\* The commit queues a row, and owns it.
LEMMA LifeOfCommit ==
    ASSUME TypeOK, NEW r \in Requests, NEW i \in JobIds, CommitJob(r, i)
    PROVE  Life!Next
<1>1. /\ request[r].pc = "commit" /\ UNCHANGED <<queue, worker, losses>>
      /\ request' = [request EXCEPT ![r].pc = "send", ![r].job = i]
      /\ job' = [job EXCEPT ![i] = [type |-> request[r].type, source |-> request[r].source,
                                    limit |-> request[r].limit, status |-> "queued"]]
  BY DEF CommitJob, bounds
<1>2. request \in [Requests -> RequestState] /\ job \in [JobIds -> Job]
  BY DEF TypeOK, RequestsOK, JobsOK
<1>3. /\ request'[r].pc = "send" /\ request'[r].job = i
      /\ \A q \in Requests : q # r => request'[q] = request[q]
  BY <1>1, <1>2 DEF RequestState
<1>4. \A j \in JobIds : HasOwner(j)' <=> (j = i \/ HasOwner(j))
  BY <1>1, <1>3 DEF HasOwner
<1>5. Owned' = [j \in JobIds |-> j \in {i} \/ Owned[j]]
  <2>1. \A j \in JobIds : HasOwner(j)' = (j \in {i} \/ Owned[j])
    BY <1>4 DEF Owned, HasOwner
  <2> QED
    BY <2>1, MappedAfter
<1>6. Statuses' = [j \in JobIds |-> IF j \in {i} THEN "queued" ELSE Statuses[j]]
  <2>1. \A j \in JobIds : job'[j].status = IF j \in {i} THEN "queued" ELSE Statuses[j]
    BY <1>1, <1>2 DEF Statuses
  <2> QED
    BY <2>1, MappedAfter
<1>7. Life!Queue({i})
  BY <1>1, <1>5, <1>6 DEF Life!Queue, Owned, Statuses
<1> QED
  BY <1>7 DEF Life!Next

\* One more message for i, which a request or a task that goes may have owned.
LEMMA MessageTakesOver ==
    ASSUME TypeOK, NEW i \in JobIds, queue' = [queue EXCEPT ![i] = @ + 1], HasOwner(i),
           \A j \in JobIds \ {i} :
              /\ \A w \in Workers : (worker'[w].pc # "idle" /\ worker'[w].job = j)
                                       <=> (worker[w].pc # "idle" /\ worker[w].job = j)
              /\ \A r \in Requests : (request'[r].pc = "send" /\ request'[r].job = j)
                                       <=> (request[r].pc = "send" /\ request[r].job = j)
    PROVE  \A j \in JobIds : HasOwner(j)' <=> HasOwner(j)
<1>1. queue \in [JobIds -> Nat]
  BY DEF TypeOK, JobsOK
<1>2. queue'[i] > 0
  BY <1>1
<1>3. HasOwner(i)'
  BY <1>2 DEF HasOwner
<1>4. ASSUME NEW j \in JobIds, j # i
      PROVE  HasOwner(j)' <=> HasOwner(j)
  <2>1. queue'[j] = queue[j]
    BY <1>1, <1>4
  <2> QED
    BY <1>4, <2>1, OwnerSame
<1> QED
  BY <1>3, <1>4

\* Steps of a request that do not commit.
LEMMA LifeOfRequest ==
    ASSUME TypeOK, NEW r \in Requests, Asking(r) \/ SendTask(r)
    PROVE  UNCHANGED Life!vars
<1>1. request \in [Requests -> RequestState]
  BY DEF TypeOK, RequestsOK
<1>2. ASSUME NEW type, NEW source, NEW limit, Ask(r, type, source, limit)
      PROVE  UNCHANGED Life!vars
  <2>1. /\ request'[r].pc = "commit" /\ request[r].pc = "idle"
        /\ \A q \in Requests : q # r => request'[q] = request[q]
        /\ UNCHANGED <<job, queue, worker, losses>>
    BY <1>1, <1>2 DEF Ask, bounds
  <2>2. \A j \in JobIds : HasOwner(j)' <=> HasOwner(j)
    BY <2>1, OwnerSame
  <2> QED
    BY <2>1, <2>2, LifeStutters
<1>3. CASE SendTask(r)
  <2>1. /\ request[r].pc = "send" /\ request' = [request EXCEPT ![r] = IdleRequest]
        /\ UNCHANGED <<job, worker, losses>>
    BY <1>3 DEF SendTask, bounds
  <2>2. request'[r].pc = "idle" /\ \A q \in Requests : q # r => request'[q] = request[q]
    BY <1>1, <2>1 DEF IdleRequest
  <2>3. request[r].job \in JobIds /\ HasOwner(request[r].job)
    BY <2>1 DEF TypeOK, RequestsOK, HasOwner
  <2>4. queue' = [queue EXCEPT ![request[r].job] = @ + 1]
    BY <1>3 DEF SendTask
  <2>5. \A j \in JobIds : HasOwner(j)' <=> HasOwner(j)
    BY <2>1, <2>2, <2>3, <2>4, MessageTakesOver
  <2> QED
    BY <2>1, <2>5, LifeStutters
<1> QED
  BY <1>2, <1>3 DEF Asking, RequestCleanup, RequestAnalysis

\* A task that stays with its job owns what it owned.
LEMMA OwnersOfTask ==
    ASSUME NEW w \in Workers, worker[w].pc # "idle", UNCHANGED <<queue, request>>,
           \A v \in Workers : v # w => worker'[v] = worker[v],
           worker'[w].pc # "idle", worker'[w].job = worker[w].job
    PROVE  \A j \in JobIds : HasOwner(j)' <=> HasOwner(j)
BY OwnerSame

\* A task that ends owned no other job.
LEMMA OwnersOfAck ==
    ASSUME TypeOK, NEW w \in Workers, worker[w].pc # "idle", UNCHANGED <<queue, request>>, Ack(w)
    PROVE  \A j \in JobIds \ {worker[w].job} : HasOwner(j)' <=> HasOwner(j)
<1>1. worker'[w].pc = "idle" /\ \A v \in Workers : v # w => worker'[v] = worker[v]
  BY DEF Ack, IdleWorker, TypeOK, WorkersOK
<1> QED
  BY <1>1, OwnerSame

LEMMA LifeOfStart ==
    ASSUME TypeOK, NEW w \in Workers, NEW i \in JobIds, StartCleanup(w, i) \/ StartAnalysis(w, i)
    PROVE  Life!Next
<1>1. /\ worker[w].pc = "idle" /\ queue[i] > 0 /\ queue' = [queue EXCEPT ![i] = @ - 1]
      /\ SetStatus(i, "running") /\ UNCHANGED <<request, losses>>
  BY DEF StartCleanup, StartAnalysis, Deliver, bounds
<1>2. worker \in [Workers -> WorkerState] /\ queue \in [JobIds -> Nat]
  BY DEF TypeOK, WorkersOK, JobsOK
<1>3. PICK task :
        worker' = [worker EXCEPT ![w] = task] /\ task.pc # "idle" /\ task.job = i
  <2>1. CASE StartCleanup(w, i)
    <3>1. \E todo \in SUBSET Cleanable :
            worker' = [worker EXCEPT ![w] = [IdleWorker EXCEPT !.pc = "cleanup", !.job = i, !.todo = todo]]
      BY <2>1, Zenon DEF StartCleanup
    <3>2. PICK todo :
            worker' = [worker EXCEPT ![w] = [IdleWorker EXCEPT !.pc = "cleanup", !.job = i, !.todo = todo]]
      BY <3>1
    <3> DEFINE begun == [IdleWorker EXCEPT !.pc = "cleanup", !.job = i, !.todo = todo]
    <3>3. begun.pc # "idle" /\ begun.job = i
      BY DEF IdleWorker
    <3>4. worker' = [worker EXCEPT ![w] = begun]
      BY <3>2
    <3> HIDE DEF begun
    <3> QED
      BY <3>3, <3>4, Zenon
  <2>2. CASE StartAnalysis(w, i)
    <3> DEFINE begun == [IdleWorker EXCEPT !.pc = "analysing", !.job = i, !.source = job[i].source]
    <3>1. begun.pc # "idle" /\ begun.job = i
      BY DEF IdleWorker
    <3>2. worker' = [worker EXCEPT ![w] = begun]
      BY <2>2 DEF StartAnalysis
    <3> HIDE DEF begun
    <3> QED
      BY <3>1, <3>2, Zenon
  <2> QED
    BY <2>1, <2>2
<1>4. worker'[w].pc # "idle" /\ worker'[w].job = i /\ \A v \in Workers : v # w => worker'[v] = worker[v]
  BY <1>2, <1>3
<1>5. HasOwner(i) /\ HasOwner(i)'
  BY <1>1, <1>4 DEF HasOwner
<1>6. \A j \in JobIds \ {i} : queue'[j] = queue[j]
  BY <1>1, <1>2
<1>7. \A j \in JobIds \ {i} : HasOwner(j)' <=> HasOwner(j)
  BY <1>1, <1>4, <1>6, OwnerSame
<1> QED
  BY <1>1, <1>5, <1>7, LifeMoves

LEMMA LifeOfTask ==
    ASSUME TypeOK, NEW w \in Workers, TaskStep(w) \/ TaskFails(w)
    PROVE  [Life!Next]_(Life!vars)
<1>1. /\ worker \in [Workers -> WorkerState] /\ worker[w] \in WorkerState
      /\ worker[w].pc # "idle" => worker[w].job \in JobIds /\ HasOwner(worker[w].job)
  BY DEF TypeOK, WorkersOK, HasOwner
<1>2. ASSUME NEW status \in {"succeeded", "failed"}, worker[w].pc # "idle",
             UNCHANGED <<losses, queue, request>>, SetStatus(worker[w].job, status), Ack(w)
      PROVE  Life!Next
  BY <1>1, <1>2, OwnersOfAck, LifeMoves
<1>3. CASE CleanEnd(w)
  BY <1>2, <1>3 DEF CleanEnd, bounds
<1>4. CASE TaskFails(w)
  BY <1>2, <1>4 DEF TaskFails, bounds
<1>5. ASSUME NEW s \in Sources, NEW confident \in SUBSET Turns, AnalysisPublish(w, s, confident)
      PROVE  Life!Next
  BY <1>2, <1>5 DEF AnalysisPublish
<1>6. ASSUME NEW s \in Sources, CleanRead(w, s) \/ CleanPublish(w, s)
      PROVE  UNCHANGED Life!vars
  <2>1. worker[w].pc # "idle" /\ UNCHANGED <<job, losses, queue, request>>
    BY <1>6 DEF CleanRead, CleanPublish, bounds
  <2>2. /\ \A v \in Workers : v # w => worker'[v] = worker[v]
        /\ worker'[w].pc # "idle" /\ worker'[w].job = worker[w].job
    <3>1. CASE CleanRead(w, s)
      BY <1>1, <3>1 DEF CleanRead, WorkerState
    <3>2. CASE CleanPublish(w, s)
      BY <1>1, <3>2 DEF CleanPublish, WorkerState
    <3> QED
      BY <1>6, <3>1, <3>2
  <2>3. \A j \in JobIds : HasOwner(j)' <=> HasOwner(j)
    BY <2>1, <2>2, OwnersOfTask
  <2> QED
    BY <2>1, <2>3, LifeStutters
<1> QED
  BY <1>3, <1>4, <1>5, <1>6, LifeOfStart DEF TaskStep

LEMMA LifeOfRepeat ==
    ASSUME TypeOK, NEW w \in Workers, Redeliver(w) \/ WorkerDies(w)
    PROVE  UNCHANGED Life!vars
<1>1. worker[w].pc # "idle" /\ worker[w].job \in JobIds /\ HasOwner(worker[w].job)
  BY DEF Redeliver, WorkerDies, TypeOK, WorkersOK, HasOwner
<1>2. /\ queue' = [queue EXCEPT ![worker[w].job] = @ + 1] /\ UNCHANGED <<job, losses, request>>
      /\ UNCHANGED worker \/ Ack(w)
  BY DEF Redeliver, WorkerDies
<1>3. ASSUME NEW j \in JobIds \ {worker[w].job}, NEW v \in Workers
      PROVE  (worker'[v].pc # "idle" /\ worker'[v].job = j)
                 <=> (worker[v].pc # "idle" /\ worker[v].job = j)
  <2>1. CASE UNCHANGED worker
    BY <2>1
  <2>2. CASE Ack(w)
    BY <1>3, <2>2 DEF Ack, IdleWorker, TypeOK, WorkersOK
  <2> QED
    BY <1>2, <2>1, <2>2
<1>4. \A j \in JobIds : HasOwner(j)' <=> HasOwner(j)
  BY <1>1, <1>2, <1>3, MessageTakesOver
<1> QED
  BY <1>2, <1>4, LifeStutters

LEMMA LifeOfLoss ==
    ASSUME TypeOK, \/ \E w \in Workers : ChildKilled(w)
                   \/ \E r \in Requests : SendFails(r)
    PROVE  Life!Next
<1>1. ASSUME NEW w \in Workers, ChildKilled(w)
      PROVE  Life!Next
  <2>1. worker[w].pc # "idle" /\ Ack(w) /\ UNCHANGED <<job, queue, request>> /\ losses' = losses + 1
    BY <1>1 DEF ChildKilled
  <2>2. worker[w].job \in JobIds /\ HasOwner(worker[w].job)
    BY <2>1 DEF TypeOK, WorkersOK, HasOwner
  <2>3. \A j \in JobIds : HasOwner(j)' => HasOwner(j)
    BY <2>1, <2>2, OwnersOfAck
  <2> QED
    BY <2>1, <2>3, LifeLoses
<1>2. ASSUME NEW r \in Requests, SendFails(r)
      PROVE  Life!Next
  <2>1. /\ request' = [request EXCEPT ![r] = IdleRequest] /\ losses' = losses + 1
        /\ UNCHANGED <<job, queue, worker>>
    BY <1>2 DEF SendFails
  <2>2. request'[r].pc = "idle" /\ \A q \in Requests : q # r => request'[q] = request[q]
    BY <2>1 DEF TypeOK, RequestsOK, IdleRequest
  <2>3. \A j \in JobIds : HasOwner(j)' => HasOwner(j)
    BY <2>1, <2>2 DEF HasOwner
  <2> QED
    BY <2>1, <2>3, LifeLoses
<1> QED
  BY <1>1, <1>2

LEMMA LifeStep == TypeOK /\ [Next]_vars => [Life!Next]_(Life!vars)
<1> SUFFICES ASSUME TypeOK, [Next]_vars PROVE [Life!Next]_(Life!vars)
  OBVIOUS
<1>1. CASE UNCHANGED <<job, losses, queue, worker, request>>
  <2>1. \A j \in JobIds : HasOwner(j)' <=> HasOwner(j)
    BY <1>1, OwnerSame
  <2> QED
    BY <1>1, <2>1, LifeStutters
<1>2. ASSUME NEW S \in SUBSET Sources, NEW decision \in Decisions, SpeakerReview(S, decision)
      PROVE  UNCHANGED <<job, losses, queue, worker, request>>
  BY <1>2 DEF SpeakerReview
<1>3. ASSUME NEW a \in Admins, TurnReviewStep(a)
      PROVE  UNCHANGED <<job, losses, queue, worker, request>>
  BY <1>3 DEF TurnReviewStep, TurnReviewRead, TurnReject, TurnApprove, TurnReviewFails, bounds
<1>4. ASSUME NEW r \in Requests, Asking(r) \/ RequestStep(r) \/ SendFails(r)
      PROVE  [Life!Next]_(Life!vars)
  BY <1>4, LifeOfRequest, LifeOfCommit, LifeOfLoss DEF RequestStep
<1>5. ASSUME NEW w \in Workers, TaskStep(w) \/ Fault(w)
      PROVE  [Life!Next]_(Life!vars)
  BY <1>5, LifeOfTask, LifeOfRepeat, LifeOfLoss DEF Fault
<1>6. UNCHANGED vars => UNCHANGED <<job, losses, queue, worker, request>>
  BY DEF vars
<1> QED
  BY <1>1, <1>2, <1>3, <1>4, <1>5, <1>6 DEF Next

\* Cleanup and analysis jobs implement the abstract life of a row: JobLifeCycle.
THEOREM LifeCorrect == Spec => TasksFollowLifeCycle
<1>1. Init => Life!Init
  <2> SUFFICES ASSUME Init PROVE Life!Init
    OBVIOUS
  <2>1. \A j \in JobIds : ~HasOwner(j)
    BY DEF Init, HasOwner, IdleRequest, IdleWorker
  <2>2. Statuses = [j \in JobIds |-> "absent"]
    BY DEF Init, Statuses
  <2>3. \A j \in JobIds : HasOwner(j) = FALSE
    BY <2>1, HasOwnerBoolean
  <2>4. Owned = [j \in JobIds |-> FALSE]
    BY <2>3 DEF Owned
  <2> QED
    BY <2>2, <2>4 DEF Life!Init, Init, Owned, Statuses
<1> QED
  BY <1>1, LifeStep, TypeCorrect, PTL DEF Spec, TasksFollowLifeCycle, Life!Spec

-----------------------------------------------------------------------------
(* A passage can be cited once, as long as nothing is repeated.             *)

AtWork(w, j) == worker[w].pc # "idle" /\ worker[w].job = j
Sending(r, j) == request[r].pc = "send" /\ request[r].job = j

\* One message, task or request acts on a job, and it is active.
OneOwner(j) ==
    /\ queue[j] <= 1
    /\ queue[j] > 0 => ~\E w \in Workers : AtWork(w, j)
    /\ queue[j] > 0 => ~\E r \in Requests : Sending(r, j)
    /\ \A v, w \in Workers : AtWork(v, j) /\ AtWork(w, j) => v = w
    /\ \A w \in Workers, r \in Requests : ~(AtWork(w, j) /\ Sending(r, j))
    /\ HasOwner(j) => job[j].status \in Active

ActiveCleanup(j) == job[j].type = "cleanup" /\ job[j].status \in Active

\* One cleanup at a time.
OneCleanup ==
    /\ \A i, j \in JobIds : ActiveCleanup(i) /\ ActiveCleanup(j) => i = j
    /\ \A r \in Requests : request[r].pc = "commit" /\ request[r].type = "cleanup" =>
          ~\E j \in JobIds : ActiveCleanup(j)
    /\ \A w \in Workers : worker[w].pc \in {"cleanup", "cleaning"} => job[worker[w].job].type = "cleanup"

\* What a cleanup has read can still be cited when it publishes.
ReadCurrent ==
    \A w \in Workers :
        /\ \A c \in worker[w].old : c \in Citable /\ c.kind = "raw"
        /\ worker[w].old # {} => worker[w].pc = "cleaning"

SameOrigin(c, d) == c.source = d.source /\ c.origin = d.origin

\* Before the review there is one chunk of each passage, and it is not citable.
RawBefore ==
    reviews = 0 =>
        /\ \A c \in chunks : c.kind = "raw" => ~c.eligible
        /\ \A c, d \in chunks : SameOrigin(c, d) /\ c.origin \in Passages => c = d

Quiet == Cardinality(Requests) = 1 /\ repeats = 0 /\ reviews <= 1

OneCopy == \A c, d \in Citable : SameOrigin(c, d) /\ c.origin \in Passages => c = d

Unrepeated ==
    /\ \A j \in JobIds : OneOwner(j)
    /\ OneCleanup
    /\ ReadCurrent
    /\ RawBefore
    /\ OneCopy

OnceInv == TypeOK /\ (Quiet => Unrepeated)

LEMMA OneRequest ==
    ASSUME Quiet, NEW r \in Requests, NEW q \in Requests
    PROVE  r = q
<1>1. IsFiniteSet(Requests)
  BY FiniteAssumption
<1>2. PICK x : Requests = {x}
  BY <1>1, FS_Singleton DEF Quiet
<1> QED
  BY <1>2

\* While it is quiet no delivery is repeated, and the one speaker review is the first.
LEMMA QuietBefore ==
    ASSUME TypeOK, [Next]_vars, Quiet'
    PROVE  /\ Quiet
           /\ \A w \in Workers : ~Redeliver(w)
           /\ \/ UNCHANGED reviews
              \/ /\ reviews = 0 /\ reviews' = 1
                 /\ \E S \in SUBSET Sources, decision \in Decisions : SpeakerReview(S, decision)
<1>1. reviews \in Nat /\ repeats \in Nat
  BY DEF TypeOK, BoundsOK
<1>2. repeats' = 0 /\ reviews' <= 1 /\ Cardinality(Requests) = 1
  BY DEF Quiet
<1>3. \A w \in Workers : ~Redeliver(w)
  BY <1>1, <1>2 DEF Redeliver
<1>4. ASSUME NEW S \in SUBSET Sources, NEW decision \in Decisions, SpeakerReview(S, decision)
      PROVE  reviews' = reviews + 1 /\ UNCHANGED repeats
  BY <1>4 DEF SpeakerReview
<1>5. ASSUME NEW r \in Requests, Asking(r) \/ RequestStep(r) \/ SendFails(r) PROVE UNCHANGED <<reviews, repeats>>
  BY <1>5 DEF Asking, RequestCleanup, RequestAnalysis, Ask, RequestStep, CommitJob, SendTask, SendFails, bounds
<1>6. ASSUME NEW w \in Workers, Fault(w) PROVE UNCHANGED <<reviews, repeats>>
  BY <1>3, <1>6 DEF Fault, TaskFails, WorkerDies, ChildKilled, bounds
<1>7. ASSUME NEW w \in Workers, TaskStep(w) PROVE UNCHANGED <<reviews, repeats>>
  BY <1>7 DEF TaskStep, StartCleanup, StartAnalysis, CleanRead, CleanPublish, AnalysisPublish, CleanEnd, bounds
<1>8. ASSUME NEW a \in Admins, TurnReviewStep(a) PROVE UNCHANGED <<reviews, repeats>>
  BY <1>8 DEF TurnReviewStep, TurnReviewRead, TurnReject, TurnApprove, TurnReviewFails, bounds
<1>9. CASE UNCHANGED vars
  BY <1>2, <1>3, <1>9 DEF vars, Quiet
<1>10. CASE Next
  <2>1. \/ UNCHANGED <<reviews, repeats>>
        \/ /\ reviews' = reviews + 1 /\ UNCHANGED repeats
           /\ \E S \in SUBSET Sources, decision \in Decisions : SpeakerReview(S, decision)
    BY <1>4, <1>5, <1>6, <1>7, <1>8, <1>10 DEF Next
  <2> QED
    BY <1>1, <1>2, <1>3, <2>1 DEF Quiet
<1> QED
  BY <1>9, <1>10

LEMMA OwnersOfRequest ==
    ASSUME TypeOK, Quiet, \A j \in JobIds : OneOwner(j),
           NEW r \in Requests, Asking(r) \/ RequestStep(r) \/ SendFails(r), NEW j \in JobIds
    PROVE  OneOwner(j)'
<1>1. /\ request \in [Requests -> RequestState] /\ job \in [JobIds -> Job] /\ queue \in [JobIds -> Nat]
      /\ OneOwner(j)
  BY DEF TypeOK, RequestsOK, JobsOK
<1>2. \A q \in Requests : q = r
  BY OneRequest
<1>3. CASE Asking(r)
  <2>1. UNCHANGED <<job, queue, worker>> /\ request'[r].pc = "commit"
    BY <1>1, <1>3 DEF Asking, RequestCleanup, RequestAnalysis, Ask
  <2>2. \A x \in Requests : ~Sending(x, j)'
    BY <1>2, <2>1 DEF Sending
  <2> QED
    BY <1>1, <2>1, <2>2 DEF OneOwner, AtWork, HasOwner, Sending
<1>4. ASSUME NEW i \in JobIds, CommitJob(r, i) PROVE OneOwner(j)'
  <2>1. /\ request'[r].pc = "send" /\ request'[r].job = i /\ request[r].pc = "commit"
        /\ UNCHANGED <<queue, worker>>
        /\ job[i].status = "absent" /\ job'[i].status = "queued"
        /\ j # i => job'[j] = job[j]
    BY <1>1, <1>4 DEF CommitJob, RequestState
  <2>2. \A x \in Requests : Sending(x, j)' => j = i
    BY <1>2, <2>1 DEF Sending
  <2>3. CASE i = j
    <3>1. ~HasOwner(j)
      BY <1>1, <2>1, <2>3 DEF OneOwner, Active
    <3> QED
      BY <1>1, <2>1, <2>3, <3>1 DEF OneOwner, AtWork, HasOwner, Sending, Active
  <2>4. CASE i # j
    <3>1. \A x \in Requests : ~Sending(x, j)'
      BY <2>2, <2>4
    <3> QED
      BY <1>1, <2>1, <2>4, <3>1 DEF OneOwner, AtWork, HasOwner, Sending, Active
  <2> QED
    BY <2>3, <2>4
<1>5. ASSUME SendTask(r) \/ SendFails(r)
      PROVE  /\ request[r].pc = "send" /\ request[r].job \in JobIds
             /\ UNCHANGED <<job, worker>>
             /\ \A x \in Requests : ~Sending(x, j)'
  <2>1. request'[r] = IdleRequest
    BY <1>1, <1>5 DEF SendTask, SendFails
  <2> QED
    BY <1>2, <1>5, <2>1, IdleRequestType DEF SendTask, SendFails, Sending, TypeOK, RequestsOK
<1>6. CASE SendTask(r)
  <2>1. queue'[j] = IF request[r].job = j THEN queue[j] + 1 ELSE queue[j]
    BY <1>1, <1>5, <1>6 DEF SendTask
  <2>2. CASE request[r].job = j
    <3>1. Sending(r, j) /\ HasOwner(j)
      BY <1>5, <1>6, <2>2 DEF Sending, HasOwner
    <3>2. queue[j] = 0 /\ (\A w \in Workers : ~AtWork(w, j)) /\ job[j].status \in Active
      BY <1>1, <3>1 DEF OneOwner
    <3>3. queue'[j] = 1
      BY <2>1, <2>2, <3>2
    <3> QED
      BY <1>5, <1>6, <3>2, <3>3 DEF OneOwner, AtWork, HasOwner, Sending
  <2>3. CASE request[r].job # j
    <3>1. queue'[j] = queue[j]
      BY <2>1, <2>3
    <3> QED
      BY <1>1, <1>5, <1>6, <3>1 DEF OneOwner, AtWork, HasOwner, Sending
  <2> QED
    BY <2>2, <2>3
<1>7. CASE SendFails(r)
  <2>1. UNCHANGED queue
    BY <1>7 DEF SendFails
  <2> QED
    BY <1>1, <1>5, <1>7, <2>1 DEF OneOwner, AtWork, HasOwner, Sending
<1> QED
  BY <1>3, <1>4, <1>6, <1>7 DEF RequestStep

\* A delivery moves the one owner of its job from the queue to a worker.
LEMMA OwnersOfDelivery ==
    ASSUME TypeOK, \A i \in JobIds : OneOwner(i), NEW w \in Workers, NEW i \in JobIds, Deliver(w, i),
           NEW q \in WorkerState, q.pc # "idle", q.job = i, worker' = [worker EXCEPT ![w] = q],
           UNCHANGED request, NEW j \in JobIds
    PROVE  OneOwner(j)'
<1>1. /\ worker \in [Workers -> WorkerState] /\ job \in [JobIds -> Job] /\ queue \in [JobIds -> Nat]
      /\ OneOwner(j)
  BY DEF TypeOK, WorkersOK, JobsOK
<1>2. worker[w].pc = "idle" /\ queue[i] > 0 /\ job'[i].status = "running" /\ queue'[i] = queue[i] - 1
  BY <1>1 DEF Deliver, SetStatus, Job
<1>3. CASE i = j
  <2>1. /\ queue[j] = 1
        /\ \A v \in Workers : ~AtWork(v, j)
        /\ \A r \in Requests : ~Sending(r, j)
    BY <1>1, <1>2, <1>3 DEF OneOwner
  <2>2. queue'[j] = 0
    BY <1>2, <1>3, <2>1
  <2>3. \A v \in Workers : AtWork(v, j)' => v = w
    BY <1>1, <2>1 DEF AtWork
  <2> QED
    BY <1>2, <1>3, <2>1, <2>2, <2>3 DEF OneOwner, Sending, Active
<1>4. CASE i # j
  <2>1. job'[j] = job[j] /\ queue'[j] = queue[j]
    BY <1>1, <1>4 DEF Deliver, SetStatus
  <2>2. \A v \in Workers : AtWork(v, j)' <=> AtWork(v, j)
    BY <1>1, <1>2, <1>4 DEF AtWork
  <2> QED
    BY <1>1, <2>1, <2>2 DEF OneOwner, Sending, HasOwner, AtWork
<1> QED
  BY <1>3, <1>4

\* A worker lets its job go: it ends the job, gives the message back, or loses both.
LEMMA OwnersOfRelease ==
    ASSUME TypeOK, \A i \in JobIds : OneOwner(i), NEW w \in Workers, worker[w].pc # "idle",
           NEW i \in JobIds, i = worker[w].job, Ack(w), UNCHANGED request, NEW j \in JobIds,
           \/ /\ UNCHANGED queue
              /\ \A k \in JobIds : k # i => job'[k] = job[k]
           \/ /\ queue' = [queue EXCEPT ![i] = @ + 1]
              /\ UNCHANGED job
    PROVE  OneOwner(j)'
<1>1. /\ worker \in [Workers -> WorkerState] /\ queue \in [JobIds -> Nat] /\ OneOwner(j) /\ OneOwner(i)
  BY DEF TypeOK, WorkersOK, JobsOK
<1>2. AtWork(w, i) /\ HasOwner(i)
  BY DEF AtWork, HasOwner
<1>3. /\ queue[i] = 0 /\ job[i].status \in Active
      /\ \A v \in Workers : AtWork(v, i) => v = w
      /\ \A r \in Requests : ~Sending(r, i)
  BY <1>1, <1>2 DEF OneOwner
<1>4. worker'[w].pc = "idle" /\ \A v \in Workers : v # w => worker'[v] = worker[v]
  BY <1>1 DEF Ack, IdleWorker
<1>5. CASE i = j
  <2>1. (\A v \in Workers : ~AtWork(v, j)') /\ \A r \in Requests : ~Sending(r, j)'
    BY <1>3, <1>4, <1>5 DEF AtWork, Sending
  <2>2. queue'[j] = 0 \/ (queue'[j] = 1 /\ job'[j].status \in Active)
    <3>1. ASSUME UNCHANGED queue PROVE queue'[j] = 0
      <4>1. queue'[j] = queue[j]
        BY <3>1
      <4> QED
        BY <1>3, <1>5, <4>1
    <3>2. CASE queue' = [queue EXCEPT ![i] = @ + 1] /\ UNCHANGED job
      <4>1. queue'[j] = queue[j] + 1
        BY <1>1, <1>5, <3>2
      <4> QED
        BY <1>3, <1>5, <3>2, <4>1
    <3> QED
      BY <3>1, <3>2
  <2> QED
    BY <2>1, <2>2 DEF OneOwner, HasOwner, AtWork, Sending
<1>6. CASE i # j
  <2>1. job'[j] = job[j] /\ queue'[j] = queue[j]
    BY <1>1, <1>6
  <2>2. \A v \in Workers : AtWork(v, j)' <=> AtWork(v, j)
    BY <1>4, <1>6 DEF AtWork
  <2> QED
    BY <1>1, <2>1, <2>2 DEF OneOwner, Sending, HasOwner, AtWork
<1> QED
  BY <1>5, <1>6

LEMMA OwnersOfTasks ==
    ASSUME TypeOK, \A i \in JobIds : OneOwner(i), NEW w \in Workers, TaskStep(w) \/ Fault(w), ~Redeliver(w),
           NEW j \in JobIds
    PROVE  OneOwner(j)'
<1>1. /\ worker \in [Workers -> WorkerState] /\ worker[w] \in WorkerState
      /\ worker[w].pc # "idle" => worker[w].job \in JobIds
      /\ job \in [JobIds -> Job]
  BY DEF TypeOK, WorkersOK, JobsOK
<1>2. ASSUME NEW i \in JobIds, StartCleanup(w, i) PROVE OneOwner(j)'
  <2>1. PICK todo \in SUBSET Sources :
          worker' = [worker EXCEPT ![w] = [IdleWorker EXCEPT !.pc = "cleanup", !.job = i, !.todo = todo]]
    BY <1>2 DEF StartCleanup, Cleanable
  <2> DEFINE q == [IdleWorker EXCEPT !.pc = "cleanup", !.job = i, !.todo = todo]
  <2>2. q \in WorkerState /\ q.pc # "idle" /\ q.job = i
    BY DEF IdleWorker, WorkerState
  <2>3. worker' = [worker EXCEPT ![w] = q]
    BY <2>1
  <2> HIDE DEF q
  <2> QED
    BY <1>2, <2>2, <2>3, OwnersOfDelivery DEF StartCleanup
<1>3. ASSUME NEW i \in JobIds, StartAnalysis(w, i) PROVE OneOwner(j)'
  <2> DEFINE q == [IdleWorker EXCEPT !.pc = "analysing", !.job = i, !.source = job[i].source]
  <2>1. q \in WorkerState /\ q.pc # "idle" /\ q.job = i
    BY <1>1 DEF IdleWorker, WorkerState, Job
  <2>2. worker' = [worker EXCEPT ![w] = q]
    BY <1>3 DEF StartAnalysis
  <2> HIDE DEF q
  <2> QED
    BY <1>3, <2>1, <2>2, OwnersOfDelivery DEF StartAnalysis
<1>4. ASSUME NEW s \in Sources, CleanRead(w, s) \/ CleanPublish(w, s) PROVE OneOwner(j)'
  <2>1. UNCHANGED <<job, queue, request>>
    BY <1>4 DEF CleanRead, CleanPublish
  <2>2. \A v \in Workers : AtWork(v, j)' <=> AtWork(v, j)
    <3>1. worker'[w].job = worker[w].job /\ worker'[w].pc # "idle" /\ worker[w].pc # "idle"
      <4>1. CASE CleanRead(w, s) /\ RawEligible(s) = {}
        BY <1>1, <4>1 DEF CleanRead, WorkerState
      <4>2. CASE CleanRead(w, s) /\ RawEligible(s) # {}
        BY <1>1, <4>2 DEF CleanRead, WorkerState
      <4>3. CASE CleanPublish(w, s)
        BY <1>1, <4>3 DEF CleanPublish, WorkerState
      <4> QED
        BY <1>4, <4>1, <4>2, <4>3
    <3>2. \A v \in Workers : v # w => worker'[v] = worker[v]
      BY <1>1, <1>4 DEF CleanRead, CleanPublish
    <3> QED
      BY <3>1, <3>2 DEF AtWork
  <2> QED
    BY <2>1, <2>2 DEF OneOwner, Sending, HasOwner, AtWork
<1>5. ASSUME NEW status, worker[w].pc # "idle", SetStatus(worker[w].job, status), Ack(w), UNCHANGED <<queue, request>>
      PROVE  OneOwner(j)'
  <2>1. PICK i \in JobIds : i = worker[w].job
    BY <1>1, <1>5
  <2>2. \A k \in JobIds : k # i => job'[k] = job[k]
    BY <1>1, <1>5, <2>1 DEF SetStatus
  <2> QED
    BY <1>5, <2>1, <2>2, OwnersOfRelease
<1>6. CASE CleanEnd(w) \/ TaskFails(w)
  BY <1>5, <1>6 DEF CleanEnd, TaskFails
<1>7. ASSUME NEW s \in Sources, NEW confident \in SUBSET Turns, AnalysisPublish(w, s, confident)
      PROVE  OneOwner(j)'
  BY <1>5, <1>7 DEF AnalysisPublish
<1>8. CASE WorkerDies(w) \/ ChildKilled(w)
  <2>1. PICK i \in JobIds : i = worker[w].job
    BY <1>1, <1>8 DEF WorkerDies, ChildKilled
  <2>2. /\ worker[w].pc # "idle" /\ Ack(w) /\ UNCHANGED <<job, request>>
        /\ UNCHANGED queue \/ queue' = [queue EXCEPT ![i] = @ + 1]
    BY <1>8, <2>1 DEF WorkerDies, ChildKilled
  <2> QED
    BY <2>1, <2>2, OwnersOfRelease
<1> QED
  BY <1>2, <1>3, <1>4, <1>6, <1>7, <1>8 DEF TaskStep, Fault

LEMMA OneOwnerStep ==
    ASSUME TypeOK, [Next]_vars, Quiet', \A i \in JobIds : OneOwner(i), NEW j \in JobIds
    PROVE  OneOwner(j)'
<1>1. Quiet /\ \A w \in Workers : ~Redeliver(w)
  BY QuietBefore
<1>2. ASSUME UNCHANGED <<job, queue, worker, request>> PROVE OneOwner(j)'
  BY <1>2 DEF OneOwner, Sending, HasOwner, AtWork
<1>3. ASSUME NEW S \in SUBSET Sources, NEW decision \in Decisions, SpeakerReview(S, decision)
      PROVE  UNCHANGED <<job, queue, worker, request>>
  BY <1>3 DEF SpeakerReview
<1>4. ASSUME NEW a \in Admins, TurnReviewStep(a) PROVE UNCHANGED <<job, queue, worker, request>>
  BY <1>4 DEF TurnReviewStep, TurnReviewRead, TurnReject, TurnApprove, TurnReviewFails
<1>5. CASE UNCHANGED vars
  BY <1>2, <1>5 DEF vars
<1>6. CASE Next
  BY <1>1, <1>2, <1>3, <1>4, <1>6, OwnersOfRequest, OwnersOfTasks DEF Next
<1> QED
  BY <1>5, <1>6

\* The row of a job with no owner is queued; otherwise no step makes a job active
\* or gives it another type.
LEMMA JobMoves ==
    ASSUME TypeOK, [Next]_vars, NEW i \in JobIds, OneOwner(i)
    PROVE  \/ \E r \in Requests : CommitJob(r, i)
           \/ job'[i].type = job[i].type /\ (job'[i].status \in Active => job[i].status \in Active)
<1> DEFINE Kept == job'[i].type = job[i].type /\ (job'[i].status \in Active => job[i].status \in Active)
<1> SUFFICES ASSUME ~\E r \in Requests : CommitJob(r, i) PROVE Kept
  OBVIOUS
<1>1. job \in [JobIds -> Job] /\ worker \in [Workers -> WorkerState]
  BY DEF TypeOK, JobsOK, WorkersOK
<1>2. CASE UNCHANGED job
  BY <1>2
<1>3. ASSUME NEW j \in JobIds, NEW status, SetStatus(j, status),
             status \in Active /\ i = j => job[i].status \in Active
      PROVE  Kept
  <2>1. CASE i = j
    BY <1>1, <1>3, <2>1 DEF SetStatus, Job
  <2>2. CASE i # j
    BY <1>1, <1>3, <2>2 DEF SetStatus, Job
  <2> QED
    BY <2>1, <2>2
<1>4. ASSUME NEW r \in Requests, RequestStep(r) PROVE Kept
  <2>1. ASSUME NEW j \in JobIds, CommitJob(r, j) PROVE Kept
    <3>1. i # j
      BY <2>1
    <3>2. job'[i] = job[i]
      BY <1>1, <2>1, <3>1 DEF CommitJob
    <3> QED
      BY <3>2
  <2>2. CASE SendTask(r)
    BY <1>2, <2>2 DEF SendTask
  <2> QED
    BY <1>4, <2>1, <2>2 DEF RequestStep
<1>5. ASSUME NEW r \in Requests, Asking(r) \/ SendFails(r) PROVE UNCHANGED job
  BY <1>5 DEF Asking, RequestCleanup, RequestAnalysis, Ask, SendFails
<1>6. ASSUME NEW w \in Workers, NEW j \in JobIds, StartCleanup(w, j) \/ StartAnalysis(w, j) PROVE Kept
  <2>1. SetStatus(j, "running") /\ queue[j] > 0
    BY <1>6 DEF StartCleanup, StartAnalysis, Deliver
  <2>2. i = j => job[i].status \in Active
    BY <2>1 DEF OneOwner, HasOwner
  <2> QED
    BY <1>3, <2>1, <2>2
<1>7. ASSUME NEW w \in Workers, worker[w].pc # "idle",
             SetStatus(worker[w].job, "succeeded") \/ SetStatus(worker[w].job, "failed")
      PROVE  Kept
  <2>1. worker[w].job \in JobIds
    BY <1>7 DEF TypeOK, WorkersOK
  <2>2. "succeeded" \notin Active /\ "failed" \notin Active
    BY DEF Active
  <2> QED
    BY <1>3, <1>7, <2>1, <2>2
<1>8. ASSUME NEW w \in Workers, CleanEnd(w) \/ TaskFails(w) PROVE Kept
  BY <1>7, <1>8 DEF CleanEnd, TaskFails
<1>9. ASSUME NEW w \in Workers, NEW s \in Sources, NEW confident \in SUBSET Turns,
             AnalysisPublish(w, s, confident)
      PROVE  Kept
  BY <1>7, <1>9 DEF AnalysisPublish
<1>10. ASSUME NEW w \in Workers, NEW s \in Sources, CleanRead(w, s) \/ CleanPublish(w, s) PROVE UNCHANGED job
  BY <1>10 DEF CleanRead, CleanPublish
<1>11. ASSUME NEW w \in Workers, Redeliver(w) \/ WorkerDies(w) \/ ChildKilled(w) PROVE UNCHANGED job
  BY <1>11 DEF Redeliver, WorkerDies, ChildKilled
<1>12. ASSUME NEW a \in Admins, TurnReviewStep(a) PROVE UNCHANGED job
  BY <1>12 DEF TurnReviewStep, TurnReviewRead, TurnReject, TurnApprove, TurnReviewFails
<1>13. ASSUME NEW S \in SUBSET Sources, NEW decision \in Decisions, SpeakerReview(S, decision)
       PROVE  UNCHANGED job
  BY <1>13 DEF SpeakerReview
<1>14. CASE UNCHANGED vars
  BY <1>2, <1>14 DEF vars
<1> HIDE DEF Kept
<1>15. ASSUME NEW w \in Workers, TaskStep(w) PROVE Kept
  BY <1>2, <1>6, <1>8, <1>9, <1>10, <1>15 DEF TaskStep
<1>16. ASSUME NEW w \in Workers, Fault(w) PROVE Kept
  BY <1>2, <1>8, <1>11, <1>16 DEF Fault
<1> QED
  BY <1>2, <1>4, <1>5, <1>12, <1>13, <1>14, <1>15, <1>16 DEF Next

\* A worker cleans because it has begun a cleanup, and until it lets go of it.
LEMMA CleaningSince ==
    ASSUME TypeOK, [Next]_vars, NEW w \in Workers, worker'[w].pc \in {"cleanup", "cleaning"}
    PROVE  \/ worker[w].pc \in {"cleanup", "cleaning"} /\ worker'[w].job = worker[w].job
           \/ worker'[w].job \in JobIds /\ StartCleanup(w, worker'[w].job)
<1> DEFINE Since ==
           \/ worker[w].pc \in {"cleanup", "cleaning"} /\ worker'[w].job = worker[w].job
           \/ worker'[w].job \in JobIds /\ StartCleanup(w, worker'[w].job)
<1> SUFFICES Since
  OBVIOUS
<1>1. worker \in [Workers -> WorkerState] /\ worker[w] \in WorkerState
  BY DEF TypeOK, WorkersOK
<1>2. CASE worker'[w] = worker[w]
  BY <1>2
<1>3. ASSUME NEW v \in Workers, Ack(v) PROVE Since
  BY <1>1, <1>3 DEF Ack, IdleWorker
<1>4. ASSUME NEW v \in Workers, NEW j \in JobIds, StartCleanup(v, j) PROVE Since
  <2>1. PICK todo : worker' = [worker EXCEPT ![v] = [IdleWorker EXCEPT !.pc = "cleanup", !.job = j, !.todo = todo]]
    BY <1>4 DEF StartCleanup
  <2>2. CASE v = w
    <3>1. worker'[w].job = j
      BY <1>1, <2>1, <2>2 DEF IdleWorker
    <3> QED
      BY <1>4, <2>2, <3>1
  <2>3. CASE v # w
    BY <1>1, <1>2, <2>1, <2>3
  <2> QED
    BY <2>2, <2>3
<1>5. ASSUME NEW v \in Workers, NEW j \in JobIds, StartAnalysis(v, j) PROVE Since
  <2>1. CASE v = w
    BY <1>1, <1>5, <2>1 DEF StartAnalysis, IdleWorker
  <2>2. CASE v # w
    BY <1>1, <1>2, <1>5, <2>2 DEF StartAnalysis
  <2> QED
    BY <2>1, <2>2
<1>6. ASSUME NEW v \in Workers, NEW s \in Sources, CleanRead(v, s) PROVE Since
  <2>1. CASE v = w /\ RawEligible(s) = {}
    BY <1>1, <1>6, <2>1 DEF CleanRead, WorkerState
  <2>2. CASE v = w /\ RawEligible(s) # {}
    BY <1>1, <1>6, <2>2 DEF CleanRead, WorkerState
  <2>3. CASE v # w
    BY <1>1, <1>2, <1>6, <2>3 DEF CleanRead
  <2> QED
    BY <2>1, <2>2, <2>3
<1>7. ASSUME NEW v \in Workers, NEW s \in Sources, CleanPublish(v, s) PROVE Since
  <2>1. CASE v = w
    BY <1>1, <1>7, <2>1 DEF CleanPublish, WorkerState
  <2>2. CASE v # w
    BY <1>1, <1>2, <1>7, <2>2 DEF CleanPublish
  <2> QED
    BY <2>1, <2>2
<1>8. ASSUME NEW v \in Workers, Fault(v) PROVE UNCHANGED worker \/ Ack(v)
  BY <1>8 DEF Fault, TaskFails, Redeliver, WorkerDies, ChildKilled
<1>9. ASSUME NEW v \in Workers, TaskStep(v) PROVE Since
  BY <1>3, <1>4, <1>5, <1>6, <1>7, <1>9 DEF TaskStep, CleanEnd, AnalysisPublish
<1>10. ASSUME NEW r \in Requests, Asking(r) \/ RequestStep(r) \/ SendFails(r) PROVE UNCHANGED worker
  BY <1>10 DEF Asking, RequestCleanup, RequestAnalysis, Ask, RequestStep, CommitJob, SendTask, SendFails
<1>11. ASSUME NEW a \in Admins, TurnReviewStep(a) PROVE UNCHANGED worker
  BY <1>11 DEF TurnReviewStep, TurnReviewRead, TurnReject, TurnApprove, TurnReviewFails
<1>12. ASSUME NEW S \in SUBSET Sources, NEW decision \in Decisions, SpeakerReview(S, decision)
       PROVE  UNCHANGED worker
  BY <1>12 DEF SpeakerReview
<1>13. CASE UNCHANGED vars
  BY <1>2, <1>13 DEF vars
<1> HIDE DEF Since
<1> QED
  BY <1>2, <1>3, <1>8, <1>9, <1>10, <1>11, <1>12, <1>13 DEF Next

\* A request is about to commit a cleanup only if none was active when it asked.
LEMMA CommittingSince ==
    ASSUME TypeOK, [Next]_vars, NEW r \in Requests, request'[r].pc = "commit", request'[r].type = "cleanup"
    PROVE  \/ request[r].pc = "commit" /\ request[r].type = "cleanup"
           \/ UNCHANGED job /\ ~\E j \in JobIds : ActiveCleanup(j)
<1> DEFINE Since ==
           \/ request[r].pc = "commit" /\ request[r].type = "cleanup"
           \/ UNCHANGED job /\ ~\E j \in JobIds : ActiveCleanup(j)
<1> SUFFICES Since
  OBVIOUS
<1>1. request \in [Requests -> RequestState]
  BY DEF TypeOK, RequestsOK
<1>2. CASE request'[r] = request[r]
  BY <1>2
<1>3. ASSUME NEW q \in Requests, q # r, Asking(q) \/ RequestStep(q) \/ SendFails(q) PROVE Since
  <2>1. request'[r] = request[r]
    BY <1>1, <1>3 DEF Asking, RequestCleanup, RequestAnalysis, Ask, RequestStep, CommitJob, SendTask, SendFails
  <2> QED
    BY <1>2, <2>1
<1>4. ASSUME NEW limit \in Limits, RequestCleanup(r, limit) PROVE Since
  BY <1>4 DEF RequestCleanup, Ask, ActiveCleanup
<1>5. ASSUME NEW s \in Sources, RequestAnalysis(r, s) PROVE Since
  BY <1>1, <1>5 DEF RequestAnalysis, Ask
<1>6. ASSUME NEW j \in JobIds, CommitJob(r, j) PROVE Since
  BY <1>1, <1>6 DEF CommitJob, RequestState
<1>7. CASE SendTask(r) \/ SendFails(r)
  BY <1>1, <1>7 DEF SendTask, SendFails, IdleRequest
<1>8. ASSUME NEW w \in Workers, TaskStep(w) \/ Fault(w) PROVE UNCHANGED request
  BY <1>8 DEF TaskStep, StartCleanup, StartAnalysis, CleanRead, CleanPublish, AnalysisPublish, CleanEnd,
     Fault, TaskFails, Redeliver, WorkerDies, ChildKilled
<1>9. ASSUME NEW a \in Admins, TurnReviewStep(a) PROVE UNCHANGED request
  BY <1>9 DEF TurnReviewStep, TurnReviewRead, TurnReject, TurnApprove, TurnReviewFails
<1>10. ASSUME NEW S \in SUBSET Sources, NEW decision \in Decisions, SpeakerReview(S, decision)
       PROVE  UNCHANGED request
  BY <1>10 DEF SpeakerReview
<1>11. CASE UNCHANGED vars
  BY <1>2, <1>11 DEF vars
<1> HIDE DEF Since
<1>12. ASSUME Asking(r) \/ RequestStep(r) \/ SendFails(r) PROVE Since
  BY <1>4, <1>5, <1>6, <1>7, <1>12 DEF Asking, RequestStep
<1> QED
  BY <1>2, <1>3, <1>8, <1>9, <1>10, <1>11, <1>12 DEF Next

LEMMA OneCleanupStep ==
    ASSUME TypeOK, [Next]_vars, Quiet', \A i \in JobIds : OneOwner(i), OneCleanup
    PROVE  OneCleanup'
<1>1. Quiet
  BY QuietBefore
<1>2. /\ job \in [JobIds -> Job] /\ request \in [Requests -> RequestState]
      /\ \A w \in Workers : worker[w].pc # "idle" => worker[w].job \in JobIds
  BY DEF TypeOK, JobsOK, RequestsOK, WorkersOK
<1>3. ASSUME NEW i \in JobIds, ActiveCleanup(i)'
      PROVE  \/ ActiveCleanup(i)
             \/ \E r \in Requests : CommitJob(r, i) /\ request[r].type = "cleanup"
  <2>1. ASSUME NEW r \in Requests, CommitJob(r, i) PROVE job'[i].type = request[r].type
    BY <1>2, <2>1 DEF CommitJob
  <2> QED
    BY <1>3, <2>1, JobMoves DEF ActiveCleanup
<1>4. ASSUME NEW r \in Requests, NEW i \in JobIds, CommitJob(r, i), request[r].type = "cleanup"
      PROVE  /\ ~\E j \in JobIds : ActiveCleanup(j)
             /\ \A j \in JobIds : j # i => job'[j] = job[j]
             /\ \A q \in Requests : request'[q].pc # "commit"
  <2>1. request[r].pc = "commit" /\ request'[r].pc = "send"
    BY <1>2, <1>4 DEF CommitJob, RequestState
  <2>2. \A q \in Requests : q = r
    BY <1>1, OneRequest
  <2>3. \A j \in JobIds : j # i => job'[j] = job[j]
    BY <1>2, <1>4 DEF CommitJob
  <2> QED
    BY <1>4, <2>1, <2>2, <2>3 DEF OneCleanup
<1>5. ASSUME NEW i \in JobIds, NEW j \in JobIds, ActiveCleanup(i)', ActiveCleanup(j)' PROVE i = j
  <2>1. CASE ActiveCleanup(i) /\ ActiveCleanup(j)
    BY <2>1 DEF OneCleanup
  <2>2. ASSUME NEW r \in Requests, NEW k \in JobIds, CommitJob(r, k), request[r].type = "cleanup",
               k = i \/ k = j
        PROVE  i = j
    BY <1>4, <1>5, <2>2 DEF ActiveCleanup
  <2> QED
    BY <1>3, <1>5, <2>1, <2>2
<1>6. ASSUME NEW r \in Requests, request'[r].pc = "commit", request'[r].type = "cleanup",
             NEW j \in JobIds, ActiveCleanup(j)'
      PROVE  FALSE
  <2>1. ActiveCleanup(j)
    BY <1>3, <1>4, <1>6
  <2>2. ~ActiveCleanup(j)
    BY <1>6, <2>1, CommittingSince DEF OneCleanup
  <2> QED
    BY <2>1, <2>2
<1>7. ASSUME NEW w \in Workers, worker'[w].pc \in {"cleanup", "cleaning"}
      PROVE  job'[worker'[w].job].type = "cleanup"
  <2>1. CASE worker[w].pc \in {"cleanup", "cleaning"} /\ worker'[w].job = worker[w].job
    <3>1. PICK i \in JobIds : i = worker[w].job
      BY <1>2, <2>1
    <3>2. job[i].type = "cleanup" /\ job[i].status # "absent"
      BY <2>1, <3>1 DEF OneCleanup, OneOwner, HasOwner, Active
    <3>3. ~\E r \in Requests : CommitJob(r, i)
      BY <3>2 DEF CommitJob
    <3>4. job'[i].type = job[i].type
      BY <3>3, JobMoves
    <3> QED
      BY <2>1, <3>1, <3>2, <3>4
  <2>2. ASSUME NEW i \in JobIds, i = worker'[w].job, StartCleanup(w, i) PROVE job'[i].type = "cleanup"
    BY <1>2, <2>2 DEF StartCleanup, Deliver, SetStatus, Job
  <2> QED
    BY <1>7, <2>1, <2>2, CleaningSince
<1> QED
  BY <1>5, <1>6, <1>7 DEF OneCleanup

\* Only between reading and publishing does a worker hold what it has read.
LEMMA OldWhileCleaning ==
    ASSUME TypeOK, [Next]_vars, NEW w \in Workers, worker[w].old # {} => worker[w].pc = "cleaning"
    PROVE  worker'[w].old # {} => worker'[w].pc = "cleaning"
<1> DEFINE Held == worker'[w].old # {} => worker'[w].pc = "cleaning"
<1> SUFFICES Held
  OBVIOUS
<1>1. worker \in [Workers -> WorkerState] /\ worker[w] \in WorkerState
  BY DEF TypeOK, WorkersOK
<1>2. CASE worker'[w] = worker[w]
  BY <1>2
<1>3. ASSUME NEW v \in Workers, Ack(v) PROVE Held
  BY <1>1, <1>3 DEF Ack, IdleWorker
<1>4. ASSUME NEW v \in Workers, NEW j \in JobIds, StartCleanup(v, j) PROVE Held
  <2>1. PICK todo : worker' = [worker EXCEPT ![v] = [IdleWorker EXCEPT !.pc = "cleanup", !.job = j, !.todo = todo]]
    BY <1>4 DEF StartCleanup
  <2> QED
    BY <1>1, <2>1 DEF IdleWorker
<1>5. ASSUME NEW v \in Workers, NEW j \in JobIds, StartAnalysis(v, j) PROVE Held
  BY <1>1, <1>5 DEF StartAnalysis, IdleWorker
<1>6. ASSUME NEW v \in Workers, NEW s \in Sources, CleanRead(v, s) PROVE Held
  <2>1. CASE v = w /\ RawEligible(s) = {}
    BY <1>1, <1>6, <2>1 DEF CleanRead, WorkerState
  <2>2. CASE v = w /\ RawEligible(s) # {}
    BY <1>1, <1>6, <2>2 DEF CleanRead, WorkerState
  <2>3. CASE v # w
    BY <1>1, <1>2, <1>6, <2>3 DEF CleanRead
  <2> QED
    BY <2>1, <2>2, <2>3
<1>7. ASSUME NEW v \in Workers, NEW s \in Sources, CleanPublish(v, s) PROVE Held
  <2>1. CASE v = w
    BY <1>1, <1>7, <2>1 DEF CleanPublish, WorkerState
  <2>2. CASE v # w
    BY <1>1, <1>2, <1>7, <2>2 DEF CleanPublish
  <2> QED
    BY <2>1, <2>2
<1>8. ASSUME NEW v \in Workers, Fault(v) PROVE UNCHANGED worker \/ Ack(v)
  BY <1>8 DEF Fault, TaskFails, Redeliver, WorkerDies, ChildKilled
<1>9. ASSUME NEW v \in Workers, TaskStep(v) PROVE Held
  BY <1>3, <1>4, <1>5, <1>6, <1>7, <1>9 DEF TaskStep, CleanEnd, AnalysisPublish
<1>10. ASSUME NEW r \in Requests, Asking(r) \/ RequestStep(r) \/ SendFails(r) PROVE UNCHANGED worker
  BY <1>10 DEF Asking, RequestCleanup, RequestAnalysis, Ask, RequestStep, CommitJob, SendTask, SendFails
<1>11. ASSUME NEW a \in Admins, TurnReviewStep(a) PROVE UNCHANGED worker
  BY <1>11 DEF TurnReviewStep, TurnReviewRead, TurnReject, TurnApprove, TurnReviewFails
<1>12. ASSUME NEW S \in SUBSET Sources, NEW decision \in Decisions, SpeakerReview(S, decision)
       PROVE  UNCHANGED worker
  BY <1>12 DEF SpeakerReview
<1>13. CASE UNCHANGED vars
  BY <1>2, <1>13 DEF vars
<1> HIDE DEF Held
<1> QED
  BY <1>2, <1>3, <1>8, <1>9, <1>10, <1>11, <1>12, <1>13 DEF Next

\* Two tasks never clean at the same time.
LEMMA OneCleans ==
    ASSUME TypeOK, \A i \in JobIds : OneOwner(i), OneCleanup,
           NEW v \in Workers, NEW w \in Workers, worker[v].pc = "cleaning", worker[w].pc = "cleaning"
    PROVE  v = w
<1>1. PICK i, j \in JobIds : i = worker[v].job /\ j = worker[w].job
  BY DEF TypeOK, WorkersOK
<1>2. HasOwner(i) /\ HasOwner(j) /\ AtWork(v, i) /\ AtWork(w, j)
  BY <1>1 DEF HasOwner, AtWork
<1>3. ActiveCleanup(i) /\ ActiveCleanup(j)
  BY <1>1, <1>2 DEF OneOwner, OneCleanup, ActiveCleanup
<1>4. i = j
  BY <1>3 DEF OneCleanup
<1> QED
  BY <1>2, <1>4 DEF OneOwner

\* Before the review no cleanup has read anything.
LEMMA NothingReadBefore ==
    ASSUME ReadCurrent, RawBefore, reviews = 0, NEW w \in Workers
    PROVE  worker[w].old = {}
BY DEF ReadCurrent, RawBefore, Citable

LEMMA ReadCurrentStep ==
    ASSUME TypeOK, [Next]_vars, Quiet', Unrepeated
    PROVE  ReadCurrent'
<1>1. /\ \A i \in JobIds : OneOwner(i)
      /\ OneCleanup /\ ReadCurrent /\ RawBefore
  BY DEF Unrepeated
<1>2. ASSUME NEW w \in Workers PROVE worker'[w].old # {} => worker'[w].pc = "cleaning"
  BY <1>1, <1>2, OldWhileCleaning DEF ReadCurrent
<1>3. ASSUME NEW w \in Workers, NEW c \in worker'[w].old PROVE c \in chunks' /\ c.eligible /\ c.kind = "raw"
  <2>1. c \in chunks /\ c.eligible /\ c.kind = "raw"
    BY <1>1, <1>3, OldKept DEF ReadCurrent, Citable
  <2>2. ASSUME NEW S \in SUBSET Sources, NEW decision \in Decisions, SpeakerReview(S, decision) PROVE FALSE
    <3>1. reviews = 0
      <4>1. reviews' = reviews + 1 /\ reviews \in Nat
        BY <2>2 DEF SpeakerReview, TypeOK, BoundsOK
      <4> QED
        BY <4>1 DEF Quiet
    <3>2. worker[w].old = {} /\ UNCHANGED worker
      BY <1>1, <2>2, <3>1, NothingReadBefore DEF SpeakerReview
    <3> QED
      BY <1>3, <3>2
  <2>3. ASSUME NEW v \in Workers, NEW s \in Sources, CleanPublish(v, s) PROVE FALSE
    <3>1. worker \in [Workers -> WorkerState]
      BY DEF TypeOK, WorkersOK
    <3>2. worker[v].pc = "cleaning" /\ worker'[v].old = {}
      BY <2>3, <3>1 DEF CleanPublish, WorkerState
    <3>3. v # w /\ worker'[w] = worker[w]
      BY <1>3, <2>3, <3>1, <3>2 DEF CleanPublish
    <3>4. worker[w].pc = "cleaning"
      BY <1>1, <1>3, <3>3 DEF ReadCurrent
    <3> QED
      BY <1>1, <3>2, <3>3, <3>4, OneCleans
  <2>4. ASSUME NEW v \in Workers, NEW s \in Sources, NEW confident \in SUBSET Turns,
               AnalysisPublish(v, s, confident)
        PROVE  chunks \subseteq chunks'
    BY <2>4 DEF AnalysisPublish
  <2>5. ASSUME NEW a \in Admins, NEW s \in Sources, TurnApprove(a, s) PROVE chunks \subseteq chunks'
    BY <2>5 DEF TurnApprove
  <2> QED
    BY <2>1, <2>2, <2>3, <2>4, <2>5, ChunkWriters
<1> QED
  BY <1>2, <1>3 DEF ReadCurrent, Citable

\* Turns become chunks of their own; passages do not.
LEMMA TurnsNotPassages ==
    ASSUME NEW s, NEW v, NEW T \in SUBSET Turns, NEW c \in TurnChunks(s, v, T)
    PROVE  c.origin \notin Passages /\ c.kind = "turn"
BY TextsAssumption DEF TurnChunks

LEMMA RawBeforeStep ==
    ASSUME TypeOK, [Next]_vars, Quiet', Unrepeated
    PROVE  RawBefore'
<1> SUFFICES ASSUME reviews' = 0
             PROVE  /\ \A c \in chunks' : c.kind = "raw" => ~c.eligible
                    /\ \A c, d \in chunks' : SameOrigin(c, d) /\ c.origin \in Passages => c = d
  BY DEF RawBefore, SameOrigin
<1>1. UNCHANGED reviews
  BY QuietBefore
<1>2. /\ ReadCurrent
      /\ \A c \in chunks : c.kind = "raw" => ~c.eligible
      /\ \A c, d \in chunks : SameOrigin(c, d) /\ c.origin \in Passages => c = d
      /\ \A w \in Workers : worker[w].old = {}
  BY <1>1, NothingReadBefore DEF Unrepeated, RawBefore
<1>3. ASSUME NEW c \in chunks' PROVE c \in chunks \/ (c.origin \notin Passages /\ c.kind = "turn")
  <2>1. ASSUME NEW S \in SUBSET Sources, NEW decision \in Decisions, SpeakerReview(S, decision) PROVE FALSE
    BY <1>1, <2>1 DEF SpeakerReview, TypeOK, BoundsOK
  <2>2. ASSUME NEW w \in Workers, NEW s \in Sources, CleanPublish(w, s) PROVE chunks' = chunks
    <3>1. worker[w].old = {}
      BY <1>2
    <3> QED
      BY <2>2, <3>1 DEF CleanPublish
  <2>3. ASSUME NEW w \in Workers, NEW s \in Sources, NEW confident \in SUBSET Turns,
               AnalysisPublish(w, s, confident)
        PROVE  c \in chunks \/ (c.origin \notin Passages /\ c.kind = "turn")
    <3>1. Published(confident) \in SUBSET Turns
      BY PublishedType
    <3> QED
      BY <2>3, <3>1, TurnsNotPassages DEF AnalysisPublish
  <2>4. ASSUME NEW a \in Admins, NEW s \in Sources, TurnApprove(a, s)
        PROVE  c \in chunks \/ (c.origin \notin Passages /\ c.kind = "turn")
    <3>1. {h.turn : h \in admin[a].picked} \in SUBSET Turns
      BY DEF TypeOK, AdminsOK, AdminState, Suggestion
    <3> QED
      BY <2>4, <3>1, TurnsNotPassages DEF TurnApprove
  <2> QED
    BY <1>3, <2>1, <2>2, <2>3, <2>4, ChunkWriters
<1> QED
  BY <1>2, <1>3 DEF SameOrigin

\* A speaker review changes a chunk in place.
LEMMA OneCopyReview ==
    ASSUME TypeOK, RawBefore, reviews = 0, NEW S \in SUBSET Sources, NEW decision \in Decisions,
           SpeakerReview(S, decision)
    PROVE  OneCopy'
<1>1. chunks \subseteq Chunk
  BY DEF TypeOK, EvidenceOK
<1> DEFINE verified == decision = "verified_single_speaker"
           new(c) == IF c.source \in S THEN Reviewed(c, verified) ELSE c
<1>2. ASSUME NEW c \in chunks PROVE new(c).source = c.source /\ new(c).origin = c.origin
  <2>1. c \in Chunk
    BY <1>1
  <2> QED
    BY <2>1 DEF Reviewed, Chunk
<1>3. chunks' = {new(c) : c \in chunks}
  BY DEF SpeakerReview
<1> HIDE DEF new
<1>4. ASSUME NEW x \in chunks', NEW y \in chunks', SameOrigin(x, y), x.origin \in Passages PROVE x = y
  <2>1. PICK c, d \in chunks : x = new(c) /\ y = new(d)
    BY <1>3
  <2>2. SameOrigin(c, d) /\ c.origin \in Passages
    BY <1>2, <1>4, <2>1 DEF SameOrigin
  <2> QED
    BY <2>1, <2>2 DEF RawBefore
<1> QED
  BY <1>4 DEF OneCopy, Citable, SameOrigin

\* A cleanup disables what it has read when it inserts the copies.
LEMMA OneCopyCleanup ==
    ASSUME TypeOK, ReadCurrent, OneCopy, NEW w \in Workers, NEW s \in Sources, CleanPublish(w, s)
    PROVE  OneCopy'
<1>1. chunks \subseteq Chunk
  BY DEF TypeOK, EvidenceOK
<1> DEFINE same(c, d) == c.version = d.version /\ c.origin = d.origin /\ c.source = d.source
           published(old, v, rewrite) ==
             chunks' = {IF \E d \in old : same(c, d) THEN [c EXCEPT !.eligible = FALSE] ELSE c : c \in chunks}
                       \cup {Cleaned(c, v, rewrite[c]) : c \in old}
<1>2. PICK old, v, rewrite : old = worker[w].old /\ v = version[s] + 1 /\ published(old, v, rewrite)
  <2>1. \E rewrite : published(worker[w].old, version[s] + 1, rewrite)
    BY DEF CleanPublish
  <2> HIDE DEF published
  <2> QED
    BY <2>1
<1>3. old \subseteq Citable
  BY <1>2 DEF ReadCurrent
<1>4. published(old, v, rewrite)
  BY <1>2
<1> DEFINE copy(d) == Cleaned(d, v, rewrite[d])
<1>5. ASSUME NEW x \in chunks', x.eligible
      PROVE  \/ x \in Citable /\ x \notin old
             \/ \E d \in old : x = copy(d)
  <2>1. CASE \E d \in old : x = copy(d)
    BY <2>1
  <2>2. ASSUME NEW c \in chunks, x = IF \E d \in old : same(c, d) THEN [c EXCEPT !.eligible = FALSE] ELSE c
        PROVE  x \in Citable /\ x \notin old
    <3>1. CASE \E d \in old : same(c, d)
      BY <1>1, <1>5, <2>2, <3>1 DEF Chunk
    <3>2. CASE ~\E d \in old : same(c, d)
      BY <1>5, <2>2, <3>2 DEF Citable
    <3> QED
      BY <3>1, <3>2
  <2> QED
    BY <1>4, <2>1, <2>2
<1>6. ASSUME NEW d \in old PROVE copy(d).source = d.source /\ copy(d).origin = d.origin
  <2>1. d \in Chunk
    BY <1>1, <1>3 DEF Citable
  <2> QED
    BY <2>1 DEF Cleaned, Chunk
<1> HIDE DEF copy
<1>7. ASSUME NEW c \in Citable, NEW d \in Citable, SameOrigin(c, d), c.origin \in Passages PROVE c = d
  BY <1>7 DEF OneCopy
<1>8. ASSUME NEW x \in chunks', NEW y \in chunks', x.eligible, y.eligible, SameOrigin(x, y), x.origin \in Passages
      PROVE  x = y
  <2>1. CASE x \in Citable /\ x \notin old /\ y \in Citable /\ y \notin old
    BY <1>7, <1>8, <2>1
  <2>2. ASSUME NEW d \in old, NEW e \in old, x = copy(d), y = copy(e) PROVE x = y
    <3>1. d = e
      BY <1>3, <1>6, <1>7, <1>8, <2>2 DEF SameOrigin
    <3> QED
      BY <2>2, <3>1
  <2>3. ASSUME NEW d \in old, x = copy(d), y \in Citable, y \notin old PROVE FALSE
    <3>1. SameOrigin(d, y) /\ d.origin \in Passages
      BY <1>6, <1>8, <2>3 DEF SameOrigin
    <3> QED
      BY <1>3, <1>7, <2>3, <3>1
  <2>4. ASSUME NEW d \in old, y = copy(d), x \in Citable, x \notin old PROVE FALSE
    <3>1. SameOrigin(x, d)
      BY <1>6, <1>8, <2>4 DEF SameOrigin
    <3> QED
      BY <1>3, <1>7, <1>8, <2>4, <3>1
  <2> QED
    BY <1>5, <1>8, <2>1, <2>2, <2>3, <2>4
<1> QED
  BY <1>8 DEF OneCopy, Citable, SameOrigin

LEMMA OneCopyStep ==
    ASSUME TypeOK, [Next]_vars, Quiet', Unrepeated
    PROVE  OneCopy'
<1>1. ReadCurrent /\ RawBefore /\ OneCopy
  BY DEF Unrepeated
<1>2. ASSUME NEW T \in SUBSET Turns, NEW s, NEW v, chunks' = chunks \cup TurnChunks(s, v, T) PROVE OneCopy'
  BY <1>1, <1>2, TurnsNotPassages DEF OneCopy, Citable, SameOrigin
<1>3. ASSUME NEW S \in SUBSET Sources, NEW decision \in Decisions, SpeakerReview(S, decision) PROVE OneCopy'
  <2>1. reviews = 0
    <3>1. reviews' = reviews + 1 /\ reviews \in Nat
      BY <1>3 DEF SpeakerReview, TypeOK, BoundsOK
    <3> QED
      BY <3>1 DEF Quiet
  <2> QED
    BY <1>1, <1>3, <2>1, OneCopyReview
<1>4. ASSUME NEW w \in Workers, NEW s \in Sources, CleanPublish(w, s) PROVE OneCopy'
  BY <1>1, <1>4, OneCopyCleanup
<1>5. ASSUME NEW w \in Workers, NEW s \in Sources, NEW confident \in SUBSET Turns,
             AnalysisPublish(w, s, confident)
      PROVE  OneCopy'
  <2>1. Published(confident) \in SUBSET Turns
    BY PublishedType
  <2> QED
    BY <1>2, <1>5, <2>1 DEF AnalysisPublish
<1>6. ASSUME NEW a \in Admins, NEW s \in Sources, TurnApprove(a, s) PROVE OneCopy'
  <2>1. {h.turn : h \in admin[a].picked} \in SUBSET Turns
    BY DEF TypeOK, AdminsOK, AdminState, Suggestion
  <2> QED
    BY <1>2, <1>6, <2>1 DEF TurnApprove
<1>7. CASE UNCHANGED chunks
  BY <1>1, <1>7 DEF OneCopy, Citable, SameOrigin
<1> QED
  BY <1>3, <1>4, <1>5, <1>6, <1>7, ChunkWriters

LEMMA OnceInit == Init => OnceInv
<1> SUFFICES ASSUME Init PROVE OnceInv
  OBVIOUS
<1>1. ASSUME NEW j \in JobIds PROVE OneOwner(j)
  BY <1>1 DEF Init, OneOwner, AtWork, Sending, HasOwner, IdleWorker, IdleRequest
<1>2. OneCleanup
  BY DEF Init, OneCleanup, ActiveCleanup, IdleWorker, IdleRequest
<1>3. ReadCurrent
  BY DEF Init, ReadCurrent, IdleWorker
<1>4. chunks = {[source |-> s, version |-> 1, origin |-> p, text |-> p, flags |-> p \in Flagged,
                   kind |-> "raw", speaker |-> FALSE, eligible |-> FALSE] : s \in Sources, p \in Passages}
  BY DEF Init
<1>5. \A c \in chunks : ~c.eligible
  BY <1>4
<1>6. ASSUME NEW c \in chunks, NEW d \in chunks, SameOrigin(c, d) PROVE c = d
  <2>1. PICK s \in Sources, p \in Passages :
          c = [source |-> s, version |-> 1, origin |-> p, text |-> p, flags |-> p \in Flagged,
               kind |-> "raw", speaker |-> FALSE, eligible |-> FALSE]
    BY <1>4
  <2>2. PICK t \in Sources, q \in Passages :
          d = [source |-> t, version |-> 1, origin |-> q, text |-> q, flags |-> q \in Flagged,
               kind |-> "raw", speaker |-> FALSE, eligible |-> FALSE]
    BY <1>4
  <2>3. s = t /\ p = q
    BY <1>6, <2>1, <2>2 DEF SameOrigin
  <2> QED
    BY <2>1, <2>2, <2>3
<1>7. RawBefore /\ OneCopy
  BY <1>5, <1>6 DEF RawBefore, OneCopy, Citable
<1> QED
  BY <1>1, <1>2, <1>3, <1>7, TypeInit DEF OnceInv, Unrepeated

LEMMA OnceStep == OnceInv /\ [Next]_vars => OnceInv'
<1> SUFFICES ASSUME OnceInv, [Next]_vars PROVE OnceInv'
  OBVIOUS
<1>1. TypeOK /\ TypeOK'
  BY TypeStep DEF OnceInv
<1>2. ASSUME Quiet' PROVE Unrepeated'
  <2>1. Unrepeated
    BY <1>1, <1>2, QuietBefore DEF OnceInv
  <2>2. \A j \in JobIds : OneOwner(j)
    BY <2>1 DEF Unrepeated
  <2>3. \A j \in JobIds : OneOwner(j)'
    BY <1>1, <1>2, <2>2, OneOwnerStep
  <2>4. OneCleanup'
    BY <1>1, <1>2, <2>1, OneCleanupStep DEF Unrepeated
  <2> QED
    BY <1>1, <1>2, <2>1, <2>3, <2>4, ReadCurrentStep, RawBeforeStep, OneCopyStep DEF Unrepeated
<1> QED
  BY <1>1, <1>2 DEF OnceInv

\* While jobs are asked for one at a time, no second speaker review is made and no
\* delivery is repeated during its first one, a passage is cited from one chunk only,
\* whatever jobs fail, workers die and messages are lost.
THEOREM CitedOnceCorrect == Spec => []CitedOnce
<1>1. OnceInv => CitedOnce
  BY DEF OnceInv, Quiet, Unrepeated, OneCopy, SameOrigin, CitedOnce
<1> QED
  BY <1>1, OnceInit, OnceStep, PTL DEF Spec
=============================================================================
