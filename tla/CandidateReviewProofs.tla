----------------------- MODULE CandidateReviewProofs ------------------------
(* What CandidateReview keeps for any candidates and any number of reviews. *)
EXTENDS CandidateReview, TLAPS

\* A bulk review only ever approves, so what it writes is never a rejection.
BulkApproves == \A r \in Requests : review[r].bulk => review[r].decision = "approved"

Inv == TypeOK /\ BulkApproves /\ ApprovedHasSource /\ ApprovalsAudited

LEMMA InitInv == Init => Inv
<1> SUFFICES ASSUME Init PROVE Inv
  OBVIOUS
<1>1. TypeOK /\ BulkApproves
  BY DEF Init, Idle, Status, Source, TypeOK, BulkApproves
<1>2. ApprovedHasSource
  BY DEF Init, ApprovedHasSource
<1>3. \A c \in Candidates : Own(c) \notin sources
  BY CandidatesAssumption DEF Init, Own
<1>4. ApprovalsAudited
  BY <1>3 DEF Init, ApprovalsAudited
<1> QED
  BY <1>1, <1>2, <1>4 DEF Inv

\* A step that touches neither the candidates nor the sources.
LEMMA TablesUnchanged ==
    ASSUME ApprovedHasSource, ApprovalsAudited, UNCHANGED <<status, sources, audits>>
    PROVE  ApprovedHasSource' /\ ApprovalsAudited'
BY DEF ApprovedHasSource, ApprovalsAudited, Own

\* The review that a request leaves behind.
LEMMA ReviewUpdate ==
    ASSUME TypeOK, BulkApproves, NEW r \in Requests,
           NEW q \in [pc : {"idle", "urls", "write"}, bulk : BOOLEAN,
                      decision : {"approved", "rejected"}, picked : SUBSET Candidates],
           q.bulk => q.decision = "approved",
           review' = [review EXCEPT ![r] = q]
    PROVE  /\ review' \in [Requests -> [pc : {"idle", "urls", "write"}, bulk : BOOLEAN,
                                        decision : {"approved", "rejected"},
                                        picked : SUBSET Candidates]]
           /\ BulkApproves'
BY DEF TypeOK, BulkApproves

LEMMA IdleType ==
    /\ Idle \in [pc : {"idle", "urls", "write"}, bulk : BOOLEAN,
                 decision : {"approved", "rejected"}, picked : SUBSET Candidates]
    /\ ~Idle.bulk
BY DEF Idle

\* The constraint on the URLs keeps an approval out whose source is there already.
LEMMA ApproveInv ==
    ASSUME Inv, NEW r \in Requests, Approve(r)
    PROVE  Inv'
<1> DEFINE C == review[r].picked
<1>1. C \subseteq Candidates /\ review[r].decision = "approved"
  BY DEF Inv, TypeOK, Approve
<1>2. /\ status' = [c \in Candidates |-> IF c \in C THEN "approved" ELSE status[c]]
      /\ sources' = sources \cup {Own(c) : c \in C}
      /\ audits' = [c \in Candidates |-> IF c \in C THEN audits[c] + 1 ELSE audits[c]]
      /\ review' = [review EXCEPT ![r] = Idle]
  BY <1>1 DEF Approve, Approved, NewStatus, Inserted, Own
<1>3. \A c \in C : Own(c) \notin sources
  <2> SUFFICES ASSUME NEW c \in C, Own(c) \in sources PROVE FALSE
    OBVIOUS
  <2>1. c \in Urls(sources)
    BY DEF Urls, Own
  <2> QED
    BY <2>1 DEF Approve, Approved, MayCommit
<1>4. \A c \in Candidates : Own(c) \in sources' <=> Own(c) \in sources \/ c \in C
  BY <1>1, <1>2 DEF Own
<1>5. TypeOK' /\ BulkApproves'
  <2>1. status' \in [Candidates -> Status] /\ audits' \in [Candidates -> Nat]
    BY <1>2 DEF Inv, TypeOK, Status
  <2>2. sources' \subseteq Source
    BY <1>1, <1>2 DEF Inv, TypeOK, Source, Own
  <2> QED
    BY <1>2, <2>1, <2>2, IdleType, ReviewUpdate DEF Inv, TypeOK
<1>6. ApprovedHasSource'
  BY <1>2, <1>4 DEF Inv, ApprovedHasSource, Own
<1>7. ApprovalsAudited'
  <2> SUFFICES ASSUME NEW c \in Candidates
               PROVE  audits'[c] = IF Own(c) \in sources' THEN 1 ELSE 0
    BY DEF ApprovalsAudited, Own
  <2>1. CASE c \in C
    BY <1>2, <1>3, <1>4, <2>1 DEF Inv, ApprovalsAudited
  <2>2. CASE c \notin C
    BY <1>2, <1>4, <2>2 DEF Inv, ApprovalsAudited
  <2> QED
    BY <2>1, <2>2
<1> QED
  BY <1>5, <1>6, <1>7 DEF Inv

LEMMA RejectInv ==
    ASSUME Inv, NEW r \in Requests, Reject(r)
    PROVE  Inv'
<1>1. /\ status' = [c \in Candidates |-> IF c \in review[r].picked THEN "rejected" ELSE status[c]]
      /\ review' = [review EXCEPT ![r] = Idle]
      /\ UNCHANGED <<sources, audits>>
  BY DEF Reject, NewStatus
<1>2. TypeOK' /\ BulkApproves'
  <2>1. status' \in [Candidates -> Status]
    BY <1>1 DEF Inv, TypeOK, Status
  <2> QED
    BY <1>1, <2>1, IdleType, ReviewUpdate DEF Inv, TypeOK
<1>3. ApprovedHasSource' /\ ApprovalsAudited'
  BY <1>1 DEF Inv, ApprovedHasSource, ApprovalsAudited, Own
<1> QED
  BY <1>2, <1>3 DEF Inv

\* A step that only moves a review on.
LEMMA ReviewInv ==
    ASSUME Inv, NEW r \in Requests, UNCHANGED <<status, sources, audits>>,
           NEW q \in [pc : {"idle", "urls", "write"}, bulk : BOOLEAN,
                      decision : {"approved", "rejected"}, picked : SUBSET Candidates],
           q.bulk => q.decision = "approved",
           review' = [review EXCEPT ![r] = q]
    PROVE  Inv'
<1>1. ApprovedHasSource' /\ ApprovalsAudited'
  BY TablesUnchanged DEF Inv
<1>2. TypeOK' /\ BulkApproves'
  BY ReviewUpdate DEF Inv, TypeOK
<1> QED
  BY <1>1, <1>2 DEF Inv

LEMMA StepInv == Inv /\ [Next]_vars => Inv'
<1> SUFFICES ASSUME Inv, [Next]_vars PROVE Inv'
  OBVIOUS
<1>1. ASSUME NEW c \in Candidates, CreateCandidate(c) PROVE Inv'
  BY <1>1 DEF CreateCandidate, Inv, TypeOK, Status, BulkApproves, ApprovedHasSource,
              ApprovalsAudited, Own
<1>2. ASSUME NEW r \in Requests, NEW c \in Candidates, NEW decision \in {"approved", "rejected"},
             ReviewRead(r, c, decision)
      PROVE  Inv'
  <2> DEFINE q == [pc |-> "write", bulk |-> FALSE, decision |-> decision, picked |-> {c}]
  <2>1. /\ q \in [pc : {"idle", "urls", "write"}, bulk : BOOLEAN,
                  decision : {"approved", "rejected"}, picked : SUBSET Candidates]
        /\ ~q.bulk
    OBVIOUS
  <2> QED
    BY <1>2, <2>1, ReviewInv DEF ReviewRead
<1>3. ASSUME NEW r \in Requests, NEW C \in SUBSET Candidates, BulkRead(r, C) PROVE Inv'
  <2> DEFINE q == [pc |-> "urls", bulk |-> TRUE, decision |-> "approved", picked |-> Pending(C)]
  <2>1. /\ q \in [pc : {"idle", "urls", "write"}, bulk : BOOLEAN,
                  decision : {"approved", "rejected"}, picked : SUBSET Candidates]
        /\ q.decision = "approved"
    BY DEF Pending
  <2> QED
    BY <1>3, <2>1, ReviewInv DEF BulkRead
<1>4. ASSUME NEW r \in Requests, BulkCheckUrls(r) PROVE Inv'
  <2> DEFINE q == [review[r] EXCEPT !.pc = "write"]
  <2>1. /\ q \in [pc : {"idle", "urls", "write"}, bulk : BOOLEAN,
                  decision : {"approved", "rejected"}, picked : SUBSET Candidates]
        /\ q.bulk => q.decision = "approved"
    BY DEF Inv, TypeOK, BulkApproves
  <2>2. \/ review' = [review EXCEPT ![r] = Idle]
        \/ review' = [review EXCEPT ![r] = q]
    BY <1>4 DEF BulkCheckUrls
  <2>3. UNCHANGED <<status, sources, audits>>
    BY <1>4 DEF BulkCheckUrls
  <2> HIDE DEF q
  <2> QED
    BY <2>1, <2>2, <2>3, IdleType, ReviewInv
<1>5. ASSUME NEW r \in Requests, ReviewFails(r) PROVE Inv'
  BY <1>5, IdleType, ReviewInv DEF ReviewFails
<1>6. CASE UNCHANGED vars
  BY <1>6 DEF vars, Inv, TypeOK, BulkApproves, ApprovedHasSource, ApprovalsAudited, Own
<1> QED
  BY <1>1, <1>2, <1>3, <1>4, <1>5, <1>6, ApproveInv, RejectInv DEF Next

LEMMA Invariant == Spec => []Inv
BY InitInv, StepInv, PTL DEF Spec

\* Candidates, sources, audit rows and reviews keep their types.
THEOREM TypeCorrect == Spec => []TypeOK
<1>1. Inv => TypeOK
  BY DEF Inv
<1> QED
  BY <1>1, Invariant, PTL

\* However many reviews of a candidate race, an approved one has its source.
THEOREM ApprovedCorrect == Spec => []ApprovedHasSource
<1>1. Inv => ApprovedHasSource
  BY DEF Inv
<1> QED
  BY <1>1, Invariant, PTL

\* However many reviews of a candidate race, its source has one approval in the audit log.
THEOREM AuditCorrect == Spec => []ApprovalsAudited
<1>1. Inv => ApprovalsAudited
  BY DEF Inv
<1> QED
  BY <1>1, Invariant, PTL

LEMMA BulkStep ==
    ASSUME Inv, Next, NEW r \in Requests, review[r].bulk, ~review'[r].bulk
    PROVE  \/ sources' = sources /\ status' = status
           \/ \A c \in review[r].picked : status'[c] = "approved" /\ Own(c) \in sources' \ sources
<1>1. CASE Approve(r)
  <2>1. /\ review[r].picked \subseteq Candidates
        /\ review[r].decision = "approved"
    BY <1>1 DEF Inv, TypeOK, Approve
  <2>2. \A c \in review[r].picked : Own(c) \notin sources
    BY <1>1 DEF Approve, Approved, MayCommit, Urls, Own
  <2>3. \A c \in review[r].picked : status'[c] = "approved" /\ Own(c) \in sources'
    BY <1>1, <2>1 DEF Approve, Approved, NewStatus, Inserted, Own
  <2> QED
    BY <2>2, <2>3
<1>2. CASE ReviewFails(r) \/ BulkCheckUrls(r)
  BY <1>2 DEF ReviewFails, BulkCheckUrls
<1>3. CASE \E d \in Requests : d # r /\ (Approve(d) \/ Reject(d) \/ ReviewFails(d) \/ BulkCheckUrls(d))
  <2>1. PICK d \in Requests : d # r /\ (Approve(d) \/ Reject(d) \/ ReviewFails(d) \/ BulkCheckUrls(d))
    BY <1>3
  <2>2. review'[r] = review[r]
    BY <2>1 DEF Inv, TypeOK, Approve, Reject, ReviewFails, BulkCheckUrls
  <2> QED
    BY <2>2
<1>4. ~Reject(r)
  BY DEF Inv, BulkApproves, Reject
<1>5. CASE \E d \in Requests : \/ \E c \in Candidates, decision \in {"approved", "rejected"} :
                                     ReviewRead(d, c, decision)
                               \/ \E C \in SUBSET Candidates : BulkRead(d, C)
  BY <1>5 DEF ReviewRead, BulkRead
<1>6. CASE \E c \in Candidates : CreateCandidate(c)
  BY <1>6 DEF CreateCandidate
<1> QED
  BY <1>1, <1>2, <1>3, <1>4, <1>5, <1>6 DEF Next

\* A bulk approval takes effect as a whole or not at all, whatever was reviewed while it ran.
THEOREM BulkCorrect == Spec => BulkAllOrNothing
<1>1. Inv /\ [Next]_vars
      => [\A r \in Requests :
             review[r].bulk /\ ~review'[r].bulk =>
                 \/ sources' = sources /\ status' = status
                 \/ \A c \in review[r].picked :
                       status'[c] = "approved" /\ Own(c) \in sources' \ sources]_vars
  BY BulkStep DEF vars
<1> QED
  BY <1>1, Invariant, PTL DEF Spec, BulkAllOrNothing
=============================================================================
