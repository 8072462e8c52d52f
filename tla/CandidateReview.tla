-------------------------- MODULE CandidateReview ---------------------------
(***************************************************************************)
(* From discovered candidates to approved sources: POST /candidates,        *)
(* /candidates/bulk-approve and /candidates/{id}/review                     *)
(* (apps/api/afs/routes.py) and scripts/import_discovery.py.                *)
(*                                                                          *)
(* A review reads the status of its candidates and writes it by primary key *)
(* later, in a transaction with the sources and the audit rows.  What keeps *)
(* reviews of one candidate apart is that sources.canonical_url is UNIQUE.  *)
(***************************************************************************)
EXTENDS Integers, FiniteSets

CONSTANTS
    Candidates,  \* by normalized_url, which is UNIQUE among candidates too
    Requests,    \* reviews in progress at once
    NoCandidate  \* NULL in sources.candidate_id

ASSUME CandidatesAssumption == IsFiniteSet(Candidates) /\ NoCandidate \notin Candidates

Status == {"absent", "pending", "approved", "rejected"}
Source == [url : Candidates, candidate : Candidates \cup {NoCandidate}]

VARIABLES
    status,   \* [Candidates -> Status]: source_candidates.status
    sources,  \* SUBSET Source
    audits,   \* [Candidates -> Nat]: rows "candidate.approved" of audit_logs
    review    \* [Requests -> ...], the reviews in progress

vars == <<status, sources, audits, review>>

Idle == [pc |-> "idle", bulk |-> FALSE, decision |-> "rejected", picked |-> {}]

\* Some sources have been there before: seeded, or from fixtures.
Init ==
    /\ status = [c \in Candidates |-> "absent"]
    /\ \E urls \in SUBSET Candidates : sources = {[url |-> c, candidate |-> NoCandidate] : c \in urls}
    /\ audits = [c \in Candidates |-> 0]
    /\ review = [r \in Requests |-> Idle]

-----------------------------------------------------------------------------
\* create_candidate or the import of a discovery file, unless the URL is in the queue.
CreateCandidate(c) ==
    /\ status[c] = "absent"
    /\ status' = [status EXCEPT ![c] = "pending"]
    /\ UNCHANGED <<sources, audits, review>>

Pending(C) == {c \in C : status[c] = "pending"}

\* review_candidate reads its candidate.
ReviewRead(r, c, decision) ==
    /\ review[r].pc = "idle"
    /\ c \in Pending(Candidates)
    /\ review' = [review EXCEPT ![r] = [pc |-> "write", bulk |-> FALSE, decision |-> decision,
                                        picked |-> {c}]]
    /\ UNCHANGED <<status, sources, audits>>

\* bulk_approve_candidates reads those of the selected ones that are pending.
BulkRead(r, C) ==
    /\ review[r].pc = "idle"
    /\ Pending(C) # {}
    /\ review' = [review EXCEPT ![r] = [pc |-> "urls", bulk |-> TRUE, decision |-> "approved",
                                        picked |-> Pending(C)]]
    /\ UNCHANGED <<status, sources, audits>>

Urls(S) == {s.url : s \in S}

\* A second statement looks for sources of these URLs; 409 if there is one.
BulkCheckUrls(r) ==
    /\ review[r].pc = "urls"
    /\ review' = IF Urls(sources) \cap review[r].picked # {} THEN [review EXCEPT ![r] = Idle]
                 ELSE [review EXCEPT ![r].pc = "write"]
    /\ UNCHANGED <<status, sources, audits>>

\* Mutant: the loop over the candidates ends after the first one.
MutInserted(C) == {[url |-> c, candidate |-> c] : c \in {CHOOSE d \in C : TRUE}}

\* approve_candidate inserts a source for each of C.
Inserted(C) == {[url |-> c, candidate |-> c] : c \in C}

\* Mutant: there is no constraint.
MutMayCommit(C) == TRUE

\* The UNIQUE constraint on sources.canonical_url.
MayCommit(C) == Urls(sources) \cap C = {}

\* Mutant: candidates that somebody has reviewed since are passed over.
MutApproved(r) == Pending(review[r].picked)

\* The candidates as they were read, whatever their status is by now.
Approved(r) == review[r].picked

\* Mutant: a status of its own for what was approved in bulk.
MutNewStatus(r) == IF review[r].bulk THEN "bulk_approved" ELSE review[r].decision

NewStatus(r) == review[r].decision

\* One transaction: status, source and audit row of every candidate.  A collision at the
\* constraint rolls all of it back.
Approve(r) ==
    LET C == Approved(r) IN
    /\ review[r].pc = "write"
    /\ review[r].decision = "approved"
    /\ MayCommit(C)
    /\ status' = [c \in Candidates |-> IF c \in C THEN NewStatus(r) ELSE status[c]]
    /\ sources' = sources \cup Inserted(C)
    /\ audits' = [c \in Candidates |-> IF c \in C THEN audits[c] + 1 ELSE audits[c]]
    /\ review' = [review EXCEPT ![r] = Idle]

Reject(r) ==
    /\ review[r].pc = "write"
    /\ review[r].decision = "rejected"
    /\ status' = [c \in Candidates |-> IF c \in review[r].picked THEN NewStatus(r) ELSE status[c]]
    /\ review' = [review EXCEPT ![r] = Idle]
    /\ UNCHANGED <<sources, audits>>

\* The constraint, a deadlock of two bulk approvals, a lost connection: rollback.
ReviewFails(r) ==
    /\ review[r].pc # "idle"
    /\ review' = [review EXCEPT ![r] = Idle]
    /\ UNCHANGED <<status, sources, audits>>

Next ==
    \/ \E c \in Candidates : CreateCandidate(c)
    \/ \E r \in Requests :
          \/ \E c \in Candidates, decision \in {"approved", "rejected"} : ReviewRead(r, c, decision)
          \/ \E C \in SUBSET Candidates : BulkRead(r, C)
          \/ BulkCheckUrls(r)
          \/ Approve(r)
          \/ Reject(r)
          \/ ReviewFails(r)

Spec == Init /\ [][Next]_vars

-----------------------------------------------------------------------------
(* Properties.                                                              *)

\* Type correctness.
TypeOK ==
    /\ status \in [Candidates -> Status]
    /\ sources \subseteq Source
    /\ audits \in [Candidates -> Nat]
    /\ review \in [Requests -> [pc : {"idle", "urls", "write"}, bulk : BOOLEAN,
                                decision : {"approved", "rejected"}, picked : SUBSET Candidates]]

Own(c) == [url |-> c, candidate |-> c]

\* An approved candidate has its source, of its own URL, whichever of several reviews
\* that have all read it as pending has written last.
ApprovedHasSource == \A c \in Candidates : status[c] = "approved" => Own(c) \in sources

\* Every source that comes from a candidate has one approval in the audit log, and no
\* approval is in the log that has made no source: however many reviews, single and in
\* bulk, approve a candidate at once.
ApprovalsAudited ==
    \A c \in Candidates : audits[c] = IF Own(c) \in sources THEN 1 ELSE 0

\* A bulk approval approves all the candidates it has read or none, although some of them
\* may have been approved or rejected since.
BulkAllOrNothing ==
    [][\A r \in Requests :
          review[r].bulk /\ ~review'[r].bulk =>
              \/ sources' = sources /\ status' = status
              \/ \A c \in review[r].picked : status'[c] = "approved" /\ Own(c) \in sources' \ sources]_vars
=============================================================================
