--------------------------- MODULE InterviewScript ---------------------------
(***************************************************************************)
(* scripts/process_mixed_interviews.py, composed with the server of         *)
(* EvidenceReview: the script lists the mixed-speaker interviews, asks for  *)
(* an analysis of those that have no suggestions, polls the jobs until each *)
(* has ended, and reviews what the model labelled: it rejects what is not   *)
(* Iyin's and approves the rest.                                            *)
(*                                                                          *)
(* Every step of the script is one HTTP request.  The server and its        *)
(* workers, other administrators and other requests go on between any two   *)
(* of them, and while the server works on one.  A response that is not 2xx  *)
(* ends the script (raise_for_status), as does a request that fails.        *)
(***************************************************************************)
EXTENDS EvidenceReview

CONSTANTS
    Script,         \* the turn review the script has in progress, one of Admins
    ScriptRequest,  \* the analysis it has asked for, one of Requests
    BatchSize,      \* suggestions sent in one review: 200 in the code
    Modes,          \* which of its modes the script is run in
    MaxRequests     \* bound: jobs that others ask for

ASSUME ScriptAssumption ==
    /\ Script \in Admins
    /\ ScriptRequest \in Requests
    /\ BatchSize \in Nat \ {0}
    /\ Modes \subseteq {"all", "existing_only", "exclude_only"}
    /\ MaxRequests \in Nat

VARIABLES
    script,    \* the local variables of InterviewProcessor.run
    label,     \* the turns each analysis has labelled "iyin", as [run, turn]
    requests   \* counter for the bound

scriptVars == <<vars, script, label, requests>>

\* interview_turn_suggestions.id, and what it names.
Id(g) == [source |-> g.source, run |-> g.run, turn |-> g.turn]
SuggestionsOf(s) == {g \in suggestions : g.source = s}
PendingOf(s) == {g \in SuggestionsOf(s) : g.status = "pending"}

\* suggested_role = "iyin".
LabelledIyin(g) == [run |-> g.run, turn |-> g.turn] \in label

\* Mutant: what is not labelled as somebody else's is let through, too.
MutIsIyin(g) == TRUE
IsIyin(g) == LabelledIyin(g)

\* The status of the youngest analysis of s, as GET /ingestion-jobs lists it.
AnalysesOf(s) == {j \in JobIds : job[j].type = "analysis" /\ job[j].source = {s}}
LatestStatus(s) ==
    IF AnalysesOf(s) = {} THEN "absent"
    ELSE job[CHOOSE j \in AnalysesOf(s) : \A i \in AnalysesOf(s) : i <= j].status

\* first: the loop over the listed sources; otherwise the polling loop.
\* read is history: the analyses there were when the pending ones of a source were read.
IdleScript == [pc |-> "idle", mode |-> "all", first |-> TRUE, listed |-> {}, todo |-> {},
               source |-> {}, reject |-> {}, approve |-> {}, queued |-> {}, completed |-> {},
               failed |-> {}, snapshot |-> [s \in Sources |-> "absent"],
               read |-> [s \in Sources |-> 0]]

ScriptInit == Init /\ script = IdleScript /\ label = {} /\ requests = 0

-----------------------------------------------------------------------------
(* The script on its own: steps that only read.                             *)

Reads(pc, next) ==
    /\ script.pc = pc
    /\ script' = next
    /\ UNCHANGED <<vars, label, requests>>

\* login and mixed_sources.  An administrator starts the script once there is something.
Begin(mode) ==
    LET mixed == {s \in Sources : review[s] = "mixed_speakers"} IN
    /\ mixed # {}
    /\ Reads("idle", [IdleScript EXCEPT !.pc = "sources", !.mode = mode, !.listed = mixed, !.todo = mixed])

\* GET the suggestions of the next source, in the order of a set.  One that has some
\* is reviewed, one that has none is analysed or, in the other modes, passed over.
NextSource(s) ==
    /\ s \in script.todo
    /\ Reads("sources",
          [script EXCEPT !.todo = @ \ {s},
              !.source = IF SuggestionsOf(s) = {} /\ script.mode # "all" THEN {} ELSE {s},
              !.pc = IF SuggestionsOf(s) # {} THEN "listing"
                     ELSE IF script.mode = "all" THEN "analyze" ELSE "sources"])

EndOfSources ==
    /\ script.todo = {}
    /\ Reads("sources", [script EXCEPT !.first = FALSE,
                                       !.pc = IF script.mode = "all" THEN "poll" ELSE "done"])

\* Mutant: reject the others only when Iyin's are approved as well.
MutListPending(s) ==
    /\ script.source = {s}
    /\ Reads("listing",
          [script EXCEPT !.pc = "reviewing", !.read[s] = runs, !.approve = {},
              !.reject = IF script.mode = "exclude_only" THEN {}
                         ELSE {Id(g) : g \in {h \in PendingOf(s) : ~IsIyin(h)}}])

\* review_pending: GET the pending suggestions and sort them out.  The exclusion pass
\* leaves Iyin's pending.
ListPending(s) ==
    /\ script.source = {s}
    /\ Reads("listing",
          [script EXCEPT !.pc = "reviewing", !.read[s] = runs,
              !.reject = {Id(g) : g \in {h \in PendingOf(s) : ~IsIyin(h)}},
              !.approve = IF script.mode = "exclude_only" THEN {}
                          ELSE {Id(g) : g \in {h \in PendingOf(s) : IsIyin(h)}}])

\* Every batch has been sent.
SourceReviewed(s) ==
    /\ script.source = {s}
    /\ script.reject = {}
    /\ script.approve = {}
    /\ Reads("reviewing", [script EXCEPT !.pc = IF script.first THEN "sources" ELSE "polling",
                                         !.source = {}, !.completed = @ \cup {s}])

Waiting == script.queued \ (script.completed \cup script.failed)

\* GET the jobs and begin another round over the sources waited for, or end.
Poll ==
    Reads("poll", IF Waiting = {} THEN [script EXCEPT !.pc = "done"]
                  ELSE [script EXCEPT !.pc = "polling", !.todo = Waiting,
                            !.snapshot = [s \in Sources |-> LatestStatus(s)]])

\* Mutant: only a succeeded job ends the wait.
MutLook(s) ==
    /\ s \in script.todo
    /\ Reads("polling",
          [script EXCEPT !.todo = @ \ {s},
              !.source = IF script.snapshot[s] = "succeeded" THEN {s} ELSE {},
              !.pc = IF script.snapshot[s] = "succeeded" THEN "listing" ELSE "polling"])

\* The next source of the round, by what the round has read.
Look(s) ==
    /\ s \in script.todo
    /\ Reads("polling",
          [script EXCEPT !.todo = @ \ {s},
              !.failed = IF script.snapshot[s] = "failed" THEN @ \cup {s} ELSE @,
              !.source = IF script.snapshot[s] = "succeeded" THEN {s} ELSE {},
              !.pc = IF script.snapshot[s] = "succeeded" THEN "listing" ELSE "polling"])

EndOfRound == script.todo = {} /\ Reads("polling", [script EXCEPT !.pc = "poll"])

-----------------------------------------------------------------------------
(* The requests that change something.                                      *)

Died == [script EXCEPT !.pc = "died"]

\* POST /interview-turns/analyze.  Not a mixed interview any more: 422.  An analysis
\* is active: the answer names that job.  Else the server goes on to commit a new one.
Analyze(s) ==
    LET active == \E j \in AnalysesOf(s) : job[j].status \in Active IN
    /\ script.pc = "analyze"
    /\ script.source = {s}
    /\ \/ /\ review[s] # "mixed_speakers"
          /\ script' = Died
          /\ UNCHANGED vars
       \/ /\ review[s] = "mixed_speakers"
          /\ active
          /\ script' = [script EXCEPT !.pc = "sources", !.source = {}, !.queued = @ \cup {s}]
          /\ UNCHANGED vars
       \/ /\ RequestAnalysis(ScriptRequest, s)
          /\ script' = [script EXCEPT !.pc = "queueing"]
    /\ UNCHANGED <<label, requests>>

AnalysisCommitted(j) == CommitJob(ScriptRequest, j) /\ UNCHANGED <<script, label, requests>>

\* The message is sent and the script gets its answer, if it still waits for it.
AnalysisQueued ==
    /\ SendTask(ScriptRequest)
    /\ script' = IF script.pc # "queueing" THEN script
                 ELSE [script EXCEPT !.pc = "sources", !.source = {}, !.queued = @ \cup script.source]
    /\ UNCHANGED <<label, requests>>

AnalysisRefused == SendFails(ScriptRequest) /\ script' = Died /\ UNCHANGED <<label, requests>>

\* The batches that may be sent next.
Batches(ids) == {B \in SUBSET ids : Cardinality(B) = Smaller(BatchSize, Cardinality(ids))}

\* POST /interview-turns/review with the next batch, rejections first.  The server
\* reads the suggestions that are still pending, and answers 404 if one is not.
PostReview ==
    /\ script.pc = "reviewing"
    /\ script.reject \cup script.approve # {}
    /\ LET rejecting == script.reject # {} IN
       \E B \in Batches(IF rejecting THEN script.reject ELSE script.approve) :
          LET picked == {g \in suggestions : g.status = "pending" /\ Id(g) \in B} IN
          IF Cardinality(picked) # Cardinality(B)
          THEN script' = Died /\ UNCHANGED admin
          ELSE /\ script' = [script EXCEPT !.pc = "posting", !.reject = @ \ B, !.approve = @ \ B]
               /\ admin' = [admin EXCEPT ![Script] =
                               [pc |-> IF rejecting THEN "reject" ELSE "approve_as_iyin", picked |-> picked]]
    /\ UNCHANGED <<evidence, job, queue, worker, request, bounds, label, requests>>

\* The server's transaction, and its answer if the script still waits for it.
ReviewCommitted ==
    /\ TurnReject(Script) \/ \E s \in Sources : TurnApprove(Script, s)
    /\ script' = IF script.pc = "posting" THEN [script EXCEPT !.pc = "reviewing"] ELSE script
    /\ UNCHANGED <<label, requests>>

ReviewRefused == TurnReviewFails(Script) /\ script' = Died /\ UNCHANGED <<label, requests>>

\* A request times out or is refused; what the server has begun goes on.
ScriptFails ==
    /\ script.pc \notin {"idle", "done", "died"}
    /\ script' = Died
    /\ UNCHANGED <<vars, label, requests>>

-----------------------------------------------------------------------------
(* The rest of the system.                                                  *)

\* A task; an analysis that is published has labelled the turns of its run.
Task(w) ==
    /\ TaskStep(w)
    /\ \E iyin \in SUBSET Turns :
          /\ runs' = runs => iyin = {}
          /\ label' = label \cup {[run |-> runs', turn |-> t] : t \in iyin}
    /\ UNCHANGED <<script, requests>>

OtherAsks(r) ==
    /\ r # ScriptRequest
    /\ requests < MaxRequests
    /\ requests' = requests + 1
    /\ Asking(r)
    /\ UNCHANGED <<script, label>>

Others ==
    /\ \/ \E S \in SUBSET Sources \ {{}}, decision \in Decisions : SpeakerReview(S, decision)
       \/ \E r \in Requests \ {ScriptRequest} : RequestStep(r) \/ SendFails(r)
       \/ \E w \in Workers : Fault(w)
       \/ \E a \in Admins \ {Script} : TurnReviewStep(a)
    /\ UNCHANGED <<script, label, requests>>

ScriptStep ==
    \/ \E s \in Sources : NextSource(s) \/ ListPending(s) \/ SourceReviewed(s) \/ Look(s) \/ Analyze(s)
    \/ EndOfSources
    \/ Poll
    \/ EndOfRound
    \/ PostReview

\* What the server does for the script.
Served ==
    \/ \E j \in JobIds : AnalysisCommitted(j)
    \/ AnalysisQueued
    \/ ReviewCommitted

ScriptNext ==
    \/ \E mode \in Modes : Begin(mode)
    \/ ScriptStep
    \/ Served
    \/ AnalysisRefused
    \/ ReviewRefused
    \/ ScriptFails
    \/ \E w \in Workers : Task(w)
    \/ \E r \in Requests : OtherAsks(r)
    \/ Others

ScriptSpec == ScriptInit /\ [][ScriptNext]_scriptVars

\* The script runs on, the server ends the requests it has accepted, and Celery
\* keeps its workers busy.
ScriptFairness ==
    /\ WF_scriptVars(ScriptStep)
    /\ WF_scriptVars(Served)
    /\ \A r \in Requests \ {ScriptRequest} :
          WF_scriptVars(RequestStep(r) /\ UNCHANGED <<script, label, requests>>)
    /\ \A w \in Workers : WF_scriptVars(Task(w))

FairScriptSpec == ScriptSpec /\ ScriptFairness

-----------------------------------------------------------------------------
(* Properties.                                                              *)

\* When the script counts a source as reviewed, none of the suggestions it could see is
\* left pending, and only Iyin's after an exclusion pass: what is pending comes from an
\* analysis published since.  When it ends without a failure, that is every interview
\* it has listed.
EndMeansReviewed ==
    /\ \A s \in script.completed : \A g \in PendingOf(s) :
          g.run > script.read[s] \/ (script.mode = "exclude_only" /\ LabelledIyin(g))
    /\ script.pc = "done" /\ script.mode = "all" /\ script.failed = {} =>
          script.listed \subseteq script.completed

\* "publish only OpenAI-labelled Iyin turns" (the script's first line): as long as nobody
\* else reviews turns, a turn that is cited is one that an analysis labelled Iyin's and
\* the script approved, whatever analyses and batches overlap; none after an exclusion pass.
CitedTurnsLabelled ==
    turnReviews = 0 /\ ~AutoPublish => \A c \in Citable : c.kind = "turn" =>
        /\ script.mode # "exclude_only"
        /\ \E g \in SuggestionsOf(c.source) : g.turn = c.text /\ g.status = "approved" /\ LabelledIyin(g)

\* The script ends, whatever fails, dies or is repeated, if no message is lost.  A job
\* whose message is lost it polls for ever.
ScriptEnds == script.pc # "idle" ~> script.pc \in {"done", "died"} \/ losses > 0
=============================================================================
