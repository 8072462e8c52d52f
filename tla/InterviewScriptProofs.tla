------------------------ MODULE InterviewScriptProofs ------------------------
(***************************************************************************)
(* What InterviewScript keeps for every value of the constants: what the    *)
(* review system keeps, kept with the script among its administrators, and  *)
(* what the script promises about the interviews it has gone through.       *)
(***************************************************************************)
EXTENDS InterviewScript, EvidenceReviewProofs

-----------------------------------------------------------------------------
(* The script's steps are steps of the review system, but for one.          *)

\* A review the script asks for begins like any other one; only the bound on the turn
\* reviews of others does not count it.
Posted ==
    /\ \E decision \in {"reject", "approve_as_iyin"}, picked \in SUBSET suggestions :
          admin' = [admin EXCEPT ![Script] = [pc |-> decision, picked |-> picked]]
    /\ UNCHANGED <<evidence, job, queue, worker, request, bounds>>

LEMMA PostReviewIsPosted ==
    ASSUME PostReview
    PROVE  Posted \/ UNCHANGED vars
<1> DEFINE rejecting == script.reject # {}
           asked == IF rejecting THEN script.reject ELSE script.approve
<1>1. PICK B \in Batches(asked) :
        LET picked == {g \in suggestions : g.status = "pending" /\ Id(g) \in B} IN
        IF Cardinality(picked) # Cardinality(B)
        THEN UNCHANGED admin
        ELSE admin' = [admin EXCEPT ![Script] =
                          [pc |-> IF rejecting THEN "reject" ELSE "approve_as_iyin", picked |-> picked]]
  BY Zenon DEF PostReview
<1>2. UNCHANGED <<evidence, job, queue, worker, request, bounds>>
  BY DEF PostReview
<1> DEFINE picked == {g \in suggestions : g.status = "pending" /\ Id(g) \in B}
           decision == IF rejecting THEN "reject" ELSE "approve_as_iyin"
<1>3. picked \in SUBSET suggestions /\ decision \in {"reject", "approve_as_iyin"}
  OBVIOUS
<1>4. UNCHANGED admin \/ admin' = [admin EXCEPT ![Script] = [pc |-> decision, picked |-> picked]]
  BY <1>1
<1> HIDE DEF picked, decision
<1> QED
  BY <1>2, <1>3, <1>4 DEF Posted, vars, evidence, bounds

\* Every step but PostReview is one of the review system, or none.
LEMMA StepsButPost ==
    ASSUME [ScriptNext]_scriptVars
    PROVE  [Next]_vars \/ PostReview
<1>1. ASSUME NEW mode \in Modes, Begin(mode) PROVE UNCHANGED vars
  BY <1>1 DEF Begin, Reads
<1>2. ASSUME NEW s \in Sources,
             NextSource(s) \/ ListPending(s) \/ SourceReviewed(s) \/ Look(s)
      PROVE  UNCHANGED vars
  BY <1>2 DEF NextSource, ListPending, SourceReviewed, Look, Reads
<1>3. ASSUME EndOfSources \/ Poll \/ EndOfRound PROVE UNCHANGED vars
  BY <1>3 DEF EndOfSources, Poll, EndOfRound, Reads
<1>4. ASSUME NEW s \in Sources, Analyze(s) PROVE UNCHANGED vars \/ Next
  <2>1. UNCHANGED vars \/ RequestAnalysis(ScriptRequest, s)
    BY <1>4 DEF Analyze
  <2> QED
    BY <2>1, ScriptAssumption DEF Next, Asking
<1>5. ASSUME Served PROVE Next
  BY <1>5, ScriptAssumption DEF Served, AnalysisCommitted, AnalysisQueued, ReviewCommitted, Next,
     RequestStep, TurnReviewStep
<1>6. ASSUME AnalysisRefused \/ ReviewRefused PROVE Next
  BY <1>6, ScriptAssumption DEF AnalysisRefused, ReviewRefused, Next, TurnReviewStep
<1>7. ASSUME ScriptFails PROVE UNCHANGED vars
  BY <1>7 DEF ScriptFails
<1>8. ASSUME NEW w \in Workers, Task(w) PROVE Next
  BY <1>8 DEF Task, Next
<1>9. ASSUME NEW r \in Requests, OtherAsks(r) PROVE Next
  BY <1>9 DEF OtherAsks, Next
<1>10. ASSUME Others PROVE Next
  BY <1>10 DEF Others, Next
<1>11. CASE UNCHANGED scriptVars
  BY <1>11 DEF scriptVars
<1> QED
  BY <1>1, <1>2, <1>3, <1>4, <1>5, <1>6, <1>7, <1>8, <1>9, <1>10, <1>11
     DEF ScriptNext, ScriptStep

LEMMA ScriptSteps ==
    ASSUME [ScriptNext]_scriptVars
    PROVE  [Next]_vars \/ Posted
BY StepsButPost, PostReviewIsPosted

-----------------------------------------------------------------------------
(* What the review system keeps, it keeps with the script.                  *)

LEMMA PostedType ==
    ASSUME TypeOK, Posted
    PROVE  TypeOK'
<1>1. PICK decision \in {"reject", "approve_as_iyin"}, picked \in SUBSET suggestions :
        admin' = [admin EXCEPT ![Script] = [pc |-> decision, picked |-> picked]]
  BY DEF Posted
<1>2. [pc |-> decision, picked |-> picked] \in AdminState
  BY DEF AdminState, TypeOK, EvidenceOK
<1>3. AdminsOK'
  BY <1>1, <1>2, AdminUpdate, ScriptAssumption DEF TypeOK
<1> QED
  BY <1>3 DEF Posted, TypeOK, EvidenceOK, JobsOK, WorkersOK, RequestsOK, BoundsOK, evidence, bounds

LEMMA ScriptTypeStep == TypeOK /\ [ScriptNext]_scriptVars => TypeOK'
BY ScriptSteps, TypeStep, PostedType

\* The tables and processes keep their types with the script at work.
THEOREM ScriptTypeCorrect == ScriptSpec => []TypeOK
<1>1. ScriptInit => TypeOK
  BY TypeInit DEF ScriptInit
<1> QED
  BY <1>1, ScriptTypeStep, PTL DEF ScriptSpec

\* An approved suggestion has its chunk, also when the script approves what another
\* administrator or a newer analysis has dealt with meanwhile.
THEOREM ScriptApprovedCorrect == ScriptSpec => []ApprovedHasChunk
<1>1. ScriptInit => TypeOK /\ ApprovedHasChunk
  BY TypeInit DEF ScriptInit, Init, ApprovedHasChunk
<1>2. ApprovedHasChunk /\ Posted => ApprovedHasChunk'
  BY DEF Posted, ApprovedHasChunk, evidence
<1>3. TypeOK /\ ApprovedHasChunk /\ [ScriptNext]_scriptVars => (TypeOK /\ ApprovedHasChunk)'
  BY <1>2, ScriptSteps, ScriptTypeStep, ApprovedStep
<1> QED
  BY <1>1, <1>3, PTL DEF ScriptSpec

LEMMA ScriptReviewInit == ScriptInit => ReviewInv
<1> SUFFICES ASSUME ScriptInit PROVE ReviewInv
  OBVIOUS
<1>1. PickedStored
  BY DEF ScriptInit, Init, IdleAdmin, PickedStored
<1>2. TurnsReviewed
  BY DEF ScriptInit, Init, TurnsReviewed
<1> QED
  BY <1>1, <1>2, TypeInit DEF ReviewInv, ScriptInit

LEMMA ScriptReviewStep == ~AutoPublish /\ ReviewInv /\ [ScriptNext]_scriptVars => ReviewInv'
<1> SUFFICES ASSUME ~AutoPublish, ReviewInv, [ScriptNext]_scriptVars PROVE ReviewInv'
  OBVIOUS
<1>1. CASE [Next]_vars
  BY <1>1, ReviewStep
<1>2. CASE Posted
  <2>1. TurnsReviewed'
    BY <1>2 DEF Posted, ReviewInv, TurnsReviewed, evidence
  <2>2. \A a \in Admins : \A h \in admin'[a].picked : h \in admin[a].picked \/ h \in suggestions
    <3>1. PICK decision \in {"reject", "approve_as_iyin"}, picked \in SUBSET suggestions :
            admin' = [admin EXCEPT ![Script] = [pc |-> decision, picked |-> picked]]
      BY <1>2 DEF Posted
    <3> QED
      BY <3>1 DEF ReviewInv, TypeOK, AdminsOK
  <2>3. PickedStored'
    BY <1>2, <2>2 DEF Posted, ReviewInv, PickedStored, SameKey, evidence
  <2> QED
    BY <1>2, <2>1, <2>3, PostedType DEF ReviewInv
<1> QED
  BY <1>1, <1>2, ScriptSteps

\* While auto-publish is off no turn is citable that nobody has reviewed: the script
\* approves with an administrator's credentials and leaves its mark like one.
THEOREM ScriptAdminCorrect ==
    ASSUME ~AutoPublish
    PROVE  ScriptSpec => []TurnsApprovedByAdmin
<1>1. ReviewInv /\ [ScriptNext]_scriptVars => ReviewInv'
  BY ScriptReviewStep
<1>2. ReviewInv => TurnsApprovedByAdmin
  BY DEF ReviewInv, TurnsReviewed, TurnsApprovedByAdmin, Citable
<1> QED
  BY <1>1, <1>2, ScriptReviewInit, PTL DEF ScriptSpec

-----------------------------------------------------------------------------
(* The script has reviewed what it counts as reviewed.                      *)

ScriptFields == {"pc", "mode", "first", "listed", "todo", "source", "reject", "approve",
                 "queued", "completed", "failed", "snapshot", "read"}

\* The fields of the script's state, and what its position says of them.
ScriptOK ==
    /\ DOMAIN script = ScriptFields
    /\ script.read \in [Sources -> Nat]
    /\ script.completed \subseteq Sources
    /\ script.pc \in {"sources", "analyze", "queueing"} => script.first
    /\ script.pc \in {"poll", "polling"} => ~script.first
    /\ script.pc \in {"sources", "poll", "polling"} => script.source = {}
    /\ script.source \cap script.todo = {}
    /\ script.completed \cap (script.source \cup script.todo) = {}

\* Runs are numbered upwards: what the script has read is not younger than the last one.
RunsBounded ==
    /\ \A g \in suggestions : g.run <= runs
    /\ \A s \in Sources : script.read[s] <= runs

\* The suggestions of s that the script has read are decided, but for those in ids.
Decided(s, ids) ==
    \A g \in PendingOf(s) :
        \/ g.run > script.read[s]
        \/ Id(g) \in ids
        \/ script.mode = "exclude_only" /\ LabelledIyin(g)

\* What the request in progress will decide.
InFlight == {Id(h) : h \in admin[Script].picked}

\* A suggestion the script has read is decided, still to be sent, or on its way.
ReviewProgress ==
    /\ \A s \in script.completed : Decided(s, {})
    /\ \A s \in Sources : script.source = {s} =>
          /\ script.pc = "reviewing" => Decided(s, script.reject \cup script.approve)
          /\ script.pc = "posting" => Decided(s, script.reject \cup script.approve \cup InFlight)
    /\ script.pc = "posting" => admin[Script].pc \in {"reject", "approve_as_iyin"}

\* No interview the script has listed is forgotten.
NoneForgotten ==
    script.mode = "all" =>
        /\ script.first => script.listed \subseteq script.completed \cup script.queued \cup script.todo
                                                   \cup script.source
        /\ ~script.first => script.listed \subseteq script.completed \cup script.queued \cup script.failed
        /\ script.pc = "done" => script.listed \subseteq script.completed \cup script.failed

ProgressInv == TypeOK /\ ScriptOK /\ RunsBounded /\ ReviewProgress /\ NoneForgotten

\* The other requests and administrators do not touch the script's review.
LEMMA OthersLeaveScript ==
    ASSUME TypeOK, Others
    PROVE  UNCHANGED admin[Script]
<1>1. ASSUME NEW r \in Requests, RequestStep(r) \/ SendFails(r) PROVE UNCHANGED admin
  BY <1>1 DEF RequestStep, CommitJob, SendTask, SendFails
<1>2. ASSUME NEW w \in Workers, Fault(w) PROVE UNCHANGED admin
  BY <1>2 DEF Fault, TaskFails, Redeliver, WorkerDies, ChildKilled
<1>3. ASSUME NEW a \in Admins \ {Script}, TurnReviewStep(a) PROVE UNCHANGED admin[Script]
  <2>1. \E q : admin' = [admin EXCEPT ![a] = q]
    BY <1>3, Zenon DEF TurnReviewStep, TurnReviewRead, TurnReject, TurnApprove, TurnReviewFails
  <2> QED
    BY <2>1, ScriptAssumption DEF TypeOK, AdminsOK
<1> QED
  BY <1>1, <1>2, <1>3 DEF Others, SpeakerReview

LEMMA RunsStep ==
    ASSUME TypeOK, [Next]_vars
    PROVE  /\ runs \in Nat /\ runs' \in Nat /\ runs <= runs'
           /\ \A g \in suggestions' : g.run = runs' \/ \E h \in suggestions : h.run = g.run
           /\ \A g \in suggestions' : g.status = "pending" => g \in suggestions \/ g.run = runs + 1
<1> DEFINE Grows == /\ runs' \in Nat /\ runs <= runs'
                    /\ \A g \in suggestions' : g.run = runs' \/ \E h \in suggestions : h.run = g.run
                    /\ \A g \in suggestions' : g.status = "pending" => g \in suggestions \/ g.run = runs + 1
<1>1. runs \in Nat /\ suggestions \subseteq Suggestion
  BY DEF TypeOK, BoundsOK, EvidenceOK
<1>2. ASSUME NEW w \in Workers, NEW s \in Sources, NEW confident \in SUBSET Turns,
             AnalysisPublish(w, s, confident)
      PROVE  Grows
  <2>1. runs' = runs + 1
    BY <1>2 DEF AnalysisPublish
  <2>2. ASSUME NEW g \in suggestions'
        PROVE  \/ g \in suggestions
               \/ g.status = "superseded" /\ \E h \in suggestions : h.run = g.run
               \/ g.run = runs + 1
    <3>1. PICK v : suggestions' =
            {IF h.source = s /\ h.status = "pending" THEN [h EXCEPT !.status = "superseded"] ELSE h
                : h \in suggestions} \cup NewSuggestions(s, runs + 1, confident, v)
      BY <1>2 DEF AnalysisPublish
    <3>2. CASE g \in NewSuggestions(s, runs + 1, confident, v)
      BY <3>2 DEF NewSuggestions
    <3>3. ASSUME NEW h \in suggestions, g = [h EXCEPT !.status = "superseded"]
          PROVE  g.status = "superseded" /\ g.run = h.run
      BY <1>1, <3>3 DEF Suggestion
    <3> QED
      BY <3>1, <3>2, <3>3
  <2> QED
    BY <1>1, <2>1, <2>2
<1>3. ASSUME NEW r \in Requests, Asking(r) \/ RequestStep(r) \/ SendFails(r) PROVE UNCHANGED <<suggestions, runs>>
  BY <1>3 DEF Asking, RequestCleanup, RequestAnalysis, Ask, RequestStep, CommitJob, SendTask, SendFails,
     evidence, bounds
<1>4. ASSUME NEW w \in Workers, Fault(w) PROVE UNCHANGED <<suggestions, runs>>
  BY <1>4 DEF Fault, TaskFails, Redeliver, WorkerDies, ChildKilled, evidence, bounds
<1>5. ASSUME NEW w \in Workers, TaskStep(w)
      PROVE  \/ UNCHANGED <<suggestions, runs>>
             \/ \E s \in Sources, confident \in SUBSET Turns : AnalysisPublish(w, s, confident)
  BY <1>5 DEF TaskStep, StartCleanup, StartAnalysis, CleanRead, CleanPublish, CleanEnd, evidence, bounds
<1>6. ASSUME NEW a \in Admins, TurnReject(a) PROVE Grows
  <2>1. ASSUME NEW g \in suggestions'
        PROVE  g \in suggestions \/ (g.status = "rejected" /\ \E h \in suggestions : h.run = g.run)
    <3>1. PICK h \in suggestions : g = h \/ g = [h EXCEPT !.status = "rejected", !.reviewer = "admin"]
      BY <1>6 DEF TurnReject
    <3> QED
      BY <1>1, <3>1 DEF Suggestion
  <2>2. UNCHANGED runs
    BY <1>6 DEF TurnReject, bounds
  <2> QED
    BY <1>1, <2>1, <2>2
<1>7. ASSUME NEW a \in Admins, NEW s \in Sources, TurnApprove(a, s) PROVE Grows
  <2>1. ASSUME NEW g \in suggestions'
        PROVE  g \in suggestions \/ (g.status = "approved" /\ \E h \in suggestions : h.run = g.run)
    <3>1. PICK h \in suggestions : g = h \/ g = [h EXCEPT !.status = "approved", !.reviewer = "admin",
                                                          !.chunk = version[s] + 1]
      BY <1>7 DEF TurnApprove
    <3> QED
      BY <1>1, <3>1 DEF Suggestion
  <2>2. UNCHANGED runs
    BY <1>7 DEF TurnApprove, bounds
  <2> QED
    BY <1>1, <2>1, <2>2
<1>8. ASSUME UNCHANGED <<suggestions, runs>> PROVE Grows
  BY <1>1, <1>8
<1>9. ASSUME NEW a \in Admins, TurnReviewStep(a)
      PROVE  UNCHANGED <<suggestions, runs>> \/ TurnReject(a) \/ \E s \in Sources : TurnApprove(a, s)
  BY <1>9 DEF TurnReviewStep, TurnReviewRead, TurnReviewFails, evidence, bounds
<1>10. ASSUME NEW S \in SUBSET Sources, NEW decision \in Decisions, SpeakerReview(S, decision)
       PROVE  UNCHANGED <<suggestions, runs>>
  BY <1>10 DEF SpeakerReview
<1>11. ASSUME UNCHANGED vars PROVE Grows
  BY <1>8, <1>11 DEF vars
<1> SUFFICES Grows
  BY <1>1
<1> HIDE DEF Grows
<1>12. ASSUME Next
       PROVE  \/ UNCHANGED <<suggestions, runs>>
              \/ \E w \in Workers, s \in Sources, confident \in SUBSET Turns : AnalysisPublish(w, s, confident)
              \/ \E a \in Admins : TurnReject(a) \/ \E s \in Sources : TurnApprove(a, s)
  BY <1>3, <1>4, <1>5, <1>9, <1>10, <1>12 DEF Next
<1>13. CASE Next
  BY <1>2, <1>6, <1>7, <1>8, <1>12, <1>13
<1> QED
  BY <1>11, <1>13

\* What is decided stays so: a step adds pending suggestions of a new run only.
LEMMA DecidedKept ==
    ASSUME NEW s \in Sources, NEW ids, Decided(s, ids), RunsBounded, TypeOK, [Next]_vars,
           ScriptOK, UNCHANGED <<script.read, script.mode>>, label \subseteq label'
    PROVE  Decided(s, ids)'
<1> SUFFICES ASSUME NEW g \in PendingOf(s)'
             PROVE  \/ g.run > script.read[s]
                    \/ Id(g) \in ids
                    \/ script.mode = "exclude_only" /\ LabelledIyin(g)'
  BY DEF Decided, Id
<1>1. g \in suggestions' /\ g.source = s /\ g.status = "pending"
  BY DEF PendingOf, SuggestionsOf
<1>2. g \in suggestions \/ g.run = runs + 1
  BY <1>1, RunsStep
<1>3. CASE g \in suggestions
  <2>1. g \in PendingOf(s)
    BY <1>1, <1>3 DEF PendingOf, SuggestionsOf
  <2> QED
    BY <2>1 DEF Decided, LabelledIyin
<1>4. CASE g.run = runs + 1
  <2>1. script.read[s] \in Nat /\ runs \in Nat /\ script.read[s] <= runs
    BY DEF ScriptOK, TypeOK, BoundsOK, RunsBounded
  <2> QED
    BY <1>4, <2>1
<1> QED
  BY <1>2, <1>3, <1>4

LEMMA RunsBoundedKept ==
    ASSUME RunsBounded, ScriptOK, TypeOK, [Next]_vars, UNCHANGED script.read, TypeOK'
    PROVE  RunsBounded'
<1>1. runs \in Nat /\ runs' \in Nat /\ runs <= runs'
  BY RunsStep
<1>2. ASSUME NEW g \in suggestions' PROVE g.run <= runs'
  <2>1. g.run = runs' \/ \E h \in suggestions : h.run = g.run
    BY RunsStep
  <2>2. \A h \in suggestions : h.run \in Nat /\ h.run <= runs
    BY DEF RunsBounded, TypeOK, EvidenceOK, Suggestion
  <2> QED
    BY <1>1, <2>1, <2>2
<1>3. ASSUME NEW s \in Sources PROVE script'.read[s] <= runs'
  <2>1. script.read[s] \in Nat /\ script.read[s] <= runs
    BY DEF RunsBounded, ScriptOK
  <2> QED
    BY <1>1, <2>1
<1> QED
  BY <1>2, <1>3 DEF RunsBounded

\* Whatever the rest of the system does between two steps of the script, and whatever
\* ends the script.
LEMMA ProgressOthers ==
    ASSUME ProgressInv, TypeOK', [Next]_vars, script' = script \/ script' = Died,
           script'.pc = "posting" => UNCHANGED admin[Script], label \subseteq label'
    PROVE  ProgressInv'
<1>1. TypeOK /\ ScriptOK /\ RunsBounded /\ ReviewProgress /\ NoneForgotten
  BY DEF ProgressInv
<1>2. /\ DOMAIN script' = ScriptFields
      /\ script'.pc = script.pc \/ script'.pc = "died"
      /\ UNCHANGED <<script.read, script.mode, script.first, script.listed, script.todo, script.source,
                     script.reject, script.approve, script.queued, script.completed, script.failed>>
  BY <1>1 DEF Died, ScriptOK, ScriptFields
<1>3. ScriptOK' /\ NoneForgotten'
  BY <1>1, <1>2 DEF ScriptOK, NoneForgotten
<1>4. RunsBounded'
  BY <1>1, <1>2, RunsBoundedKept
<1>5. \A s \in Sources : \A ids : Decided(s, ids) => Decided(s, ids)'
  BY <1>1, <1>2, DecidedKept
<1>6. ReviewProgress'
  <2>1. PICK unsent, flight : unsent = script.reject \cup script.approve /\ flight = InFlight
    OBVIOUS
  <2>2. /\ unsent = (script.reject \cup script.approve)'
        /\ script'.pc = "posting" => flight = InFlight' /\ script.pc = "posting"
    BY <1>2, <2>1 DEF InFlight
  <2>3. \A s \in script.completed : Decided(s, {})'
    BY <1>1, <1>5 DEF ReviewProgress, ScriptOK
  <2>4. \A s \in Sources : script.source = {s} =>
          /\ script.pc = "reviewing" => Decided(s, unsent)'
          /\ script.pc = "posting" => Decided(s, unsent \cup flight)'
    BY <1>1, <1>5, <2>1 DEF ReviewProgress
  <2> QED
    BY <1>1, <1>2, <2>2, <2>3, <2>4 DEF ReviewProgress
<1> QED
  BY <1>3, <1>4, <1>6 DEF ProgressInv

LEMMA DecidedSame ==
    ASSUME NEW s \in Sources, NEW ids, Decided(s, ids), UNCHANGED <<suggestions, label>>,
           script'.read[s] = script.read[s], script'.mode = script.mode
    PROVE  Decided(s, ids)'
BY DEF Decided, PendingOf, SuggestionsOf, LabelledIyin, Id

\* The steps of the script that leave the suggestions alone, and do not begin to review.
LEMMA ProgressReads ==
    ASSUME ProgressInv, TypeOK', UNCHANGED <<suggestions, runs, label>>,
           ScriptOK', NoneForgotten',
           UNCHANGED <<script.read, script.mode>>,
           script'.pc \notin {"reviewing", "posting"},
           \A s \in script'.completed \ script.completed : Decided(s, {})
    PROVE  ProgressInv'
<1>1. TypeOK /\ ScriptOK /\ RunsBounded /\ ReviewProgress /\ NoneForgotten
  BY DEF ProgressInv
<1>2. \A s \in script'.completed : s \in Sources /\ Decided(s, {})
  BY <1>1 DEF ReviewProgress, ScriptOK
<1>3. \A s \in script'.completed : Decided(s, {})'
  BY <1>2, DecidedSame
<1>4. ReviewProgress'
  BY <1>3 DEF ReviewProgress
<1>5. RunsBounded'
  BY <1>1 DEF RunsBounded
<1> QED
  BY <1>4, <1>5 DEF ProgressInv

LEMMA ProgressBegin ==
    ASSUME ProgressInv, TypeOK', NEW mode, Begin(mode)
    PROVE  ProgressInv'
<1>1. PICK mixed : script' = [IdleScript EXCEPT !.pc = "sources", !.mode = mode, !.listed = mixed, !.todo = mixed]
  BY DEF Begin, Reads
<1>2. /\ DOMAIN script' = ScriptFields
      /\ script'.read = [s \in Sources |-> 0]
      /\ script'.completed = {} /\ script'.source = {} /\ script'.pc = "sources" /\ script'.first
      /\ script'.listed = mixed /\ script'.todo = mixed
  BY <1>1 DEF IdleScript, ScriptFields
<1>3. ScriptOK' /\ NoneForgotten' /\ ReviewProgress'
  BY <1>2 DEF ScriptOK, NoneForgotten, ReviewProgress
<1>4. UNCHANGED <<suggestions, runs>>
  BY DEF Begin, Reads, vars
<1>5. RunsBounded'
  BY <1>2, <1>4 DEF ProgressInv, RunsBounded, TypeOK, BoundsOK
<1> QED
  BY <1>3, <1>5 DEF ProgressInv

LEMMA ProgressList ==
    ASSUME ProgressInv, TypeOK', NEW s \in Sources, ListPending(s)
    PROVE  ProgressInv'
<1>1. TypeOK /\ ScriptOK /\ RunsBounded /\ ReviewProgress /\ NoneForgotten
  BY DEF ProgressInv
<1>2. script.source = {s} /\ UNCHANGED <<suggestions, runs, label>>
  BY DEF ListPending, Reads, vars
<1>3. PICK rejected, approved :
        /\ rejected = {Id(g) : g \in {h \in PendingOf(s) : ~IsIyin(h)}}
        /\ approved = IF script.mode = "exclude_only" THEN {}
                      ELSE {Id(g) : g \in {h \in PendingOf(s) : IsIyin(h)}}
        /\ script' = [script EXCEPT !.pc = "reviewing", !.read[s] = runs, !.reject = rejected, !.approve = approved]
  BY DEF ListPending, Reads
<1>4. /\ DOMAIN script' = ScriptFields
      /\ script'.read = [script.read EXCEPT ![s] = runs] /\ script'.pc = "reviewing"
      /\ script'.reject = rejected /\ script'.approve = approved
      /\ UNCHANGED <<script.mode, script.first, script.listed, script.todo, script.source,
                     script.queued, script.completed, script.failed>>
  BY <1>1, <1>3 DEF ScriptOK, ScriptFields
<1>5. ScriptOK' /\ RunsBounded' /\ NoneForgotten'
  BY <1>1, <1>2, <1>4 DEF ScriptOK, RunsBounded, NoneForgotten, TypeOK, BoundsOK
<1>6. ASSUME NEW x \in script'.completed PROVE Decided(x, {})'
  <2>1. x \in Sources /\ x # s /\ Decided(x, {})
    BY <1>1, <1>2, <1>4 DEF ScriptOK, ReviewProgress
  <2>2. script'.read[x] = script.read[x]
    BY <1>1, <1>4, <2>1 DEF ScriptOK
  <2> QED
    BY <1>2, <1>4, <2>1, <2>2, DecidedSame
<1>7. Decided(s, rejected \cup approved)'
  <2> SUFFICES ASSUME NEW g \in PendingOf(s)
               PROVE  Id(g) \in rejected \cup approved \/ (script.mode = "exclude_only" /\ LabelledIyin(g))
    BY <1>2, <1>4 DEF Decided, PendingOf, SuggestionsOf, LabelledIyin, Id
  <2> QED
    BY <1>3 DEF IsIyin
<1>8. ReviewProgress'
  BY <1>2, <1>4, <1>6, <1>7 DEF ReviewProgress
<1> QED
  BY <1>5, <1>8 DEF ProgressInv

\* The steps that only move on from source to source.
LEMMA ProgressMoves ==
    ASSUME ProgressInv, TypeOK',
           \/ \E s \in Sources : NextSource(s) \/ SourceReviewed(s) \/ Look(s)
           \/ EndOfSources \/ Poll \/ EndOfRound
    PROVE  ProgressInv'
<1>1. TypeOK /\ ScriptOK /\ RunsBounded /\ ReviewProgress /\ NoneForgotten
  BY DEF ProgressInv
<1>2. ASSUME NEW pc, NEW next, Reads(pc, next),
             DOMAIN next = ScriptFields, next.read = script.read, next.mode = script.mode,
             next.pc \notin {"reviewing", "posting"},
             \A s \in next.completed \ script.completed : s \in Sources /\ Decided(s, {}),
             ScriptOK', NoneForgotten'
      PROVE  ProgressInv'
  BY <1>2, ProgressReads DEF Reads, vars
<1>3. ASSUME NEW s \in Sources, NextSource(s) PROVE ProgressInv'
  <2>1. PICK next :
          /\ Reads("sources", next)
          /\ s \in script.todo
          /\ next = [script EXCEPT !.todo = @ \ {s},
              !.source = IF SuggestionsOf(s) = {} /\ script.mode # "all" THEN {} ELSE {s},
              !.pc = IF SuggestionsOf(s) # {} THEN "listing"
                     ELSE IF script.mode = "all" THEN "analyze" ELSE "sources"]
    BY <1>3 DEF NextSource
  <2>2. /\ DOMAIN next = ScriptFields
        /\ next.todo = script.todo \ {s}
        /\ next.source = IF SuggestionsOf(s) = {} /\ script.mode # "all" THEN {} ELSE {s}
        /\ next.pc = IF SuggestionsOf(s) # {} THEN "listing"
                     ELSE IF script.mode = "all" THEN "analyze" ELSE "sources"
        /\ next.read = script.read /\ next.mode = script.mode /\ next.completed = script.completed
        /\ next.first = script.first /\ next.listed = script.listed /\ next.queued = script.queued
        /\ next.failed = script.failed
    BY <1>1, <2>1 DEF ScriptOK, ScriptFields
  <2>3. script' = next /\ script.pc = "sources"
    BY <2>1 DEF Reads
  <2>4. ScriptOK' /\ NoneForgotten'
    BY <1>1, <2>1, <2>2, <2>3 DEF ScriptOK, NoneForgotten
  <2>7. /\ Reads("sources", next) /\ DOMAIN next = ScriptFields
        /\ next.read = script.read /\ next.mode = script.mode
        /\ next.pc \notin {"reviewing", "posting"}
        /\ \A x \in next.completed \ script.completed : x \in Sources /\ Decided(x, {})
    BY <2>1, <2>2
  <2> QED
    BY <1>2, <2>4, <2>7
<1>4. ASSUME NEW s \in Sources, SourceReviewed(s) PROVE ProgressInv'
  <2>1. PICK next :
          /\ Reads("reviewing", next)
          /\ next = [script EXCEPT !.pc = IF script.first THEN "sources" ELSE "polling",
                                   !.source = {}, !.completed = @ \cup {s}]
    BY <1>4 DEF SourceReviewed
  <2>2. /\ DOMAIN next = ScriptFields
        /\ next.todo = script.todo /\ next.source = {}
        /\ next.pc = IF script.first THEN "sources" ELSE "polling"
        /\ next.read = script.read /\ next.mode = script.mode /\ next.completed = script.completed \cup {s}
        /\ next.first = script.first /\ next.listed = script.listed /\ next.queued = script.queued
        /\ next.failed = script.failed
    BY <1>1, <2>1 DEF ScriptOK, ScriptFields
  <2>3. script' = next /\ script.pc = "reviewing" /\ script.source = {s} /\ script.reject = {} /\ script.approve = {}
    BY <1>4, <2>1 DEF SourceReviewed, Reads
  <2>4. ScriptOK' /\ NoneForgotten'
    BY <1>1, <2>1, <2>2, <2>3 DEF ScriptOK, NoneForgotten
  <2>5. Decided(s, {} \cup {})
    BY <1>1, <2>3 DEF ReviewProgress
  <2>6. Decided(s, {})
    BY <2>5 DEF Decided
  <2>7. /\ Reads("reviewing", next) /\ DOMAIN next = ScriptFields
        /\ next.read = script.read /\ next.mode = script.mode
        /\ next.pc \notin {"reviewing", "posting"}
        /\ \A x \in next.completed \ script.completed : x \in Sources /\ Decided(x, {})
    BY <2>1, <2>2, <2>6
  <2> QED
    BY <1>2, <2>4, <2>7
<1>5. ASSUME NEW s \in Sources, Look(s) PROVE ProgressInv'
  <2>1. PICK next :
          /\ Reads("polling", next)
          /\ s \in script.todo
          /\ next = [script EXCEPT !.todo = @ \ {s},
              !.failed = IF script.snapshot[s] = "failed" THEN @ \cup {s} ELSE @,
              !.source = IF script.snapshot[s] = "succeeded" THEN {s} ELSE {},
              !.pc = IF script.snapshot[s] = "succeeded" THEN "listing" ELSE "polling"]
    BY <1>5 DEF Look
  <2>2. /\ DOMAIN next = ScriptFields
        /\ next.todo = script.todo \ {s}
        /\ next.source = IF script.snapshot[s] = "succeeded" THEN {s} ELSE {}
        /\ next.pc = IF script.snapshot[s] = "succeeded" THEN "listing" ELSE "polling"
        /\ next.read = script.read /\ next.mode = script.mode /\ next.completed = script.completed
        /\ next.first = script.first /\ next.listed = script.listed /\ next.queued = script.queued
        /\ script.failed \subseteq next.failed
    BY <1>1, <2>1 DEF ScriptOK, ScriptFields
  <2>3. script' = next /\ script.pc = "polling"
    BY <2>1 DEF Reads
  <2>4. ScriptOK' /\ NoneForgotten'
    BY <1>1, <2>1, <2>2, <2>3 DEF ScriptOK, NoneForgotten
  <2>7. /\ Reads("polling", next) /\ DOMAIN next = ScriptFields
        /\ next.read = script.read /\ next.mode = script.mode
        /\ next.pc \notin {"reviewing", "posting"}
        /\ \A x \in next.completed \ script.completed : x \in Sources /\ Decided(x, {})
    BY <2>1, <2>2
  <2> QED
    BY <1>2, <2>4, <2>7
<1>6. CASE EndOfSources
  <2>1. PICK next :
          /\ Reads("sources", next)
          /\ next = [script EXCEPT !.first = FALSE, !.pc = IF script.mode = "all" THEN "poll" ELSE "done"]
    BY <1>6 DEF EndOfSources
  <2>2. /\ DOMAIN next = ScriptFields
        /\ next.todo = script.todo /\ next.source = script.source /\ next.first = FALSE
        /\ next.pc = IF script.mode = "all" THEN "poll" ELSE "done"
        /\ next.read = script.read /\ next.mode = script.mode /\ next.completed = script.completed
        /\ next.listed = script.listed /\ next.queued = script.queued /\ next.failed = script.failed
    BY <1>1, <2>1 DEF ScriptOK, ScriptFields
  <2>3. script' = next /\ script.pc = "sources" /\ script.todo = {}
    BY <1>6, <2>1 DEF EndOfSources, Reads
  <2>4. ScriptOK' /\ NoneForgotten'
    BY <1>1, <2>1, <2>2, <2>3 DEF ScriptOK, NoneForgotten
  <2>7. /\ Reads("sources", next) /\ DOMAIN next = ScriptFields
        /\ next.read = script.read /\ next.mode = script.mode
        /\ next.pc \notin {"reviewing", "posting"}
        /\ \A x \in next.completed \ script.completed : x \in Sources /\ Decided(x, {})
    BY <2>1, <2>2
  <2> QED
    BY <1>2, <2>4, <2>7
<1>7. CASE Poll
  <2>1. PICK next, snapshot :
          /\ Reads("poll", next)
          /\ next = IF Waiting = {} THEN [script EXCEPT !.pc = "done"]
                    ELSE [script EXCEPT !.pc = "polling", !.todo = Waiting, !.snapshot = snapshot]
    BY <1>7 DEF Poll
  <2>2. /\ DOMAIN next = ScriptFields
        /\ Waiting = {} => next.todo = script.todo /\ next.pc = "done"
        /\ Waiting # {} => next.todo = Waiting /\ next.pc = "polling"
        /\ next.source = script.source /\ next.first = script.first
        /\ next.read = script.read /\ next.mode = script.mode /\ next.completed = script.completed
        /\ next.listed = script.listed /\ next.queued = script.queued /\ next.failed = script.failed
    BY <1>1, <2>1 DEF ScriptOK, ScriptFields
  <2>3. script' = next /\ script.pc = "poll"
    BY <2>1 DEF Reads
  <2>4. script.source = {} /\ ~script.first
    BY <1>1, <2>3 DEF ScriptOK
  <2>5. ScriptOK' /\ NoneForgotten'
    BY <1>1, <2>2, <2>3, <2>4 DEF ScriptOK, NoneForgotten, Waiting
  <2> QED
    BY <1>2, <2>1, <2>2, <2>5
<1>8. CASE EndOfRound
  <2>1. PICK next : Reads("polling", next) /\ next = [script EXCEPT !.pc = "poll"]
    BY <1>8 DEF EndOfRound
  <2>2. /\ DOMAIN next = ScriptFields
        /\ next.todo = script.todo /\ next.source = script.source /\ next.first = script.first
        /\ next.pc = "poll"
        /\ next.read = script.read /\ next.mode = script.mode /\ next.completed = script.completed
        /\ next.listed = script.listed /\ next.queued = script.queued /\ next.failed = script.failed
    BY <1>1, <2>1 DEF ScriptOK, ScriptFields
  <2>3. script' = next /\ script.pc = "polling"
    BY <2>1 DEF Reads
  <2>4. ScriptOK' /\ NoneForgotten'
    BY <1>1, <2>2, <2>3 DEF ScriptOK, NoneForgotten
  <2> QED
    BY <1>2, <2>1, <2>2, <2>4
<1> QED
  BY <1>3, <1>4, <1>5, <1>6, <1>7, <1>8

\* Asking for an analysis: the source has been waited for since.
LEMMA ProgressAsks ==
    ASSUME ProgressInv, TypeOK', (\E s \in Sources : Analyze(s)) \/ AnalysisQueued
    PROVE  ProgressInv'
<1>1. TypeOK /\ ScriptOK /\ RunsBounded /\ ReviewProgress /\ NoneForgotten
  BY DEF ProgressInv
<1>2. UNCHANGED <<suggestions, runs, label, admin>>
  BY DEF Analyze, RequestAnalysis, Ask, AnalysisQueued, SendTask, vars, evidence, bounds
<1>3. ASSUME NEW next, script' = next, DOMAIN next = ScriptFields, next.read = script.read,
             next.mode = script.mode, next.completed = script.completed,
             next.first = script.first, next.listed = script.listed,
             next.failed = script.failed, next.todo = script.todo,
             \/ next.pc = "queueing" /\ script.first /\ next.queued = script.queued /\ next.source = script.source
             \/ /\ next.pc = "sources"
                /\ script.first
                /\ next.queued = script.queued \cup script.source
                /\ next.source = {}
      PROVE  ProgressInv'
  <2>1. ScriptOK' /\ NoneForgotten'
    BY <1>1, <1>3 DEF ScriptOK, NoneForgotten
  <2> QED
    BY <1>2, <1>3, <2>1, ProgressReads
<1>4. CASE script' = script \/ script' = Died
  <2>1. [Next]_vars
    <3>1. UNCHANGED vars \/ (\E s \in Sources : RequestAnalysis(ScriptRequest, s)) \/ SendTask(ScriptRequest)
      BY DEF Analyze, AnalysisQueued
    <3> QED
      BY <3>1, ScriptAssumption DEF Next, Asking, RequestStep
  <2> QED
    BY <1>2, <1>4, <2>1, ProgressOthers
<1>5. ASSUME NEW s \in Sources, Analyze(s) PROVE ProgressInv'
  <2>1. script.pc = "analyze" /\ script.source = {s} /\ script.first
    BY <1>1, <1>5 DEF Analyze, ScriptOK
  <2>2. CASE script' = Died
    BY <1>4, <2>2
  <2>3. ASSUME NEW next, script' = next,
               \/ next = [script EXCEPT !.pc = "sources", !.source = {}, !.queued = @ \cup {s}]
               \/ next = [script EXCEPT !.pc = "queueing"]
        PROVE  ProgressInv'
    <3>1. /\ DOMAIN next = ScriptFields /\ next.read = script.read
          /\ next.mode = script.mode /\ next.completed = script.completed
          /\ next.first = script.first /\ next.listed = script.listed
          /\ next.failed = script.failed /\ next.todo = script.todo
          /\ \/ next.pc = "queueing" /\ next.queued = script.queued /\ next.source = script.source
             \/ /\ next.pc = "sources"
                /\ next.queued = script.queued \cup {s}
                /\ next.source = {}
      BY <1>1, <2>3 DEF ScriptOK, ScriptFields
    <3> QED
      BY <1>3, <2>1, <2>3, <3>1
  <2> QED
    BY <1>5, <2>2, <2>3 DEF Analyze
<1>6. CASE AnalysisQueued
  <2>1. CASE script.pc # "queueing"
    BY <1>4, <1>6, <2>1 DEF AnalysisQueued
  <2>2. CASE script.pc = "queueing"
    <3>1. PICK next :
            /\ script' = next
            /\ next = [script EXCEPT !.pc = "sources", !.source = {}, !.queued = @ \cup script.source]
      BY <1>6, <2>2 DEF AnalysisQueued
    <3>2. /\ DOMAIN next = ScriptFields /\ next.read = script.read
          /\ next.mode = script.mode /\ next.completed = script.completed
          /\ next.first = script.first /\ next.listed = script.listed
          /\ next.failed = script.failed /\ next.todo = script.todo
          /\ next.pc = "sources" /\ next.queued = script.queued \cup script.source /\ next.source = {}
      BY <1>1, <3>1 DEF ScriptOK, ScriptFields
    <3>3. script.first
      BY <1>1, <2>2 DEF ScriptOK
    <3> QED
      BY <1>3, <3>1, <3>2, <3>3
  <2> QED
    BY <2>1, <2>2
<1> QED
  BY <1>5, <1>6

\* What PostReview does when the server accepts the batch.
LEMMA PostReviewEffect ==
    ASSUME PostReview
    PROVE  /\ script.pc = "reviewing"
           /\ UNCHANGED <<suggestions, runs, label, chunks, turnReviews>>
           /\ \/ script' = Died /\ UNCHANGED admin
              \/ \E B, decision, picked :
                    /\ decision = IF script.reject # {} THEN "reject" ELSE "approve_as_iyin"
                    /\ B \subseteq IF script.reject # {} THEN script.reject ELSE script.approve
                    /\ picked = {g \in suggestions : g.status = "pending" /\ Id(g) \in B}
                    /\ script' = [script EXCEPT !.pc = "posting", !.reject = @ \ B, !.approve = @ \ B]
                    /\ admin' = [admin EXCEPT ![Script] = [pc |-> decision, picked |-> picked]]
<1> DEFINE asked == IF script.reject # {} THEN script.reject ELSE script.approve
           decision == IF script.reject # {} THEN "reject" ELSE "approve_as_iyin"
           chosen(B) == {g \in suggestions : g.status = "pending" /\ Id(g) \in B}
<1>1. PICK B \in Batches(asked) :
        IF Cardinality(chosen(B)) # Cardinality(B)
        THEN script' = Died /\ UNCHANGED admin
        ELSE /\ script' = [script EXCEPT !.pc = "posting", !.reject = @ \ B, !.approve = @ \ B]
             /\ admin' = [admin EXCEPT ![Script] = [pc |-> decision, picked |-> chosen(B)]]
  BY Zenon DEF PostReview
<1>2. B \subseteq asked
  BY DEF Batches
<1>3. script.pc = "reviewing" /\ UNCHANGED <<suggestions, runs, label, chunks, turnReviews>>
  BY DEF PostReview, evidence, bounds
<1>4. CASE script' = Died /\ UNCHANGED admin
  BY <1>3, <1>4
<1>5. CASE /\ script' = [script EXCEPT !.pc = "posting", !.reject = @ \ B, !.approve = @ \ B]
           /\ admin' = [admin EXCEPT ![Script] = [pc |-> decision, picked |-> chosen(B)]]
  <2>1. PICK d, picked : d = decision /\ picked = chosen(B)
    OBVIOUS
  <2> QED
    BY <1>2, <1>3, <1>5, <2>1
<1> QED
  BY <1>1, <1>4, <1>5

LEMMA ProgressPosts ==
    ASSUME ProgressInv, TypeOK', PostReview
    PROVE  ProgressInv'
<1>1. TypeOK /\ ScriptOK /\ RunsBounded /\ ReviewProgress /\ NoneForgotten
  BY DEF ProgressInv
<1>2. script.pc = "reviewing" /\ UNCHANGED <<suggestions, runs, label>>
  BY PostReviewEffect
<1>3. CASE script' = Died /\ UNCHANGED admin
  <2>1. [Next]_vars
    BY <1>3 DEF PostReview, vars, evidence, bounds
  <2> QED
    BY <1>2, <1>3, <2>1, ProgressOthers
<1>4. ASSUME NEW B, NEW decision, NEW picked,
             decision = IF script.reject # {} THEN "reject" ELSE "approve_as_iyin",
             picked = {g \in suggestions : g.status = "pending" /\ Id(g) \in B},
             script' = [script EXCEPT !.pc = "posting", !.reject = @ \ B, !.approve = @ \ B],
             admin' = [admin EXCEPT ![Script] = [pc |-> decision, picked |-> picked]]
      PROVE  ProgressInv'
  <2>1. /\ DOMAIN script' = ScriptFields
        /\ script'.pc = "posting" /\ script'.reject = script.reject \ B /\ script'.approve = script.approve \ B
        /\ UNCHANGED <<script.read, script.mode, script.first, script.listed, script.todo, script.source,
                       script.queued, script.completed, script.failed>>
    BY <1>1, <1>4 DEF ScriptOK, ScriptFields
  <2>2. ScriptOK' /\ NoneForgotten' /\ RunsBounded'
    BY <1>1, <1>2, <2>1 DEF ScriptOK, NoneForgotten, RunsBounded
  <2>3. admin'[Script] = [pc |-> decision, picked |-> picked]
    BY <1>1, <1>4, ScriptAssumption DEF TypeOK, AdminsOK
  <2>4. InFlight' = {Id(h) : h \in picked}
    BY <2>3 DEF InFlight, Id
  <2>5. ASSUME NEW s \in Sources, script.source = {s}
        PROVE  Decided(s, script.reject \cup script.approve \cup InFlight)'
    <3>1. PICK asked, left, flight :
            /\ asked = script.reject \cup script.approve
            /\ left = (script.reject \ B) \cup (script.approve \ B)
            /\ flight = {Id(h) : h \in picked}
      OBVIOUS
    <3>2. Decided(s, asked)
      BY <1>1, <1>2, <2>5, <3>1 DEF ReviewProgress
    <3>3. Decided(s, left \cup flight)
      <4> SUFFICES ASSUME NEW g \in PendingOf(s), Id(g) \in asked
                   PROVE  Id(g) \in left \cup flight
        BY <3>2 DEF Decided
      <4>1. CASE Id(g) \in B
        BY <1>4, <3>1, <4>1 DEF PendingOf, SuggestionsOf
      <4>2. CASE Id(g) \notin B
        BY <3>1, <4>2
      <4> QED
        BY <4>1, <4>2
    <3>4. Decided(s, left \cup flight)'
      BY <1>2, <2>1, <3>3, DecidedSame
    <3>5. left \cup flight = (script.reject \cup script.approve \cup InFlight)'
      BY <2>1, <2>4, <3>1
    <3> QED
      BY <3>4, <3>5
  <2>6. \A s \in script.completed : Decided(s, {})'
    BY <1>1, <1>2, <2>1, DecidedSame DEF ReviewProgress, ScriptOK
  <2>7. admin'[Script].pc \in {"reject", "approve_as_iyin"}
    BY <1>4, <2>3
  <2>8. ReviewProgress'
    BY <2>1, <2>5, <2>6, <2>7 DEF ReviewProgress
  <2> QED
    BY <2>2, <2>8 DEF ProgressInv
<1> QED
  BY <1>3, <1>4, PostReviewEffect

\* The server has decided what was in flight, and nothing else has become pending.
LEMMA ProgressCommits ==
    ASSUME ProgressInv, TypeOK', ReviewCommitted
    PROVE  ProgressInv'
<1>1. TypeOK /\ ScriptOK /\ RunsBounded /\ ReviewProgress /\ NoneForgotten
  BY DEF ProgressInv
<1>2. Next /\ UNCHANGED label
  BY ScriptAssumption DEF ReviewCommitted, Next, TurnReviewStep
<1>3. CASE script.pc # "posting"
  BY <1>2, <1>3, ProgressOthers DEF ReviewCommitted
<1>4. CASE script.pc = "posting"
  <2>1. script' = [script EXCEPT !.pc = "reviewing"]
    BY <1>4 DEF ReviewCommitted
  <2>2. /\ DOMAIN script' = ScriptFields
        /\ script'.pc = "reviewing"
        /\ UNCHANGED <<script.read, script.mode, script.first, script.listed, script.todo, script.source,
                       script.reject, script.approve, script.queued, script.completed, script.failed>>
    BY <1>1, <2>1 DEF ScriptOK, ScriptFields
  <2>3. ScriptOK' /\ NoneForgotten'
    BY <1>1, <2>2 DEF ScriptOK, NoneForgotten
  <2>4. RunsBounded'
    BY <1>1, <1>2, <2>2, RunsBoundedKept
  <2>5. \A s \in Sources : \A ids : Decided(s, ids) => Decided(s, ids)'
    BY <1>1, <1>2, <2>2, DecidedKept
  <2>6. ASSUME NEW g \in suggestions', g.status = "pending" PROVE Id(g) \notin InFlight
    <3>1. PICK h \in suggestions :
            \/ g = h /\ ~Picked(Script, h)
            \/ g = [h EXCEPT !.status = "rejected", !.reviewer = "admin"]
            \/ \E v : g = [h EXCEPT !.status = "approved", !.reviewer = "admin", !.chunk = v]
      <4>1. CASE TurnReject(Script)
        BY <4>1, <2>6 DEF TurnReject
      <4>2. ASSUME NEW s \in Sources, TurnApprove(Script, s)
            PROVE  \E h \in suggestions :
                     \/ g = h /\ ~Picked(Script, h)
                     \/ \E v : g = [h EXCEPT !.status = "approved", !.reviewer = "admin", !.chunk = v]
        <5>1. PICK v : suggestions' =
                {IF Picked(Script, h)
                 THEN [h EXCEPT !.status = "approved", !.reviewer = "admin", !.chunk = v] ELSE h
                    : h \in suggestions}
          BY <4>2 DEF TurnApprove
        <5> QED
          BY <2>6, <5>1
      <4> QED
        BY <4>1, <4>2 DEF ReviewCommitted
    <3>2. h \in Suggestion
      BY <1>1 DEF TypeOK, EvidenceOK
    <3>3. g = h /\ ~Picked(Script, h)
      BY <2>6, <3>1, <3>2 DEF Suggestion
    <3> QED
      BY <3>3 DEF InFlight, Picked, Id
  <2>7. ASSUME NEW s \in Sources, script.source = {s}
        PROVE  Decided(s, script.reject \cup script.approve)'
    <3>1. PICK left, flight : left = script.reject \cup script.approve /\ flight = InFlight
      OBVIOUS
    <3>2. Decided(s, left \cup flight)'
      BY <1>1, <1>4, <2>5, <2>7, <3>1 DEF ReviewProgress
    <3>3. Decided(s, left)'
      BY <2>6, <3>1, <3>2 DEF Decided, PendingOf, SuggestionsOf, Id
    <3> QED
      BY <2>2, <3>1, <3>3
  <2>8. \A s \in script.completed : Decided(s, {})'
    BY <1>1, <2>5 DEF ReviewProgress, ScriptOK
  <2>9. ReviewProgress'
    BY <2>2, <2>7, <2>8 DEF ReviewProgress
  <2> QED
    BY <2>3, <2>4, <2>9 DEF ProgressInv
<1> QED
  BY <1>3, <1>4

LEMMA ProgressInit == ScriptInit => ProgressInv
<1> SUFFICES ASSUME ScriptInit PROVE ProgressInv
  OBVIOUS
<1>1. TypeOK /\ runs = 0 /\ suggestions = {}
  BY TypeInit DEF ScriptInit, Init
<1>2. ScriptOK /\ NoneForgotten /\ ReviewProgress
  BY DEF ScriptInit, IdleScript, ScriptOK, ScriptFields, NoneForgotten, ReviewProgress
<1>3. RunsBounded
  BY <1>1 DEF ScriptInit, IdleScript, RunsBounded
<1> QED
  BY <1>1, <1>2, <1>3 DEF ProgressInv

LEMMA ProgressStep == ProgressInv /\ [ScriptNext]_scriptVars => ProgressInv'
<1> SUFFICES ASSUME ProgressInv, [ScriptNext]_scriptVars PROVE ProgressInv'
  OBVIOUS
<1>1. TypeOK'
  BY ScriptTypeStep DEF ProgressInv
<1>2. ASSUME NEW mode \in Modes, Begin(mode) PROVE ProgressInv'
  BY <1>1, <1>2, ProgressBegin
<1>3. CASE ScriptStep
  BY <1>1, <1>3, ProgressList, ProgressMoves, ProgressAsks, ProgressPosts DEF ScriptStep
<1>4. ASSUME NEW j \in JobIds, AnalysisCommitted(j) PROVE ProgressInv'
  <2>1. CommitJob(ScriptRequest, j) /\ UNCHANGED <<script, label, admin>>
    BY <1>4 DEF AnalysisCommitted, CommitJob
  <2>2. Next
    BY <2>1, ScriptAssumption DEF Next, RequestStep
  <2> QED
    BY <1>1, <2>1, <2>2, ProgressOthers
<1>5. CASE Served
  BY <1>1, <1>4, <1>5, ProgressAsks, ProgressCommits DEF Served
<1>6. CASE AnalysisRefused \/ ReviewRefused
  <2>1. Next
    BY <1>6, ScriptAssumption DEF AnalysisRefused, ReviewRefused, Next, TurnReviewStep
  <2>2. script' = Died /\ script'.pc # "posting" /\ UNCHANGED label
    BY <1>6 DEF AnalysisRefused, ReviewRefused, Died, ProgressInv, ScriptOK, ScriptFields
  <2> QED
    BY <1>1, <2>1, <2>2, ProgressOthers
<1>7. CASE ScriptFails
  <2>1. script' = Died /\ UNCHANGED <<label, admin>> /\ UNCHANGED vars
    BY <1>7 DEF ScriptFails, vars
  <2> QED
    BY <1>1, <2>1, ProgressOthers
<1>8. ASSUME [Next]_vars, UNCHANGED <<script, admin[Script]>>, label \subseteq label' PROVE ProgressInv'
  BY <1>1, <1>8, ProgressOthers
<1>9. ASSUME NEW w \in Workers, Task(w) PROVE ProgressInv'
  <2>1. UNCHANGED <<script, admin>> /\ label \subseteq label' /\ Next
    BY <1>9 DEF Task, TaskStep, StartCleanup, StartAnalysis, CleanRead, CleanPublish, AnalysisPublish, CleanEnd, Next
  <2> QED
    BY <1>8, <2>1
<1>10. ASSUME NEW r \in Requests, OtherAsks(r) PROVE ProgressInv'
  <2>1. UNCHANGED <<script, admin, label>> /\ Next
    BY <1>10 DEF OtherAsks, Asking, RequestCleanup, RequestAnalysis, Ask, Next
  <2> QED
    BY <1>8, <2>1
<1>11. CASE Others
  <2>1. UNCHANGED <<script, label>> /\ Next
    BY <1>11 DEF Others, Next
  <2>2. UNCHANGED admin[Script]
    BY <1>11, OthersLeaveScript DEF ProgressInv
  <2> QED
    BY <1>8, <2>1, <2>2
<1>12. CASE UNCHANGED scriptVars
  <2>1. UNCHANGED <<script, admin, label>> /\ UNCHANGED vars
    BY <1>12 DEF scriptVars, vars
  <2> QED
    BY <1>8, <2>1
<1> QED
  BY <1>2, <1>3, <1>5, <1>6, <1>7, <1>9, <1>10, <1>11, <1>12 DEF ScriptNext

\* When the script counts an interview as reviewed, nothing it could see of it is left
\* pending, whatever is published, reviewed or has died meanwhile; and when it ends
\* without a failure it has reviewed every interview it has listed.
THEOREM EndCorrect == ScriptSpec => []EndMeansReviewed
<1>1. ProgressInv => EndMeansReviewed
  BY DEF ProgressInv, ReviewProgress, Decided, NoneForgotten, EndMeansReviewed
<1> QED
  BY <1>1, ProgressInit, ProgressStep, PTL DEF ScriptSpec

-----------------------------------------------------------------------------
(* What the script publishes.                                               *)

\* An id labelled otherwise, for good: the turns of a run are labelled once.
NotIyins(id) == [run |-> id.run, turn |-> id.turn] \notin label /\ id.run \in 1 .. runs
Iyins(id) == script.mode # "exclude_only" /\ [run |-> id.run, turn |-> id.turn] \in label

\* The script's lists, and the request it has in progress, also after it has died.
SortedOut ==
    /\ \A id \in script.reject : NotIyins(id)
    /\ \A id \in script.approve : Iyins(id)
    /\ admin[Script].pc = "reject" => \A h \in admin[Script].picked : NotIyins(Id(h))
    /\ admin[Script].pc = "approve_as_iyin" => \A h \in admin[Script].picked : Iyins(Id(h))
    /\ script.pc = "idle" => admin[Script] = IdleAdmin /\ script.reject = {} /\ script.approve = {}

NobodyElse == \A a \in Admins \ {Script} : admin[a].pc = "idle"

\* Every turn chunk, citable or not, comes from an approved suggestion that is labelled Iyin's.
TurnsLabelled ==
    \A c \in chunks : c.kind = "turn" =>
        /\ script.pc # "idle"
        /\ script.mode # "exclude_only"
        /\ \E g \in SuggestionsOf(c.source) : g.turn = c.text /\ g.status = "approved" /\ LabelledIyin(g)

LabelInv ==
    /\ ReviewInv
    /\ ProgressInv
    /\ SortedOut
    /\ turnReviews = 0 => NobodyElse /\ TurnsLabelled

\* Only three actions touch the lists of ids, and the mode is chosen at the beginning.
LEMMA ScriptLists ==
    ASSUME ScriptOK, [ScriptNext]_scriptVars
    PROVE  \/ \E mode \in Modes : Begin(mode)
           \/ \E s \in Sources : ListPending(s)
           \/ PostReview
           \/ /\ UNCHANGED <<script.reject, script.approve, script.mode>>
              /\ script'.pc = "idle" => script.pc = "idle"
<1> DEFINE Kept == /\ UNCHANGED <<script.reject, script.approve, script.mode>>
                   /\ script'.pc = "idle" => script.pc = "idle"
<1>1. ASSUME NEW s \in Sources, NextSource(s) \/ SourceReviewed(s) \/ Look(s) PROVE Kept
  <2>1. CASE NextSource(s)
    BY <2>1 DEF NextSource, Reads, ScriptOK, ScriptFields
  <2>2. CASE SourceReviewed(s)
    BY <2>2 DEF SourceReviewed, Reads, ScriptOK, ScriptFields
  <2>3. CASE Look(s)
    BY <2>3 DEF Look, Reads, ScriptOK, ScriptFields
  <2> QED
    BY <1>1, <2>1, <2>2, <2>3
<1>2. CASE EndOfSources \/ EndOfRound
  BY <1>2 DEF EndOfSources, EndOfRound, Reads, ScriptOK, ScriptFields
<1>3. CASE Poll
  BY <1>3 DEF Poll, Reads, ScriptOK, ScriptFields
<1>4. ASSUME script' = script \/ script' = Died PROVE Kept
  BY <1>4 DEF Died, ScriptOK, ScriptFields
<1>5. ASSUME NEW queued,
             \/ script' = [script EXCEPT !.pc = "sources", !.source = {}, !.queued = queued]
             \/ script' = [script EXCEPT !.pc = "queueing"]
      PROVE  Kept
  <2>1. CASE script' = [script EXCEPT !.pc = "sources", !.source = {}, !.queued = queued]
    BY <2>1 DEF ScriptOK, ScriptFields
  <2>2. CASE script' = [script EXCEPT !.pc = "queueing"]
    BY <2>2 DEF ScriptOK, ScriptFields
  <2> QED
    BY <1>5, <2>1, <2>2
<1>6. ASSUME (\E s \in Sources : Analyze(s)) \/ AnalysisQueued
      PROVE  \/ script' = script \/ script' = Died
             \/ \E queued : script' = [script EXCEPT !.pc = "sources", !.source = {}, !.queued = queued]
             \/ script' = [script EXCEPT !.pc = "queueing"]
  BY <1>6, Zenon DEF Analyze, AnalysisQueued
<1>7. CASE ReviewCommitted
  <2>1. script' = script \/ script' = [script EXCEPT !.pc = "reviewing"]
    BY <1>7 DEF ReviewCommitted
  <2> QED
    BY <1>4, <2>1 DEF ScriptOK, ScriptFields
<1>8. ASSUME \/ \E j \in JobIds : AnalysisCommitted(j)
             \/ AnalysisRefused \/ ReviewRefused \/ ScriptFails
             \/ \E w \in Workers : Task(w)
             \/ \E r \in Requests : OtherAsks(r)
             \/ Others
             \/ UNCHANGED scriptVars
      PROVE  script' = script \/ script' = Died
  BY <1>8 DEF AnalysisCommitted, AnalysisRefused, ReviewRefused, ScriptFails, Task, OtherAsks, Others, scriptVars
<1> HIDE DEF Kept
<1>9. CASE ScriptStep
  BY <1>1, <1>2, <1>3, <1>4, <1>5, <1>6, <1>9 DEF ScriptStep, Kept
<1>10. CASE Served
  BY <1>4, <1>5, <1>6, <1>7, <1>8, <1>10 DEF Served, Kept
<1> QED
  BY <1>4, <1>8, <1>9, <1>10 DEF ScriptNext, Kept

\* Labels are only added, and to the run that is being published.
LEMMA LabelsOnce ==
    ASSUME [ScriptNext]_scriptVars
    PROVE  /\ label \subseteq label'
           /\ \A x \in label' \ label : x.run = runs' /\ runs' # runs
<1>1. ASSUME NEW w \in Workers, Task(w)
      PROVE  label \subseteq label' /\ \A x \in label' \ label : x.run = runs' /\ runs' # runs
  BY <1>1 DEF Task
<1>2. ASSUME UNCHANGED label
      PROVE  label \subseteq label' /\ \A x \in label' \ label : x.run = runs' /\ runs' # runs
  BY <1>2
<1>3. ASSUME ScriptNext PROVE UNCHANGED label \/ \E w \in Workers : Task(w)
  <2>1. ASSUME ScriptStep PROVE UNCHANGED label
    BY <2>1 DEF ScriptStep, NextSource, ListPending, SourceReviewed, Look, Analyze, EndOfSources, Poll,
       EndOfRound, PostReview, Reads
  <2>2. ASSUME Served PROVE UNCHANGED label
    BY <2>2 DEF Served, AnalysisCommitted, AnalysisQueued, ReviewCommitted
  <2> QED
    BY <1>3, <2>1, <2>2 DEF ScriptNext, Begin, Reads, AnalysisRefused, ReviewRefused, ScriptFails, OtherAsks, Others
<1> QED
  BY <1>1, <1>2, <1>3 DEF scriptVars

LEMMA NotIyinsKept ==
    ASSUME TypeOK, TypeOK', [ScriptNext]_scriptVars, NEW id, NotIyins(id)
    PROVE  NotIyins(id)'
<1>1. runs \in Nat /\ runs' \in Nat /\ runs <= runs'
  <2>1. CASE [Next]_vars
    BY <2>1, RunsStep
  <2>2. CASE Posted
    BY <2>2 DEF Posted, bounds, TypeOK, BoundsOK
  <2> QED
    BY <2>1, <2>2, ScriptSteps
<1>2. id.run \in 1 .. runs /\ [run |-> id.run, turn |-> id.turn] \notin label
  BY DEF NotIyins
<1>3. [run |-> id.run, turn |-> id.turn] \notin label'
  <2> SUFFICES ASSUME [run |-> id.run, turn |-> id.turn] \in label' PROVE FALSE
    OBVIOUS
  <2>1. id.run = runs' /\ runs' # runs
    BY <1>2, LabelsOnce
  <2> QED
    BY <1>1, <1>2, <2>1
<1>4. id.run \in 1 .. runs'
  BY <1>1, <1>2
<1> QED
  BY <1>3, <1>4 DEF NotIyins

\* What a step may do to the script's own turn review.
LEMMA ScriptReviewMoves ==
    ASSUME TypeOK, [Next]_vars, [ScriptNext]_scriptVars, ~PostReview
    PROVE  admin'[Script] = admin[Script] \/ admin'[Script] = IdleAdmin
<1>1. admin \in [Admins -> AdminState] /\ Script \in Admins
  BY ScriptAssumption DEF TypeOK, AdminsOK
<1>2. CASE Others
  BY <1>2, OthersLeaveScript
<1>3. ASSUME ReviewCommitted \/ ReviewRefused PROVE admin' = [admin EXCEPT ![Script] = IdleAdmin]
  BY <1>3 DEF ReviewCommitted, ReviewRefused, TurnReject, TurnApprove, TurnReviewFails
<1>4. ASSUME NEW s \in Sources,
             NextSource(s) \/ ListPending(s) \/ SourceReviewed(s) \/ Look(s) \/ Analyze(s)
      PROVE  UNCHANGED admin
  BY <1>4 DEF NextSource, ListPending, SourceReviewed, Look, Analyze, RequestAnalysis, Ask, Reads, vars
<1>5. ASSUME EndOfSources \/ Poll \/ EndOfRound PROVE UNCHANGED admin
  BY <1>5 DEF EndOfSources, Poll, EndOfRound, Reads, vars
<1>6. ASSUME \/ \E j \in JobIds : AnalysisCommitted(j)
             \/ AnalysisQueued \/ AnalysisRefused \/ ScriptFails
             \/ \E mode \in Modes : Begin(mode)
      PROVE  UNCHANGED admin
  BY <1>6 DEF AnalysisCommitted, CommitJob, AnalysisQueued, SendTask, AnalysisRefused, SendFails, ScriptFails,
     Begin, Reads, vars
<1>7. ASSUME NEW w \in Workers, Task(w) PROVE UNCHANGED admin
  BY <1>7 DEF Task, TaskStep, StartCleanup, StartAnalysis, CleanRead, CleanPublish, AnalysisPublish, CleanEnd
<1>8. ASSUME NEW r \in Requests, OtherAsks(r) PROVE UNCHANGED admin
  BY <1>8 DEF OtherAsks, Asking, RequestCleanup, RequestAnalysis, Ask
<1>9. CASE UNCHANGED scriptVars
  BY <1>9 DEF scriptVars, vars
<1>10. CASE ScriptStep
  BY <1>4, <1>5, <1>10 DEF ScriptStep
<1>11. CASE Served
  BY <1>1, <1>3, <1>6, <1>11 DEF Served
<1> QED
  BY <1>1, <1>2, <1>3, <1>6, <1>7, <1>8, <1>9, <1>10, <1>11 DEF ScriptNext

LEMMA SortedStep ==
    ASSUME ProgressInv, ProgressInv', SortedOut, [ScriptNext]_scriptVars
    PROVE  SortedOut'
<1>1. TypeOK /\ TypeOK' /\ ScriptOK /\ RunsBounded
  BY DEF ProgressInv
<1>2. label \subseteq label' /\ \A id : NotIyins(id) => NotIyins(id)'
  BY <1>1, LabelsOnce, NotIyinsKept
<1>3. admin \in [Admins -> AdminState] /\ Script \in Admins
  BY <1>1, ScriptAssumption DEF TypeOK, AdminsOK
<1>4. CASE PostReview
  <2>1. script.pc = "reviewing"
    BY <1>4, PostReviewEffect
  <2>2. CASE script' = Died /\ UNCHANGED admin
    <3>1. UNCHANGED <<script.mode, script.reject, script.approve>> /\ script'.pc = "died"
      BY <1>1, <2>2 DEF Died, ScriptOK, ScriptFields
    <3> QED
      BY <1>2, <2>2, <3>1 DEF SortedOut, Iyins, Id
  <2>3. ASSUME NEW B, NEW decision, NEW picked,
               decision = IF script.reject # {} THEN "reject" ELSE "approve_as_iyin",
               B \subseteq IF script.reject # {} THEN script.reject ELSE script.approve,
               picked = {g \in suggestions : g.status = "pending" /\ Id(g) \in B},
               script' = [script EXCEPT !.pc = "posting", !.reject = @ \ B, !.approve = @ \ B],
               admin' = [admin EXCEPT ![Script] = [pc |-> decision, picked |-> picked]]
        PROVE  SortedOut'
    <3>1. /\ script'.mode = script.mode /\ script'.pc = "posting"
          /\ script'.reject = script.reject \ B /\ script'.approve = script.approve \ B
      BY <1>1, <2>3 DEF ScriptOK, ScriptFields
    <3>2. admin'[Script].pc = decision /\ admin'[Script].picked = picked
      BY <1>3, <2>3
    <3>3. \A h \in picked : Id(h) \in B
      BY <2>3
    <3>4. decision = "reject" => \A h \in picked : NotIyins(Id(h))
      BY <2>3, <3>3 DEF SortedOut
    <3>5. decision = "approve_as_iyin" => \A h \in picked : Iyins(Id(h))
      BY <2>3, <3>3 DEF SortedOut
    <3>6. \A id : Iyins(id) => Iyins(id)'
      BY <1>2, <3>1 DEF Iyins
    <3> QED
      BY <1>2, <3>1, <3>2, <3>4, <3>5, <3>6 DEF SortedOut, Id
  <2> QED
    BY <1>4, <2>2, <2>3, PostReviewEffect
<1>5. CASE ~PostReview
  <2>1. [Next]_vars
    BY <1>5, StepsButPost
  <2>2. admin'[Script] = admin[Script] \/ admin'[Script] = IdleAdmin
    BY <1>1, <1>5, <2>1, ScriptReviewMoves
  <2>3. IdleAdmin.pc = "idle"
    BY DEF IdleAdmin
  <2>4. CASE UNCHANGED <<script.reject, script.approve, script.mode>> /\ (script'.pc = "idle" => script.pc = "idle")
    <3>1. \A id : Iyins(id) => Iyins(id)'
      BY <1>2, <2>4 DEF Iyins
    <3> QED
      BY <1>2, <2>2, <2>3, <2>4, <3>1 DEF SortedOut, Id
  <2>5. ASSUME NEW mode, Begin(mode) PROVE SortedOut'
    <3>1. UNCHANGED admin /\ admin[Script] = IdleAdmin
      BY <2>5 DEF Begin, Reads, vars, SortedOut
    <3>2. script'.reject = {} /\ script'.approve = {} /\ script'.pc = "sources"
      BY <2>5 DEF Begin, Reads, IdleScript
    <3> QED
      BY <2>3, <3>1, <3>2 DEF SortedOut
  <2>6. ASSUME NEW s \in Sources, ListPending(s) PROVE SortedOut'
    <3>1. /\ script'.reject = {Id(g) : g \in {h \in PendingOf(s) : ~IsIyin(h)}}
          /\ script'.approve = IF script.mode = "exclude_only" THEN {}
                               ELSE {Id(g) : g \in {h \in PendingOf(s) : IsIyin(h)}}
          /\ script'.mode = script.mode /\ script'.pc = "reviewing"
      BY <1>1, <2>6 DEF ListPending, Reads, ScriptOK, ScriptFields
    <3>2. UNCHANGED <<admin, label, runs>>
      BY <2>6 DEF ListPending, Reads, vars
    <3>3. ASSUME NEW g \in PendingOf(s), ~IsIyin(g) PROVE NotIyins(Id(g))
      <4>1. g.run \in Nat \ {0} /\ g.run <= runs /\ runs \in Nat
        BY <1>1 DEF PendingOf, SuggestionsOf, TypeOK, EvidenceOK, BoundsOK, Suggestion, RunsBounded
      <4> QED
        BY <3>3, <4>1 DEF NotIyins, IsIyin, LabelledIyin, Id
    <3>4. ASSUME NEW g \in PendingOf(s), IsIyin(g), script.mode # "exclude_only" PROVE Iyins(Id(g))
      BY <3>4 DEF Iyins, IsIyin, LabelledIyin, Id
    <3>5. \A id \in script'.reject : NotIyins(id)
      BY <3>1, <3>3
    <3>6. \A id \in script'.approve : Iyins(id)
      BY <3>1, <3>4
    <3> QED
      BY <3>1, <3>2, <3>5, <3>6 DEF SortedOut, NotIyins, Iyins, Id
  <2> QED
    BY <1>1, <1>5, <2>4, <2>5, <2>6, ScriptLists
<1> QED
  BY <1>4, <1>5

\* A review by another administrator is counted when it begins.
LEMMA NobodyStep ==
    ASSUME TypeOK, [ScriptNext]_scriptVars, turnReviews' = 0
    PROVE  turnReviews = 0 /\ (NobodyElse => NobodyElse')
<1>1. turnReviews \in Nat /\ admin \in [Admins -> AdminState] /\ IdleAdmin.pc = "idle"
  BY DEF TypeOK, BoundsOK, AdminsOK, IdleAdmin
<1>2. CASE Posted
  <2>1. \A a \in Admins \ {Script} : admin'[a] = admin[a]
    BY <1>1, <1>2 DEF Posted
  <2> QED
    BY <1>2, <2>1 DEF Posted, bounds, NobodyElse
<1>3. ASSUME UNCHANGED <<turnReviews, admin>> PROVE turnReviews = 0 /\ (NobodyElse => NobodyElse')
  BY <1>3 DEF NobodyElse
<1>4. ASSUME NEW a \in Admins, TurnReviewStep(a)
      PROVE  turnReviews = 0 /\ (NobodyElse => NobodyElse')
  <2>1. ASSUME NEW decision, NEW picked, TurnReviewRead(a, decision, picked) PROVE FALSE
    BY <1>1, <2>1 DEF TurnReviewRead
  <2>2. UNCHANGED turnReviews /\ admin' = [admin EXCEPT ![a] = IdleAdmin]
    BY <1>4, <2>1 DEF TurnReviewStep, TurnReject, TurnApprove, TurnReviewFails, bounds
  <2> QED
    BY <1>1, <2>2 DEF NobodyElse
<1>5. ASSUME NEW r \in Requests, Asking(r) \/ RequestStep(r) \/ SendFails(r) PROVE UNCHANGED <<turnReviews, admin>>
  BY <1>5 DEF Asking, RequestCleanup, RequestAnalysis, Ask, RequestStep, CommitJob, SendTask, SendFails, bounds
<1>6. ASSUME NEW w \in Workers, Fault(w) PROVE UNCHANGED <<turnReviews, admin>>
  BY <1>6 DEF Fault, TaskFails, Redeliver, WorkerDies, ChildKilled, bounds
<1>7. ASSUME NEW w \in Workers, TaskStep(w) PROVE UNCHANGED <<turnReviews, admin>>
  BY <1>7 DEF TaskStep, StartCleanup, StartAnalysis, CleanRead, CleanPublish, AnalysisPublish, CleanEnd, bounds
<1>8. ASSUME NEW S \in SUBSET Sources, NEW decision \in Decisions, SpeakerReview(S, decision)
      PROVE  UNCHANGED <<turnReviews, admin>>
  BY <1>8 DEF SpeakerReview
<1>9. CASE UNCHANGED vars
  BY <1>3, <1>9 DEF vars
<1>10. CASE Next
  BY <1>3, <1>4, <1>5, <1>6, <1>7, <1>8, <1>10 DEF Next
<1> QED
  BY <1>2, <1>9, <1>10, ScriptSteps

\* As long as nobody else reviews turns, an approved suggestion labelled Iyin's stays
\* approved: the script rejects only what is labelled otherwise.
LEMMA ApprovedKept ==
    ASSUME TypeOK, SortedOut, NobodyElse, [Next]_vars,
           NEW g \in suggestions, g.status = "approved", LabelledIyin(g)
    PROVE  \E h \in suggestions' : SameKey(h, g) /\ h.status = "approved"
<1> DEFINE Kept == \E h \in suggestions' : SameKey(h, g) /\ h.status = "approved"
<1>1. g \in Suggestion
  BY DEF TypeOK, EvidenceOK
<1>2. CASE g \in suggestions'
  BY <1>2 DEF SameKey
<1>3. ASSUME NEW w \in Workers, NEW s \in Sources, NEW confident \in SUBSET Turns,
             AnalysisPublish(w, s, confident)
      PROVE  g \in suggestions'
  BY <1>3 DEF AnalysisPublish
<1>4. ASSUME NEW a \in Admins, TurnReject(a) PROVE g \in suggestions'
  <2>1. a = Script
    BY <1>4 DEF TurnReject, NobodyElse
  <2>2. \A h \in admin[Script].picked : NotIyins(Id(h))
    BY <1>4, <2>1 DEF TurnReject, SortedOut
  <2>3. ~Picked(Script, g)
    BY <2>2 DEF Picked, NotIyins, Id, LabelledIyin
  <2> QED
    BY <1>4, <2>1, <2>3 DEF TurnReject
<1>5. ASSUME NEW a \in Admins, NEW s \in Sources, TurnApprove(a, s) PROVE Kept
  <2>1. \/ g \in suggestions'
        \/ [g EXCEPT !.status = "approved", !.reviewer = "admin", !.chunk = version[s] + 1] \in suggestions'
    BY <1>5 DEF TurnApprove
  <2> QED
    BY <1>1, <1>2, <2>1 DEF SameKey, Suggestion
<1>6. CASE UNCHANGED suggestions
  BY <1>2, <1>6
<1> HIDE DEF Kept
<1> QED
  BY <1>2, <1>3, <1>4, <1>5, <1>6, SuggestionWriters DEF Kept

LEMMA LabelledStep ==
    ASSUME ~AutoPublish, ReviewInv, ProgressInv, SortedOut, NobodyElse, TurnsLabelled, [ScriptNext]_scriptVars
    PROVE  TurnsLabelled'
<1>1. TypeOK /\ PickedStored /\ ScriptOK
  BY DEF ReviewInv, ProgressInv
<1>2. label \subseteq label'
  BY LabelsOnce
<1>3. ASSUME NEW mode, Begin(mode) PROVE TurnsLabelled'
  <2>1. UNCHANGED chunks /\ script.pc = "idle"
    BY <1>3 DEF Begin, Reads, vars
  <2> QED
    BY <2>1 DEF TurnsLabelled
<1>4. CASE ~\E mode : Begin(mode)
  <2>1. UNCHANGED script.mode /\ (script'.pc = "idle" => script.pc = "idle")
    <3>1. CASE PostReview
      <4>1. script'.mode = script.mode /\ script'.pc \in {"died", "posting"}
        BY <1>1, <3>1, PostReviewEffect DEF Died, ScriptOK, ScriptFields
      <4> QED
        BY <4>1
    <3>2. ASSUME NEW s \in Sources, ListPending(s) PROVE script'.mode = script.mode /\ script'.pc = "reviewing"
      BY <1>1, <3>2 DEF ListPending, Reads, ScriptOK, ScriptFields
    <3> QED
      BY <1>1, <1>4, <3>1, <3>2, ScriptLists
  <2>2. CASE PostReview
    <3>1. UNCHANGED <<chunks, suggestions>>
      BY <2>2, PostReviewEffect
    <3> QED
      BY <1>2, <2>1, <3>1 DEF TurnsLabelled, SuggestionsOf, LabelledIyin
  <2>3. CASE [Next]_vars
    <3> SUFFICES ASSUME NEW c \in chunks', c.kind = "turn"
                 PROVE  /\ script'.pc # "idle"
                        /\ script'.mode # "exclude_only"
                        /\ \E g \in suggestions' : /\ g.source = c.source /\ g.turn = c.text
                                                   /\ g.status = "approved"
                                                   /\ [run |-> g.run, turn |-> g.turn] \in label'
      BY DEF TurnsLabelled, SuggestionsOf, LabelledIyin
    <3>1. ASSUME NEW d \in chunks, d.kind = "turn", d.source = c.source, d.text = c.text
          PROVE  /\ script.pc # "idle"
                 /\ script.mode # "exclude_only"
                 /\ \E g \in suggestions' : /\ g.source = c.source /\ g.turn = c.text
                                            /\ g.status = "approved"
                                            /\ [run |-> g.run, turn |-> g.turn] \in label'
      <4>1. script.pc # "idle" /\ script.mode # "exclude_only"
        BY <3>1 DEF TurnsLabelled
      <4>2. PICK g \in SuggestionsOf(d.source) : g.turn = d.text /\ g.status = "approved" /\ LabelledIyin(g)
        BY <3>1 DEF TurnsLabelled
      <4>3. g \in suggestions /\ g.source = d.source
        BY <4>2 DEF SuggestionsOf
      <4>4. PICK h \in suggestions' : SameKey(h, g) /\ h.status = "approved"
        BY <1>1, <2>3, <4>2, <4>3, ApprovedKept
      <4> QED
        BY <1>2, <3>1, <4>1, <4>2, <4>3, <4>4 DEF SameKey, LabelledIyin
    <3>2. ASSUME NEW a \in Admins, NEW s \in Sources, TurnApprove(a, s), c.source = s,
                 NEW h \in admin[a].picked, h.turn = c.text, h.source = s
          PROVE  /\ script.pc # "idle"
                 /\ script.mode # "exclude_only"
                 /\ \E g \in suggestions' : /\ g.source = c.source /\ g.turn = c.text
                                            /\ g.status = "approved"
                                            /\ [run |-> g.run, turn |-> g.turn] \in label'
      <4>1. admin[a].pc = "approve_as_iyin" /\ a = Script
        BY <3>2 DEF TurnApprove, NobodyElse
      <4>2. script.pc # "idle" /\ Iyins(Id(h))
        BY <3>2, <4>1 DEF SortedOut, IdleAdmin
      <4>3. PICK f \in suggestions : SameKey(f, h)
        BY <1>1, <3>2 DEF PickedStored
      <4>4. Picked(a, f) /\ f \in Suggestion
        BY <1>1, <3>2, <4>3 DEF Picked, SameKey, TypeOK, EvidenceOK
      <4>5. PICK v : [f EXCEPT !.status = "approved", !.reviewer = "admin", !.chunk = v] \in suggestions'
        BY <3>2, <4>4 DEF TurnApprove
      <4> DEFINE g == [f EXCEPT !.status = "approved", !.reviewer = "admin", !.chunk = v]
      <4>6. g.source = c.source /\ g.turn = c.text /\ g.status = "approved" /\ g.run = h.run /\ g.turn = h.turn
        BY <3>2, <4>3, <4>4 DEF SameKey, Suggestion
      <4>7. g \in suggestions'
        BY <4>5
      <4> HIDE DEF g
      <4> QED
        BY <1>2, <4>2, <4>6, <4>7 DEF Iyins, Id
    <3> QED
      BY <1>1, <2>1, <2>3, <3>1, <3>2, TurnChunkOrigins
  <2> QED
    BY <2>2, <2>3, StepsButPost
<1> QED
  BY <1>3, <1>4

LEMMA LabelInit == ScriptInit => LabelInv
<1> SUFFICES ASSUME ScriptInit PROVE LabelInv
  OBVIOUS
<1>1. admin = [a \in Admins |-> IdleAdmin] /\ IdleAdmin.pc = "idle" /\ IdleAdmin.picked = {}
  BY DEF ScriptInit, Init, IdleAdmin
<1>2. SortedOut /\ NobodyElse
  BY <1>1, ScriptAssumption DEF ScriptInit, IdleScript, SortedOut, NobodyElse
<1>3. TurnsLabelled
  BY DEF ScriptInit, Init, TurnsLabelled
<1> QED
  BY <1>2, <1>3, ScriptReviewInit, ProgressInit DEF LabelInv

LEMMA LabelStep == ~AutoPublish /\ LabelInv /\ [ScriptNext]_scriptVars => LabelInv'
<1> SUFFICES ASSUME ~AutoPublish, LabelInv, [ScriptNext]_scriptVars PROVE LabelInv'
  OBVIOUS
<1>1. ReviewInv' /\ ProgressInv'
  BY ScriptReviewStep, ProgressStep DEF LabelInv
<1>2. SortedOut'
  BY <1>1, SortedStep DEF LabelInv
<1>3. turnReviews' = 0 => NobodyElse' /\ TurnsLabelled'
  BY NobodyStep, LabelledStep DEF LabelInv, ProgressInv
<1> QED
  BY <1>1, <1>2, <1>3 DEF LabelInv

\* As long as nobody else reviews turns and auto-publish is off, a turn that is cited was
\* labelled Iyin's by an analysis and approved by the script, whatever analyses, failures
\* and reviews overlap; and none is cited after an exclusion pass.
THEOREM LabelledCorrect == ScriptSpec => []CitedTurnsLabelled
<1>1. CASE AutoPublish
  <2>1. CitedTurnsLabelled
    BY <1>1 DEF CitedTurnsLabelled
  <2> QED
    BY <2>1, PTL
<1>2. CASE ~AutoPublish
  <2>1. LabelInv /\ [ScriptNext]_scriptVars => LabelInv'
    BY <1>2, LabelStep
  <2>2. LabelInv => CitedTurnsLabelled
    BY DEF LabelInv, TurnsLabelled, CitedTurnsLabelled, Citable
  <2> QED
    BY <2>1, <2>2, LabelInit, PTL DEF ScriptSpec
<1> QED
  BY <1>1, <1>2
=============================================================================
