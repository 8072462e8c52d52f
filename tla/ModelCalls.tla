----------------------------- MODULE ModelCalls -----------------------------
(***************************************************************************)
(* What a task asks of a model provider for one source, and what it pays:   *)
(* the calls of _clean_verified_sources and _analyze_interview_turns        *)
(* (apps/worker/worker/tasks.py), the validation of their answers           *)
(* (clean_chunks and extract_interview_turns, services/providers.py), the   *)
(* retries after an answer that is not valid, and the monthly cost limit.   *)
(*                                                                          *)
(* A model may return anything of the right JSON shape.  Costs are in a     *)
(* unit of money, one call costs a member of Costs.                         *)
(***************************************************************************)
EXTENDS Integers, Sequences, FiniteSets, SequencesExt

CONSTANTS
    Tasks,        \* worker processes
    NumSegments,  \* transcript segments of an interview
    NumChunks,    \* eligible raw chunks of a source
    BatchSize,    \* segments of one call: 120 in the code
    Cap,          \* settings.max_monthly_ai_cost
    Costs,        \* what a call may cost
    Providers,    \* settings.extraction_provider: subset of {"openai", "gemini"}
    MaxStarts,    \* bound: tasks started in the month
    MaxOthers     \* bound: calls of answers and reviews recorded in the month

ASSUME TasksAssumption == IsFiniteSet(Tasks)
ASSUME SizesAssumption ==
    NumSegments \in Nat \ {0} /\ NumChunks \in Nat \ {0} /\ BatchSize \in Nat \ {0}
ASSUME MoneyAssumption ==
    Cap \in Nat /\ IsFiniteSet(Costs) /\ Costs # {} /\ Costs \subseteq Nat
    /\ MaxStarts \in Nat /\ MaxOthers \in Nat
ASSUME ProvidersAssumption == Providers # {} /\ Providers \subseteq {"openai", "gemini"}

VARIABLES
    recorded,  \* this month's sum of provider_cost_records, by provider: what the tasks
    others,    \* have inserted, and what answers and turn reviews have
    task,      \* the local variables of the tasks
    starts, otherCalls   \* counters for the bounds

bounds == <<starts, otherCalls>>
vars == <<recorded, others, task, starts, otherCalls>>

Smaller(m, n) == IF m < n THEN m ELSE n
Numbers(n) == [i \in 1 .. n |-> i]

\* todo: the batches that will be sent, the next one first; turns: what the analysis has
\* validated or given up on; cleaned: the rows of the cleanup; usage: the cost of usages.
IdleTask == [kind |-> "none", pc |-> "idle", provider |-> "openai", todo |-> <<>>, turns |-> <<>>,
             cleaned |-> {}, usages |-> 0, usage |-> 0, calls |-> 0]

Init ==
    /\ recorded = [p \in {"openai", "gemini"} |-> 0]
    /\ others = recorded
    /\ task = [w \in Tasks |-> IdleTask]
    /\ starts = 0 /\ otherCalls = 0

-----------------------------------------------------------------------------
(* Answers.                                                                 *)

AnswersUpTo(S, n) == UNION {[1 .. k -> S] : k \in 0 .. n}

\* Mutant: the segments are compared as sets.
MutPreserves(batch, returned) == Range(returned) = Range(batch)

\* extract_interview_turns: every segment, in order.
Preserves(batch, returned) == returned = batch

\* The ways to cut a batch into turns of adjacent segments.
Turn(batch, first, last) == [segments |-> SubSeq(batch, first, last), validated |-> TRUE]
Groupings(batch) ==
    LET Cuts(k) == {cut \in [0 .. k -> 0 .. Len(batch)] :
                       cut[0] = 0 /\ cut[k] = Len(batch) /\ \A i \in 1 .. k : cut[i - 1] < cut[i]}
    IN UNION {{[i \in 1 .. k |-> Turn(batch, cut[i - 1] + 1, cut[i])] : cut \in Cuts(k)} : k \in 0 .. Len(batch)}

Placeholder(batch) == [segments |-> batch, validated |-> FALSE]

\* clean_chunks (0 is the id of no chunk): rows of other chunks and blank rows are
\* dropped, the others keep their places; the answer about a single chunk is its first
\* row, whatever id that has.
Row == [id : 0 .. NumChunks, blank : BOOLEAN]
Kept(batch, rows) ==
    IF Len(batch) = 1 /\ rows # <<>>
    THEN [n \in {k \in {1} : ~rows[k].blank} |-> [rows[n] EXCEPT !.id = batch[1]]]
    ELSE [n \in {k \in DOMAIN rows : rows[k].id \in Range(batch) /\ ~rows[k].blank} |-> rows[n]]

\* Mutant: as many rows as chunks will do.
MutComplete(batch, kept) == Cardinality(DOMAIN kept) = Len(batch)

Complete(batch, kept) ==
    {row.id : row \in Range(kept)} = Range(batch) /\ Cardinality(DOMAIN kept) = Len(batch)

-----------------------------------------------------------------------------
(* A task begins, if the records of this month are below the limit.          *)

Start(w, kind, provider, todo) ==
    /\ task[w].pc = "idle"
    /\ starts < MaxStarts
    /\ starts' = starts + 1
    /\ task' = [task EXCEPT ![w] = [IdleTask EXCEPT !.kind = kind, !.pc = "calling",
                                                    !.provider = provider, !.todo = todo]]
    /\ UNCHANGED <<recorded, others, otherCalls>>

\* Batches of BatchSize segments.
Batches ==
    [k \in 1 .. ((NumSegments + BatchSize - 1) \div BatchSize) |->
        SubSeq(Numbers(NumSegments), (k - 1) * BatchSize + 1, Smaller(k * BatchSize, NumSegments))]

\* Mutant: the last call allowed is one that reaches the limit.
MutBelowCap(sum) == sum <= Cap
BelowCap(sum) == sum < Cap

Spent(p) == recorded[p] + others[p]

StartAnalysis(w, p) ==
    /\ BelowCap(Spent("openai") + Spent("gemini"))
    /\ Start(w, "analysis", p, Batches)

\* Cleanup calls OpenAI, and counts nothing else.
StartCleanup(w) ==
    /\ BelowCap(Spent("openai"))
    /\ Start(w, "cleanup", "openai", <<Numbers(NumChunks)>>)

-----------------------------------------------------------------------------
(* A call has been answered.                                                *)

Answered(w, next) ==
    /\ task' = [task EXCEPT ![w] = next]
    /\ UNCHANGED <<recorded, others, bounds>>

\* t after a call whose answer was accepted.
Accepted(t, cost) ==
    [t EXCEPT !.todo = Tail(@), !.calls = @ + 1, !.usages = @ + 1, !.usage = @ + cost]

Halves(batch) ==
    LET midpoint == Len(batch) \div 2
    IN <<SubSeq(batch, 1, midpoint), SubSeq(batch, midpoint + 1, Len(batch))>>

\* Mutant: a single segment is halved as well.
MutBisected(t) ==
    [t EXCEPT !.calls = @ + 1, !.todo = Halves(Head(@)) \o Tail(@)]

\* analyze_batch after a ValueError: a single segment becomes a turn of its own that
\* nobody has labelled, a batch is halved, the first half first.
Bisected(t) ==
    LET batch == Head(t.todo) IN
    IF Len(batch) = 1
    THEN [t EXCEPT !.calls = @ + 1, !.todo = Tail(@), !.turns = Append(@, Placeholder(batch))]
    ELSE [t EXCEPT !.calls = @ + 1, !.todo = Halves(batch) \o Tail(@)]

ExtractTurns(w) ==
    LET t == task[w]
        answers == AnswersUpTo(1 .. NumSegments, Len(Head(t.todo)))
        valid == {returned \in answers : Preserves(Head(t.todo), returned)}
    IN
    /\ t.kind = "analysis"
    /\ t.todo # <<>>
    /\ \/ \E returned \in valid : \E grouping \in Groupings(returned), cost \in Costs :
             Answered(w, [Accepted(t, cost) EXCEPT !.turns = @ \o grouping])
       \/ answers # valid /\ Answered(w, Bisected(t))

\* Mutant: after one of these calls the chunks are sent once more.
MutOneByOne(t) ==
    [t EXCEPT !.calls = 1, !.todo = [i \in 1 .. NumChunks |-> <<i>>], !.cleaned = {},
              !.usages = 0, !.usage = 0]

\* After a ValueError of the first call every chunk is sent alone; after one of these
\* calls the task fails.
OneByOne(t) ==
    IF t.calls = 0 THEN [t EXCEPT !.calls = 1, !.todo = [i \in 1 .. NumChunks |-> <<i>>]]
    ELSE IdleTask

CleanChunks(w) ==
    LET t == task[w]
        answers == {Kept(Head(t.todo), rows) : rows \in AnswersUpTo(Row, NumChunks + 1)}
        valid == {kept \in answers : Complete(Head(t.todo), kept)}
    IN
    /\ t.kind = "cleanup"
    /\ t.todo # <<>>
    /\ \/ \E kept \in valid, cost \in Costs :
             Answered(w, [Accepted(t, cost) EXCEPT !.cleaned = @ \cup Range(kept)])
       \/ answers # valid /\ Answered(w, OneByOne(t))

\* An HTTP error, a time limit, a killed process.  No call made so far is recorded.
TaskFails(w) ==
    /\ task[w].pc = "calling"
    /\ task' = [task EXCEPT ![w] = IdleTask]
    /\ UNCHANGED <<recorded, others, bounds>>

-----------------------------------------------------------------------------
(* All calls have been answered: one transaction writes what they gave, and *)
(* their cost.                                                              *)

Finish(w, kind, cost) ==
    /\ task[w].pc = "calling"
    /\ task[w].kind = kind
    /\ task[w].todo = <<>>
    /\ task' = [task EXCEPT ![w] = IdleTask]
    /\ recorded' = [recorded EXCEPT ![task[w].provider] = @ + task[w].usage + cost]
    /\ UNCHANGED <<others, bounds>>

PublishTurns(w) == task[w].usages > 0 /\ Finish(w, "analysis", 0)

NothingValidated(w) ==
    /\ task[w].kind = "analysis" /\ task[w].todo = <<>> /\ task[w].usages = 0
    /\ TaskFails(w)

\* The cleaned texts have been embedded, at a cost of their own.
PublishCleaned(w) == \E cost \in Costs : Finish(w, "cleanup", cost)

-----------------------------------------------------------------------------
\* An answer, the embedding of a question or of approved turns: recorded in the same
\* table, and compared with no limit.
OtherUsage(p) ==
    /\ otherCalls < MaxOthers
    /\ otherCalls' = otherCalls + 1
    /\ \E cost \in Costs : others' = [others EXCEPT ![p] = @ + cost]
    /\ UNCHANGED <<recorded, task, starts>>

TaskStep(w) ==
    \/ ExtractTurns(w)
    \/ CleanChunks(w)
    \/ PublishTurns(w)
    \/ NothingValidated(w)
    \/ PublishCleaned(w)

Next ==
    \/ \E w \in Tasks :
          \/ StartCleanup(w)
          \/ \E p \in Providers : StartAnalysis(w, p)
          \/ TaskStep(w)
          \/ TaskFails(w)
    \/ \E p \in {"openai", "gemini"} : OtherUsage(p)

\* A call is answered or ends in an error: every client has a time limit.
Spec == Init /\ [][Next]_vars /\ \A w \in Tasks : WF_vars(TaskStep(w))

-----------------------------------------------------------------------------
(* Properties.                                                              *)

\* However answers fail and batches are halved, the turns and the batches still to be
\* sent are the segments of the interview, each once and in their order.
SegmentsInOrder ==
    \A w \in Tasks : task[w].kind = "analysis" =>
        FlattenSeq([i \in DOMAIN task[w].turns |-> task[w].turns[i].segments])
            \o FlattenSeq(task[w].todo) = Numbers(NumSegments)

\* A cleanup that succeeds has one text for every chunk, and none of them is blank:
\* also where an answer to all chunks has been thrown away.
ChunksCleanedOnce ==
    \A w \in Tasks : task[w].kind = "cleanup" /\ task[w].todo = <<>> =>
        /\ \A c \in 1 .. NumChunks : \E row \in task[w].cleaned : row.id = c /\ ~row.blank
        /\ Cardinality(task[w].cleaned) = NumChunks

\* A model that never answers correctly is asked a bounded number of times.
CallsBounded ==
    \A w \in Tasks :
        task[w].calls <= IF task[w].kind = "analysis" THEN 2 * NumSegments - Len(Batches)
                         ELSE NumChunks + 1

Dearest == CHOOSE c \in Costs : \A d \in Costs : d <= c
TaskCost == Dearest * (IF NumSegments > NumChunks THEN NumSegments ELSE NumChunks + 1)

\* The limit is compared before calls whose cost is recorded after them: what the tasks
\* record for one provider exceeds it by less than what all running tasks may add; a
\* limit of 0 lets none begin.
CostOvershoot ==
    \A p \in {"openai", "gemini"} :
        recorded[p] > 0 => recorded[p] < Cap + Cardinality(Tasks) * TaskCost

\* Every task ends, whatever the model answers.
CallsEnd == \A w \in Tasks : task[w].pc = "calling" ~> task[w].pc # "calling"
=============================================================================
