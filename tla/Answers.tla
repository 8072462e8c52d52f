------------------------------ MODULE Answers -------------------------------
(***************************************************************************)
(* Questions over the evidence of EvidenceReview while its writers go on:   *)
(* POST /ask and GET /search (apps/api/afs/routes.py), the rank fusion of   *)
(* services/retrieval.py and the answer providers of services/providers.py. *)
(*                                                                          *)
(* search_chunks is three statements.  The first two filter on              *)
(* answer_eligible and return ids, the third loads the rows of these ids    *)
(* and does not filter again; each sees the commits made before it.  Then   *)
(* a model provider answers and names the chunks it cites.                  *)
(*                                                                          *)
(* Every source here is approved, in tier A or B and of the founder asked   *)
(* about, and is an underlying work of its own.  mode is "vector" where     *)
(* settings.embedding_provider is openai, as cleanup requires.              *)
(***************************************************************************)
EXTENDS EvidenceReview

CONSTANTS
    SearchLimit,    \* limit of search_chunks: 8 in the code
    PerWork,        \* results of one underlying work: 2 in the code
    RankConstant    \* k of reciprocal_rank_fusion: 60 in the code

ASSUME SearchAssumption == SearchLimit \in Nat \ {0} /\ PerWork \in Nat \ {0} /\ RankConstant \in Nat

VARIABLES
    ask,    \* the question in progress
    seen    \* history: the chunks that could be cited at some moment since it came in

askVars == <<vars, ask, seen>>

\* Mutant: the row as a statement has returned it stands for its id.
MutId(c) == c

\* chunks.id: a chunk keeps it when its columns change.
Id(c) == [source |-> c.source, version |-> c.version, origin |-> c.origin]
ChunkId == [source : Sources, version : Nat \ {0}, origin : Passages \cup Turns]
Ids(C) == {Id(c) : c \in C}

\* A result list, as the rank of each id in it.
EmptyRank == [i \in {} |-> 0]
Ranks(S) == {f \in [S -> 1 .. Cardinality(S)] : \A i, j \in S : f[i] = f[j] => i = j}

IdleAsk == [pc |-> "idle", mode |-> "keyword", keyword |-> EmptyRank, vector |-> EmptyRank,
            place |-> EmptyRank, cited |-> {}]

AskInit == Init /\ ask = IdleAsk /\ seen = {}

-----------------------------------------------------------------------------
Scope == Citable

\* embedding_model = settings.embedding_model: cleanup and turn review embed what they
\* publish; a raw chunk has the deterministic embedding and an auto-published turn none.
HasEmbedding(c) == c.kind = "cleaned" \/ (c.kind = "turn" /\ ~AutoPublish)

\* What a ranking statement returns: at most 4 * limit ids of C in any order.
Ranked(C) ==
    UNION {Ranks(S) : S \in {T \in SUBSET Ids(C) : Cardinality(T) = Smaller(4 * SearchLimit, Cardinality(Ids(C)))}}

In(f, i) == i \in DOMAIN f

\* Mutant: the rank in the last list takes the place of the sum.
MutHigher(i, j) ==
    LET last(x) == IF In(ask.vector, x) THEN ask.vector[x] ELSE ask.keyword[x] IN last(i) < last(j)

\* reciprocal_rank_fusion: the score of an id is the sum of 1 / (k + rank) over the
\* lists it is in.  Here as a fraction, compared by cross-multiplication.
Score(i) ==
    LET a == RankConstant + ask.keyword[i]
        b == RankConstant + ask.vector[i]
    IN CASE In(ask.keyword, i) /\ In(ask.vector, i) -> [num |-> a + b, den |-> a * b]
         [] In(ask.keyword, i) /\ ~In(ask.vector, i) -> [num |-> 1, den |-> a]
         [] OTHER -> [num |-> 1, den |-> b]
Higher(i, j) == Score(i).num * Score(j).den > Score(j).num * Score(i).den

\* The rows of the fused ids, by falling score; rows of one score stay in the order
\* the database returns them in.
Fused == DOMAIN ask.keyword \cup DOMAIN ask.vector
Sorted == {f \in Ranks(Fused) : \A i, j \in Fused : Higher(i, j) => f[i] < f[j]}

Before(f, i) == {j \in DOMAIN f : f[j] < f[i]}

\* Mutant: one more result of a work is let through.
MutDiversified(f) ==
    {i \in DOMAIN f : Cardinality({j \in Before(f, i) : j.source = i.source}) <= PerWork}

\* The first PerWork rows of every work.
Diversified(f) ==
    {i \in DOMAIN f : Cardinality({j \in Before(f, i) : j.source = i.source}) < PerWork}

\* The first SearchLimit rows among S.
FirstRows(f, S) == {i \in S : Cardinality(Before(f, i) \cap S) < SearchLimit}

-----------------------------------------------------------------------------
Question(mode) ==
    /\ ask.pc \in {"idle", "answered"}
    /\ ask' = [IdleAsk EXCEPT !.pc = "keyword", !.mode = mode]
    /\ seen' = Ids(Citable)
    /\ UNCHANGED vars

\* Whatever the question does next, the evidence stays as it is during the step.
AskStep(pc, next) ==
    /\ ask.pc = pc
    /\ ask' = next
    /\ UNCHANGED <<vars, seen>>

KeywordRank == \E f \in Ranked(Scope) : AskStep("keyword", [ask EXCEPT !.pc = "vector", !.keyword = f])

VectorRank ==
    IF ask.mode = "keyword" THEN AskStep("vector", [ask EXCEPT !.pc = "rows"])
    ELSE \E f \in Ranked({c \in Scope : HasEmbedding(c)}) :
            AskStep("vector", [ask EXCEPT !.pc = "rows", !.vector = f])

\* The third statement and the rest of search_chunks.
LoadRows ==
    \E f \in Sorted :
        LET kept == FirstRows(f, Diversified(f)) IN
        AskStep("rows", [ask EXCEPT !.pc = "answer", !.place = [i \in kept |-> f[i]]])

\* Mutant: the ids a provider names are not compared with its evidence.
MutValidated(named) == named

\* Of the ids a provider names only those it was given are kept, each once.
Validated(named) == named \cap DOMAIN ask.place

\* Without evidence a provider answers at once and cites nothing.
Answer ==
    \E named \in SUBSET Ids(chunks) :
        AskStep("answer", [IdleAsk EXCEPT !.pc = "answered", !.mode = ask.mode,
                                          !.cited = Validated(named)])

\* The provider or the database fails: 502 or 503.
AskFails == ask.pc \in {"keyword", "vector", "rows", "answer"} /\ AskStep(ask.pc, IdleAsk)

\* A step of the writers, recorded in the history while a question is open.
Write ==
    /\ Next
    /\ seen' = IF ask.pc \in {"idle", "answered"} THEN seen ELSE seen \cup Ids(Citable')
    /\ UNCHANGED ask

AskNext ==
    \/ Write
    \/ \E mode \in {"keyword", "vector"} : Question(mode)
    \/ KeywordRank
    \/ VectorRank
    \/ LoadRows
    \/ Answer
    \/ AskFails

AskSpec == AskInit /\ [][AskNext]_askVars

-----------------------------------------------------------------------------
(* Properties.                                                              *)

\* Type correctness: ranks are of chunks in the table.
AskTypeOK ==
    /\ ask.pc \in {"idle", "keyword", "vector", "rows", "answer", "answered"}
    /\ ask.mode \in {"keyword", "vector"}
    /\ \A f \in {ask.keyword, ask.vector, ask.place} : DOMAIN f \subseteq Ids(chunks)
    /\ ask.cited \subseteq Ids(chunks)
    /\ seen \subseteq Ids(chunks)

\* What an answer cites could be cited at some moment since its question came in,
\* whatever reviews and cleanups do between its statements and whatever ids the
\* provider names.
AnswersWereCitable == ask.cited \cup DOMAIN ask.place \subseteq seen

\* No answer is given from, or cites, a chunk whose captured text has injection flags,
\* whatever cleanups and reviews do between its statements: what the writers keep of
\* Citable is kept of what is answered from it.  A text that a cleanup wrote is not
\* looked at for flags, and an answer may cite it.
AnswersFlagsExcluded ==
    \A c \in chunks : Id(c) \in ask.cited \cup DOMAIN ask.place => NoCapturedFlags(c)

\* No work has more than PerWork results, and there are at most SearchLimit.
ResultsDiverse ==
    /\ Cardinality(DOMAIN ask.place) <= SearchLimit
    /\ \A s \in Sources : Cardinality({i \in DOMAIN ask.place : i.source = s}) <= PerWork

\* i is in every list that j is in, and before it.
Dominates(i, j) ==
    \A f \in {ask.keyword, ask.vector} : In(f, j) => In(f, i) /\ f[i] < f[j]

\* A result that both rankings put before another one comes before it.
RankingsRespected ==
    \A i, j \in DOMAIN ask.place : Dominates(i, j) => ask.place[i] < ask.place[j]

\* An answer cites a passage once, also when a cleanup replaces its chunk between the
\* statements of the search.  It holds in keyword mode and where CitedOnce does: with
\* embeddings the two rankings may see the chunk and its cleaned copy.
AnswerCitesOnce ==
    ask.mode = "keyword" /\ Cardinality(Requests) = 1 /\ repeats = 0 /\ reviews <= 1 =>
        \A i, j \in ask.cited : i.source = j.source /\ i.origin = j.origin /\ i.origin \in Passages => i = j
=============================================================================
