--------------------------- MODULE AnswersProofs ----------------------------
(* What holds of answers for every value of the constants. *)
EXTENDS Answers, EvidenceReviewProofs, NaturalsInduction

\* An answering system is an evidence system: questions do not change the evidence, so
\* every theorem about Spec is one about AskSpec.
THEOREM EvidenceUnchanged == AskSpec => Spec
<1>1. AskInit => Init
  BY DEF AskInit
<1>2. [AskNext]_askVars => [Next]_vars
  BY DEF AskNext, askVars, Write, Question, KeywordRank, VectorRank, LoadRows, Answer,
         AskFails, AskStep
<1> QED
  BY <1>1, <1>2, PTL DEF AskSpec, Spec

-----------------------------------------------------------------------------
Fields == {"pc", "mode", "keyword", "vector", "place", "cited"}
Open == ask.pc \notin {"idle", "answered"}
Held == DOMAIN ask.keyword \cup DOMAIN ask.vector \cup DOMAIN ask.place \cup ask.cited

\* All that a question holds was citable at some moment since it came in, and while it
\* is open the history keeps up with the writers.
AskInv ==
    /\ DOMAIN ask = Fields
    /\ Held \subseteq seen
    /\ Open => Ids(Citable) \subseteq seen

\* What a ranking statement returns are ids of what it ranks.
LEMMA RankedInScope ==
    ASSUME NEW C, NEW f \in Ranked(C)
    PROVE  DOMAIN f \subseteq Ids(C)
  BY DEF Ranked, Ranks

\* The rows kept of a fused list are in both of its lists' union.
LEMMA RowsInFused ==
    ASSUME NEW f \in Sorted
    PROVE  FirstRows(f, Diversified(f)) \subseteq DOMAIN ask.keyword \cup DOMAIN ask.vector
  BY DEF Sorted, Ranks, Fused, FirstRows, Diversified

LEMMA NothingHeld ==
    /\ DOMAIN IdleAsk = Fields
    /\ IdleAsk.pc = "idle"
    /\ DOMAIN IdleAsk.keyword = {} /\ DOMAIN IdleAsk.vector = {} /\ DOMAIN IdleAsk.place = {}
    /\ IdleAsk.cited = {}
  BY DEF IdleAsk, Fields, EmptyRank

LEMMA AskInvInductive ==
    ASSUME AskInv, [AskNext]_askVars
    PROVE  AskInv'
<1> USE DEF AskInv, Held, Open
<1>1. CASE Write
  BY <1>1 DEF Write
<1>2. ASSUME NEW mode \in {"keyword", "vector"}, Question(mode)
      PROVE  AskInv'
  <2>1. Citable' = Citable
    BY <1>2 DEF Question, vars, Citable
  <2>2. DOMAIN ask' = Fields /\ Held' = {}
    BY <1>2, NothingHeld DEF Question, Fields
  <2> QED
    BY <1>2, <2>1, <2>2 DEF Question, Ids, Id
<1>3. ASSUME NEW pc, NEW next, AskStep(pc, next), pc \notin {"idle", "answered"},
             DOMAIN next = Fields,
             DOMAIN next.keyword \cup DOMAIN next.vector \cup DOMAIN next.place \cup next.cited \subseteq seen
      PROVE  AskInv'
  <2>1. Citable' = Citable /\ Ids(Citable)' = Ids(Citable)
    BY <1>3 DEF AskStep, vars, Citable, Ids, Id
  <2> QED
    BY <1>3, <2>1 DEF AskStep
<1>4. CASE KeywordRank
  <2>1. PICK f \in Ranked(Scope) : AskStep("keyword", [ask EXCEPT !.pc = "vector", !.keyword = f])
    BY <1>4 DEF KeywordRank
  <2>2. DOMAIN f \subseteq seen
    BY <2>1, RankedInScope DEF Scope, AskStep
  <2> QED
    BY <1>3, <2>1, <2>2 DEF Fields
<1>5. CASE VectorRank
  <2>1. CASE ask.mode = "keyword"
    <3>1. AskStep("vector", [ask EXCEPT !.pc = "rows"])
      BY <1>5, <2>1 DEF VectorRank
    <3> QED
      BY <1>3, <3>1 DEF Fields
  <2>2. CASE ask.mode # "keyword"
    <3>1. PICK f \in Ranked({c \in Scope : HasEmbedding(c)}) :
             AskStep("vector", [ask EXCEPT !.pc = "rows", !.vector = f])
      BY <1>5, <2>2 DEF VectorRank
    <3>2. DOMAIN f \subseteq Ids(Citable)
      BY RankedInScope DEF Scope, Ids
    <3>3. DOMAIN f \subseteq seen
      BY <3>1, <3>2 DEF AskStep
    <3> QED
      BY <1>3, <3>1, <3>3 DEF Fields
  <2> QED
    BY <2>1, <2>2
<1>6. CASE LoadRows
  <2>1. PICK f \in Sorted :
           AskStep("rows", [ask EXCEPT !.pc = "answer",
                               !.place = [i \in FirstRows(f, Diversified(f)) |-> f[i]]])
    BY <1>6 DEF LoadRows
  <2>2. FirstRows(f, Diversified(f)) \subseteq seen
    BY RowsInFused
  <2> DEFINE place == [i \in FirstRows(f, Diversified(f)) |-> f[i]]
  <2>3. DOMAIN place \subseteq seen
    BY <2>2
  <2> HIDE DEF place
  <2> DEFINE next == [ask EXCEPT !.pc = "answer", !.place = place]
  <2>4. DOMAIN next = Fields /\ next.place = place
    BY DEF Fields
  <2>5. next.keyword = ask.keyword /\ next.vector = ask.vector /\ next.cited = ask.cited
    BY DEF Fields
  <2>6. AskStep("rows", next)
    BY <2>1 DEF place
  <2> HIDE DEF next
  <2> QED
    BY <1>3, <2>3, <2>4, <2>5, <2>6
<1>7. CASE Answer
  <2>1. PICK named : AskStep("answer", [IdleAsk EXCEPT !.pc = "answered", !.mode = ask.mode,
                                                       !.cited = Validated(named)])
    BY <1>7 DEF Answer
  <2>2. Validated(named) \subseteq seen
    BY DEF Validated
  <2> DEFINE next == [IdleAsk EXCEPT !.pc = "answered", !.mode = ask.mode,
                                     !.cited = Validated(named)]
  <2>3. DOMAIN next = Fields /\ next.cited \subseteq seen
    BY <2>2, NothingHeld DEF Fields
  <2>4. DOMAIN next.keyword = {} /\ DOMAIN next.vector = {} /\ DOMAIN next.place = {}
    BY NothingHeld DEF Fields
  <2>5. AskStep("answer", next)
    BY <2>1
  <2> HIDE DEF next
  <2> QED
    BY <1>3, <2>3, <2>4, <2>5
<1>8. CASE AskFails
  BY <1>3, <1>8, NothingHeld DEF AskFails
<1>9. CASE UNCHANGED askVars
  BY <1>9 DEF askVars, vars, Citable, Ids, Id
<1> QED
  BY <1>1, <1>2, <1>4, <1>5, <1>6, <1>7, <1>8, <1>9 DEF AskNext

\* An answer cites, and is given from, what could be cited at some moment since its
\* question came in: the third statement of search_chunks needs no filter for that.
THEOREM AnswersCitable == AskSpec => []AnswersWereCitable
<1>1. AskInit => AskInv
  BY NothingHeld DEF AskInit, AskInv, Held, Open
<1>2. AskInv /\ [AskNext]_askVars => AskInv'
  BY AskInvInductive
<1>3. AskInv => AnswersWereCitable
  BY DEF AskInv, Held, AnswersWereCitable
<1> QED
  BY <1>1, <1>2, <1>3, PTL DEF AskSpec

\* The origins of all that could be cited during the question have no flags.
SeenUnflagged == \A i \in seen : i.origin \notin Flagged

\* From a review to an answer: no answer is given from, or cites, a chunk whose captured
\* text has injection flags, whatever writers do while the question is open.  An id in
\* the history keeps its origin, and the text of a chunk that no cleanup wrote is its
\* origin for as long as it is in the table (Captured).
THEOREM AnswersFlagsCorrect == AskSpec => []AnswersFlagsExcluded
<1>1. AskSpec => []CitableInv
  <2>1. Spec => []CitableInv
    BY CitableInit, CitableStep, PTL DEF Spec
  <2> QED
    BY <2>1, EvidenceUnchanged
<1>2. AskSpec => []AnswersWereCitable
  BY AnswersCitable
<1>3. AskInit => SeenUnflagged
  BY DEF AskInit, SeenUnflagged
<1>4. SeenUnflagged /\ CitableInv /\ CitableInv' /\ [AskNext]_askVars => SeenUnflagged'
  <2> SUFFICES ASSUME SeenUnflagged, CitableInv, CitableInv', [AskNext]_askVars
               PROVE  SeenUnflagged'
    OBVIOUS
  <2>1. \A i \in Ids(Citable) \cup Ids(Citable') : i.origin \notin Flagged
    BY DEF CitableInv, CapturedFlagsExcluded, NoCapturedFlags, Ids, Id
  <2>2. seen' \subseteq seen \cup Ids(Citable) \cup Ids(Citable')
    BY DEF AskNext, Write, Question, KeywordRank, VectorRank, LoadRows, Answer, AskFails,
           AskStep, askVars
  <2> QED
    BY <2>1, <2>2 DEF SeenUnflagged
<1>5. SeenUnflagged /\ CitableInv /\ AnswersWereCitable => AnswersFlagsExcluded
  <2> SUFFICES ASSUME SeenUnflagged, CitableInv, AnswersWereCitable,
                      NEW c \in chunks, Id(c) \in ask.cited \cup DOMAIN ask.place
               PROVE  NoCapturedFlags(c)
    BY DEF AnswersFlagsExcluded
  <2>1. c.origin \notin Flagged
    BY DEF SeenUnflagged, AnswersWereCitable, Id
  <2>2. c.kind # "cleaned" => c.text = c.origin
    BY DEF CitableInv, FlagsOfCapture, Captured
  <2> QED
    BY <2>1, <2>2 DEF NoCapturedFlags
<1> QED
  BY <1>1, <1>2, <1>3, <1>4, <1>5, PTL DEF AskSpec

-----------------------------------------------------------------------------
(* The tables are finite.                                                   *)

LEMMA ImageFinite ==
    ASSUME NEW S, IsFiniteSet(S), NEW f
    PROVE  IsFiniteSet({f[x] : x \in S})
<1> DEFINE T == {f[x] : x \in S}
           g == [x \in S |-> f[x]]
<1>1. g \in Surjection(S, T)
  BY DEF Surjection
<1> HIDE DEF T, g
<1>2. IsFiniteSet(T)
  BY <1>1, FS_Surjection
<1> QED
  BY <1>2 DEF T

FiniteEvidence ==
    /\ IsFiniteSet(chunks)
    /\ \A w \in Workers : IsFiniteSet(worker[w].old)

LEMMA FiniteInit == Init => FiniteEvidence
<1> SUFFICES ASSUME Init PROVE FiniteEvidence
  OBVIOUS
<1> DEFINE raw == [p \in Sources \X Passages |->
                      [source |-> p[1], version |-> 1, origin |-> p[2], text |-> p[2],
                       flags |-> p[2] \in Flagged, kind |-> "raw",
                       speaker |-> FALSE, eligible |-> FALSE]]
<1>1. IsFiniteSet({raw[p] : p \in Sources \X Passages})
  <2> HIDE DEF raw
  <2>1. IsFiniteSet(Sources \X Passages)
    BY FS_Product, FiniteAssumption
  <2> QED
    BY <2>1, ImageFinite
<1>2. chunks \in SUBSET {raw[p] : p \in Sources \X Passages}
  <2> SUFFICES ASSUME NEW c \in chunks PROVE \E p \in Sources \X Passages : c = raw[p]
    OBVIOUS
  <2>1. PICK s \in Sources, t \in Passages :
          c = [source |-> s, version |-> 1, origin |-> t, text |-> t, flags |-> t \in Flagged,
               kind |-> "raw", speaker |-> FALSE, eligible |-> FALSE]
    BY DEF Init
  <2>2. <<s, t>> \in Sources \X Passages /\ c = raw[<<s, t>>]
    BY <2>1
  <2> QED
    BY <2>2
<1>3. \A w \in Workers : worker[w].old = {}
  BY DEF Init, IdleWorker
<1> QED
  BY <1>1, <1>2, <1>3, FS_EmptySet, FS_Subset DEF FiniteEvidence

LEMMA TurnChunksFinite ==
    ASSUME NEW s, NEW v, NEW T \in SUBSET Turns
    PROVE  IsFiniteSet(TurnChunks(s, v, T))
<1> DEFINE new == [t \in T |-> [source |-> s, version |-> v, origin |-> t, text |-> t,
                                flags |-> t \in Flagged, kind |-> "turn",
                                speaker |-> TRUE, eligible |-> t \notin Flagged]]
<1>1. IsFiniteSet(T)
  BY FS_Subset, FiniteAssumption
<1>2. IsFiniteSet({new[t] : t \in T})
  BY <1>1, ImageFinite
<1>3. TurnChunks(s, v, T) = {new[t] : t \in T}
  BY DEF TurnChunks
<1> QED
  BY <1>2, <1>3

LEMMA FiniteStep ==
    ASSUME TypeOK, FiniteEvidence, [Next]_vars
    PROVE  FiniteEvidence'
<1>1. IsFiniteSet(chunks) /\ \A w \in Workers : IsFiniteSet(worker[w].old)
  BY DEF FiniteEvidence
<1>2. ASSUME NEW w \in Workers PROVE IsFiniteSet(worker'[w].old)
  <2>1. worker'[w].old \in SUBSET (worker[w].old \cup chunks)
    BY OldKept
  <2>2. IsFiniteSet(worker[w].old \cup chunks)
    BY <1>1, FS_Union
  <2> QED
    BY <2>1, <2>2, FS_Subset
<1>3. ASSUME NEW S \in SUBSET Sources, NEW decision \in Decisions, SpeakerReview(S, decision)
      PROVE  IsFiniteSet(chunks')
  <2> DEFINE new == [c \in chunks |-> IF c.source \in S THEN Reviewed(c, decision = "verified_single_speaker") ELSE c]
  <2>1. chunks' = {new[c] : c \in chunks}
    BY <1>3 DEF SpeakerReview
  <2> HIDE DEF new
  <2> QED
    BY <1>1, <2>1, ImageFinite
<1>4. ASSUME NEW w \in Workers, NEW s \in Sources, CleanPublish(w, s) PROVE IsFiniteSet(chunks')
  <2> DEFINE same(c, d) == c.version = d.version /\ c.origin = d.origin /\ c.source = d.source
             old == worker[w].old
             f(c) == IF \E d \in worker[w].old : same(c, d) THEN [c EXCEPT !.eligible = FALSE] ELSE c
  <2>1. PICK rewrite \in [worker[w].old -> Rewrites] :
          chunks' = {IF \E d \in worker[w].old : same(c, d) THEN [c EXCEPT !.eligible = FALSE] ELSE c : c \in chunks}
                    \cup {Cleaned(c, version[s] + 1, rewrite[c]) : c \in worker[w].old}
    BY <1>4 DEF CleanPublish
  <2> DEFINE g(c) == Cleaned(c, version[s] + 1, rewrite[c])
  <2>2. chunks' = {f(c) : c \in chunks} \cup {g(c) : c \in old}
    BY <2>1
  <2> HIDE DEF f, g
  <2> DEFINE rest == [c \in chunks |-> f(c)]
             copy == [c \in old |-> g(c)]
  <2>3. chunks' = {rest[c] : c \in chunks} \cup {copy[c] : c \in old}
    BY <2>2
  <2> HIDE DEF rest, copy
  <2>4. IsFiniteSet(old)
    BY <1>1
  <2>5. IsFiniteSet({rest[c] : c \in chunks}) /\ IsFiniteSet({copy[c] : c \in old})
    BY <1>1, <2>4, ImageFinite
  <2> QED
    BY <2>3, <2>5, FS_Union
<1>5. ASSUME NEW T \in SUBSET Turns, NEW s, NEW v, chunks' = chunks \cup TurnChunks(s, v, T)
      PROVE  IsFiniteSet(chunks')
  BY <1>1, <1>5, TurnChunksFinite, FS_Union
<1>6. ASSUME NEW w \in Workers, NEW s \in Sources, NEW confident \in SUBSET Turns,
             AnalysisPublish(w, s, confident)
      PROVE  IsFiniteSet(chunks')
  BY <1>5, <1>6, PublishedType DEF AnalysisPublish
<1>7. ASSUME NEW a \in Admins, NEW s \in Sources, TurnApprove(a, s) PROVE IsFiniteSet(chunks')
  <2>1. {h.turn : h \in admin[a].picked} \in SUBSET Turns
    BY DEF TypeOK, AdminsOK, AdminState, Suggestion
  <2> QED
    BY <1>5, <1>7, <2>1 DEF TurnApprove
<1>8. IsFiniteSet(chunks')
  BY <1>1, <1>3, <1>4, <1>6, <1>7, ChunkWriters
<1> QED
  BY <1>2, <1>8 DEF FiniteEvidence

-----------------------------------------------------------------------------
(* Ranking.                                                                 *)

\* Among finitely many ranks one is the last.
LEMMA LastAmong ==
    ASSUME NEW n \in Nat, NEW S, NEW f \in [S -> 1 .. n], NEW K \in SUBSET S, K # {}
    PROVE  \E m \in K : \A i \in K : f[i] <= f[m]
<1> DEFINE T == {n - f[i] : i \in K}
<1>1. T \subseteq Nat /\ T # {}
  <2>1. PICK i \in K : TRUE
    OBVIOUS
  <2>2. n - f[i] \in T
    BY <2>1
  <2>3. \A j \in K : n - f[j] \in Nat
    OBVIOUS
  <2> QED
    BY <2>2, <2>3
<1>2. PICK x \in T : \A y \in T : <<y, x>> \notin OpToRel(<, Nat)
  BY <1>1, NatLessThanWellFounded, WFMin, Zenon
<1>3. \A y \in T : ~(y < x)
  BY <1>1, <1>2 DEF OpToRel
<1>4. PICK m \in K : x = n - f[m]
  OBVIOUS
<1>5. ASSUME NEW i \in K PROVE f[i] <= f[m]
  <2>1. ~(n - f[i] < x)
    BY <1>3
  <2> QED
    BY <2>1, <1>4
<1> QED
  BY <1>5

\* If fewer than limit of L come before each of K, then K has at most limit members.
LEMMA FirstFew ==
    ASSUME NEW n \in Nat, NEW S, NEW f \in [S -> 1 .. n], \A i, j \in S : f[i] = f[j] => i = j,
           NEW L \in SUBSET S, NEW K \in SUBSET L, NEW limit \in Nat \ {0},
           \A i \in K : Cardinality({j \in L : f[j] < f[i]}) < limit
    PROVE  Cardinality(K) <= limit
<1>1. CASE K = {}
  <2>1. Cardinality(K) = 0
    BY <1>1, FS_EmptySet
  <2> QED
    BY <2>1
<1>2. CASE K # {}
  <2>1. PICK m \in K : \A i \in K : f[i] <= f[m]
    BY <1>2, LastAmong
  <2> DEFINE B == {j \in L : f[j] < f[m]}
  <2>2. f \in Injection(S, 1 .. n)
    BY DEF Injection, IsInjective
  <2>3. IsFiniteSet(S)
    <3>1. IsFiniteSet(1 .. n)
      BY FS_Interval
    <3> QED
      BY <2>2, <3>1, FS_Injection
  <2>4. IsFiniteSet(B)
    BY <2>3, FS_Subset
  <2>5. Cardinality(B) \in Nat /\ Cardinality(B) < limit
    BY <2>4, FS_CardinalityType
  <2>6. K \in SUBSET (B \cup {m})
    BY <2>1
  <2> HIDE DEF B
  <2>7. IsFiniteSet(B \cup {m}) /\ Cardinality(B \cup {m}) <= Cardinality(B) + 1
    <3>1. /\ IsFiniteSet(B \cup {m})
          /\ Cardinality(B \cup {m}) = IF m \in B THEN Cardinality(B) ELSE Cardinality(B) + 1
      BY <2>4, FS_AddElement, Zenon
    <3> QED
      BY <2>5, <3>1
  <2>8. /\ Cardinality(K) <= Cardinality(B \cup {m})
        /\ IsFiniteSet(K)
    BY <2>6, <2>7, FS_Subset
  <2>9. Cardinality(K) \in Nat /\ Cardinality(B \cup {m}) \in Nat
    BY <2>7, <2>8, FS_CardinalityType
  <2> QED
    BY <2>5, <2>7, <2>8, <2>9
<1> QED
  BY <1>1, <1>2

\* A ranking gives each of finitely many ids a rank of its own.
LEMMA RankedType ==
    ASSUME NEW C, IsFiniteSet(Ids(C)), NEW f \in Ranked(C)
    PROVE  /\ DOMAIN f \subseteq Ids(C)
           /\ IsFiniteSet(DOMAIN f)
           /\ f \in [DOMAIN f -> Nat \ {0}]
<1>1. PICK S \in SUBSET Ids(C) : f \in Ranks(S)
  BY DEF Ranked
<1>2. IsFiniteSet(S)
  BY FS_Subset
<1>3. Cardinality(S) \in Nat
  BY <1>2, FS_CardinalityType
<1>4. f \in [S -> 1 .. Cardinality(S)]
  BY <1>1 DEF Ranks
<1> QED
  BY <1>2, <1>3, <1>4

FusedFinite ==
    /\ IsFiniteSet(DOMAIN ask.keyword) /\ IsFiniteSet(DOMAIN ask.vector)
    /\ ask.keyword \in [DOMAIN ask.keyword -> Nat \ {0}]
    /\ ask.vector \in [DOMAIN ask.vector -> Nat \ {0}]

LEMMA SortedType ==
    ASSUME FusedFinite, NEW f \in Sorted
    PROVE  /\ Cardinality(Fused) \in Nat
           /\ f \in [Fused -> 1 .. Cardinality(Fused)]
           /\ \A i, j \in Fused : f[i] = f[j] => i = j
           /\ \A i, j \in Fused : Higher(i, j) => f[i] < f[j]
<1>1. IsFiniteSet(Fused)
  BY FS_Union DEF FusedFinite, Fused
<1>2. f \in Ranks(Fused) /\ \A i, j \in Fused : Higher(i, j) => f[i] < f[j]
  BY DEF Sorted
<1> QED
  BY <1>1, <1>2, FS_CardinalityType DEF Ranks

\* The rows search_chunks keeps: not too many, and not too many of one work.
LEMMA KeptRows ==
    ASSUME FusedFinite, NEW f \in Sorted, NEW K, K = FirstRows(f, Diversified(f))
    PROVE  /\ Cardinality(K) <= SearchLimit
           /\ \A s \in Sources : Cardinality({i \in K : i.source = s}) <= PerWork
<1>1. /\ Cardinality(Fused) \in Nat
      /\ f \in [Fused -> 1 .. Cardinality(Fused)]
      /\ \A i, j \in Fused : f[i] = f[j] => i = j
  BY SortedType
<1>2. DOMAIN f = Fused /\ SearchLimit \in Nat \ {0} /\ PerWork \in Nat \ {0}
  BY <1>1, SearchAssumption
<1>3. PICK D : D = Diversified(f)
  OBVIOUS
<1>4. D \in SUBSET Fused /\ K \in SUBSET D
  BY <1>2, <1>3 DEF Diversified, FirstRows
<1>5. ASSUME NEW i \in K PROVE Cardinality({j \in D : f[j] < f[i]}) < SearchLimit
  <2>1. Cardinality(Before(f, i) \cap D) < SearchLimit
    BY <1>3 DEF FirstRows
  <2>2. Before(f, i) \cap D = {j \in D : f[j] < f[i]}
    BY <1>2, <1>4 DEF Before
  <2> QED
    BY <2>1, <2>2
<1>6. Cardinality(K) <= SearchLimit
  BY <1>1, <1>2, <1>4, <1>5, FirstFew
<1>7. ASSUME NEW s \in Sources PROVE Cardinality({i \in K : i.source = s}) <= PerWork
  <2>1. PICK L, M : L = {i \in Fused : i.source = s} /\ M = {i \in K : i.source = s}
    OBVIOUS
  <2>2. L \in SUBSET Fused /\ M \in SUBSET L
    BY <1>4, <2>1
  <2>3. ASSUME NEW i \in M PROVE Cardinality({j \in L : f[j] < f[i]}) < PerWork
    <3>1. Cardinality({j \in Before(f, i) : j.source = i.source}) < PerWork
      BY <1>3, <1>4, <2>1 DEF Diversified
    <3>2. {j \in Before(f, i) : j.source = i.source} = {j \in L : f[j] < f[i]}
      BY <1>2, <2>1 DEF Before
    <3> QED
      BY <3>1, <3>2
  <2>4. Cardinality(M) <= PerWork
    BY <1>1, <1>2, <2>2, <2>3, FirstFew
  <2> QED
    BY <2>1, <2>4
<1> QED
  BY <1>6, <1>7

\* A number multiplied by a larger one is larger.
LEMMA Larger ==
    ASSUME NEW a \in Nat, NEW b \in Nat, NEW c \in Nat \ {0}, a < b
    PROVE  a * c < b * c
<1>1. PICK d \in Nat \ {0} : b = a + d
  <2>1. b - a \in Nat \ {0} /\ b = a + (b - a)
    OBVIOUS
  <2> QED
    BY <2>1
<1>2. b * c = a * c + d * c
  BY <1>1
<1>3. d * c > 0
  OBVIOUS
<1>4. a * c \in Nat /\ d * c \in Nat
  OBVIOUS
<1> QED
  BY <1>2, <1>3, <1>4

\* A row that both rankings put before another one has the higher score.
LEMMA DominatesHigher ==
    ASSUME FusedFinite, NEW i \in Fused, NEW j \in Fused, Dominates(i, j)
    PROVE  Higher(i, j)
<1>1. RankConstant \in Nat
  BY SearchAssumption
<1> DEFINE k(x) == RankConstant + ask.keyword[x]
           v(x) == RankConstant + ask.vector[x]
<1>2. /\ \A x : In(ask.keyword, x) => k(x) \in Nat \ {0}
      /\ \A x : In(ask.vector, x) => v(x) \in Nat \ {0}
  BY <1>1 DEF FusedFinite, In
<1>3. /\ In(ask.keyword, j) => In(ask.keyword, i) /\ k(i) < k(j)
      /\ In(ask.vector, j) => In(ask.vector, i) /\ v(i) < v(j)
  <2>1. /\ In(ask.keyword, j) => In(ask.keyword, i) /\ ask.keyword[i] < ask.keyword[j]
        /\ In(ask.vector, j) => In(ask.vector, i) /\ ask.vector[i] < ask.vector[j]
    BY DEF Dominates
  <2>2. /\ \A x : In(ask.keyword, x) => ask.keyword[x] \in Nat
        /\ \A x : In(ask.vector, x) => ask.vector[x] \in Nat
    BY DEF FusedFinite, In
  <2> QED
    BY <1>1, <2>1, <2>2
<1>4. \A x : Score(x) = CASE In(ask.keyword, x) /\ In(ask.vector, x) -> [num |-> k(x) + v(x), den |-> k(x) * v(x)]
                          [] In(ask.keyword, x) /\ ~In(ask.vector, x) -> [num |-> 1, den |-> k(x)]
                          [] OTHER -> [num |-> 1, den |-> v(x)]
  BY DEF Score
<1>5. In(ask.keyword, j) \/ In(ask.vector, j)
  BY DEF Fused, In
<1> HIDE DEF k, v
<1>6. CASE In(ask.keyword, j) /\ In(ask.vector, j)
  <2>1. Score(i) = [num |-> k(i) + v(i), den |-> k(i) * v(i)] /\ Score(j) = [num |-> k(j) + v(j), den |-> k(j) * v(j)]
    BY <1>3, <1>4, <1>6
  <2>2. PICK a, b, c, d : a = k(i) /\ b = v(i) /\ c = k(j) /\ d = v(j)
    OBVIOUS
  <2>3. /\ a \in Nat \ {0} /\ b \in Nat \ {0} /\ c \in Nat \ {0} /\ d \in Nat \ {0}
        /\ a < c /\ b < d
    BY <1>2, <1>3, <1>6, <2>2
  <2>4. b * (a * c) < d * (a * c) /\ a * (b * d) < c * (b * d)
    <3>1. a * c \in Nat \ {0} /\ b * d \in Nat \ {0}
      BY <2>3
    <3> QED
      BY <2>3, <3>1, Larger
  <2>5. (a + b) * (c * d) > (c + d) * (a * b)
    BY <2>3, <2>4
  <2> QED
    BY <2>1, <2>2, <2>5 DEF Higher
<1>7. CASE In(ask.keyword, j) /\ ~In(ask.vector, j)
  <2>1. Score(j) = [num |-> 1, den |-> k(j)]
    BY <1>4, <1>7
  <2>2. CASE In(ask.vector, i)
    <3>1. Score(i) = [num |-> k(i) + v(i), den |-> k(i) * v(i)]
      BY <1>3, <1>4, <1>7, <2>2
    <3>2. PICK a, b, c : a = k(i) /\ b = v(i) /\ c = k(j)
      OBVIOUS
    <3>3. a \in Nat \ {0} /\ b \in Nat \ {0} /\ c \in Nat \ {0} /\ a < c
      BY <1>2, <1>3, <1>7, <2>2, <3>2
    <3>4. a * b < c * b
      BY <3>3, Larger
    <3>5. (a + b) * c > 1 * (a * b)
      BY <3>3, <3>4
    <3> QED
      BY <2>1, <3>1, <3>2, <3>5 DEF Higher
  <2>3. CASE ~In(ask.vector, i)
    <3>1. Score(i) = [num |-> 1, den |-> k(i)]
      BY <1>3, <1>4, <1>7, <2>3
    <3> QED
      BY <1>2, <1>3, <1>7, <2>1, <3>1 DEF Higher
  <2> QED
    BY <2>2, <2>3
<1>8. CASE ~In(ask.keyword, j) /\ In(ask.vector, j)
  <2>1. Score(j) = [num |-> 1, den |-> v(j)]
    BY <1>4, <1>8
  <2>2. CASE In(ask.keyword, i)
    <3>1. Score(i) = [num |-> k(i) + v(i), den |-> k(i) * v(i)]
      BY <1>3, <1>4, <1>8, <2>2
    <3>2. PICK a, b, c : a = k(i) /\ b = v(i) /\ c = v(j)
      OBVIOUS
    <3>3. a \in Nat \ {0} /\ b \in Nat \ {0} /\ c \in Nat \ {0} /\ b < c
      BY <1>2, <1>3, <1>8, <2>2, <3>2
    <3>4. b * a < c * a
      BY <3>3, Larger
    <3>5. (a + b) * c > 1 * (a * b)
      BY <3>3, <3>4
    <3> QED
      BY <2>1, <3>1, <3>2, <3>5 DEF Higher
  <2>3. CASE ~In(ask.keyword, i)
    <3>1. Score(i) = [num |-> 1, den |-> v(i)]
      BY <1>3, <1>4, <1>8, <2>3
    <3> QED
      BY <1>2, <1>3, <1>8, <2>1, <3>1 DEF Higher
  <2> QED
    BY <2>2, <2>3
<1> QED
  BY <1>5, <1>6, <1>7, <1>8

-----------------------------------------------------------------------------
(* What a step does to the question.                                        *)

LEMMA NoRank == DOMAIN EmptyRank = {} /\ EmptyRank \in [{} -> Nat \ {0}]
BY DEF EmptyRank

\* A question that has just come in, has been answered or has failed.
Fresh(next) ==
    /\ next.pc \in {"idle", "keyword", "answered"}
    /\ next.mode \in {"keyword", "vector"}
    /\ next.keyword = EmptyRank /\ next.vector = EmptyRank /\ next.place = EmptyRank
    /\ next.cited \subseteq DOMAIN ask.place
    /\ next.cited # {} => next.mode = ask.mode

KeywordMove(next) ==
    /\ ask.pc = "keyword" /\ next.pc = "vector"
    /\ next.keyword \in Ranked(Scope)
    /\ next.mode = ask.mode /\ next.vector = ask.vector /\ next.place = ask.place /\ next.cited = ask.cited

VectorMove(next) ==
    /\ ask.pc = "vector" /\ next.pc = "rows"
    /\ \/ next.vector = ask.vector
       \/ ask.mode # "keyword" /\ next.vector \in Ranked({c \in Scope : HasEmbedding(c)})
    /\ next.mode = ask.mode /\ next.keyword = ask.keyword /\ next.place = ask.place /\ next.cited = ask.cited

RowsMove(next) ==
    /\ ask.pc = "rows" /\ next.pc = "answer"
    /\ \E f \in Sorted : next.place = [i \in FirstRows(f, Diversified(f)) |-> f[i]]
    /\ next.mode = ask.mode /\ next.keyword = ask.keyword /\ next.vector = ask.vector /\ next.cited = ask.cited

LEMMA QuestionMoves ==
    ASSUME DOMAIN ask = Fields, ask.mode \in {"keyword", "vector"}, [AskNext]_askVars
    PROVE  \/ UNCHANGED ask /\ [Next]_vars
           \/ /\ UNCHANGED vars
              /\ Fresh(ask') \/ KeywordMove(ask') \/ VectorMove(ask') \/ RowsMove(ask')
<1> DEFINE Move(next) == Fresh(next) \/ KeywordMove(next) \/ VectorMove(next) \/ RowsMove(next)
<1>1. CASE Write \/ UNCHANGED askVars
  BY <1>1 DEF Write, askVars
<1>2. /\ IdleAsk.pc = "idle" /\ IdleAsk.mode = "keyword" /\ IdleAsk.cited = {}
      /\ IdleAsk.keyword = EmptyRank /\ IdleAsk.vector = EmptyRank /\ IdleAsk.place = EmptyRank
  BY DEF IdleAsk
<1>3. ASSUME NEW mode \in {"keyword", "vector"}, Question(mode) PROVE UNCHANGED vars /\ Fresh(ask')
  <2>1. PICK next : next = [IdleAsk EXCEPT !.pc = "keyword", !.mode = mode]
    OBVIOUS
  <2>2. /\ next.pc = "keyword" /\ next.mode = mode /\ next.cited = {}
        /\ next.keyword = EmptyRank /\ next.vector = EmptyRank /\ next.place = EmptyRank
    BY <2>1 DEF IdleAsk
  <2> QED
    BY <1>3, <2>1, <2>2 DEF Question, Fresh
<1>4. ASSUME KeywordRank PROVE UNCHANGED vars /\ KeywordMove(ask')
  <2>1. PICK f \in Ranked(Scope) : AskStep("keyword", [ask EXCEPT !.pc = "vector", !.keyword = f])
    BY <1>4 DEF KeywordRank
  <2>2. PICK next : next = [ask EXCEPT !.pc = "vector", !.keyword = f]
    OBVIOUS
  <2>3. /\ next.pc = "vector" /\ next.keyword = f
        /\ next.mode = ask.mode /\ next.vector = ask.vector /\ next.place = ask.place /\ next.cited = ask.cited
    BY <2>2 DEF Fields
  <2> QED
    BY <2>1, <2>2, <2>3 DEF AskStep, KeywordMove
<1>5. ASSUME VectorRank PROVE UNCHANGED vars /\ VectorMove(ask')
  <2>1. CASE ask.mode = "keyword"
    <3>1. PICK next : next = [ask EXCEPT !.pc = "rows"] /\ AskStep("vector", next)
      BY <1>5, <2>1 DEF VectorRank
    <3>2. /\ next.pc = "rows" /\ next.mode = ask.mode /\ next.keyword = ask.keyword
          /\ next.vector = ask.vector /\ next.place = ask.place /\ next.cited = ask.cited
      BY <3>1 DEF Fields
    <3> QED
      BY <3>1, <3>2 DEF AskStep, VectorMove
  <2>2. CASE ask.mode # "keyword"
    <3>1. PICK f \in Ranked({c \in Scope : HasEmbedding(c)}) :
             AskStep("vector", [ask EXCEPT !.pc = "rows", !.vector = f])
      BY <1>5, <2>2 DEF VectorRank
    <3>2. PICK next : next = [ask EXCEPT !.pc = "rows", !.vector = f]
      OBVIOUS
    <3>3. /\ next.pc = "rows" /\ next.vector = f
          /\ next.mode = ask.mode /\ next.keyword = ask.keyword /\ next.place = ask.place /\ next.cited = ask.cited
      BY <3>2 DEF Fields
    <3> QED
      BY <2>2, <3>1, <3>2, <3>3 DEF AskStep, VectorMove
  <2> QED
    BY <2>1, <2>2
<1>6. ASSUME LoadRows PROVE UNCHANGED vars /\ RowsMove(ask')
  <2>1. PICK f \in Sorted :
           AskStep("rows", [ask EXCEPT !.pc = "answer", !.place = [i \in FirstRows(f, Diversified(f)) |-> f[i]]])
    BY <1>6 DEF LoadRows
  <2>2. PICK place : place = [i \in FirstRows(f, Diversified(f)) |-> f[i]]
    OBVIOUS
  <2>3. PICK next : next = [ask EXCEPT !.pc = "answer", !.place = place]
    OBVIOUS
  <2>4. /\ next.pc = "answer" /\ next.place = place
        /\ next.mode = ask.mode /\ next.keyword = ask.keyword /\ next.vector = ask.vector /\ next.cited = ask.cited
    BY <2>3 DEF Fields
  <2>5. AskStep("rows", next)
    BY <2>1, <2>2, <2>3
  <2> QED
    BY <2>2, <2>4, <2>5 DEF AskStep, RowsMove
<1>7. ASSUME Answer PROVE UNCHANGED vars /\ Fresh(ask')
  <2>1. PICK named : AskStep("answer", [IdleAsk EXCEPT !.pc = "answered", !.mode = ask.mode,
                                                       !.cited = Validated(named)])
    BY <1>7 DEF Answer
  <2>2. PICK next : next = [IdleAsk EXCEPT !.pc = "answered", !.mode = ask.mode, !.cited = Validated(named)]
    OBVIOUS
  <2>3. /\ next.pc = "answered" /\ next.mode = ask.mode /\ next.cited = Validated(named)
        /\ next.keyword = EmptyRank /\ next.vector = EmptyRank /\ next.place = EmptyRank
    BY <2>2 DEF IdleAsk
  <2> QED
    BY <2>1, <2>2, <2>3 DEF AskStep, Fresh, Validated
<1>8. ASSUME AskFails PROVE UNCHANGED vars /\ Fresh(ask')
  BY <1>2, <1>8 DEF AskFails, AskStep, Fresh
<1> QED
  BY <1>1, <1>3, <1>4, <1>5, <1>6, <1>7, <1>8 DEF AskNext

-----------------------------------------------------------------------------
(* What a question holds.                                                   *)

\* Chunks keep their ids.
LEMMA IdsKept ==
    ASSUME TypeOK, [Next]_vars
    PROVE  Ids(chunks) \subseteq Ids(chunks')
<1> SUFFICES ASSUME NEW c \in chunks PROVE Id(c) \in Ids(chunks')
  BY DEF Ids
<1>1. PICK d \in chunks' : d.source = c.source /\ d.version = c.version /\ d.origin = c.origin
  BY ChunksKept
<1>2. Id(d) = Id(c)
  BY <1>1 DEF Id
<1> QED
  BY <1>2 DEF Ids

LEMMA CitableIds == Ids(Citable) \subseteq Ids(chunks)
BY DEF Ids, Citable

LEMMA IdsFinite ==
    ASSUME IsFiniteSet(chunks)
    PROVE  IsFiniteSet(Ids(chunks))
<1> DEFINE id == [c \in chunks |-> Id(c)]
<1>1. IsFiniteSet({id[c] : c \in chunks})
  <2> HIDE DEF id
  <2> QED
    BY ImageFinite
<1> QED
  BY <1>1 DEF Ids


\* A question holds ids of chunks, and ranks that are numbers; results only once its
\* rows are loaded, and these in the order of their scores.
QuestionInv ==
    /\ TypeOK /\ FiniteEvidence
    /\ AskInv /\ AskTypeOK
    /\ FusedFinite
    /\ ask.pc # "answer" => DOMAIN ask.place = {}
    /\ ResultsDiverse
    /\ RankingsRespected

LEMMA NoResults ==
    ASSUME DOMAIN ask'.place = {}
    PROVE  ResultsDiverse' /\ RankingsRespected'
<1>1. \A s \in Sources : {i \in DOMAIN ask'.place : i.source = s} = {}
  OBVIOUS
<1> QED
  BY <1>1, FS_EmptySet, SearchAssumption DEF ResultsDiverse, RankingsRespected

\* The results of the third statement: few, of several works, and by falling score.
LEMMA ResultsAfterRows ==
    ASSUME FusedFinite, NEW f \in Sorted, ask'.keyword = ask.keyword, ask'.vector = ask.vector,
           ask'.place = [i \in FirstRows(f, Diversified(f)) |-> f[i]]
    PROVE  ResultsDiverse' /\ RankingsRespected'
<1>1. PICK K : K = FirstRows(f, Diversified(f))
  OBVIOUS
<1>2. DOMAIN ask'.place = K /\ \A i \in K : ask'.place[i] = f[i]
  BY <1>1
<1>3. ResultsDiverse'
  BY <1>1, <1>2, KeptRows DEF ResultsDiverse
<1>4. K \subseteq Fused
  BY <1>1, RowsInFused DEF Fused
<1>5. ASSUME NEW i \in K, NEW j \in K, Dominates(i, j)' PROVE f[i] < f[j]
  <2>1. Dominates(i, j)
    BY <1>5 DEF Dominates
  <2> QED
    BY <1>4, <2>1, DominatesHigher, SortedType
<1>6. RankingsRespected'
  BY <1>2, <1>5 DEF RankingsRespected
<1> QED
  BY <1>3, <1>6

LEMMA QuestionStep ==
    ASSUME QuestionInv, [AskNext]_askVars
    PROVE  QuestionInv'
<1>1. /\ TypeOK /\ FiniteEvidence /\ AskInv /\ AskTypeOK /\ FusedFinite
      /\ ask.pc # "answer" => DOMAIN ask.place = {}
      /\ ResultsDiverse /\ RankingsRespected
  BY DEF QuestionInv
<1>2. DOMAIN ask = Fields /\ ask.mode \in {"keyword", "vector"}
  BY <1>1 DEF AskInv, AskTypeOK
<1>3. [Next]_vars
  BY <1>2, QuestionMoves DEF vars
<1>4. TypeOK' /\ FiniteEvidence' /\ AskInv'
  BY <1>1, <1>3, TypeStep, FiniteStep, AskInvInductive
<1>5. seen' \subseteq Ids(chunks')
  <2>1. seen' \subseteq seen \cup Ids(Citable) \cup Ids(Citable')
    BY DEF AskNext, Write, Question, KeywordRank, VectorRank, LoadRows, Answer, AskFails, AskStep, askVars
  <2>2. Ids(chunks) \subseteq Ids(chunks')
    BY <1>1, <1>3, IdsKept
  <2>3. Ids(Citable) \subseteq Ids(chunks) /\ Ids(Citable') \subseteq Ids(chunks')
    BY DEF Ids, Citable
  <2> QED
    BY <1>1, <2>1, <2>2, <2>3 DEF AskTypeOK
<1>6. Held' \subseteq seen'
  BY <1>4 DEF AskInv
<1>7. ASSUME ask'.pc \in {"idle", "keyword", "vector", "rows", "answer", "answered"},
             ask'.mode \in {"keyword", "vector"}
      PROVE  AskTypeOK'
  BY <1>5, <1>6, <1>7 DEF AskTypeOK, Held
<1>8. ASSUME FusedFinite', (ask.pc # "answer" => DOMAIN ask.place = {})', ResultsDiverse', RankingsRespected',
             AskTypeOK'
      PROVE  QuestionInv'
  BY <1>4, <1>8 DEF QuestionInv
<1>9. IsFiniteSet(Ids(Scope)) /\ IsFiniteSet(Ids({c \in Scope : HasEmbedding(c)}))
  <2>1. IsFiniteSet(Ids(chunks))
    BY <1>1, IdsFinite DEF FiniteEvidence
  <2>2. Ids(Scope) \in SUBSET Ids(chunks) /\ Ids({c \in Scope : HasEmbedding(c)}) \in SUBSET Ids(chunks)
    BY DEF Ids, Scope, Citable
  <2> QED
    BY <2>1, <2>2, FS_Subset
<1>10. CASE UNCHANGED ask
  BY <1>1, <1>7, <1>8, <1>10
     DEF AskTypeOK, FusedFinite, ResultsDiverse, RankingsRespected, Dominates, In
<1>11. CASE Fresh(ask')
  <2>1. FusedFinite'
    BY <1>11, NoRank, FS_EmptySet DEF Fresh, FusedFinite
  <2>2. ResultsDiverse' /\ RankingsRespected'
    BY <1>11, NoRank, NoResults DEF Fresh
  <2> QED
    BY <1>7, <1>8, <1>11, <2>1, <2>2, NoRank DEF Fresh
<1>12. CASE KeywordMove(ask')
  <2>1. DOMAIN ask'.place = {}
    BY <1>1, <1>12 DEF KeywordMove
  <2>2. FusedFinite'
    BY <1>1, <1>9, <1>12, RankedType DEF KeywordMove, FusedFinite
  <2>3. ResultsDiverse' /\ RankingsRespected'
    BY <2>1, NoResults
  <2> QED
    BY <1>2, <1>7, <1>8, <1>12, <2>1, <2>2, <2>3 DEF KeywordMove
<1>13. CASE VectorMove(ask')
  <2>1. DOMAIN ask'.place = {}
    BY <1>1, <1>13 DEF VectorMove
  <2>2. FusedFinite'
    BY <1>1, <1>9, <1>13, RankedType DEF VectorMove, FusedFinite
  <2>3. ResultsDiverse' /\ RankingsRespected'
    BY <2>1, NoResults
  <2> QED
    BY <1>2, <1>7, <1>8, <1>13, <2>1, <2>2, <2>3 DEF VectorMove
<1>14. CASE RowsMove(ask')
  <2>1. ResultsDiverse' /\ RankingsRespected'
    BY <1>1, <1>14, ResultsAfterRows DEF RowsMove
  <2>2. FusedFinite'
    BY <1>1, <1>14 DEF RowsMove, FusedFinite
  <2> QED
    BY <1>2, <1>7, <1>8, <1>14, <2>1, <2>2 DEF RowsMove
<1> QED
  BY <1>2, <1>10, <1>11, <1>12, <1>13, <1>14, QuestionMoves

LEMMA QuestionInit == AskInit => QuestionInv
<1> SUFFICES ASSUME AskInit PROVE QuestionInv
  OBVIOUS
<1>1. Init /\ ask = IdleAsk /\ seen = {}
  BY DEF AskInit
<1>2. /\ ask.pc = "idle" /\ ask.mode = "keyword" /\ ask.cited = {}
      /\ ask.keyword = EmptyRank /\ ask.vector = EmptyRank /\ ask.place = EmptyRank
  BY <1>1 DEF IdleAsk
<1>3. TypeOK /\ FiniteEvidence
  BY <1>1, TypeInit, FiniteInit
<1>4. AskInv
  BY <1>1, NothingHeld DEF AskInv, Held, Open
<1>5. AskTypeOK /\ FusedFinite
  BY <1>1, <1>2, NoRank, FS_EmptySet DEF AskTypeOK, FusedFinite
<1>6. ResultsDiverse /\ RankingsRespected
  <2>1. \A s \in Sources : {i \in DOMAIN ask.place : i.source = s} = {}
    BY <1>2, NoRank
  <2> QED
    BY <1>2, <2>1, NoRank, FS_EmptySet, SearchAssumption DEF ResultsDiverse, RankingsRespected
<1> QED
  BY <1>2, <1>3, <1>4, <1>5, <1>6, NoRank DEF QuestionInv

\* All that a question ranks, returns and cites are chunks of the table: none of them
\* is deleted or renamed by a cleanup while the question is open.
THEOREM AskTypeCorrect == AskSpec => []AskTypeOK
<1>1. QuestionInv => AskTypeOK
  BY DEF QuestionInv
<1> QED
  BY <1>1, QuestionInit, QuestionStep, PTL DEF AskSpec

\* A search returns no more than SearchLimit rows and no more than PerWork of a work,
\* however the database orders the two rankings.
THEOREM DiverseCorrect == AskSpec => []ResultsDiverse
<1>1. QuestionInv => ResultsDiverse
  BY DEF QuestionInv
<1> QED
  BY <1>1, QuestionInit, QuestionStep, PTL DEF AskSpec

\* Rank fusion keeps what the rankings agree on, for every rank constant.
THEOREM FusionCorrect == AskSpec => []RankingsRespected
<1>1. QuestionInv => RankingsRespected
  BY DEF QuestionInv
<1> QED
  BY <1>1, QuestionInit, QuestionStep, PTL DEF AskSpec

-----------------------------------------------------------------------------
(* A passage is cited once.                                                 *)

OnePerPassage(I) == \A i, j \in I : SameOrigin(i, j) /\ i.origin \in Passages => i = j

\* With one ranking, what is cited comes from one statement, and it saw each passage once.
CitesInv ==
    ask.mode = "keyword" =>
        /\ DOMAIN ask.vector = {}
        /\ Quiet => /\ OnePerPassage(DOMAIN ask.keyword)
                    /\ DOMAIN ask.place \subseteq DOMAIN ask.keyword
                    /\ OnePerPassage(ask.cited)

LEMMA CitesInit == AskInit => CitesInv
BY NothingHeld DEF AskInit, CitesInv, OnePerPassage

LEMMA CitesStep ==
    ASSUME QuestionInv, OnceInv, CitesInv, [AskNext]_askVars
    PROVE  CitesInv'
<1> SUFFICES ASSUME ask'.mode = "keyword"
             PROVE  /\ DOMAIN ask'.vector = {}
                    /\ Quiet' => /\ OnePerPassage(DOMAIN ask'.keyword)
                                 /\ DOMAIN ask'.place \subseteq DOMAIN ask'.keyword
                                 /\ OnePerPassage(ask'.cited)
  BY DEF CitesInv, OnePerPassage, SameOrigin
<1>1. /\ TypeOK /\ DOMAIN ask = Fields /\ ask.mode \in {"keyword", "vector"} /\ FusedFinite
      /\ IsFiniteSet(Ids(Scope))
  <2>1. TypeOK /\ FiniteEvidence /\ AskInv /\ AskTypeOK /\ FusedFinite
    BY DEF QuestionInv
  <2>2. IsFiniteSet(Ids(chunks))
    BY <2>1, IdsFinite DEF FiniteEvidence
  <2>3. Ids(Scope) \in SUBSET Ids(chunks)
    BY DEF Ids, Scope, Citable
  <2> QED
    BY <2>1, <2>2, <2>3, FS_Subset DEF AskInv, AskTypeOK
<1>2. [Next]_vars
  BY <1>1, QuestionMoves DEF vars
<1>3. Quiet' => Quiet
  BY <1>1, <1>2, QuietBefore
<1>4. ASSUME ask.mode = "keyword"
      PROVE  /\ DOMAIN ask.vector = {}
             /\ Quiet' => /\ OnePerPassage(DOMAIN ask.keyword)
                          /\ DOMAIN ask.place \subseteq DOMAIN ask.keyword
                          /\ OnePerPassage(ask.cited)
  BY <1>3, <1>4 DEF CitesInv
<1>5. CASE UNCHANGED ask
  BY <1>4, <1>5
<1>6. CASE Fresh(ask')
  <2>1. Quiet' => OnePerPassage(ask'.cited)
    <3>1. CASE ask'.cited = {}
      BY <3>1 DEF OnePerPassage
    <3>2. CASE ask'.cited # {}
      <4>1. ask.mode = "keyword" /\ ask'.cited \subseteq DOMAIN ask.place
        BY <1>6, <3>2 DEF Fresh
      <4> QED
        BY <1>4, <4>1 DEF OnePerPassage
    <3> QED
      BY <3>1, <3>2
  <2> QED
    BY <1>6, <2>1, NoRank DEF Fresh, OnePerPassage
<1>7. CASE KeywordMove(ask')
  <2>1. DOMAIN ask'.keyword \subseteq Ids(Citable)
    BY <1>1, <1>7, RankedType DEF KeywordMove, Scope
  <2>2. ASSUME Quiet', NEW i \in Ids(Citable), NEW j \in Ids(Citable), SameOrigin(i, j), i.origin \in Passages
        PROVE  i = j
    <3>1. PICK c, d \in Citable : i = Id(c) /\ j = Id(d)
      BY DEF Ids
    <3>2. SameOrigin(c, d) /\ c.origin \in Passages
      BY <2>2, <3>1 DEF Id, SameOrigin
    <3>3. OneCopy
      BY <1>3, <2>2 DEF OnceInv, Unrepeated
    <3> QED
      BY <3>1, <3>2, <3>3 DEF OneCopy
  <2>3. Quiet' => OnePerPassage(DOMAIN ask'.keyword)
    BY <2>1, <2>2 DEF OnePerPassage
  <2>4. DOMAIN ask'.place = {}
    BY <1>7 DEF KeywordMove, QuestionInv
  <2> QED
    BY <1>4, <1>7, <2>3, <2>4 DEF KeywordMove
<1>8. CASE VectorMove(ask')
  BY <1>4, <1>8 DEF VectorMove
<1>9. CASE RowsMove(ask')
  <2>1. DOMAIN ask'.place \subseteq DOMAIN ask.keyword \cup DOMAIN ask.vector
    BY <1>9, RowsInFused DEF RowsMove
  <2> QED
    BY <1>4, <1>9, <2>1 DEF RowsMove
<1> QED
  BY <1>1, <1>5, <1>6, <1>7, <1>8, <1>9, QuestionMoves

\* An answer from the keyword ranking cites a passage once, although a cleanup may
\* replace its chunk while the question is open.
THEOREM CitesOnceCorrect == AskSpec => []AnswerCitesOnce
<1>1. AskSpec => []OnceInv
  BY EvidenceUnchanged, OnceInit, OnceStep, PTL DEF Spec
<1>2. CitesInv => AnswerCitesOnce
  BY DEF CitesInv, AnswerCitesOnce, OnePerPassage, SameOrigin, Quiet
<1> QED
  BY <1>1, <1>2, QuestionInit, QuestionStep, CitesInit, CitesStep, PTL DEF AskSpec
=============================================================================
