---------------------------- MODULE SearchProofs ----------------------------
(***************************************************************************)
(* Theorems about Search, for any contents, lists, limits and scores.      *)
(***************************************************************************)
EXTENDS Search, SequenceTheorems, FiniteSetTheorems, TLAPS, WellFoundedInduction

----------------------------------------------------------------------------
(* Lists *)

\* Any elements of a list, in their order, are a list of the same.
LEMMA PartType ==
    ASSUME NEW S, NEW list \in Seq(S), NEW m \in Nat \ {0}, NEW n \in Int
    PROVE  Part(list, m, n) \in Seq(S)
<1> DEFINE last == IF n <= Len(list) THEN n ELSE Len(list)
<1>1. last \in Int /\ \A i \in m..last : list[i] \in S
  BY LenProperties
<1> HIDE DEF last
<1>2. SubSeq(list, m, last) \in Seq(S)
  BY <1>1, SubSeqProperties
<1> QED
  BY <1>2 DEF Part, last

\* The elements of Lists are lists without repetition.
LEMMA ListsType ==
    ASSUME NEW S, NEW n \in Nat, NEW s \in Lists(S, n)
    PROVE  s \in Seq(S) /\ IsInjective(s) /\ Len(s) <= n
<1>1. PICK k \in 0..n : s \in [1..k -> S] /\ IsInjective(s)
  BY DEF Lists
<1>2. s \in Seq(S)
  BY <1>1, SeqDef
<1>3. Len(s) = k
  BY <1>1, <1>2, LenProperties
<1> QED
  BY <1>1, <1>2, <1>3

\* What is in a list is finite, and no more than the list is long.
LEMMA RangeIsFinite ==
    ASSUME NEW S, NEW list \in Seq(S)
    PROVE  /\ Range(list) \subseteq S /\ IsFiniteSet(Range(list))
           /\ Cardinality(Range(list)) <= Len(list)
<1>1. Len(list) \in Nat /\ list \in [1..Len(list) -> S] /\ DOMAIN list = 1..Len(list)
  BY LenProperties
<1>2. IsFiniteSet(1..Len(list)) /\ Cardinality(1..Len(list)) = Len(list)
  BY <1>1, FS_Interval
<1>3. list \in Surjection(1..Len(list), Range(list))
  BY <1>1 DEF Surjection, Range
<1> QED
  BY <1>1, <1>2, <1>3, FS_Surjection DEF Range

\* Only keeps elements of S, each once.
LEMMA OnlyType ==
    ASSUME NEW T, NEW list \in Seq(T), NEW S, NEW s \in Only(list, S)
    PROVE  /\ s \in Seq(T) /\ IsInjective(s) /\ Len(s) <= Len(list)
           /\ \A i \in DOMAIN s : s[i] \in S /\ s[i] \in Range(list)
<1> DEFINE R == Range(list) \cap S
           n == Cardinality(R)
<1>1. IsFiniteSet(R) /\ n \in Nat /\ n <= Cardinality(Range(list)) /\ Cardinality(Range(list)) \in Nat
  BY RangeIsFinite, FS_Subset, FS_CardinalityType
<1>2. n <= Len(list) /\ Len(list) \in Nat /\ Range(list) \subseteq T
  BY <1>1, RangeIsFinite, LenProperties
<1>3. /\ s \in [1..n -> R]
      /\ \A i, j \in 1..n : i < j => Position(list, s[i]) < Position(list, s[j])
  BY DEF Only, Ordered
<1> HIDE DEF R, n
<1>4. s \in Seq(T) /\ Len(s) = n
  <2>1. R \subseteq T
    BY <1>2 DEF R
  <2>2. s \in [1..n -> T]
    BY <1>3, <2>1
  <2>3. s \in Seq(T)
    BY <1>1, <2>2, SeqDef
  <2> QED
    BY <1>1, <2>2, <2>3, LenProperties
<1>5. \A c \in R : Position(list, c) \in Nat
  <2> SUFFICES ASSUME NEW c \in R PROVE Position(list, c) \in Nat
    OBVIOUS
  <2>1. \E i \in DOMAIN list : list[i] = c
    BY DEF R, Range
  <2>2. Position(list, c) \in DOMAIN list
    BY <2>1 DEF Position
  <2> QED
    BY <2>2, LenProperties
<1>6. IsInjective(s)
  <2> SUFFICES ASSUME NEW i \in 1..n, NEW j \in 1..n, s[i] = s[j] PROVE i = j
    BY <1>3 DEF IsInjective
  <2>1. s[i] \in R /\ Position(list, s[i]) \in Nat
    BY <1>3, <1>5
  <2> QED
    BY <1>1, <1>3, <2>1
<1>7. \A i \in DOMAIN s : s[i] \in R
  BY <1>3
<1> QED
  BY <1>2, <1>4, <1>6, <1>7 DEF R

\* A ranking of contents is a list of them.
LEMMA RankedType ==
    ASSUME NEW S \in SUBSET Content, NEW score, NEW s \in Ranked(S, score)
    PROVE  s \in Seq(S)
<1>1. Cardinality(S) \in Nat
  BY ContentAssumption, FS_Subset, FS_CardinalityType
<1>2. s \in [1..Cardinality(S) -> S]
  BY DEF Ranked, Ordered
<1> QED
  BY <1>1, <1>2, SeqDef

\* The fusion of two lists is a list of what they contain.
LEMMA FuseType ==
    ASSUME NEW S \in SUBSET Content, NEW lexical \in Seq(S), NEW vector \in Seq(S),
           NEW n \in Int, NEW s \in fuse(lexical, vector, n)
    PROVE  s \in Seq(S)
<1> DEFINE F == Range(lexical) \cup Range(vector)
           score == [c \in F |-> FusedScore(lexical, vector, c)]
<1>1. F \in SUBSET S /\ F \in SUBSET Content
  BY RangeIsFinite
<1>2. PICK t \in Ranked(F, score) : s = Part(t, 1, n)
  BY DEF fuse
<1> HIDE DEF F, score
<1>3. t \in Seq(S)
  BY <1>1, RankedType, SeqMonotonic
<1> QED
  BY <1>2, <1>3, PartType

\* What is aggregated is a list of contents.
LEMMA AggregateType ==
    ASSUME NEW seeds, NEW relations, NEW s \in aggregate(seeds, relations)
    PROVE  s \in Seq(Content)
<1> DEFINE near == Neighbors(seeds, relations)
           score == [c \in near |-> GraphScore(seeds, relations, c)]
<1>1. near \in SUBSET Content
  BY DEF Neighbors
<1>2. PICK t \in Ranked(near, score) : s = Part(t, 1, GraphLimit)
  BY DEF aggregate
<1> HIDE DEF near, score
<1>3. t \in Seq(Content)
  BY <1>1, RankedType, SeqMonotonic
<1> QED
  BY <1>2, <1>3, PartType, RankAssumption

\* The pool is a list of what its two sources contain.
LEMMA BuildType ==
    ASSUME NEW S, NEW rrf \in Seq(S), NEW related \in Seq(S), NEW n \in Nat
    PROVE  build(rrf, related, n) \in Seq(S)
<1> DEFINE H == horizon(n)
           g == GraphBudget(n)
           r == H - g
           a == Part(rrf, 1, r)
           b == Part(related, 1, g)
           c == Part(rrf, r + 1, r + g - Len(b))
           d == Part(related, g + 1, g + r - Len(a))
           all == a \o b \o c \o d
<1>1. H \in Nat /\ g \in Nat /\ g <= H
  <2>1. H \in Nat
    BY PoolAssumption DEF horizon, Least, Most
  <2> HIDE DEF H
  <2>2. H * GraphPercent \in Nat /\ H * GraphPercent <= H * 100
    BY <2>1, PoolAssumption
  <2>3. g = (H * GraphPercent + 99) \div 100
    BY DEF GraphBudget, H
  <2> HIDE DEF g
  <2> QED
    BY <2>1, <2>2, <2>3
<1>2. r \in Nat
  BY <1>1
<1> HIDE DEF H, g, r
<1>3. a \in Seq(S)
  BY <1>2, PartType
<1>4. b \in Seq(S)
  BY <1>1, PartType
<1>5. Len(a) \in Nat /\ Len(b) \in Nat
  BY <1>3, <1>4, LenProperties
<1> HIDE DEF a, b
<1>6. /\ r + 1 \in Nat \ {0} /\ r + g - Len(b) \in Int
      /\ g + 1 \in Nat \ {0} /\ g + r - Len(a) \in Int
  BY <1>1, <1>2, <1>5
<1>7. c \in Seq(S)
  BY <1>6, PartType
<1>8. d \in Seq(S)
  BY <1>6, PartType
<1> HIDE DEF c, d
<1>9. all \in Seq(S)
  BY <1>3, <1>4, <1>7, <1>8, ConcatProperties
<1> HIDE DEF all
<1>10. Part(all, 1, H) \in Seq(S)
  BY <1>1, <1>9, PartType
<1> QED
  BY <1>10 DEF build, H, g, r, a, b, c, d, all

----------------------------------------------------------------------------
(* The inductive invariant *)

Item == [content : Content, matched_by : SUBSET Origins]

Types ==
    /\ request \in [kind : Kinds \cup {"none"}, top_k : TopKs \cup {0}]
    /\ scope \in SUBSET Content
    /\ found \in [lexical : Seq(Content), vector : Seq(Content)]
    /\ pool \in Seq(Content)
    /\ matched_by \in [Content -> SUBSET Origins]
    /\ items \in Seq(Item)

\* Nothing is left of a request that has ended.
Asking ==
    IF pc = "idle" THEN request.top_k = 0 /\ scope = {} /\ pool = <<>>
    ELSE request.top_k \in TopKs

Hybrid ==
    pc \in {"lexical", "expand", "eligibility", "documents", "rerank"} => request.kind # "vector"

\* Every list stays within the scope.
ListsInScope ==
    /\ pc = "vector" /\ request.kind # "vector" => found.lexical \in Seq(scope)
    /\ pc = "expand" => fused \in Seq(scope)
    /\ pc \in {"eligibility", "documents", "rerank"} => pool \in Seq(scope)
    /\ pc \in {"documents", "rerank"} => IsInjective(pool)

Distinct(list) == \A i, j \in DOMAIN list : list[i].content = list[j].content => i = j

ResultsInScope ==
    pc \in {"hydrate", "answered"} =>
        /\ Len(items) <= request.top_k
        /\ \A i \in DOMAIN items : items[i].content \in scope
        /\ Distinct(items)

\* A hybrid request that has not failed has all its results.
ResultsComplete ==
    /\ pc = "hydrate" \/ (pc = "answered" /\ answer.status = 200)
    /\ request.kind # "vector"
    => /\ Len(items) = Least(request.top_k, Len(pool))
       /\ \A i \in DOMAIN items : /\ items[i].content \in Range(pool)
                                  /\ items[i].matched_by = matched_by[items[i].content]

FailedIsEmpty == pc = "answered" /\ answer.status # 200 => items = <<>>

SearchSound == /\ Types /\ Asking /\ Hybrid /\ ListsInScope
               /\ ResultsInScope /\ ResultsComplete /\ FailedIsEmpty

----------------------------------------------------------------------------
(* Every step preserves it *)

\* Only a request without an exception is answered with 200.
LEMMA OnlySuccessIs200 ==
    ASSUME NEW kind, NEW exception
    PROVE  StatusOf(kind, exception) = 200 <=> exception = "none"
BY DEF StatusOf

\* What is left after a request has the types of its variables.
LEMMA NothingIsSound ==
    /\ NotFound \in [lexical : Seq(Content), vector : Seq(Content)]
    /\ Nowhere \in [Content -> SUBSET Origins]
    /\ \A S : <<>> \in Seq(S) /\ Len(<<>>) = 0 /\ DOMAIN <<>> = {}
BY EmptySeq DEF NotFound, Nowhere

\* A request that has begun fails.
LEMMA FailIsSound ==
    ASSUME SearchSound, pc # "idle", NEW e, e # "none", Fail(e)
    PROVE  SearchSound'
<1>1. /\ pc' = "answered" /\ items' = <<>> /\ answer'.status # 200
      /\ found' = NotFound /\ UNCHANGED <<request, scope, pool, matched_by>>
  BY OnlySuccessIs200 DEF Fail, Answer, Forget
<1>2. Types'
  BY <1>1, NothingIsSound DEF SearchSound, Types
<1>3. request.top_k \in Nat /\ Asking'
  BY <1>1, SearchAssumption DEF SearchSound, Asking
<1>4. ResultsInScope'
  BY <1>1, <1>3, NothingIsSound DEF ResultsInScope, Distinct
<1> QED
  BY <1>1, <1>2, <1>3, <1>4
  DEF SearchSound, Hybrid, ListsInScope, ResultsComplete, FailedIsEmpty

\* A request that arrives is a new one, which may fail or be answered at once.
LEMMA ArrivalIsSound == SearchSound /\ Arrival => SearchSound'
<1> SUFFICES ASSUME SearchSound, Arrival PROVE SearchSound'
  OBVIOUS
<1>1. PICK kind \in Kinds, top_k \in TopKs :
        \/ \E visible \in SUBSET Content : begin(kind, top_k, visible)
        \/ kind = "workspace" /\ nothing_visible(top_k)
        \/ begin_fails(kind, top_k)
  BY DEF Arrival
<1>2. top_k \in Nat \ {0} /\ pool = <<>> /\ pc = "idle"
  <2>1. pc = "idle"
    BY <1>1 DEF begin, nothing_visible, begin_fails, Begin
  <2> QED
    BY <2>1, SearchAssumption DEF SearchSound, Asking
<1>3. ASSUME NEW visible \in SUBSET Content, begin(kind, top_k, visible) PROVE SearchSound'
  <2>1. /\ request' = [kind |-> kind, top_k |-> top_k] /\ scope' = visible
        /\ pc' = IF kind = "vector" THEN "vector" ELSE "lexical"
        /\ UNCHANGED <<found, pool, matched_by, items, answer>>
    BY <1>3 DEF begin, Begin, working
  <2>2. Types'
    BY <2>1 DEF SearchSound, Types
  <2> QED
    BY <2>1, <2>2
    DEF SearchSound, Asking, Hybrid, ListsInScope, ResultsInScope, ResultsComplete, FailedIsEmpty
<1>4. ASSUME kind = "workspace", nothing_visible(top_k) PROVE SearchSound'
  <2>1. /\ request' = [kind |-> kind, top_k |-> top_k] /\ scope' = {}
        /\ pc' = "answered" /\ items' = <<>>
        /\ UNCHANGED <<found, pool, matched_by>>
    BY <1>4 DEF nothing_visible, Begin, Answer, working
  <2>2. Types'
    BY <1>4, <2>1, NothingIsSound DEF SearchSound, Types
  <2>3. ResultsInScope' /\ ResultsComplete'
    BY <1>2, <2>1, NothingIsSound DEF ResultsInScope, Distinct, ResultsComplete, Least
  <2> QED
    BY <2>1, <2>2, <2>3 DEF SearchSound, Asking, Hybrid, ListsInScope, FailedIsEmpty
<1>5. ASSUME begin_fails(kind, top_k) PROVE SearchSound'
  <2>1. /\ request' = [kind |-> kind, top_k |-> top_k] /\ scope' = Content
        /\ pc' = "answered" /\ items' = <<>> /\ answer'.status # 200
        /\ UNCHANGED <<found, pool, matched_by>>
    BY <1>5, OnlySuccessIs200 DEF begin_fails, Begin, Answer, working
  <2>2. Types'
    BY <2>1, NothingIsSound DEF SearchSound, Types
  <2>3. ResultsInScope'
    BY <1>2, <2>1, NothingIsSound DEF ResultsInScope, Distinct
  <2> QED
    BY <2>1, <2>2, <2>3
    DEF SearchSound, Asking, Hybrid, ListsInScope, ResultsComplete, FailedIsEmpty
<1> QED
  BY <1>1, <1>3, <1>4, <1>5

\* Nothing is left of a request when the client has its answer.
LEMMA EndIsSound == SearchSound /\ end => SearchSound'
<1> SUFFICES ASSUME SearchSound, end PROVE SearchSound'
  OBVIOUS
<1>1. /\ pc' = "idle" /\ request' = [kind |-> "none", top_k |-> 0] /\ scope' = {}
      /\ pool' = <<>> /\ matched_by' = Nowhere /\ items' = <<>> /\ UNCHANGED found
  BY DEF end, working
<1>2. Types'
  BY <1>1, NothingIsSound DEF SearchSound, Types
<1> QED
  BY <1>1, <1>2
  DEF SearchSound, Asking, Hybrid, ListsInScope, ResultsInScope, ResultsComplete, FailedIsEmpty

\* A list of elements of S is a list over S.
LEMMA Narrow ==
    ASSUME NEW T, NEW s \in Seq(T), NEW S, \A i \in DOMAIN s : s[i] \in S
    PROVE  s \in Seq(S)
<1>1. Len(s) \in Nat /\ s \in [1..Len(s) -> T]
  BY LenProperties
<1>2. s \in [1..Len(s) -> S]
  BY <1>1
<1> QED
  BY <1>1, <1>2, SeqDef

\* The limit of the fusion is a number.
LEMMA LimitIsNat == candidate_limit \in Nat
BY PoolAssumption, SearchAssumption DEF candidate_limit, Least

\* The two retrievals of a hybrid request and their fusion stay in its scope.
LEMMA RetrievalIsSound ==
    SearchSound /\ (search_lexical \/ search_vector) => SearchSound'
<1> SUFFICES ASSUME SearchSound, search_lexical \/ search_vector PROVE SearchSound'
  OBVIOUS
<1>1. CASE search_lexical
  <2>1. PICK list \in Lists(scope, LexicalK) : found' = [found EXCEPT !.lexical = list]
    BY <1>1 DEF search_lexical
  <2>2. list \in Seq(scope) /\ list \in Seq(Content)
    BY ListsType, SearchAssumption, SeqMonotonic DEF SearchSound, Types
  <2>3. /\ pc = "lexical" /\ pc' = "vector"
        /\ UNCHANGED <<request, scope, pool, matched_by, items, answer>>
    BY <1>1 DEF search_lexical, Continue
  <2>4. Types' /\ found'.lexical = list
    BY <2>1, <2>2, <2>3 DEF SearchSound, Types
  <2> QED
    BY <2>2, <2>3, <2>4
    DEF SearchSound, Asking, Hybrid, ListsInScope, ResultsInScope, ResultsComplete, FailedIsEmpty
<1>2. CASE search_vector
  <2>1. PICK list \in Lists(scope, VectorK) :
            /\ found' = [found EXCEPT !.vector = list]
            /\ fused' \in fuse(found.lexical, list, candidate_limit)
    BY <1>2 DEF search_vector, search_candidates
  <2>2. list \in Seq(scope) /\ list \in Seq(Content) /\ scope \in SUBSET Content
    BY ListsType, SearchAssumption, SeqMonotonic DEF SearchSound, Types
  <2>3. /\ pc = "vector" /\ request.kind # "vector" /\ pc' = "expand"
        /\ UNCHANGED <<request, scope, pool, matched_by, items, answer>>
    BY <1>2 DEF search_vector, Continue
  <2>4. found.lexical \in Seq(scope)
    BY <2>3 DEF SearchSound, ListsInScope
  <2>5. fused' \in Seq(scope)
    BY <2>1, <2>2, <2>4, FuseType, LimitIsNat
  <2>6. Types'
    BY <2>1, <2>2, <2>3 DEF SearchSound, Types
  <2> QED
    BY <2>3, <2>5, <2>6
    DEF SearchSound, Asking, Hybrid, ListsInScope, ResultsInScope, ResultsComplete, FailedIsEmpty
<1> QED
  BY <1>1, <1>2

\* So does the list of a vector search, which has no more than it was asked for.
LEMMA VectorOnlyIsSound == SearchSound /\ search_vector_only => SearchSound'
<1> SUFFICES ASSUME SearchSound, search_vector_only PROVE SearchSound'
  OBVIOUS
<1>1. /\ pc = "vector" /\ request.kind = "vector" /\ pc' = "hydrate"
      /\ UNCHANGED <<found, request, scope>>
      /\ pool' \in Lists(scope, request.top_k)
      /\ matched_by' = [c \in Content |-> IF c \in Range(pool') THEN {"vector"} ELSE {}]
      /\ items' = [i \in DOMAIN pool' |-> [content |-> pool'[i], matched_by |-> {"vector"}]]
  BY DEF search_vector_only, search_candidates, working
<1>2. request.top_k \in Nat /\ scope \in SUBSET Content
  BY <1>1, SearchAssumption DEF SearchSound, Types, Asking
<1>3. pool' \in Seq(scope) /\ IsInjective(pool') /\ Len(pool') <= request.top_k
  BY <1>1, <1>2, ListsType
<1>4. pool' \in Seq(Content)
  BY <1>2, <1>3, SeqMonotonic
<1>5. /\ Len(pool') \in Nat /\ pool' \in [1..Len(pool') -> scope]
      /\ DOMAIN pool' = 1..Len(pool')
  BY <1>3, LenProperties
<1>6. items' \in [1..Len(pool') -> Item]
  BY <1>1, <1>2, <1>5 DEF Item, Origins
<1>7. items' \in Seq(Item) /\ Len(items') = Len(pool') /\ DOMAIN items' = 1..Len(pool')
  <2>1. items' \in Seq(Item)
    BY <1>5, <1>6, SeqDef
  <2> QED
    BY <1>5, <1>6, <2>1, LenProperties
<1>8. matched_by' \in [Content -> SUBSET Origins]
  BY <1>1 DEF Origins
<1>9. Types'
  BY <1>1, <1>4, <1>7, <1>8 DEF SearchSound, Types
<1>10. ResultsInScope'
  <2>1. \A i \in DOMAIN items' : items'[i].content = pool'[i] /\ items'[i].content \in scope
    BY <1>1, <1>5, <1>7
  <2>2. Distinct(items')
    BY <1>3, <1>5, <1>7, <2>1 DEF Distinct, IsInjective
  <2> QED
    BY <1>1, <1>3, <1>7, <2>1, <2>2 DEF ResultsInScope, Distinct
<1> QED
  BY <1>1, <1>9, <1>10
  DEF SearchSound, Asking, Hybrid, ListsInScope, ResultsComplete, FailedIsEmpty

\* The pool has related contents only if the request may show them.
LEMMA ExpandIsSound == SearchSound /\ expand => SearchSound'
<1> SUFFICES ASSUME SearchSound, expand PROVE SearchSound'
  OBVIOUS
<1>1. PICK near \in aggregate(Seeds(fused), edges') :
        /\ graph' \in Only(near, Shown(near))
        /\ \E new \in Only(graph', Range(graph') \ Range(fused)) :
            /\ pool' = build(fused, new, candidate_limit)
            /\ matched_by' = [c \in Content |-> IF c \in Range(pool')
                                                THEN Provenance(c, Range(new)) ELSE {}]
  BY DEF expand
<1>2. PICK new \in Only(graph', Range(graph') \ Range(fused)) :
        /\ pool' = build(fused, new, candidate_limit)
        /\ matched_by' = [c \in Content |-> IF c \in Range(pool')
                                            THEN Provenance(c, Range(new)) ELSE {}]
  BY <1>1
<1>3. /\ pc = "expand" /\ pc' = "eligibility"
      /\ UNCHANGED <<found, request, scope, items, answer>>
  BY DEF expand, Continue
<1>4. fused \in Seq(scope) /\ scope \in SUBSET Content
  BY <1>3 DEF SearchSound, ListsInScope, Types
<1>5. near \in Seq(Content)
  BY AggregateType
<1>6. graph' \in Seq(scope)
  <2>1. graph' \in Seq(Content) /\ \A i \in DOMAIN graph' : graph'[i] \in Shown(near)
    BY <1>1, <1>5, OnlyType
  <2>2. \A i \in DOMAIN graph' : graph'[i] \in scope
    BY <2>1 DEF Shown
  <2> QED
    BY <2>1, <2>2, Narrow
<1>7. new \in Seq(scope)
  BY <1>2, <1>6, OnlyType
<1>8. pool' \in Seq(scope)
  BY <1>2, <1>4, <1>7, BuildType, LimitIsNat
<1>9. pool' \in Seq(Content)
  BY <1>4, <1>8, SeqMonotonic
<1>10. \A c \in Content : Provenance(c, Range(new)) \in SUBSET Origins
  BY DEF Provenance, Origins
<1>11. matched_by' \in [Content -> SUBSET Origins]
  BY <1>2, <1>10
<1>12. Types'
  BY <1>3, <1>9, <1>11 DEF SearchSound, Types
<1> QED
  BY <1>3, <1>8, <1>12
  DEF SearchSound, Asking, Hybrid, ListsInScope, ResultsInScope, ResultsComplete, FailedIsEmpty

\* The candidates that are processed stay in the scope, each once.
LEMMA EligibilityIsSound ==
    SearchSound /\ (filter_eligible \/ nothing_eligible) => SearchSound'
<1> SUFFICES ASSUME SearchSound, filter_eligible \/ nothing_eligible PROVE SearchSound'
  OBVIOUS
<1>1. pc = "eligibility" /\ found' = NotFound /\ UNCHANGED <<request, scope>>
  BY DEF filter_eligible, nothing_eligible, Forget, Continue
<1>2. /\ request.top_k \in Nat \ {0} /\ request.top_k \in TopKs
      /\ request.kind # "vector" /\ pool \in Seq(scope) /\ scope \in SUBSET Content
  BY <1>1, SearchAssumption DEF SearchSound, Asking, Hybrid, ListsInScope, Types
<1>3. CASE filter_eligible
  <2>1. PICK processed \in SUBSET Range(pool) :
            /\ pool' \in Only(pool, processed)
            /\ matched_by' = [c \in Content |-> IF c \in processed THEN matched_by[c] ELSE {}]
    BY <1>3 DEF filter_eligible
  <2>2. pc' = "documents" /\ UNCHANGED <<items, answer>>
    BY <1>3 DEF filter_eligible, Continue
  <2>3. pool' \in Seq(scope) /\ IsInjective(pool')
    BY <1>2, <2>1, OnlyType
  <2>4. pool' \in Seq(Content)
    BY <1>2, <2>3, SeqMonotonic
  <2>5. Types'
    BY <1>1, <2>1, <2>2, <2>4, NothingIsSound DEF SearchSound, Types
  <2> QED
    BY <1>1, <1>2, <2>2, <2>3, <2>5
    DEF SearchSound, Asking, Hybrid, ListsInScope, ResultsInScope, ResultsComplete, FailedIsEmpty
<1>4. CASE nothing_eligible
  <2>1. pc' = "answered" /\ items' = <<>> /\ pool' = <<>> /\ matched_by' = Nowhere
    BY <1>4 DEF nothing_eligible, Answer
  <2>2. Types'
    BY <1>1, <2>1, NothingIsSound DEF SearchSound, Types
  <2>3. ResultsInScope' /\ ResultsComplete'
    BY <1>1, <1>2, <2>1, NothingIsSound DEF ResultsInScope, Distinct, ResultsComplete, Least
  <2> QED
    BY <1>1, <1>2, <2>1, <2>2, <2>3 DEF SearchSound, Asking, Hybrid, ListsInScope, FailedIsEmpty
<1> QED
  BY <1>3, <1>4

\* The results of a valid response are the first documents of its order.
LEMMA RerankIsSound == SearchSound /\ rerank => SearchSound'
<1> SUFFICES ASSUME SearchSound, rerank PROVE SearchSound'
  OBVIOUS
<1>1. PICK response \in Responses : Valid(response) /\ items' = Results(response.indices)
  BY DEF rerank
<1>2. /\ pc = "rerank" /\ pc' = "hydrate"
      /\ UNCHANGED <<found, request, scope, pool, matched_by, answer>>
  BY DEF rerank, working
<1> DEFINE indices == response.indices
           n == Least(request.top_k, Len(pool))
<1>3. /\ request.top_k \in Nat \ {0} /\ pool \in Seq(scope) /\ IsInjective(pool)
      /\ scope \in SUBSET Content /\ matched_by \in [Content -> SUBSET Origins]
  BY <1>2, SearchAssumption DEF SearchSound, Asking, ListsInScope, Types
<1>4. Len(pool) \in Nat /\ DOMAIN pool = 1..Len(pool) /\ pool \in [1..Len(pool) -> scope]
  BY <1>3, LenProperties
<1>5. /\ Len(indices) = Len(pool) /\ IsInjective(indices)
      /\ indices \in [1..Len(pool) -> 0..Len(pool)]
      /\ \A i \in 1..Len(pool) : indices[i] \in 0..Len(pool) - 1
  <2>1. PICK k \in 0..(Len(pool) + 1) : indices \in [1..k -> 0..Len(pool)]
    BY <1>1 DEF Responses
  <2>2. indices \in Seq(0..Len(pool))
    BY <1>4, <2>1, SeqDef
  <2>3. Len(indices) = k
    BY <1>4, <2>1, <2>2, LenProperties
  <2> QED
    BY <1>1, <1>4, <2>1, <2>3 DEF Valid
<1>6. n \in Nat /\ n <= Len(pool) /\ n <= request.top_k
  BY <1>3, <1>4 DEF Least
<1> HIDE DEF indices
<1>7. items' = [i \in 1..n |-> [content    |-> pool[indices[i] + 1],
                                matched_by |-> matched_by[pool[indices[i] + 1]]]]
  BY <1>1, <1>5 DEF Results, indices
<1> HIDE DEF n
<1>8. \A i \in 1..n : /\ indices[i] \in Int /\ indices[i] + 1 \in DOMAIN pool
                      /\ pool[indices[i] + 1] \in scope /\ pool[indices[i] + 1] \in Content
  BY <1>3, <1>4, <1>5, <1>6
<1>9. items' \in [1..n -> Item]
  BY <1>3, <1>7, <1>8 DEF Item
<1>10. items' \in Seq(Item) /\ Len(items') = n /\ DOMAIN items' = 1..n
  <2>1. items' \in Seq(Item)
    BY <1>6, <1>9, SeqDef
  <2> QED
    BY <1>6, <1>9, <2>1, LenProperties
<1>11. Types'
  BY <1>2, <1>10 DEF SearchSound, Types
<1>12. Distinct(items')
  <2> SUFFICES ASSUME NEW i \in 1..n, NEW j \in 1..n, items'[i].content = items'[j].content
               PROVE  i = j
    BY <1>10 DEF Distinct
  <2>1. indices[i] + 1 = indices[j] + 1
    BY <1>3, <1>7, <1>8 DEF IsInjective
  <2>2. indices[i] = indices[j]
    BY <1>8, <2>1
  <2> QED
    BY <1>4, <1>5, <1>6, <2>2 DEF IsInjective
<1>13. \A i \in DOMAIN items' : /\ items'[i].content \in scope
                                /\ items'[i].content \in Range(pool)
                                /\ items'[i].matched_by = matched_by[items'[i].content]
  BY <1>7, <1>8, <1>10 DEF Range
<1>14. ResultsInScope' /\ ResultsComplete'
  <2>1. Len(items') <= request.top_k
    BY <1>6, <1>10
  <2>2. ResultsInScope'
    BY <1>2, <1>12, <1>13, <2>1 DEF ResultsInScope, Distinct
  <2> QED
    BY <1>2, <1>10, <1>13, <2>2 DEF ResultsComplete, n
<1> QED
  BY <1>2, <1>11, <1>14 DEF SearchSound, Asking, Hybrid, ListsInScope, FailedIsEmpty

\* Hydration keeps the results, or those of a vector search with a similarity.
LEMMA HydrationIsSound ==
    SearchSound /\ (hydrate \/ hydrate_vector) => SearchSound'
<1> SUFFICES ASSUME SearchSound, hydrate \/ hydrate_vector PROVE SearchSound'
  OBVIOUS
<1>1. /\ pc = "hydrate" /\ pc' = "answered" /\ answer'.status = 200
      /\ UNCHANGED <<found, request, scope, pool, matched_by>>
  BY OnlySuccessIs200 DEF hydrate, hydrate_vector, Answer, working
<1>2. CASE hydrate
  <2>1. items' = items
    BY <1>2 DEF hydrate, Answer
  <2> QED
    BY <1>1, <2>1 DEF SearchSound, Types, Asking, Hybrid, ListsInScope, ResultsInScope,
                      ResultsComplete, FailedIsEmpty, Distinct
<1>3. CASE hydrate_vector
  <2>1. PICK finite \in SUBSET Range(items) : items' \in Only(items, finite)
    BY <1>3 DEF hydrate_vector, Answer
  <2>2. request.kind = "vector" /\ request.top_k \in Nat
    BY <1>1, <1>3, SearchAssumption DEF hydrate_vector, SearchSound, Asking
  <2>3. items \in Seq(Item)
    BY DEF SearchSound, Types
  <2>4. /\ items' \in Seq(Item) /\ IsInjective(items') /\ Len(items') <= Len(items)
        /\ \A i \in DOMAIN items' : items'[i] \in Range(items)
    BY <2>1, <2>3, OnlyType
  <2>5. Len(items') <= request.top_k
    BY <1>1, <2>2, <2>3, <2>4, LenProperties DEF SearchSound, ResultsInScope
  <2>6. \A i \in DOMAIN items' : items'[i].content \in scope
    BY <1>1, <2>4 DEF SearchSound, ResultsInScope, Range
  <2>7. Distinct(items')
    <3> SUFFICES ASSUME NEW i \in DOMAIN items', NEW j \in DOMAIN items',
                        items'[i].content = items'[j].content
                 PROVE  i = j
      BY DEF Distinct
    <3>1. PICK p \in DOMAIN items : items'[i] = items[p]
      BY <2>4 DEF Range
    <3>2. PICK q \in DOMAIN items : items'[j] = items[q]
      BY <2>4 DEF Range
    <3>3. p = q
      BY <1>1, <3>1, <3>2 DEF SearchSound, ResultsInScope, Distinct
    <3> QED
      BY <2>4, <3>1, <3>2, <3>3 DEF IsInjective
  <2>8. Types'
    BY <1>1, <2>4 DEF SearchSound, Types
  <2> QED
    BY <1>1, <2>2, <2>5, <2>6, <2>7, <2>8
    DEF SearchSound, Asking, Hybrid, ListsInScope, ResultsInScope, ResultsComplete,
        FailedIsEmpty, Distinct
<1> QED
  BY <1>2, <1>3

\* Whatever fails, the request is answered without results.
LEMMA FailuresAreSound ==
    /\ SearchSound
    /\ \/ lexical_fails \/ vector_fails \/ expansion_fails \/ pipeline_fails
       \/ invalid_response \/ provider_fails \/ hydration_fails
    => SearchSound'
<1>1. ASSUME \/ lexical_fails \/ vector_fails \/ expansion_fails \/ pipeline_fails
             \/ invalid_response \/ provider_fails \/ hydration_fails
      PROVE  pc # "idle" /\ \E e : e # "none" /\ Fail(e)
  BY <1>1 DEF lexical_fails, vector_fails, expansion_fails, pipeline_fails, DocumentErrors,
              invalid_response, provider_fails, ProviderErrors, hydration_fails
<1> QED
  BY <1>1, FailIsSound

\* Reading the documents changes nothing but how far the request has come.
LEMMA DocumentsAreSound == SearchSound /\ read_documents => SearchSound'
<1>1. read_documents => /\ pc = "documents" /\ pc' = "rerank"
                        /\ UNCHANGED <<found, request, scope, pool, matched_by, items, answer>>
  BY DEF read_documents, Continue, working
<1> QED
  BY <1>1 DEF SearchSound, Types, Asking, Hybrid, ListsInScope, ResultsInScope,
              ResultsComplete, FailedIsEmpty, Distinct

\* Every step of a search preserves the invariant.
LEMMA StepsAreSound == SearchSound /\ [Next]_vars => SearchSound'
<1> SUFFICES ASSUME SearchSound, [Next]_vars PROVE SearchSound'
  OBVIOUS
<1>1. CASE Step
  BY <1>1, RetrievalIsSound, VectorOnlyIsSound, ExpandIsSound, EligibilityIsSound,
     DocumentsAreSound, RerankIsSound, HydrationIsSound, FailuresAreSound DEF Step
<1>2. CASE UNCHANGED vars
  BY <1>2 DEF vars, working, SearchSound, Types, Asking, Hybrid, ListsInScope, ResultsInScope,
              ResultsComplete, FailedIsEmpty, Distinct
<1> QED
  BY <1>1, <1>2, ArrivalIsSound, EndIsSound DEF Next

\* Every reachable state of a search has the types of its variables, keeps
\* candidates and results within the scope of the request, and has the results
\* that its pool promises unless it has failed.
THEOREM AlwaysSound == Spec => []SearchSound
<1>1. Init => SearchSound
  <2> SUFFICES ASSUME Init PROVE SearchSound
    OBVIOUS
  <2>1. Types
    BY NothingIsSound DEF Init, Types
  <2> QED
    BY <2>1 DEF Init, SearchSound, Asking, Hybrid, ListsInScope, ResultsInScope,
                ResultsComplete, FailedIsEmpty
<1> QED
  BY <1>1, StepsAreSound, PTL DEF Spec

\* A hybrid request that is answered with 200 has as many results as it asked
\* for, or all eligible candidates: an order of the provider's that misses or
\* repeats a document never reaches the client.
THEOREM AnswersAreComplete == Spec => []AnswerIsComplete
<1>1. SearchSound => AnswerIsComplete
  BY DEF SearchSound, ResultsInScope, ResultsComplete, Distinct, AnswerIsComplete
<1> QED
  BY <1>1, AlwaysSound, PTL

----------------------------------------------------------------------------
(* Refinement *)

\* Different items out of a scope, no more than were asked for, are a reply.
LEMMA ItemsAreReply ==
    ASSUME NEW S \in SUBSET Content, NEW k \in Nat, NEW list \in Seq(Item), Len(list) <= k,
           \A i \in DOMAIN list : list[i].content \in S, Distinct(list),
           NEW state \in {"ok", "failed"}, state = "failed" => list = <<>>
    PROVE  Scoped!Replies([scope |-> S, top_k |-> k],
               [state |-> state, results |-> [i \in DOMAIN list |-> list[i].content]])
<1> DEFINE results == [i \in DOMAIN list |-> list[i].content]
           n == Len(list)
<1>1. n \in 0..k /\ DOMAIN list = 1..n
  BY LenProperties
<1>2. results \in [1..n -> S] /\ IsInjective(results)
  BY <1>1 DEF Distinct, IsInjective
<1>3. CASE state = "failed"
  <2>1. n = 0
    BY <1>3, NothingIsSound
  <2>2. results \in Seq(S) /\ Len(results) = 0
    <3>1. results \in Seq(S)
      BY <1>1, <1>2, SeqDef
    <3> QED
      BY <1>1, <1>2, <2>1, <3>1, LenProperties
  <2>3. results = <<>>
    BY <2>2, EmptySeq
  <2> QED
    BY <1>3, <2>3 DEF Scoped!Replies
<1>4. CASE state = "ok"
  <2> HIDE DEF results, n
  <2>1. results \in {s \in [1..n -> S] : IsInjective(s)}
    BY <1>2
  <2> QED
    BY <1>1, <1>4, <2>1 DEF Scoped!Replies, Scoped!IsInjective, IsInjective, results
<1> QED
  BY <1>3, <1>4

\* What a step answers a request with is a reply to it.
LEMMA AnswerIsReply ==
    ASSUME SearchSound', pc' = "answered"
    PROVE  Scoped!Replies(asked', reply')
<1> DEFINE state == IF answer'.status = 200 THEN "ok" ELSE "failed"
<1>1. /\ scope' \in SUBSET Content /\ request'.top_k \in Nat /\ items' \in Seq(Item)
      /\ Len(items') <= request'.top_k
      /\ \A i \in DOMAIN items' : items'[i].content \in scope'
      /\ state = "failed" => items' = <<>>
  BY SearchAssumption DEF SearchSound, Types, Asking, ResultsInScope, FailedIsEmpty
<1>2. Distinct(items') /\ state \in {"ok", "failed"}
  BY DEF SearchSound, ResultsInScope, Distinct
<1> HIDE DEF state
<1>3. Scoped!Replies([scope |-> scope', top_k |-> request'.top_k],
          [state |-> state, results |-> [i \in DOMAIN items' |-> items'[i].content]])
  BY <1>1, <1>2, ItemsAreReply
<1> QED
  BY <1>3 DEF asked, reply, state

\* Only the steps that answer a request show something; the others are silent.
LEMMA OtherStepsAreSilent ==
    ASSUME pc # "answered", pc' # "answered", UNCHANGED <<request, scope>>
    PROVE  UNCHANGED <<asked, reply>>
BY DEF asked, reply

\* A request that arrives is a question, which may be answered at once.
LEMMA ArrivalIsAsk == SearchSound /\ SearchSound' /\ Arrival => Scoped!Ask
<1> SUFFICES ASSUME SearchSound, SearchSound', Arrival PROVE Scoped!Ask
  OBVIOUS
<1>1. PICK kind \in Kinds, top_k \in TopKs :
        \/ \E visible \in SUBSET Content : begin(kind, top_k, visible)
        \/ kind = "workspace" /\ nothing_visible(top_k)
        \/ begin_fails(kind, top_k)
  BY DEF Arrival
<1>2. /\ pc = "idle" /\ request'.top_k = top_k /\ scope' \in SUBSET Content
      /\ pc' \in {"lexical", "vector", "answered"}
  BY <1>1 DEF begin, nothing_visible, begin_fails, Begin, Answer
<1>3. asked = Scoped!NoQuestion
  BY <1>2 DEF SearchSound, Asking, asked, Scoped!NoQuestion
<1>4. asked' = [scope |-> scope', top_k |-> top_k]
  BY <1>2 DEF asked
<1>5. reply' = Scoped!NoReply \/ Scoped!Replies(asked', reply')
  <2>1. CASE pc' = "answered"
    BY <2>1, AnswerIsReply
  <2>2. CASE pc' # "answered"
    BY <2>2 DEF reply, Scoped!NoReply
  <2> QED
    BY <2>1, <2>2
<1> QED
  BY <1>2, <1>3, <1>4, <1>5 DEF Scoped!Ask

\* A step of the server replies to the question, or shows nothing.
LEMMA StepIsReply ==
    SearchSound /\ SearchSound' /\ Step => Scoped!Reply \/ UNCHANGED <<asked, reply>>
<1> SUFFICES ASSUME SearchSound, SearchSound', Step
             PROVE  Scoped!Reply \/ UNCHANGED <<asked, reply>>
  OBVIOUS
<1>1. pc # "idle" /\ pc # "answered" /\ UNCHANGED <<request, scope>>
  <2>1. CASE \/ search_lexical \/ search_vector \/ search_vector_only \/ expand
             \/ filter_eligible \/ nothing_eligible \/ read_documents
             \/ rerank \/ hydrate \/ hydrate_vector
    BY <2>1 DEF search_lexical, search_vector, search_vector_only, expand, filter_eligible,
                nothing_eligible, read_documents, rerank, hydrate, hydrate_vector, Continue
  <2>2. CASE \/ lexical_fails \/ vector_fails \/ expansion_fails \/ pipeline_fails
             \/ invalid_response \/ provider_fails \/ hydration_fails
    BY <2>2 DEF lexical_fails, vector_fails, expansion_fails, pipeline_fails,
                invalid_response, provider_fails, hydration_fails, Fail
  <2> QED
    BY <2>1, <2>2 DEF Step
<1>2. CASE pc' # "answered"
  BY <1>1, <1>2, OtherStepsAreSilent
<1>3. CASE pc' = "answered"
  <2>1. asked.top_k # 0 /\ asked' = asked
    BY <1>1, SearchAssumption DEF SearchSound, Asking, asked
  <2>2. asked # Scoped!NoQuestion
    BY <2>1 DEF Scoped!NoQuestion
  <2>3. reply = Scoped!NoReply
    BY <1>1 DEF reply, Scoped!NoReply
  <2> QED
    BY <1>3, <2>1, <2>2, <2>3, AnswerIsReply DEF Scoped!Reply
<1> QED
  BY <1>2, <1>3

\* When the client has its answer, the question is over.
LEMMA EndIsLeave == SearchSound /\ end => Scoped!Leave
<1> SUFFICES ASSUME SearchSound, end PROVE Scoped!Leave
  OBVIOUS
<1>1. /\ pc = "answered" /\ pc' = "idle"
      /\ request' = [kind |-> "none", top_k |-> 0] /\ scope' = {}
  BY DEF end
<1>2. reply.state # "none"
  BY <1>1 DEF reply
<1>3. reply # Scoped!NoReply
  BY <1>2 DEF Scoped!NoReply
<1>4. asked' = Scoped!NoQuestion
  BY <1>1 DEF asked, Scoped!NoQuestion
<1>5. reply' = Scoped!NoReply
  BY <1>1 DEF reply, Scoped!NoReply
<1> QED
  BY <1>3, <1>4, <1>5 DEF Scoped!Leave

\* Whatever the database, the embedding service and the reranking provider
\* return between its statements, a search is one question and one reply: a
\* failure without results, or different contents out of the scope of the
\* request, no more than it asked for.
THEOREM SearchesAreScoped == Spec => ImplementsScopedSearch
<1>1. Init => Scoped!Init
  BY DEF Init, Scoped!Init, asked, reply, Scoped!NoQuestion, Scoped!NoReply
<1>2. SearchSound /\ SearchSound' /\ [Next]_vars => [Scoped!Next]_<<asked, reply>>
  <2> SUFFICES ASSUME SearchSound, SearchSound', [Next]_vars
               PROVE  Scoped!Next \/ UNCHANGED <<asked, reply>>
    OBVIOUS
  <2>1. CASE UNCHANGED vars
    BY <2>1 DEF vars, asked, reply
  <2> QED
    BY <2>1, ArrivalIsAsk, StepIsReply, EndIsLeave DEF Next, Scoped!Next
<1> QED
  BY <1>1, <1>2, AlwaysSound, PTL DEF Spec, ImplementsScopedSearch, Scoped!Spec

----------------------------------------------------------------------------
(* Orders: what cutting and filtering a list keep of it *)

\* The elements of a part of a list are those of the list, from its start on.
LEMMA PartElements ==
    ASSUME NEW S, NEW list \in Seq(S), NEW m \in Nat \ {0}, NEW n \in Int
    PROVE  /\ Part(list, m, n) \in Seq(S)
           /\ Len(Part(list, m, n)) = IF m <= Least(n, Len(list))
                                      THEN Least(n, Len(list)) - m + 1 ELSE 0
           /\ \A i \in 1..Len(Part(list, m, n)) : Part(list, m, n)[i] = list[m + i - 1]
<1> DEFINE last == Least(n, Len(list))
<1>1. last \in Int /\ \A i \in m..last : list[i] \in S
  BY LenProperties DEF Least
<1>2. Part(list, m, n) = SubSeq(list, m, last)
  BY DEF Part, Least
<1> HIDE DEF last
<1>3. /\ SubSeq(list, m, last) \in Seq(S)
      /\ Len(SubSeq(list, m, last)) = IF m <= last THEN last - m + 1 ELSE 0
      /\ \A i \in 1..last - m + 1 : SubSeq(list, m, last)[i] = list[m + i - 1]
  BY <1>1, SubSeqProperties
<1>4. \A i \in 1..Len(Part(list, m, n)) : Part(list, m, n)[i] = list[m + i - 1]
  BY <1>1, <1>2, <1>3
<1> QED
  BY <1>2, <1>3, <1>4 DEF last

\* The position of an element is a place of the list that holds it, the only
\* one when the list does not repeat elements.
LEMMA PositionType ==
    ASSUME NEW S, NEW list \in Seq(S)
    PROVE  /\ \A c \in Range(list) :
                /\ Position(list, c) \in 1..Len(list)
                /\ list[Position(list, c)] = c
           /\ IsInjective(list) => \A i \in 1..Len(list) : Position(list, list[i]) = i
<1>1. DOMAIN list = 1..Len(list) /\ Len(list) \in Nat
  BY LenProperties
<1>2. ASSUME NEW c \in Range(list)
      PROVE  Position(list, c) \in 1..Len(list) /\ list[Position(list, c)] = c
  <2>1. \E i \in DOMAIN list : list[i] = c
    BY DEF Range
  <2> QED
    BY <1>1, <2>1 DEF Position
<1>3. ASSUME IsInjective(list), NEW i \in 1..Len(list)
      PROVE  Position(list, list[i]) = i
  <2>1. list[i] \in Range(list)
    BY <1>1 DEF Range
  <2> QED
    BY <1>1, <1>2, <1>3, <2>1 DEF IsInjective
<1> QED
  BY <1>2, <1>3

\* As many different elements of a set as it has are all of them.
LEMMA Listing ==
    ASSUME NEW S, IsFiniteSet(S), NEW s \in [1..Cardinality(S) -> S],
           \A i, j \in 1..Cardinality(S) : i < j => s[i] # s[j]
    PROVE  /\ s \in Seq(S) /\ Len(s) = Cardinality(S)
           /\ IsInjective(s) /\ Range(s) = S
<1> DEFINE n == Cardinality(S)
<1>1. n \in Nat
  BY FS_CardinalityType
<1> HIDE DEF n
<1>2. s \in [1..n -> S] /\ \A i, j \in 1..n : i < j => s[i] # s[j]
  BY DEF n
<1>3. s \in Seq(S)
  BY <1>1, <1>2, SeqDef
<1>4. IsInjective(s)
  BY <1>1, <1>2 DEF IsInjective
<1>5. s \in Injection(1..n, S)
  BY <1>2, <1>4 DEF Injection
<1>6. IsFiniteSet(1..n) /\ Cardinality(1..n) = n
  BY <1>1, FS_Interval
<1>7. s \in Surjection(1..n, S)
  BY <1>5, <1>6, FS_Injection DEF n
<1>8. Range(s) = S
  <2>1. DOMAIN s = 1..n /\ \A x \in S : \E i \in 1..n : s[i] = x
    BY <1>2, <1>7 DEF Surjection
  <2>2. \A x \in S : x \in Range(s)
    BY <2>1 DEF Range
  <2>3. ASSUME NEW x \in Range(s) PROVE x \in S
    <3>1. PICK i \in DOMAIN s : s[i] = x
      BY DEF Range
    <3> QED
      BY <1>2, <2>1, <3>1
  <2> QED
    BY <2>2, <2>3
<1>9. Len(s) = n
  BY <1>1, <1>2, <1>3, LenProperties
<1> QED
  BY <1>3, <1>4, <1>8, <1>9 DEF n

\* The first n elements of a list that does not repeat any.
LEMMA Cut ==
    ASSUME NEW S, NEW list \in Seq(S), IsInjective(list), NEW n \in Nat,
           NEW p, p = Part(list, 1, n)
    PROVE  /\ p \in Seq(S) /\ IsInjective(p) /\ Range(p) \subseteq Range(list)
           /\ Len(p) = Least(n, Len(list)) /\ \A i \in 1..Len(p) : p[i] = list[i]
           /\ \A x \in Range(p) : Position(p, x) = Position(list, x)
<1>1. /\ p \in Seq(S)
      /\ Len(p) = IF 1 <= Least(n, Len(list)) THEN Least(n, Len(list)) - 1 + 1 ELSE 0
      /\ \A i \in 1..Len(p) : p[i] = list[1 + i - 1]
  BY PartElements
<1>2. Len(p) \in Nat /\ DOMAIN p = 1..Len(p) /\ Len(list) \in Nat /\ DOMAIN list = 1..Len(list)
  BY <1>1, LenProperties
<1>3. Len(p) = Least(n, Len(list)) /\ Len(p) <= Len(list)
  BY <1>1, <1>2 DEF Least
<1>4. \A i \in 1..Len(p) : p[i] = list[i] /\ i \in 1..Len(list)
  BY <1>1, <1>2, <1>3
<1>5. IsInjective(p) /\ Range(p) \subseteq Range(list)
  BY <1>2, <1>4 DEF IsInjective, Range
<1>6. \A x \in Range(p) : Position(p, x) = Position(list, x)
  <2> SUFFICES ASSUME NEW i \in 1..Len(p) PROVE Position(p, p[i]) = Position(list, p[i])
    BY <1>2 DEF Range
  <2>1. Position(p, p[i]) = i
    BY <1>1, <1>5, PositionType
  <2>2. Position(list, list[i]) = i
    BY <1>4, PositionType
  <2> QED
    BY <1>4, <2>1, <2>2
<1> QED
  BY <1>1, <1>3, <1>4, <1>5, <1>6

\* Cutting the end off a list keeps who is not behind whom.
LEMMA CutKeepsOrder ==
    ASSUME NEW S, NEW list \in Seq(S), IsInjective(list), NEW n \in Nat,
           NEW c, NEW d, NotBehind(list, c, d)
    PROVE  NotBehind(Part(list, 1, n), c, d)
<1> DEFINE p == Part(list, 1, n)
<1> HIDE DEF p
<1>1. /\ p \in Seq(S) /\ Range(p) \subseteq Range(list)
      /\ Len(p) = Least(n, Len(list)) /\ \A i \in 1..Len(p) : p[i] = list[i]
      /\ IsInjective(p) /\ \A x \in Range(p) : Position(p, x) = Position(list, x)
  BY Cut DEF p
<1>2. Len(p) \in Nat /\ DOMAIN p = 1..Len(p) /\ Len(list) \in Nat
  BY <1>1, LenProperties
<1>3. ASSUME d \in Range(p)
      PROVE  c \in Range(p) /\ Position(p, c) <= Position(p, d)
  <2>1. /\ d \in Range(list) /\ Position(p, d) = Position(list, d)
        /\ Position(p, d) \in 1..Len(p)
    BY <1>1, <1>3, PositionType
  <2>2. c \in Range(list) /\ Position(list, c) <= Position(list, d)
    BY <2>1 DEF NotBehind
  <2>3. Position(list, c) \in 1..Len(list) /\ list[Position(list, c)] = c
    BY <2>2, PositionType
  <2>4. Position(list, c) \in 1..Len(p) /\ p[Position(list, c)] = c
    BY <1>1, <1>2, <2>1, <2>2, <2>3
  <2>5. c \in Range(p)
    BY <1>2, <2>4 DEF Range
  <2> QED
    BY <1>1, <2>1, <2>2, <2>5
<1> QED
  BY <1>3 DEF NotBehind, p

\* Only lists each element of a list and a set once.
LEMMA OnlyListing ==
    ASSUME NEW T, NEW list \in Seq(T), NEW S, NEW s \in Only(list, S)
    PROVE  /\ s \in Seq(T) /\ IsInjective(s)
           /\ Range(s) = Range(list) \cap S /\ Len(s) = Cardinality(Range(list) \cap S)
           /\ \A i, j \in 1..Len(s) : i < j => Position(list, s[i]) < Position(list, s[j])
<1> DEFINE R == Range(list) \cap S
<1>1. IsFiniteSet(R)
  BY RangeIsFinite, FS_Subset
<1>2. /\ s \in [1..Cardinality(R) -> R]
      /\ \A i, j \in 1..Cardinality(R) : i < j => Position(list, s[i]) < Position(list, s[j])
  BY DEF Only, Ordered
<1>3. \A x \in R : Position(list, x) \in Int
  <2> SUFFICES ASSUME NEW x \in R PROVE Position(list, x) \in Int
    OBVIOUS
  <2>1. Position(list, x) \in 1..Len(list) /\ Len(list) \in Nat
    BY PositionType, LenProperties
  <2> QED
    BY <2>1
<1> HIDE DEF R
<1>4. \A i, j \in 1..Cardinality(R) : i < j => s[i] # s[j]
  BY <1>2, <1>3
<1>5. s \in Seq(R) /\ Len(s) = Cardinality(R) /\ IsInjective(s) /\ Range(s) = R
  BY <1>1, <1>2, <1>4, Listing
<1> QED
  BY <1>2, <1>5, OnlyType DEF R

\* Filtering a list keeps who is not behind whom, of those that are kept.
LEMMA OnlyKeepsOrder ==
    ASSUME NEW T, NEW list \in Seq(T), NEW S, NEW s \in Only(list, S),
           NEW c \in S, NEW d, NotBehind(list, c, d)
    PROVE  NotBehind(s, c, d)
<1> SUFFICES ASSUME d \in Range(s)
             PROVE  c \in Range(s) /\ Position(s, c) <= Position(s, d)
  BY DEF NotBehind
<1>1. /\ s \in Seq(T) /\ Range(s) = Range(list) \cap S
      /\ \A i, j \in 1..Len(s) : i < j => Position(list, s[i]) < Position(list, s[j])
  BY OnlyListing
<1>2. c \in Range(list) /\ Position(list, c) <= Position(list, d)
  BY <1>1 DEF NotBehind
<1>3. c \in Range(s)
  BY <1>1, <1>2
<1>4. /\ Position(s, c) \in 1..Len(s) /\ s[Position(s, c)] = c
      /\ Position(s, d) \in 1..Len(s) /\ s[Position(s, d)] = d
      /\ Len(s) \in Nat /\ Len(list) \in Nat
      /\ Position(list, c) \in 1..Len(list) /\ Position(list, d) \in 1..Len(list)
  BY <1>1, <1>2, <1>3, PositionType, LenProperties
<1>5. ~ (Position(s, d) < Position(s, c))
  <2>1. Position(s, d) < Position(s, c) => Position(list, d) < Position(list, c)
    BY <1>1, <1>4
  <2> QED
    BY <1>2, <1>4, <2>1
<1> QED
  BY <1>3, <1>4, <1>5
----------------------------------------------------------------------------
(* Scores *)

Fractions == [num : Nat, den : Nat \ {0}]

\* A product of natural numbers is one.
LEMMA Products == \A a, b \in Nat : a * b \in Nat /\ (a # 0 /\ b # 0 => a * b # 0)
OBVIOUS

\* Sums of fractions are fractions.
LEMMA PlusType == \A p, q \in Fractions : Plus(p, q) \in Fractions
<1> SUFFICES ASSUME NEW p \in Fractions, NEW q \in Fractions PROVE Plus(p, q) \in Fractions
  OBVIOUS
<1>1. /\ p.num \in Nat /\ p.den \in Nat /\ p.den # 0
      /\ q.num \in Nat /\ q.den \in Nat /\ q.den # 0
  BY DEF Fractions
<1>2. /\ p.num * q.den \in Nat /\ q.num * p.den \in Nat
      /\ p.den * q.den \in Nat /\ p.den * q.den # 0
  BY <1>1, Products
<1>3. p.num * q.den + q.num * p.den \in Nat
  BY <1>2
<1> QED
  BY <1>2, <1>3 DEF Plus, Fractions

\* A positive factor on both sides changes no comparison.
LEMMA Scaling ==
    ASSUME NEW a \in Nat, NEW b \in Nat, NEW n \in Nat
    PROVE  (a >= b => a * n >= b * n) /\ (a > b /\ n # 0 => a * n > b * n)
<1>1. ASSUME a >= b PROVE a * n >= b * n
  <2> DEFINE e == a - b
  <2>1. e \in Nat /\ a = b + e
    BY <1>1
  <2> HIDE DEF e
  <2>2. a * n = b * n + e * n /\ e * n \in Nat /\ b * n \in Nat
    BY <2>1
  <2> QED
    BY <2>2
<1>2. ASSUME a > b, n # 0 PROVE a * n > b * n
  <2> DEFINE e == a - b - 1
  <2>1. e \in Nat /\ a = b + e + 1
    BY <1>2
  <2> HIDE DEF e
  <2>2. a * n = b * n + e * n + n /\ e * n \in Nat /\ b * n \in Nat
    BY <2>1
  <2> QED
    BY <1>2, <2>2
<1> QED
  BY <1>1, <1>2

\* The sum of a fraction that is not smaller and one that is greater is greater.
LEMMA SumExceeds ==
    ASSUME NEW p \in Fractions, NEW q \in Fractions, NEW u \in Fractions, NEW v \in Fractions,
           ~Exceeds(u, p), ~Exceeds(v, q), Exceeds(p, u) \/ Exceeds(q, v)
    PROVE  Exceeds(Plus(p, q), Plus(u, v))
<1>1. /\ p.num \in Nat /\ p.den \in Nat /\ p.den # 0
      /\ q.num \in Nat /\ q.den \in Nat /\ q.den # 0
      /\ u.num \in Nat /\ u.den \in Nat /\ u.den # 0
      /\ v.num \in Nat /\ v.den \in Nat /\ v.den # 0
  BY DEF Fractions
<1> DEFINE a == p.num * u.den
           b == u.num * p.den
           c == q.num * v.den
           d == v.num * q.den
           m == q.den * v.den
           n == p.den * u.den
<1>2. a \in Nat /\ b \in Nat /\ c \in Nat /\ d \in Nat /\ m \in Nat /\ n \in Nat /\ m # 0 /\ n # 0
  BY <1>1, Products
<1>3. a >= b /\ c >= d /\ (a > b \/ c > d)
  BY <1>2 DEF Exceeds
<1>4. (p.num * q.den + q.num * p.den) * (u.den * v.den) = a * m + c * n
  BY <1>1
<1>5. (u.num * v.den + v.num * u.den) * (p.den * q.den) = b * m + d * n
  BY <1>1
<1> HIDE DEF a, b, c, d, m, n
<1>6. /\ a * m >= b * m /\ c * n >= d * n
      /\ (a > b => a * m > b * m) /\ (c > d => c * n > d * n)
  BY <1>2, <1>3, Scaling
<1>7. a * m \in Nat /\ b * m \in Nat /\ c * n \in Nat /\ d * n \in Nat
  BY <1>2, Products
<1>8. a * m + c * n > b * m + d * n
  BY <1>3, <1>6, <1>7
<1> QED
  BY <1>4, <1>5, <1>8 DEF Exceeds, Plus

----------------------------------------------------------------------------
(* Rankings *)

\* A ranking lists what it ranks, each once, in the order of the scores.
LEMMA RankedOrder ==
    ASSUME NEW S \in SUBSET Content, NEW score, \A c \in S : score[c] \in Fractions,
           NEW s \in Ranked(S, score)
    PROVE  /\ s \in Seq(S) /\ IsInjective(s) /\ Range(s) = S /\ Len(s) = Cardinality(S)
           /\ \A c, d \in S : Exceeds(score[c], score[d]) => Position(s, c) < Position(s, d)
<1>1. IsFiniteSet(S) /\ S \subseteq Nat
  BY ContentAssumption, FS_Subset
<1>2. /\ s \in [1..Cardinality(S) -> S]
      /\ \A i, j \in 1..Cardinality(S) : i < j =>
            \/ Exceeds(score[s[i]], score[s[j]])
            \/ Equals(score[s[i]], score[s[j]]) /\ s[i] < s[j]
  BY DEF Ranked, Ordered
<1>3. \A c, d \in S : /\ score[c].num * score[d].den \in Nat
                      /\ score[d].num * score[c].den \in Nat
  BY Products DEF Fractions
<1>4. \A c \in S : ~Exceeds(score[c], score[c]) /\ ~(c < c)
  BY <1>1, <1>3 DEF Exceeds
<1>5. \A i, j \in 1..Cardinality(S) : i < j => s[i] # s[j]
  BY <1>2, <1>4
<1>6. s \in Seq(S) /\ Len(s) = Cardinality(S) /\ IsInjective(s) /\ Range(s) = S
  BY <1>1, <1>2, <1>5, Listing
<1>7. ASSUME NEW c \in S, NEW d \in S, Exceeds(score[c], score[d])
      PROVE  Position(s, c) < Position(s, d)
  <2> DEFINE i == Position(s, c)  j == Position(s, d)
  <2>1. /\ i \in 1..Cardinality(S) /\ s[i] = c /\ j \in 1..Cardinality(S) /\ s[j] = d
    BY <1>6, PositionType
  <2> HIDE DEF i, j
  <2>2. i # j
    BY <1>4, <1>7, <2>1
  <2>3. ~(j < i)
    <3>1. ~Exceeds(score[d], score[c]) /\ ~Equals(score[d], score[c])
      BY <1>3, <1>7 DEF Exceeds, Equals
    <3> QED
      BY <1>2, <2>1, <3>1
  <2>4. Cardinality(S) \in Nat
    BY <1>1, FS_CardinalityType
  <2>5. i < j
    BY <2>1, <2>2, <2>3, <2>4
  <2> QED
    BY <2>5 DEF i, j
<1> QED
  BY <1>6, <1>7

\* A list without repetition is no longer than what it lists.
LEMMA PlaceType ==
    ASSUME NEW list \in Seq(Content), IsInjective(list), NEW c \in Content
    PROVE  /\ Place(list, c) \in Nat \ {0}
           /\ c \in Range(list) <=> Place(list, c) <= Cardinality(Content)
<1>1. Len(list) \in Nat /\ DOMAIN list = 1..Len(list) /\ list \in [1..Len(list) -> Content]
  BY LenProperties
<1>2. IsFiniteSet(Content) /\ Cardinality(Content) \in Nat
  BY ContentAssumption, FS_CardinalityType
<1>3. list \in Injection(1..Len(list), Content)
  BY <1>1 DEF Injection, IsInjective
<1>4. Len(list) <= Cardinality(Content)
  <2>1. Cardinality(1..Len(list)) = Len(list)
    BY <1>1, FS_Interval
  <2> QED
    BY <1>2, <1>3, <2>1, FS_Injection
<1>5. CASE c \in Range(list)
  BY <1>1, <1>2, <1>4, <1>5, PositionType DEF Place
<1>6. CASE c \notin Range(list)
  BY <1>2, <1>6 DEF Place
<1> QED
  BY <1>5, <1>6

\* What a list adds to the score of a content grows with its place in it.
LEMMA ContributionOrder ==
    ASSUME NEW list \in Seq(Content), IsInjective(list), NEW c \in Content, NEW d \in Content,
           c # d, Place(list, c) <= Place(list, d)
    PROVE  /\ Contribution(list, c) \in Fractions /\ Contribution(list, d) \in Fractions
           /\ ~Exceeds(Contribution(list, d), Contribution(list, c))
           /\ c \in Range(list) => Exceeds(Contribution(list, c), Contribution(list, d))
<1> DEFINE i == Position(list, c)  j == Position(list, d)
<1>1. RrfK \in Nat \ {0} /\ Len(list) \in Nat
  BY RankAssumption, LenProperties
<1>2. /\ c \in Range(list) => i \in 1..Len(list) /\ list[i] = c /\ Place(list, c) = i
      /\ d \in Range(list) => j \in 1..Len(list) /\ list[j] = d /\ Place(list, d) = j
  BY PositionType DEF Place
<1>3. d \in Range(list) => c \in Range(list)
  <2>1. Place(list, d) <= Cardinality(Content) => Place(list, c) <= Cardinality(Content)
    BY PlaceType, ContentAssumption, FS_CardinalityType
  <2> QED
    BY <2>1, PlaceType
<1> HIDE DEF i, j
<1>4. CASE d \in Range(list)
  <2>1. i \in Nat /\ j \in Nat /\ i < j
    BY <1>1, <1>2, <1>3, <1>4
  <2>2. /\ Contribution(list, c) = [num |-> 1, den |-> RrfK + i]
        /\ Contribution(list, d) = [num |-> 1, den |-> RrfK + j]
    BY <1>3, <1>4 DEF Contribution, i, j
  <2> QED
    BY <1>1, <2>1, <2>2 DEF Fractions, Exceeds
<1>5. CASE c \in Range(list) /\ d \notin Range(list)
  <2>1. /\ Contribution(list, c) = [num |-> 1, den |-> RrfK + i]
        /\ Contribution(list, d) = [num |-> 0, den |-> 1]
    BY <1>5 DEF Contribution, Zero, i
  <2> QED
    BY <1>1, <1>2, <1>5, <2>1 DEF Fractions, Exceeds
<1>6. CASE c \notin Range(list) /\ d \notin Range(list)
  <2>1. /\ Contribution(list, c) = [num |-> 0, den |-> 1]
        /\ Contribution(list, d) = [num |-> 0, den |-> 1]
    BY <1>6 DEF Contribution, Zero
  <2> QED
    BY <1>6, <2>1 DEF Fractions, Exceeds
<1> QED
  BY <1>3, <1>4, <1>5, <1>6

\* What a list adds to a score is a fraction.
LEMMA ContributionType ==
    ASSUME NEW list \in Seq(Content), NEW c \in Content
    PROVE  Contribution(list, c) \in Fractions
<1>1. c \in Range(list) => Position(list, c) \in 1..Len(list) /\ Len(list) \in Nat
  BY PositionType, LenProperties
<1> QED
  BY <1>1, RankAssumption DEF Contribution, Zero, Fractions

\* A content that is ahead of another one in a list, and behind it in none, is
\* not behind it in their fusion.
LEMMA FusionOrder ==
    ASSUME NEW l \in Seq(Content), IsInjective(l), NEW v \in Seq(Content), IsInjective(v),
           NEW n \in Nat, NEW s \in fuse(l, v, n),
           NEW c \in Range(l) \cup Range(v), NEW d \in Range(l) \cup Range(v),
           Place(l, c) <= Place(l, d), Place(v, c) <= Place(v, d)
    PROVE  NotBehind(s, c, d)
<1> DEFINE F == Range(l) \cup Range(v)
           score == [x \in F |-> FusedScore(l, v, x)]
<1>1. F \in SUBSET Content
  BY RangeIsFinite
<1>2. PICK t \in Ranked(F, score) : s = Part(t, 1, n)
  BY DEF fuse
<1>3. \A x \in F : score[x] = FusedScore(l, v, x)
  OBVIOUS
<1>4. c \in F /\ d \in F
  OBVIOUS
<1> HIDE DEF F, score
<1>5. \A x \in F : score[x] \in Fractions
  BY <1>1, <1>3, ContributionType, PlusType DEF FusedScore
<1>6. /\ t \in Seq(F) /\ IsInjective(t) /\ Range(t) = F
      /\ \A x, y \in F : Exceeds(score[x], score[y]) => Position(t, x) < Position(t, y)
  BY <1>1, <1>2, <1>5, RankedOrder
<1>7. Position(t, c) \in Int /\ Position(t, d) \in Int
  BY <1>4, <1>6, PositionType
<1>8. Position(t, c) <= Position(t, d)
  <2>1. CASE c = d
    BY <1>7, <2>1
  <2>2. CASE c # d
    <3>1. /\ ~Exceeds(Contribution(l, d), Contribution(l, c))
          /\ c \in Range(l) => Exceeds(Contribution(l, c), Contribution(l, d))
      BY <1>1, <1>4, <2>2, ContributionOrder
    <3>2. /\ ~Exceeds(Contribution(v, d), Contribution(v, c))
          /\ c \in Range(v) => Exceeds(Contribution(v, c), Contribution(v, d))
      BY <1>1, <1>4, <2>2, ContributionOrder
    <3>3. \A x \in {c, d} : Contribution(l, x) \in Fractions /\ Contribution(v, x) \in Fractions
      BY <1>1, <1>4, ContributionType
    <3>4. Exceeds(FusedScore(l, v, c), FusedScore(l, v, d))
      BY <3>1, <3>2, <3>3, SumExceeds DEF FusedScore
    <3> QED
      BY <1>3, <1>4, <1>6, <1>7, <3>4
  <2> QED
    BY <2>1, <2>2
<1>9. NotBehind(t, c, d)
  BY <1>4, <1>6, <1>8 DEF NotBehind
<1> QED
  BY <1>2, <1>6, <1>9, CutKeepsOrder

----------------------------------------------------------------------------
(* The pool *)

\* Two lists, one after the other.
LEMMA Joined ==
    ASSUME NEW S, NEW s \in Seq(S), NEW t \in Seq(S), NEW u, u = s \o t
    PROVE  /\ u \in Seq(S) /\ Len(u) = Len(s) + Len(t)
           /\ \A i \in 1..Len(s) : u[i] = s[i]
           /\ \A i \in 1..Len(t) : u[Len(s) + i] = t[i]
<1>1. Len(s) \in Nat /\ Len(t) \in Nat
  BY LenProperties
<1>2. /\ u \in Seq(S) /\ Len(u) = Len(s) + Len(t)
      /\ \A i \in 1..Len(s) + Len(t) : u[i] = IF i <= Len(s) THEN s[i] ELSE t[i - Len(s)]
  BY ConcatProperties
<1>3. ASSUME NEW i \in 1..Len(t) PROVE u[Len(s) + i] = t[i]
  <2>1. /\ Len(s) + i \in 1..Len(s) + Len(t) /\ ~(Len(s) + i <= Len(s))
        /\ (Len(s) + i) - Len(s) = i
    BY <1>1
  <2> QED
    BY <1>2, <2>1
<1> QED
  BY <1>1, <1>2, <1>3

\* Four lists, one after the other.
LEMMA FourLists ==
    ASSUME NEW S, NEW a \in Seq(S), NEW b \in Seq(S), NEW c \in Seq(S), NEW d \in Seq(S),
           NEW all, all = a \o b \o c \o d
    PROVE  /\ all \in Seq(S) /\ Len(all) = Len(a) + Len(b) + Len(c) + Len(d)
           /\ \A i \in 1..Len(a) : all[i] = a[i]
           /\ \A i \in 1..Len(b) : all[Len(a) + i] = b[i]
           /\ \A i \in 1..Len(c) : all[Len(a) + Len(b) + i] = c[i]
           /\ \A i \in 1..Len(d) : all[Len(a) + Len(b) + Len(c) + i] = d[i]
<1> DEFINE ab == a \o b
           abc == ab \o c
<1>1. Len(a) \in Nat /\ Len(b) \in Nat /\ Len(c) \in Nat /\ Len(d) \in Nat
  BY LenProperties
<1>2. ab = a \o b /\ abc = ab \o c /\ all = abc \o d
  OBVIOUS
<1> HIDE DEF ab, abc
<1>3. /\ ab \in Seq(S) /\ Len(ab) = Len(a) + Len(b)
      /\ \A i \in 1..Len(a) : ab[i] = a[i]
      /\ \A i \in 1..Len(b) : ab[Len(a) + i] = b[i]
  BY <1>2, Joined
<1>4. /\ abc \in Seq(S) /\ Len(abc) = Len(ab) + Len(c)
      /\ \A i \in 1..Len(ab) : abc[i] = ab[i]
      /\ \A i \in 1..Len(c) : abc[Len(ab) + i] = c[i]
  BY <1>2, <1>3, Joined
<1>5. /\ all \in Seq(S) /\ Len(all) = Len(abc) + Len(d)
      /\ \A i \in 1..Len(abc) : all[i] = abc[i]
      /\ \A i \in 1..Len(d) : all[Len(abc) + i] = d[i]
  BY <1>2, <1>4, Joined
<1>6. \A i \in 1..Len(a) : all[i] = a[i]
  BY <1>1, <1>3, <1>4, <1>5
<1>7. \A i \in 1..Len(b) : all[Len(a) + i] = b[i]
  BY <1>1, <1>3, <1>4, <1>5
<1>8. \A i \in 1..Len(c) : all[Len(a) + Len(b) + i] = c[i]
  BY <1>1, <1>3, <1>4, <1>5
<1> QED
  BY <1>3, <1>4, <1>5, <1>6, <1>7, <1>8

\* The share of related contents is not more than there is room for.
LEMMA BudgetType ==
    ASSUME NEW n \in Nat
    PROVE  horizon(n) \in Nat /\ GraphBudget(n) \in Nat /\ GraphBudget(n) <= horizon(n)
<1> DEFINE H == horizon(n)
           g == GraphBudget(n)
<1>1. H \in Nat
  BY PoolAssumption DEF horizon, Least, Most
<1> HIDE DEF H
<1>2. H * GraphPercent \in Nat /\ H * GraphPercent <= H * 100
  BY <1>1, PoolAssumption
<1>3. g = (H * GraphPercent + 99) \div 100
  BY DEF GraphBudget, H
<1> HIDE DEF g
<1>4. g \in Nat /\ g <= H
  BY <1>1, <1>2, <1>3
<1> QED
  BY <1>1, <1>4 DEF H, g

\* The pool is the first x of one list and the first y of the other one, which
\* stand behind the first a of the x: as many as it has room for, and of each
\* list no less than its share.
PoolShape(list, rrf, related, n, a, x, y) ==
    /\ a \in 0..x /\ x \in 0..Len(rrf) /\ y \in 0..Len(related)
    /\ Len(list) = x + y
    /\ x + y = Least(horizon(n), Len(rrf) + Len(related))
    /\ x >= Least(horizon(n) - GraphBudget(n), Len(rrf))
    /\ y >= Least(GraphBudget(n), Len(related))
    /\ \A i \in 1..a : list[i] = rrf[i]
    /\ \A i \in 1..y : list[a + i] = related[i]
    /\ \A i \in a + 1..x : list[y + i] = rrf[i]

\* PreRerankingCandidatePool.build returns a pool of this shape.
LEMMA BuildShape ==
    ASSUME NEW S, NEW rrf \in Seq(S), NEW related \in Seq(S), NEW n \in Nat
    PROVE  \E a, x, y \in Nat : PoolShape(build(rrf, related, n), rrf, related, n, a, x, y)
<1> DEFINE H == horizon(n)
           g == GraphBudget(n)
           r == H - g
           A == Part(rrf, 1, r)
           B == Part(related, 1, g)
           C == Part(rrf, r + 1, r + g - Len(B))
           D == Part(related, g + 1, g + r - Len(A))
           all == A \o B \o C \o D
           pool_ == Part(all, 1, H)
           R == Len(rrf)
           G == Len(related)
<1>1. H \in Nat /\ g \in Nat /\ r \in Nat /\ H = r + g
  <2>1. H \in Nat /\ g \in Nat /\ g <= H
    BY BudgetType
  <2> HIDE DEF H, g
  <2> QED
    BY <2>1
<1>2. R \in Nat /\ G \in Nat
  BY LenProperties
<1>3. pool_ = build(rrf, related, n)
  BY DEF build
<1> HIDE DEF H, g, r
<1>4. /\ A \in Seq(S) /\ Len(A) = IF 1 <= Least(r, R) THEN Least(r, R) - 1 + 1 ELSE 0
      /\ \A i \in 1..Len(A) : A[i] = rrf[1 + i - 1]
  BY <1>1, PartElements
<1>5. /\ B \in Seq(S) /\ Len(B) = IF 1 <= Least(g, G) THEN Least(g, G) - 1 + 1 ELSE 0
      /\ \A i \in 1..Len(B) : B[i] = related[1 + i - 1]
  BY <1>1, PartElements
<1> HIDE DEF A, B, R, G
<1>6. Len(A) = Least(r, R) /\ Len(B) = Least(g, G) /\ Len(A) \in Nat /\ Len(B) \in Nat
  BY <1>1, <1>2, <1>4, <1>5 DEF Least
<1> DEFINE to == r + g - Len(B)
           te == g + r - Len(A)
<1>7. r + 1 \in Nat \ {0} /\ g + 1 \in Nat \ {0} /\ to \in Int /\ te \in Int
  BY <1>1, <1>6
<1> HIDE DEF to, te
<1>8. /\ C \in Seq(S) /\ Len(C) = IF r + 1 <= Least(to, R) THEN Least(to, R) - (r + 1) + 1 ELSE 0
      /\ \A i \in 1..Len(C) : C[i] = rrf[r + 1 + i - 1]
  BY <1>7, PartElements DEF to, R
<1>9. /\ D \in Seq(S) /\ Len(D) = IF g + 1 <= Least(te, G) THEN Least(te, G) - (g + 1) + 1 ELSE 0
      /\ \A i \in 1..Len(D) : D[i] = related[g + 1 + i - 1]
  BY <1>7, PartElements DEF te, G
<1> HIDE DEF C, D
<1>10. /\ Len(C) \in Nat /\ Len(D) \in Nat
       /\ Len(C) = IF R <= r THEN 0 ELSE Least(g - Len(B), R - r)
       /\ Len(D) = IF G <= g THEN 0 ELSE Least(r - Len(A), G - g)
  BY <1>1, <1>2, <1>6, <1>7, <1>8, <1>9 DEF Least, to, te
<1>11. /\ all \in Seq(S) /\ Len(all) = Len(A) + Len(B) + Len(C) + Len(D)
       /\ \A i \in 1..Len(A) : all[i] = A[i]
       /\ \A i \in 1..Len(B) : all[Len(A) + i] = B[i]
       /\ \A i \in 1..Len(C) : all[Len(A) + Len(B) + i] = C[i]
       /\ \A i \in 1..Len(D) : all[Len(A) + Len(B) + Len(C) + i] = D[i]
  <2>1. all = A \o B \o C \o D
    OBVIOUS
  <2>2. A \in Seq(S) /\ B \in Seq(S) /\ C \in Seq(S) /\ D \in Seq(S)
    BY <1>4, <1>5, <1>8, <1>9
  <2> HIDE DEF all
  <2>3. /\ all \in Seq(S) /\ Len(all) = Len(A) + Len(B) + Len(C) + Len(D)
    BY <2>1, <2>2, FourLists
  <2>4. \A i \in 1..Len(A) : all[i] = A[i]
    BY <2>1, <2>2, FourLists
  <2>5. \A i \in 1..Len(B) : all[Len(A) + i] = B[i]
    BY <2>1, <2>2, FourLists
  <2>6. \A i \in 1..Len(C) : all[Len(A) + Len(B) + i] = C[i]
    BY <2>1, <2>2, FourLists
  <2>7. \A i \in 1..Len(D) : all[Len(A) + Len(B) + Len(C) + i] = D[i]
    BY <2>1, <2>2, FourLists
  <2> QED
    BY <2>3, <2>4, <2>5, <2>6, <2>7
<1> HIDE DEF all
<1>12. /\ pool_ \in Seq(S)
       /\ Len(pool_) = IF 1 <= Least(H, Len(all)) THEN Least(H, Len(all)) - 1 + 1 ELSE 0
       /\ \A i \in 1..Len(pool_) : pool_[i] = all[1 + i - 1]
  <2>1. all \in Seq(S) /\ H \in Int /\ 1 \in Nat \ {0}
    BY <1>1, <1>11
  <2> QED
    BY <2>1, PartElements
<1> HIDE DEF pool_
<1>13. Len(all) \in Nat /\ Len(all) <= H
  BY <1>1, <1>2, <1>6, <1>10, <1>11 DEF Least
<1>14. Len(pool_) = Len(all) /\ \A i \in 1..Len(all) : pool_[i] = all[i]
  BY <1>1, <1>12, <1>13 DEF Least
<1> DEFINE a == Len(A)
           x == Len(A) + Len(C)
           y == Len(B) + Len(D)
<1>15. a \in Nat /\ x \in Nat /\ y \in Nat
  BY <1>6, <1>10
<1>16. /\ a \in 0..x /\ x \in 0..R /\ y \in 0..G /\ Len(all) = x + y
       /\ x + y = Least(H, R + G) /\ x >= Least(r, R) /\ y >= Least(g, G)
  BY <1>1, <1>2, <1>6, <1>10, <1>11 DEF Least
<1>17. \A i \in 1..a : pool_[i] = rrf[i]
  <2> SUFFICES ASSUME NEW i \in 1..a PROVE pool_[i] = rrf[i]
    OBVIOUS
  <2>1. A[i] = rrf[i] /\ all[i] = A[i]
    BY <1>4, <1>6, <1>11
  <2>2. i \in 1..Len(all)
    BY <1>6, <1>10, <1>11
  <2> QED
    BY <1>14, <2>1, <2>2
<1>18. \A i \in 1..y : pool_[a + i] = related[i]
  <2> SUFFICES ASSUME NEW i \in 1..y PROVE pool_[a + i] = related[i]
    OBVIOUS
  <2>1. CASE i <= Len(B)
    <3>1. B[i] = related[i] /\ all[a + i] = B[i]
      BY <1>5, <1>6, <1>11, <2>1
    <3>2. a + i \in 1..Len(all)
      BY <1>6, <1>10, <1>11, <2>1
    <3> QED
      BY <1>14, <3>1, <3>2
  <2>2. CASE i > Len(B)
    <3>1. Len(D) > 0
      BY <1>6, <1>10, <2>2
    <3>2. Len(B) = g /\ Len(C) = 0
      BY <1>1, <1>2, <1>6, <1>10, <3>1 DEF Least
    <3>3. i - g \in 1..Len(D) /\ i - g \in Int
      BY <1>1, <1>6, <1>10, <2>2, <3>2
    <3>4. all[a + i] = D[i - g]
      <4>1. all[Len(A) + Len(B) + Len(C) + (i - g)] = D[i - g]
        BY <1>11, <3>3
      <4>2. Len(A) + Len(B) + Len(C) + (i - g) = a + i
        BY <1>1, <1>6, <3>2
      <4> QED
        BY <4>1, <4>2
    <3>5. D[i - g] = related[i]
      <4>1. D[i - g] = related[g + 1 + (i - g) - 1]
        BY <1>9, <3>3
      <4>2. g + 1 + (i - g) - 1 = i
        BY <1>1
      <4> QED
        BY <4>1, <4>2
    <3>6. a + i \in 1..Len(all)
      BY <1>6, <1>10, <1>11
    <3> QED
      BY <1>14, <3>4, <3>5, <3>6
  <2> QED
    BY <1>6, <1>10, <2>1, <2>2
<1>19. \A i \in a + 1..x : pool_[y + i] = rrf[i]
  <2> SUFFICES ASSUME NEW i \in a + 1..x PROVE pool_[y + i] = rrf[i]
    OBVIOUS
  <2>1. Len(C) > 0
    BY <1>6, <1>10
  <2>2. Len(A) = r /\ Len(D) = 0
    BY <1>1, <1>2, <1>6, <1>10, <2>1 DEF Least
  <2>3. i - r \in 1..Len(C)
    BY <1>1, <1>6, <1>10, <2>2
  <2>4. all[y + i] = C[i - r]
    <3>1. all[Len(A) + Len(B) + (i - r)] = C[i - r]
      BY <1>11, <2>3
    <3>2. Len(A) + Len(B) + (i - r) = y + i
      BY <1>1, <1>6, <2>2
    <3> QED
      BY <3>1, <3>2
  <2>5. C[i - r] = rrf[i]
    <3>1. C[i - r] = rrf[r + 1 + (i - r) - 1]
      BY <1>8, <2>3
    <3>2. r + 1 + (i - r) - 1 = i
      BY <1>1
    <3> QED
      BY <3>1, <3>2
  <2>6. y + i \in 1..Len(all)
    <3>1. i \in Int /\ a + 1 <= i /\ i <= x
      BY <1>15
    <3>2. Len(all) = x + y
      BY <1>16
    <3> HIDE DEF a, x, y
    <3> QED
      BY <1>15, <3>1, <3>2
  <2> QED
    BY <1>14, <2>4, <2>5, <2>6
<1> HIDE DEF a, x, y
<1>20. PoolShape(pool_, rrf, related, n, a, x, y)
  BY <1>14, <1>16, <1>17, <1>18, <1>19 DEF PoolShape, H, g, r, R, G
<1> QED
  BY <1>3, <1>15, <1>20

\* A list without repetition has as many elements as it is long.
LEMMA ListCardinality ==
    ASSUME NEW S, NEW s \in Seq(S), IsInjective(s)
    PROVE  IsFiniteSet(Range(s)) /\ Cardinality(Range(s)) = Len(s)
<1>1. Len(s) \in Nat /\ DOMAIN s = 1..Len(s) /\ s \in [1..Len(s) -> Range(s)]
  BY LenProperties DEF Range
<1>2. IsFiniteSet(1..Len(s)) /\ Cardinality(1..Len(s)) = Len(s)
  BY <1>1, FS_Interval
<1>3. s \in Bijection(1..Len(s), Range(s))
  BY <1>1 DEF Bijection, Injection, Surjection, IsInjective, Range
<1> QED
  BY <1>2, <1>3, FS_Bijection DEF ExistsBijection

\* The first n elements of a list are n.
LEMMA FirstOf ==
    ASSUME NEW S, NEW s \in Seq(S), IsInjective(s), NEW n \in 0..Len(s),
           NEW T, \A e : e \in T <=> \E i \in 1..n : e = s[i]
    PROVE  Cardinality(T) = n
<1>1. Len(s) \in Nat /\ n \in Nat
  BY LenProperties
<1> DEFINE p == Part(s, 1, n)
<1> HIDE DEF p
<1>2. /\ p \in Seq(S) /\ IsInjective(p) /\ Len(p) = Least(n, Len(s))
      /\ \A i \in 1..Len(p) : p[i] = s[i]
  BY <1>1, Cut DEF p
<1>3. Len(p) = n /\ DOMAIN p = 1..n
  BY <1>1, <1>2, LenProperties DEF Least
<1>4. Range(p) = T
  BY <1>2, <1>3 DEF Range
<1> QED
  BY <1>2, <1>3, <1>4, ListCardinality

\* Of two lists that have nothing in common, the pool has no content twice,
\* each source has its share, and both keep their order.
LEMMA BuildIsFair ==
    ASSUME NEW S, NEW rrf \in Seq(S), IsInjective(rrf),
           NEW related \in Seq(S), IsInjective(related),
           Range(related) \cap Range(rrf) = {}, NEW n \in Nat,
           NEW b, b = build(rrf, related, n)
    PROVE  /\ Len(b) = Least(horizon(n), Len(rrf) + Len(related))
           /\ Cardinality(Range(b) \cap Range(rrf))
                >= Least(horizon(n) - GraphBudget(n), Len(rrf))
           /\ Cardinality(Range(b) \ Range(rrf)) >= Least(GraphBudget(n), Len(related))
           /\ \A c, d \in Range(rrf) : NotBehind(rrf, c, d) => NotBehind(b, c, d)
           /\ \A c, d \in Range(related) : NotBehind(related, c, d) => NotBehind(b, c, d)
<1>1. PICK a \in Nat, x \in Nat, y \in Nat : PoolShape(b, rrf, related, n, a, x, y)
  BY BuildShape
<1>2. b \in Seq(S)
  BY BuildType
<1>3. /\ Len(rrf) \in Nat /\ DOMAIN rrf = 1..Len(rrf)
      /\ Len(related) \in Nat /\ DOMAIN related = 1..Len(related)
      /\ DOMAIN b = 1..Len(b)
  BY <1>2, LenProperties
<1>4. /\ a <= x /\ x <= Len(rrf) /\ y <= Len(related) /\ Len(b) = x + y
      /\ \A i \in 1..a : b[i] = rrf[i]
      /\ \A i \in 1..y : b[a + i] = related[i]
      /\ \A i \in a + 1..x : b[y + i] = rrf[i]
  <2>1. /\ a \in 0..x /\ x \in 0..Len(rrf) /\ y \in 0..Len(related) /\ Len(b) = x + y
        /\ \A i \in 1..a : b[i] = rrf[i]
        /\ \A i \in 1..y : b[a + i] = related[i]
        /\ \A i \in a + 1..x : b[y + i] = rrf[i]
    BY <1>1 DEF PoolShape
  <2> QED
    BY <1>3, <2>1
<1> DEFINE At(i) == IF i <= a THEN i ELSE y + i
<1>5. \A i \in 1..x : At(i) \in 1..Len(b) /\ b[At(i)] = rrf[i]
  BY <1>4
<1>6. \A i \in 1..y : a + i \in 1..Len(b) /\ b[a + i] = related[i]
  BY <1>4
<1>7. \A k \in 1..Len(b) : (\E i \in 1..x : k = At(i)) \/ (\E i \in 1..y : k = a + i)
  <2> SUFFICES ASSUME NEW k \in 1..Len(b)
               PROVE  (\E i \in 1..x : k = At(i)) \/ (\E i \in 1..y : k = a + i)
    OBVIOUS
  <2>1. CASE k <= a
    <3>1. k \in 1..x /\ k = At(k)
      BY <1>4, <2>1
    <3> QED
      BY <3>1
  <2>2. CASE k > a /\ k <= a + y
    <3>1. k - a \in 1..y /\ k = a + (k - a)
      BY <2>2
    <3> QED
      BY <3>1
  <2>3. CASE k > a + y
    <3>1. k - y \in 1..x /\ k = At(k - y)
      BY <1>4, <2>3
    <3> QED
      BY <3>1
  <2> QED
    BY <1>4, <2>1, <2>2, <2>3
<1>8. \A i, j \in 1..x : i <= j => At(i) <= At(j)
  OBVIOUS
<1> HIDE DEF At
<1>9. \A i \in 1..x : /\ i \in DOMAIN rrf /\ rrf[i] \in Range(rrf)
                       /\ At(i) \in DOMAIN b /\ rrf[i] \in Range(b)
  <2>1. \A i \in 1..x : i \in DOMAIN rrf /\ At(i) \in DOMAIN b /\ b[At(i)] = rrf[i]
    BY <1>3, <1>4, <1>5
  <2> QED
    BY <2>1 DEF Range
<1>10. \A i \in 1..y : /\ i \in DOMAIN related /\ related[i] \in Range(related)
                        /\ a + i \in DOMAIN b /\ related[i] \in Range(b)
  <2>1. \A i \in 1..y : i \in DOMAIN related /\ a + i \in DOMAIN b /\ b[a + i] = related[i]
    BY <1>3, <1>4, <1>6
  <2> QED
    BY <2>1 DEF Range
<1>11. IsInjective(b)
  <2> SUFFICES ASSUME NEW k \in 1..Len(b), NEW m \in 1..Len(b), b[k] = b[m] PROVE k = m
    BY <1>3 DEF IsInjective
  <2>1. CASE \E i \in 1..x : k = At(i)
    <3>1. PICK i \in 1..x : k = At(i)
      BY <2>1
    <3>2. b[m] = rrf[i]
      BY <1>5, <3>1
    <3>3. PICK j \in 1..x : m = At(j)
      BY <1>6, <1>7, <1>9, <1>10, <3>2
    <3>4. i = j
      BY <1>5, <1>9, <3>2, <3>3 DEF IsInjective
    <3> QED
      BY <3>1, <3>3, <3>4
  <2>2. CASE \E i \in 1..y : k = a + i
    <3>1. PICK i \in 1..y : k = a + i
      BY <2>2
    <3>2. b[m] = related[i]
      BY <1>6, <3>1
    <3>3. PICK j \in 1..y : m = a + j
      BY <1>5, <1>7, <1>9, <1>10, <3>2
    <3>4. i = j
      BY <1>6, <1>10, <3>2, <3>3 DEF IsInjective
    <3> QED
      BY <3>1, <3>3, <3>4
  <2> QED
    BY <1>7, <2>1, <2>2
<1>12. \A e : e \in Range(b) \cap Range(rrf) <=> \E i \in 1..x : e = rrf[i]
  <2>1. ASSUME NEW c \in Range(b) \cap Range(rrf) PROVE \E i \in 1..x : c = rrf[i]
    <3>1. PICK k \in 1..Len(b) : b[k] = c
      BY <1>3, <2>1 DEF Range
    <3>2. ~ \E i \in 1..y : k = a + i
      BY <1>6, <1>10, <2>1, <3>1
    <3> QED
      BY <1>5, <1>7, <3>1, <3>2
  <2> QED
    BY <1>9, <2>1
<1>13. \A e : e \in Range(b) \ Range(rrf) <=> \E i \in 1..y : e = related[i]
  <2>1. ASSUME NEW c \in Range(b) \ Range(rrf) PROVE \E i \in 1..y : c = related[i]
    <3>1. PICK k \in 1..Len(b) : b[k] = c
      BY <1>3, <2>1 DEF Range
    <3>2. ~ \E i \in 1..x : k = At(i)
      BY <1>5, <1>9, <2>1, <3>1
    <3> QED
      BY <1>6, <1>7, <3>1, <3>2
  <2> QED
    BY <1>10, <2>1
<1>14. /\ Cardinality(Range(b) \cap Range(rrf)) = x
       /\ Cardinality(Range(b) \ Range(rrf)) = y
  <2>1. x \in 0..Len(rrf) /\ y \in 0..Len(related)
    BY <1>3, <1>4
  <2> DEFINE F == Range(b) \cap Range(rrf)
             G == Range(b) \ Range(rrf)
  <2>2. \A e : e \in F <=> \E i \in 1..x : e = rrf[i]
    BY <1>12
  <2>3. \A e : e \in G <=> \E i \in 1..y : e = related[i]
    BY <1>13
  <2> HIDE DEF F, G
  <2>4. Cardinality(F) = x
    BY <2>1, <2>2, FirstOf
  <2>5. Cardinality(G) = y
    BY <2>1, <2>3, FirstOf
  <2> QED
    BY <2>4, <2>5 DEF F, G
<1>15. ASSUME NEW c \in Range(rrf), NEW d \in Range(rrf), NotBehind(rrf, c, d)
       PROVE  NotBehind(b, c, d)
  <2> SUFFICES ASSUME d \in Range(b) PROVE c \in Range(b) /\ Position(b, c) <= Position(b, d)
    BY DEF NotBehind
  <2>1. PICK j \in 1..x : d = rrf[j]
    BY <1>12
  <2>2. Position(rrf, d) = j
    BY <1>3, <1>9, <2>1, PositionType
  <2> DEFINE i == Position(rrf, c)
  <2>3. i \in 1..Len(rrf) /\ rrf[i] = c
    BY PositionType
  <2>4. i <= j
    BY <1>15, <2>2 DEF NotBehind
  <2> HIDE DEF i
  <2>5. i \in 1..x
    BY <2>3, <2>4
  <2>6. Position(b, c) = At(i) /\ Position(b, d) = At(j)
    BY <1>2, <1>5, <1>11, <2>1, <2>3, <2>5, PositionType
  <2> QED
    BY <1>8, <1>9, <2>3, <2>4, <2>5, <2>6
<1>16. ASSUME NEW c \in Range(related), NEW d \in Range(related), NotBehind(related, c, d)
       PROVE  NotBehind(b, c, d)
  <2> SUFFICES ASSUME d \in Range(b) PROVE c \in Range(b) /\ Position(b, c) <= Position(b, d)
    BY DEF NotBehind
  <2>1. PICK j \in 1..y : d = related[j]
    BY <1>13
  <2>2. Position(related, d) = j
    BY <1>3, <1>10, <2>1, PositionType
  <2> DEFINE i == Position(related, c)
  <2>3. i \in 1..Len(related) /\ related[i] = c
    BY PositionType
  <2>4. i <= j
    BY <1>16, <2>2 DEF NotBehind
  <2> HIDE DEF i
  <2>5. i \in 1..y
    BY <2>3, <2>4
  <2>6. Position(b, c) = a + i /\ Position(b, d) = a + j
    BY <1>2, <1>6, <1>11, <2>1, <2>3, <2>5, PositionType
  <2> QED
    BY <1>10, <2>3, <2>4, <2>5, <2>6
<1>17. /\ x + y = Least(horizon(n), Len(rrf) + Len(related))
       /\ x >= Least(horizon(n) - GraphBudget(n), Len(rrf))
       /\ y >= Least(GraphBudget(n), Len(related))
  BY <1>1 DEF PoolShape
<1> QED
  BY <1>4, <1>14, <1>15, <1>16, <1>17

----------------------------------------------------------------------------
(* Sums over the first elements of a list *)

\* The order of the natural numbers is well founded.
LEMMA LessIsOrder ==
    /\ \A y, x \in Nat : <<y, x>> \in OpToRel(<, Nat) <=> y < x
    /\ IsWellFoundedOn(OpToRel(<, Nat), Nat)
<1>1. OpToRel(<, Nat) = {ss \in Nat \X Nat : ss[1] < ss[2]}
  BY DEF OpToRel
<1>2. \A y, x \in Nat : <<y, x>> \in OpToRel(<, Nat) <=> y < x
  BY <1>1
<1> QED
  BY <1>2, NatLessThanWellFounded

\* What holds of 0, and of every number up to m with its predecessor, holds
\* of all of them.
LEMMA NumbersUpTo ==
    ASSUME NEW m \in Nat, NEW T, 0 \in T, \A n \in 1..m : n - 1 \in T => n \in T
    PROVE  \A n \in 0..m : n \in T
<1> SUFFICES ASSUME NEW n \in 0..m, n \notin T PROVE FALSE
  OBVIOUS
<1> DEFINE R == OpToRel(<, Nat)
           B == (0..m) \ T
<1>1. IsWellFoundedOn(R, Nat)
  BY LessIsOrder
<1>2. \A y, x \in Nat : <<y, x>> \in R <=> y < x
  BY LessIsOrder
<1>3. B \subseteq Nat /\ B # {}
  OBVIOUS
<1> HIDE DEF R, B
<1>4. PICK x \in B : \A y \in B : ~(<<y, x>> \in R)
  BY <1>1, <1>3, WFMin
<1>5. x \in 1..m /\ x - 1 \in 0..m /\ x - 1 \in Nat /\ x \in Nat /\ x - 1 < x
  BY DEF B
<1>6. <<x - 1, x>> \in R
  BY <1>2, <1>5
<1>7. x - 1 \notin B
  BY <1>4, <1>6
<1> QED
  BY <1>4, <1>5, <1>7 DEF B

\* f begins with z and goes on by steps, up to m.
Recursive(f, S, z, m, step) ==
    f \in [0..m -> S] /\ f[0] = z /\ \A n \in 1..m : f[n] = step[<<f[n - 1], n>>]

\* Every definition by recursion on the first numbers has a value.
LEMMA Recursion ==
    ASSUME NEW S, NEW z \in S, NEW m \in Nat, NEW step \in [S \X (1..m) -> S]
    PROVE  \E f : Recursive(f, S, z, m, step)
<1> DEFINE Up(f, k) == f[0] = z /\ \A n \in 1..k : f[n] = step[<<f[n - 1], n>>]
           T == {k \in 0..m : \E f \in [0..k -> S] : Up(f, k)}
<1>1. 0 \in T
  <2> DEFINE g == [n \in 0..0 |-> z]
  <2>1. g \in [0..0 -> S] /\ g[0] = z
    OBVIOUS
  <2> HIDE DEF g
  <2>2. Up(g, 0)
    BY <2>1
  <2>3. \E f \in [0..0 -> S] : Up(f, 0)
    BY <2>1, <2>2
  <2> HIDE DEF Up
  <2> QED
    BY <2>3
<1>2. ASSUME NEW k \in 1..m, k - 1 \in T PROVE k \in T
  <2>1. PICK f \in [0..k - 1 -> S] : Up(f, k - 1)
    BY <1>2
  <2> DEFINE g == [n \in 0..k |-> IF n = k THEN step[<<f[k - 1], k>>] ELSE f[n]]
  <2>2. step[<<f[k - 1], k>>] \in S
    BY <2>1
  <2>3. g \in [0..k -> S]
    BY <2>2
  <2>4. g[0] = z
    BY <2>1
  <2>5. ASSUME NEW n \in 1..k PROVE g[n] = step[<<g[n - 1], n>>]
    <3>1. n - 1 \in 0..k - 1 /\ g[n - 1] = f[n - 1]
      OBVIOUS
    <3>2. CASE n = k
      <4>1. g[k] = step[<<f[k - 1], k>>]
        OBVIOUS
      <4> HIDE DEF g
      <4> QED
        BY <3>1, <3>2, <4>1
    <3>3. CASE n # k
      BY <2>1, <3>1, <3>3
    <3> QED
      BY <3>2, <3>3
  <2> HIDE DEF g
  <2>6. Up(g, k)
    BY <2>4, <2>5
  <2> QED
    BY <2>3, <2>6
<1> HIDE DEF T
<1>3. m \in T
  <2>1. \A n \in 0..m : n \in T
    BY <1>1, <1>2, NumbersUpTo
  <2> QED
    BY <2>1
<1> QED
  BY <1>3 DEF T, Recursive

\* The weight of the n-th seed for c.
Weight(seeds, relations, c, n) == relations[{seeds[n], c}]

\* The weight of a seed for a content that is not a seed is a number.
LEMMA WeightType ==
    ASSUME NEW seeds \in Seq(Content), NEW relations \in [Pairs(seeds) -> Nat],
           NEW c \in Content \ Range(seeds), NEW n \in 1..Len(seeds)
    PROVE  Weight(seeds, relations, c, n) \in Nat
<1>1. n \in DOMAIN seeds /\ seeds[n] \in Content
  BY LenProperties
<1>2. seeds[n] \in Range(seeds)
  BY <1>1 DEF Range
<1> DEFINE x == seeds[n]
<1>3. x # c /\ x \in Content
  BY <1>1, <1>2
<1> HIDE DEF x
<1>4. Cardinality({x, c}) = 2
  <2>1. IsFiniteSet({x}) /\ Cardinality({x}) = 1
    BY FS_Singleton
  <2> DEFINE X == {x}
  <2>2. IsFiniteSet(X) /\ Cardinality(X) = 1 /\ c \notin X
    BY <1>3, <2>1
  <2>3. X \cup {c} = {x, c}
    OBVIOUS
  <2> HIDE DEF X
  <2>4. Cardinality(X \cup {c}) = Cardinality(X) + 1
    BY <2>2, FS_AddElement
  <2>5. Cardinality({x, c}) = Cardinality(X) + 1
    BY <2>3, <2>4
  <2> QED
    BY <2>2, <2>5
<1>5. {x, c} \in Pairs(seeds)
  BY <1>2, <1>3, <1>4 DEF Pairs, x
<1> QED
  BY <1>5 DEF Weight, x

\* f gives the score of c over the first n seeds.
Scores(seeds, relations, c, f) ==
    /\ f \in [0..Len(seeds) -> Fractions] /\ f[0] = Zero
    /\ \A n \in 1..Len(seeds) :
        f[n] = Plus(f[n - 1], [num |-> Weight(seeds, relations, c, n), den |-> n])

\* GraphScore is the last of the scores of the first seeds.
LEMMA GraphScoreIs ==
    ASSUME NEW seeds \in Seq(Content), NEW relations \in [Pairs(seeds) -> Nat],
           NEW c \in Content \ Range(seeds)
    PROVE  \E f : Scores(seeds, relations, c, f) /\ GraphScore(seeds, relations, c) = f[Len(seeds)]
<1> DEFINE L == Len(seeds)
           w(n) == [num |-> Weight(seeds, relations, c, n), den |-> n]
           step == [x \in Fractions \X (1..L) |-> Plus(x[1], w(x[2]))]
           Is(f) == f = [n \in 0..L |-> IF n = 0 THEN Zero ELSE Plus(f[n - 1], w(n))]
           Total == CHOOSE f : Is(f)
<1>1. L \in Nat
  BY LenProperties
<1>2. Zero \in Fractions
  BY DEF Zero, Fractions
<1>3. \A n \in 1..L : w(n) \in Fractions
  BY <1>1, WeightType DEF Fractions
<1> HIDE DEF w, L
<1>4. step \in [Fractions \X (1..L) -> Fractions]
  BY <1>3, PlusType
<1>5. \A x \in Fractions, n \in 1..L : step[<<x, n>>] = Plus(x, w(n))
  OBVIOUS
<1> HIDE DEF step
<1>6. PICK f \in [0..L -> Fractions] : f[0] = Zero /\ \A n \in 1..L : f[n] = step[<<f[n - 1], n>>]
  <2>1. \E f : Recursive(f, Fractions, Zero, L, step)
    BY <1>1, <1>2, <1>4, Recursion
  <2> QED
    BY <2>1 DEF Recursive
<1>7. \A n \in 1..L : f[n - 1] \in Fractions /\ f[n] = Plus(f[n - 1], w(n))
  <2> SUFFICES ASSUME NEW n \in 1..L PROVE f[n - 1] \in Fractions /\ f[n] = Plus(f[n - 1], w(n))
    OBVIOUS
  <2>1. n - 1 \in 0..L
    BY <1>1
  <2>2. f[n - 1] \in Fractions
    BY <1>6, <2>1
  <2> QED
    BY <1>5, <1>6, <2>2
<1>8. Is(f)
  <2>1. \A n \in 0..L : f[n] = IF n = 0 THEN Zero ELSE Plus(f[n - 1], w(n))
    BY <1>1, <1>6, <1>7
  <2> QED
    BY <1>6, <2>1
<1>9. Is(Total)
  BY <1>8
<1>10. GraphScore(seeds, relations, c) = Total[L]
  BY DEF GraphScore, L, w, Weight
<1> HIDE DEF Total
<1>11. DOMAIN Total = 0..L /\ Total[0] = Zero
  BY <1>1, <1>9
<1>12. \A n \in 1..L : Total[n] = Plus(Total[n - 1], w(n))
  BY <1>1, <1>9
<1> DEFINE T == {n \in 0..L : Total[n] \in Fractions}
<1>13. \A n \in 0..L : n \in T
  <2>1. 0 \in T
    BY <1>1, <1>2, <1>11
  <2>2. ASSUME NEW n \in 1..L, n - 1 \in T PROVE n \in T
    BY <1>3, <1>12, <2>2, PlusType
  <2> HIDE DEF T
  <2> QED
    BY <1>1, <2>1, <2>2, NumbersUpTo
<1>14. Total \in [0..L -> Fractions]
  BY <1>9, <1>11, <1>13
<1>15. Scores(seeds, relations, c, Total)
  BY <1>11, <1>12, <1>14 DEF Scores, L, w
<1> QED
  BY <1>10, <1>15 DEF L

\* A gives what the first n seeds have to do with c.
Sums(seeds, relations, c, A) ==
    /\ A \in [0..Len(seeds) -> Nat] /\ A[0] = 0
    /\ \A n \in 1..Len(seeds) : A[n] = A[n - 1] + Weight(seeds, relations, c, n)

\* Nearness is the sum of the weights of the first seeds.
LEMMA NearnessIs ==
    ASSUME Seeds(fused) \in Seq(Content), edges \in [Pairs(Seeds(fused)) -> Nat],
           NEW c \in Content \ Range(Seeds(fused))
    PROVE  \E A : /\ Sums(Seeds(fused), edges, c, A)
                  /\ \A n \in 0..Len(Seeds(fused)) : Nearness(c, n) = A[n]
<1> DEFINE seeds == Seeds(fused)
           L == Len(seeds)
           w(n) == Weight(seeds, edges, c, n)
           step == [x \in Nat \X (1..L) |-> x[1] + w(x[2])]
           Is(m, f) == f = [n \in 0..m |-> IF n = 0 THEN 0 ELSE f[n - 1] + w(n)]
           Total(m) == CHOOSE f : Is(m, f)
<1>1. L \in Nat
  BY LenProperties
<1>2. \A n \in 1..L : w(n) \in Nat
  BY WeightType
<1>3. \A m \in 0..L : Nearness(c, m) = Total(m)[m]
  BY DEF Nearness, Weight
<1> HIDE DEF w, L, seeds
<1>4. step \in [Nat \X (1..L) -> Nat]
  BY <1>2
<1>5. \A x \in Nat, n \in 1..L : step[<<x, n>>] = x + w(n)
  OBVIOUS
<1> HIDE DEF step
<1>6. PICK A \in [0..L -> Nat] : A[0] = 0 /\ \A n \in 1..L : A[n] = step[<<A[n - 1], n>>]
  <2>1. 0 \in Nat
    OBVIOUS
  <2>2. \E A : Recursive(A, Nat, 0, L, step)
    BY <1>1, <1>4, <2>1, Recursion
  <2> QED
    BY <2>2 DEF Recursive
<1>7. \A n \in 1..L : A[n - 1] \in Nat /\ A[n] = A[n - 1] + w(n)
  <2> SUFFICES ASSUME NEW n \in 1..L PROVE A[n - 1] \in Nat /\ A[n] = A[n - 1] + w(n)
    OBVIOUS
  <2>1. n - 1 \in 0..L
    BY <1>1
  <2>2. A[n - 1] \in Nat
    BY <1>6, <2>1
  <2> QED
    BY <1>5, <1>6, <2>2
<1>8. ASSUME NEW m \in 0..L PROVE Nearness(c, m) = A[m]
  <2> DEFINE B == [n \in 0..m |-> A[n]]
  <2>1. m \in Nat /\ \A n \in 0..m : n \in 0..L
    BY <1>1
  <2>2. \A n \in 0..m : B[n] = A[n]
    OBVIOUS
  <2>3. Is(m, B)
    <3>1. \A n \in 0..m : B[n] = IF n = 0 THEN 0 ELSE B[n - 1] + w(n)
      <4> SUFFICES ASSUME NEW n \in 0..m PROVE B[n] = IF n = 0 THEN 0 ELSE B[n - 1] + w(n)
        OBVIOUS
      <4>1. CASE n = 0
        BY <1>6, <4>1
      <4>2. CASE n # 0
        <5>1. n \in 1..L /\ n - 1 \in 0..m
          BY <2>1, <4>2
        <5> QED
          BY <1>7, <2>2, <4>2, <5>1
      <4> QED
        BY <4>1, <4>2
    <3> QED
      BY <3>1
  <2>4. Is(m, Total(m))
    BY <2>3
  <2> DEFINE f == Total(m)
             T == {n \in 0..m : f[n] = A[n]}
  <2> HIDE DEF B
  <2>5. f[0] = 0 /\ \A n \in 1..m : f[n] = f[n - 1] + w(n)
    <3>1. f = [n \in 0..m |-> IF n = 0 THEN 0 ELSE f[n - 1] + w(n)]
      BY <2>4
    <3> HIDE DEF f
    <3> QED
      BY <2>1, <3>1
  <2> HIDE DEF f
  <2>6. \A n \in 0..m : n \in T
    <3>1. 0 \in T
      BY <1>6, <2>1, <2>5
    <3>2. ASSUME NEW n \in 1..m, n - 1 \in T PROVE n \in T
      <4>1. f[n] = f[n - 1] + w(n) /\ f[n - 1] = A[n - 1] /\ n \in 1..L
        BY <2>1, <2>5, <3>2
      <4> QED
        BY <1>7, <4>1
    <3> HIDE DEF T
    <3> QED
      BY <2>1, <3>1, <3>2, NumbersUpTo
  <2>7. f[m] = A[m]
    BY <2>1, <2>6
  <2> QED
    BY <1>3, <2>7 DEF f
<1>9. Sums(seeds, edges, c, A)
  BY <1>6, <1>7 DEF Sums, L, w
<1> QED
  BY <1>8, <1>9 DEF L, seeds

\* One more seed: t is what the score of one content is ahead of another one's
\* over n - 1 seeds, on the denominator D, a and b what its nearness is ahead
\* over n - 1 and over n seeds.
LEMMA OneMoreSeed ==
    ASSUME NEW n \in Nat \ {0}, NEW t \in Nat, NEW D \in Nat \ {0}, NEW a \in Nat, NEW b \in Nat,
           (n - 1) * t >= a * D
    PROVE  /\ t * n + (b - a) * D \in Nat
           /\ n * (t * n + (b - a) * D) >= b * (D * n)
           /\ t > 0 \/ b > 0 => t * n + (b - a) * D > 0
<1> DEFINE s == t * n + (b - a) * D
           u == n * t - a * D
<1>1. /\ n * t \in Nat /\ (n - 1) * t \in Nat /\ a * D \in Nat /\ b * D \in Nat
      /\ n * t = (n - 1) * t + t /\ t * n = n * t
      /\ (b - a) * D = b * D - a * D
  OBVIOUS
<1>2. u \in Nat /\ u >= t /\ s = u + b * D
  BY <1>1
<1>3. b > 0 => b * D > 0
  BY <1>1
<1>4. n * s = n * u + b * (D * n) /\ n * u \in Nat /\ b * (D * n) \in Nat
  <2> HIDE DEF u, s
  <2> QED
    BY <1>2
<1> HIDE DEF u, s
<1>5. /\ s \in Nat /\ n * s >= b * (D * n)
      /\ t > 0 \/ b > 0 => s > 0
  BY <1>1, <1>2, <1>3, <1>4
<1> QED
  BY <1>5 DEF s

\* Of two contents, the one that has no less to do with the first n seeds for
\* every n, and more for some n, has the greater score.
LEMMA NearerScoresMore ==
    ASSUME NEW seeds \in Seq(Content), NEW relations, NEW c, NEW d,
           \A n \in 1..Len(seeds) : /\ Weight(seeds, relations, c, n) \in Nat
                                    /\ Weight(seeds, relations, d, n) \in Nat,
           NEW f, Scores(seeds, relations, c, f), NEW g, Scores(seeds, relations, d, g),
           NEW A, Sums(seeds, relations, c, A), NEW B, Sums(seeds, relations, d, B),
           \A n \in 1..Len(seeds) : A[n] >= B[n],
           \E n \in 1..Len(seeds) : A[n] > B[n]
    PROVE  Exceeds(f[Len(seeds)], g[Len(seeds)])
<1> DEFINE L == Len(seeds)
           v(n) == Weight(seeds, relations, c, n)
           w(n) == Weight(seeds, relations, d, n)
           t(n) == f[n].num - g[n].num
           a(n) == A[n] - B[n]
           Ahead(n) == /\ f[n].den = g[n].den /\ t(n) \in Nat /\ n * t(n) >= a(n) * f[n].den
                       /\ (\E i \in 1..n : a(i) > 0) => t(n) > 0
           T == {n \in 0..L : Ahead(n)}
<1>1. L \in Nat
  BY LenProperties
<1>2. \A n \in 1..L : v(n) \in Nat /\ w(n) \in Nat
  OBVIOUS
<1> HIDE DEF L, v, w
<1>3. \A n \in 0..L : /\ f[n].num \in Nat /\ f[n].den \in Nat \ {0}
                      /\ g[n].num \in Nat /\ g[n].den \in Nat \ {0}
                      /\ A[n] \in Nat /\ B[n] \in Nat
  <2> SUFFICES ASSUME NEW n \in 0..L
               PROVE  f[n] \in Fractions /\ g[n] \in Fractions /\ A[n] \in Nat /\ B[n] \in Nat
    BY DEF Fractions
  <2> QED
    BY DEF Scores, Sums, L
<1>4. f[0] = Zero /\ g[0] = Zero /\ A[0] = 0 /\ B[0] = 0
  BY DEF Scores, Sums
<1>5. \A n \in 0..L : a(n) \in Nat
  <2> SUFFICES ASSUME NEW n \in 0..L PROVE a(n) \in Nat
    OBVIOUS
  <2>1. A[n] >= B[n]
    BY <1>1, <1>4 DEF L
  <2> QED
    BY <1>3, <2>1
<1>6. \A n \in 1..L : /\ f[n] = Plus(f[n - 1], [num |-> v(n), den |-> n])
                      /\ g[n] = Plus(g[n - 1], [num |-> w(n), den |-> n])
                      /\ A[n] = A[n - 1] + v(n) /\ B[n] = B[n - 1] + w(n)
  BY DEF Scores, Sums, L, v, w
<1>7. 0 \in T
  BY <1>1, <1>4 DEF Zero
<1>8. ASSUME NEW n \in 1..L, n - 1 \in T PROVE n \in T
  <2>1. PICK m \in 0..L : m = n - 1
    BY <1>1
  <2>2. n \in Nat \ {0} /\ n \in 0..L /\ Ahead(m)
    BY <1>1, <1>8, <2>1
  <2> DEFINE D == f[m].den
             P == f[m].num
             Q == g[m].num
             x == P - Q
             y == a(m)
             z == a(n)
  <2>3. /\ D \in Nat \ {0} /\ g[m].den = D /\ P \in Nat /\ Q \in Nat
        /\ x \in Nat /\ (n - 1) * x >= y * D
    BY <1>3, <2>1, <2>2
  <2>4. y \in Nat /\ z \in Nat
    BY <1>5, <2>2
  <2>5. v(n) \in Nat /\ w(n) \in Nat
    BY <1>2
  <2>6. f[n].num = P * n + v(n) * D /\ f[n].den = D * n
    <3>1. f[n] = Plus(f[m], [num |-> v(n), den |-> n])
      BY <1>6, <2>1
    <3> QED
      BY <2>3, <3>1 DEF Plus
  <2>7. g[n].num = Q * n + w(n) * D /\ g[n].den = D * n
    <3>1. g[n] = Plus(g[m], [num |-> w(n), den |-> n])
      BY <1>6, <2>1
    <3> QED
      BY <2>3, <3>1 DEF Plus
  <2>8. z - y = v(n) - w(n)
    <3>1. A[n] = A[m] + v(n) /\ B[n] = B[m] + w(n)
      BY <1>6, <2>1
    <3>2. A[m] \in Nat /\ B[m] \in Nat
      BY <1>3
    <3> QED
      BY <2>5, <3>1, <3>2
  <2>9. (\E i \in 1..m : a(i) > 0) => x > 0
    BY <2>2
  <2> HIDE DEF D, P, Q, y, z, a
  <2>10. t(n) = x * n + (z - y) * D
    <3>1. t(n) = (P * n + v(n) * D) - (Q * n + w(n) * D)
      BY <2>6, <2>7
    <3>2. P * n \in Nat /\ Q * n \in Nat /\ v(n) * D \in Nat /\ w(n) * D \in Nat
      BY <2>2, <2>3, <2>5, Products
    <3>3. (P - Q) * n = P * n - Q * n
      BY <2>2, <2>3
    <3>4. (v(n) - w(n)) * D = v(n) * D - w(n) * D
      BY <2>3, <2>5
    <3>5. x * n + (z - y) * D = (P * n - Q * n) + (v(n) * D - w(n) * D)
      BY <2>8, <3>3, <3>4
    <3> HIDE DEF t, x
    <3> QED
      BY <3>1, <3>2, <3>5
  <2> HIDE DEF x, t
  <2>11. /\ x * n + (z - y) * D \in Nat
         /\ n * (x * n + (z - y) * D) >= z * (D * n)
         /\ x > 0 \/ z > 0 => x * n + (z - y) * D > 0
    BY <2>2, <2>3, <2>4, OneMoreSeed
  <2>12. t(n) \in Nat /\ n * t(n) >= z * f[n].den /\ (x > 0 \/ z > 0 => t(n) > 0)
    BY <2>6, <2>10, <2>11
  <2>13. ASSUME NEW i \in 1..n, a(i) > 0 PROVE t(n) > 0
    <3>1. CASE i = n
      BY <2>12, <2>13, <3>1 DEF z
    <3>2. CASE i # n
      <4>1. i \in 1..m
        BY <1>1, <2>1, <3>2
      <4> QED
        BY <2>9, <2>12, <2>13, <4>1
    <3> QED
      BY <3>1, <3>2
  <2>14. Ahead(n)
    BY <2>6, <2>7, <2>12, <2>13 DEF z
  <2> HIDE DEF Ahead
  <2> QED
    BY <2>2, <2>14
<1>9. Ahead(L)
  <2> HIDE DEF T
  <2>1. \A n \in 0..L : n \in T
    BY <1>1, <1>7, <1>8, NumbersUpTo
  <2>2. L \in T
    BY <1>1, <2>1
  <2> QED
    BY <2>2 DEF T
<1>10. L \in 0..L /\ \E i \in 1..L : a(i) > 0
  <2>1. PICK n \in 1..L : A[n] > B[n]
    BY DEF L
  <2>2. a(n) > 0
    BY <1>1, <1>3, <2>1
  <2> QED
    BY <1>1, <2>2
<1>11. /\ f[L].num > g[L].num /\ f[L].den = g[L].den
       /\ f[L].num \in Nat /\ g[L].num \in Nat /\ g[L].den \in Nat /\ g[L].den # 0
  <2>1. t(L) > 0 /\ f[L].den = g[L].den
    BY <1>9, <1>10
  <2>2. f[L].num \in Nat /\ g[L].num \in Nat /\ g[L].den \in Nat /\ g[L].den # 0
    BY <1>3, <1>10
  <2> QED
    BY <2>1, <2>2
<1>12. f[L].num * g[L].den > g[L].num * g[L].den
  BY <1>11, Scaling
<1> QED
  BY <1>11, <1>12 DEF Exceeds, L

----------------------------------------------------------------------------
(* What searches are ranked by *)

\* The retrievals of a hybrid request, and their fusion.
Fused ==
    /\ found.lexical \in Lists(scope, LexicalK) /\ found.vector \in Lists(scope, VectorK)
    /\ fused \in fuse(found.lexical, found.vector, candidate_limit)

\* The relationships, the related contents and the pool.
Expanded ==
    /\ edges \in [Pairs(Seeds(fused)) -> EdgeScores \cup {0}]
    /\ \E near \in aggregate(Seeds(fused), edges) :
        /\ graph \in Only(near, Shown(near))
        /\ \E new \in Only(graph, Range(graph) \ Range(fused)) :
            pool = build(fused, new, candidate_limit)

RankingsSound ==
    /\ pc = "vector" /\ request.kind # "vector" => found.lexical \in Lists(scope, LexicalK)
    /\ pc \in {"expand", "eligibility"} => Fused
    /\ pc = "eligibility" => Expanded
    /\ pc # "idle" /\ request.kind = "global" => scope = Content

\* A request that arrives may show everything, unless it is a workspace's.
LEMMA ArrivalIsRanked == RankingsSound /\ Arrival => RankingsSound'
<1> SUFFICES ASSUME RankingsSound, Arrival PROVE RankingsSound'
  OBVIOUS
<1>1. PICK kind \in Kinds, top_k \in TopKs :
        \/ \E visible \in SUBSET Content : begin(kind, top_k, visible)
        \/ kind = "workspace" /\ nothing_visible(top_k)
        \/ begin_fails(kind, top_k)
  BY DEF Arrival
<1>2. /\ request' = [kind |-> kind, top_k |-> top_k]
      /\ kind = "global" => scope' = Content
      /\ pc' \in {"lexical", "vector", "answered"}
      /\ pc' = "vector" => kind = "vector"
  BY <1>1 DEF begin, nothing_visible, begin_fails, Begin, Answer
<1> QED
  BY <1>2 DEF RankingsSound

\* The retrievals and the expansion leave what the rankings are made of.
LEMMA RetrievalIsRanked ==
    SearchSound /\ RankingsSound /\ (search_lexical \/ search_vector \/ expand) => RankingsSound'
<1> SUFFICES ASSUME SearchSound, RankingsSound, search_lexical \/ search_vector \/ expand
             PROVE  RankingsSound'
  OBVIOUS
<1>1. found \in [lexical : Seq(Content), vector : Seq(Content)]
  BY DEF SearchSound, Types
<1>2. CASE search_lexical
  <2>1. PICK list \in Lists(scope, LexicalK) : found' = [found EXCEPT !.lexical = list]
    BY <1>2 DEF search_lexical
  <2>2. pc = "lexical" /\ pc' = "vector" /\ UNCHANGED <<request, scope>>
    BY <1>2 DEF search_lexical, Continue
  <2>3. found'.lexical \in Lists(scope, LexicalK)
    BY <1>1, <2>1
  <2> QED
    BY <2>2, <2>3 DEF RankingsSound
<1>3. CASE search_vector
  <2>1. PICK list \in Lists(scope, VectorK) :
            /\ found' = [found EXCEPT !.vector = list]
            /\ fused' \in fuse(found.lexical, list, candidate_limit)
    BY <1>3 DEF search_vector, search_candidates
  <2>2. pc = "vector" /\ request.kind # "vector" /\ pc' = "expand" /\ UNCHANGED <<request, scope>>
    BY <1>3 DEF search_vector, Continue
  <2>3. found'.lexical = found.lexical /\ found'.vector = list
    BY <1>1, <2>1
  <2>4. Fused'
    BY <2>1, <2>2, <2>3 DEF RankingsSound, Fused, candidate_limit
  <2> QED
    BY <2>2, <2>4 DEF RankingsSound
<1>4. CASE expand
  <2>1. pc = "expand" /\ pc' = "eligibility" /\ UNCHANGED <<request, scope, found, fused>>
    BY <1>4 DEF expand, Continue
  <2>2. Fused'
    BY <2>1 DEF RankingsSound, Fused, candidate_limit
  <2>3. Expanded'
    BY <1>4, <2>1 DEF expand, Expanded, Shown, candidate_limit
  <2> QED
    BY <2>1, <2>2, <2>3 DEF RankingsSound
<1> QED
  BY <1>2, <1>3, <1>4

\* No other step does more than leave a request to its further steps.
LEMMA OthersAreRanked ==
    ASSUME RankingsSound,
           \/ pc' \in {"hydrate", "documents", "rerank", "answered"} /\ pc # "idle"
                /\ UNCHANGED <<request, scope>>
           \/ pc' = "idle"
           \/ UNCHANGED vars
    PROVE  RankingsSound'
<1>1. CASE pc' \in {"hydrate", "documents", "rerank", "answered"} /\ pc # "idle"
           /\ UNCHANGED <<request, scope>>
  BY <1>1 DEF RankingsSound
<1>2. CASE pc' = "idle"
  BY <1>2 DEF RankingsSound
<1>3. CASE UNCHANGED vars
  BY <1>3 DEF RankingsSound, Fused, Expanded, Shown, candidate_limit, vars, working
<1> QED
  BY <1>1, <1>2, <1>3

\* Until its candidates are filtered, a search has the lists its rankings are
\* made of: what the theorems about rankings rest on.
THEOREM AlwaysRanked == Spec => []RankingsSound
<1>1. Init => RankingsSound
  BY DEF Init, RankingsSound
<1>2. SearchSound /\ RankingsSound /\ [Next]_vars => RankingsSound'
  <2> SUFFICES ASSUME SearchSound, RankingsSound, [Next]_vars PROVE RankingsSound'
    OBVIOUS
  <2>1. CASE \/ search_vector_only \/ filter_eligible \/ nothing_eligible \/ read_documents
             \/ rerank \/ hydrate \/ hydrate_vector
    <3>1. /\ pc' \in {"hydrate", "documents", "rerank", "answered"} /\ pc # "idle"
          /\ UNCHANGED <<request, scope>>
      BY <2>1 DEF search_vector_only, filter_eligible, nothing_eligible, read_documents,
                  rerank, hydrate, hydrate_vector, Continue, Answer
    <3> QED
      BY <3>1, OthersAreRanked
  <2>2. CASE \/ lexical_fails \/ vector_fails \/ expansion_fails \/ pipeline_fails
             \/ invalid_response \/ provider_fails \/ hydration_fails
    <3>1. pc' = "answered" /\ pc # "idle" /\ UNCHANGED <<request, scope>>
      BY <2>2 DEF lexical_fails, vector_fails, expansion_fails, pipeline_fails,
                  invalid_response, provider_fails, hydration_fails, Fail, Answer
    <3> QED
      BY <3>1, OthersAreRanked
  <2>3. CASE end \/ UNCHANGED vars
    <3>1. pc' = "idle" \/ UNCHANGED vars
      BY <2>3 DEF end
    <3> QED
      BY <3>1, OthersAreRanked
  <2> QED
    BY <2>1, <2>2, <2>3, ArrivalIsRanked, RetrievalIsRanked DEF Next, Step
<1> QED
  BY <1>1, <1>2, AlwaysSound, PTL DEF Spec

\* The lists of a search whose candidates have been expanded.
LEMMA ListsOfSearch ==
    ASSUME SearchSound, Fused
    PROVE  /\ found.lexical \in Seq(Content) /\ IsInjective(found.lexical)
           /\ found.vector \in Seq(Content) /\ IsInjective(found.vector)
           /\ fused \in Seq(Content) /\ IsInjective(fused) /\ Len(fused) <= candidate_limit
<1>1. scope \in SUBSET Content /\ candidate_limit \in Nat
  BY LimitIsNat DEF SearchSound, Types
<1>2. /\ found.lexical \in Seq(Content) /\ IsInjective(found.lexical)
      /\ found.vector \in Seq(Content) /\ IsInjective(found.vector)
  BY <1>1, ListsType, SearchAssumption, SeqMonotonic DEF Fused
<1> DEFINE l == found.lexical
           v == found.vector
           F == Range(l) \cup Range(v)
           score == [x \in F |-> FusedScore(l, v, x)]
<1>3. F \in SUBSET Content
  BY <1>2, RangeIsFinite
<1>4. PICK t \in Ranked(F, score) : fused = Part(t, 1, candidate_limit)
  BY DEF Fused, fuse
<1>5. \A x \in F : score[x] = FusedScore(l, v, x)
  OBVIOUS
<1> HIDE DEF F, score
<1>6. \A x \in F : score[x] \in Fractions
  BY <1>2, <1>3, <1>5, ContributionType, PlusType DEF FusedScore
<1>7. t \in Seq(F) /\ IsInjective(t)
  BY <1>3, <1>4, <1>6, RankedOrder
<1>8. t \in Seq(Content)
  BY <1>3, <1>7, SeqMonotonic
<1>9. fused \in Seq(Content) /\ IsInjective(fused) /\ Len(fused) = Least(candidate_limit, Len(t))
  BY <1>1, <1>4, <1>7, <1>8, Cut
<1>10. Len(fused) <= candidate_limit
  BY <1>1, <1>8, <1>9, LenProperties DEF Least
<1> QED
  BY <1>2, <1>9, <1>10

\* What is related to the seeds: a cut of a list of all their neighbours, in
\* the order of their scores.
LEMMA AggregateOrder ==
    ASSUME NEW seeds \in Seq(Content), NEW relations \in [Pairs(seeds) -> Nat],
           NEW near \in aggregate(seeds, relations)
    PROVE  \E t : /\ t \in Seq(Content) /\ IsInjective(t)
                  /\ Range(t) = Neighbors(seeds, relations)
                  /\ near = Part(t, 1, GraphLimit)
                  /\ \A c, d \in Range(t) :
                        Exceeds(GraphScore(seeds, relations, c), GraphScore(seeds, relations, d))
                            => NotBehind(t, c, d)
<1> DEFINE N == Neighbors(seeds, relations)
           score == [c \in N |-> GraphScore(seeds, relations, c)]
<1>1. N \in SUBSET Content /\ \A c \in N : c \in Content \ Range(seeds)
  BY DEF Neighbors
<1>2. PICK t \in Ranked(N, score) : near = Part(t, 1, GraphLimit)
  BY DEF aggregate
<1>3. \A c \in N : score[c] = GraphScore(seeds, relations, c)
  OBVIOUS
<1> HIDE DEF N, score
<1>4. ASSUME NEW c \in N PROVE score[c] \in Fractions
  <2>1. PICK f : Scores(seeds, relations, c, f) /\ GraphScore(seeds, relations, c) = f[Len(seeds)]
    BY <1>1, GraphScoreIs
  <2>2. f \in [0..Len(seeds) -> Fractions] /\ Len(seeds) \in 0..Len(seeds)
    BY <2>1, LenProperties DEF Scores
  <2> QED
    BY <1>3, <2>1, <2>2
<1>5. /\ t \in Seq(N) /\ IsInjective(t) /\ Range(t) = N
      /\ \A c, d \in N : Exceeds(score[c], score[d]) => Position(t, c) < Position(t, d)
  BY <1>1, <1>2, <1>4, RankedOrder
<1>6. t \in Seq(Content)
  BY <1>1, <1>5, SeqMonotonic
<1>7. ASSUME NEW c \in N, NEW d \in N, Exceeds(score[c], score[d]) PROVE NotBehind(t, c, d)
  <2>1. Position(t, c) < Position(t, d)
    BY <1>5, <1>7
  <2>2. Position(t, c) \in 1..Len(t) /\ Position(t, d) \in 1..Len(t) /\ Len(t) \in Nat
    BY <1>5, PositionType, LenProperties
  <2> QED
    BY <1>5, <2>1, <2>2 DEF NotBehind
<1> QED
  BY <1>2, <1>3, <1>5, <1>6, <1>7 DEF N

\* A content that is ahead of another one in the lexical or in the vector
\* results, and behind it in neither, is not behind it in the fusion
\* (ReciprocalRankFusion.fuse), nor cut off before it.
THEOREM FusionsRespectLists == Spec => []FusionRespectsLists
<1>1. SearchSound /\ RankingsSound => FusionRespectsLists
  <2> SUFFICES ASSUME SearchSound, RankingsSound, pc = "expand",
                      NEW c \in Range(found.lexical) \cup Range(found.vector),
                      NEW d \in Range(found.lexical) \cup Range(found.vector),
                      Place(found.lexical, c) <= Place(found.lexical, d),
                      Place(found.vector, c) <= Place(found.vector, d)
               PROVE  NotBehind(fused, c, d)
    BY DEF FusionRespectsLists
  <2>1. Fused
    BY DEF RankingsSound
  <2> DEFINE l == found.lexical
             v == found.vector
  <2>2. /\ l \in Seq(Content) /\ IsInjective(l) /\ v \in Seq(Content) /\ IsInjective(v)
        /\ fused \in fuse(l, v, candidate_limit) /\ candidate_limit \in Nat
    BY <2>1, ListsOfSearch, LimitIsNat DEF Fused
  <2>3. /\ c \in Range(l) \cup Range(v) /\ d \in Range(l) \cup Range(v)
        /\ Place(l, c) <= Place(l, d) /\ Place(v, c) <= Place(v, d)
    OBVIOUS
  <2> HIDE DEF l, v
  <2> QED
    BY <2>2, <2>3, FusionOrder
<1> QED
  BY <1>1, AlwaysSound, AlwaysRanked, PTL

\* The lists of a pool, and that they have nothing in common.
LEMMA ListsOfPool ==
    ASSUME SearchSound, Fused, Expanded
    PROVE  /\ fused \in Seq(Content) /\ IsInjective(fused) /\ Len(fused) <= candidate_limit
           /\ Seeds(fused) \in Seq(Content) /\ IsInjective(Seeds(fused))
           /\ Range(Seeds(fused)) \subseteq Range(fused)
           /\ Len(Seeds(fused)) = Least(MaxSeeds, Len(fused))
           /\ edges \in [Pairs(Seeds(fused)) -> Nat]
           /\ graph \in Seq(Content) /\ IsInjective(graph)
           /\ candidate_limit \in Nat
<1>1. fused \in Seq(Content) /\ IsInjective(fused) /\ Len(fused) <= candidate_limit
  BY ListsOfSearch
<1>2. MaxSeeds \in Nat
  BY RankAssumption
<1> DEFINE s == Seeds(fused)
<1>3. s = Part(fused, 1, MaxSeeds)
  BY DEF Seeds
<1> HIDE DEF s
<1>4. /\ s \in Seq(Content) /\ IsInjective(s) /\ Range(s) \subseteq Range(fused)
      /\ Len(s) = Least(MaxSeeds, Len(fused))
  BY <1>1, <1>2, <1>3, Cut
<1>5. EdgeScores \cup {0} \subseteq Nat
  BY SearchAssumption
<1>6. edges \in [Pairs(s) -> Nat]
  BY <1>5 DEF Expanded, s
<1>7. PICK near \in aggregate(Seeds(fused), edges) : graph \in Only(near, Shown(near))
  BY DEF Expanded
<1>8. near \in Seq(Content)
  BY AggregateType
<1>9. graph \in Seq(Content) /\ IsInjective(graph)
  BY <1>7, <1>8, OnlyType
<1> QED
  BY <1>1, <1>4, <1>6, <1>9, LimitIsNat DEF s

\* What the pool is fair to: the n results of the fusion and the m related
\* contents that are left of the kept ones.
LEMMA PoolSharesAreKept ==
    ASSUME SearchSound, Fused, Expanded
    PROVE  PoolIsFair
<1>1. /\ fused \in Seq(Content) /\ IsInjective(fused)
      /\ graph \in Seq(Content) /\ IsInjective(graph) /\ candidate_limit \in Nat
  BY ListsOfPool
<1>2. PICK near \in aggregate(Seeds(fused), edges) :
        \E new \in Only(graph, Range(graph) \ Range(fused)) :
            pool = build(fused, new, candidate_limit)
  BY DEF Expanded
<1>3. PICK new \in Only(graph, Range(graph) \ Range(fused)) :
        pool = build(fused, new, candidate_limit)
  BY <1>2
<1> DEFINE R == Range(graph) \ Range(fused)
<1>4. /\ new \in Seq(Content) /\ IsInjective(new)
      /\ Range(new) = R /\ Len(new) = Cardinality(R)
  <2>1. Range(graph) \cap R = R
    OBVIOUS
  <2>2. new \in Only(graph, R)
    BY <1>3
  <2> HIDE DEF R
  <2>3. new \in Seq(Content) /\ IsInjective(new)
    BY <1>1, <2>2, OnlyListing
  <2>4. Range(new) = Range(graph) \cap R
    BY <1>1, <2>2, OnlyListing
  <2>5. Len(new) = Cardinality(Range(graph) \cap R)
    BY <1>1, <2>2, OnlyListing
  <2> QED
    BY <2>1, <2>3, <2>4, <2>5
<1>5. Range(new) \cap Range(fused) = {}
  BY <1>4
<1> HIDE DEF R
<1>6. /\ Len(pool) = Least(horizon(candidate_limit), Len(fused) + Len(new))
      /\ Cardinality(Range(pool) \cap Range(fused))
            >= Least(horizon(candidate_limit) - GraphBudget(candidate_limit), Len(fused))
      /\ Cardinality(Range(pool) \ Range(fused)) >= Least(GraphBudget(candidate_limit), Len(new))
      /\ \A c, d \in Range(fused) : NotBehind(fused, c, d) => NotBehind(pool, c, d)
      /\ \A c, d \in Range(new) : NotBehind(new, c, d) => NotBehind(pool, c, d)
  BY <1>1, <1>3, <1>4, <1>5, BuildIsFair
<1>7. Shares(Len(fused), Cardinality(R))
  BY <1>4, <1>6 DEF Shares, FromRrf, FromGraph
<1>8. ASSUME NEW c \in R, NEW d \in R, NotBehind(graph, c, d) PROVE NotBehind(pool, c, d)
  <2>1. new \in Only(graph, R)
    BY <1>3 DEF R
  <2>2. NotBehind(new, c, d)
    BY <1>1, <1>8, <2>1, OnlyKeepsOrder
  <2> QED
    BY <1>4, <1>6, <2>2
<1> QED
  BY <1>6, <1>7, <1>8 DEF PoolIsFair, R

\* The pool (PreRerankingCandidatePool.build) has no empty place while a source
\* has candidates left, each source has its share, and within each nobody is
\* passed over.
THEOREM PoolsAreFair == Spec => []PoolIsFair
<1>1. SearchSound /\ RankingsSound => PoolIsFair
  <2>1. CASE pc = "eligibility"
    BY <2>1, PoolSharesAreKept DEF RankingsSound
  <2>2. CASE pc # "eligibility"
    BY <2>2 DEF PoolIsFair
  <2> QED
    BY <2>1, <2>2
<1> QED
  BY <1>1, AlwaysSound, AlwaysRanked, PTL

\* A visible neighbour that has no less to do with the first n seeds than
\* another one for every n, and more for some n, is not behind it in what
\* GraphCandidateAggregator.aggregate keeps, nor cut off before it.
THEOREM GraphsPreferNearSeeds == Spec => []GraphPrefersNearSeeds
<1>1. SearchSound /\ RankingsSound => GraphPrefersNearSeeds
  <2> SUFFICES ASSUME SearchSound, Fused, Expanded,
                      NEW c \in Neighbors(Seeds(fused), edges) \cap scope,
                      NEW d \in Neighbors(Seeds(fused), edges) \cap scope,
                      \A n \in DOMAIN Seeds(fused) : Nearness(c, n) >= Nearness(d, n),
                      \E n \in DOMAIN Seeds(fused) : Nearness(c, n) > Nearness(d, n)
               PROVE  NotBehind(graph, c, d)
    BY DEF GraphPrefersNearSeeds, RankingsSound
  <2> DEFINE seeds == Seeds(fused)
             L == Len(seeds)
  <2>1. seeds \in Seq(Content) /\ edges \in [Pairs(seeds) -> Nat]
    BY ListsOfPool
  <2>2. L \in Nat /\ DOMAIN seeds = 1..L /\ \A n \in 1..L : n \in 0..L
    BY <2>1, LenProperties
  <2>3. c \in Content \ Range(seeds) /\ d \in Content \ Range(seeds)
    BY DEF Neighbors
  <2>4. PICK A : Sums(seeds, edges, c, A) /\ \A n \in 0..L : Nearness(c, n) = A[n]
    BY <2>1, <2>3, NearnessIs
  <2>5. PICK B : Sums(seeds, edges, d, B) /\ \A n \in 0..L : Nearness(d, n) = B[n]
    BY <2>1, <2>3, NearnessIs
  <2>6. PICK f : Scores(seeds, edges, c, f) /\ GraphScore(seeds, edges, c) = f[L]
    BY <2>1, <2>3, GraphScoreIs
  <2>7. PICK g : Scores(seeds, edges, d, g) /\ GraphScore(seeds, edges, d) = g[L]
    BY <2>1, <2>3, GraphScoreIs
  <2>8. (\A n \in 1..L : A[n] >= B[n]) /\ (\E n \in 1..L : A[n] > B[n])
    BY <2>2, <2>4, <2>5
  <2>9. \A n \in 1..L : Weight(seeds, edges, c, n) \in Nat /\ Weight(seeds, edges, d, n) \in Nat
    BY <2>1, <2>3, WeightType
  <2> HIDE DEF seeds
  <2>10. Exceeds(GraphScore(seeds, edges, c), GraphScore(seeds, edges, d))
    BY <2>1, <2>4, <2>5, <2>6, <2>7, <2>8, <2>9, NearerScoresMore
  <2>11. PICK near \in aggregate(seeds, edges) : graph \in Only(near, Shown(near))
    BY DEF Expanded, seeds
  <2>12. PICK t : /\ t \in Seq(Content) /\ IsInjective(t) /\ Range(t) = Neighbors(seeds, edges)
                  /\ near = Part(t, 1, GraphLimit)
                  /\ \A x, y \in Range(t) :
                        Exceeds(GraphScore(seeds, edges, x), GraphScore(seeds, edges, y))
                            => NotBehind(t, x, y)
    BY <2>1, AggregateOrder
  <2>13. NotBehind(t, c, d)
    BY <2>10, <2>12 DEF seeds
  <2>14. NotBehind(near, c, d) /\ near \in Seq(Content)
    BY <2>12, <2>13, RankAssumption, CutKeepsOrder, Cut
  <2> SUFFICES ASSUME d \in Range(graph) PROVE NotBehind(graph, c, d)
    BY DEF NotBehind
  <2>15. d \in Range(near)
    <3>1. Range(graph) = Range(near) \cap Shown(near)
      BY <2>11, <2>14, OnlyListing
    <3> QED
      BY <3>1
  <2>16. c \in Shown(near)
    BY <2>14, <2>15 DEF NotBehind, Shown
  <2> QED
    BY <2>11, <2>14, <2>16, OnlyKeepsOrder
<1> QED
  BY <1>1, AlwaysSound, AlwaysRanked, PTL
\* A set of n contents of which as many are seeds as none leaves enough others,
\* when n is in proportion: k contents were found, s of them are seeds, and m of
\* the n were not found.
LEMMA EnoughAreLeft ==
    ASSUME NEW k \in Nat, k <= candidate_limit, k # 0, NEW m \in Nat,
           m >= GraphLimit - (k - Least(MaxSeeds, k))
    PROVE  m >= GraphBudget(candidate_limit) /\ k + m >= horizon(candidate_limit)
<1> DEFINE C == candidate_limit
           H == horizon(candidate_limit)
           g == GraphBudget(candidate_limit)
<1>1. C \in Nat /\ H \in Nat /\ g \in Nat
  BY LimitIsNat, BudgetType
<1>2. MaxSeeds \in Nat \ {0} /\ GraphLimit \in Nat
  BY RankAssumption
<1>3. GraphLimit >= Most(C - MaxSeeds, 0) + g /\ GraphLimit + 1 >= H
  BY ProportionAssumption
<1> HIDE DEF C, H, g
<1>4. k <= C
  BY DEF C
<1>5. m >= g
  BY <1>1, <1>2, <1>3, <1>4 DEF Most, Least
<1>6. k + m >= H
  BY <1>1, <1>2, <1>3 DEF Least
<1> QED
  BY <1>5, <1>6 DEF H, g, C

\* What was cut off the related contents is not missed in the pool of a request
\* that may show everything.
LEMMA EnoughAreKept ==
    ASSUME SearchSound, Fused, Expanded, scope = Content
    PROVE  \/ Cardinality(Range(graph) \ Range(fused)) = Cardinality(Related)
           \/ /\ Cardinality(Range(graph) \ Range(fused)) <= Cardinality(Related)
              /\ Cardinality(Range(graph) \ Range(fused)) >= GraphBudget(candidate_limit)
              /\ Len(fused) + Cardinality(Range(graph) \ Range(fused)) >= horizon(candidate_limit)
<1> DEFINE seeds == Seeds(fused)
           N == Neighbors(seeds, edges)
           F == Range(fused)
<1>1. /\ fused \in Seq(Content) /\ IsInjective(fused) /\ Len(fused) <= candidate_limit
      /\ seeds \in Seq(Content) /\ IsInjective(seeds) /\ Range(seeds) \subseteq F
      /\ Len(seeds) = Least(MaxSeeds, Len(fused)) /\ edges \in [Pairs(seeds) -> Nat]
  BY ListsOfPool
<1>2. PICK near \in aggregate(seeds, edges) : graph \in Only(near, Shown(near))
  BY DEF Expanded
<1>3. N \subseteq Content /\ N \cap Range(seeds) = {} /\ (N # {} => DOMAIN seeds # {})
  BY DEF Neighbors
<1>4. Related = N \ F
  BY <1>3 DEF Related
<1> HIDE DEF seeds
<1>5. PICK t : /\ t \in Seq(Content) /\ IsInjective(t) /\ Range(t) = N
               /\ near = Part(t, 1, GraphLimit)
  BY <1>1, <1>2, AggregateOrder
<1>6. /\ near \in Seq(Content) /\ IsInjective(near) /\ Range(near) \subseteq N
      /\ Len(near) = Least(GraphLimit, Len(t))
  BY <1>5, RankAssumption, Cut
<1> HIDE DEF N, F
<1>7. Range(graph) = Range(near)
  <2>1. Range(graph) = Range(near) \cap Shown(near)
    BY <1>2, <1>6, OnlyListing
  <2> QED
    BY <1>3, <1>6, <2>1 DEF Shown
<1>8. /\ IsFiniteSet(N) /\ Cardinality(N) = Len(t) /\ Len(t) \in Nat
      /\ IsFiniteSet(Range(near)) /\ Cardinality(Range(near)) = Len(near) /\ Len(near) \in Nat
  <2>1. IsFiniteSet(Range(t)) /\ Cardinality(Range(t)) = Len(t) /\ Len(t) \in Nat
    BY <1>5, ListCardinality, LenProperties
  <2>2. IsFiniteSet(Range(near)) /\ Cardinality(Range(near)) = Len(near) /\ Len(near) \in Nat
    BY <1>6, ListCardinality, LenProperties
  <2> QED
    BY <1>5, <2>1, <2>2
<1>9. /\ IsFiniteSet(F) /\ Cardinality(F) = Len(fused) /\ Len(fused) \in Nat
      /\ IsFiniteSet(Range(seeds)) /\ Cardinality(Range(seeds)) = Len(seeds) /\ Len(seeds) \in Nat
  <2>1. IsFiniteSet(F) /\ Cardinality(F) = Len(fused) /\ Len(fused) \in Nat
    BY <1>1, ListCardinality, LenProperties DEF F
  <2>2. IsFiniteSet(Range(seeds)) /\ Cardinality(Range(seeds)) = Len(seeds) /\ Len(seeds) \in Nat
    BY <1>1, ListCardinality, LenProperties
  <2> QED
    BY <2>1, <2>2
<1>10. Cardinality(Range(graph) \ F) <= Cardinality(Related)
  <2>1. Range(near) \ F \subseteq N \ F /\ IsFiniteSet(N \ F)
    BY <1>6, <1>8, FS_Difference
  <2> QED
    BY <1>4, <1>7, <2>1, FS_Subset
<1>11. CASE Len(t) <= GraphLimit
  <2>1. Cardinality(Range(near)) = Cardinality(N)
    BY <1>6, <1>8, <1>11, RankAssumption DEF Least
  <2>2. Range(near) = N
    BY <1>6, <1>8, <2>1, FS_Subset
  <2> QED
    BY <1>4, <1>7, <2>2 DEF F
<1>12. CASE ~(Len(t) <= GraphLimit)
  <2>1. Len(near) = GraphLimit /\ GraphLimit \in Nat /\ Len(t) # 0
    BY <1>6, <1>8, <1>12, RankAssumption DEF Least
  <2> DEFINE X == Range(near) \cap F
             Y == F \ Range(seeds)
             m == Cardinality(Range(near) \ F)
             x == Cardinality(X)
             y == Cardinality(Y)
  <2>2. X \subseteq Y
    BY <1>3, <1>6
  <2>3. IsFiniteSet(Y) /\ y = Cardinality(F) - Cardinality(F \cap Range(seeds))
    BY <1>9, FS_Difference
  <2>4. y = Len(fused) - Len(seeds)
    <3>1. F \cap Range(seeds) = Range(seeds)
      BY <1>1
    <3> QED
      BY <1>9, <2>3, <3>1
  <2>5. IsFiniteSet(X) /\ x <= y
    BY <2>2, <2>3, FS_Subset
  <2>6. IsFiniteSet(Range(near) \ F) /\ m = Cardinality(Range(near)) - x
    BY <1>8, FS_Difference
  <2>7. x \in Nat /\ y \in Nat /\ m \in Nat
    BY <2>3, <2>5, <2>6, FS_CardinalityType
  <2> HIDE DEF x, y, m, X, Y
  <2>8. m >= GraphLimit - (Len(fused) - Least(MaxSeeds, Len(fused)))
    <3>1. m = GraphLimit - x
      BY <1>8, <2>1, <2>6
    <3>2. x <= Len(fused) - Len(seeds)
      BY <2>4, <2>5
    <3>3. m >= GraphLimit - (Len(fused) - Len(seeds))
      BY <1>9, <2>1, <2>7, <3>1, <3>2
    <3> QED
      BY <1>1, <3>3
  <2>9. Len(fused) # 0
    <3>1. N # {}
      BY <1>8, <2>1, FS_EmptySet
    <3>2. Range(seeds) # {}
      BY <1>3, <3>1 DEF Range, seeds
    <3>3. F # {}
      BY <1>1, <3>2
    <3> QED
      BY <1>9, <3>3, FS_EmptySet
  <2>10. m >= GraphBudget(candidate_limit) /\ Len(fused) + m >= horizon(candidate_limit)
    BY <1>1, <1>9, <2>7, <2>8, <2>9, EnoughAreLeft
  <2> QED
    BY <1>7, <1>10, <2>10 DEF m, F
<1> QED
  BY <1>11, <1>12

\* The limit on related contents (GRAPH_RESULT_LIMIT), which counts contents
\* that were found as well, takes nothing from the pool of a request that may
\* show everything: the pool is as long, and its shares are as large, as with
\* all related contents.
THEOREM GraphLimitsAreEnough == Spec => []GraphLimitIsEnough
<1>1. SearchSound /\ RankingsSound => GraphLimitIsEnough
  <2> SUFFICES ASSUME SearchSound, Fused, Expanded, scope = Content, pc = "eligibility"
               PROVE  Shares(Len(fused), Cardinality(Related))
    BY DEF GraphLimitIsEnough, RankingsSound
  <2> DEFINE n == Len(fused)
             m == Cardinality(Range(graph) \ Range(fused))
             M == Cardinality(Related)
             H == horizon(candidate_limit)
             g == GraphBudget(candidate_limit)
  <2>1. Shares(n, m)
    BY PoolSharesAreKept DEF PoolIsFair
  <2>2. \/ m = M
        \/ m <= M /\ m >= g /\ n + m >= H
    BY EnoughAreKept, Zenon
  <2>3. CASE m = M
    BY <2>1, <2>3
  <2>4. CASE m <= M /\ m >= g /\ n + m >= H
    <3>1. H \in Nat /\ g \in Nat
      BY LimitIsNat, BudgetType
    <3>2. n \in Nat /\ m \in Nat
      <4>1. /\ fused \in Seq(Content) /\ graph \in Seq(Content)
        BY ListsOfPool
      <4>2. IsFiniteSet(Range(graph) \ Range(fused))
        BY <4>1, RangeIsFinite, FS_Difference
      <4> QED
        BY <4>1, <4>2, FS_CardinalityType, LenProperties
    <3>3. M \in Nat
      <4>1. Related \subseteq Content
        BY DEF Related, Neighbors
      <4> QED
        BY <4>1, ContentAssumption, FS_Subset, FS_CardinalityType
    <3> HIDE DEF n, m, M, H, g
    <3>4. Least(H, n + m) = Least(H, n + M) /\ Least(g, m) = Least(g, M)
      BY <2>4, <3>1, <3>2, <3>3 DEF Least
    <3> QED
      BY <2>1, <3>4 DEF Shares, H, g, n, m, M
  <2> QED
    BY <2>2, <2>3, <2>4
<1> QED
  BY <1>1, AlwaysSound, AlwaysRanked, PTL
=============================================================================
