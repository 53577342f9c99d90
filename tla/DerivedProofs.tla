--------------------------- MODULE DerivedProofs ---------------------------
(***************************************************************************)
(* Theorems about DerivedData, for any contents, requests, endpoints and   *)
(* scores.                                                                 *)
(***************************************************************************)
EXTENDS DerivedData, SequenceTheorems, FiniteSetTheorems, TLAPS

----------------------------------------------------------------------------
(* The invariant *)

Session ==
    [op: AllEvents \cup {"none"}, force: BOOLEAN, todo: Seq(Content),
     text: [Content -> Texts \cup {NONE}], status: [Content -> Statuses \cup {NONE}],
     row: EmbeddingRow \cup {NONE}, candidates: SUBSET Content,
     had: [Pairs -> RelationshipRow \cup {NONE}], lost: SUBSET Pairs]

\* A request that goes on at label with the values v its session has loaded,
\* when the contents have the texts t and the rows e of embeddings: it has
\* something to do, no text it has seen is newer than the present one, a
\* content it has seen processed is enriched, the row it has loaded exists, and
\* what it relates is enriched.
SessionSound(label, v, t, e) ==
    LET c == Head(v.todo) IN
    /\ v \in Session /\ label \in PCs
    /\ label # "idle" => v.todo # <<>>
    /\ \A d \in Content : v.text[d] = Enriched \/ v.status[d] = "processed" => t[d] = Enriched
    /\ label = "stale" => v.row # NONE
    /\ label \in {"stale", "flush", "call"} /\ v.row # NONE => e[c] # NONE
    /\ label \in {"candidates", "existing", "store"} => t[c] = Enriched
    /\ label \in {"existing", "store"} => \A d \in v.candidates : d # c /\ t[d] = Enriched

RowsSound ==
    /\ text \in [Content -> Texts]
    /\ status \in [Content -> Statuses]
    /\ embedding \in [Content -> EmbeddingRow \cup {NONE}]
    /\ overtaken \subseteq Content
    /\ links \in [Pairs -> RelationshipRow \cup {NONE}]
    /\ lock \in [Content -> Request \cup {NONE}]
    /\ \A c \in Content : status[c] = "processed" => text[c] = Enriched

SessionsSound ==
    /\ pc \in [Request -> PCs] /\ local \in [Request -> Session]
    /\ \A r \in Request : SessionSound(pc[r], local[r], text, embedding)

DerivedSound == RowsSound /\ SessionsSound /\ LinksAreJustified

\* No hash is ahead of its content's text, and a completed row has the hash of
\* the text of its vector, unless the vector has overtaken another.
VectorsSound ==
    \A c \in Content : embedding[c] # NONE =>
        /\ text[c] # Enriched => embedding[c].hash # Enriched
        /\ embedding[c].status = "completed" /\ c \notin overtaken
             => embedding[c].vector = embedding[c].hash

----------------------------------------------------------------------------
(* Orders *)

\* In a finite set with a strict total order R, the numbers of elements that
\* are ahead of each are 0, 1, 2 and so on, once each and in the same order.
LEMMA Ranks ==
    ASSUME NEW S, IsFiniteSet(S), NEW R,
           \A a, b \in S : a # b => <<a, b>> \in R \/ <<b, a>> \in R,
           \A a \in S : <<a, a>> \notin R,
           \A a, b, c \in S : <<a, b>> \in R /\ <<b, c>> \in R => <<a, c>> \in R,
           NEW rank, rank = [c \in S |-> Cardinality({d \in S : <<d, c>> \in R})]
    PROVE  /\ rank \in Bijection(S, 0..Cardinality(S) - 1)
           /\ \A a, b \in S : <<a, b>> \in R <=> rank[a] < rank[b]
<1> DEFINE ahead(c) == {d \in S : <<d, c>> \in R}
           n == Cardinality(S)
<1>1. n \in Nat
  BY FS_CardinalityType
<1>2. ASSUME NEW c \in S
      PROVE  /\ IsFiniteSet(ahead(c)) /\ Cardinality(ahead(c)) \in Nat
             /\ Cardinality(ahead(c)) <= n /\ Cardinality(ahead(c)) # n
  <2>1. ahead(c) \in SUBSET S /\ c \notin ahead(c)
    OBVIOUS
  <2> HIDE DEF ahead
  <2>2. IsFiniteSet(ahead(c)) /\ Cardinality(ahead(c)) <= n
    BY <2>1, FS_Subset
  <2>3. n = Cardinality(ahead(c)) => S = ahead(c)
    BY <2>1, FS_Subset
  <2> QED
    BY <2>1, <2>2, <2>3, FS_CardinalityType
<1>3. ASSUME NEW a \in S, NEW b \in S, <<a, b>> \in R
      PROVE  Cardinality(ahead(a)) < Cardinality(ahead(b))
  <2>1. ahead(a) \in SUBSET ahead(b) /\ a \in ahead(b) /\ a \notin ahead(a)
    BY <1>3
  <2>2. IsFiniteSet(ahead(b)) /\ Cardinality(ahead(a)) \in Nat /\ Cardinality(ahead(b)) \in Nat
    BY <1>2
  <2> HIDE DEF ahead
  <2>3. /\ Cardinality(ahead(a)) <= Cardinality(ahead(b))
        /\ Cardinality(ahead(b)) = Cardinality(ahead(a)) => ahead(b) = ahead(a)
    BY <2>1, <2>2, FS_Subset
  <2> QED
    BY <2>1, <2>2, <2>3
<1>4. \A c \in S : rank[c] = Cardinality(ahead(c))
  OBVIOUS
<1>5. DOMAIN rank = S /\ rank = [c \in S |-> rank[c]]
  OBVIOUS
<1> HIDE DEF ahead, n
<1>6. \A c \in S : rank[c] \in 0..n - 1
  BY <1>1, <1>2, <1>4
<1>7. \A a, b \in S : <<a, b>> \in R => rank[a] < rank[b]
  BY <1>3, <1>4
<1>8. \A a, b \in S : <<a, b>> \in R <=> rank[a] < rank[b]
  <2> SUFFICES ASSUME NEW a \in S, NEW b \in S, rank[a] < rank[b] PROVE <<a, b>> \in R
    BY <1>7
  <2>1. rank[a] \in Int /\ rank[b] \in Int
    BY <1>6
  <2>2. rank[a] # rank[b] /\ ~(rank[b] < rank[a])
    BY <2>1
  <2>3. a # b /\ <<b, a>> \notin R
    BY <1>7, <2>2
  <2> QED
    BY <2>3
<1>9. rank \in Injection(S, 0..n - 1)
  <2>1. rank \in [S -> 0..n - 1]
    BY <1>5, <1>6
  <2>2. ASSUME NEW a \in S, NEW b \in S, rank[a] = rank[b] PROVE a = b
    <3>1. rank[a] \in Int /\ rank[b] \in Int
      BY <1>6
    <3>2. <<a, b>> \notin R /\ <<b, a>> \notin R
      BY <1>7, <2>2, <3>1
    <3> QED
      BY <3>2
  <2> QED
    BY <2>1, <2>2 DEF Injection, IsInjective
<1>10. IsFiniteSet(0..n - 1) /\ Cardinality(0..n - 1) = n
  <2>1. n - 1 \in Int /\ 0 \in Int
    BY <1>1
  <2>2. IsFiniteSet(0..n - 1) /\ Cardinality(0..n - 1) = IF 0 > n - 1 THEN 0 ELSE n - 1 - 0 + 1
    BY <2>1, FS_Interval
  <2> QED
    BY <1>1, <2>2
<1>11. rank \in Surjection(S, 0..n - 1)
  BY <1>9, <1>10, FS_Injection DEF n
<1> QED
  BY <1>8, <1>9, <1>11 DEF Bijection, n

\* InOrder lists the contents of a set.
LEMMA InOrderType ==
    ASSUME NEW C \in SUBSET Content
    PROVE  InOrder(C) \in Seq(Content) /\ (C # {} => InOrder(C) # <<>>)
<1> DEFINE n == Cardinality(C)
           R == {p \in C \X C : p[1] < p[2]}
           rank == [c \in C |-> Cardinality({d \in C : <<d, c>> \in R})]
           first(i) == CHOOSE c \in C : rank[c] = i - 1
           s == [i \in 1..n |-> first(i)]
<1>1. C \subseteq Nat /\ IsFiniteSet(C)
  BY StoreAssumption, FS_Subset
<1>2. n \in Nat
  BY <1>1, FS_CardinalityType
<1>3. \A a, b \in C : <<a, b>> \in R <=> a < b
  OBVIOUS
<1>4. /\ \A a, b \in C : a # b => <<a, b>> \in R \/ <<b, a>> \in R
      /\ \A a \in C : <<a, a>> \notin R
      /\ \A a, b, c \in C : <<a, b>> \in R /\ <<b, c>> \in R => <<a, c>> \in R
  <2> HIDE DEF R
  <2> QED
    BY <1>1, <1>3
<1>5. rank = [c \in C |-> Cardinality({d \in C : <<d, c>> \in R})]
  OBVIOUS
<1> HIDE DEF rank, R, n
<1>6. /\ rank \in Bijection(C, 0..n - 1)
      /\ \A a, b \in C : <<a, b>> \in R <=> rank[a] < rank[b]
  BY <1>1, <1>4, <1>5, Ranks DEF n
<1>7. ASSUME NEW i \in 1..n PROVE first(i) \in C /\ rank[first(i)] = i - 1
  <2>1. i - 1 \in 0..n - 1
    BY <1>2
  <2>2. \E c \in C : rank[c] = i - 1
    BY <1>6, <2>1 DEF Bijection, Surjection
  <2> QED
    BY <2>2
<1> HIDE DEF first
<1>8. s \in [1..n -> C] /\ DOMAIN s = 1..n
  BY <1>7
<1>9. ASSUME NEW i \in 1..n, NEW j \in 1..n, i < j PROVE s[i] < s[j]
  <2>1. rank[first(i)] < rank[first(j)]
    BY <1>2, <1>7, <1>9
  <2>2. first(i) < first(j)
    BY <1>3, <1>6, <1>7, <2>1
  <2> QED
    BY <2>2
<1> HIDE DEF s
<1>10. InOrder(C) \in [1..n -> C]
  <2>1. \E l \in [1..n -> C] : \A i, j \in DOMAIN l : i < j => l[i] < l[j]
    BY <1>8, <1>9
  <2> QED
    BY <2>1 DEF InOrder, n
<1>11. InOrder(C) \in Seq(Content) /\ Len(InOrder(C)) = n
  <2>1. InOrder(C) \in Seq(C)
    BY <1>2, <1>10, SeqDef
  <2> QED
    BY <1>2, <1>10, <2>1, SeqMonotonic, LenProperties
<1>12. C # {} => n # 0
  BY <1>1, FS_EmptySet DEF n
<1> QED
  BY <1>11, <1>12, EmptySeq

----------------------------------------------------------------------------
(* Sessions *)

\* A session that has loaded nothing.
LEMMA NothingType ==
    /\ Nothing \in Session /\ Nothing.todo = <<>> /\ Nothing.row = NONE
    /\ Nothing.candidates = {} /\ Nothing.had \in [Pairs -> RelationshipRow \cup {NONE}]
    /\ \A d \in Content : Nothing.text[d] = NONE /\ Nothing.status[d] = NONE
<1>1. <<>> \in Seq(Content)
  BY EmptySeq
<1> QED
  BY <1>1 DEF Nothing, Session, AllEvents

\* After a commit or a rollback a session has only its list of contents left.
LEMMA ExpiredType ==
    ASSUME NEW v \in Session, NEW x, x = Expired(v)
    PROVE  /\ x \in Session /\ x.todo = v.todo /\ x.row = NONE /\ x.candidates = {}
           /\ \A d \in Content : x.text[d] = NONE /\ x.status[d] = NONE
<1>1. /\ v.op \in AllEvents \cup {"none"} /\ v.force \in BOOLEAN /\ v.todo \in Seq(Content)
  BY DEF Session
<1>2. x = [op |-> v.op, force |-> v.force, todo |-> v.todo,
           text |-> [c \in Content |-> NONE], status |-> [c \in Content |-> NONE],
           row |-> NONE, candidates |-> {}, had |-> [p \in Pairs |-> NONE], lost |-> {}]
  BY DEF Expired, Nothing
<1> QED
  BY <1>1, <1>2 DEF Session

\* What a session has loaded of a content it did not have is what is there now.
LEMMA LoadedType ==
    ASSUME RowsSound, NEW v \in Session, NEW c \in Content, NEW x, x = Loaded(v, c)
    PROVE  /\ x \in Session /\ x.todo = v.todo /\ x.row = v.row /\ x.candidates = v.candidates
           /\ \A d \in Content : x.text[d] \in {v.text[d], text[d]}
                                 /\ x.status[d] \in {v.status[d], status[d]}
<1>1. v.text \in [Content -> Texts \cup {NONE}] /\ v.status \in [Content -> Statuses \cup {NONE}]
  BY DEF Session
<1>2. text[c] \in Texts /\ status[c] \in Statuses
  BY DEF RowsSound
<1> DEFINE t == [v.text EXCEPT ![c] = text[c]]
           s == [v.status EXCEPT ![c] = status[c]]
<1>3. /\ t \in [Content -> Texts \cup {NONE}] /\ s \in [Content -> Statuses \cup {NONE}]
      /\ \A d \in Content : t[d] \in {v.text[d], text[d]} /\ s[d] \in {v.status[d], status[d]}
  BY <1>1, <1>2
<1>4. CASE v.status[c] # NONE
  BY <1>4 DEF Loaded
<1>5. CASE v.status[c] = NONE
  <2>1. x = [v EXCEPT !.text = t, !.status = s]
    BY <1>5 DEF Loaded
  <2> HIDE DEF t, s
  <2>2. x \in Session
    BY <1>3, <2>1 DEF Session
  <2>3. x.todo = v.todo /\ x.row = v.row /\ x.candidates = v.candidates /\ x.text = t /\ x.status = s
    BY <2>1 DEF Session
  <2> QED
    BY <1>3, <2>2, <2>3
<1> QED
  BY <1>4, <1>5

\* A list that is not empty has a first content, and others.
LEMMA ListType ==
    ASSUME NEW s \in Seq(Content), s # <<>>
    PROVE  Head(s) \in Content /\ Tail(s) \in Seq(Content) /\ (Len(s) # 1 => Tail(s) # <<>>)
<1>1. Head(s) \in Content /\ Tail(s) \in Seq(Content) /\ Len(s) \in Nat /\ Len(s) # 0
  BY HeadTailProperties, EmptySeq, LenProperties
<1>2. Len(s) # 1 => Len(Tail(s)) # 0
  BY <1>1, HeadTailProperties
<1>3. Tail(s) = <<>> => Len(Tail(s)) = 0
  BY <1>1, EmptySeq
<1> QED
  BY <1>1, <1>2, <1>3

\* No text is taken back, and no row of an embedding deleted.
Keeps(t, u, e, f) ==
    \A c \in Content : (t[c] = Enriched => u[c] = Enriched) /\ (e[c] # NONE => f[c] # NONE)

\* A session stays sound while nothing is taken back.
LEMMA SoundStays ==
    ASSUME NEW label, NEW v, NEW t, NEW u, NEW e, NEW f,
           Keeps(t, u, e, f), SessionSound(label, v, t, e)
    PROVE  SessionSound(label, v, u, f)
<1>1. v \in Session /\ label \in PCs /\ (label # "idle" => v.todo # <<>>)
  BY DEF SessionSound
<1>2. label # "idle" => Head(v.todo) \in Content
  BY <1>1, ListType DEF Session
<1>3. v.candidates \subseteq Content
  BY <1>1 DEF Session
<1> QED
  BY <1>1, <1>2, <1>3 DEF SessionSound, Keeps

\* A request that goes on soundly leaves all sessions sound.
LEMMA ContinueIsSound ==
    ASSUME SessionsSound, Keeps(text, text', embedding, embedding'),
           NEW r \in Request, NEW label, NEW v, Continue(r, label, v),
           SessionSound(label, v, text', embedding')
    PROVE  SessionsSound'
<1>1. v \in Session /\ label \in PCs
  BY DEF SessionSound
<1>2. pc' \in [Request -> PCs] /\ local' \in [Request -> Session]
  BY <1>1 DEF Continue, SessionsSound
<1>3. pc'[r] = label /\ local'[r] = v
  BY DEF Continue, SessionsSound
<1>4. ASSUME NEW q \in Request PROVE SessionSound(pc'[q], local'[q], text', embedding')
  <2>1. CASE q = r
    BY <1>3, <2>1
  <2>2. CASE q # r
    <3>1. pc'[q] = pc[q] /\ local'[q] = local[q]
      BY <2>2 DEF Continue, SessionsSound
    <3>2. SessionSound(pc[q], local[q], text, embedding)
      BY DEF SessionsSound
    <3> QED
      BY <3>1, <3>2, SoundStays
  <2> QED
    BY <2>1, <2>2
<1> QED
  BY <1>2, <1>4 DEF SessionsSound

\* A request that answers does, too.
LEMMA FinishIsSound ==
    ASSUME SessionsSound, Keeps(text, text', embedding, embedding'),
           NEW r \in Request, Finish(r)
    PROVE  SessionsSound'
<1>1. SessionSound("idle", Nothing, text', embedding')
  BY NothingType, NoneAssumption DEF SessionSound, PCs, Texts, Statuses, Enriched
<1> QED
  BY <1>1, ContinueIsSound DEF Finish

\* And one that goes on to its next content.
LEMMA NextIsSound ==
    ASSUME SessionsSound, Keeps(text, text', embedding, embedding'),
           NEW r \in Request, NEW label \in {"enrich", "text", "target"},
           NEW v \in Session, v.todo # <<>>, NextContent(r, label, v),
           \A d \in Content : v.text[d] = Enriched \/ v.status[d] = "processed"
                                => text'[d] = Enriched
    PROVE  SessionsSound'
<1>1. CASE Len(v.todo) = 1
  BY <1>1, FinishIsSound DEF NextContent
<1>2. CASE Len(v.todo) # 1
  <2>1. PICK x : x = [v EXCEPT !.todo = Tail(@), !.row = NONE, !.candidates = {},
                               !.had = Nothing.had, !.lost = {}]
    OBVIOUS
  <2>2. v.todo \in Seq(Content) /\ Tail(v.todo) \in Seq(Content) /\ Tail(v.todo) # <<>>
    BY <1>2, ListType DEF Session
  <2>3. x \in Session
    BY <2>1, <2>2, NothingType DEF Session
  <2>4. x.todo = Tail(v.todo) /\ x.text = v.text /\ x.status = v.status /\ x.row = NONE
    BY <2>1 DEF Session
  <2>5. SessionSound(label, x, text', embedding')
    BY <2>2, <2>3, <2>4 DEF SessionSound, PCs
  <2>6. Continue(r, label, x)
    BY <1>2, <2>1 DEF NextContent
  <2> QED
    BY <2>5, <2>6, ContinueIsSound
<1> QED
  BY <1>1, <1>2

\* A request that is not idle has a content to do.
LEMMA AtWork ==
    ASSUME DerivedSound, NEW r \in Request, pc[r] # "idle"
    PROVE  /\ SessionSound(pc[r], local[r], text, embedding)
           /\ local[r] \in Session /\ local[r].todo # <<>>
           /\ Current(r) = Head(local[r].todo) /\ Current(r) \in Content
           /\ \A d \in Content : local[r].text[d] = Enriched \/ local[r].status[d] = "processed"
                                    => text[d] = Enriched
<1>1. SessionSound(pc[r], local[r], text, embedding)
  BY DEF DerivedSound, SessionsSound
<1>2. local[r] \in Session /\ local[r].todo # <<>>
  BY <1>1 DEF SessionSound
<1>3. Head(local[r].todo) \in Content
  BY <1>2, ListType DEF Session
<1> QED
  BY <1>1, <1>2, <1>3 DEF SessionSound, Current

\* Steps that write no row.
LEMMA RowsStay ==
    ASSUME DerivedSound, UNCHANGED rows, lock' \in [Content -> Request \cup {NONE}]
    PROVE  RowsSound' /\ LinksAreJustified' /\ Keeps(text, text', embedding, embedding')
<1>1. RowsSound'
  BY DEF DerivedSound, RowsSound, rows
<1>2. LinksAreJustified'
  BY DEF DerivedSound, LinksAreJustified, rows
<1> QED
  BY <1>1, <1>2 DEF rows, Keeps

\* A request that begins has loaded nothing or what is there.
LEMMA BeginIsSound ==
    ASSUME DerivedSound, NEW r \in Request, NEW event, NEW label \in {"enrich", "text", "target"},
           NEW force \in BOOLEAN, NEW C \in SUBSET Content, NEW loaded,
           Begin(r, event, label, force, C, loaded)
    PROVE  DerivedSound'
<1>1. UNCHANGED <<rows, lock>> /\ lock' \in [Content -> Request \cup {NONE}]
  BY DEF Begin, DerivedSound, RowsSound
<1>2. RowsSound' /\ LinksAreJustified' /\ Keeps(text, text', embedding, embedding')
  BY <1>1, RowsStay
<1>3. SessionsSound
  BY DEF DerivedSound
<1>4. SessionsSound'
  <2>1. CASE C = {}
    BY <1>2, <1>3, <2>1, FinishIsSound DEF Begin
  <2>2. CASE C # {}
    <3>1. PICK y : y = [Nothing EXCEPT !.op = event, !.force = force, !.todo = InOrder(C),
                          !.text = [c \in Content |-> IF c \in loaded THEN text[c] ELSE NONE],
                          !.status = [c \in Content |-> IF c \in loaded THEN status[c] ELSE NONE]]
      OBVIOUS
    <3>2. Continue(r, label, y)
      BY <2>2, <3>1 DEF Begin
    <3>3. event \in AllEvents
      BY StoreAssumption DEF Begin
    <3>4. InOrder(C) \in Seq(Content) /\ InOrder(C) # <<>>
      BY <2>2, InOrderType
    <3>5. PICK x :
            x = [op |-> event, force |-> force, todo |-> InOrder(C),
                 text |-> [c \in Content |-> IF c \in loaded THEN text[c] ELSE NONE],
                 status |-> [c \in Content |-> IF c \in loaded THEN status[c] ELSE NONE],
                 row |-> NONE, candidates |-> {}, had |-> [p \in Pairs |-> NONE], lost |-> {}]
      OBVIOUS
    <3>6. x = y
      BY <3>1, <3>5 DEF Nothing
    <3>7. /\ x.text \in [Content -> Texts \cup {NONE}]
          /\ x.status \in [Content -> Statuses \cup {NONE}]
      BY <3>5 DEF DerivedSound, RowsSound
    <3>8. x \in Session
      BY <3>5, <3>3, <3>4, <3>7 DEF Session
    <3>9. \A d \in Content : x.text[d] = Enriched \/ x.status[d] = "processed" => text[d] = Enriched
      BY <3>5, NoneAssumption DEF DerivedSound, RowsSound, Texts, Statuses, Enriched
    <3>10. SessionSound(label, x, text', embedding')
      BY <1>1, <3>5, <3>4, <3>8, <3>9 DEF SessionSound, PCs, rows
    <3> QED
      BY <1>2, <1>3, <3>2, <3>10, <3>6, ContinueIsSound
  <2> QED
    BY <2>1, <2>2
<1> QED
  BY <1>2, <1>4 DEF DerivedSound

\* The endpoints begin soundly.
LEMMA StartIsSound ==
    ASSUME DerivedSound, NEW r \in Request, Start(r)
    PROVE  DerivedSound'
<1>1. CASE enrich_one_content(r)
  <2>1. PICK c \in Enrichable : Begin(r, "enrich", "enrich", FALSE, {c}, {c})
    BY <1>1 DEF enrich_one_content
  <2>2. {c} \in SUBSET Content
    BY StoreAssumption
  <2> QED
    BY <2>1, <2>2, BeginIsSound
<1>2. CASE run_enrichment(r)
  <2>1. PICK C : /\ C = {c \in Enrichable : status[c] = "pending"}
                 /\ Begin(r, "run", "enrich", FALSE, C, C)
    BY <1>2 DEF run_enrichment
  <2>2. C \in SUBSET Content
    BY <2>1, StoreAssumption
  <2> QED
    BY <2>1, <2>2, BeginIsSound
<1>3. CASE generate(r)
  <2>1. PICK c \in Embeddable : \E force \in BOOLEAN : Begin(r, "generate", "text", force, {c}, {})
    BY <1>3 DEF generate
  <2>2. {c} \in SUBSET Content
    BY StoreAssumption
  <2> QED
    BY <2>1, <2>2, BeginIsSound
<1>4. CASE generate_batch(r)
  <2>1. PICK C \in SUBSET Embeddable :
          \E force \in BOOLEAN : Begin(r, "generate_batch", "text", force, C, C)
    BY <1>4 DEF generate_batch
  <2>2. C \in SUBSET Content
    BY StoreAssumption
  <2> QED
    BY <2>1, <2>2, BeginIsSound
<1>5. CASE rebuild_content(r)
  <2>1. PICK c \in Content : Begin(r, "rebuild", "target", FALSE, {c}, {})
    BY <1>5 DEF rebuild_content
  <2>2. {c} \in SUBSET Content
    OBVIOUS
  <2> QED
    BY <2>1, <2>2, BeginIsSound
<1>6. CASE rebuild_batch(r)
  <2>1. PICK C : /\ C = {c \in Content : status[c] = "processed"}
                 /\ Begin(r, "rebuild_batch", "target", FALSE, C, C)
    BY <1>6 DEF rebuild_batch
  <2>2. C \in SUBSET Content
    BY <2>1
  <2> QED
    BY <2>1, <2>2, BeginIsSound
<1> QED
  BY <1>1, <1>2, <1>3, <1>4, <1>5, <1>6
     DEF Start, EnrichmentStart, EmbeddingsStart, RelationshipsStart

\* Enriched contents stay enriched, and only they are processed.
LEMMA EnrichmentIsSound ==
    ASSUME DerivedSound, NEW r \in Request,
           EnrichmentStep(r) \/ record_failure(r)
    PROVE  DerivedSound'
<1> DEFINE c == Current(r)
<1>1. CASE enrich_content(r)
  <2>1. pc[r] # "idle" /\ UNCHANGED <<embedding, overtaken, links, lock>>
    BY <1>1 DEF enrich_content, At
  <2>2. /\ local[r] \in Session /\ local[r].todo # <<>> /\ c \in Content
        /\ \A d \in Content : local[r].status[d] = "processed" => text[d] = Enriched
    BY <2>1, AtWork
  <2>3. /\ text' = [text EXCEPT ![c] = Enriched]
        /\ status' = [status EXCEPT ![c] = IF local[r].status[c] = "processed"
                                           THEN status[c] ELSE "processed"]
    BY <1>1 DEF enrich_content
  <2> HIDE DEF c
  <2>4. RowsSound'
    BY <2>1, <2>2, <2>3 DEF DerivedSound, RowsSound, Texts, Statuses, Enriched
  <2>5. Keeps(text, text', embedding, embedding')
    BY <2>1, <2>3 DEF Keeps, DerivedSound, RowsSound
  <2>6. LinksAreJustified'
    <3>1. \A d \in Content : text[d] = Enriched => text'[d] = Enriched
      BY <2>5 DEF Keeps
    <3> QED
      BY <2>1, <3>1 DEF DerivedSound, LinksAreJustified
  <2>7. PICK x : x = Expired(local[r])
    OBVIOUS
  <2>8. /\ x \in Session /\ x.todo = local[r].todo /\ x.row = NONE
        /\ \A d \in Content : x.text[d] = NONE /\ x.status[d] = NONE
    BY <2>2, <2>7, ExpiredType
  <2>9. SessionSound("refresh", x, text', embedding')
    BY <2>2, <2>8, NoneAssumption DEF SessionSound, PCs, Texts, Statuses, Enriched
  <2>10. Continue(r, "refresh", x)
    BY <1>1, <2>7 DEF enrich_content
  <2>11. SessionsSound'
    BY <2>5, <2>9, <2>10, ContinueIsSound DEF DerivedSound
  <2> QED
    BY <2>4, <2>6, <2>11 DEF DerivedSound
<1>2. CASE refresh(r)
  <2>1. /\ pc[r] # "idle" /\ UNCHANGED <<rows, lock>> /\ lock' \in [Content -> Request \cup {NONE}]
    BY <1>2 DEF refresh, At, DerivedSound, RowsSound
  <2>2. RowsSound' /\ LinksAreJustified' /\ Keeps(text, text', embedding, embedding')
    BY <2>1, RowsStay
  <2>3. PICK x : x = local[r]
    OBVIOUS
  <2>4. /\ x \in Session /\ x.todo # <<>>
        /\ \A d \in Content : x.text[d] = Enriched \/ x.status[d] = "processed" => text'[d] = Enriched
    BY <2>1, <2>3, AtWork DEF rows
  <2>5. NextContent(r, "enrich", x)
    BY <1>2, <2>3 DEF refresh
  <2>6. SessionsSound'
    BY <2>2, <2>4, <2>5, NextIsSound DEF DerivedSound
  <2> QED
    BY <2>2, <2>6 DEF DerivedSound
<1>3. CASE record_failure(r)
  <2>1. /\ pc[r] # "idle" /\ UNCHANGED <<text, embedding, overtaken, links, lock>>
        /\ status' = [status EXCEPT ![c] = "failed"]
    BY <1>3 DEF record_failure
  <2>2. local[r] \in Session /\ local[r].todo # <<>>
    BY <2>1, AtWork
  <2>3. RowsSound'
    BY <2>1 DEF DerivedSound, RowsSound, Statuses
  <2>4. LinksAreJustified' /\ Keeps(text, text', embedding, embedding')
    BY <2>1 DEF DerivedSound, LinksAreJustified, Keeps
  <2>5. PICK x : x = Expired(local[r])
    OBVIOUS
  <2>6. /\ x \in Session /\ x.todo = local[r].todo /\ x.row = NONE
        /\ \A d \in Content : x.text[d] = NONE /\ x.status[d] = NONE
    BY <2>2, <2>5, ExpiredType
  <2>7. \A d \in Content : x.text[d] = Enriched \/ x.status[d] = "processed" => text'[d] = Enriched
    BY <2>6, NoneAssumption DEF Texts, Statuses, Enriched
  <2>8. NextContent(r, "enrich", x)
    BY <1>3, <2>5 DEF record_failure
  <2>9. SessionsSound'
    BY <2>2, <2>4, <2>6, <2>7, <2>8, NextIsSound DEF DerivedSound
  <2> QED
    BY <2>3, <2>4, <2>9 DEF DerivedSound
<1> QED
  BY <1>1, <1>2, <1>3 DEF EnrichmentStep

\* Steps that only read what a content is embedded by.
LEMMA ReadingIsSound ==
    ASSUME DerivedSound, NEW r \in Request,
           read_text(r) \/ read_row(r) \/ reload_row(r) \/ flush_processing(r)
    PROVE  DerivedSound'
<1> DEFINE c == Current(r)
<1>1. /\ pc[r] # "idle" /\ UNCHANGED rows /\ lock' \in [Content -> Request \cup {NONE}]
  BY DEF read_text, read_row, reload_row, flush_processing, At, DerivedSound, RowsSound
<1>2. /\ RowsSound' /\ LinksAreJustified' /\ Keeps(text, text', embedding, embedding')
      /\ text' = text /\ embedding' = embedding /\ SessionsSound /\ RowsSound
  BY <1>1, RowsStay DEF DerivedSound, rows
<1>3. PICK v : v = local[r]
  OBVIOUS
<1>4. /\ SessionSound(pc[r], v, text, embedding) /\ v \in Session /\ v.todo # <<>>
      /\ c = Head(v.todo) /\ c \in Content
      /\ \A d \in Content : v.text[d] = Enriched \/ v.status[d] = "processed" => text[d] = Enriched
  BY <1>1, <1>3, AtWork
<1>5. embedding[c] \in EmbeddingRow \cup {NONE}
  BY <1>2, <1>4 DEF RowsSound
<1>6. ASSUME NEW label \in {"stale", "flush"}, NEW x, x = [v EXCEPT !.row = embedding[c]],
             label = "stale" => embedding[c] # NONE
      PROVE  SessionSound(label, x, text', embedding')
  <2>1. x \in Session
    BY <1>4, <1>5, <1>6 DEF Session
  <2>2. x.todo = v.todo /\ x.text = v.text /\ x.status = v.status /\ x.row = embedding[c]
    BY <1>4, <1>6 DEF Session
  <2> QED
    BY <1>2, <1>4, <1>6, <2>1, <2>2 DEF SessionSound, PCs
<1> HIDE DEF c
<1>7. CASE read_text(r)
  <2>1. PICK x : x = Loaded(v, c)
    OBVIOUS
  <2>2. /\ x \in Session /\ x.todo = v.todo
        /\ \A d \in Content : x.text[d] \in {v.text[d], text[d]}
                              /\ x.status[d] \in {v.status[d], status[d]}
    BY <1>2, <1>4, <2>1, LoadedType
  <2>3. \A d \in Content : status[d] = "processed" => text[d] = Enriched
    BY <1>2 DEF RowsSound
  <2>4. \A d \in Content : x.text[d] = Enriched \/ x.status[d] = "processed" => text[d] = Enriched
    BY <1>4, <2>2, <2>3
  <2>5. SessionSound("row", x, text', embedding')
    BY <1>2, <1>4, <2>2, <2>4 DEF SessionSound, PCs
  <2>6. Continue(r, "row", x)
    BY <1>3, <1>7, <2>1 DEF read_text, c
  <2>7. SessionsSound'
    BY <1>2, <2>5, <2>6, ContinueIsSound
  <2> QED
    BY <1>2, <2>7 DEF DerivedSound
<1>8. CASE read_row(r)
  <2>1. PICK x : x = [v EXCEPT !.row = embedding[c]]
    OBVIOUS
  <2>2. CASE Continue(r, "stale", x) /\ embedding[c] # NONE
    BY <1>2, <1>6, <2>1, <2>2, ContinueIsSound DEF DerivedSound
  <2>3. CASE NextContent(r, "text", v)
    BY <1>2, <1>4, <2>3, NextIsSound DEF DerivedSound
  <2>4. CASE Continue(r, "flush", x)
    BY <1>2, <1>6, <2>1, <2>4, ContinueIsSound DEF DerivedSound
  <2> QED
    BY <1>3, <1>8, <2>1, <2>2, <2>3, <2>4 DEF read_row, c
<1>9. CASE reload_row(r)
  <2>1. PICK x : x = [v EXCEPT !.row = embedding[c]]
    OBVIOUS
  <2>2. PICK y : y = [v EXCEPT !.text = Nothing.text]
    OBVIOUS
  <2>3. CASE NextContent(r, "text", y)
    <3>1. y \in Session /\ y.todo = v.todo /\ y.text = Nothing.text /\ y.status = v.status
      <4>1. Nothing.text \in [Content -> Texts \cup {NONE}]
        BY NothingType DEF Session
      <4> QED
        BY <1>4, <2>2, <4>1 DEF Session
    <3>2. \A d \in Content : y.text[d] = Enriched \/ y.status[d] = "processed" => text'[d] = Enriched
      BY <1>2, <1>4, <3>1, NothingType, NoneAssumption DEF Texts, Enriched
    <3> QED
      BY <1>2, <1>4, <2>3, <3>1, <3>2, NextIsSound DEF DerivedSound
  <2>4. CASE Continue(r, "flush", x)
    BY <1>2, <1>6, <2>1, <2>4, ContinueIsSound DEF DerivedSound
  <2> QED
    BY <1>3, <1>9, <2>1, <2>2, <2>3, <2>4 DEF reload_row, c
<1>10. CASE flush_processing(r)
  <2>1. CASE Finish(r)
    BY <1>2, <2>1, FinishIsSound DEF DerivedSound
  <2>2. CASE Continue(r, "call", v)
    <3>1. pc[r] = "flush"
      BY <1>10 DEF flush_processing, At
    <3>2. SessionSound("call", v, text', embedding')
      BY <1>2, <1>4, <3>1 DEF SessionSound, PCs
    <3> QED
      BY <1>2, <2>2, <3>2, ContinueIsSound DEF DerivedSound
  <2> QED
    BY <1>3, <1>10, <2>1, <2>2 DEF flush_processing
<1> QED
  BY <1>7, <1>8, <1>9, <1>10

\* A request that marks the row of its content as stale.
LEMMA StaleIsSound ==
    ASSUME DerivedSound, NEW r \in Request, mark_stale(r)
    PROVE  DerivedSound'
<1> DEFINE c == Current(r)
<1>1. /\ pc[r] = "stale" /\ UNCHANGED <<text, status, overtaken, links, lock>>
      /\ embedding' \in {embedding, [embedding EXCEPT ![c].status = "stale"]}
  BY DEF mark_stale, At, rows
<1>2. PICK v : v = local[r]
  OBVIOUS
<1>3. /\ SessionSound(pc[r], v, text, embedding) /\ v \in Session /\ v.todo # <<>>
      /\ c = Head(v.todo) /\ c \in Content
      /\ \A d \in Content : v.text[d] = Enriched \/ v.status[d] = "processed" => text[d] = Enriched
  BY <1>1, <1>2, AtWork
<1>4. embedding[c] # NONE
  BY <1>1, <1>3 DEF SessionSound
<1>5. PICK row : row = [embedding[c] EXCEPT !.status = "stale"]
  OBVIOUS
<1> HIDE DEF c
<1>6. row \in EmbeddingRow
  BY <1>3, <1>4, <1>5 DEF DerivedSound, RowsSound, EmbeddingRow
<1>7. embedding' \in {embedding, [embedding EXCEPT ![c] = row]}
  BY <1>1, <1>5
<1>8. RowsSound'
  BY <1>1, <1>6, <1>7 DEF DerivedSound, RowsSound
<1>9. LinksAreJustified'
  BY <1>1 DEF DerivedSound, LinksAreJustified
<1>10. Keeps(text, text', embedding, embedding')
  BY <1>1, <1>6, <1>7, NoneAssumption DEF Keeps, DerivedSound, RowsSound
<1>11. PICK e : e = Expired(v)
  OBVIOUS
<1>12. /\ e \in Session /\ e.todo = v.todo /\ e.row = NONE
       /\ \A d \in Content : e.text[d] = NONE /\ e.status[d] = NONE
  BY <1>3, <1>11, ExpiredType
<1>13. PICK x : x = [e EXCEPT !.text[c] = v.text[c]]
  OBVIOUS
<1>14. PICK t : t = [e.text EXCEPT ![c] = v.text[c]]
  OBVIOUS
<1>15. x = [e EXCEPT !.text = t]
  BY <1>13, <1>14
<1>16. /\ t \in [Content -> Texts \cup {NONE}]
       /\ \A d \in Content : t[d] \in {NONE, v.text[d]}
  BY <1>3, <1>12, <1>14 DEF Session
<1>17. x \in Session
  BY <1>12, <1>15, <1>16 DEF Session
<1>18. x.todo = v.todo /\ x.text = t /\ x.status = e.status
  BY <1>12, <1>15 DEF Session
<1>19. \A d \in Content : x.text[d] = Enriched \/ x.status[d] = "processed" => text'[d] = Enriched
  BY <1>1, <1>3, <1>12, <1>16, <1>18, NoneAssumption DEF Texts, Statuses, Enriched
<1>20. SessionSound("reload", x, text', embedding')
  BY <1>3, <1>17, <1>18, <1>19 DEF SessionSound, PCs
<1>21. Continue(r, "reload", x)
  BY <1>2, <1>11, <1>13 DEF mark_stale, digest, c
<1>22. SessionsSound'
  BY <1>10, <1>20, <1>21, ContinueIsSound DEF DerivedSound
<1> QED
  BY <1>8, <1>9, <1>22 DEF DerivedSound

\* A request that writes the row of its content, the lock of which it gives back.
LEMMA WriteIsSound ==
    ASSUME DerivedSound, NEW r \in Request, NEW row \in EmbeddingRow, Write(r, row),
           overtaken' \subseteq Content
    PROVE  DerivedSound'
<1> DEFINE c == Current(r)
<1>1. /\ pc[r] = "call" /\ UNCHANGED <<text, status, links>>
      /\ embedding' = [embedding EXCEPT ![c] = row] /\ lock' = [lock EXCEPT ![c] = NONE]
  BY DEF Write, At
<1>2. PICK v : v = local[r]
  OBVIOUS
<1>3. v \in Session /\ v.todo # <<>> /\ c \in Content
  BY <1>1, <1>2, AtWork
<1> HIDE DEF c
<1>4. RowsSound'
  BY <1>1, <1>3 DEF DerivedSound, RowsSound
<1>5. LinksAreJustified'
  BY <1>1 DEF DerivedSound, LinksAreJustified
<1>6. Keeps(text, text', embedding, embedding')
  BY <1>1, NoneAssumption DEF Keeps, DerivedSound, RowsSound
<1>7. PICK x : x = Expired(v)
  OBVIOUS
<1>8. /\ x \in Session /\ x.todo = v.todo
      /\ \A d \in Content : x.text[d] = NONE /\ x.status[d] = NONE
  BY <1>3, <1>7, ExpiredType
<1>9. \A d \in Content : x.text[d] = Enriched \/ x.status[d] = "processed" => text'[d] = Enriched
  BY <1>8, NoneAssumption DEF Texts, Statuses, Enriched
<1>10. NextContent(r, "text", x)
  BY <1>2, <1>7 DEF Write
<1>11. SessionsSound'
  BY <1>3, <1>6, <1>8, <1>9, <1>10, NextIsSound DEF DerivedSound
<1> QED
  BY <1>4, <1>5, <1>11 DEF DerivedSound

\* The row that a request writes when the provider has answered or failed.
LEMMA WrittenType ==
    ASSUME DerivedSound, NEW r \in Request, embedded(r) \/ embedding_fails(r)
    PROVE  overtaken' \subseteq Content /\ \E row \in EmbeddingRow : Write(r, row)
<1> DEFINE c == Current(r)
<1>1. pc[r] = "call"
  BY DEF embedded, embedding_fails, Write, At
<1>2. /\ SessionSound(pc[r], local[r], text, embedding) /\ local[r] \in Session
      /\ c = Head(local[r].todo) /\ c \in Content
  BY <1>1, AtWork
<1>3. embedding[c] \in EmbeddingRow \cup {NONE} /\ digest(r) \in Texts \cup {NONE}
  BY <1>2 DEF DerivedSound, RowsSound, Session, digest
<1>4. CASE embedded(r)
  <2>1. PICK row : row = [vector |-> digest(r),
                          hash   |-> IF local[r].row # NONE /\ local[r].row.hash = digest(r)
                                     THEN embedding[c].hash ELSE digest(r),
                          status |-> "completed"]
    OBVIOUS
  <2>2. local[r].row # NONE => embedding[c] # NONE
    BY <1>1, <1>2 DEF SessionSound
  <2>3. local[r].row # NONE => embedding[c].hash \in Texts \cup {NONE}
    BY <1>3, <2>2 DEF EmbeddingRow
  <2> HIDE DEF c
  <2>4. row \in EmbeddingRow
    BY <1>3, <2>1, <2>3 DEF EmbeddingRow
  <2>5. Write(r, row)
    BY <1>4, <2>1 DEF embedded, c
  <2>6. overtaken' \subseteq Content
    BY <1>2, <1>4 DEF embedded, DerivedSound, RowsSound, c
  <2> QED
    BY <2>4, <2>5, <2>6
<1>5. CASE embedding_fails(r)
  <2>1. PICK row : row = IF embedding[c] = NONE
                         THEN [vector |-> NONE, hash |-> NONE, status |-> "failed"]
                         ELSE [embedding[c] EXCEPT !.status = "failed"]
    OBVIOUS
  <2> HIDE DEF c
  <2>2. row \in EmbeddingRow
    BY <1>3, <2>1 DEF EmbeddingRow
  <2>3. Write(r, row) /\ overtaken' = overtaken
    BY <1>5, <2>1 DEF embedding_fails, c
  <2> QED
    BY <2>2, <2>3 DEF DerivedSound, RowsSound
<1> QED
  BY <1>4, <1>5

----------------------------------------------------------------------------
(* Relationships *)

\* Two contents are a pair, in which each is the other one's partner.
LEMMA PairType ==
    ASSUME NEW c \in Content, NEW d \in Content, c # d
    PROVE  /\ {c, d} \in Pairs /\ {c, d} \in Incident(c)
           /\ (CHOOSE x \in {c, d} : x # c) = d
<1>1. {c, d} \in Pairs
  BY DEF Pairs
<1> QED
  BY <1>1 DEF Incident

\* A pair that a content is part of has one partner for it.
LEMMA Partner ==
    ASSUME NEW c \in Content, NEW p \in Incident(c)
    PROVE  \E d \in Content \ {c} : p = {c, d}
<1>1. PICK a \in Content : \E b \in Content \ {a} : p = {a, b}
  BY DEF Incident, Pairs
<1>2. PICK b \in Content \ {a} : p = {a, b}
  BY <1>1
<1>3. c \in {a, b}
  BY <1>2 DEF Incident
<1> QED
  BY <1>1, <1>2, <1>3

\* A score is a number, and what is calculated a row.
LEMMA ScoreType ==
    ASSUME NEW c \in Content, NEW d \in Content, c # d
    PROVE  Score(c, d) \in Nat /\ Calculated(c, d) \in RelationshipRow /\ Calculated(c, d) # NONE
<1>1. Base[{c, d}] \in 0..95
  BY PairType, RelationshipAssumption
<1>2. Temporal(c, d) \in 0..5
  BY DEF Temporal
<1>3. Score(c, d) \in 0..100
  BY <1>1, <1>2 DEF Score
<1>4. Dated(c, d) => Distance(c, d) \in Nat
  <2> SUFFICES ASSUME Dated(c, d) PROVE Distance(c, d) \in Nat
    OBVIOUS
  <2>1. Published[c] \in Nat /\ Published[d] \in Nat
    BY RelationshipAssumption DEF Dated
  <2> QED
    BY <2>1 DEF Distance
<1>5. Calculated(c, d) \in RelationshipRow
  BY <1>3, <1>4 DEF Calculated, RelationshipRow
<1> QED
  BY <1>3, <1>5, NoneAssumption

\* What a rebuild wants of a pair is justified: what is calculated for its
\* content, if that and one of the candidates are the pair and score enough.
LEMMA WantedType ==
    ASSUME DerivedSound, NEW r \in Request, pc[r] = "store", NEW p \in Incident(Current(r))
    PROVE  /\ Wanted(r, p) \in RelationshipRow \cup {NONE}
           /\ Wanted(r, p) # NONE =>
                \E d \in local[r].candidates :
                    /\ d \in Content /\ d # Current(r) /\ p = {Current(r), d}
                    /\ Wanted(r, p) = Calculated(Current(r), d) /\ Wanted(r, p).score >= Minimum
                    /\ text[Current(r)] = Enriched /\ text[d] = Enriched
<1> DEFINE t == Current(r)
           S == local[r].candidates
<1>1. /\ SessionSound(pc[r], local[r], text, embedding) /\ local[r] \in Session
      /\ t = Head(local[r].todo) /\ t \in Content
  BY AtWork
<1>2. S \subseteq Content /\ text[t] = Enriched /\ \A d \in S : d # t /\ text[d] = Enriched
  BY <1>1 DEF SessionSound, Session
<1>3. Qualified(t, S) \subseteq {d \in S : Score(t, d) >= Minimum}
  BY DEF Qualified, First
<1> HIDE DEF t, S
<1>4. CASE \E d \in Qualified(t, S) : p = {t, d}
  <2>1. PICK d \in Qualified(t, S) : p = {t, d}
    BY <1>4
  <2>2. d \in S /\ Score(t, d) >= Minimum /\ d \in Content /\ d # t
    BY <1>2, <1>3
  <2>3. Wanted(r, p) = Calculated(t, d)
    <3>1. (CHOOSE x \in p : x # t) = d
      BY <1>1, <2>1, <2>2, PairType
    <3> QED
      BY <1>4, <3>1 DEF Wanted, t, S
  <2>4. Calculated(t, d) \in RelationshipRow /\ Calculated(t, d).score = Score(t, d)
    BY <1>1, <2>2, ScoreType DEF Calculated
  <2> QED
    BY <1>2, <2>1, <2>2, <2>3, <2>4 DEF t, S
<1>5. CASE ~\E d \in Qualified(t, S) : p = {t, d}
  BY <1>5 DEF Wanted, t, S
<1> QED
  BY <1>4, <1>5

\* Candidates are processed contents other than the target.
LEMMA CandidatesType ==
    ASSUME NEW t, NEW d \in candidates_for(t)
    PROVE  d \in Content /\ d # t /\ status[d] = "processed"
BY DEF candidates_for, First

\* Steps that only read what contents are related by.
LEMMA ComparingIsSound ==
    ASSUME DerivedSound, NEW r \in Request,
           get_target(r) \/ read_candidates(r) \/ read_existing(r) \/ store_fails(r)
    PROVE  DerivedSound'
<1> DEFINE c == Current(r)
<1>1. /\ pc[r] # "idle" /\ UNCHANGED rows /\ lock' \in [Content -> Request \cup {NONE}]
  BY DEF get_target, read_candidates, read_existing, store_fails, At, DerivedSound, RowsSound
<1>2. /\ RowsSound' /\ LinksAreJustified' /\ Keeps(text, text', embedding, embedding')
      /\ text' = text /\ embedding' = embedding /\ SessionsSound /\ RowsSound
  BY <1>1, RowsStay DEF DerivedSound, rows
<1>3. PICK v : v = local[r]
  OBVIOUS
<1>4. /\ SessionSound(pc[r], v, text, embedding) /\ v \in Session /\ v.todo # <<>>
      /\ c = Head(v.todo) /\ c \in Content
      /\ \A d \in Content : v.text[d] = Enriched \/ v.status[d] = "processed" => text[d] = Enriched
  BY <1>1, <1>3, AtWork
<1>5. \A d \in Content : status[d] = "processed" => text[d] = Enriched
  BY <1>2 DEF RowsSound
<1> HIDE DEF c
<1>6. CASE get_target(r)
  <2>1. PICK x : x = Loaded(v, c)
    OBVIOUS
  <2>2. /\ x \in Session /\ x.todo = v.todo
        /\ \A d \in Content : x.text[d] \in {v.text[d], text[d]}
                              /\ x.status[d] \in {v.status[d], status[d]}
    BY <1>2, <1>4, <2>1, LoadedType
  <2>3. \A d \in Content : x.text[d] = Enriched \/ x.status[d] = "processed" => text[d] = Enriched
    BY <1>4, <1>5, <2>2
  <2>4. PICK y : y = Expired(x)
    OBVIOUS
  <2>5. CASE x.status[c] = "processed" /\ Continue(r, "candidates", x)
    <3>1. SessionSound("candidates", x, text', embedding')
      BY <1>2, <1>4, <2>2, <2>3, <2>5 DEF SessionSound, PCs
    <3> QED
      BY <1>2, <2>5, <3>1, ContinueIsSound DEF DerivedSound
  <2>6. CASE NextContent(r, "target", y)
    <3>1. /\ y \in Session /\ y.todo = v.todo
          /\ \A d \in Content : y.text[d] = NONE /\ y.status[d] = NONE
      BY <2>2, <2>4, ExpiredType
    <3>2. \A d \in Content : y.text[d] = Enriched \/ y.status[d] = "processed" => text'[d] = Enriched
      BY <3>1, NoneAssumption DEF Texts, Statuses, Enriched
    <3> QED
      BY <1>2, <1>4, <2>6, <3>1, <3>2, NextIsSound DEF DerivedSound
  <2> QED
    BY <1>3, <1>6, <2>1, <2>4, <2>5, <2>6 DEF get_target, c
<1>7. CASE read_candidates(r)
  <2>1. PICK S : S = candidates_for(c)
    OBVIOUS
  <2>2. \A d \in S : d \in Content /\ d # c /\ status[d] = "processed"
    BY <2>1, CandidatesType
  <2>3. PICK x : x = [v EXCEPT !.candidates = S]
    OBVIOUS
  <2>4. x \in Session
    BY <1>4, <2>2, <2>3 DEF Session
  <2>5. x.todo = v.todo /\ x.text = v.text /\ x.status = v.status /\ x.candidates = S
    BY <1>4, <2>3 DEF Session
  <2>6. pc[r] = "candidates" /\ Continue(r, "existing", x)
    BY <1>3, <1>7, <2>1, <2>3 DEF read_candidates, At, c
  <2>7. SessionSound("existing", x, text', embedding')
    BY <1>2, <1>4, <1>5, <2>2, <2>4, <2>5, <2>6 DEF SessionSound, PCs
  <2> QED
    BY <1>2, <2>6, <2>7, ContinueIsSound DEF DerivedSound
<1>8. CASE read_existing(r)
  <2>1. PICK had : had = [p \in Pairs |-> IF c \in p THEN links[p] ELSE NONE]
    OBVIOUS
  <2>2. had \in [Pairs -> RelationshipRow \cup {NONE}]
    BY <1>2, <2>1 DEF RowsSound
  <2>3. PICK x : x = [v EXCEPT !.had = had]
    OBVIOUS
  <2>4. x \in Session
    BY <1>4, <2>2, <2>3 DEF Session
  <2>5. x.todo = v.todo /\ x.text = v.text /\ x.status = v.status /\ x.candidates = v.candidates
    BY <1>4, <2>3 DEF Session
  <2>6. pc[r] = "existing" /\ Continue(r, "store", x)
    BY <1>3, <1>8, <2>1, <2>3 DEF read_existing, At, c
  <2>7. SessionSound("store", x, text', embedding')
    BY <1>2, <1>4, <2>4, <2>5, <2>6 DEF SessionSound, PCs
  <2> QED
    BY <1>2, <2>6, <2>7, ContinueIsSound DEF DerivedSound
<1>9. CASE store_fails(r)
  <2>1. Finish(r)
    BY <1>9 DEF store_fails
  <2> QED
    BY <1>2, <2>1, FinishIsSound DEF DerivedSound
<1> QED
  BY <1>6, <1>7, <1>8, <1>9

\* A rebuild that writes what it wants and deletes what it does not want leaves
\* the relationships justified.
LEMMA StoreIsSound ==
    ASSUME DerivedSound, NEW r \in Request, store(r)
    PROVE  DerivedSound'
<1> DEFINE t == Current(r)
<1>1. pc[r] = "store" /\ UNCHANGED <<text, status, embedding, overtaken, lock>>
  BY DEF store, At
<1>2. links' = [p \in Pairs |-> IF p \in Created(r) \cup Updated(r) THEN Wanted(r, p)
                                ELSE IF p \in Removed(r) THEN NONE ELSE links[p]]
  BY DEF store
<1>3. PICK v : v = local[r]
  OBVIOUS
<1>4. v \in Session /\ v.todo # <<>> /\ t = Head(v.todo) /\ t \in Content
  BY <1>1, <1>3, AtWork
<1>5. \A p \in Created(r) \cup Updated(r) : p \in Incident(t) /\ Wanted(r, p) # NONE
  BY DEF Created, Updated
<1> HIDE DEF t
<1>6. \A p \in Created(r) \cup Updated(r) : Wanted(r, p) \in RelationshipRow
  BY <1>1, <1>5, WantedType DEF t
<1>7. RowsSound'
  <2>1. links' \in [Pairs -> RelationshipRow \cup {NONE}]
    BY <1>2, <1>6 DEF DerivedSound, RowsSound
  <2> QED
    BY <1>1, <2>1 DEF DerivedSound, RowsSound
<1>8. LinksAreJustified'
  <2> SUFFICES ASSUME NEW c \in Content, NEW d \in Content, c # d, links'[{c, d}] # NONE
               PROVE  /\ text[c] = Enriched /\ text[d] = Enriched
                      /\ links'[{c, d}].score >= Minimum
                      /\ links'[{c, d}] \in {Calculated(c, d), Calculated(d, c)}
    BY <1>1 DEF LinksAreJustified
  <2>1. PICK p \in Pairs : p = {c, d}
    BY PairType
  <2>2. CASE p \in Created(r) \cup Updated(r)
    <3>1. links'[p] = Wanted(r, p) /\ Wanted(r, p) # NONE
      BY <1>2, <1>5, <2>2
    <3>2. PICK e \in Content :
            /\ e # t /\ p = {t, e} /\ Wanted(r, p) = Calculated(t, e) /\ Wanted(r, p).score >= Minimum
            /\ text[t] = Enriched /\ text[e] = Enriched
      BY <1>1, <1>5, <2>2, <3>1, WantedType DEF t
    <3>3. (c = t /\ d = e) \/ (c = e /\ d = t)
      BY <2>1, <3>2
    <3> QED
      BY <2>1, <3>1, <3>2, <3>3
  <2>3. CASE p \notin Created(r) \cup Updated(r)
    <3>1. p \notin Removed(r) /\ links'[p] = links[p]
      BY <1>2, <2>1, <2>3
    <3> QED
      BY <2>1, <3>1 DEF DerivedSound, LinksAreJustified
  <2> QED
    BY <2>2, <2>3
<1>9. Keeps(text, text', embedding, embedding')
  BY <1>1 DEF Keeps
<1>10. ASSUME NEW q \in Request \ {r}
       PROVE  SessionSound(pc'[q], local'[q], text', embedding')
  <2>1. PICK u : u = local[q]
    OBVIOUS
  <2>2. PICK lost : lost = {p \in Removed(r) : local[q].had[p] # NONE}
    OBVIOUS
  <2>3. lost \subseteq Pairs
    BY <2>2 DEF Removed, Deleted, Incident
  <2>4. PICK x : x = [u EXCEPT !.lost = @ \cup lost]
    OBVIOUS
  <2>5. local'[q] = x /\ pc'[q] = pc[q]
    BY <2>1, <2>2, <2>4 DEF store, DerivedSound, SessionsSound
  <2>6. SessionSound(pc[q], u, text, embedding) /\ u \in Session
    BY <2>1 DEF DerivedSound, SessionsSound, SessionSound
  <2>7. x \in Session
    BY <2>3, <2>4, <2>6 DEF Session
  <2>8. /\ x.todo = u.todo /\ x.text = u.text /\ x.status = u.status /\ x.row = u.row
        /\ x.candidates = u.candidates
    BY <2>4, <2>6 DEF Session
  <2>9. SessionSound(pc[q], x, text, embedding)
    BY <2>6, <2>7, <2>8 DEF SessionSound
  <2> QED
    BY <1>1, <2>5, <2>9
<1>11. SessionSound(pc'[r], local'[r], text', embedding')
  <2>1. CASE Len(v.todo) = 1
    <3>1. local'[r] = Nothing /\ pc'[r] = "idle"
      BY <1>3, <2>1 DEF store, DerivedSound, SessionsSound
    <3> QED
      BY <3>1, NothingType, NoneAssumption DEF SessionSound, PCs, Texts, Statuses, Enriched
  <2>2. CASE Len(v.todo) # 1
    <3>1. PICK e : e = Expired(v)
      OBVIOUS
    <3>2. PICK x : x = [e EXCEPT !.todo = Tail(@)]
      OBVIOUS
    <3>3. local'[r] = x /\ pc'[r] = "target"
      BY <1>3, <2>2, <3>1, <3>2 DEF store, DerivedSound, SessionsSound
    <3>4. /\ e \in Session /\ e.todo = v.todo /\ e.row = NONE
          /\ \A d \in Content : e.text[d] = NONE /\ e.status[d] = NONE
      BY <1>4, <3>1, ExpiredType
    <3>5. Tail(v.todo) \in Seq(Content) /\ Tail(v.todo) # <<>>
      BY <1>4, <2>2, ListType DEF Session
    <3>6. x \in Session
      BY <3>2, <3>4, <3>5 DEF Session
    <3>7. x.todo = Tail(v.todo) /\ x.text = e.text /\ x.status = e.status
      BY <3>2, <3>4 DEF Session
    <3>8. SessionSound("target", x, text', embedding')
      BY <3>4, <3>5, <3>6, <3>7, NoneAssumption DEF SessionSound, PCs, Texts, Statuses, Enriched
    <3> QED
      BY <3>3, <3>8
  <2> QED
    BY <2>1, <2>2
<1>12. SessionsSound'
  <2>1. \A q \in Request : SessionSound(pc'[q], local'[q], text', embedding')
    BY <1>10, <1>11
  <2>2. \A q \in Request : pc'[q] \in PCs /\ local'[q] \in Session
    BY <2>1 DEF SessionSound
  <2>3. pc' = [q \in Request |-> pc'[q]] /\ local' = [q \in Request |-> local'[q]]
    BY DEF store, DerivedSound, SessionsSound
  <2> QED
    BY <2>1, <2>2, <2>3 DEF SessionsSound
<1> QED
  BY <1>7, <1>8, <1>12 DEF DerivedSound

\* A request whose process ends gives its locks back.
LEMMA FailureIsSound ==
    ASSUME DerivedSound, NEW r \in Request, failure(r)
    PROVE  DerivedSound'
<1>1. UNCHANGED rows /\ lock' \in [Content -> Request \cup {NONE}] /\ Finish(r)
  BY DEF failure, DerivedSound, RowsSound
<1>2. RowsSound' /\ LinksAreJustified' /\ Keeps(text, text', embedding, embedding')
  BY <1>1, RowsStay
<1> QED
  BY <1>1, <1>2, FinishIsSound DEF DerivedSound

\* Every step keeps the invariant.
LEMMA StepsAreSound == DerivedSound /\ [Next]_vars => DerivedSound'
<1>1. ASSUME DerivedSound, UNCHANGED vars PROVE DerivedSound'
  <2>1. UNCHANGED <<text, status, embedding, overtaken, links, lock, pc, local>>
    BY <1>1 DEF vars, rows
  <2>2. RowsSound' /\ LinksAreJustified'
    BY <1>1, <2>1 DEF DerivedSound, RowsSound, LinksAreJustified
  <2>3. SessionsSound'
    BY <1>1, <2>1 DEF DerivedSound, SessionsSound
  <2> QED
    BY <2>2, <2>3 DEF DerivedSound
<1>2. ASSUME DerivedSound, NEW r \in Request, Start(r) \/ Step(r) \/ Failure(r)
      PROVE  DerivedSound'
  <2>1. CASE Start(r)
    BY <1>2, <2>1, StartIsSound
  <2>2. CASE EnrichmentStep(r) \/ record_failure(r)
    BY <1>2, <2>2, EnrichmentIsSound
  <2>3. CASE read_text(r) \/ read_row(r) \/ reload_row(r) \/ flush_processing(r)
    BY <1>2, <2>3, ReadingIsSound
  <2>4. CASE mark_stale(r)
    BY <1>2, <2>4, StaleIsSound
  <2>5. CASE embedded(r) \/ embedding_fails(r)
    BY <1>2, <2>5, WrittenType, WriteIsSound
  <2>6. CASE get_target(r) \/ read_candidates(r) \/ read_existing(r) \/ store_fails(r)
    BY <1>2, <2>6, ComparingIsSound
  <2>7. CASE store(r)
    BY <1>2, <2>7, StoreIsSound
  <2>8. CASE failure(r)
    BY <1>2, <2>8, FailureIsSound
  <2> QED
    BY <1>2, <2>1, <2>2, <2>3, <2>4, <2>5, <2>6, <2>7, <2>8
       DEF Step, EmbeddingsStep, RelationshipsStep, Failure
<1> QED
  BY <1>1, <1>2 DEF Next

\* At first nothing is embedded or related, and no request is at work.
LEMMA InitIsSound == Init => DerivedSound
<1> SUFFICES ASSUME Init PROVE DerivedSound
  OBVIOUS
<1>1. RowsSound
  BY DEF Init, RowsSound, Texts, Statuses, Enriched
<1>2. LinksAreJustified
  BY PairType DEF Init, LinksAreJustified
<1>3. SessionSound("idle", Nothing, text, embedding)
  BY NothingType, NoneAssumption DEF SessionSound, PCs, Texts, Statuses, Enriched
<1>4. SessionsSound
  BY <1>3, NothingType DEF Init, SessionsSound, PCs
<1> QED
  BY <1>1, <1>2, <1>4 DEF DerivedSound

\* The rows and the sessions are sound in every state.
THEOREM AlwaysDerived == Spec => []DerivedSound
  BY InitIsSound, StepsAreSound, PTL DEF Spec

\* Two contents are related only while both are enriched, whatever other
\* requests enrich or rebuild at the same time, and with a score of at least
\* the minimum that one of them gives the other
\* (ContentRelationshipService.rebuild_content).
THEOREM LinksAreAlwaysJustified == Spec => []LinksAreJustified
<1>1. DerivedSound => LinksAreJustified
  BY DEF DerivedSound
<1> QED
  BY <1>1, AlwaysDerived, PTL

----------------------------------------------------------------------------
(* Vectors *)

\* A step that writes no embedding and takes no text back.
LEMMA VectorsStay ==
    ASSUME VectorsSound, UNCHANGED <<embedding, overtaken>>,
           \A c \in Content : text[c] = Enriched => text'[c] = Enriched
    PROVE  VectorsSound'
BY DEF VectorsSound

\* A step that writes only the embedding of content c, which it makes sound.
LEMMA VectorsChange ==
    ASSUME VectorsSound, text' = text, NEW c \in Content, NEW row,
           RowsSound, embedding' = [embedding EXCEPT ![c] = row],
           overtaken' \ {c} = overtaken \ {c},
           row # NONE =>
             /\ text[c] # Enriched => row.hash # Enriched
             /\ row.status = "completed" /\ c \notin overtaken' => row.vector = row.hash
    PROVE  VectorsSound'
<1> SUFFICES ASSUME NEW d \in Content, embedding'[d] # NONE
             PROVE  /\ text[d] # Enriched => embedding'[d].hash # Enriched
                    /\ embedding'[d].status = "completed" /\ d \notin overtaken'
                         => embedding'[d].vector = embedding'[d].hash
  BY DEF VectorsSound
<1>1. CASE d = c
  <2>1. embedding'[d] = row
    BY <1>1 DEF RowsSound
  <2> QED
    BY <1>1, <2>1
<1>2. CASE d # c
  <2>1. embedding'[d] = embedding[d] /\ (d \in overtaken' <=> d \in overtaken)
    BY <1>2 DEF RowsSound
  <2> QED
    BY <2>1 DEF VectorsSound
<1> QED
  BY <1>1, <1>2

\* A row that is marked as stale keeps its hash.
LEMMA StaleIsFresh ==
    ASSUME DerivedSound, VectorsSound, NEW r \in Request, mark_stale(r)
    PROVE  VectorsSound'
<1>1. PICK c : c = Current(r)
  OBVIOUS
<1>2. pc[r] = "stale" /\ text' = text /\ overtaken' = overtaken
  BY DEF mark_stale, At, rows
<1>3. /\ SessionSound(pc[r], local[r], text, embedding)
      /\ c = Head(local[r].todo) /\ c \in Content
  BY <1>1, <1>2, AtWork
<1>4. embedding[c] \in EmbeddingRow /\ RowsSound
  BY <1>2, <1>3 DEF SessionSound, DerivedSound, RowsSound
<1>5. PICK row : row = [embedding[c] EXCEPT !.status = "stale"]
  OBVIOUS
<1>6. embedding' \in {embedding, [embedding EXCEPT ![c] = row]}
  BY <1>1, <1>5 DEF mark_stale, rows
<1>7. row.hash = embedding[c].hash /\ row.status = "stale" /\ embedding[c] # NONE
  BY <1>4, <1>5, NoneAssumption DEF EmbeddingRow
<1>8. CASE embedding' = embedding
  BY <1>2, <1>8, VectorsStay
<1>9. CASE embedding' = [embedding EXCEPT ![c] = row]
  <2>1. text[c] # Enriched => row.hash # Enriched
    BY <1>3, <1>7 DEF VectorsSound
  <2> QED
    BY <1>2, <1>3, <1>4, <1>7, <1>9, <2>1, VectorsChange
<1> QED
  BY <1>6, <1>8, <1>9

\* The vector that arrives is of the text the request has loaded, which is not
\* ahead of the content's.  It is stored with the hash of that text, or beside
\* the hash that is there when the request had loaded that hash; that is still
\* the same hash if the request has not been overtaken.
LEMMA AnswerIsFresh ==
    ASSUME DerivedSound, VectorsSound, NEW r \in Request, embedded(r)
    PROVE  VectorsSound'
<1>1. PICK c : c = Current(r)
  OBVIOUS
<1>2. pc[r] = "call" /\ text' = text
  BY DEF embedded, Write, At
<1>3. /\ SessionSound(pc[r], local[r], text, embedding) /\ local[r] \in Session
      /\ c = Head(local[r].todo) /\ c \in Content
      /\ \A d \in Content : local[r].text[d] = Enriched => text[d] = Enriched
  BY <1>1, <1>2, AtWork
<1>4. RowsSound
  BY DEF DerivedSound
<1>5. text[c] # Enriched => digest(r) # Enriched
  BY <1>1, <1>3 DEF digest
<1>6. local[r].row # NONE => embedding[c] # NONE
  BY <1>2, <1>3 DEF SessionSound
<1>7. PICK hash : hash = IF local[r].row # NONE /\ local[r].row.hash = digest(r)
                         THEN embedding[c].hash ELSE digest(r)
  OBVIOUS
<1>8. PICK row : row = [vector |-> digest(r), hash |-> hash, status |-> "completed"]
  OBVIOUS
<1>9. /\ embedding' = [embedding EXCEPT ![c] = row]
      /\ overtaken' = IF Overtaken(r) THEN overtaken \cup {c} ELSE overtaken \ {c}
  BY <1>1, <1>7, <1>8 DEF embedded, Write
<1>10. text[c] # Enriched => hash # Enriched
  BY <1>3, <1>5, <1>6, <1>7 DEF VectorsSound
<1>11. c \notin overtaken' => hash = digest(r)
  <2> SUFFICES ASSUME c \notin overtaken' PROVE hash = digest(r)
    OBVIOUS
  <2>1. ~Overtaken(r)
    BY <1>9
  <2> QED
    BY <1>1, <1>7, <2>1 DEF Overtaken
<1>12. row.hash = hash /\ row.vector = digest(r)
  BY <1>8
<1>13. overtaken' \ {c} = overtaken \ {c}
  BY <1>9
<1> QED
  BY <1>2, <1>3, <1>4, <1>9, <1>10, <1>11, <1>12, <1>13, VectorsChange

\* After the provider's failure nothing is usable.
LEMMA FailureIsFresh ==
    ASSUME DerivedSound, VectorsSound, NEW r \in Request, embedding_fails(r)
    PROVE  VectorsSound'
<1>1. PICK c : c = Current(r)
  OBVIOUS
<1>2. pc[r] = "call" /\ text' = text /\ overtaken' = overtaken
  BY DEF embedding_fails, Write, At
<1>3. c \in Content
  BY <1>1, <1>2, AtWork
<1>4. RowsSound /\ embedding[c] \in EmbeddingRow \cup {NONE}
  BY <1>3 DEF DerivedSound, RowsSound
<1>5. PICK row : row = IF embedding[c] = NONE
                       THEN [vector |-> NONE, hash |-> NONE, status |-> "failed"]
                       ELSE [embedding[c] EXCEPT !.status = "failed"]
  OBVIOUS
<1>6. embedding' = [embedding EXCEPT ![c] = row]
  BY <1>1, <1>5 DEF embedding_fails, Write
<1>7. row.status = "failed" /\ row.hash = IF embedding[c] = NONE THEN NONE ELSE embedding[c].hash
  BY <1>4, <1>5 DEF EmbeddingRow
<1>8. text[c] # Enriched => row.hash # Enriched
  BY <1>3, <1>7, NoneAssumption DEF VectorsSound, Texts, Enriched
<1> QED
  BY <1>2, <1>3, <1>4, <1>6, <1>7, <1>8, VectorsChange

\* All other steps write no embedding, and only the enrichment a text.
LEMMA OthersWriteNoVector ==
    ASSUME NEW r \in Request, Start(r) \/ Step(r) \/ Failure(r),
           ~mark_stale(r), ~embedded(r), ~embedding_fails(r)
    PROVE  UNCHANGED <<embedding, overtaken>> /\ (enrich_content(r) \/ text' = text)
<1>1. \/ \E event, label, force, C, loaded : Begin(r, event, label, force, C, loaded)
      \/ ~Start(r)
  BY DEF Start, EnrichmentStart, EmbeddingsStart, RelationshipsStart, enrich_one_content,
         run_enrichment, generate, generate_batch, rebuild_content, rebuild_batch
<1> QED
  BY <1>1 DEF Begin, Step, Failure, EnrichmentStep, EmbeddingsStep, RelationshipsStep,
         enrich_content, refresh, record_failure, failure, read_text, read_row, reload_row,
         flush_processing, get_target, read_candidates, read_existing, store, store_fails, rows

\* Vectors stay sound, however many requests embed a content at a time.
LEMMA VectorsStaySound == DerivedSound /\ VectorsSound /\ [Next]_vars => VectorsSound'
<1>1. ASSUME VectorsSound, UNCHANGED vars PROVE VectorsSound'
  BY <1>1, VectorsStay DEF vars, rows
<1>2. ASSUME DerivedSound, VectorsSound, NEW r \in Request, Start(r) \/ Step(r) \/ Failure(r)
      PROVE  VectorsSound'
  <2>1. CASE mark_stale(r)
    BY <1>2, <2>1, StaleIsFresh
  <2>2. CASE embedded(r)
    BY <1>2, <2>2, AnswerIsFresh
  <2>3. CASE embedding_fails(r)
    BY <1>2, <2>3, FailureIsFresh
  <2>4. CASE ~(mark_stale(r) \/ embedded(r) \/ embedding_fails(r))
    <3>1. UNCHANGED <<embedding, overtaken>> /\ (enrich_content(r) \/ text' = text)
      BY <1>2, <2>4, OthersWriteNoVector
    <3>2. enrich_content(r) => text' = [text EXCEPT ![Current(r)] = Enriched]
      BY DEF enrich_content
    <3>3. \A c \in Content : text[c] = Enriched => text'[c] = Enriched
      BY <1>2, <3>1, <3>2 DEF DerivedSound, RowsSound
    <3> QED
      BY <1>2, <3>1, <3>3, VectorsStay
  <2> QED
    BY <2>1, <2>2, <2>3, <2>4
<1> QED
  BY <1>1, <1>2 DEF Next

\* The hashes and the vectors are right in every state.
THEOREM VectorsAlwaysSound == Spec => []VectorsSound
<1>1. Init => VectorsSound
  BY DEF Init, VectorsSound
<1> QED
  BY <1>1, VectorsStaySound, AlwaysDerived, PTL DEF Spec

\* A completed record that matches the text of its content has the vector of
\* that text ("Only matching completed records are usable"), unless the vector
\* was stored by a request that had loaded an embedding which another request
\* had replaced by then: nothing else breaks the promise, whatever enrichments,
\* failures and other embedding requests overlap (EmbeddingService.generate).
THEOREM VectorsAreOfTheirText == Spec => []VectorIsOfItsTextUnlessOvertaken
<1>1. VectorsSound => VectorIsOfItsTextUnlessOvertaken
  BY DEF VectorsSound, VectorIsOfItsTextUnlessOvertaken, IsEligible, is_stale
<1> QED
  BY <1>1, VectorsAlwaysSound, PTL

\* What a search is offered of a content.
Offered == [c \in Content |-> IF IsEligible(c) THEN embedding[c].vector ELSE NONE]

\* What a row offers of a content with this text.
OfferOf(row, t) ==
    IF row # NONE /\ row.status = "completed" /\ row.hash = t /\ row.vector # NONE
    THEN row.vector ELSE NONE

\* The offer of a content depends on its row and its text.
LEMMA OfferedIs ==
    /\ Offered = [c \in Content |-> OfferOf(embedding[c], text[c])]
    /\ Offered' = [c \in Content |-> OfferOf(embedding'[c], text'[c])]
BY DEF Offered, OfferOf, IsEligible, is_stale

\* The text index takes a step with every step of a request.
LEMMA StepIsIndexStep ==
    ASSUME DerivedSound, VectorsSound, VectorsSound', NEW r \in Request,
           Start(r) \/ Step(r) \/ Failure(r)
    PROVE  Index!Next \/ UNCHANGED <<text, Offered, overtaken>>
<1>1. CASE UNCHANGED <<text, embedding, overtaken>>
  BY <1>1, OfferedIs
<1>2. CASE enrich_content(r)
  <2>1. PICK c : c = Current(r)
    OBVIOUS
  <2>2. text' = [text EXCEPT ![c] = Enriched] /\ embedding' = embedding /\ overtaken' = overtaken
    BY <1>2, <2>1 DEF enrich_content
  <2>3. pc[r] # "idle"
    BY <1>2 DEF enrich_content, At
  <2>4. c \in Content /\ text \in [Content -> Texts]
    BY <2>1, <2>3, AtWork DEF DerivedSound, RowsSound
  <2>5. CASE text[c] = Enriched
    <3>1. text' = text
      BY <2>2, <2>4, <2>5
    <3> QED
      BY <1>1, <2>2, <3>1
  <2>6. CASE text[c] # Enriched
    <3>1. text[c] = "raw" /\ text' = [text EXCEPT ![c] = "enriched"]
      BY <2>2, <2>4, <2>6 DEF Texts, Enriched
    <3>2. embedding[c] # NONE => embedding[c].hash # Enriched
      BY <2>4, <2>6 DEF VectorsSound
    <3>3. OfferOf(embedding'[c], text'[c]) = NONE
      BY <2>2, <2>4, <3>1, <3>2 DEF OfferOf, Enriched
    <3>4. \A d \in Content \ {c} : OfferOf(embedding'[d], text'[d]) = OfferOf(embedding[d], text[d])
      BY <2>2, <2>4, <3>1
    <3>5. Offered' = [Offered EXCEPT ![c] = NONE]
      BY <2>4, <3>3, <3>4, OfferedIs
    <3>6. Index!Rewrite(c)
      BY <2>2, <3>1, <3>5 DEF Index!Rewrite, Offered
    <3> QED
      BY <2>4, <3>6 DEF Index!Next
  <2> QED
    BY <2>5, <2>6
<1>3. ASSUME text' = text, NEW c \in Content, \A d \in Content \ {c} : embedding'[d] = embedding[d]
      PROVE  Offered' = [Offered EXCEPT ![c] = OfferOf(embedding'[c], text[c])]
  <2>1. \A d \in Content \ {c} : OfferOf(embedding'[d], text'[d]) = OfferOf(embedding[d], text[d])
    BY <1>3
  <2> QED
    BY <1>3, <2>1, OfferedIs
<1>4. CASE mark_stale(r) \/ embedded(r) \/ embedding_fails(r)
  <2>1. PICK c : c = Current(r)
    OBVIOUS
  <2>2. pc[r] # "idle"
    BY <1>4 DEF mark_stale, embedded, embedding_fails, Write, At
  <2>3. c \in Content /\ embedding \in [Content -> EmbeddingRow \cup {NONE}] /\ overtaken \subseteq Content
    BY <2>1, <2>2, AtWork DEF DerivedSound, RowsSound
  <2>4. text' = text
    BY <1>4 DEF mark_stale, embedded, embedding_fails, Write, rows
  <2>5. \A d \in Content \ {c} : embedding'[d] = embedding[d]
    BY <1>4, <2>1, <2>3 DEF mark_stale, embedded, embedding_fails, Write, rows
  <2>6. PICK offer : offer = OfferOf(embedding'[c], text[c])
    OBVIOUS
  <2>7. Offered' = [Offered EXCEPT ![c] = offer]
    BY <1>3, <2>3, <2>4, <2>5, <2>6
  <2>8. overtaken' \in {overtaken, overtaken \ {c}} => offer \in {NONE, text[c]} \/ c \in overtaken'
    BY <2>3, <2>4, <2>6 DEF VectorsSound, OfferOf
  <2>9. CASE offer = NONE /\ overtaken' \in {overtaken, overtaken \ {c}}
    <3>1. Index!Withdraw(c)
      BY <2>4, <2>7, <2>9 DEF Index!Withdraw, Offered
    <3> QED
      BY <2>3, <3>1 DEF Index!Next
  <2>10. CASE offer = text[c] /\ overtaken' = overtaken \ {c}
    <3>1. Index!Offer(c)
      BY <2>4, <2>7, <2>10 DEF Index!Offer, Offered
    <3> QED
      BY <2>3, <3>1 DEF Index!Next
  <2>11. CASE offer \in {"raw", "enriched", NONE} /\ overtaken' = overtaken \cup {c}
    <3>1. Index!Overtake(c)
      BY <2>4, <2>7, <2>11 DEF Index!Overtake, Offered
    <3> QED
      BY <2>3, <3>1 DEF Index!Next
  <2>12. CASE mark_stale(r)
    <3>1. overtaken' = overtaken /\ embedding' \in {embedding, [embedding EXCEPT ![c].status = "stale"]}
      BY <2>1, <2>12 DEF mark_stale, rows
    <3>2. CASE embedding' = embedding
      BY <1>1, <2>4, <3>1, <3>2
    <3>3. CASE embedding' = [embedding EXCEPT ![c].status = "stale"]
      <4>1. SessionSound(pc[r], local[r], text, embedding) /\ pc[r] = "stale" /\ c = Head(local[r].todo)
        BY <2>1, <2>2, <2>12, AtWork DEF mark_stale, At
      <4>2. embedding[c] \in EmbeddingRow
        BY <2>3, <4>1 DEF SessionSound
      <4>3. embedding'[c].status = "stale"
        BY <2>3, <3>3, <4>2 DEF EmbeddingRow
      <4>4. offer = NONE
        BY <2>6, <4>3 DEF OfferOf
      <4> QED
        BY <2>9, <3>1, <4>4
    <3> QED
      BY <3>1, <3>2, <3>3
  <2>13. CASE embedding_fails(r)
    <3>1. overtaken' = overtaken
      BY <2>13 DEF embedding_fails
    <3>2. embedding'[c].status = "failed"
      BY <2>1, <2>3, <2>13 DEF embedding_fails, Write, EmbeddingRow
    <3>3. offer = NONE
      BY <2>6, <3>2 DEF OfferOf
    <3> QED
      BY <2>9, <3>1, <3>3
  <2>14. CASE embedded(r)
    <3>1. overtaken' \in {overtaken \cup {c}, overtaken \ {c}}
      BY <2>1, <2>14 DEF embedded
    <3>2. CASE overtaken' = overtaken \cup {c}
      <4>1. embedding'[c].vector = digest(r)
        BY <2>1, <2>3, <2>14 DEF embedded, Write
      <4>2. local[r] \in Session
        BY <2>2, AtWork
      <4>3. digest(r) \in Texts \cup {NONE}
        BY <2>1, <2>3, <4>2 DEF digest, Session
      <4>4. offer \in Texts \cup {NONE}
        BY <2>6, <4>1, <4>3 DEF OfferOf
      <4> QED
        BY <2>11, <3>2, <4>4 DEF Texts
    <3>3. CASE overtaken' = overtaken \ {c}
      <4>1. offer \in {NONE, text[c]}
        BY <2>8, <3>3
      <4> QED
        BY <2>9, <2>10, <3>3, <4>1
    <3> QED
      BY <3>1, <3>2, <3>3
  <2> QED
    BY <1>4, <2>12, <2>13, <2>14
<1>5. CASE ~(enrich_content(r) \/ mark_stale(r) \/ embedded(r) \/ embedding_fails(r))
  BY <1>1, <1>5, OthersWriteNoVector
<1> QED
  BY <1>2, <1>4, <1>5

\* Whatever overtakes the provider's answer, a search finds a content by the
\* vector of its present text or does not find it, unless a request stored the
\* vector which another had overtaken: DerivedData implements the text index.
THEOREM TextIndexIsImplemented == Spec => ImplementsTextIndex
<1>1. Init => Index!Init
  BY DEF Init, Index!Init, Texts, Enriched, IsEligible
<1>2. DerivedSound /\ VectorsSound /\ VectorsSound' /\ [Next]_vars
        => [Index!Next]_<<text, Offered, overtaken>>
  <2>1. ASSUME DerivedSound, VectorsSound, VectorsSound', Next
        PROVE  Index!Next \/ UNCHANGED <<text, Offered, overtaken>>
    BY <2>1, StepIsIndexStep DEF Next
  <2>2. ASSUME UNCHANGED vars PROVE UNCHANGED <<text, Offered, overtaken>>
    <3>1. text' = text /\ embedding' = embedding /\ overtaken' = overtaken
      BY <2>2 DEF vars, rows
    <3> QED
      BY <3>1, OfferedIs
  <2> QED
    BY <2>1, <2>2
<1> QED
  BY <1>1, <1>2, AlwaysDerived, VectorsAlwaysSound, PTL
     DEF Spec, ImplementsTextIndex, Index!Spec, Offered

----------------------------------------------------------------------------
(* Rebuilds *)

\* A content is ahead of another one for a target with a higher score, or with
\* the same score and the smaller number.
IsBetter(t, d, c) == Score(t, d) > Score(t, c) \/ (Score(t, d) = Score(t, c) /\ d < c)

\* The elements of S with fewer than n others ahead of them in R.
Foremost(n, S, R) == {c \in S : Cardinality({d \in S : <<d, c>> \in R}) < n}

\* The elements of B are ahead of all others of S in R.
Leads(B, S, R) == \A b \in B : \A c \in S \ B : <<b, c>> \in R

\* Of a finite set with a strict total order, those with fewer than n others
\* ahead of them are n, or all of them, and are ahead of all others.
LEMMA FirstOfOrder ==
    ASSUME NEW S, IsFiniteSet(S), NEW R,
           \A a, b \in S : a # b => <<a, b>> \in R \/ <<b, a>> \in R,
           \A a \in S : <<a, a>> \notin R,
           \A a, b, c \in S : <<a, b>> \in R /\ <<b, c>> \in R => <<a, c>> \in R,
           NEW n \in Nat, NEW B,
           B = Foremost(n, S, R)
    PROVE  /\ Cardinality(B) = IF Cardinality(S) < n THEN Cardinality(S) ELSE n
           /\ Leads(B, S, R)
<1> DEFINE k == Cardinality(S)
           m == IF k < n THEN k ELSE n
<1>1. PICK rank : rank = [c \in S |-> Cardinality({d \in S : <<d, c>> \in R})]
  OBVIOUS
<1>2. B = {c \in S : rank[c] < n}
  BY <1>1 DEF Foremost
<1>3. /\ rank \in Bijection(S, 0..k - 1)
      /\ \A a, b \in S : <<a, b>> \in R <=> rank[a] < rank[b]
  BY <1>1, Ranks
<1>4. k \in Nat
  BY FS_CardinalityType
<1> HIDE DEF k
<1>5. /\ \A c \in S : rank[c] \in 0..k - 1
      /\ \A a, b \in S : rank[a] = rank[b] => a = b
      /\ \A i \in 0..k - 1 : \E c \in S : rank[c] = i
  BY <1>3 DEF Bijection, Injection, IsInjective, Surjection
<1>6. m \in Nat /\ m <= k /\ m <= n /\ (m = k \/ m = n)
  BY <1>4
<1> HIDE DEF m
<1>7. \A c \in B : c \in S /\ rank[c] \in 0..m - 1
  BY <1>2, <1>4, <1>5, <1>6
<1>8. PICK f : f = [c \in B |-> rank[c]]
  OBVIOUS
<1>9. f \in Bijection(B, 0..m - 1)
  <2>1. f \in [B -> 0..m - 1]
    BY <1>7, <1>8
  <2>2. \A a, b \in B : f[a] = f[b] => a = b
    BY <1>5, <1>7, <1>8
  <2>3. ASSUME NEW i \in 0..m - 1 PROVE \E c \in B : f[c] = i
    <3>1. i \in 0..k - 1 /\ i < n
      BY <1>4, <1>6
    <3>2. PICK c \in S : rank[c] = i
      BY <1>5, <3>1
    <3>3. c \in B
      BY <1>2, <3>1, <3>2
    <3> QED
      BY <1>8, <3>2, <3>3
  <2> QED
    BY <2>1, <2>2, <2>3 DEF Bijection, Injection, IsInjective, Surjection
<1>10. IsFiniteSet(B)
  <2>1. B \in SUBSET S
    BY <1>2
  <2> QED
    BY <2>1, FS_Subset
<1>11. Cardinality(B) = Cardinality(0..m - 1)
  BY <1>9, <1>10, FS_Bijection DEF ExistsBijection
<1>12. Cardinality(0..m - 1) = m
  <2>1. 0 \in Int /\ m - 1 \in Int
    BY <1>6
  <2>2. Cardinality(0..m - 1) = IF 0 > m - 1 THEN 0 ELSE m - 1 - 0 + 1
    BY <2>1, FS_Interval
  <2> QED
    BY <1>6, <2>2
<1>13. ASSUME NEW b \in B, NEW c \in S \ B PROVE <<b, c>> \in R
  <2>1. b \in S /\ rank[b] < n /\ ~(rank[c] < n) /\ rank[b] \in Int /\ rank[c] \in Int
    BY <1>2, <1>4, <1>5
  <2>2. rank[b] < rank[c]
    BY <2>1
  <2> QED
    BY <1>3, <2>1, <2>2
<1> QED
  BY <1>11, <1>12, <1>13 DEF m, k, Leads

\* Only one set of so many is ahead of all others.
LEMMA OneIsBest ==
    ASSUME NEW S, IsFiniteSet(S), NEW R,
           \A a, b \in S : ~(<<a, b>> \in R /\ <<b, a>> \in R),
           NEW A \in SUBSET S, NEW B \in SUBSET S, Cardinality(A) = Cardinality(B),
           Leads(A, S, R), Leads(B, S, R)
    PROVE  A = B
<1>1. IsFiniteSet(A) /\ IsFiniteSet(B)
  BY FS_Subset
<1>2. CASE A \subseteq B
  BY <1>1, <1>2, FS_Subset
<1>3. CASE B \subseteq A
  BY <1>1, <1>3, FS_Subset
<1>4. CASE ~(A \subseteq B) /\ ~(B \subseteq A)
  <2>1. PICK a \in A : a \notin B
    BY <1>4
  <2>2. PICK b \in B : b \notin A
    BY <1>4
  <2>3. a \in S \ B /\ b \in S \ A
    BY <2>1, <2>2
  <2>4. <<a, b>> \in R /\ <<b, a>> \in R
    BY <2>1, <2>2, <2>3 DEF Leads
  <2> QED
    BY <2>3, <2>4
<1> QED
  BY <1>2, <1>3, <1>4

\* The order of a target's candidates is total.
LEMMA BetterIsOrder ==
    ASSUME NEW t \in Content, NEW S \in SUBSET (Content \ {t}), NEW R,
           \A a, b \in S : <<a, b>> \in R <=> IsBetter(t, a, b)
    PROVE  /\ \A a, b \in S : a # b => <<a, b>> \in R \/ <<b, a>> \in R
           /\ \A a, b \in S : ~(<<a, b>> \in R /\ <<b, a>> \in R)
           /\ \A a \in S : <<a, a>> \notin R
           /\ \A a, b, c \in S : <<a, b>> \in R /\ <<b, c>> \in R => <<a, c>> \in R
<1>1. \A a \in S : Score(t, a) \in Nat /\ a \in Nat
  BY ScoreType, StoreAssumption
<1>2. \A a, b \in S : a # b => IsBetter(t, a, b) \/ IsBetter(t, b, a)
  BY <1>1 DEF IsBetter
<1>3. \A a, b \in S : ~(IsBetter(t, a, b) /\ IsBetter(t, b, a))
  BY <1>1 DEF IsBetter
<1>4. \A a \in S : ~IsBetter(t, a, a)
  BY <1>1 DEF IsBetter
<1>5. \A a, b, c \in S : IsBetter(t, a, b) /\ IsBetter(t, b, c) => IsBetter(t, a, c)
  BY <1>1 DEF IsBetter
<1> QED
  BY <1>2, <1>3, <1>4, <1>5

\* What a rebuild keeps are the best candidates.
LEMMA QualifiedIsBest ==
    ASSUME NEW t \in Content, NEW candidates \in SUBSET (Content \ {t})
    PROVE  Qualified(t, candidates) = BestPairs(t, candidates)
<1>1. PICK S : S = {c \in candidates : Score(t, c) >= Minimum}
  OBVIOUS
<1>2. S \in SUBSET (Content \ {t}) /\ IsFiniteSet(S)
  <2>1. S \in SUBSET Content
    BY <1>1
  <2> QED
    BY <1>1, <2>1, StoreAssumption, FS_Subset
<1>3. PICK R : R = {p \in S \X S : IsBetter(t, p[1], p[2])}
  OBVIOUS
<1>4. \A a, b \in S : <<a, b>> \in R <=> IsBetter(t, a, b)
  BY <1>3
<1>5. /\ \A a, b \in S : a # b => <<a, b>> \in R \/ <<b, a>> \in R
      /\ \A a, b \in S : ~(<<a, b>> \in R /\ <<b, a>> \in R)
      /\ \A a \in S : <<a, a>> \notin R
      /\ \A a, b, c \in S : <<a, b>> \in R /\ <<b, c>> \in R => <<a, c>> \in R
  BY <1>2, <1>4, BetterIsOrder
<1> DEFINE k == IF Cardinality(S) < MaxRelated THEN Cardinality(S) ELSE MaxRelated
           Best(B) == /\ Cardinality(B) = k
                      /\ \A b \in B, c \in S \ B : IsBetter(t, b, c)
<1>6. PICK Q : Q = Foremost(MaxRelated, S, R)
  OBVIOUS
<1>7. Qualified(t, candidates) = Q
  <2>1. Qualified(t, candidates) = {c \in S : Cardinality({d \in S : IsBetter(t, d, c)}) < MaxRelated}
    BY <1>1 DEF Qualified, First, IsBetter
  <2>2. ASSUME NEW c \in S PROVE {d \in S : IsBetter(t, d, c)} = {d \in S : <<d, c>> \in R}
    BY <1>4
  <2> QED
    BY <1>6, <2>1, <2>2 DEF Foremost
<1>8. Q \in SUBSET S
  BY <1>6 DEF Foremost
<1>9. MaxRelated \in Nat
  BY RelationshipAssumption
<1>10. Cardinality(Q) = k
  BY <1>2, <1>5, <1>6, <1>9, FirstOfOrder
<1>11. Leads(Q, S, R)
  BY <1>2, <1>5, <1>6, <1>9, FirstOfOrder
<1>12. Best(Q)
  BY <1>4, <1>8, <1>10, <1>11 DEF Leads
<1>13. ASSUME NEW B \in SUBSET S, Best(B) PROVE B = Q
  <2>1. Leads(B, S, R)
    BY <1>4, <1>13 DEF Leads
  <2>2. Cardinality(B) = Cardinality(Q)
    BY <1>10, <1>13
  <2> QED
    BY <1>2, <1>5, <1>8, <1>11, <2>1, <2>2, OneIsBest
<1>14. BestPairs(t, candidates) = CHOOSE B \in SUBSET S : Best(B)
  BY <1>1 DEF BestPairs, IsBetter
<1> HIDE DEF Best
<1>15. (CHOOSE B \in SUBSET S : Best(B)) = Q
  BY <1>8, <1>12, <1>13
<1> QED
  BY <1>7, <1>14, <1>15

\* A rebuild leaves its content with exactly its best candidates, at their
\* scores, except for pairs that another rebuild has written since it looked,
\* and writes no pair of two others (ContentRelationshipRepository.rebuild).
THEOREM RebuildsAreExact == Spec => RebuildIsExact
<1> DEFINE Exact(r) ==
             LET t == Current(r)
                 best == BestPairs(t, local[r].candidates)
             IN \A p \in Pairs :
                  /\ t \notin p => links'[p] = links[p]
                  /\ t \in p /\ Untouched(r, p) =>
                       LET c == CHOOSE c \in p : c # t
                       IN links'[p] = IF c \in best THEN Calculated(t, c) ELSE NONE
<1>1. ASSUME DerivedSound, NEW r \in Request, store(r)
      PROVE  Exact(r)
  <2>1. PICK t : t = Current(r)
    OBVIOUS
  <2>2. PICK S : S = local[r].candidates
    OBVIOUS
  <2>3. pc[r] = "store"
    BY <1>1 DEF store, At
  <2>4. /\ SessionSound(pc[r], local[r], text, embedding) /\ local[r] \in Session
        /\ t = Head(local[r].todo) /\ t \in Content
    BY <1>1, <2>1, <2>3, AtWork
  <2>5. S \in SUBSET (Content \ {t})
    BY <2>2, <2>3, <2>4 DEF SessionSound, Session
  <2>6. Qualified(t, S) = BestPairs(t, S)
    BY <2>4, <2>5, QualifiedIsBest
  <2>7. links' = [p \in Pairs |-> IF p \in Created(r) \cup Updated(r) THEN Wanted(r, p)
                                  ELSE IF p \in Removed(r) THEN NONE ELSE links[p]]
    BY <1>1 DEF store
  <2>8. /\ Created(r) = {p \in Incident(t) : local[r].had[p] = NONE /\ Wanted(r, p) # NONE}
        /\ Deleted(r) = {p \in Incident(t) : local[r].had[p] # NONE /\ Wanted(r, p) = NONE}
        /\ Updated(r) = {p \in Incident(t) :
                 local[r].had[p] # NONE /\ Wanted(r, p) \notin {NONE, local[r].had[p]}}
        /\ Removed(r) = Deleted(r) \ local[r].lost
    BY <2>1 DEF Created, Deleted, Updated, Removed
  <2>9. ASSUME NEW p \in Pairs, t \notin p PROVE links'[p] = links[p]
    <3>1. p \notin Incident(t)
      BY <2>9 DEF Incident
    <3> QED
      BY <2>7, <2>8, <3>1
  <2>10. ASSUME NEW p \in Pairs, t \in p, Untouched(r, p),
                NEW c, c = CHOOSE x \in p : x # t
         PROVE  links'[p] = IF c \in BestPairs(t, S) THEN Calculated(t, c) ELSE NONE
    <3>1. p \in Incident(t)
      BY <2>10 DEF Incident
    <3>2. PICK d \in Content \ {t} : p = {t, d}
      BY <2>4, <3>1, Partner
    <3>3. c = d
      BY <2>4, <2>10, <3>2, PairType
    <3>4. Wanted(r, p) = IF d \in Qualified(t, S) THEN Calculated(t, d) ELSE NONE
      <4>1. CASE d \in Qualified(t, S)
        BY <2>1, <2>2, <2>10, <3>2, <3>3, <4>1 DEF Wanted
      <4>2. CASE d \notin Qualified(t, S)
        <5>1. ~\E x \in Qualified(t, S) : p = {t, x}
          BY <3>2, <4>2
        <5> QED
          BY <2>1, <2>2, <4>2, <5>1 DEF Wanted
      <4> QED
        BY <4>1, <4>2
    <3>5. links[p] = local[r].had[p] /\ p \notin local[r].lost
      BY <2>10 DEF Untouched
    <3>6. links'[p] = Wanted(r, p)
      BY <2>7, <2>8, <2>10, <3>1, <3>5
    <3> QED
      BY <2>6, <3>3, <3>4, <3>6
  <2> QED
    BY <2>1, <2>2, <2>9, <2>10
<1>2. DerivedSound => [\A r \in Request : store(r) => Exact(r)]_vars
  BY <1>1
<1> QED
  BY <1>2, AlwaysDerived, PTL DEF RebuildIsExact
============================================================================
