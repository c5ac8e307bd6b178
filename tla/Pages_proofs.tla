----------------------------- MODULE Pages_proofs -----------------------------
(***************************************************************************)
(* Theorems about the two pages of the application.                         *)
(*                                                                         *)
(* The chat, with the server it talks to (RagAnswer).  The server's part of *)
(* the invariant says what a search, an answer and a stream may have done;  *)
(* the page's part, that it follows the question it sent last; AnswersFit   *)
(* ties them: what a message shows, what waits to be rendered and what is   *)
(* on the wire make up what the server has said, in its order.              *)
(*                                                                         *)
(* The panel of the runs (RunPanel), with TypesPanel and ReadsInOrder: the  *)
(* list, the request that counts and the rows are in the order of the run's *)
(* history.                                                                 *)
(*                                                                         *)
(* Neither is a part of the other: the names of RunPanel are its own so     *)
(* that both can be proved about in one module.                             *)
(***************************************************************************)
EXTENDS RagAnswer, RunPanel, SequenceTheorems, FiniteSetTheorems, WellFoundedInduction,
        TLAPS

-----------------------------------------------------------------------------
(* Induction: the rule of the library takes an operator, this one a set *)

LEMMA Induction ==
    ASSUME NEW S \in SUBSET Nat, 0 \in S, \A n \in S : n + 1 \in S PROVE S = Nat
<1> DEFINE T == Nat \ S
<1> SUFFICES ASSUME T # {} PROVE FALSE
  OBVIOUS
<1>1. IsWellFoundedOn(OpToRel(<, Nat), Nat)
  BY NatLessThanWellFounded
<1>2. PICK x \in T : \A y \in T : ~(<<y, x>> \in OpToRel(<, Nat))
  BY <1>1, WFMin
<1>3. x # 0 /\ x - 1 \in Nat
  OBVIOUS
<1>4. <<x - 1, x>> \in OpToRel(<, Nat)
  BY <1>3 DEF OpToRel
<1>5. x - 1 \in S
  BY <1>2, <1>3, <1>4
<1>6. (x - 1) + 1 = x
  BY <1>3
<1> QED
  BY <1>5, <1>6

-----------------------------------------------------------------------------
(* The invariants *)

\* How an item got into a result: past the filter, or by the OR of the substring search.
MayBeHit(i) == i \in Points /\ PassesPayload(i)
MayBeFound(i) == i \in Rows /\ (keyword # "widened" => PassesRow(i))

(* What the branches hold passed the filter of the question, which does not *)
(* change while they run.                                                   *)
ResultsPass ==
    /\ \A i \in ToSet(hits) : MayBeHit(i) /\ (dense = "done" => i \in Rows)
    /\ \A i \in ToSet(found) : MayBeFound(i)
    /\ Len(found) <= Limit /\ (dense = "done" => Len(hits) <= Limit)
    /\ dense \in {"off", "embedding", "searching"} => hits = <<>>
    /\ keyword \in {"off", "fts", "ilike"} => found = <<>>
    /\ conn = "connecting" => keyword \in {"fts", "ilike"}

\* The variables as sequences and records, where the run checks their elements.
Message == [status : {"none", "streaming", "done", "error"},
            text : Seq(Questions \X (0..MaxText)), sources : Seq(Rows)]

UpdateKinds == {"append", "finish", "fail", "settle", "idle"}

Updates == [kind : UpdateKinds, arg : (Questions \X (0..MaxText)) \cup Seq(Rows),
            at : Questions \cup {None, Later}]

(* A question is silent before it streams, and a chat is not for the page.  *)
QuietBefore == \A q \in Questions :
    /\ phase[q] \in {"idle", "retrieving", "chatting", "falling", "failing", "refused"} => told[q] = 0
    /\ phase[q] = "idle" => wire[q] = <<>>
    /\ phase[q] = "chatting" => op[q] = "rag"

(* The page follows the question it sent last, if any: the controller and   *)
(* the ref are that question's or empty, only its fetch is listened to, and *)
(* only the first of the updates that wait may know which message it is for.*)
PageFollows ==
    /\ ref \in {None, ctl}
    /\ reading \cup aborted \subseteq {q \in Questions : phase[q] # "idle"}
    /\ reading \ aborted \subseteq {ctl}
    /\ ctl # None =>
          /\ ctl = latest /\ ctl \in reading \ aborted /\ op[ctl] = "stream"
          /\ shown
          /\ \A i \in DOMAIN pending : pending[i].kind # "idle"
    /\ shown => phase[latest] # "idle"
    /\ ~shown => pending = <<>> /\ ctl = None
    /\ \A i \in DOMAIN pending :
          /\ pending[i].at \in {None, Later} \cup (IF i = 1 THEN {latest} ELSE {})
          /\ pending[i].kind # "settle"

\* The two ways an answer may speak: the numbered pieces of a stream, or one chat.
Pieces == [i \in Nat |-> i]
Whole0 == [i \in Nat |-> 0]

Spoken(q, voice, n) == [i \in 1..n |-> <<q, voice[i]>>]

\* How much the server has said of it, and the events that end it.
Said(q, voice) == IF voice = Pieces THEN told[q] ELSE 1

Ending(q) == CASE phase[q] = "answered" -> <<Done>>
               [] phase[q] = "unanswered" -> <<Error, Done>>
               [] OTHER -> <<>>

MaySpeak(q, voice) ==
    voice = Pieces \/ (voice = Whole0 /\ told[q] = 0 /\ phase[q] \in {"answered", "lost"})

\* On wire w: the tokens of this voice from the n-th on, left of them, and the ending.
Carries(w, voice, n, left, ending) ==
    /\ Len(w) = left + Len(ending)
    /\ \A i \in 1..Len(w) : w[i] = IF i <= left THEN Token(voice[n + i]) ELSE ending[i - left]

\* n tokens of the answer to q have been read: the rest is on the wire.
OnTheWire(q, voice, n) == Carries(wire[q], voice, n, Said(q, voice) - n, Ending(q))

(* While the ref holds q, what the message shows, what waits to be rendered *)
(* and what is on the wire make up what the server has said.                *)
Live(q) == \E voice \in {Pieces, Whole0} :
    LET n == Len(msgs[q].text) IN
    /\ MaySpeak(q, voice)
    /\ msgs[q].status = "streaming"
    /\ msgs[q].text = Spoken(q, voice, n)
    /\ \A i \in DOMAIN pending :
          /\ pending[i].kind = "append" /\ pending[i].at # None
          /\ pending[i].arg = <<q, voice[n + i]>>
    /\ n + Len(pending) <= Said(q, voice)
    /\ IF phase[q] = "lost" THEN wire[q] = <<>> ELSE OnTheWire(q, voice, n + Len(pending))

\* What a message may show.
Voiced(q) == \E voice \in {Pieces, Whole0}, n \in Nat :
    /\ MaySpeak(q, voice)
    /\ n <= Said(q, voice)
    /\ msgs[q].text = Spoken(q, voice, n)

\* The message of q may be shown as done with these sources.
MayFinish(q, sources) ==
    /\ phase[q] \in {"answered", "lost"}
    /\ sources = context[q]
    /\ told[q] > 0 => msgs[q].text = Streamed(q, told[q])

\* The message of q takes this update: the next piece of what is said, or a right end.
Fits(q, u) ==
    /\ u.kind = "append" =>
          /\ msgs[q].status = "streaming"
          /\ \E voice \in {Pieces, Whole0}, n \in Nat :
                /\ MaySpeak(q, voice)
                /\ n + 1 <= Said(q, voice)
                /\ msgs[q].text = Spoken(q, voice, n)
                /\ u.arg = <<q, voice[n + 1]>>
    /\ u.kind = "finish" => MayFinish(q, u.arg)

AnswersFit ==
    /\ \A q \in Questions : ref = q => Live(q)
    /\ \A q \in Questions, u \in Updates :
          pending # <<>> /\ pending[1] = u /\ u.at = q => Fits(q, u)
    /\ \A q \in Questions : Voiced(q)
    /\ \A q \in Questions, sources \in Seq(Rows) :
          msgs[q].status = "done" /\ msgs[q].sources = sources => MayFinish(q, sources)

-----------------------------------------------------------------------------
(* Sequences *)

LEMMA ElementsIn == ASSUME NEW S, NEW s \in Seq(S) PROVE ToSet(s) \subseteq S
BY DEF ToSet

LEMMA CutIn ==
    ASSUME NEW S, NEW s \in Seq(S)
    PROVE  /\ Cut(s) \in Seq(S) /\ ToSet(Cut(s)) \subseteq ToSet(s)
           /\ Len(Cut(s)) = IF Len(s) < Limit THEN Len(s) ELSE Limit
           /\ Len(Cut(s)) <= Len(s) /\ Len(Cut(s)) <= Limit
           /\ \A i \in 1..Len(Cut(s)) : Cut(s)[i] = s[i]
<1> DEFINE n == IF Len(s) < Limit THEN Len(s) ELSE Limit
<1>1. n \in Nat /\ n <= Len(s)
  BY RetrievalAssumption
<1>2. \A i \in 1..n : s[i] \in S
  BY <1>1
<1>3. /\ Cut(s) \in Seq(S)
      /\ \A i \in 1..Len(Cut(s)) : i \in 1..Len(s) /\ Cut(s)[i] = s[i]
      /\ Len(Cut(s)) = n
  BY <1>1, <1>2, SubSeqProperties DEF Cut
<1>4. ToSet(Cut(s)) \subseteq ToSet(s)
  BY <1>3 DEF ToSet
<1>5. Limit \in Nat /\ Len(s) \in Nat
  BY RetrievalAssumption
<1> QED
  BY <1>3, <1>4, <1>5

\* An order of a finite set is a sequence of its elements.
LEMMA OrderIn ==
    ASSUME NEW S, IsFiniteSet(S), NEW s \in SetToSeqs(S) PROVE s \in Seq(S)
<1>1. Cardinality(S) \in Nat
  BY FS_CardinalityType
<1> QED
  BY <1>1 DEF SetToSeqs

LEMMA RankingIn ==
    ASSUME NEW S, IsFiniteSet(S), NEW n, NEW s \in Rankings(S, n) PROVE s \in Seq(S)
<1>1. PICK T \in SUBSET S : s \in SetToSeqs(T)
  BY DEF Rankings
<1>2. IsFiniteSet(T)
  BY FS_Subset
<1> QED
  BY <1>1, <1>2, OrderIn

-----------------------------------------------------------------------------
(* The search *)

RetrievalOK ==
    TypeOKRetrieval /\ hits \in Seq(Points) /\ found \in Seq(Rows) /\ ResultsPass

LEMMA RetrieveOK ==
    ASSUME NEW kind \in Kinds \cup {NoKind}, Retrieve(kind) PROVE RetrievalOK'
BY RetrievalAssumption DEF Retrieve, RetrievalOK, TypeOKRetrieval, ResultsPass, ToSet

LEMMA ReturnsOK == ASSUME RetrievalOK, Returns PROVE RetrievalOK'
BY RetrievalAssumption DEF Returns, RetrievalOK, TypeOKRetrieval, ResultsPass, ToSet

LEMMA SameRetrieval == ASSUME RetrievalOK, UNCHANGED retrievalVars PROVE RetrievalOK'
BY DEF retrievalVars, RetrievalOK, TypeOKRetrieval, ResultsPass, MayBeHit, MayBeFound,
       PassesPayload, PassesRow

LEMMA DenseOK ==
    ASSUME RetrievalOK, NEW up, Embed(up) \/ Search \/ FetchRows \/ FetchRaises PROVE RetrievalOK'
<1> USE DEF RetrievalOK, TypeOKRetrieval, ResultsPass, MayBeHit, MayBeFound, PassesPayload, PassesRow
<1>1. ASSUME Embed(up) PROVE RetrievalOK'
  BY <1>1, RetrievalAssumption DEF Embed, ToSet
<1>2. ASSUME Search PROVE RetrievalOK'
  <2> DEFINE passing == {i \in Points : PassesPayload(i)}
  <2>1. PICK s \in Rankings(passing, 2 * Limit) :
            hits' = s /\ dense' = IF s = <<>> THEN "done" ELSE "fetching"
    BY <1>2 DEF Search
  <2>2. s \in Seq(passing)
    BY <2>1, RankingIn, FS_Subset, RetrievalAssumption
  <2>3. s \in Seq(Points) /\ ToSet(s) \subseteq passing /\ (s = <<>> => ToSet(s) = {} /\ Len(s) <= Limit)
    BY <2>2, ElementsIn, RetrievalAssumption DEF ToSet
  <2> QED
    BY <1>2, <2>1, <2>3 DEF Search
<1>3. ASSUME FetchRows PROVE RetrievalOK'
  <2>1. PICK t \in SetToSeqs(ToSet(hits) \cap Rows) : hits' = Cut(t)
    BY <1>3 DEF FetchRows, Ranked
  <2>2. t \in Seq(ToSet(hits) \cap Rows)
    BY <2>1, OrderIn, FS_Subset, RetrievalAssumption
  <2>3. Cut(t) \in Seq(ToSet(hits) \cap Rows) /\ ToSet(Cut(t)) \subseteq ToSet(hits) \cap Rows
    BY <2>2, CutIn, ElementsIn
  <2>4. hits' \in Seq(Points) /\ ToSet(hits') \subseteq ToSet(hits) \cap Rows /\ Len(hits') <= Limit
    BY <2>1, <2>2, <2>3, CutIn
  <2> QED
    BY <1>3, <2>4 DEF FetchRows
<1>4. ASSUME FetchRaises PROVE RetrievalOK'
  BY <1>4 DEF FetchRaises
<1> QED
  BY <1>1, <1>2, <1>3, <1>4

LEMMA KeywordOK ==
    ASSUME RetrievalOK, Connected \/ NotConnected \/ KeywordRows \/ KeywordFails PROVE RetrievalOK'
<1> USE DEF RetrievalOK, TypeOKRetrieval, ResultsPass, MayBeHit, MayBeFound, PassesPayload, PassesRow
<1>1. ASSUME Connected PROVE RetrievalOK'
  BY <1>1 DEF Connected
<1>2. ASSUME NotConnected PROVE RetrievalOK'
  BY <1>2 DEF NotConnected, ToSet
<1>3. ASSUME KeywordRows PROVE RetrievalOK'
  <2> DEFINE rows == IF keyword = "fts" THEN FtsRows ELSE IlikeRows
  <2>1. rows \subseteq Rows /\ (keyword = "fts" => \A i \in rows : PassesRow(i))
    BY RetrievalAssumption DEF FtsRows, IlikeRows
  <2>2. PICK s \in SetToSeqs(rows) : found' = Cut(s)
    BY <1>3 DEF KeywordRows
  <2>3. s \in Seq(rows)
    BY <2>1, OrderIn, FS_Subset, RetrievalAssumption
  <2>4. found' \in Seq(rows) /\ ToSet(found') \subseteq rows /\ Len(found') <= Limit
    BY <2>2, <2>3, CutIn, ElementsIn
  <2> QED
    BY <1>3, <2>1, <2>4 DEF KeywordRows
<1>4. ASSUME KeywordFails PROVE RetrievalOK'
  BY <1>4 DEF KeywordFails, ToSet
<1> QED
  BY <1>1, <1>2, <1>3, <1>4

\* Whatever the threshold and the scores, the fusion returns what the branches found.
LEMMA ResultsIn ==
    ASSUME RetrievalOK, NEW threshold, NEW r \in Results(threshold), dense = "done"
    PROVE  r \in Seq(Rows) /\ ToSet(r) \subseteq ToSet(hits) \cup ToSet(found)
<1> DEFINE either == ToSet(hits) \cup ToSet(found)
<1>1. either \subseteq Rows
  BY DEF RetrievalOK, TypeOKRetrieval, ResultsPass
<1>2. CASE hits = <<>> /\ found = <<>>
  BY <1>2 DEF Results, ToSet
<1>3. CASE ~(hits = <<>> /\ found = <<>>)
  <2>1. PICK kept \in SUBSET either : \E s \in SetToSeqs(kept) : r = Cut(s)
    BY <1>3 DEF Results, Fuse, Fusions
  <2> PICK s \in SetToSeqs(kept) : r = Cut(s)
    BY <2>1
  <2>2. s \in Seq(kept)
    BY <1>1, OrderIn, FS_Subset, RetrievalAssumption
  <2>3. r \in Seq(kept) /\ ToSet(r) \subseteq kept
    BY <2>1, <2>2, CutIn, ElementsIn
  <2> QED
    BY <1>1, <2>3
<1> QED
  BY <1>2, <1>3

-----------------------------------------------------------------------------
(* The fusion *)

\* The products of the denominators exist, as far as they are needed.
IsProduct(g, n) == g = [k \in 0..n |-> IF k = 0 THEN 1 ELSE (60 + k) * g[k - 1]]

LEMMA ProductGrows ==
    ASSUME NEW n \in Nat, NEW g, IsProduct(g, n) PROVE \E h : IsProduct(h, n + 1)
<1> DEFINE h == [k \in 0..(n + 1) |-> IF k <= n THEN g[k] ELSE (60 + k) * g[n]]
<1>1. \A k \in 0..n : g[k] = IF k = 0 THEN 1 ELSE (60 + k) * g[k - 1]
  BY DEF IsProduct
<1>2. /\ \A k \in 0..n : h[k] = g[k]
      /\ h[n + 1] = (60 + (n + 1)) * g[n]
  OBVIOUS
<1>3. \A k \in 0..(n + 1) : k \in 0..n \/ (k = n + 1 /\ k # 0 /\ k - 1 = n)
  OBVIOUS
<1>4. \A k \in 0..n : k # 0 => k - 1 \in 0..n
  OBVIOUS
<1>5. DOMAIN h = 0..(n + 1) /\ h = [k \in 0..(n + 1) |-> h[k]] /\ n \in 0..n
  OBVIOUS
<1> HIDE DEF h
<1>6. \A k \in 0..(n + 1) : h[k] = IF k = 0 THEN 1 ELSE (60 + k) * h[k - 1]
  BY <1>1, <1>2, <1>3, <1>4, <1>5
<1>7. h = [k \in 0..(n + 1) |-> IF k = 0 THEN 1 ELSE (60 + k) * h[k - 1]]
  BY <1>5, <1>6
<1> QED
  BY <1>7 DEF IsProduct

LEMMA ProductExists == \A n \in Nat : \E g : IsProduct(g, n)
<1> DEFINE S == {n \in Nat : \E g : IsProduct(g, n)}
<1>1. 0 \in S
  <2>1. IsProduct([k \in 0..0 |-> 1], 0)
    BY DEF IsProduct
  <2> QED
    BY <2>1
<1>2. ASSUME NEW n \in S PROVE n + 1 \in S
  BY ProductGrows
<1>3. S = Nat
  <2> HIDE DEF S
  <2> QED
    BY <1>1, <1>2, Induction DEF S
<1> QED
  BY <1>3

LEMMA CommonIs == \E g : IsProduct(g, Limit) /\ Common = g[Limit]
<1> DEFINE g == CHOOSE f : f = [k \in 0..Limit |-> IF k = 0 THEN 1 ELSE (60 + k) * f[k - 1]]
<1>1. Common = g[Limit]
  BY DEF Common
<1>2. \E f : f = [k \in 0..Limit |-> IF k = 0 THEN 1 ELSE (60 + k) * f[k - 1]]
  BY RetrievalAssumption, ProductExists DEF IsProduct
<1>3. IsProduct(g, Limit)
  BY <1>2 DEF IsProduct
<1> QED
  BY <1>1, <1>3

\* Every denominator divides the product.
Divisible(c, n) == \A r \in 1..n : \E k \in Nat : c = (60 + r) * k

LEMMA DivisibleGrows ==
    ASSUME NEW c \in Nat, NEW n \in Nat, Divisible(c, n)
    PROVE  Divisible((60 + (n + 1)) * c, n + 1)
<1> DEFINE d == 60 + (n + 1)
<1>1. d \in Nat
  OBVIOUS
<1> SUFFICES ASSUME NEW r \in 1..(n + 1) PROVE \E k \in Nat : d * c = (60 + r) * k
  BY DEF Divisible
<1>2. CASE r = n + 1
  BY <1>2
<1>3. CASE r # n + 1
  <2>1. r \in 1..n
    BY <1>3
  <2>2. PICK k \in Nat : c = (60 + r) * k
    BY <2>1 DEF Divisible
  <2> DEFINE e == 60 + r
  <2>3. e \in Nat
    OBVIOUS
  <2> HIDE DEF d, e
  <2>4. d * (e * k) = e * (d * k) /\ d * k \in Nat
    BY <1>1, <2>3
  <2> QED
    BY <2>2, <2>4 DEF e
<1> QED
  BY <1>2, <1>3

LEMMA CommonDivisible == Common \in Nat \ {0} /\ Divisible(Common, Limit)
<1>1. PICK g : IsProduct(g, Limit) /\ Common = g[Limit]
  BY CommonIs
<1> DEFINE S == {n \in Nat : n <= Limit => g[n] \in Nat \ {0} /\ Divisible(g[n], n)}
<1>2. Limit \in Nat
  BY RetrievalAssumption
<1>3. \A k \in 0..Limit : g[k] = IF k = 0 THEN 1 ELSE (60 + k) * g[k - 1]
  BY <1>1 DEF IsProduct
<1>4. 0 \in S
  BY <1>2, <1>3 DEF Divisible
<1>5. ASSUME NEW n \in S PROVE n + 1 \in S
  <2> SUFFICES ASSUME n + 1 <= Limit PROVE g[n + 1] \in Nat \ {0} /\ Divisible(g[n + 1], n + 1)
    OBVIOUS
  <2>1. n \in Nat /\ n <= Limit /\ n + 1 \in 0..Limit /\ n + 1 # 0 /\ (n + 1) - 1 = n
    BY <1>2
  <2>2. g[n + 1] = (60 + (n + 1)) * g[n]
    BY <1>3, <2>1
  <2>3. g[n] \in Nat \ {0} /\ Divisible(g[n], n)
    BY <2>1
  <2>4. g[n + 1] \in Nat \ {0}
    BY <2>1, <2>2, <2>3
  <2>5. Divisible(g[n + 1], n + 1)
    BY <2>1, <2>2, <2>3, DivisibleGrows
  <2> QED
    BY <2>4, <2>5
<1>6. S = Nat
  <2> HIDE DEF S
  <2> QED
    BY <1>4, <1>5, Induction DEF S
<1> QED
  BY <1>1, <1>2, <1>6

\* With its share of both branches, an item at the end of two rankings is worth more
\* than one at the top of a single ranking, as long as the rankings are short.
LEMMA ShareBounds ==
    ASSUME NEW weight \in {8, 10}, NEW S, NEW ranking \in Seq(S), Len(ranking) <= Limit, NEW i
    PROVE  /\ Share(weight, ranking, i) \in Nat
           /\ 61 * Share(weight, ranking, i) <= weight * Common
           /\ i \in ToSet(ranking) => (60 + Limit) * Share(weight, ranking, i) >= weight * Common
           /\ i \notin ToSet(ranking) => Share(weight, ranking, i) = 0
<1>1. Common \in Nat \ {0} /\ Divisible(Common, Limit) /\ Limit \in Nat
  BY CommonDivisible, RetrievalAssumption
<1>2. CASE i \notin ToSet(ranking)
  BY <1>1, <1>2 DEF Share
<1>3. CASE i \in ToSet(ranking)
  <2> DEFINE r == Rank(ranking, i)
  <2>1. r \in 1..Len(ranking)
    BY <1>3 DEF Rank, ToSet
  <2>2. r \in 1..Limit
    BY <1>1, <2>1
  <2>3. PICK k \in Nat : Common = (60 + r) * k
    BY <1>1, <2>2 DEF Divisible
  <2> DEFINE C == Common
             e == 60 + r
  <2>4. e \in Nat /\ e >= 61 /\ e <= 60 + Limit /\ C \in Nat
    BY <1>1, <2>2
  <2>5. Share(weight, ranking, i) = weight * (C \div e)
    BY <1>3 DEF Share
  <2>6. C = e * k
    BY <2>3
  <2> HIDE DEF C, e
  <2>7. C \div e = k
    BY <2>4, <2>6
  <2>8. 61 * k <= e * k /\ e * k <= (60 + Limit) * k
    BY <1>1, <2>3, <2>4
  <2>9. /\ weight * k \in Nat
        /\ 61 * (weight * k) <= weight * C
        /\ (60 + Limit) * (weight * k) >= weight * C
    <3> DEFINE top == (60 + Limit) * k
    <3>1. top \in Nat /\ C \in Nat /\ 61 * k <= C /\ C <= top
      BY <1>1, <2>3, <2>4, <2>6, <2>8
    <3>2. (60 + Limit) * (weight * k) = weight * top
      BY <1>1
    <3> HIDE DEF top
    <3> QED
      BY <3>1, <3>2
  <2> QED
    BY <1>3, <2>5, <2>7, <2>9 DEF C
<1> QED
  BY <1>2, <1>3

LEMMA AgreedFirst ==
    ASSUME Limit <= 49,
           NEW S, NEW d \in Seq(S), NEW k \in Seq(S), Len(d) <= Limit, Len(k) <= Limit,
           NEW i \in ToSet(d) \cap ToSet(k), NEW j, j \notin ToSet(d) \cap ToSet(k)
    PROVE  ~(FusedScore(d, k, j) >= FusedScore(d, k, i))
<1> DEFINE C == Common
           di == Share(10, d, i)
           ki == Share(8, k, i)
           dj == Share(10, d, j)
           kj == Share(8, k, j)
<1>1. C \in Nat \ {0} /\ Limit \in Nat
  BY CommonDivisible, RetrievalAssumption
<1>2. /\ di \in Nat /\ ki \in Nat /\ dj \in Nat /\ kj \in Nat
      /\ (60 + Limit) * di >= 10 * C /\ (60 + Limit) * ki >= 8 * C
      /\ 61 * dj <= 10 * C /\ 61 * kj <= 8 * C
      /\ dj = 0 \/ kj = 0
  BY ShareBounds
<1>3. FusedScore(d, k, i) = di + ki /\ FusedScore(d, k, j) = dj + kj
  BY DEF FusedScore
<1> HIDE DEF C, di, ki, dj, kj
<1>4. 109 * di >= (60 + Limit) * di /\ 109 * ki >= (60 + Limit) * ki
  BY <1>1, <1>2
<1>5. 109 * di >= 10 * C /\ 109 * ki >= 8 * C
  <2> DEFINE p == (60 + Limit) * di
             q == (60 + Limit) * ki
  <2>1. p \in Nat /\ q \in Nat /\ p >= 10 * C /\ q >= 8 * C /\ 109 * di >= p /\ 109 * ki >= q
    BY <1>1, <1>2, <1>4
  <2> HIDE DEF p, q
  <2> QED
    BY <1>1, <1>2, <2>1
<1>6. ~(dj + kj >= di + ki)
  BY <1>1, <1>2, <1>5
<1> QED
  BY <1>3, <1>6

\* However a finite set is put in order, the sequence has its elements, each once.
LEMMA OrderOf ==
    ASSUME NEW S, IsFiniteSet(S), NEW s \in SetToSeqs(S)
    PROVE  /\ Len(s) = Cardinality(S) /\ Cardinality(S) \in Nat
           /\ \A m, n \in 1..Len(s) : m # n => s[m] # s[n]
<1>1. Cardinality(S) \in Nat
  BY FS_CardinalityType
<1>2. s \in [1..Cardinality(S) -> S] /\ \A m, n \in 1..Cardinality(S) : m # n => s[m] # s[n]
  BY DEF SetToSeqs
<1> QED
  BY <1>1, <1>2

LEMMA OneOrder ==
    ASSUME NEW S, IsFiniteSet(S)
    PROVE  SetToSeq(S) \in Seq(S) /\ Len(SetToSeq(S)) = Cardinality(S)
<1>1. Cardinality(S) \in Nat /\ ExistsBijection(1..Cardinality(S), S)
  BY FS_CardinalityType
<1>2. \E f \in [1..Cardinality(S) -> S] : IsInjective(f)
  BY <1>1, SMTT(30) DEF ExistsBijection, Bijection, Injection, IsInjective
<1>3. SetToSeq(S) \in [1..Cardinality(S) -> S]
  BY <1>2 DEF SetToSeq
<1> QED
  BY <1>1, <1>3

\* What a search returns: nothing twice, what both branches found first, and all that
\* the limit has room for.
LEMMA ResultsInOrder ==
    ASSUME Limit <= 49, RetrievalOK, dense = "done",
           NEW threshold \in Nat, NEW r \in Results(threshold)
    PROVE  /\ \A m, n \in DOMAIN r : m < n =>
                 /\ r[m] # r[n]
                 /\ r[n] \in ToSet(hits) \cap ToSet(found) => r[m] \in ToSet(hits) \cap ToSet(found)
           /\ threshold = 0 =>
                 Len(r) = Len(Cut(SetToSeq(ToSet(hits) \cup ToSet(found))))
<1> DEFINE either == ToSet(hits) \cup ToSet(found)
           both == ToSet(hits) \cap ToSet(found)
           Kept == {i \in either : 10 * FusedScore(hits, found, i) >= threshold * Common}
<1>1. /\ either \subseteq Rows /\ IsFiniteSet(either)
      /\ hits \in Seq(Points) /\ found \in Seq(Rows)
      /\ Len(hits) <= Limit /\ Len(found) <= Limit
  BY FS_Subset, RetrievalAssumption DEF RetrievalOK, TypeOKRetrieval, ResultsPass
<1>2. hits \in Seq(Items) /\ found \in Seq(Items)
  BY <1>1 DEF Items
<1>3. CASE hits = <<>> /\ found = <<>>
  <2>1. r = <<>> /\ either = {}
    BY <1>3 DEF Results, ToSet
  <2>2. Len(SetToSeq(either)) = 0 /\ SetToSeq(either) \in Seq(either)
    BY <2>1, OneOrder, FS_EmptySet
  <2>3. Len(Cut(SetToSeq(either))) = 0
    <3> DEFINE one == SetToSeq(either)
    <3>1. one \in Seq(either) /\ Len(one) = 0
      BY <2>2
    <3> HIDE DEF one
    <3>2. Len(Cut(one)) = IF Len(one) < Limit THEN Len(one) ELSE Limit
      BY <3>1, CutIn
    <3> QED
      BY <3>1, <3>2, RetrievalAssumption DEF one
  <2> QED
    BY <2>1, <2>3
<1>4. CASE ~(hits = <<>> /\ found = <<>>)
  <2>1. PICK s \in Fusions(Kept, hits, found) : r = Cut(s)
    BY <1>4 DEF Results, Fuse
  <2>2. s \in SetToSeqs(Kept)
    BY <2>1 DEF Fusions
  <2>3. IsFiniteSet(Kept)
    BY <1>1, FS_Subset
  <2>4. /\ s \in Seq(Kept) /\ Len(s) = Cardinality(Kept)
        /\ \A m, n \in 1..Len(s) : m # n => s[m] # s[n]
    BY <2>2, <2>3, OrderIn, OrderOf
  <2>5. \A m, n \in 1..Len(s) : m < n =>
            FusedScore(hits, found, s[m]) >= FusedScore(hits, found, s[n])
    BY <2>1, <2>4 DEF Fusions
  <2>6. \A m, n \in 1..Len(s) : m < n /\ s[n] \in both => s[m] \in both
    BY <1>1, <1>2, <2>5, AgreedFirst
  <2>7. /\ Len(r) <= Len(s) /\ Len(r) = IF Len(s) < Limit THEN Len(s) ELSE Limit
        /\ \A m \in 1..Len(r) : r[m] = s[m]
        /\ r \in Seq(Kept)
    BY <2>1, <2>4, CutIn
  <2>8. threshold = 0 => Kept = either
    <3>1. \A i \in either : FusedScore(hits, found, i) \in Nat
      <4> TAKE i \in either
      <4> DEFINE x == Share(10, hits, i)
                 y == Share(8, found, i)
      <4>1. x \in Nat
        BY <1>1, <1>2, ShareBounds
      <4>2. y \in Nat
        BY <1>1, <1>2, ShareBounds
      <4> HIDE DEF x, y
      <4>3. x + y \in Nat
        BY <4>1, <4>2
      <4> QED
        BY <4>3 DEF FusedScore, x, y
    <3>2. Common \in Nat
      BY CommonDivisible
    <3>3. ASSUME NEW i \in either, threshold = 0
          PROVE  10 * FusedScore(hits, found, i) >= threshold * Common
      BY <3>1, <3>2, <3>3
    <3> QED
      BY <3>3
  <2>9. threshold = 0 => Len(r) = Len(Cut(SetToSeq(either)))
    BY <1>1, <2>4, <2>7, <2>8, OneOrder, CutIn
  <2>10. \A m, n \in DOMAIN r : m < n => m \in 1..Len(s) /\ n \in 1..Len(s) /\ m # n
    BY <2>4, <2>7
  <2> QED
    BY <2>4, <2>6, <2>7, <2>9, <2>10
<1> QED
  BY <1>3, <1>4

-----------------------------------------------------------------------------
(* The server *)

LEMMA ChatOutcomesKnown ==
    ASSUME NEW passed, NEW primary, NEW up \in SUBSET Registered
    PROVE  ChatOutcomes(passed, primary, up) \subseteq {"text", "empty", "raise"}
<1>1. \A p \in Providers, r \in Replies : Chats(p, r) \in {"text", "empty", "raise"}
  BY DEF Providers, Replies, Chats, OpenAIChat, AnthropicChat, OllamaChat, CompatibleChat, LiteLLMChat
<1>2. \A p : Served(p, up) \subseteq {"text", "empty", "raise"}
  BY <1>1, RegisteredAssumption DEF Served
<1> QED
  BY <1>2 DEF ChatOutcomes

LEMMA EventsKnown ==
    /\ Done \in Events /\ Error \in Events /\ Whole \in Events
    /\ \A n \in 0..MaxText : Token(n) \in Events
BY ServerAssumption DEF Events, Whole

ServerOK ==
    /\ RetrievalOK /\ TypeOKServer /\ QuietBefore
    /\ context \in [Questions -> Seq(Rows)] /\ wire \in [Questions -> Seq(Events)]

\* The part of ServerOK that is about one question.
Phases == {"idle", "retrieving", "chatting", "streaming", "falling", "failing",
           "answered", "unanswered", "refused", "lost"}

Before == {"idle", "retrieving", "chatting", "falling", "failing", "refused"}

QuestionOK(q) ==
    /\ op[q] \in Ops /\ phase[q] \in Phases /\ told[q] \in 0..MaxText
    /\ context[q] \in Seq(Rows) /\ wire[q] \in Seq(Events)
    /\ phase[q] \in Before => told[q] = 0
    /\ phase[q] = "idle" => wire[q] = <<>>
    /\ phase[q] = "chatting" => op[q] = "rag"

Tables ==
    /\ op \in [Questions -> Ops] /\ phase \in [Questions -> Phases]
    /\ told \in [Questions -> 0..MaxText]
    /\ context \in [Questions -> Seq(Rows)] /\ wire \in [Questions -> Seq(Events)]

LEMMA ServerParts ==
    ServerOK <=> RetrievalOK /\ latest \in Questions /\ Tables /\ \A q \in Questions : QuestionOK(q)
<1>1. context \in [Questions -> Seq(Rows)] /\ wire \in [Questions -> Seq(Events)] =>
          \A q \in Questions : ToSet(context[q]) \subseteq Rows /\ ToSet(wire[q]) \subseteq Events
  BY ElementsIn
<1> QED
  BY <1>1 DEF ServerOK, TypeOKServer, QuietBefore, QuestionOK, Tables, RetrievalOK, Phases, Before

\* The same of the next state.
LEMMA ServerPartsNext ==
    (RetrievalOK /\ latest \in Questions /\ Tables /\ \A q \in Questions : QuestionOK(q))' => ServerOK'
BY ServerParts, PTL

\* A step that touches one question's entries of the tables, each within its type.
Touches(q) ==
    /\ \E x \in Ops : op' = [op EXCEPT ![q] = x]
    /\ \E x \in Phases : phase' = [phase EXCEPT ![q] = x]
    /\ \E x \in 0..MaxText : told' = [told EXCEPT ![q] = x]
    /\ \E x \in Seq(Rows) : context' = [context EXCEPT ![q] = x]
    /\ \E x \in Seq(Events) : wire' = [wire EXCEPT ![q] = x]

OthersKept(q) == \A r \in Questions \ {q} :
    UNCHANGED <<op[r], phase[r], told[r], context[r], wire[r]>>

LEMMA Touched ==
    ASSUME ServerOK, RetrievalOK', latest' \in Questions, NEW q \in Questions, Touches(q),
           QuestionOK(q)'
    PROVE  ServerOK' /\ OthersKept(q)
<1> USE DEF Tables, OthersKept
<1>1. Tables /\ \A r \in Questions : QuestionOK(r)
  BY ServerParts
<1>2. Tables'
  BY <1>1 DEF Touches
<1>3. \A r \in Questions \ {q} : UNCHANGED <<op[r], phase[r], told[r], context[r], wire[r]>>
  BY <1>1 DEF Touches
<1>4. \A r \in Questions \ {q} : QuestionOK(r)'
  BY <1>1, <1>3 DEF QuestionOK
<1> QED
  <2>1. \A r \in Questions : QuestionOK(r)'
    BY <1>4
  <2> QED
    BY <1>2, <1>3, <2>1, ServerPartsNext

\* An entry that is left alone is touched by its own value.
LEMMA Untouched ==
    ASSUME ServerOK, NEW q \in Questions
    PROVE  /\ UNCHANGED op => \E x \in Ops : op' = [op EXCEPT ![q] = x]
           /\ UNCHANGED phase => \E x \in Phases : phase' = [phase EXCEPT ![q] = x]
           /\ UNCHANGED told => \E x \in 0..MaxText : told' = [told EXCEPT ![q] = x]
           /\ UNCHANGED context => \E x \in Seq(Rows) : context' = [context EXCEPT ![q] = x]
           /\ UNCHANGED wire => \E x \in Seq(Events) : wire' = [wire EXCEPT ![q] = x]
<1>1. Tables
  BY ServerParts
<1>2. /\ op[q] \in Ops /\ phase[q] \in Phases /\ told[q] \in 0..MaxText
      /\ context[q] \in Seq(Rows) /\ wire[q] \in Seq(Events)
  BY <1>1 DEF Tables
<1>3. /\ op = [op EXCEPT ![q] = op[q]] /\ phase = [phase EXCEPT ![q] = phase[q]]
      /\ told = [told EXCEPT ![q] = told[q]]
  BY <1>1 DEF Tables
<1>4. context = [context EXCEPT ![q] = context[q]] /\ wire = [wire EXCEPT ![q] = wire[q]]
  BY <1>1 DEF Tables
<1> QED
  BY <1>2, <1>3, <1>4

LEMMA AskOK ==
    ASSUME ServerOK, NEW q \in Questions, NEW o \in Ops, NEW kind \in Kinds \cup {NoKind},
           Ask(q, o, kind)
    PROVE  /\ ServerOK' /\ OthersKept(q)
           /\ op'[q] = o /\ phase'[q] = "retrieving" /\ UNCHANGED <<told[q], context[q], wire[q]>>
<1> USE DEF Ask, Goto
<1>1. Tables /\ QuestionOK(q)
  BY ServerParts
<1>2. RetrievalOK'
  BY RetrieveOK
<1>3. op'[q] = o /\ phase'[q] = "retrieving"
  BY <1>1 DEF Tables
<1>4. Touches(q)
  BY Untouched DEF Touches, Phases
<1>5. QuestionOK(q)'
  BY <1>1, <1>3 DEF QuestionOK, Before, Phases
<1> QED
  BY <1>2, <1>3, <1>4, <1>5, Touched

LEMMA SendsOK ==
    ASSUME ServerOK, NEW q \in Questions, NEW events \in Seq(Events), Sends(q, events)
    PROVE  /\ wire'[q] = wire[q] \o events
           /\ \E x \in Seq(Events) : wire' = [wire EXCEPT ![q] = x]
<1>1. wire \in [Questions -> Seq(Events)] /\ wire[q] \in Seq(Events)
  BY DEF ServerOK
<1>2. wire[q] \o events \in Seq(Events)
  BY <1>1, ConcatProperties
<1> QED
  BY <1>1, <1>2 DEF Sends

LEMMA GotoOK ==
    ASSUME ServerOK, NEW q \in Questions, NEW p \in Phases, Goto(q, p)
    PROVE  phase'[q] = p /\ \E x \in Phases : phase' = [phase EXCEPT ![q] = x]
BY ServerParts DEF Goto, Tables

\* Steps that end a phase and send what belongs to its end.
LEMMA PhaseEnds ==
    ASSUME ServerOK, NEW q \in Questions, NEW p \in Phases \ {"idle", "chatting"},
           Goto(q, p), NEW events \in Seq(Events), Sends(q, events) \/ (events = <<>> /\ UNCHANGED wire),
           UNCHANGED <<op, told>>, p \in Before => told[q] = 0,
           NEW r \in Seq(Rows), context' = [context EXCEPT ![q] = r],
           RetrievalOK', UNCHANGED latest
    PROVE  /\ ServerOK' /\ OthersKept(q)
           /\ phase'[q] = p /\ wire'[q] = wire[q] \o events /\ context'[q] = r
<1>1. Tables /\ QuestionOK(q) /\ latest \in Questions
  BY ServerParts
<1>2. phase'[q] = p /\ \E x \in Phases : phase' = [phase EXCEPT ![q] = x]
  BY GotoOK
<1>3. wire'[q] = wire[q] \o events /\ \E x \in Seq(Events) : wire' = [wire EXCEPT ![q] = x]
  <2>1. CASE Sends(q, events)
    BY <2>1, SendsOK
  <2>2. CASE events = <<>> /\ UNCHANGED wire
    BY <1>1, <2>2, Untouched, ConcatEmptySeq DEF QuestionOK
  <2> QED
    BY <2>1, <2>2
<1>4. context'[q] = r
  BY <1>1 DEF Tables
<1>5. wire'[q] \in Seq(Events)
  BY <1>1, <1>3, ConcatProperties DEF QuestionOK
<1>6. Touches(q)
  BY <1>2, <1>3, Untouched DEF Touches
<1>7. QuestionOK(q)'
  BY <1>1, <1>2, <1>4, <1>5 DEF QuestionOK
<1> QED
  BY <1>1, <1>2, <1>3, <1>4, <1>6, <1>7, Touched

LEMMA BranchOK == ASSUME ServerOK, NEW q \in Questions, Branch(q) PROVE ServerOK'
<1>1. RetrievalOK'
  <2>1. RetrievalOK
    BY DEF ServerOK
  <2>2. PICK up \in SUBSET Registered : Branches(up)
    BY DEF Branch
  <2> QED
    BY <2>1, <2>2, DenseOK, KeywordOK DEF Branches
<1>2. Tables' /\ (\A r \in Questions : QuestionOK(r)') /\ latest' \in Questions
  BY ServerParts DEF Branch, Tables, QuestionOK
<1> QED
  BY <1>1, <1>2, ServerPartsNext

Final == {"answered", "unanswered", "lost"}

(* What a step of the server may do to the question it serves: nothing; end *)
(* a phase and send what belongs to its end; say one more piece; or say the *)
(* whole of a chat where a stream has said nothing.                         *)
NoProgress(q) == UNCHANGED <<phase[q], told[q], context[q], wire[q]>>

Ends(q) ==
    /\ phase[q] \notin Final \cup {"idle"} /\ phase'[q] \notin {"lost", "idle"}
    /\ told'[q] = told[q]
    /\ op[q] = "stream" => wire'[q] = wire[q] \o Ending(q)'

SaysPiece(q) ==
    /\ phase[q] = "streaming" /\ phase'[q] = "streaming"
    /\ told'[q] = told[q] + 1
    /\ wire'[q] = wire[q] \o <<Token(told[q] + 1)>>

SaysWhole(q) ==
    /\ phase[q] = "falling" /\ phase'[q] = "answered"
    /\ told[q] = 0 /\ told'[q] = 0
    /\ wire'[q] = wire[q] \o <<Whole, Done>>

Progress(q) == NoProgress(q) \/ Ends(q) \/ SaysPiece(q) \/ SaysWhole(q)

Served1(q) ==
    ServerOK' /\ OthersKept(q) /\ Progress(q) /\ UNCHANGED <<latest, op>>

LEMMA GatheredOK == ASSUME ServerOK, NEW q \in Questions, Gathered(q) PROVE Served1(q)
<1>0. PICK r \in Results(IF op[q] = "search" THEN Threshold ELSE 0) :
          /\ context' = [context EXCEPT ![q] = r]
          /\ Goto(q, IF op[q] = "search" \/ r = <<>> THEN "answered" ELSE Start(op[q]))
          /\ Sends(q, IF op[q] = "stream" /\ r = <<>> THEN <<Done>> ELSE <<>>)
  BY DEF Gathered
<1> DEFINE p == IF op[q] = "search" \/ r = <<>> THEN "answered" ELSE Start(op[q])
           events == IF op[q] = "stream" /\ r = <<>> THEN <<Done>> ELSE <<>>
<1>1. context' = [context EXCEPT ![q] = r] /\ Goto(q, p) /\ Sends(q, events)
  BY <1>0
<1>2. phase[q] = "retrieving" /\ told[q] = 0 /\ op[q] \in Ops /\ RetrievalOK
  BY ServerParts DEF Gathered, QuestionOK, Before
<1>3. r \in Seq(Rows)
  BY <1>2, ResultsIn DEF Gathered, Retrieved
<1>4. p = IF op[q] = "search" \/ r = <<>> THEN "answered"
          ELSE IF op[q] = "rag" THEN "chatting"
          ELSE IF Primary \in Registered THEN "streaming" ELSE "failing"
  BY <1>2 DEF Start, Ops
<1>5. RetrievalOK'
  BY <1>2, ReturnsOK DEF Gathered
<1>6. events \in Seq(Events)
  BY EventsKnown
<1>7. Tables /\ QuestionOK(q) /\ latest \in Questions
  BY ServerParts
<1> HIDE DEF events
<1>a. p \in Phases
  BY <1>4 DEF Phases
<1> HIDE DEF p
<1>8. phase'[q] = p /\ context'[q] = r /\ wire'[q] = wire[q] \o events
  BY <1>1, <1>a, <1>6, <1>7, SendsOK, GotoOK DEF Tables
<1>9. Touches(q)
  <2>1. UNCHANGED <<op, told>>
    BY DEF Gathered
  <2> QED
    BY <1>1, <1>3, <1>a, <1>6, <2>1, SendsOK, GotoOK, Untouched DEF Touches
<1>10. QuestionOK(q)'
  <2>1. wire'[q] \in Seq(Events)
    BY <1>6, <1>7, <1>8, ConcatProperties DEF QuestionOK
  <2>2. op'[q] = op[q] /\ told'[q] = told[q]
    BY DEF Gathered
  <2> QED
    BY <1>2, <1>3, <1>4, <1>7, <1>8, <2>1, <2>2 DEF QuestionOK, Phases
<1>11. Ends(q)
  BY <1>2, <1>4, <1>8 DEF Ends, Ending, Gathered, Final, events
<1> QED
  BY <1>5, <1>7, <1>9, <1>10, <1>11, Touched DEF Served1, Progress, Gathered

\* The phases in which a provider is asked end in the same way.
EndsWith(p, events) ==
    /\ p = "answered" => events = <<Done>>
    /\ p = "unanswered" => events = <<Error, Done>>
    /\ p \notin {"answered", "unanswered"} => events = <<>>

LEMMA AnswerEnds ==
    ASSUME ServerOK, NEW q \in Questions, NEW p \in Phases \ {"idle", "chatting", "lost"},
           Goto(q, p), NEW events \in Seq(Events), Sends(q, events) \/ (events = <<>> /\ UNCHANGED wire),
           p \in Before => told[q] = 0, phase[q] \notin Final \cup {"idle"},
           RetrievalOK', UNCHANGED <<latest, op, context, told>>,
           op[q] = "stream" => EndsWith(p, events)
    PROVE  Served1(q)
<1>1. context[q] \in Seq(Rows) /\ context' = [context EXCEPT ![q] = context[q]]
  BY ServerParts DEF Tables
<1>2. ServerOK' /\ OthersKept(q) /\ phase'[q] = p /\ wire'[q] = wire[q] \o events
  BY <1>1, PhaseEnds
<1>3. Ends(q)
  BY <1>2 DEF Ends, Ending, EndsWith
<1> QED
  BY <1>2, <1>3 DEF Served1, Progress

LEMMA Endings ==
    /\ {"refused", "answered", "unanswered", "falling"} \subseteq Phases \ {"idle", "chatting", "lost"}
    /\ "answered" \notin Before /\ "unanswered" \notin Before
    /\ EndsWith("refused", <<>>) /\ EndsWith("falling", <<>>)
    /\ EndsWith("answered", <<Done>>) /\ EndsWith("unanswered", <<Error, Done>>)
    /\ {"retrieving", "chatting", "streaming", "falling", "failing"} \cap (Final \cup {"idle"}) = {}
BY DEF Phases, Before, EndsWith, Final

LEMMA YieldsOK == ASSUME ServerOK, NEW q \in Questions, Yields(q) PROVE Served1(q)
<1>1. Tables /\ QuestionOK(q) /\ latest \in Questions /\ RetrievalOK
  BY ServerParts
<1>2. told[q] + 1 \in 0..MaxText
  BY <1>1, ServerAssumption DEF Yields, QuestionOK
<1>3. <<Token(told[q] + 1)>> \in Seq(Events)
  BY <1>2, EventsKnown
<1>4. wire'[q] = wire[q] \o <<Token(told[q] + 1)>> /\ wire'[q] \in Seq(Events)
  <2>1. Sends(q, <<Token(told[q] + 1)>>)
    BY DEF Yields
  <2>2. wire'[q] = wire[q] \o <<Token(told[q] + 1)>>
    BY <1>3, <2>1, SendsOK
  <2> QED
    BY <1>1, <1>3, <2>2, ConcatProperties DEF QuestionOK
<1>5. told'[q] = told[q] + 1
  BY <1>1 DEF Yields, Tables
<1>6. Touches(q)
  BY <1>2, <1>3, SendsOK, Untouched DEF Touches, Yields
<1>7. QuestionOK(q)'
  BY <1>1, <1>2, <1>4, <1>5 DEF QuestionOK, Yields, Before
<1>8. RetrievalOK'
  BY <1>1, SameRetrieval DEF Yields
<1>9. SaysPiece(q)
  BY <1>4, <1>5 DEF SaysPiece, Yields
<1> QED
  BY <1>1, <1>6, <1>7, <1>8, <1>9, Touched DEF Served1, Progress, Yields

LEMMA FallBackOK == ASSUME ServerOK, NEW q \in Questions, FallBack(q) PROVE Served1(q)
<1>1. Tables /\ QuestionOK(q) /\ latest \in Questions /\ RetrievalOK
  BY ServerParts
<1>2. RetrievalOK'
  BY <1>1, SameRetrieval DEF FallBack
<1>3. phase[q] = "falling" /\ told[q] = 0
  BY <1>1 DEF FallBack, QuestionOK, Before
<1>4. PICK up \in SUBSET Registered : \E o \in ChatOutcomes(PassedTask, Primary, up) :
          /\ Goto(q, IF o = "raise" THEN "unanswered" ELSE "answered")
          /\ Sends(q, CASE o = "text" -> <<Whole, Done>>
                        [] o = "empty" -> <<Done>>
                        [] o = "raise" -> <<Error, Done>>)
  BY DEF FallBack
<1>5. PICK o \in {"text", "empty", "raise"} :
          /\ Goto(q, IF o = "raise" THEN "unanswered" ELSE "answered")
          /\ Sends(q, CASE o = "text" -> <<Whole, Done>>
                        [] o = "empty" -> <<Done>>
                        [] o = "raise" -> <<Error, Done>>)
  BY <1>4, ChatOutcomesKnown
<1>6. CASE o = "text"
  <2>1. <<Whole, Done>> \in Seq(Events)
    BY EventsKnown
  <2>2. Goto(q, "answered") /\ Sends(q, <<Whole, Done>>)
    BY <1>5, <1>6
  <2>3. context[q] \in Seq(Rows) /\ context' = [context EXCEPT ![q] = context[q]]
    BY <1>1 DEF Tables, FallBack
  <2>4. ServerOK' /\ OthersKept(q) /\ phase'[q] = "answered" /\ wire'[q] = wire[q] \o <<Whole, Done>>
    <3>1. UNCHANGED <<op, told, latest>>
      BY DEF FallBack
    <3>2. "answered" \in Phases \ {"idle", "chatting"} /\ "answered" \notin Before
      BY DEF Phases, Before
    <3> QED
      BY <1>2, <2>1, <2>2, <2>3, <3>1, <3>2, PhaseEnds
  <2>5. SaysWhole(q)
    BY <1>3, <2>4 DEF SaysWhole, FallBack
  <2> QED
    BY <2>4, <2>5 DEF Served1, Progress, FallBack
<1>7. CASE o = "empty"
  <2>1. <<Done>> \in Seq(Events)
    BY EventsKnown
  <2>2. Goto(q, "answered") /\ Sends(q, <<Done>>)
    BY <1>5, <1>7
  <2>3. UNCHANGED <<op, told, latest, context>>
    BY DEF FallBack
  <2> QED
    BY <1>2, <1>3, <2>1, <2>2, <2>3, Endings, AnswerEnds
<1>8. CASE o = "raise"
  <2>1. <<Error, Done>> \in Seq(Events)
    BY EventsKnown
  <2>2. Goto(q, "unanswered") /\ Sends(q, <<Error, Done>>)
    BY <1>5, <1>8
  <2>3. UNCHANGED <<op, told, latest, context>>
    BY DEF FallBack
  <2> QED
    BY <1>2, <1>3, <2>1, <2>2, <2>3, Endings, AnswerEnds
<1> QED
  BY <1>6, <1>7, <1>8

LEMMA ServeOK == ASSUME ServerOK, NEW q \in Questions, Serve(q) PROVE Served1(q)
<1>1. Tables /\ QuestionOK(q) /\ latest \in Questions /\ RetrievalOK
  BY ServerParts
<1>2. <<>> \in Seq(Events) /\ <<Done>> \in Seq(Events) /\ <<Error, Done>> \in Seq(Events)
  BY EventsKnown
<1>3. ASSUME Branch(q) PROVE Served1(q)
  BY <1>3, BranchOK DEF Served1, OthersKept, Progress, NoProgress, Branch
<1>4. RetrievalOK /\ (UNCHANGED retrievalVars => RetrievalOK')
  BY <1>1, SameRetrieval
<1>5. ASSUME GatherRaises(q) PROVE Served1(q)
  <2>1. RetrievalOK' /\ told[q] = 0 /\ phase[q] = "retrieving"
    BY <1>1, <1>5, ReturnsOK DEF GatherRaises, QuestionOK, Before
  <2>2. Goto(q, "refused") /\ UNCHANGED <<latest, op, context, told, wire>>
    BY <1>5 DEF GatherRaises
  <2> QED
    BY <1>2, Endings, <2>1, <2>2, AnswerEnds
<1>6. ASSUME Chat(q) PROVE Served1(q)
  <2>1. op[q] = "rag"
    BY <1>1, <1>6 DEF Chat, QuestionOK
  <2>2. Goto(q, "unanswered") \/ Goto(q, "answered")
    BY <1>6 DEF Chat
  <2>3. UNCHANGED <<retrievalVars, latest, op, context, told, wire>> /\ phase[q] = "chatting"
    BY <1>6 DEF Chat
  <2> QED
    BY <1>2, <1>4, Endings, <2>1, <2>2, <2>3, AnswerEnds
<1>7. ASSUME StreamEnds(q) PROVE Served1(q)
  <2>1. Goto(q, "answered") /\ Sends(q, <<Done>>) /\ phase[q] = "streaming"
    BY <1>7 DEF StreamEnds
  <2>2. UNCHANGED <<retrievalVars, latest, op, context, told>>
    BY <1>7 DEF StreamEnds
  <2> QED
    BY <1>2, <1>4, Endings, <2>1, <2>2, AnswerEnds
<1>8. ASSUME StreamRaises(q) PROVE Served1(q)
  <2>1. \/ told[q] = 0 /\ Goto(q, "falling") /\ Sends(q, <<>>)
        \/ Goto(q, "unanswered") /\ Sends(q, <<Error, Done>>)
    BY <1>8 DEF StreamRaises, MayFallBack
  <2>2. UNCHANGED <<retrievalVars, latest, op, context, told>> /\ phase[q] = "streaming"
    BY <1>8 DEF StreamRaises
  <2> QED
    BY <1>2, <1>4, Endings, <2>1, <2>2, AnswerEnds
<1>9. ASSUME Fails(q) PROVE Served1(q)
  <2>1. Goto(q, "unanswered") /\ Sends(q, <<Error, Done>>) /\ phase[q] = "failing"
    BY <1>9 DEF Fails
  <2>2. UNCHANGED <<retrievalVars, latest, op, context, told>>
    BY <1>9 DEF Fails
  <2> QED
    BY <1>2, <1>4, Endings, <2>1, <2>2, AnswerEnds
<1> QED
  BY <1>3, <1>5, <1>6, <1>7, <1>8, <1>9, GatheredOK, YieldsOK, FallBackOK DEF Serve

-----------------------------------------------------------------------------
(* What the server does to the answers on the page *)

LEMMA TwoVoices == Pieces # Whole0 /\ \A n \in Nat : Pieces[n] = n /\ Whole0[n] = 0
<1>1. \A n \in Nat : Pieces[n] = n /\ Whole0[n] = 0
  BY DEF Pieces, Whole0
<1> QED
  BY <1>1

LEMMA SaidIsNat == ASSUME ServerOK, NEW q \in Questions, NEW voice PROVE Said(q, voice) \in Nat
BY ServerParts, ServerAssumption DEF Said, QuestionOK

\* The server says more, and says no more once it has come to the end.
Grows(q) ==
    /\ told[q] \in Nat /\ told'[q] \in Nat /\ told[q] <= told'[q]
    /\ phase[q] \in {"answered", "lost"} =>
          phase'[q] \in {"answered", "lost"} /\ UNCHANGED <<told[q], context[q]>>

LEMMA ProgressGrows == ASSUME ServerOK, ServerOK', NEW q \in Questions, Progress(q) PROVE Grows(q)
<1>1. told[q] \in Nat /\ told'[q] \in Nat
  BY ServerAssumption DEF ServerOK, TypeOKServer
<1> QED
  BY <1>1 DEF Progress, NoProgress, Ends, SaysPiece, SaysWhole, Grows, Final

LEMMA KeptGrows ==
    ASSUME ServerOK, NEW q \in Questions, UNCHANGED <<phase[q], told[q], context[q]>> PROVE Grows(q)
<1>1. told[q] \in Nat
  BY ServerAssumption DEF ServerOK, TypeOKServer
<1> QED
  BY <1>1 DEF Grows

LEMMA SpeechGrows ==
    ASSUME NEW q, Grows(q), NEW voice, MaySpeak(q, voice)
    PROVE  MaySpeak(q, voice)' /\ Said(q, voice) <= Said(q, voice)' /\ Said(q, voice)' \in Nat
BY DEF Grows, MaySpeak, Said

LEMMA VoicedKept ==
    ASSUME ServerOK, NEW q \in Questions, Grows(q), Voiced(q), UNCHANGED msgs[q].text
    PROVE  Voiced(q)'
<1>1. PICK voice \in {Pieces, Whole0}, n \in Nat :
          MaySpeak(q, voice) /\ n <= Said(q, voice) /\ msgs[q].text = Spoken(q, voice, n)
  BY DEF Voiced
<1>2. MaySpeak(q, voice)' /\ n <= Said(q, voice)'
  BY <1>1, SpeechGrows, SaidIsNat
<1>3. msgs'[q].text = Spoken(q, voice, n)
  BY <1>1
<1> QED
  BY <1>2, <1>3 DEF Voiced

LEMMA MayFinishKept ==
    ASSUME NEW q \in Questions, Grows(q), NEW sources, MayFinish(q, sources), UNCHANGED msgs[q].text
    PROVE  MayFinish(q, sources)'
BY DEF Grows, MayFinish

LEMMA FitsKept ==
    ASSUME ServerOK, NEW q \in Questions, NEW u, Fits(q, u), Grows(q), UNCHANGED msgs[q]
    PROVE  Fits(q, u)'
<1>1. CASE u.kind = "append"
  <2>1. PICK voice \in {Pieces, Whole0}, n \in Nat :
            /\ MaySpeak(q, voice)
            /\ n + 1 <= Said(q, voice)
            /\ msgs[q].text = Spoken(q, voice, n)
            /\ u.arg = <<q, voice[n + 1]>>
    BY <1>1 DEF Fits
  <2>2. MaySpeak(q, voice)' /\ n + 1 <= Said(q, voice)'
    BY <2>1, SpeechGrows, SaidIsNat
  <2>3. msgs'[q].status = "streaming" /\ msgs'[q].text = Spoken(q, voice, n)
    BY <1>1, <2>1 DEF Fits
  <2> QED
    BY <1>1, <2>1, <2>2, <2>3 DEF Fits
<1>2. CASE u.kind = "finish"
  BY <1>2, MayFinishKept DEF Fits
<1> QED
  BY <1>1, <1>2 DEF Fits

\* What is sent is behind what is on the wire.
LEMMA WireEnds ==
    ASSUME NEW w \in Seq(Events), NEW voice, NEW n \in Nat, NEW left \in Nat,
           Carries(w, voice, n, left, <<>>), NEW ending \in Seq(Events)
    PROVE  Carries(w \o ending, voice, n, left, ending)
<1>1. Len(w) = left /\ \A i \in 1..left : w[i] = Token(voice[n + i])
  BY DEF Carries
<1>2. /\ Len(w \o ending) = left + Len(ending)
      /\ \A i \in 1..Len(w \o ending) :
            (w \o ending)[i] = IF i <= left THEN w[i] ELSE ending[i - left]
  <2>1. Len(ending) \in Nat /\ Len(w \o ending) = Len(w) + Len(ending)
    BY ConcatProperties
  <2> QED
    BY <1>1, <2>1, ConcatProperties
<1> QED
  BY <1>1, <1>2 DEF Carries

LEMMA WireSays ==
    ASSUME NEW w \in Seq(Events), NEW voice, NEW n \in Nat, NEW left \in Nat,
           Carries(w, voice, n, left, <<>>), NEW e \in Events, e = Token(voice[n + left + 1])
    PROVE  Carries(w \o <<e>>, voice, n, left + 1, <<>>)
<1>1. Len(w) = left /\ \A i \in 1..left : w[i] = Token(voice[n + i])
  BY DEF Carries
<1>2. <<e>> \in Seq(Events) /\ Len(<<e>>) = 1 /\ <<e>>[1] = e
  OBVIOUS
<1>3. /\ Len(w \o <<e>>) = left + 1
      /\ \A i \in 1..Len(w \o <<e>>) :
            (w \o <<e>>)[i] = IF i <= left THEN w[i] ELSE <<e>>[i - left]
  BY <1>1, <1>2, ConcatProperties
<1>4. \A i \in 1..(left + 1) : i <= left \/ (i = left + 1 /\ i - left = 1)
  OBVIOUS
<1>5. n + (left + 1) = n + left + 1
  OBVIOUS
<1> QED
  BY <1>1, <1>2, <1>3, <1>4, <1>5 DEF Carries

LEMMA WireRead ==
    ASSUME NEW w \in Seq(Events), w # <<>>, NEW voice, NEW n \in Nat, NEW left \in Nat,
           NEW ending \in Seq(Events), Carries(w, voice, n, left, ending)
    PROVE  /\ left > 0 => /\ Head(w) = Token(voice[n + 1])
                          /\ Carries(Tail(w), voice, n + 1, left - 1, ending)
           /\ left = 0 => ending # <<>> /\ Head(w) = ending[1]
<1>1. Len(w) \in Nat \ {0} /\ Head(w) = w[1]
  OBVIOUS
<1>2. Len(Tail(w)) = Len(w) - 1 /\ \A i \in 1..(Len(w) - 1) : Tail(w)[i] = w[i + 1]
  OBVIOUS
<1>3. Len(ending) \in Nat
  OBVIOUS
<1>4. CASE left > 0
  <2>1. Head(w) = Token(voice[n + 1])
    BY <1>1, <1>4 DEF Carries
  <2>2. \A i \in 1..(Len(w) - 1) :
            w[i + 1] = IF i + 1 <= left THEN Token(voice[n + (i + 1)]) ELSE ending[(i + 1) - left]
    BY <1>1 DEF Carries
  <2>3. \A i \in Nat : n + (i + 1) = (n + 1) + i /\ (i + 1) - left = i - (left - 1)
                       /\ (i + 1 <= left <=> i <= left - 1)
    OBVIOUS
  <2>4. Len(w) - 1 = (left - 1) + Len(ending)
    BY <1>1, <1>3 DEF Carries
  <2> QED
    BY <1>1, <1>2, <1>4, <2>1, <2>2, <2>3, <2>4 DEF Carries
<1>5. CASE left = 0
  BY <1>1, <1>3, <1>5 DEF Carries
<1> QED
  BY <1>4, <1>5

\* The answer of a question that is asked by the page goes on as it began.
LEMMA LiveKept ==
    ASSUME ServerOK, ServerOK', NEW q \in Questions, Live(q), op[q] = "stream", Progress(q),
           UNCHANGED <<msgs, pending>>, Len(msgs[q].text) \in Nat, Len(pending) \in Nat
    PROVE  Live(q)'
<1> DEFINE n == Len(msgs[q].text) m == n + Len(pending)
<1>1. PICK voice \in {Pieces, Whole0} :
          /\ MaySpeak(q, voice)
          /\ msgs[q].status = "streaming"
          /\ msgs[q].text = Spoken(q, voice, n)
          /\ \A i \in DOMAIN pending :
                /\ pending[i].kind = "append" /\ pending[i].at # None
                /\ pending[i].arg = <<q, voice[n + i]>>
          /\ m <= Said(q, voice)
          /\ IF phase[q] = "lost" THEN wire[q] = <<>> ELSE OnTheWire(q, voice, m)
  BY DEF Live
<1>2. Grows(q) /\ MaySpeak(q, voice)' /\ m <= Said(q, voice)'
  BY <1>1, ProgressGrows, SpeechGrows, SaidIsNat
<1>3. wire[q] \in Seq(Events) /\ Len(wire[q]) \in Nat /\ told[q] \in Nat
  BY ServerAssumption DEF ServerOK, TypeOKServer
<1>4. m \in Nat /\ Said(q, voice) \in Nat
  BY SaidIsNat
<1>5. n' = n /\ m' = m
  OBVIOUS
<1> SUFFICES \E u \in {Pieces, Whole0} :
                 /\ MaySpeak(q, u)'
                 /\ u = voice \/ (n = 0 /\ Len(pending) = 0)
                 /\ m <= Said(q, u)'
                 /\ IF phase'[q] = "lost" THEN wire'[q] = <<>>
                    ELSE Carries(wire'[q], u, m, Said(q, u)' - m, Ending(q)')
  <2>1. PICK u \in {Pieces, Whole0} :
                 /\ MaySpeak(q, u)'
                 /\ u = voice \/ (n = 0 /\ Len(pending) = 0)
                 /\ m <= Said(q, u)'
                 /\ IF phase'[q] = "lost" THEN wire'[q] = <<>>
                    ELSE Carries(wire'[q], u, m, Said(q, u)' - m, Ending(q)')
    OBVIOUS
  <2>2. msgs[q].text = Spoken(q, u, n)
    <3>1. n = 0 => Spoken(q, u, n) = Spoken(q, voice, n)
      BY DEF Spoken
    <3> QED
      BY <1>1, <2>1, <3>1
  <2>3. \A i \in DOMAIN pending :
            /\ pending[i].kind = "append" /\ pending[i].at # None
            /\ pending[i].arg = <<q, u[n + i]>>
    BY <1>1, <2>1
  <2>4. msgs'[q].text = Spoken(q, u, n) /\ msgs'[q].status = "streaming"
    BY <1>1, <2>2
  <2>5. IF phase'[q] = "lost" THEN wire'[q] = <<>> ELSE OnTheWire(q, u, m)'
    BY <1>5, <2>1 DEF OnTheWire
  <2> QED
    BY <1>5, <2>1, <2>3, <2>4, <2>5 DEF Live
<1> DEFINE left == Said(q, voice) - m
<1>6. left \in Nat
  BY <1>1, <1>4
<1> HIDE DEF n, m
<1>7. CASE NoProgress(q)
  <2>1. Said(q, voice)' = Said(q, voice) /\ Ending(q)' = Ending(q)
    BY <1>7 DEF NoProgress, Said, Ending
  <2> QED
    BY <1>1, <1>2, <1>7, <2>1 DEF NoProgress, OnTheWire
<1>8. CASE Ends(q)
  <2>1. voice = Pieces /\ phase[q] # "lost" /\ Ending(q) = <<>>
    BY <1>1, <1>8, TwoVoices DEF Ends, MaySpeak, Final, Ending
  <2>2. Carries(wire[q], voice, m, left, <<>>)
    BY <1>1, <2>1 DEF OnTheWire
  <2>3. Ending(q)' \in Seq(Events)
    BY EventsKnown DEF Ending
  <2>4. Said(q, voice)' = Said(q, voice)
    BY <1>8 DEF Ends, Said
  <2>5. Carries(wire[q] \o Ending(q)', voice, m, left, Ending(q)')
    BY <1>3, <1>4, <1>6, <2>2, <2>3, WireEnds
  <2> QED
    BY <1>1, <1>2, <1>8, <2>4, <2>5 DEF Ends
<1>9. CASE SaysPiece(q)
  <2>1. /\ voice = Pieces /\ Ending(q) = <<>> /\ Ending(q)' = <<>>
        /\ phase[q] # "lost" /\ phase'[q] # "lost"
    BY <1>1, <1>9, TwoVoices DEF SaysPiece, MaySpeak, Ending
  <2>2. Carries(wire[q], voice, m, left, <<>>)
    BY <1>1, <2>1 DEF OnTheWire
  <2>3. Said(q, voice) = told[q] /\ Said(q, voice)' = told[q] + 1
    BY <1>9, <2>1 DEF SaysPiece, Said
  <2>4. voice[m + left + 1] = told[q] + 1
    BY <1>3, <1>4, <2>1, <2>3, TwoVoices
  <2>5. Token(told[q] + 1) \in Events
    <3>1. told'[q] \in 0..MaxText
      BY DEF ServerOK, TypeOKServer
    <3> QED
      BY <1>9, <3>1, EventsKnown DEF SaysPiece
  <2>6. Carries(wire'[q], voice, m, left + 1, <<>>)
    BY <1>3, <1>4, <1>6, <1>9, <2>2, <2>4, <2>5, WireSays DEF SaysPiece
  <2>7. left + 1 = Said(q, voice)' - m
    BY <1>3, <1>4, <2>3
  <2> QED
    BY <1>1, <1>2, <2>1, <2>6, <2>7
<1>10. CASE SaysWhole(q)
  <2>1. /\ voice = Pieces /\ Ending(q) = <<>> /\ Ending(q)' = <<Done>>
        /\ phase[q] # "lost" /\ phase'[q] # "lost"
    BY <1>1, <1>10, TwoVoices DEF SaysWhole, MaySpeak, Ending
  <2>2. Said(q, voice) = 0 /\ m = 0 /\ n = 0 /\ Len(pending) = 0
    BY <1>1, <1>4, <1>10, <2>1 DEF SaysWhole, Said, n, m
  <2>3. wire[q] = <<>>
    BY <1>1, <1>3, <2>1, <2>2 DEF OnTheWire, Carries
  <2>4. wire'[q] = <<Whole, Done>>
    BY <1>10, <2>3 DEF SaysWhole
  <2>5. MaySpeak(q, Whole0)' /\ Said(q, Whole0)' = 1
    BY <1>10, TwoVoices DEF SaysWhole, MaySpeak, Said
  <2>6. Carries(<<Whole, Done>>, Whole0, 0, 1, <<Done>>)
    BY TwoVoices DEF Carries, Whole
  <2> QED
    BY <2>1, <2>2, <2>4, <2>5, <2>6
<1> QED
  BY <1>7, <1>8, <1>9, <1>10 DEF Progress

-----------------------------------------------------------------------------
(* Rendering *)

LEMMA SameValues ==
    ASSUME NEW L \in Nat, NEW a, NEW g, a[0] = g[0],
           \A n \in 1..L : a[n - 1] = g[n - 1] => a[n] = g[n]
    PROVE  \A n \in 0..L : a[n] = g[n]
<1> DEFINE S == {n \in Nat : n <= L => a[n] = g[n]}
<1>1. 0 \in S
  OBVIOUS
<1>2. ASSUME NEW n \in S PROVE n + 1 \in S
  <2>1. n \in Nat /\ (n + 1) - 1 = n /\ (n + 1 <= L => n + 1 \in 1..L /\ n <= L)
    OBVIOUS
  <2> QED
    BY <2>1
<1>3. S = Nat
  <2> HIDE DEF S
  <2> QED
    BY <1>1, <1>2, Induction DEF S
<1> QED
  BY <1>3

\* What a rendering comes to, given the messages after each of its updates.
LEMMA RenderedBy ==
    ASSUME NEW updates \in Seq(Updates), NEW r, NEW g,
           g = [n \in 0..Len(updates) |-> IF n = 0 THEN msgs ELSE Page!Run(g[n - 1], updates[n], r)]
    PROVE  Page!Rendered(updates, r) = g[Len(updates)]
<1> DEFINE L == Len(updates)
           After(h) == [n \in 0..L |-> IF n = 0 THEN msgs ELSE Page!Run(h[n - 1], updates[n], r)]
           a == CHOOSE h : h = After(h)
<1>1. L \in Nat
  OBVIOUS
<1>2. Page!Rendered(updates, r) = a[L]
  BY DEF Page!Rendered
<1>3. a = After(a)
  <2>1. g = After(g)
    OBVIOUS
  <2> HIDE DEF After
  <2> QED
    BY <2>1
<1> HIDE DEF a
<1>4. ASSUME NEW h, h = After(h)
      PROVE  h[0] = msgs /\ \A n \in 1..L : h[n] = Page!Run(h[n - 1], updates[n], r)
  <2>1. \A n \in 0..L : h[n] = IF n = 0 THEN msgs ELSE Page!Run(h[n - 1], updates[n], r)
    BY <1>4
  <2> HIDE DEF After, L
  <2> QED
    BY <1>1, <2>1
<1>5. g = After(g)
  OBVIOUS
<1>6. \A n \in 0..L : a[n] = g[n]
  <2>1. a[0] = msgs /\ \A n \in 1..L : a[n] = Page!Run(a[n - 1], updates[n], r)
    BY <1>3, <1>4
  <2>2. g[0] = msgs /\ \A n \in 1..L : g[n] = Page!Run(g[n - 1], updates[n], r)
    BY <1>4, <1>5
  <2> HIDE DEF After, L
  <2>3. \A n \in 1..L : a[n - 1] = g[n - 1] => a[n] = g[n]
    BY <2>1, <2>2
  <2> QED
    <3>1. a[0] = g[0]
      BY <2>1, <2>2
    <3> QED
      BY ONLY <1>1, <2>3, <3>1, SameValues
<1> HIDE DEF L, After
<1>7. a[L] = g[L]
  BY <1>1, <1>6
<1> QED
  BY <1>2, <1>7 DEF L

\* Without a ref, only the first update may still change a message.
LEMMA RenderedNone ==
    ASSUME NEW updates \in Seq(Updates),
           \A i \in DOMAIN updates : i # 1 => updates[i].at \in {Later, None}
    PROVE  Page!Rendered(updates, None) =
               IF updates = <<>> THEN msgs ELSE Page!Run(msgs, updates[1], None)
<1> DEFINE first == Page!Run(msgs, updates[1], None)
           g == [n \in 0..Len(updates) |-> IF n = 0 THEN msgs ELSE first]
<1>1. Len(updates) \in Nat
  OBVIOUS
<1>2. \A n \in 2..Len(updates) : Page!Run(first, updates[n], None) = first
  BY DEF Page!Run
<1>3. \A n \in 0..Len(updates) :
          g[n] = IF n = 0 THEN msgs ELSE Page!Run(g[n - 1], updates[n], None)
  <2>0. g[0] = msgs /\ \A n \in 1..Len(updates) : g[n] = first
    BY <1>1
  <2> HIDE DEF g
  <2>1. ASSUME NEW n \in 1..Len(updates) PROVE g[n] = Page!Run(g[n - 1], updates[n], None)
    <3>1. CASE n = 1
      BY <1>1, <2>0, <3>1
    <3>2. CASE n # 1
      <4>1. n \in 2..Len(updates) /\ n - 1 \in 1..Len(updates)
        BY <1>1, <3>2
      <4> QED
        BY <1>2, <2>0, <4>1
    <3> QED
      BY <3>1, <3>2
  <2> QED
    BY <1>1, <2>0, <2>1
<1>4. g = [n \in 0..Len(updates) |-> IF n = 0 THEN msgs ELSE Page!Run(g[n - 1], updates[n], None)]
  BY <1>3
<1>5. Page!Rendered(updates, None) = g[Len(updates)]
  BY <1>4, RenderedBy
<1>6. g[Len(updates)] = IF updates = <<>> THEN msgs ELSE first
  BY <1>1
<1> QED
  BY <1>5, <1>6

LEMMA SpokenIs ==
    ASSUME NEW q \in Questions, NEW voice \in {Pieces, Whole0}, NEW n \in Nat
    PROVE  /\ Spoken(q, voice, n) \in Seq(Questions \X Nat) /\ Len(Spoken(q, voice, n)) = n
           /\ \A i \in 1..n : Spoken(q, voice, n)[i] = <<q, voice[i]>>
<1>1. \A i \in 1..n : voice[i] \in Nat
  BY TwoVoices
<1>2. \A i \in 1..n : <<q, voice[i]>> \in Questions \X Nat
  BY <1>1
<1> QED
  BY <1>2 DEF Spoken

LEMMA SpokenNext ==
    ASSUME NEW q \in Questions, NEW voice \in {Pieces, Whole0}, NEW n \in Nat
    PROVE  Append(Spoken(q, voice, n), <<q, voice[n + 1]>>) = Spoken(q, voice, n + 1)
<1> DEFINE s == Spoken(q, voice, n)
           e == <<q, voice[n + 1]>>
           t == Spoken(q, voice, n + 1)
<1>1. s \in Seq(Questions \X Nat) /\ Len(s) = n /\ \A i \in 1..n : s[i] = <<q, voice[i]>>
  BY SpokenIs
<1>2. e \in Questions \X Nat
  BY TwoVoices
<1>3. /\ t \in Seq(Questions \X Nat) /\ Len(t) = n + 1
      /\ \A i \in 1..(n + 1) : t[i] = <<q, voice[i]>>
  <2>1. n + 1 \in Nat
    OBVIOUS
  <2> QED
    BY <2>1, SpokenIs
<1> HIDE DEF s, t
<1>4. /\ Append(s, e) \in Seq(Questions \X Nat) /\ Len(Append(s, e)) = n + 1
      /\ \A i \in 1..n : Append(s, e)[i] = s[i]
      /\ Append(s, e)[n + 1] = e
  BY <1>1, <1>2, AppendProperties
<1>5. \A i \in 1..(n + 1) : Append(s, e)[i] = t[i]
  <2> SUFFICES ASSUME NEW i \in 1..(n + 1) PROVE Append(s, e)[i] = t[i]
    OBVIOUS
  <2>1. CASE i = n + 1
    BY <1>3, <1>4, <2>1
  <2>2. CASE i # n + 1
    <3>1. i \in 1..n
      BY <2>2
    <3> QED
      BY <1>1, <1>3, <1>4, <3>1
  <2> QED
    BY <2>1, <2>2
<1> HIDE DEF e
<1>6. Append(s, e) = t
  BY <1>3, <1>4, <1>5, SeqEqual
<1> QED
  BY <1>6 DEF s, t, e

\* The messages when that of q shows this text.
With(q, text) == [msgs EXCEPT ![q] = [msgs[q] EXCEPT !.text = text]]

LEMMA WithIs ==
    ASSUME msgs \in [Questions -> Message], NEW q \in Questions, NEW text
    PROVE  /\ With(q, text) \in [Questions -> [status : {"none", "streaming", "done", "error"},
                                              text : Seq(Questions \X (0..MaxText)) \cup {text},
                                              sources : Seq(Rows)]]
           /\ With(q, text)[q].text = text
           /\ With(q, text)[q].status = msgs[q].status /\ With(q, text)[q].sources = msgs[q].sources
           /\ \A r \in Questions \ {q} : With(q, text)[r] = msgs[r]
           /\ With(q, msgs[q].text) = msgs
BY DEF With, Message

LEMMA UpdatedIs ==
    ASSUME NEW message, NEW u
    PROVE  /\ u.kind = "append" =>
                  Page!Updated(message, u) = [message EXCEPT !.text = Append(message.text, u.arg)]
           /\ u.kind = "finish" =>
                  Page!Updated(message, u) = [message EXCEPT !.status = "done", !.sources = u.arg]
           /\ u.kind = "fail" => Page!Updated(message, u) = [message EXCEPT !.status = "error"]
           /\ u.kind = "idle" => Page!Updated(message, u) = message
BY DEF Page!Updated

LEMMA AppendWith ==
    ASSUME msgs \in [Questions -> Message], NEW q \in Questions, NEW text, NEW u,
           u.kind = "append", u.at \in {Later, q}
    PROVE  Page!Run(With(q, text), u, q) = With(q, Append(text, u.arg))
<1> DEFINE w == With(q, text)
<1>1. q # None /\ Later # None
  BY RagAssumption
<1>2. Page!Run(w, u, q) = [w EXCEPT ![q] = Page!Updated(w[q], u)]
  BY <1>1 DEF Page!Run
<1>3. Page!Updated(w[q], u) = [w[q] EXCEPT !.text = Append(w[q].text, u.arg)]
  <2> HIDE DEF w
  <2> QED
    BY UpdatedIs
<1>4. w[q].text = text
  BY WithIs
<1>5. w = [msgs EXCEPT ![q] = [msgs[q] EXCEPT !.text = text]] /\ w[q] = [msgs[q] EXCEPT !.text = text]
  BY DEF With
<1> DEFINE new == Append(text, u.arg)
<1>6. Page!Updated(w[q], u) = [w[q] EXCEPT !.text = new]
  BY <1>3, <1>4
<1> HIDE DEF w, new
<1>7. [w[q] EXCEPT !.text = new] = [msgs[q] EXCEPT !.text = new]
  BY <1>5 DEF Message
<1>8. Page!Run(w, u, q) = [msgs EXCEPT ![q] = [msgs[q] EXCEPT !.text = new]]
  BY <1>2, <1>5, <1>6, <1>7
<1> QED
  BY <1>8 DEF With, w, new

\* While the ref holds the question, everything that waits becomes text of its answer.
LEMMA RenderedLive ==
    ASSUME msgs \in [Questions -> Message], pending \in Seq(Updates), NEW q \in Questions,
           NEW voice \in {Pieces, Whole0}, NEW n \in Nat, msgs[q].text = Spoken(q, voice, n),
           \A i \in DOMAIN pending : /\ pending[i].kind = "append" /\ pending[i].at \in {Later, q}
                                      /\ pending[i].arg = <<q, voice[n + i]>>
    PROVE  Page!Rendered(pending, q) = With(q, Spoken(q, voice, n + Len(pending)))
<1> DEFINE L == Len(pending)
           g == [k \in 0..L |-> With(q, Spoken(q, voice, n + k))]
<1>1. L \in Nat /\ DOMAIN pending = 1..L
  OBVIOUS
<1>2. /\ n + 0 = n /\ n + L \in Nat
      /\ \A k \in 1..L : n + (k - 1) \in Nat /\ (n + (k - 1)) + 1 = n + k
  BY <1>1
<1>3. With(q, Spoken(q, voice, n + 0)) = msgs
  BY <1>2, WithIs
<1>4. ASSUME NEW k \in 1..L
      PROVE  Page!Run(With(q, Spoken(q, voice, n + (k - 1))), pending[k], q) =
                 With(q, Spoken(q, voice, n + k))
  <2>1. Append(Spoken(q, voice, n + (k - 1)), <<q, voice[n + k]>>) = Spoken(q, voice, n + k)
    BY <1>2, SpokenNext
  <2>2. /\ pending[k].kind = "append" /\ pending[k].at \in {Later, q}
        /\ pending[k].arg = <<q, voice[n + k]>>
    BY <1>1
  <2> DEFINE text == Spoken(q, voice, n + (k - 1)) u == pending[k]
  <2>3. u.kind = "append" /\ u.at \in {Later, q}
    BY <2>2
  <2> HIDE DEF text, u
  <2>4. Page!Run(With(q, text), u, q) = With(q, Append(text, u.arg))
    BY <2>3, AppendWith
  <2> QED
    BY <2>1, <2>2, <2>4 DEF text, u
<1>5. \A k \in 0..L : g[k] = With(q, Spoken(q, voice, n + k))
  OBVIOUS
<1> HIDE DEF L
<1>6. \A k \in 0..L : With(q, Spoken(q, voice, n + k)) =
                         IF k = 0 THEN msgs ELSE Page!Run(g[k - 1], pending[k], q)
  <2>1. \A k \in 1..L : k - 1 \in 0..L /\ g[k - 1] = With(q, Spoken(q, voice, n + (k - 1)))
    BY <1>1, <1>5
  <2> HIDE DEF g
  <2> QED
    BY <1>1, <1>3, <1>4, <2>1
<1>7. g = [k \in 0..L |-> IF k = 0 THEN msgs ELSE Page!Run(g[k - 1], pending[k], q)]
  BY <1>6
<1>8. Page!Rendered(pending, q) = g[L]
  <2> HIDE DEF g
  <2> QED
    BY <1>7, RenderedBy DEF L
<1> QED
  BY <1>1, <1>5, <1>8 DEF L

-----------------------------------------------------------------------------
(* The steps of the server and the page *)

PageOK == Page!TypeOKPage /\ msgs \in [Questions -> Message] /\ pending \in Seq(Updates)

IInv == ServerOK /\ PageOK /\ PageFollows /\ AnswersFit

LEMMA LiveSame ==
    ASSUME NEW q \in Questions, Live(q),
           UNCHANGED <<msgs[q], pending, phase[q], told[q], wire[q]>>
    PROVE  Live(q)'
BY DEF Live, OnTheWire, Carries, Said, Ending, MaySpeak

\* Messages that are left alone still show what they may.
LEMMA MessagesKept ==
    ASSUME IInv, UNCHANGED msgs, \A q \in Questions : Grows(q)
    PROVE  /\ (\A q \in Questions : Voiced(q))'
           /\ (\A q \in Questions, sources \in Seq(Rows) :
                  msgs[q].status = "done" /\ msgs[q].sources = sources => MayFinish(q, sources))'
<1>1. ASSUME NEW q \in Questions PROVE Voiced(q)'
  BY VoicedKept DEF IInv, AnswersFit
<1>2. ASSUME NEW q \in Questions, NEW sources \in Seq(Rows),
             msgs'[q].status = "done", msgs'[q].sources = sources
      PROVE  MayFinish(q, sources)'
  BY <1>2, MayFinishKept DEF IInv, AnswersFit
<1> QED
  BY <1>1, <1>2

LEMMA FirstKept ==
    ASSUME IInv, UNCHANGED msgs, \A q \in Questions : Grows(q),
           pending # <<>>, pending' # <<>>, pending'[1] = pending[1]
    PROVE  (\A q \in Questions, u \in Updates :
               pending # <<>> /\ pending[1] = u /\ u.at = q => Fits(q, u))'
<1>1. ASSUME NEW q \in Questions, NEW u \in Updates, pending'[1] = u, u.at = q PROVE Fits(q, u)'
  <2>1. Fits(q, u)
    BY <1>1 DEF IInv, AnswersFit
  <2> QED
    BY <2>1, FitsKept DEF IInv
<1> QED
  BY <1>1

\* A step of the server, as the page sees it.
LEMMA PageStays ==
    ASSUME IInv, ServerOK', UNCHANGED <<page, latest, op>>,
           \A q \in Questions : Grows(q) /\ (phase[q] # "idle" => phase'[q] # "idle"),
           \A q \in Questions : ref = q => Live(q)'
    PROVE  IInv'
<1> USE DEF page
<1>1. PageOK'
  BY DEF IInv, PageOK, Page!TypeOKPage
<1>2. PageFollows'
  BY DEF IInv, PageFollows, ServerOK, TypeOKServer
<1>3. (\A q \in Questions, u \in Updates :
          pending # <<>> /\ pending[1] = u /\ u.at = q => Fits(q, u))'
  BY FirstKept
<1>4. AnswersFit'
  BY <1>3, MessagesKept DEF AnswersFit
<1> QED
  BY <1>1, <1>2, <1>4 DEF IInv

LEMMA ServerStepOK == ASSUME IInv, NEW q \in Questions, ServerStep(q) PROVE IInv'
<1>1. ServerOK /\ Served1(q)
  BY ServeOK DEF IInv, ServerStep
<1>2. \A r \in Questions : Grows(r) /\ (phase[r] # "idle" => phase'[r] # "idle")
  <2>1. Grows(q) /\ (phase[q] # "idle" => phase'[q] # "idle")
    BY <1>1, ProgressGrows DEF Served1, Progress, NoProgress, Ends, SaysPiece, SaysWhole
  <2>2. ASSUME NEW r \in Questions \ {q} PROVE Grows(r) /\ UNCHANGED phase[r]
    BY <1>1, KeptGrows DEF Served1, OthersKept
  <2> QED
    BY <2>1, <2>2
<1>3. ASSUME NEW r \in Questions, ref = r PROVE Live(r)'
  <2>1. Live(r)
    BY <1>3 DEF IInv, AnswersFit
  <2>2. CASE r = q
    <3>1. op[q] = "stream"
      BY <1>3, <2>2, RagAssumption DEF IInv, PageFollows
    <3>2. Len(msgs[q].text) \in Nat /\ Len(pending) \in Nat
      BY DEF IInv, PageOK, Message
    <3> QED
      BY <1>1, <2>1, <2>2, <3>1, <3>2, LiveKept DEF Served1, ServerStep, page
  <2>3. CASE r # q
    BY <1>1, <2>1, <2>3, LiveSame DEF Served1, OthersKept, ServerStep, page
  <2> QED
    BY <2>2, <2>3
<1> QED
  BY <1>1, <1>2, <1>3, PageStays DEF Served1, ServerStep

\* A connection that is lost takes with it what was on the wire.
LEMMA LostOK ==
    ASSUME ServerOK, NEW q \in Questions, Goto(q, "lost"), wire' = [wire EXCEPT ![q] = <<>>],
           UNCHANGED <<retrievalVars, latest, op, context, told>>
    PROVE  /\ ServerOK' /\ OthersKept(q) /\ Grows(q)
           /\ phase'[q] = "lost" /\ wire'[q] = <<>> /\ UNCHANGED told[q]
<1>1. Tables /\ QuestionOK(q) /\ latest \in Questions /\ RetrievalOK
  BY ServerParts
<1>2. phase'[q] = "lost" /\ \E x \in Phases : phase' = [phase EXCEPT ![q] = x]
  BY GotoOK DEF Phases
<1>3. wire'[q] = <<>> /\ \E x \in Seq(Events) : wire' = [wire EXCEPT ![q] = x]
  <2>1. <<>> \in Seq(Events)
    OBVIOUS
  <2>2. wire'[q] = <<>>
    BY <1>1 DEF Tables
  <2> QED
    BY <2>1, <2>2
<1>4. Touches(q)
  BY <1>2, <1>3, Untouched DEF Touches
<1>5. QuestionOK(q)'
  BY <1>1, <1>2, <1>3 DEF QuestionOK, Phases, Before
<1>6. ServerOK' /\ OthersKept(q)
  BY <1>1, <1>4, <1>5, SameRetrieval, Touched
<1>7. Grows(q)
  BY <1>1, <1>2, ServerAssumption DEF Grows, QuestionOK
<1> QED
  BY <1>2, <1>3, <1>6, <1>7

LEMMA LiveLost ==
    ASSUME NEW q \in Questions, Live(q), Grows(q), UNCHANGED <<msgs[q], pending, told[q]>>,
           phase'[q] = "lost", wire'[q] = <<>>
    PROVE  Live(q)'
BY DEF Live, Said, MaySpeak

LEMMA LossOK == ASSUME IInv, NEW q \in Questions, Loss(q) PROVE IInv'
<1>1. /\ ServerOK' /\ OthersKept(q) /\ Grows(q)
      /\ phase'[q] = "lost" /\ wire'[q] = <<>> /\ UNCHANGED told[q]
  BY LostOK DEF IInv, Loss, Loses
<1>2. \A r \in Questions : Grows(r) /\ (phase[r] # "idle" => phase'[r] # "idle")
  BY <1>1, KeptGrows DEF OthersKept, IInv
<1>3. ASSUME NEW r \in Questions, ref = r PROVE Live(r)'
  <2>1. Live(r)
    BY <1>3 DEF IInv, AnswersFit
  <2> QED
    BY <1>1, <2>1, LiveLost, LiveSame DEF OthersKept, Loss, page
<1> QED
  BY <1>1, <1>2, <1>3, PageStays DEF Loss, Loses

\* The question whose stream is read is the one the page follows.
LEMMA ReaderIs ==
    ASSUME IInv, NEW q \in Questions, q \in reading, q \notin aborted
    PROVE  /\ ctl = q /\ latest = q /\ op[q] = "stream" /\ shown /\ ref \in {None, q}
           /\ \A i \in DOMAIN pending : pending[i].kind # "idle"
BY RagAssumption DEF IInv, PageFollows

\* The updates of the page, by what they are for.
LEMMA UpdateIn ==
    ASSUME NEW kind \in UpdateKinds, NEW arg \in (Questions \X (0..MaxText)) \cup Seq(Rows),
           NEW at \in Questions \cup {None, Later}
    PROVE  /\ Page!Update(kind, arg, at) \in Updates
           /\ Page!Update(kind, arg, at).kind = kind
           /\ Page!Update(kind, arg, at).arg = arg
           /\ Page!Update(kind, arg, at).at = at
BY DEF Page!Update, Updates

LEMMA AppendedIs ==
    ASSUME NEW s \in Seq(Updates), NEW u \in Updates
    PROVE  /\ Append(s, u) \in Seq(Updates) /\ Append(s, u) # <<>>
           /\ Len(Append(s, u)) = Len(s) + 1
           /\ DOMAIN Append(s, u) = 1..(Len(s) + 1)
           /\ DOMAIN s = 1..Len(s) /\ Len(s) \in Nat
           /\ \A i \in DOMAIN s : Append(s, u)[i] = s[i]
           /\ Append(s, u)[Len(s) + 1] = u
           /\ s = <<>> => Append(s, u)[1] = u /\ Len(s) = 0
           /\ s # <<>> => Append(s, u)[1] = s[1] /\ Len(s) > 0
<1>1. Len(s) \in Nat /\ DOMAIN s = 1..Len(s) /\ (s = <<>> => Len(s) = 0)
  OBVIOUS
<1>2. /\ Append(s, u) \in Seq(Updates) /\ Len(Append(s, u)) = Len(s) + 1
      /\ \A i \in 1..Len(s) : Append(s, u)[i] = s[i]
      /\ Append(s, u)[Len(s) + 1] = u
  BY AppendProperties
<1>3. s # <<>> => 1 \in 1..Len(s) /\ Len(s) > 0
  BY <1>1
<1>4. DOMAIN Append(s, u) = 1..(Len(s) + 1) /\ Append(s, u) # <<>>
  BY <1>1, <1>2
<1> QED
  BY <1>1, <1>2, <1>3, <1>4

LEMMA SetMessagesIs ==
    ASSUME ref \in Questions, NEW kind \in UpdateKinds,
           NEW arg \in (Questions \X (0..MaxText)) \cup Seq(Rows), Page!SetMessages(kind, arg)
    PROVE  \E u \in Updates : /\ u.kind = kind /\ u.arg = arg
                              /\ u.at \in {Later} \cup (IF pending = <<>> THEN {ref} ELSE {})
                              /\ pending' = Append(pending, u)
<1>1. PICK at \in {Later} \cup (IF pending = <<>> THEN {ref} ELSE {}) :
          pending' = Append(pending, Page!Update(kind, arg, at))
  BY DEF Page!SetMessages
<1>2. at \in Questions \cup {None, Later}
  BY <1>1
<1> QED
  BY <1>1, <1>2, UpdateIn

\* An event of the answer the ref holds adds one update.
LEMMA MoreWaits ==
    ASSUME IInv, ServerOK', NEW q \in Questions, ref = q, ref' \in {None, q},
           NEW u \in Updates, u.kind \in {"append", "finish", "fail"},
           u.at \in {Later} \cup (IF pending = <<>> THEN {q} ELSE {}), pending' = Append(pending, u),
           UNCHANGED <<msgs, ctl, aborted, reading, shown, phase, latest, op>>,
           \A r \in Questions : Grows(r),
           ref' = q => Live(q)', pending = <<>> => Fits(q, u)'
    PROVE  IInv'
<1>1. pending \in Seq(Updates)
  BY DEF IInv, PageOK
<1>2. /\ pending' \in Seq(Updates) /\ pending' # <<>>
      /\ DOMAIN pending' = 1..(Len(pending) + 1) /\ DOMAIN pending = 1..Len(pending)
      /\ Len(pending) \in Nat
      /\ \A i \in DOMAIN pending : pending'[i] = pending[i]
      /\ pending'[Len(pending) + 1] = u
      /\ pending = <<>> => pending'[1] = u /\ Len(pending) = 0
      /\ pending # <<>> => pending'[1] = pending[1] /\ Len(pending) > 0
  BY <1>1, AppendedIs
<1>3. \A i \in DOMAIN pending' : i \in DOMAIN pending \/ i = Len(pending) + 1
  BY <1>2
<1>4. PageOK'
  <2>1. \A i \in DOMAIN pending' : pending'[i].kind \in {"append", "finish", "fail", "settle", "idle"}
    BY <1>2, <1>3 DEF IInv, PageOK, Page!TypeOKPage
  <2> QED
    BY <1>2, <2>1 DEF IInv, PageOK, Page!TypeOKPage
<1>5. q # None /\ ctl = q /\ latest = q
  BY RagAssumption DEF IInv, PageFollows
<1>6. PageFollows'
  <2>1. \A i \in DOMAIN pending' :
            /\ pending'[i].at \in {None, Later} \cup (IF i = 1 THEN {latest} ELSE {})
            /\ pending'[i].kind # "settle" /\ pending'[i].kind # "idle"
    BY <1>2, <1>3, <1>5 DEF IInv, PageFollows
  <2> QED
    BY <1>5, <2>1 DEF IInv, PageFollows
<1>7. (\A r \in Questions, v \in Updates :
          pending # <<>> /\ pending[1] = v /\ v.at = r => Fits(r, v))'
  <2>1. CASE pending = <<>>
    <3> SUFFICES ASSUME NEW r \in Questions, NEW v \in Updates, pending'[1] = v, v.at = r
                 PROVE  Fits(r, v)'
      OBVIOUS
    <3>1. v = u /\ r = q
      BY <1>2, <2>1, RagAssumption
    <3> QED
      BY <2>1, <3>1
  <2>2. CASE pending # <<>>
    BY <1>2, <2>2, FirstKept
  <2> QED
    BY <2>1, <2>2
<1>8. AnswersFit'
  <2>1. ASSUME NEW r \in Questions, ref' = r PROVE Live(r)'
    BY <1>5, <2>1, RagAssumption
  <2> QED
    BY <1>7, <2>1, MessagesKept DEF AnswersFit
<1> QED
  BY <1>4, <1>6, <1>8 DEF IInv

LEMMA SpokenPieces == ASSUME NEW q, NEW n \in Nat PROVE Spoken(q, Pieces, n) = Streamed(q, n)
<1>1. \A i \in 1..n : Pieces[i] = i
  BY TwoVoices
<1> QED
  BY <1>1 DEF Spoken, Streamed

\* The next event on the wire of the answer that the ref holds.
LEMMA NextEvent ==
    ASSUME IInv, NEW q \in Questions, ref = q, wire[q] # <<>>
    PROVE  LET e == Head(wire[q]) IN
           /\ e.type = "token" => <<q, e.part>> \in Questions \X (0..MaxText)
           /\ \E voice \in {Pieces, Whole0} :
              LET n == Len(msgs[q].text) m == n + Len(pending) IN
              /\ MaySpeak(q, voice)
              /\ n \in Nat /\ Len(pending) \in Nat
              /\ msgs[q].status = "streaming" /\ msgs[q].text = Spoken(q, voice, n)
              /\ \A i \in DOMAIN pending :
                    /\ pending[i].kind = "append" /\ pending[i].at # None
                    /\ pending[i].arg = <<q, voice[n + i]>>
              /\ phase[q] # "lost"
              /\ e.type = "token" =>
                    /\ m + 1 <= Said(q, voice) /\ e.part = voice[m + 1]
                    /\ Carries(Tail(wire[q]), voice, m + 1, Said(q, voice) - (m + 1), Ending(q))
              /\ e.type = "done" => phase[q] = "answered" /\ m = Said(q, voice)
<1> DEFINE e == Head(wire[q]) n == Len(msgs[q].text) m == n + Len(pending)
<1>1. wire[q] \in Seq(Events) /\ e \in Events
  BY HeadTailProperties DEF IInv, ServerOK
<1>2. e.type = "token" => <<q, e.part>> \in Questions \X (0..MaxText)
  BY <1>1 DEF Events, Done, Error, Token
<1>3. n \in Nat /\ Len(pending) \in Nat /\ m \in Nat
  BY DEF IInv, PageOK, Message
<1>4. PICK voice \in {Pieces, Whole0} :
          /\ MaySpeak(q, voice)
          /\ msgs[q].status = "streaming" /\ msgs[q].text = Spoken(q, voice, n)
          /\ \A i \in DOMAIN pending :
                /\ pending[i].kind = "append" /\ pending[i].at # None
                /\ pending[i].arg = <<q, voice[n + i]>>
          /\ m <= Said(q, voice)
          /\ IF phase[q] = "lost" THEN wire[q] = <<>> ELSE OnTheWire(q, voice, m)
  BY DEF IInv, AnswersFit, Live
<1> DEFINE left == Said(q, voice) - m
<1>5. Said(q, voice) \in Nat /\ left \in Nat /\ left - 1 = Said(q, voice) - (m + 1)
  <2>1. Said(q, voice) \in Nat
    BY SaidIsNat DEF IInv
  <2> HIDE DEF m
  <2> QED
    BY <1>3, <1>4, <2>1
<1>6. phase[q] # "lost" /\ Carries(wire[q], voice, m, left, Ending(q))
  BY <1>4 DEF OnTheWire
<1>7. Ending(q) \in Seq(Events)
  BY EventsKnown DEF Ending
<1> HIDE DEF e, m, left
<1>8. /\ left > 0 => e = Token(voice[m + 1]) /\ Carries(Tail(wire[q]), voice, m + 1, left - 1, Ending(q))
      /\ left = 0 => Ending(q) # <<>> /\ e = Ending(q)[1]
  BY <1>1, <1>3, <1>5, <1>6, <1>7, WireRead DEF e
<1>9. left = 0 => e \in {Done, Error} /\ (e = Done => phase[q] = "answered")
  BY <1>8 DEF Ending, Done, Error
<1>10. e.type = "token" => left > 0
  BY <1>5, <1>9 DEF Done, Error
<1>11. e.type = "done" => left = 0 /\ phase[q] = "answered"
  BY <1>5, <1>8, <1>9 DEF Done, Error, Token
<1>12. e.type = "token" =>
          /\ m + 1 <= Said(q, voice) /\ e.part = voice[m + 1]
          /\ Carries(Tail(wire[q]), voice, m + 1, Said(q, voice) - (m + 1), Ending(q))
  <2>1. e.type = "token" => e.part = voice[m + 1]
    BY <1>8, <1>10 DEF Token
  <2>2. left > 0 => m + 1 <= Said(q, voice)
    BY <1>3, <1>5 DEF left
  <2> QED
    BY <1>5, <1>8, <1>10, <2>1, <2>2
<1>13. left = 0 => m = Said(q, voice)
  BY <1>3, <1>5 DEF left
<1> QED
  BY <1>2, <1>3, <1>4, <1>6, <1>11, <1>12, <1>13 DEF e, m

LEMMA ReceiveOK == ASSUME IInv, NEW q \in Questions, Receive(q) PROVE IInv'
<1> DEFINE e == Head(wire[q])
<1>1. /\ wire[q] # <<>> /\ wire' = [wire EXCEPT ![q] = Tail(@)]
      /\ UNCHANGED <<retrievalVars, latest, op, phase, context, told>>
      /\ q \in reading /\ q \notin aborted
      /\ UNCHANGED <<msgs, ctl, aborted, reading, shown>>
  BY DEF Receive, Page!Receive, Page!Listens
<1>2. Tables /\ QuestionOK(q) /\ latest \in Questions /\ RetrievalOK /\ ServerOK
  BY ServerParts DEF IInv
<1>3. wire'[q] = Tail(wire[q]) /\ Tail(wire[q]) \in Seq(Events)
  BY <1>1, <1>2, HeadTailProperties DEF Tables
<1>4. ServerOK' /\ OthersKept(q)
  <2>1. \E x \in Seq(Events) : wire' = [wire EXCEPT ![q] = x]
    BY <1>1, <1>3
  <2>2. Touches(q)
    BY <1>1, <1>2, <2>1, Untouched DEF Touches
  <2>3. QuestionOK(q)'
    BY <1>1, <1>2, <1>3 DEF QuestionOK
  <2> QED
    BY <1>1, <1>2, <2>2, <2>3, SameRetrieval, Touched
<1>5. \A r \in Questions : Grows(r)
  BY <1>1, <1>2, KeptGrows
<1>6. ref \in {None, q} /\ q # None
  BY <1>1, ReaderIs, RagAssumption
<1>7. e.type \in {"token", "done", "error"}
  <2>1. e \in Events
    BY <1>1, <1>2, HeadTailProperties DEF Tables
  <2> QED
    BY <2>1 DEF Events, Token, Done, Error
<1>8. CASE ref = None
  <2>1. UNCHANGED <<pending, ref>>
    BY <1>7, <1>8 DEF Receive, Page!Receive, Page!AppendAssistantContent, Page!FinalizeAssistantMessage,
                Page!HandleError
  <2> QED
    BY <1>1, <1>4, <1>5, <1>6, <1>8, <2>1, RagAssumption, PageStays DEF page
<1>9. CASE ref = q
  <2>1. PICK voice \in {Pieces, Whole0} :
            LET n == Len(msgs[q].text) m == n + Len(pending) IN
            /\ MaySpeak(q, voice)
            /\ n \in Nat /\ Len(pending) \in Nat
            /\ msgs[q].status = "streaming" /\ msgs[q].text = Spoken(q, voice, n)
            /\ \A i \in DOMAIN pending :
                  /\ pending[i].kind = "append" /\ pending[i].at # None
                  /\ pending[i].arg = <<q, voice[n + i]>>
            /\ phase[q] # "lost"
            /\ e.type = "token" =>
                  /\ m + 1 <= Said(q, voice) /\ e.part = voice[m + 1]
                  /\ Carries(Tail(wire[q]), voice, m + 1, Said(q, voice) - (m + 1), Ending(q))
            /\ e.type = "done" => phase[q] = "answered" /\ m = Said(q, voice)
    BY <1>1, <1>9, NextEvent
  <2> DEFINE n == Len(msgs[q].text) m == n + Len(pending)
  <2>2. /\ MaySpeak(q, voice)' /\ Said(q, voice)' = Said(q, voice) /\ Ending(q)' = Ending(q)
        /\ Said(q, voice) \in Nat
    BY <1>1, <1>2, <2>1, SaidIsNat DEF MaySpeak, Said, Ending
  <2>3. ref \in Questions /\ context[q] \in Seq(Rows) /\ <<>> \in Seq(Rows)
    BY <1>2, <1>9 DEF Tables
  <2>4. pending \in Seq(Updates)
    BY DEF IInv, PageOK
  <2>5. CASE e.type = "token"
    <3> DEFINE arg == <<q, e.part>>
    <3>1. Page!SetMessages("append", arg) /\ ref' = q
      BY <1>6, <1>9, <2>5 DEF Receive, Page!Receive, Page!AppendAssistantContent
    <3>2. arg \in Questions \X (0..MaxText) /\ arg = <<q, voice[m + 1]>>
      BY <1>1, <1>9, <2>1, <2>5, NextEvent
    <3> HIDE DEF arg
    <3>3. PICK u \in Updates : /\ u.kind = "append" /\ u.arg = arg
                               /\ u.at \in {Later} \cup (IF pending = <<>> THEN {q} ELSE {})
                               /\ pending' = Append(pending, u)
      BY <1>9, <2>3, <3>1, <3>2, SetMessagesIs DEF UpdateKinds
    <3>4. Live(q)'
      <4>1. /\ Len(pending') = Len(pending) + 1 /\ DOMAIN pending' = 1..(Len(pending) + 1)
            /\ \A i \in DOMAIN pending : pending'[i] = pending[i]
            /\ pending'[Len(pending) + 1] = u /\ DOMAIN pending = 1..Len(pending)
        BY <2>4, <3>3, AppendedIs
      <4>2. u.at # None
        BY <1>6, <3>3, RagAssumption
      <4>3. m + 1 = n + (Len(pending) + 1) /\ m + 1 = n + Len(pending')
        <5>1. n \in Nat /\ Len(pending) \in Nat
          BY <2>1
        <5> HIDE DEF n
        <5> QED
          BY <4>1, <5>1
      <4>4. \A i \in DOMAIN pending' : i \in DOMAIN pending \/ i = Len(pending) + 1
        BY <2>1, <4>1
      <4>5. \A i \in DOMAIN pending' :
                /\ pending'[i].kind = "append" /\ pending'[i].at # None
                /\ pending'[i].arg = <<q, voice[n + i]>>
        <5> HIDE DEF n
        <5> QED
          BY <2>1, <3>2, <3>3, <4>1, <4>2, <4>3, <4>4 DEF n
      <4>6. m + 1 <= Said(q, voice)' /\ Carries(wire'[q], voice, m + 1, Said(q, voice)' - (m + 1), Ending(q)')
        BY <1>3, <2>1, <2>2, <2>5
      <4>7. n' = n /\ n + Len(pending') = m + 1 /\ phase'[q] # "lost"
        BY <1>1, <2>1, <4>3
      <4>8. msgs'[q].status = "streaming" /\ msgs'[q].text = Spoken(q, voice, n)
        BY <1>1, <2>1
      <4> HIDE DEF m
      <4> QED
        BY <2>2, <4>5, <4>6, <4>7, <4>8 DEF Live, OnTheWire
    <3>5. pending = <<>> => Fits(q, u)'
      <4> SUFFICES ASSUME pending = <<>> PROVE Fits(q, u)'
        OBVIOUS
      <4>1. Len(pending) = 0 /\ m = n
        BY <2>1
      <4>2. n + 1 <= Said(q, voice)' /\ u.arg = <<q, voice[n + 1]>>
        BY <2>1, <2>2, <2>5, <3>2, <3>3, <4>1
      <4> QED
        BY <1>1, <2>1, <2>2, <3>3, <4>2 DEF Fits
    <3> QED
      BY <1>1, <1>4, <1>5, <1>9, <3>1, <3>3, <3>4, <3>5, MoreWaits
  <2>6. CASE e.type = "done"
    <3>1. Page!SetMessages("finish", context[q]) /\ ref' = None
      BY <1>6, <1>9, <2>6 DEF Receive, Page!Receive, Page!FinalizeAssistantMessage
    <3>2. PICK u \in Updates : /\ u.kind = "finish" /\ u.arg = context[q]
                               /\ u.at \in {Later} \cup (IF pending = <<>> THEN {q} ELSE {})
                               /\ pending' = Append(pending, u)
      BY <1>9, <2>3, <3>1, SetMessagesIs DEF UpdateKinds
    <3>3. pending = <<>> => Fits(q, u)'
      <4> SUFFICES ASSUME pending = <<>> PROVE Fits(q, u)'
        OBVIOUS
      <4>1. Len(pending) = 0 /\ n = Said(q, voice)
        BY <2>1, <2>6
      <4>2. told[q] > 0 => msgs[q].text = Streamed(q, told[q])
        BY <1>2, <2>1, <4>1, SpokenPieces, ServerAssumption DEF MaySpeak, Said, QuestionOK
      <4> QED
        BY <1>1, <2>1, <2>6, <3>2, <4>2 DEF Fits, MayFinish
    <3> QED
      BY <1>1, <1>4, <1>5, <1>6, <1>9, <3>1, <3>2, <3>3, MoreWaits
  <2>7. CASE e.type = "error"
    <3>1. Page!SetMessages("fail", <<>>) /\ ref' = None
      BY <1>6, <1>9, <2>7 DEF Receive, Page!Receive, Page!HandleError
    <3>2. PICK u \in Updates : /\ u.kind = "fail" /\ u.arg = <<>>
                               /\ u.at \in {Later} \cup (IF pending = <<>> THEN {q} ELSE {})
                               /\ pending' = Append(pending, u)
      <4> DEFINE arg == <<>>
      <4>1. arg \in Seq(Rows) /\ Page!SetMessages("fail", arg)
        BY <2>3, <3>1
      <4> HIDE DEF arg
      <4>2. \E u \in Updates : /\ u.kind = "fail" /\ u.arg = arg
                               /\ u.at \in {Later} \cup (IF pending = <<>> THEN {q} ELSE {})
                               /\ pending' = Append(pending, u)
        BY <1>9, <2>3, <4>1, SetMessagesIs DEF UpdateKinds
      <4> QED
        BY <4>2 DEF arg
    <3>3. Fits(q, u)'
      BY <3>2 DEF Fits
    <3> QED
      BY <1>1, <1>4, <1>5, <1>6, <1>9, <3>1, <3>2, <3>3, MoreWaits
  <2> QED
    BY <1>7, <2>5, <2>6, <2>7
<1> QED
  BY <1>6, <1>8, <1>9

\* A fetch that ends: what is left of it, if the page still followed it, is an "idle".
LEMMA AbandonsOK == ASSUME IInv, NEW q \in Questions, Abandons(q) PROVE IInv'
<1>1. /\ q \in aborted /\ q \in reading /\ reading' = reading \ {q}
      /\ UNCHANGED <<ctl, pending, msgs, ref, aborted, shown>>
      /\ Goto(q, "lost") /\ wire' = [wire EXCEPT ![q] = <<>>]
      /\ UNCHANGED <<retrievalVars, latest, op, context, told>>
  BY DEF Abandons, Page!Listens, Page!StreamOver, Page!Finally
<1>2. ServerOK' /\ OthersKept(q) /\ Grows(q) /\ phase'[q] = "lost"
  BY <1>1, LostOK DEF IInv
<1>3. \A r \in Questions : Grows(r) /\ (phase[r] # "idle" => phase'[r] # "idle")
  BY <1>2, KeptGrows DEF OthersKept, IInv
<1>4. PageOK'
  BY <1>1 DEF IInv, PageOK, Page!TypeOKPage
<1>5. PageFollows'
  BY <1>1, <1>3 DEF IInv, PageFollows, ServerOK, TypeOKServer
<1>6. ASSUME NEW r \in Questions, ref' = r PROVE Live(r)'
  <2>1. Live(r) /\ r # q
    BY <1>1, <1>6, RagAssumption DEF IInv, AnswersFit, PageFollows
  <2> QED
    BY <1>1, <1>2, <2>1, LiveSame DEF OthersKept
<1>7. (\A r \in Questions, u \in Updates :
          pending # <<>> /\ pending[1] = u /\ u.at = r => Fits(r, u))'
  BY <1>1, <1>3, FirstKept
<1> QED
  BY <1>1, <1>2, <1>3, <1>4, <1>5, <1>6, <1>7, MessagesKept DEF IInv, AnswersFit

LEMMA ServerSame ==
    ASSUME IInv, UNCHANGED serverVars
    PROVE  /\ ServerOK' /\ UNCHANGED <<latest, op, phase, context, told, wire>>
           /\ \A r \in Questions : Grows(r) /\ UNCHANGED <<phase[r], told[r], wire[r]>>
<1>1. UNCHANGED retrievalVars /\ UNCHANGED <<latest, op, phase, context, told, wire>>
  BY DEF serverVars
<1>2. RetrievalOK /\ latest \in Questions /\ Tables /\ \A r \in Questions : QuestionOK(r)
  BY ServerParts DEF IInv
<1>3. RetrievalOK'
  BY <1>1, <1>2, SameRetrieval
<1>4. Tables' /\ (\A r \in Questions : QuestionOK(r))' /\ latest' \in Questions
  BY <1>1, <1>2 DEF Tables, QuestionOK
<1>5. \A r \in Questions : Grows(r)
  BY <1>1, KeptGrows DEF IInv
<1> QED
  BY <1>1, <1>3, <1>4, <1>5, ServerPartsNext

\* The fetch that the page follows ends: an "idle" is behind all that waits.
LEMMA IdleEnds ==
    ASSUME IInv, UNCHANGED serverVars, NEW q \in Questions, q \in reading, q \notin aborted,
           reading' = reading \ {q}, ctl' = None, ref' = None, UNCHANGED <<msgs, aborted, shown>>,
           NEW s \in Seq(Updates), pending' = Append(s, Page!Update("idle", <<>>, None)),
           \A i \in DOMAIN s :
               /\ s[i].kind \in UpdateKinds \ {"settle"}
               /\ s[i].at \in {None, Later} \cup (IF i = 1 THEN {latest} ELSE {}),
           s # <<>> => IF pending = <<>> THEN s[1].kind = "fail" ELSE s[1] = pending[1],
           pending # <<>> => s # <<>>
    PROVE  IInv'
<1>1. /\ ServerOK' /\ UNCHANGED <<latest, op, phase, context, told, wire>>
      /\ \A r \in Questions : Grows(r)
  BY ServerSame
<1>2. ctl = q /\ latest = q /\ shown /\ q # None
  BY ReaderIs, RagAssumption
<1> DEFINE u == Page!Update("idle", <<>>, None)
<1>3. u \in Updates /\ u.kind = "idle" /\ u.at = None
  BY DEF Page!Update, Updates, UpdateKinds
<1>4. pending' = Append(s, u)
  OBVIOUS
<1> HIDE DEF u
<1>5. /\ pending' \in Seq(Updates) /\ pending' # <<>>
      /\ DOMAIN pending' = 1..(Len(s) + 1) /\ DOMAIN s = 1..Len(s) /\ Len(s) \in Nat
      /\ \A i \in DOMAIN s : pending'[i] = s[i]
      /\ pending'[Len(s) + 1] = u
      /\ s = <<>> => pending'[1] = u
      /\ s # <<>> => pending'[1] = s[1]
  BY <1>3, <1>4, AppendedIs
<1>6. \A i \in DOMAIN pending' : i \in DOMAIN s \/ i = Len(s) + 1
  BY <1>5
<1>7. \A i \in DOMAIN pending' :
          /\ pending'[i].at \in {None, Later} \cup (IF i = 1 THEN {latest} ELSE {})
          /\ pending'[i].kind \in UpdateKinds \ {"settle"}
  BY <1>3, <1>5, <1>6 DEF UpdateKinds
<1>8. PageOK'
  BY <1>5, <1>7 DEF IInv, PageOK, Page!TypeOKPage, UpdateKinds
<1>9. PageFollows'
  BY <1>1, <1>2, <1>7 DEF IInv, PageFollows
<1>10. (\A r \in Questions, v \in Updates :
          pending # <<>> /\ pending[1] = v /\ v.at = r => Fits(r, v))'
  <2>1. CASE pending # <<>>
    BY <1>1, <1>5, <2>1, FirstKept
  <2>2. CASE pending = <<>> /\ s # <<>>
    <3> SUFFICES ASSUME NEW r \in Questions, NEW v \in Updates, pending'[1] = v PROVE Fits(r, v)'
      OBVIOUS
    <3>1. v.kind = "fail"
      BY <1>5, <2>2
    <3> QED
      BY <3>1 DEF Fits
  <2>3. CASE s = <<>>
    BY <1>3, <1>5, <2>3, RagAssumption
  <2> QED
    BY <2>1, <2>2, <2>3
<1>11. \A r \in Questions : ref' # r
  BY RagAssumption
<1> QED
  BY <1>1, <1>8, <1>9, <1>10, <1>11, MessagesKept DEF IInv, AnswersFit

LEMMA ClosesOK == ASSUME IInv, NEW q \in Questions, Closes(q) PROVE IInv'
<1>1. /\ Over(q) /\ wire[q] = <<>> /\ q \in reading /\ reading' = reading \ {q}
      /\ UNCHANGED <<msgs, ref, aborted, shown, serverVars>>
      /\ IF q \in aborted THEN UNCHANGED <<ctl, pending>>
         ELSE ctl' = None /\ pending' = Append(pending, Page!Update("idle", <<>>, None))
  BY DEF Closes, Page!StreamOver, Page!Finally
<1>2. ServerOK' /\ \A r \in Questions : Grows(r) /\ UNCHANGED <<phase[r], told[r], wire[r]>>
  BY <1>1, ServerSame
<1>3. UNCHANGED <<latest, op, phase>>
  BY <1>1 DEF serverVars
<1>4. CASE q \in aborted
  <2>1. PageOK'
    BY <1>1, <1>4 DEF IInv, PageOK, Page!TypeOKPage
  <2>2. PageFollows'
    BY <1>1, <1>3, <1>4 DEF IInv, PageFollows
  <2>3. ASSUME NEW r \in Questions, ref' = r PROVE Live(r)'
    BY <1>1, <1>2, <1>4, <2>3, LiveSame DEF IInv, AnswersFit
  <2>4. (\A r \in Questions, u \in Updates :
            pending # <<>> /\ pending[1] = u /\ u.at = r => Fits(r, u))'
    BY <1>1, <1>2, <1>4, FirstKept
  <2> QED
    BY <1>1, <1>2, <2>1, <2>2, <2>3, <2>4, MessagesKept DEF IInv, AnswersFit
<1>5. CASE q \notin aborted
  <2>1. ctl = q /\ latest = q /\ shown /\ ref \in {None, q} /\ q # None
    BY <1>1, <1>5, ReaderIs, RagAssumption
  <2>2. ref = None
    <3> SUFFICES ASSUME ref = q PROVE FALSE
      BY <2>1
    <3>1. PICK voice \in {Pieces, Whole0}, m \in Nat :
              m <= Said(q, voice) /\ phase[q] # "lost" /\ OnTheWire(q, voice, m)
      <4>1. Live(q) /\ phase[q] # "lost" /\ Len(msgs[q].text) + Len(pending) \in Nat
        BY <1>1 DEF IInv, AnswersFit, Over, PageOK, Message
      <4> QED
        BY <4>1 DEF Live
    <3>2. Said(q, voice) - m \in Nat
      BY <3>1, SaidIsNat DEF IInv
    <3>3. Len(wire[q]) = 0 /\ Len(Ending(q)) \in {1, 2}
      BY <1>1 DEF Over, Ending
    <3>4. Len(wire[q]) = (Said(q, voice) - m) + Len(Ending(q))
      BY <3>1 DEF OnTheWire, Carries
    <3> DEFINE left == Said(q, voice) - m
               more == Len(Ending(q))
               long == Len(wire[q])
    <3>5. left \in Nat /\ long = left + more /\ more \in {1, 2} /\ long = 0
      BY <3>2, <3>3, <3>4
    <3> HIDE DEF left, more, long
    <3> QED
      BY <3>5
  <2>3. /\ pending \in Seq(Updates)
        /\ \A i \in DOMAIN pending :
              /\ pending[i].kind \in UpdateKinds \ {"settle"}
              /\ pending[i].at \in {None, Later} \cup (IF i = 1 THEN {latest} ELSE {})
    BY DEF IInv, PageOK, PageFollows, Page!TypeOKPage, UpdateKinds
  <2> QED
    BY <1>1, <1>5, <2>2, <2>3, IdleEnds
<1> QED
  BY <1>4, <1>5

LEMMA BreaksOK == ASSUME IInv, NEW q \in Questions, Breaks(q) PROVE IInv'
<1>1. /\ UNCHANGED serverVars /\ q \in reading /\ q \notin aborted /\ reading' = reading \ {q}
      /\ ctl' = None /\ ref' = None /\ UNCHANGED <<msgs, aborted, shown>>
  BY DEF Breaks, Page!StreamBreaks, Page!Finally
<1>2. PICK at \in {Later} \cup (IF pending = <<>> THEN {ref} ELSE {}) :
          pending' = pending \o (IF ref = None THEN <<>> ELSE <<Page!Update("fail", <<>>, at)>>)
                             \o <<Page!Update("idle", <<>>, None)>>
  BY DEF Breaks, Page!StreamBreaks
<1>3. ref \in {None, q} /\ latest = q /\ q # None
  BY <1>1, ReaderIs, RagAssumption
<1> DEFINE idle == Page!Update("idle", <<>>, None)
           fail == Page!Update("fail", <<>>, at)
           s == IF ref = None THEN pending ELSE Append(pending, fail)
<1>4. /\ pending \in Seq(Updates)
      /\ \A i \in DOMAIN pending :
            /\ pending[i].kind \in UpdateKinds \ {"settle"}
            /\ pending[i].at \in {None, Later} \cup (IF i = 1 THEN {latest} ELSE {})
  BY DEF IInv, PageOK, PageFollows, Page!TypeOKPage, UpdateKinds
<1>5. idle \in Updates
  BY DEF Page!Update, Updates, UpdateKinds
<1>6. ref # None => /\ fail \in Updates /\ fail.kind = "fail"
                    /\ fail.at \in {Later} \cup (IF pending = <<>> THEN {latest} ELSE {})
  BY <1>3 DEF Page!Update, Updates, UpdateKinds
<1> HIDE DEF idle, fail
<1>7. pending' = Append(s, idle)
  <2>1. CASE ref = None
    <3>1. pending' = pending \o <<>> \o <<idle>>
      BY <1>2, <2>1 DEF idle
    <3> QED
      BY <1>4, <1>5, <2>1, <3>1, ConcatEmptySeq, AppendIsConcat
  <2>2. CASE ref # None
    <3>1. pending' = pending \o <<fail>> \o <<idle>>
      BY <1>2, <2>2 DEF idle, fail
    <3>2. pending \o <<fail>> = Append(pending, fail) /\ Append(pending, fail) \in Seq(Updates)
      BY <1>4, <1>6, <2>2, AppendIsConcat, AppendedIs
    <3> QED
      BY <1>5, <2>2, <3>1, <3>2, AppendIsConcat
  <2> QED
    BY <2>1, <2>2
<1>8. /\ s \in Seq(Updates)
      /\ \A i \in DOMAIN s :
            /\ s[i].kind \in UpdateKinds \ {"settle"}
            /\ s[i].at \in {None, Later} \cup (IF i = 1 THEN {latest} ELSE {})
      /\ s # <<>> => IF pending = <<>> THEN s[1].kind = "fail" ELSE s[1] = pending[1]
      /\ pending # <<>> => s # <<>>
  <2>1. CASE ref = None
    BY <1>4, <2>1
  <2>2. CASE ref # None
    <3>1. /\ s \in Seq(Updates) /\ s # <<>>
          /\ DOMAIN s = 1..(Len(pending) + 1) /\ DOMAIN pending = 1..Len(pending)
          /\ Len(pending) \in Nat /\ \A i \in DOMAIN pending : s[i] = pending[i]
          /\ s[Len(pending) + 1] = fail
          /\ pending = <<>> => s[1] = fail /\ Len(pending) = 0
          /\ pending # <<>> => s[1] = pending[1]
      BY <1>4, <1>6, <2>2, AppendedIs
    <3> HIDE DEF s
    <3>2. \A i \in DOMAIN s : i \in DOMAIN pending \/ i = Len(pending) + 1
      BY <3>1
    <3> QED
      BY <1>4, <1>6, <2>2, <3>1, <3>2 DEF UpdateKinds
  <2> QED
    BY <2>1, <2>2
<1> HIDE DEF s
<1> QED
  BY <1>1, <1>7, <1>8, IdleEnds DEF idle

LEMMA SpokenTyped ==
    ASSUME ServerOK, NEW q \in Questions, NEW voice \in {Pieces, Whole0}, NEW n \in Nat,
           n <= Said(q, voice)
    PROVE  Spoken(q, voice, n) \in Seq(Questions \X (0..MaxText))
<1>1. told[q] \in Nat /\ told[q] <= MaxText /\ MaxText \in Nat
  BY ServerAssumption DEF ServerOK, TypeOKServer
<1>2. \A i \in 1..n : voice[i] \in 0..MaxText
  BY <1>1, TwoVoices DEF Said
<1>3. \A i \in 1..n : <<q, voice[i]>> \in Questions \X (0..MaxText)
  BY <1>2
<1> QED
  BY <1>3 DEF Spoken

\* The messages are as they may be, when all but that of q are left alone.
MessagesFit ==
    /\ msgs \in [Questions -> Message]
    /\ \A q \in Questions : Voiced(q)
    /\ \A q \in Questions, sources \in Seq(Rows) :
          msgs[q].status = "done" /\ msgs[q].sources = sources => MayFinish(q, sources)

LEMMA OneChanges ==
    ASSUME IInv, UNCHANGED serverVars, NEW q \in Questions, NEW message \in Message,
           msgs' = [msgs EXCEPT ![q] = message],
           NEW voice \in {Pieces, Whole0}, NEW n \in Nat,
           MaySpeak(q, voice), n <= Said(q, voice), message.text = Spoken(q, voice, n),
           message.status = "done" =>
               /\ phase[q] \in {"answered", "lost"} /\ message.sources = context[q]
               /\ told[q] > 0 => message.text = Streamed(q, told[q])
    PROVE  MessagesFit'
<1>1. /\ ServerOK' /\ UNCHANGED <<latest, op, phase, context, told, wire>>
      /\ \A r \in Questions : Grows(r)
  BY ServerSame
<1>2. msgs \in [Questions -> Message]
  BY DEF IInv, PageOK
<1>3. msgs' \in [Questions -> Message] /\ msgs'[q] = message
  BY <1>2
<1>4. \A r \in Questions \ {q} : UNCHANGED msgs[r]
  BY <1>2
<1>5. ASSUME NEW r \in Questions PROVE Voiced(r)'
  <2>1. CASE r = q
    <3>1. MaySpeak(q, voice)' /\ n <= Said(q, voice)'
      BY <1>1 DEF MaySpeak, Said
    <3> QED
      BY <1>3, <2>1, <3>1 DEF Voiced
  <2>2. CASE r # q
    BY <1>1, <1>4, <2>2, VoicedKept DEF IInv, AnswersFit
  <2> QED
    BY <2>1, <2>2
<1>6. ASSUME NEW r \in Questions, NEW sources \in Seq(Rows),
             msgs'[r].status = "done", msgs'[r].sources = sources
      PROVE  MayFinish(r, sources)'
  <2>1. CASE r = q
    BY <1>1, <1>3, <1>6, <2>1 DEF MayFinish
  <2>2. CASE r # q
    <3>1. MayFinish(r, sources)
      BY <1>4, <1>6, <2>2 DEF IInv, AnswersFit
    <3> QED
      BY <1>1, <1>4, <2>2, <3>1, MayFinishKept
  <2> QED
    BY <2>1, <2>2
<1> QED
  BY <1>3, <1>5, <1>6 DEF MessagesFit

\* One update runs, on the message that it fits.
LEMMA RunFits ==
    ASSUME IInv, UNCHANGED serverVars, NEW q \in Questions, NEW u \in Updates, u.at = q, Fits(q, u),
           u.kind # "settle", msgs' = Page!Run(msgs, u, None)
    PROVE  MessagesFit'
<1> DEFINE m == msgs[q]
<1>1. m \in Message /\ u.kind \in UpdateKinds /\ q # None /\ q # Later
  BY RagAssumption DEF IInv, PageOK, Updates
<1>2. msgs' = [msgs EXCEPT ![q] = Page!Updated(m, u)]
  BY <1>1 DEF Page!Run
<1>3. PICK voice \in {Pieces, Whole0}, n \in Nat :
          MaySpeak(q, voice) /\ n <= Said(q, voice) /\ m.text = Spoken(q, voice, n)
  BY DEF IInv, AnswersFit, Voiced
<1>4. m.sources \in Seq(Rows) /\ (m.status = "done" => MayFinish(q, m.sources))
  BY <1>1 DEF IInv, AnswersFit, Message
<1>5. CASE u.kind = "append"
  <2>1. PICK v \in {Pieces, Whole0}, k \in Nat :
            /\ MaySpeak(q, v) /\ k + 1 <= Said(q, v)
            /\ m.text = Spoken(q, v, k) /\ u.arg = <<q, v[k + 1]>>
    BY <1>5 DEF Fits
  <2> DEFINE new == Spoken(q, v, k + 1)
  <2>2. Page!Updated(m, u) = [m EXCEPT !.text = Append(m.text, u.arg)] /\ m.status = "streaming"
    BY <1>5, UpdatedIs DEF Fits
  <2>3. Append(m.text, u.arg) = new
    BY <2>1, SpokenNext
  <2>4. new \in Seq(Questions \X (0..MaxText))
    BY <2>1, SpokenTyped DEF IInv
  <2> HIDE DEF new, m
  <2> DEFINE message == [m EXCEPT !.text = new]
  <2>5. message \in Message /\ message.text = new /\ message.status = "streaming"
    BY <1>1, <2>2, <2>4 DEF Message
  <2>6. msgs' = [msgs EXCEPT ![q] = message]
    BY <1>2, <2>2, <2>3
  <2> HIDE DEF message
  <2> DEFINE next == k + 1
  <2>7. next \in Nat /\ MaySpeak(q, v) /\ next <= Said(q, v) /\ message.text = Spoken(q, v, next)
    BY <2>1, <2>5 DEF new
  <2>8. message.status # "done"
    BY <2>5
  <2> HIDE DEF next
  <2> QED
    BY <2>5, <2>6, <2>7, <2>8, OneChanges
<1>6. CASE u.kind = "finish"
  <2>1. Page!Updated(m, u) = [m EXCEPT !.status = "done", !.sources = u.arg]
    BY <1>6, UpdatedIs
  <2>2. MayFinish(q, u.arg) /\ u.arg \in Seq(Rows)
    BY <1>6, ServerParts DEF Fits, MayFinish, IInv, QuestionOK
  <2> HIDE DEF m
  <2> DEFINE message == [m EXCEPT !.status = "done", !.sources = u.arg]
  <2>3. message \in Message /\ message.text = m.text /\ message.sources = u.arg
    BY <1>1, <2>2 DEF Message
  <2>4. msgs' = [msgs EXCEPT ![q] = message]
    BY <1>2, <2>1
  <2> HIDE DEF message
  <2>5. message.text = Spoken(q, voice, n)
    BY <1>3, <2>3
  <2>6. /\ phase[q] \in {"answered", "lost"} /\ message.sources = context[q]
        /\ told[q] > 0 => message.text = Streamed(q, told[q])
    BY <2>2, <2>3 DEF MayFinish, m
  <2>7. message \in Message /\ MaySpeak(q, voice) /\ n <= Said(q, voice)
    BY <1>3, <2>3
  <2> QED
    BY <2>4, <2>5, <2>6, <2>7, OneChanges
<1>7. CASE u.kind = "fail"
  <2>1. Page!Updated(m, u) = [m EXCEPT !.status = "error"]
    BY <1>7, UpdatedIs
  <2> HIDE DEF m
  <2> DEFINE message == [m EXCEPT !.status = "error"]
  <2>2. message \in Message /\ message.text = m.text /\ message.status = "error"
    BY <1>1 DEF Message
  <2>3. msgs' = [msgs EXCEPT ![q] = message]
    BY <1>2, <2>1
  <2> HIDE DEF message
  <2>4. message.text = Spoken(q, voice, n)
    BY <1>3, <2>2
  <2> QED
    BY <1>3, <2>2, <2>3, <2>4, OneChanges
<1>8. CASE u.kind = "idle"
  <2>1. Page!Updated(m, u) = m
    BY <1>8, UpdatedIs
  <2>2. m.status = "done" => /\ phase[q] \in {"answered", "lost"} /\ m.sources = context[q]
                             /\ told[q] > 0 => m.text = Streamed(q, told[q])
    BY <1>4 DEF MayFinish
  <2> HIDE DEF m
  <2>3. m \in Message /\ msgs' = [msgs EXCEPT ![q] = m]
    BY <1>1, <1>2, <2>1
  <2>4. MaySpeak(q, voice) /\ n <= Said(q, voice) /\ m.text = Spoken(q, voice, n)
    BY <1>3
  <2> QED
    BY <2>2, <2>3, <2>4, OneChanges
<1> QED
  BY <1>1, <1>5, <1>6, <1>7, <1>8 DEF UpdateKinds

LEMMA SameFit == ASSUME IInv, UNCHANGED <<serverVars, msgs>> PROVE MessagesFit'
<1>1. UNCHANGED msgs /\ \A r \in Questions : Grows(r)
  BY ServerSame
<1>2. msgs' \in [Questions -> Message]
  BY <1>1 DEF IInv, PageOK
<1> QED
  BY <1>1, <1>2, MessagesKept DEF MessagesFit

\* A rendering without a ref: the first update may change a message, no other does.
LEMMA RenderFits ==
    ASSUME IInv, UNCHANGED serverVars, NEW updates \in Seq(Updates),
           pending # <<>> => updates # <<>> /\ updates[1] = pending[1],
           pending = <<>> /\ updates # <<>> => updates[1].at = Later,
           \A i \in DOMAIN updates : i # 1 => updates[i].at \in {Later, None},
           msgs' = Page!Rendered(updates, None)
    PROVE  MessagesFit'
<1>1. msgs' = IF updates = <<>> THEN msgs ELSE Page!Run(msgs, updates[1], None)
  BY RenderedNone
<1>2. CASE updates = <<>> \/ updates[1].at \in {None, Later}
  <2>1. msgs' = msgs
    BY <1>1, <1>2, RagAssumption DEF Page!Run
  <2> QED
    BY <2>1, SameFit
<1>3. CASE updates # <<>> /\ updates[1].at \notin {None, Later}
  <2> DEFINE u == updates[1]
  <2>1. pending # <<>> /\ u = pending[1] /\ 1 \in DOMAIN pending /\ u \in Updates
    <3>1. pending # <<>> /\ u = pending[1] /\ pending \in Seq(Updates)
      BY <1>3 DEF IInv, PageOK
    <3> QED
      BY <3>1
  <2>2. u.kind # "settle" /\ u.at \in Questions
    BY <1>3, <2>1 DEF IInv, PageFollows, ServerOK, TypeOKServer
  <2>3. Fits(u.at, u)
    BY <2>1, <2>2 DEF IInv, AnswersFit
  <2>4. msgs' = Page!Run(msgs, u, None)
    BY <1>1, <1>3
  <2> HIDE DEF u
  <2> QED
    BY <2>1, <2>2, <2>3, <2>4, RunFits
<1> QED
  BY <1>2, <1>3

\* After a rendering nothing waits: the messages are what is to be seen of the answers.
LEMMA NothingWaits ==
    ASSUME ServerOK', MessagesFit', Page!TypeOKPage', pending' = <<>>, PageFollows',
           \A q \in Questions : ref' = q => Live(q)'
    PROVE  IInv'
<1>1. PageOK'
  BY DEF PageOK, MessagesFit
<1>2. AnswersFit'
  BY DEF AnswersFit, MessagesFit
<1> QED
  BY <1>1, <1>2 DEF IInv

LEMMA RenderOK == ASSUME IInv, Render PROVE IInv'
<1>1. /\ UNCHANGED serverVars /\ pending # <<>> /\ pending' = <<>>
      /\ msgs' = Page!Rendered(pending, ref)
      /\ shown' = (shown /\ \A i \in DOMAIN pending : pending[i].kind # "idle")
      /\ UNCHANGED <<ref, ctl, aborted, reading>>
  BY DEF Render, Page!Render, Page!Streaming
<1>2. /\ ServerOK' /\ UNCHANGED <<latest, op, phase, context, told, wire>>
      /\ \A r \in Questions : Grows(r)
  BY <1>1, ServerSame
<1>3. pending \in Seq(Updates) /\ msgs \in [Questions -> Message] /\ DOMAIN pending' = {}
  BY <1>1 DEF IInv, PageOK
<1>4. PageFollows'
  BY <1>1, <1>2, <1>3 DEF IInv, PageFollows
<1>5. ref = None \/ ref \in Questions
  BY DEF IInv, PageOK, Page!TypeOKPage
<1>6. ASSUME MessagesFit' PROVE Page!TypeOKPage'
  BY <1>1, <1>3, <1>6 DEF IInv, PageOK, Page!TypeOKPage, MessagesFit, Message
<1>7. CASE ref = None
  <2>1. MessagesFit'
    BY <1>1, <1>3, <1>7, RenderFits DEF IInv, PageFollows
  <2>2. \A q \in Questions : ref' # q
    BY <1>1, <1>7, RagAssumption
  <2> QED
    BY <1>1, <1>2, <1>4, <1>6, <2>1, <2>2, NothingWaits
<1>8. CASE ref \in Questions
  <2> DEFINE q == ref n == Len(msgs[q].text) L == Len(pending)
  <2>1. q # None /\ latest = q
    BY <1>8, RagAssumption DEF IInv, PageFollows
  <2>2. Live(q) /\ n \in Nat /\ L \in Nat
    BY <1>3, <1>8 DEF IInv, AnswersFit, Message
  <2>3. PICK voice \in {Pieces, Whole0} :
            /\ MaySpeak(q, voice)
            /\ msgs[q].status = "streaming" /\ msgs[q].text = Spoken(q, voice, n)
            /\ \A i \in DOMAIN pending :
                  /\ pending[i].kind = "append" /\ pending[i].at # None
                  /\ pending[i].arg = <<q, voice[n + i]>>
            /\ n + L <= Said(q, voice)
            /\ IF phase[q] = "lost" THEN wire[q] = <<>> ELSE OnTheWire(q, voice, n + L)
    BY <2>2 DEF Live
  <2>4. \A i \in DOMAIN pending : pending[i].at \in {Later, q}
    BY <2>1, <2>3 DEF IInv, PageFollows
  <2> DEFINE m == n + L new == Spoken(q, voice, m)
  <2>5. msgs' = With(q, new)
    <3> HIDE DEF n
    <3> QED
      BY <1>1, <1>3, <1>8, <2>2, <2>3, <2>4, RenderedLive DEF n
  <2>6. m \in Nat /\ m <= Said(q, voice)
    BY <2>2, <2>3
  <2>7. new \in Seq(Questions \X (0..MaxText)) /\ Len(new) = m
    <3> HIDE DEF m
    <3> QED
      BY <1>8, <2>6, SpokenTyped, SpokenIs DEF IInv
  <2> DEFINE message == [msgs[q] EXCEPT !.text = new]
  <2> HIDE DEF m, new
  <2>8. msgs' = [msgs EXCEPT ![q] = message]
    BY <2>5 DEF With
  <2>9. message \in Message /\ message.text = new /\ message.status = "streaming"
    <3>1. msgs[q] \in Message
      BY <1>3, <1>8
    <3> QED
      BY <2>3, <2>7, <3>1 DEF Message
  <2> HIDE DEF message
  <2>10. MessagesFit'
    <3>1. message.text = Spoken(q, voice, m) /\ message.status # "done" /\ MaySpeak(q, voice)
      BY <2>3, <2>9 DEF new
    <3> HIDE DEF q
    <3>2. q \in Questions
      BY <1>8 DEF q
    <3> QED
      BY <1>1, <2>6, <2>8, <2>9, <3>1, <3>2, OneChanges
  <2>11. ASSUME NEW r \in Questions, ref' = r PROVE Live(r)'
    <3>1. r = q /\ ref' = ref
      BY <1>1, <2>11
    <3>2. msgs'[q].status = "streaming" /\ msgs'[q].text = Spoken(q, voice, m) /\ Len(msgs'[q].text) = m
      BY <1>3, <1>8, <2>7, <2>8, <2>9 DEF new
    <3>3. /\ MaySpeak(r, voice)' /\ m + 0 = m /\ m <= Said(r, voice)'
          /\ IF phase'[r] = "lost" THEN wire'[r] = <<>>
             ELSE Carries(wire'[r], voice, m, Said(r, voice)' - m, Ending(r)')
      <4>1. /\ MaySpeak(r, voice)' = MaySpeak(r, voice) /\ Said(r, voice)' = Said(r, voice)
            /\ Ending(r)' = Ending(r) /\ phase'[r] = phase[r] /\ wire'[r] = wire[r]
        BY <1>2 DEF MaySpeak, Said, Ending
      <4> QED
        BY <2>3, <2>6, <3>1, <4>1 DEF OnTheWire, m
    <3>4. Len(pending') = 0 /\ \A i : i \notin DOMAIN pending'
      BY <1>1, <1>3
    <3>5. /\ msgs'[r].status = "streaming" /\ msgs'[r].text = Spoken(r, voice, m)
          /\ Len(msgs'[r].text) = m
      BY <3>1, <3>2
    <3> HIDE DEF q
    <3> QED
      BY <3>3, <3>4, <3>5 DEF Live, OnTheWire
  <2> QED
    BY <1>1, <1>2, <1>4, <1>6, <2>10, <2>11, NothingWaits
<1> QED
  BY <1>5, <1>7, <1>8

LEMMA StopOK == ASSUME IInv, Stop PROVE IInv'
<1> DEFINE settle == Page!Update("settle", <<>>, Later) updates == Append(pending, settle)
<1>1. /\ UNCHANGED serverVars /\ shown /\ aborted' = aborted \cup ({ctl} \ {None})
      /\ ctl' = None /\ ref' = None /\ shown' = FALSE /\ pending' = <<>> /\ UNCHANGED reading
      /\ msgs' = Page!Rendered(pending \o <<settle>>, None)
  BY DEF Stop, Page!Stop
<1>2. ServerOK' /\ UNCHANGED <<latest, op, phase, context, told, wire>>
  BY <1>1, ServerSame
<1>3. pending \in Seq(Updates) /\ msgs \in [Questions -> Message] /\ DOMAIN pending' = {}
  BY <1>1 DEF IInv, PageOK
<1>4. settle \in Updates /\ settle.at = Later
  BY DEF Page!Update, Updates, UpdateKinds
<1> HIDE DEF settle
<1>5. pending \o <<settle>> = updates
  BY <1>3, <1>4, AppendIsConcat
<1>6. /\ updates \in Seq(Updates) /\ updates # <<>>
      /\ DOMAIN updates = 1..(Len(pending) + 1) /\ DOMAIN pending = 1..Len(pending)
      /\ Len(pending) \in Nat
      /\ \A i \in DOMAIN pending : updates[i] = pending[i]
      /\ updates[Len(pending) + 1] = settle
      /\ pending = <<>> => updates[1] = settle
      /\ pending # <<>> => updates[1] = pending[1]
  BY <1>3, <1>4, AppendedIs
<1> HIDE DEF updates
<1>7. \A i \in DOMAIN updates : i # 1 => updates[i].at \in {Later, None}
  <2>1. \A i \in DOMAIN updates : i \in DOMAIN pending \/ i = Len(pending) + 1
    BY <1>6
  <2> QED
    BY <1>4, <1>6, <2>1 DEF IInv, PageFollows
<1>8. MessagesFit'
  BY <1>1, <1>4, <1>5, <1>6, <1>7, RenderFits
<1>9. PageFollows'
  BY <1>1, <1>2, <1>3, RagAssumption DEF IInv, PageFollows, PageOK, Page!TypeOKPage
<1>10. Page!TypeOKPage'
  BY <1>1, <1>3, <1>8 DEF IInv, PageOK, Page!TypeOKPage, MessagesFit, Message
<1>11. \A q \in Questions : ref' # q
  BY <1>1, RagAssumption
<1> QED
  BY <1>1, <1>2, <1>8, <1>9, <1>10, <1>11, NothingWaits

LEMMA RenderedNothing == ASSUME NEW r PROVE Page!Rendered(<<>>, r) = msgs
<1> DEFINE none == <<>> g == [n \in 0..0 |-> msgs]
<1>1. none \in Seq(Updates) /\ Len(none) = 0
  OBVIOUS
<1> HIDE DEF none
<1>2. g = [n \in 0..Len(none) |-> IF n = 0 THEN msgs ELSE Page!Run(g[n - 1], none[n], r)]
  BY <1>1
<1>3. g[0] = msgs
  OBVIOUS
<1> HIDE DEF g
<1>4. Page!Rendered(none, r) = g[Len(none)]
  BY <1>1, <1>2, RenderedBy
<1> QED
  BY <1>1, <1>3, <1>4 DEF none

\* A question that is asked begins with nothing said.
LEMMA AskGrows ==
    ASSUME ServerOK, NEW q \in Questions, NEW o \in Ops, NEW kind \in Kinds \cup {NoKind},
           Ask(q, o, kind)
    PROVE  /\ ServerOK' /\ OthersKept(q) /\ op'[q] = o /\ phase'[q] = "retrieving" /\ latest' = q
           /\ phase[q] = "idle" /\ told'[q] = 0 /\ wire'[q] = <<>>
           /\ \A r \in Questions : Grows(r) /\ (phase[r] # "idle" => phase'[r] # "idle")
<1>1. /\ ServerOK' /\ OthersKept(q) /\ op'[q] = o /\ phase'[q] = "retrieving"
      /\ UNCHANGED <<told[q], context[q], wire[q]>>
  BY AskOK
<1>2. phase[q] = "idle" /\ latest' = q
  BY DEF Ask
<1>3. told[q] = 0 /\ wire[q] = <<>>
  BY <1>2, ServerParts DEF QuestionOK, Before
<1>4. \A r \in Questions \ {q} : Grows(r) /\ UNCHANGED phase[r]
  BY <1>1, KeptGrows DEF OthersKept
<1>5. Grows(q)
  BY <1>1, <1>2, <1>3 DEF Grows
<1> QED
  BY <1>1, <1>2, <1>3, <1>4, <1>5

LEMMA SendOK == ASSUME IInv, NEW q \in Questions, Send(q) PROVE IInv'
<1>1. /\ \A r \in Questions : op[r] = "stream"
      /\ ~shown /\ ref' = q /\ aborted' = aborted \cup ({ctl} \ {None}) /\ ctl' = q
      /\ reading' = reading \cup {q} /\ shown' = TRUE /\ pending' = <<>>
      /\ msgs' = [Page!Rendered(pending, q) EXCEPT ![q] = Page!Fresh]
      /\ Ask(q, "stream", NoKind)
  BY DEF Send, Page!Send
<1>2. /\ ServerOK' /\ OthersKept(q) /\ op'[q] = "stream" /\ phase'[q] = "retrieving" /\ latest' = q
      /\ phase[q] = "idle" /\ told'[q] = 0 /\ wire'[q] = <<>>
      /\ \A r \in Questions : Grows(r) /\ (phase[r] # "idle" => phase'[r] # "idle")
  BY <1>1, AskGrows DEF IInv, Ops
<1>3. /\ pending = <<>> /\ ctl = None /\ aborted' = aborted /\ reading \subseteq aborted
      /\ q \notin reading \cup aborted
      /\ reading \cup aborted \subseteq {r \in Questions : phase[r] # "idle"}
      /\ msgs \in [Questions -> Message] /\ q # None
  BY <1>1, <1>2, RagAssumption DEF IInv, PageFollows, PageOK, Page!TypeOKPage
<1>4. msgs' = [msgs EXCEPT ![q] = Page!Fresh]
  BY <1>1, <1>3, RenderedNothing
<1>5. Page!Fresh = [status |-> "streaming", text |-> <<>>, sources |-> <<>>]
  BY DEF Page!Fresh, Page!NoMessage
<1>6. /\ msgs'[q].status = "streaming" /\ msgs'[q].text = <<>>
      /\ msgs' \in [Questions -> Message] /\ \A r \in Questions \ {q} : msgs'[r] = msgs[r]
  <2>1. Page!Fresh \in Message
    BY <1>5 DEF Message
  <2> QED
    BY <1>3, <1>4, <1>5, <2>1
<1>7. /\ MaySpeak(q, Pieces)' /\ Said(q, Pieces)' = 0 /\ Ending(q)' = <<>>
      /\ <<>> = Spoken(q, Pieces, 0) /\ Len(<<>>) = 0
  BY <1>2 DEF MaySpeak, Said, Ending, Spoken
<1>8. Live(q)'
  <2>1. Carries(<<>>, Pieces, 0, 0, <<>>)
    BY DEF Carries
  <2>2. Len(pending') = 0 /\ \A i : i \notin DOMAIN pending'
    BY <1>1
  <2>3. Len(msgs'[q].text) = 0
    BY <1>6
  <2> QED
    BY <1>2, <1>6, <1>7, <2>1, <2>2, <2>3 DEF Live, OnTheWire
<1>9. ASSUME NEW r \in Questions PROVE Voiced(r)'
  <2>1. CASE r = q
    BY <1>6, <1>7, <2>1 DEF Voiced
  <2>2. CASE r # q
    BY <1>2, <1>6, <2>2, VoicedKept DEF IInv, AnswersFit
  <2> QED
    BY <2>1, <2>2
<1>10. ASSUME NEW r \in Questions, NEW sources \in Seq(Rows),
              msgs'[r].status = "done", msgs'[r].sources = sources
       PROVE  MayFinish(r, sources)'
  <2>1. r # q
    BY <1>6, <1>10
  <2>2. MayFinish(r, sources)
    BY <1>6, <1>10, <2>1 DEF IInv, AnswersFit
  <2> QED
    BY <1>2, <1>6, <2>1, <2>2, MayFinishKept
<1>11. MessagesFit'
  BY <1>6, <1>9, <1>10 DEF MessagesFit
<1>12. DOMAIN pending' = {}
  BY <1>1
<1>13. Page!TypeOKPage'
  BY <1>1, <1>3, <1>6, <1>12 DEF IInv, PageOK, Page!TypeOKPage, Message
<1>14. PageFollows'
  BY <1>1, <1>2, <1>3, <1>12 DEF PageFollows
<1>15. \A r \in Questions : ref' = r => Live(r)'
  BY <1>1, <1>8
<1> QED
  BY <1>1, <1>2, <1>11, <1>13, <1>14, <1>15, NothingWaits

LEMMA CallOK ==
    ASSUME IInv, NEW q \in Questions, NEW o \in Ops, NEW kind \in Kinds \cup {NoKind},
           Call(q, o, kind)
    PROVE  IInv'
<1>1. /\ \A r \in Questions : phase[r] = "idle"
      /\ Ask(q, o, kind) /\ UNCHANGED <<msgs, ref, ctl, aborted, reading, shown, pending>>
  BY DEF Call, page
<1>2. /\ ServerOK' /\ latest' = q /\ phase'[q] = "retrieving"
      /\ \A r \in Questions : Grows(r) /\ (phase[r] # "idle" => phase'[r] # "idle")
  BY <1>1, AskGrows DEF IInv
<1>3. ~shown /\ pending = <<>> /\ ctl = None /\ ref = None /\ reading \cup aborted = {}
  BY <1>1, ServerParts DEF IInv, PageFollows
<1>4. MessagesFit'
  <2>1. msgs' \in [Questions -> Message]
    BY <1>1 DEF IInv, PageOK
  <2> QED
    BY <1>1, <1>2, <2>1, MessagesKept DEF MessagesFit
<1>5. Page!TypeOKPage'
  BY <1>1 DEF IInv, PageOK, Page!TypeOKPage
<1>6. PageFollows'
  <2>1. DOMAIN pending' = {}
    BY <1>1, <1>3
  <2> QED
    BY <1>1, <1>2, <1>3, <2>1 DEF PageFollows
<1>7. \A r \in Questions : ref' # r
  BY <1>1, <1>3, RagAssumption
<1> QED
  BY <1>1, <1>2, <1>3, <1>4, <1>5, <1>6, <1>7, NothingWaits

-----------------------------------------------------------------------------
(* The invariant *)

LEMMA InitIInv == Init => IInv
<1> SUFFICES ASSUME Init PROVE IInv
  OBVIOUS
<1> USE DEF Init, InitServer, Page!InitPage
<1>1. ServerOK
  <2>1. RetrievalOK
    BY RetrievalAssumption DEF InitRetrieval, RetrievalOK, TypeOKRetrieval, ResultsPass, ToSet
  <2>2. Tables /\ latest \in Questions /\ \A q \in Questions : QuestionOK(q)
    BY ServerAssumption DEF Tables, QuestionOK, Ops, Phases, Before
  <2> QED
    BY <2>1, <2>2, ServerParts
<1>2. msgs \in [Questions -> Message] /\ \A q \in Questions : msgs[q].status = "none" /\ msgs[q].text = <<>>
  BY DEF Message, Page!NoMessage
<1>3. PageOK
  <2>1. pending \in Seq(Updates) /\ DOMAIN pending = {}
    OBVIOUS
  <2>2. Page!TypeOKPage
    BY <1>2, <2>1 DEF Page!TypeOKPage
  <2> QED
    BY <1>2, <2>1, <2>2 DEF PageOK
<1>4. PageFollows
  BY DEF PageFollows
<1>5. AnswersFit
  <2>1. ASSUME NEW q \in Questions PROVE Voiced(q)
    <3>1. MaySpeak(q, Pieces) /\ 0 <= Said(q, Pieces) /\ msgs[q].text = Spoken(q, Pieces, 0)
      BY <1>2 DEF MaySpeak, Said, Spoken
    <3> QED
      BY <3>1 DEF Voiced
  <2> QED
    BY <1>2, <2>1, RagAssumption DEF AnswersFit
<1> QED
  BY <1>1, <1>3, <1>4, <1>5 DEF IInv

LEMMA StutterOK == ASSUME IInv, UNCHANGED vars PROVE IInv'
<1>1. UNCHANGED serverVars /\ UNCHANGED <<page, latest, op>>
  BY DEF vars, serverVars
<1>2. ServerOK' /\ \A r \in Questions : Grows(r) /\ UNCHANGED <<phase[r], told[r], wire[r]>>
  BY <1>1, ServerSame
<1>3. ASSUME NEW q \in Questions, ref = q PROVE Live(q)'
  BY <1>1, <1>2, <1>3, LiveSame DEF IInv, AnswersFit, page
<1> QED
  BY <1>1, <1>2, <1>3, PageStays

LEMMA NextIInv == IInv /\ [Next]_vars => IInv'
<1> SUFFICES ASSUME IInv, [Next]_vars PROVE IInv'
  OBVIOUS
<1>1. ASSUME NEW q \in Questions,
             Send(q) \/ ServerStep(q) \/ Loss(q) \/ Receive(q) \/ Closes(q) \/ Abandons(q) \/ Breaks(q)
      PROVE  IInv'
  BY <1>1, SendOK, ServerStepOK, LossOK, ReceiveOK, ClosesOK, AbandonsOK, BreaksOK
<1>2. ASSUME NEW q \in Questions, NEW o \in Ops \ {"stream"}, NEW k \in Kinds \cup {NoKind},
             Call(q, o, k)
      PROVE  IInv'
  BY <1>2, CallOK
<1> QED
  BY <1>1, <1>2, RenderOK, StopOK, StutterOK DEF Next

LEMMA Inductive == Spec => []IInv
<1>1. Spec => Init /\ [][Next]_vars
  BY DEF Spec
<1> QED
  BY <1>1, InitIInv, NextIInv, PTL

-----------------------------------------------------------------------------
(* What follows from it *)

(* Every variable of the server and the page has its type.                  *)
THEOREM TypeCorrect == Spec => []TypeOK
<1>1. IInv => TypeOK
  BY DEF IInv, ServerOK, PageOK, TypeOK
<1> QED
  BY <1>1, Inductive, PTL

(* Whatever the order of the events, callbacks and renderings, a message    *)
(* shows the first pieces of its own question's stream or the text of its   *)
(* chat (RAGChat.tsx, useRAGStream, LLMRouter.stream): no token of another   *)
(* question, none twice, none out of order, no chat behind a stream.        *)
THEOREM OneVoiceHolds == Spec => []OneVoice
<1>1. ASSUME IInv PROVE OneVoice
  <2> SUFFICES ASSUME NEW q \in Questions
               PROVE  \/ \E n \in 0..told[q] : msgs[q].text = Streamed(q, n)
                      \/ told[q] = 0 /\ msgs[q].text = OneChat(q)
    BY DEF OneVoice
  <2>1. PICK voice \in {Pieces, Whole0}, n \in Nat :
            MaySpeak(q, voice) /\ n <= Said(q, voice) /\ msgs[q].text = Spoken(q, voice, n)
    BY <1>1 DEF IInv, AnswersFit, Voiced
  <2>2. told[q] \in Nat
    BY <1>1, ServerAssumption DEF IInv, ServerOK, TypeOKServer
  <2>3. CASE voice = Pieces
    <3>1. n \in 0..told[q]
      BY <2>1, <2>2, <2>3 DEF Said
    <3>2. msgs[q].text = Streamed(q, n)
      BY <2>1, <2>3, SpokenPieces
    <3> QED
      BY <3>1, <3>2
  <2>4. CASE voice = Whole0 /\ n = 0
    <3>1. Spoken(q, Whole0, 0) = Streamed(q, 0)
      BY DEF Spoken, Streamed
    <3> QED
      BY <2>1, <2>2, <2>4, <3>1
  <2>5. CASE voice = Whole0 /\ n # 0
    <3>1. n = 1 /\ told[q] = 0
      BY <2>1, <2>5, TwoVoices DEF Said, MaySpeak
    <3>2. Spoken(q, Whole0, 1) = OneChat(q)
      BY TwoVoices DEF Spoken, OneChat
    <3> QED
      BY <2>1, <2>5, <3>1, <3>2
  <2> QED
    BY <2>1, <2>3, <2>4, <2>5
<1> QED
  BY <1>1, Inductive, PTL

(* What the page shows as done is the whole answer: the server came to its  *)
(* end, every token it yielded is shown, and the sources are the context it *)
(* was generated from (finalizeAssistantMessage and handleStop of RAGChat). *)
THEOREM DoneWhole == Spec => []DoneIsWhole
<1>1. ASSUME IInv PROVE DoneIsWhole
  <2> SUFFICES ASSUME NEW q \in Questions, msgs[q].status = "done"
               PROVE  /\ phase[q] \in {"answered", "lost"}
                      /\ msgs[q].sources = context[q]
                      /\ told[q] > 0 => msgs[q].text = Streamed(q, told[q])
    BY DEF DoneIsWhole
  <2>1. msgs[q].sources \in Seq(Rows)
    BY <1>1 DEF IInv, PageOK, Message
  <2> QED
    BY <1>1, <2>1 DEF IInv, AnswersFit, MayFinish
<1> QED
  BY <1>1, Inductive, PTL

\* The context of a question is only filled when its search returns.
LEMMA OnlyGathered == ASSUME Next PROVE UNCHANGED context \/ \E q \in Questions : Gathered(q)
<1>1. ASSUME NEW q \in Questions, ServerStep(q), ~UNCHANGED context PROVE Gathered(q)
  BY <1>1 DEF ServerStep, Serve, Branch, GatherRaises, Chat, Yields, StreamEnds, StreamRaises,
              FallBack, Fails
<1> QED
  BY <1>1 DEF Next, Send, Ask, Loss, Loses, Receive, Closes, Abandons, Breaks, Call,
              Render, Stop, serverVars

(* A result outside of the kind that was asked for comes from a point whose *)
(* payload is stale or from the OR of the substring search                  *)
(* (retriever.py), for every store, limit, threshold and interleaving of    *)
(* the two branches.                                                        *)
THEOREM FilterHolds == Spec => FilterNarrows
<1> DEFINE Narrow ==
        context'[latest] # context[latest] =>
            \A i \in ToSet(context'[latest]) :
                ~PassesRow(i) => (i \in ToSet(hits) /\ PointKind[i] = filter) \/ keyword = "widened"
<1>1. ASSUME IInv, Next PROVE Narrow \/ UNCHANGED vars
  <2>1. latest \in Questions /\ RetrievalOK /\ Tables
    BY <1>1, ServerParts DEF IInv
  <2>3. UNCHANGED context \/ \E q \in Questions : Gathered(q)
    BY <1>1, OnlyGathered
  <2>4. ASSUME NEW q \in Questions, Gathered(q) PROVE Narrow
    <3>1. PICK threshold \in {Threshold, 0} :
              q = latest /\ Retrieved
              /\ \E r \in Results(threshold) : context' = [context EXCEPT ![q] = r]
      BY <2>4 DEF Gathered
    <3>2. PICK r \in Results(threshold) : context' = [context EXCEPT ![q] = r]
      BY <3>1
    <3>3. context'[latest] = r
      BY <2>1, <3>1, <3>2 DEF Tables
    <3>4. ToSet(r) \subseteq ToSet(hits) \cup ToSet(found)
      BY <2>1, <3>1, <3>2, ResultsIn DEF Retrieved
    <3>5. \A i \in ToSet(hits) : PassesPayload(i)
      BY <2>1 DEF RetrievalOK, ResultsPass, MayBeHit
    <3>6. \A i \in ToSet(found) : keyword # "widened" => PassesRow(i)
      BY <2>1 DEF RetrievalOK, ResultsPass, MayBeFound
    <3> QED
      BY <3>3, <3>4, <3>5, <3>6 DEF PassesPayload, PassesRow
  <2> QED
    BY <2>3, <2>4
<1>2. IInv /\ [Next]_vars => [Narrow]_vars
  BY <1>1
<1>3. Spec => [][Next]_vars
  BY DEF Spec
<1> QED
  BY <1>2, <1>3, Inductive, PTL DEF FilterNarrows

(* A search of the schemas asks for 50 items at most.  Below 50, its results *)
(* hold rows only, none twice, as many as the limit allows, and those that   *)
(* both branches found come first.                                           *)
THEOREM AgreementHolds == Limit <= 49 => (Spec => AgreementFirst)
<1> SUFFICES ASSUME Limit <= 49 PROVE Spec => AgreementFirst
  OBVIOUS
<1> DEFINE Agrees ==
        LET new == context'[latest] IN
        new # context[latest] =>
            /\ ToSet(new) \subseteq Rows
            /\ \A m, n \in DOMAIN new : m < n => new[m] # new[n] /\ (new[n] \in Agreed => new[m] \in Agreed)
            /\ (Threshold = 0 \/ op[latest] # "search") =>
                  Len(new) = Len(Cut(SetToSeq(ToSet(hits) \cup ToSet(found))))
<1>1. ASSUME IInv, Next PROVE Agrees \/ UNCHANGED vars
  <2>1. latest \in Questions /\ RetrievalOK /\ Tables
    BY <1>1, ServerParts DEF IInv
  <2>2. UNCHANGED context \/ \E q \in Questions : Gathered(q)
    BY <1>1, OnlyGathered
  <2>3. ASSUME NEW q \in Questions, Gathered(q) PROVE Agrees
    <3> DEFINE threshold == IF op[q] = "search" THEN Threshold ELSE 0
    <3>1. q = latest /\ dense = "done"
      BY <2>3 DEF Gathered, Retrieved
    <3>2. PICK r \in Results(threshold) : context' = [context EXCEPT ![q] = r]
      BY <2>3 DEF Gathered
    <3>3. context'[latest] = r
      BY <2>1, <3>1, <3>2 DEF Tables
    <3>4. threshold \in Nat /\ (Threshold = 0 \/ op[latest] # "search" => threshold = 0)
      BY <3>1, RetrievalAssumption
    <3> HIDE DEF threshold
    <3>5. /\ \A m, n \in DOMAIN r : m < n =>
                /\ r[m] # r[n]
                /\ r[n] \in ToSet(hits) \cap ToSet(found) => r[m] \in ToSet(hits) \cap ToSet(found)
          /\ threshold = 0 =>
                Len(r) = Len(Cut(SetToSeq(ToSet(hits) \cup ToSet(found))))
      BY <2>1, <3>1, <3>2, <3>4, ResultsInOrder
    <3>6. ToSet(r) \subseteq Rows
      BY <2>1, <3>1, <3>2, ResultsIn, ElementsIn
    <3> QED
      BY <3>3, <3>4, <3>5, <3>6 DEF Agreed
  <2> QED
    BY <2>2, <2>3
<1>2. IInv /\ [Next]_vars => [Agrees]_vars
  BY <1>1
<1>3. Spec => [][Next]_vars
  BY DEF Spec
<1> QED
  BY <1>2, <1>3, Inductive, PTL DEF AgreementFirst

-----------------------------------------------------------------------------
(* The panel of the runs: types *)

\* A cancellation under way is one of a run.
CancelHasRun == cancel.at # "none" => cancel.run \in Runs

TypesPanel == TypeOKPanel /\ CancelHasRun

Fetch == [at : {"free", "sent", "read"}, rows : [Runs -> Row]]

LEMMA Records ==
    /\ NoRow \in Row /\ Written(NoRow, "running") \in Row
    /\ Sent \in Fetch /\ Free \in Fetch
    /\ NoRequest \in Request /\ NoRequest.at = "none"
<1>1. NoRow \in Row /\ Written(NoRow, "running") \in Row
  BY PanelAssumption DEF NoRow, Row, Written, Status
<1> QED
  BY <1>1 DEF Sent, Free, Unread, Fetch, NoRequest, Request

LEMMA InitTypesPanel == InitPanel => TypesPanel
<1> SUFFICES ASSUME InitPanel PROVE TypesPanel
  OBVIOUS
<1>1. row \in [Runs -> Row] /\ list \in [Runs -> Row]
  BY Records DEF InitPanel
<1>2. fetches \in [Slots -> Fetch] /\ current \in Slots
  BY Records, PanelAssumption DEF InitPanel
<1>3. stream \in [Runs -> {"off", "sse", "poll"}] /\ polls \in [Runs -> 0..MaxPolls]
  BY PanelAssumption DEF InitPanel
<1>4. CancelHasRun /\ cancel \in Request
  BY Records DEF InitPanel, CancelHasRun
<1>5. faults \in 0..MaxFaults
  BY PanelAssumption DEF InitPanel
<1> QED
  BY <1>1, <1>2, <1>3, <1>4, <1>5 DEF InitPanel, TypesPanel, TypeOKPanel, Fetch

LEMMA StartFetchTypes ==
    ASSUME fetches \in [Slots -> Fetch], StartFetch
    PROVE  fetches' \in [Slots -> Fetch] /\ current' \in Slots
BY Records DEF StartFetch

LEMMA WrittenTypes ==
    ASSUME NEW d \in Row, NEW s \in Status, d.writes < MaxChanges PROVE Written(d, s) \in Row
BY PanelAssumption DEF Row, Written

LEMMA CardsTypes ==
    ASSUME TypeOKPanel, NEW l \in [Runs -> Row], NEW p \in BOOLEAN
    PROVE  Cards(l, p) \in [Runs -> {"off", "sse", "poll"}]
BY DEF Cards, TypeOKPanel

\* The steps leave each part of the state as it is or change it within its type.
LEMMA QueryTypes ==
    ASSUME TypesPanel, Invalidate \/ FetchUnlessBusy \/ KeepFetches
    PROVE  /\ fetches' \in [Slots -> Fetch] /\ current' \in Slots \cup {Nothing}
           /\ missed' \subseteq Runs
<1>1. fetches \in [Slots -> Fetch] /\ current \in Slots \cup {Nothing}
  BY DEF TypesPanel, TypeOKPanel, Fetch
<1>2. StartFetch \/ UNCHANGED <<fetches, current>>
  BY DEF Invalidate, FetchAgain, FetchUnlessBusy, KeepFetches
<1>3. missed' \subseteq Runs
  BY DEF TypesPanel, TypeOKPanel, Invalidate, FetchAgain, FetchUnlessBusy, KeepFetches, StartFetch, Overlooked
<1> QED
  BY <1>1, <1>2, <1>3, StartFetchTypes

LEMMA NetworkTypes == TypesPanel /\ Network => TypesPanel'
<1> SUFFICES ASSUME TypesPanel, Network PROVE TypesPanel'
  OBVIOUS
<1> USE DEF TypesPanel, TypeOKPanel, CancelHasRun
<1>1. ASSUME NEW i \in Slots, ListRead(i) PROVE TypesPanel'
  <2>1. [fetches[i] EXCEPT !.at = "read", !.rows = row] \in Fetch
    BY DEF Fetch
  <2>2. fetches' \in [Slots -> Fetch]
    BY <1>1, <2>1 DEF ListRead, ListedRows, Fetch
  <2> QED
    BY <1>1, <2>2 DEF ListRead, Fetch
<1>2. ASSUME NEW i \in Slots, ListAnswer(i) PROVE TypesPanel'
  <2>1. fetches[i].rows \in [Runs -> Row]
    OBVIOUS
  <2>2. fetches' \in [Slots -> Fetch]
    BY <1>2, Records DEF ListAnswer, Fetch
  <2>3. list' \in [Runs -> Row] /\ current' \in Slots \cup {Nothing}
    BY <1>2, <2>1 DEF ListAnswer
  <2>4. stream' \in [Runs -> {"off", "sse", "poll"}]
    BY <1>2, <2>1, CardsTypes DEF ListAnswer
  <2>5. loaded' \in BOOLEAN /\ erred' \in BOOLEAN /\ stale' \in BOOLEAN
    BY <1>2 DEF ListAnswer
  <2> QED
    BY <1>2, <2>2, <2>3, <2>4, <2>5 DEF ListAnswer, Fetch
<1>3. ASSUME ListFails PROVE TypesPanel'
  <2>1. fetches' \in [Slots -> Fetch]
    BY <1>3, Records DEF ListFails, Fetch
  <2>2. faults' \in 0..MaxFaults
    BY <1>3, PanelAssumption DEF ListFails
  <2> QED
    BY <1>3, <2>1, <2>2 DEF ListFails, Fetch
<1>4. ASSUME NEW r \in Runs, SseFails(r) PROVE TypesPanel'
  BY <1>4 DEF SseFails, queryVars
<1>5. ASSUME NEW r \in Runs, PollTick(r) PROVE TypesPanel'
  BY <1>5, PanelAssumption DEF PollTick, queryVars
<1>6. ASSUME NEW r \in Runs, PollAnswer(r) PROVE TypesPanel'
  <2>1. polls' \in [Runs -> 0..MaxPolls]
    BY <1>6, PanelAssumption DEF PollAnswer
  <2>2. stale' \in BOOLEAN
    BY <1>6 DEF PollAnswer, Invalidate
  <2> QED
    BY <1>6, <2>1, <2>2, QueryTypes DEF PollAnswer, Fetch
<1>7. ASSUME NEW r \in Runs, PollFails(r) PROVE TypesPanel'
  <2>1. polls' \in [Runs -> 0..MaxPolls] /\ faults' \in 0..MaxFaults
    BY <1>7, PanelAssumption DEF PollFails
  <2> QED
    BY <1>7, <2>1 DEF PollFails, queryVars
<1>8. ASSUME SubmitAnswer PROVE TypesPanel'
  <2>1. stale' \in BOOLEAN
    BY <1>8 DEF SubmitAnswer, Invalidate
  <2> QED
    BY <1>8, <2>1, QueryTypes DEF SubmitAnswer, Fetch
<1>9. ASSUME CancelWrite PROVE TypesPanel'
  <2>1. cancel.run \in Runs
    BY <1>9 DEF CancelWrite
  <2>2. row' \in [Runs -> Row]
    BY <1>9, <2>1, WrittenTypes DEF CancelWrite, Status
  <2>3. cancel' \in Request /\ cancel'.run \in Runs
    BY <1>9, <2>1 DEF CancelWrite, Request
  <2> QED
    BY <1>9, <2>2, <2>3 DEF CancelWrite, queryVars
<1>10. ASSUME CancelAnswer PROVE TypesPanel'
  <2>1. stale' \in BOOLEAN
    BY <1>10 DEF CancelAnswer, Invalidate
  <2>2. cancel' \in Request /\ cancel'.at = "none"
    BY <1>10, Records DEF CancelAnswer
  <2> QED
    BY <1>10, <2>1, <2>2, QueryTypes DEF CancelAnswer, Fetch
<1> QED
  BY <1>1, <1>2, <1>3, <1>4, <1>5, <1>6, <1>7, <1>8, <1>9, <1>10 DEF Network

LEMMA UserTypes == TypesPanel /\ User => TypesPanel'
<1> SUFFICES ASSUME TypesPanel, User PROVE TypesPanel'
  OBVIOUS
<1> USE DEF TypesPanel, TypeOKPanel, CancelHasRun
<1>1. ASSUME ClosePage PROVE TypesPanel'
  BY <1>1, CardsTypes DEF ClosePage, queryVars
<1>2. ASSUME OpenPage PROVE TypesPanel'
  <2>1. stream' \in [Runs -> {"off", "sse", "poll"}]
    BY <1>2, CardsTypes DEF OpenPage
  <2>2. FetchUnlessBusy \/ KeepFetches
    BY <1>2 DEF OpenPage
  <2> QED
    BY <1>2, <2>1, <2>2, QueryTypes DEF OpenPage, Fetch
<1>3. ASSUME Refresh PROVE TypesPanel'
  <2>1. stale' \in BOOLEAN
    BY <1>3 DEF Refresh, Invalidate
  <2> QED
    BY <1>3, <2>1, QueryTypes DEF Refresh, Fetch
<1>4. ASSUME NEW r \in Runs, Submit(r) PROVE TypesPanel'
  <2>1. row' \in [Runs -> Row]
    BY <1>4, Records DEF Submit, SubmitServed
  <2> QED
    BY <1>4, <2>1 DEF Submit, queryVars
<1>5. ASSUME NEW r \in Runs, Cancel(r) PROVE TypesPanel'
  BY <1>5 DEF Cancel, Request, queryVars
<1> QED
  BY <1>1, <1>2, <1>3, <1>4, <1>5 DEF User

LEMMA RunMovesTypes == ASSUME TypesPanel, NEW r \in Runs, RunMoves(r) PROVE TypesPanel'
<1> USE DEF TypesPanel, TypeOKPanel, CancelHasRun
<1>1. PICK t \in {e[2] : e \in Life} : row' = [row EXCEPT ![r] = Written(@, t)]
  BY DEF RunMoves
<1>2. t \in Status
  BY PanelAssumption
<1>3. row' \in [Runs -> Row]
  BY <1>1, <1>2, WrittenTypes DEF RunMoves
<1> QED
  BY <1>3 DEF RunMoves, queryVars

LEMMA NextTypesPanel == TypesPanel /\ [NextPanel]_panelVars => TypesPanel'
<1>1. TypesPanel /\ UNCHANGED panelVars => TypesPanel'
  BY DEF panelVars, TypesPanel, TypeOKPanel, CancelHasRun
<1> QED
  BY <1>1, NetworkTypes, UserTypes, RunMovesTypes DEF NextPanel

LEMMA TypesHold == SpecPanel => []TypesPanel
BY InitTypesPanel, NextTypesPanel, PTL DEF SpecPanel

(* Every variable of the page keeps its type; in particular there are never *)
(* more polls under way than the interval has started.                      *)
THEOREM PanelTypeCorrect == SpecPanel => []TypeOKPanel
<1>1. TypesPanel => TypeOKPanel
  BY DEF TypesPanel
<1> QED
  BY <1>1, TypesHold, PTL

-----------------------------------------------------------------------------
(* The panel of the runs: why the list never goes back *)

RowsBelow(f, g) == \A r \in Runs : f[r].writes <= g[r].writes

(* What the server has read for a request is not ahead of the rows, and     *)
(* what the list shows is not ahead of the answer the query still awaits:   *)
(* a request becomes the awaited one before it is read, so that it is read  *)
(* after the answer the list shows.                                         *)
ReadsInOrder ==
    /\ RowsBelow(list, row)
    /\ \A i \in Slots : fetches[i].at = "read" =>
          /\ RowsBelow(fetches[i].rows, row)
          /\ i = current => RowsBelow(list, fetches[i].rows)

LEMMA BelowIsTransitive ==
    ASSUME NEW f \in [Runs -> Row], NEW g \in [Runs -> Row], NEW h \in [Runs -> Row],
           RowsBelow(f, g), RowsBelow(g, h)
    PROVE  RowsBelow(f, h)
BY DEF RowsBelow, Row

\* A step that reads and answers no list request.
LEMMA OrderKept ==
    ASSUME TypesPanel, TypesPanel', ReadsInOrder, RowsBelow(row, row'), list' = list,
           \A i \in Slots : fetches'[i].at = "read" =>
               fetches'[i] = fetches[i] /\ (i = current' => i = current)
    PROVE  ReadsInOrder'
<1> USE DEF TypesPanel, TypeOKPanel
<1>1. RowsBelow(list, row)'
  BY BelowIsTransitive DEF ReadsInOrder
<1>2. ASSUME NEW i \in Slots, fetches'[i].at = "read"
      PROVE  /\ RowsBelow(fetches[i].rows, row)'
             /\ i = current' => RowsBelow(list, fetches[i].rows)'
  <2>1. fetches'[i] = fetches[i] /\ fetches[i].rows \in [Runs -> Row]
    BY <1>2
  <2>2. RowsBelow(fetches[i].rows, row')
    BY <1>2, <2>1, BelowIsTransitive DEF ReadsInOrder
  <2> QED
    BY <1>2, <2>1, <2>2 DEF ReadsInOrder
<1> QED
  BY <1>1, <1>2 DEF ReadsInOrder

LEMMA SameRows == ASSUME TypesPanel, row' = row PROVE RowsBelow(row, row')
BY DEF RowsBelow, TypesPanel, TypeOKPanel, Row

\* A run's row is only ever written again.
LEMMA RowWritten ==
    ASSUME TypesPanel, NEW r \in Runs, NEW s, row' = [row EXCEPT ![r] = Written(row[r], s)]
    PROVE  RowsBelow(row, row')
BY DEF RowsBelow, TypesPanel, TypeOKPanel, Row, Written

\* The request a fetch starts is not read yet.
LEMMA FetchInOrder ==
    ASSUME TypesPanel, TypesPanel', ReadsInOrder, RowsBelow(row, row'), list' = list,
           Invalidate \/ FetchUnlessBusy \/ KeepFetches
    PROVE  ReadsInOrder'
<1>1. CASE UNCHANGED <<fetches, current>>
  BY <1>1, OrderKept
<1>2. CASE StartFetch
  <2>1. PICK j \in Slots : fetches' = [fetches EXCEPT ![j] = Sent] /\ current' = j
    BY <1>2 DEF StartFetch
  <2>2. Sent.at # "read"
    BY DEF Sent
  <2> QED
    BY <2>1, <2>2, OrderKept DEF TypesPanel, TypeOKPanel
<1> QED
  BY <1>1, <1>2 DEF Invalidate, FetchAgain, FetchUnlessBusy, KeepFetches

LEMMA NetworkInOrder == TypesPanel /\ TypesPanel' /\ ReadsInOrder /\ Network => ReadsInOrder'
<1> SUFFICES ASSUME TypesPanel, TypesPanel', ReadsInOrder, Network PROVE ReadsInOrder'
  OBVIOUS
<1> USE DEF TypesPanel, TypeOKPanel
<1>1. ASSUME NEW i \in Slots, ListRead(i) PROVE ReadsInOrder'
  <2>1. fetches' = [fetches EXCEPT ![i] = [@ EXCEPT !.at = "read", !.rows = row]]
    BY <1>1 DEF ListRead, ListedRows
  <2>2. fetches'[i].rows = row /\ UNCHANGED <<row, list, current>>
    <3>1. [fetches[i] EXCEPT !.at = "read", !.rows = row].rows = row
      OBVIOUS
    <3> QED
      BY <1>1, <2>1, <3>1 DEF ListRead
  <2>3. RowsBelow(row, row')
    BY <2>2, SameRows
  <2>4. ASSUME NEW j \in Slots, fetches'[j].at = "read"
        PROVE  /\ RowsBelow(fetches[j].rows, row)'
               /\ j = current' => RowsBelow(list, fetches[j].rows)'
    <3>1. CASE j = i
      BY <2>2, <2>3, <3>1 DEF ReadsInOrder
    <3>2. CASE j # i
      BY <2>1, <2>2, <2>4, <3>2 DEF ReadsInOrder
    <3> QED
      BY <3>1, <3>2
  <2> QED
    BY <2>2, <2>4 DEF ReadsInOrder
<1>2. ASSUME NEW i \in Slots, ListAnswer(i) PROVE ReadsInOrder'
  <2>1. fetches' = [fetches EXCEPT ![i] = Free] /\ row' = row /\ RowsBelow(row, row')
    BY <1>2, SameRows DEF ListAnswer
  <2>2. Free.at # "read"
    BY DEF Free
  <2>3. CASE i = current
    <3>1. list' = fetches[i].rows /\ current' = Nothing
      BY <1>2, <2>3 DEF ListAnswer, AnswerCounts
    <3>2. RowsBelow(list, row)'
      BY <1>2, <2>1, <3>1 DEF ListAnswer, ReadsInOrder
    <3> QED
      BY <2>1, <2>2, <3>1, <3>2, PanelAssumption DEF ReadsInOrder
  <2>4. CASE i # current
    BY <1>2, <2>1, <2>2, <2>4, OrderKept DEF ListAnswer, AnswerCounts
  <2> QED
    BY <2>3, <2>4
<1>3. ASSUME ListFails PROVE ReadsInOrder'
  <2>1. Sent.at # "read" /\ Free.at # "read"
    BY DEF Sent, Free
  <2>2. RowsBelow(row, row') /\ list' = list
    BY <1>3, SameRows DEF ListFails
  <2>3. \A i \in Slots : fetches'[i].at = "read" =>
            fetches'[i] = fetches[i] /\ (i = current' => i = current)
    BY <1>3, <2>1, PanelAssumption DEF ListFails
  <2> QED
    BY <2>2, <2>3, OrderKept
<1>4. ASSUME NEW r \in Runs, SseFails(r) \/ PollTick(r) \/ PollFails(r) PROVE ReadsInOrder'
  BY <1>4, SameRows, OrderKept DEF SseFails, PollTick, PollFails, queryVars
<1>5. ASSUME NEW r \in Runs, PollAnswer(r) PROVE ReadsInOrder'
  BY <1>5, SameRows, FetchInOrder DEF PollAnswer
<1>6. ASSUME SubmitAnswer \/ CancelAnswer PROVE ReadsInOrder'
  BY <1>6, SameRows, FetchInOrder DEF SubmitAnswer, CancelAnswer
<1>7. ASSUME CancelWrite PROVE ReadsInOrder'
  <2>1. cancel.run \in Runs
    BY <1>7 DEF CancelWrite, CancelHasRun
  <2>2. RowsBelow(row, row')
    BY <1>7, <2>1, RowWritten DEF CancelWrite
  <2> QED
    BY <1>7, <2>2, OrderKept DEF CancelWrite, queryVars
<1> QED
  BY <1>1, <1>2, <1>3, <1>4, <1>5, <1>6, <1>7 DEF Network

LEMMA UserInOrder == TypesPanel /\ TypesPanel' /\ ReadsInOrder /\ User => ReadsInOrder'
<1> SUFFICES ASSUME TypesPanel, TypesPanel', ReadsInOrder, User PROVE ReadsInOrder'
  OBVIOUS
<1>1. ASSUME ClosePage PROVE ReadsInOrder'
  BY <1>1, SameRows, OrderKept DEF ClosePage, queryVars
<1>2. ASSUME OpenPage PROVE ReadsInOrder'
  BY <1>2, SameRows, FetchInOrder DEF OpenPage
<1>3. ASSUME Refresh PROVE ReadsInOrder'
  BY <1>3, SameRows, FetchInOrder DEF Refresh
<1>4. ASSUME NEW r \in Runs, Submit(r) PROVE ReadsInOrder'
  <2>1. RowsBelow(row, row')
    BY <1>4, RowWritten DEF Submit, SubmitServed
  <2> QED
    BY <1>4, <2>1, OrderKept DEF Submit, queryVars
<1>5. ASSUME NEW r \in Runs, Cancel(r) PROVE ReadsInOrder'
  BY <1>5, SameRows, OrderKept DEF Cancel, queryVars
<1> QED
  BY <1>1, <1>2, <1>3, <1>4, <1>5 DEF User

LEMMA NextInOrder == TypesPanel /\ TypesPanel' /\ ReadsInOrder /\ [NextPanel]_panelVars => ReadsInOrder'
<1> SUFFICES ASSUME TypesPanel, TypesPanel', ReadsInOrder, [NextPanel]_panelVars PROVE ReadsInOrder'
  OBVIOUS
<1>1. ASSUME NEW r \in Runs, RunMoves(r) PROVE ReadsInOrder'
  <2>1. RowsBelow(row, row')
    BY <1>1, RowWritten DEF RunMoves
  <2> QED
    BY <1>1, <2>1, OrderKept DEF RunMoves, queryVars
<1>2. ASSUME UNCHANGED panelVars PROVE ReadsInOrder'
  BY <1>2, SameRows, OrderKept DEF panelVars
<1> QED
  BY <1>1, <1>2, NetworkInOrder, UserInOrder DEF NextPanel

LEMMA OrderHolds == SpecPanel => []ReadsInOrder
<1>1. InitPanel => ReadsInOrder
  <2>1. NoRow.writes = 0 /\ Written(NoRow, "running").writes = 1 /\ Sent.at # "read" /\ Free.at # "read"
    BY DEF NoRow, Written, Sent, Free
  <2> QED
    BY <2>1, PanelAssumption DEF InitPanel, ReadsInOrder, RowsBelow
<1> QED
  BY <1>1, NextInOrder, NextTypesPanel, TypesHold, PTL DEF SpecPanel

(* However list requests, polls and page changes overlap, the list never    *)
(* shows an older row of a run than it has shown before.                    *)
THEOREM ListNeverBack == SpecPanel => NeverBack
<1>1. TypesPanel /\ ReadsInOrder /\ [NextPanel]_panelVars => [\A r \in Runs : list'[r].writes >= list[r].writes]_panelVars
  <2> SUFFICES ASSUME TypesPanel, ReadsInOrder, NextPanel PROVE \A r \in Runs : list'[r].writes >= list[r].writes
    OBVIOUS
  <2>1. CASE list' = list
    BY <2>1 DEF TypesPanel, TypeOKPanel, Row
  <2>2. ASSUME NEW i \in Slots, ListAnswer(i), i = current
        PROVE  \A r \in Runs : list'[r].writes >= list[r].writes
    <3>1. list' = fetches[i].rows /\ RowsBelow(list, fetches[i].rows)
      BY <2>2 DEF ListAnswer, AnswerCounts, ReadsInOrder
    <3> QED
      BY <3>1 DEF RowsBelow, TypesPanel, TypeOKPanel, Row
  <2>3. list' = list \/ \E i \in Slots : ListAnswer(i) /\ i = current
    BY DEF NextPanel, Network, User, ListRead, ListAnswer, AnswerCounts, ListFails, SseFails, PollTick,
           PollAnswer, PollFails, SubmitAnswer, CancelWrite, CancelAnswer, ClosePage, OpenPage,
           Refresh, Submit, Cancel, RunMoves, queryVars
  <2> QED
    BY <2>1, <2>2, <2>3
<1> QED
  BY <1>1, TypesHold, OrderHolds, PTL DEF SpecPanel, NeverBack
=============================================================================
