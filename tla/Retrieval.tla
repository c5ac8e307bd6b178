------------------------------ MODULE Retrieval ------------------------------
(***************************************************************************)
(* The hybrid search of one request (services/rag/retriever.py): a vector   *)
(* branch and a keyword branch run under asyncio.gather on the one database *)
(* session of the request, and their two rankings are fused.                *)
(*                                                                         *)
(* A session connects when its first statement runs.  A statement of the    *)
(* other branch that comes in between is refused; on an open connection     *)
(* statements wait for each other; after one has failed, the transaction    *)
(* takes no other.                                                          *)
(***************************************************************************)
EXTENDS Naturals, Sequences, SequencesExt, LLMRouter

CONSTANTS Points,    \* items the vector store has a point for
          Rows,      \* items of the table
          Matches,   \* rows whose text matches the query
          Kinds, NoKind,
          PointKind, RowKind, \* kind in the payload of a point, and in its row
          Limit,     \* results a request wants
          Threshold  \* score_threshold of a search, in hundredths; 0 is none

ASSUME RetrievalAssumption ==
    /\ IsFiniteSet(Points) /\ IsFiniteSet(Rows)
    /\ Matches \subseteq Rows /\ NoKind \notin Kinds
    /\ PointKind \in [Points -> Kinds] /\ RowKind \in [Rows -> Kinds]
    /\ Limit \in Nat \ {0} /\ Threshold \in 0..100

VARIABLES filter,  \* the kind asked for, or NoKind
          dense,   \* how far the vector branch is
          keyword, \* how far the keyword branch is
          conn,    \* the connection of the session
          hits,    \* what the vector branch found, best first
          found    \* what the keyword branch found, best first

retrievalVars == <<filter, dense, keyword, conn, hits, found>>

Items == Points \cup Rows

-----------------------------------------------------------------------------
(* Fusion *)

\* The product of the denominators 60 + rank that may occur: a common denominator.
Common == LET product[n \in 0..Limit] == IF n = 0 THEN 1 ELSE (60 + n) * product[n - 1]
          IN  product[Limit]

Rank(ranking, i) == CHOOSE r \in 1..Len(ranking) : ranking[r] = i

\* weight / (60 + rank) in units of 1 / (10 * Common); nothing for an item that was not found.
Share(weight, ranking, i) ==
    IF i \in ToSet(ranking) THEN weight * (Common \div (60 + Rank(ranking, i))) ELSE 0

FusedScore(d, k, i) == Share(10, d, i) + Share(8, k, i)

RisingFusions(S, d, k) ==
    {s \in SetToSeqs(S) :
        \A m, n \in DOMAIN s : m < n => FusedScore(d, k, s[m]) =< FusedScore(d, k, s[n])}

\* Rankings of S by falling score: equal scores are in no fixed order.
Fusions(S, d, k) ==
    {s \in SetToSeqs(S) :
        \A m, n \in DOMAIN s : m < n => FusedScore(d, k, s[m]) >= FusedScore(d, k, s[n])}

Cut(s) == SubSeq(s, 1, IF Len(s) < Limit THEN Len(s) ELSE Limit)

(* _fuse_results: the threshold is applied to the fused score.              *)
Fuse(d, k, threshold) ==
    LET kept == {i \in ToSet(d) \cup ToSet(k) : 10 * FusedScore(d, k, i) >= threshold * Common}
    IN  {Cut(s) : s \in Fusions(kept, d, k)}

-----------------------------------------------------------------------------
(* The two branches *)

\* Distinct items of S, best first, at most n.
Rankings(S, n) == {s \in UNION {SetToSeqs(T) : T \in SUBSET S} : Len(s) <= n}

PassesPayload(i) == filter \in {NoKind, PointKind[i]}
PassesRow(i) == filter \in {NoKind, RowKind[i]}

FtsUnfiltered == Matches

\* Full-text search: the rows that match, in the order of their rank.
FtsRows == {i \in Matches : PassesRow(i)}

\* The substring search: its conditions are joined by OR, the filter is one of them.
IlikeRows == {i \in Rows : i \in Matches \/ (filter # NoKind /\ RowKind[i] = filter)}

InitRetrieval ==
    /\ filter = NoKind
    /\ dense = "off" /\ keyword = "off" /\ conn = "none"
    /\ hits = <<>> /\ found = <<>>
(* gather starts both: the vector branch waits for the embedding of the     *)
(* query, the keyword branch for its first statement, which connects.       *)
Retrieve(kind) ==
    /\ filter' = kind
    /\ dense' = "embedding"
    /\ keyword' = "fts"
    /\ conn' = "connecting"
    /\ hits' = <<>> /\ found' = <<>>

(* A failed call of the embedder ends the branch with nothing; a search with *)
(* the empty vector is refused by the store, and finds nothing.             *)
Embed(up) ==
    /\ dense = "embedding"
    /\ \E outcome \in EmbedOutcomes(up) :
          dense' = IF outcome = "vector" THEN "searching" ELSE "done"
    /\ UNCHANGED <<filter, keyword, conn, hits, found>>

(* So does a failed search; an error the vector store answers with is       *)
(* no result either.  Without hits the rows are not read.                   *)
Search ==
    /\ dense = "searching"
    /\ \E s \in Rankings({i \in Points : PassesPayload(i)}, 2 * Limit) :
          /\ hits' = s
          /\ dense' = IF s = <<>> THEN "done" ELSE "fetching"
    /\ UNCHANGED <<filter, keyword, conn, found>>

RankedUnread(s) == {Cut(s)}

\* The hits that still have a row, in their order.
Ranked(s) ==
    {Cut(t) : t \in {u \in SetToSeqs(ToSet(s) \cap Rows) :
                         \A m, n \in DOMAIN u : m < n => Rank(s, u[m]) < Rank(s, u[n])}}

(* _fetch_and_rank is outside of the try: what its statement raises leaves  *)
(* the branch and the gather.                                               *)
FetchRows ==
    /\ dense = "fetching"
    /\ conn \in {"none", "open"}
    /\ hits' \in Ranked(hits)
    /\ dense' = "done"
    /\ conn' = "open"
    /\ UNCHANGED <<filter, keyword, found>>

FetchRaises ==
    /\ dense = "fetching"
    /\ dense' = "raised"
    /\ conn' = IF conn = "open" THEN "aborted" ELSE conn
    /\ UNCHANGED <<filter, keyword, hits, found>>

(* The statement of the keyword branch has its connection.                  *)
Connected ==
    /\ conn = "connecting"
    /\ conn' = "open"
    /\ UNCHANGED <<filter, dense, keyword, hits, found>>

\* No connection: the next attempt, if there is one, connects anew.
NotConnected ==
    /\ conn = "connecting"
    /\ keyword' = IF keyword = "fts" THEN "ilike" ELSE "done"
    /\ conn' = IF keyword = "fts" THEN "connecting" ELSE "none"
    /\ UNCHANGED <<filter, dense, hits, found>>

KeywordRows ==
    /\ keyword \in {"fts", "ilike"} /\ conn = "open"
    /\ \E s \in IF keyword = "fts"
                THEN SetToSeqs(FtsRows) ELSE SetToSeqs(IlikeRows) :
          found' = Cut(s)
    /\ keyword' = IF keyword = "fts" THEN "done" ELSE "widened"
    /\ UNCHANGED <<filter, dense, conn, hits>>

(* A statement fails: the other search meets a transaction that takes no    *)
(* statement, and both failures are swallowed.                              *)
KeywordFails ==
    /\ keyword \in {"fts", "ilike"} /\ conn \in {"open", "aborted"}
    /\ keyword' = "done"
    /\ conn' = "aborted"
    /\ UNCHANGED <<filter, dense, hits, found>>

Branches(up) ==
    \/ Embed(up) \/ Search \/ FetchRows \/ FetchRaises
    \/ Connected \/ NotConnected \/ KeywordRows \/ KeywordFails

-----------------------------------------------------------------------------
\* gather raises with the branch that raises, and waits for both otherwise.
Raised == dense = "raised"
Retrieved == dense = "done" /\ keyword \in {"done", "widened"}

\* What retrieve returns.
Results(threshold) == IF hits = <<>> /\ found = <<>> THEN {<<>>} ELSE Fuse(hits, found, threshold)

(* The request has its results, or the exception: what is left of the search *)
(* is no part of it any more.                                               *)
Returns ==
    /\ dense' = "off" /\ keyword' = "off" /\ conn' = "none"
    /\ hits' = <<>> /\ found' = <<>>
    /\ UNCHANGED filter

TypeOKRetrieval ==
    /\ filter \in Kinds \cup {NoKind}
    /\ dense \in {"off", "embedding", "searching", "fetching", "done", "raised"}
    /\ keyword \in {"off", "fts", "ilike", "done", "widened"}
    /\ conn \in {"none", "connecting", "open", "aborted"}
    /\ ToSet(hits) \subseteq Points /\ ToSet(found) \subseteq Rows
=============================================================================
