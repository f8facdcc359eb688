------------------------------- MODULE Search -------------------------------
(***************************************************************************)
(* GET /search on the pages table of Indexer, while crawler and indexer    *)
(* write it (src/internal/delivery/http/handler/search, usecase/query.go,  *)
(* PageDS.FindSimilar).  A request changes nothing and reads the table in  *)
(* one statement, so the answers it can get are a function of the table.   *)
(***************************************************************************)
EXTENDS Indexer, Integers, Sequences

CONSTANTS
  Query,        \* the values of q
  NoQuery,      \* q is missing or empty
  Limit,        \* the parameter limit: missing, wrong (Atoi rejects it), or a number
  Similarity,   \* inner product of the vectors of a query and a content
  MinSimilarity \* 0.3

ASSUME QueryAssumption ==
  /\ NoQuery \in Query
  /\ Limit \subseteq [given : {"missing", "wrong", "number"}, number : Int]
  /\ Similarity \in [Query -> [Content -> Int]]
  /\ MinSimilarity \in Int

LimitOf(limit) == IF limit.given = "missing" THEN 10 ELSE limit.number

BadRequest(query, limit) ==
  \/ query = NoQuery
  \/ limit.given = "wrong"
  \/ limit.given = "number" /\ limit.number <= 0

-----------------------------------------------------------------------------
(* Mistakes, which no specification uses. *)

\* The threshold has the wrong sign: <#> is the negative inner product.
SimilarSigned(query) ==
  {p \in Page : /\ rows[p].vector # NoVector
                /\ -Similarity[query][rows[p].vector] < MinSimilarity}

-----------------------------------------------------------------------------
(* vector <#> query. *)
Distance(query, p) == -Similarity[query][rows[p].vector]

(* The WHERE clause. *)
Similar(query) ==
  {p \in Page : /\ rows[p].vector # NoVector
                /\ Distance(query, p) < -MinSimilarity}

(* ORDER BY and LIMIT.  The HNSW index is approximate: it can miss pages.  *)
FindSimilar(query, limit) ==
  UNION {{found \in [1 .. n -> Similar(query)] :
            \A i, j \in 1 .. n : i < j =>
              /\ found[i] # found[j]
              /\ Distance(query, found[i]) <= Distance(query, found[j])} :
         n \in {n \in 0 .. Cardinality(Page) : n <= limit}}

(* Title and description are shown, which come and go with the content.    *)
Shown(p) == [url |-> p, content |-> rows[p].content]

(* The embedder or the database can fail, or the 15 s be over, any time.   *)
ServeHTTP(query, limit) ==
  IF BadRequest(query, limit) THEN {[status |-> 400, pages |-> <<>>]}
  ELSE {[status |-> 500, pages |-> <<>>]} \cup
       {[status |-> 200, pages |-> [i \in DOMAIN found |-> Shown(found[i])]] :
          found \in FindSimilar(query, LimitOf(limit))}

-----------------------------------------------------------------------------
(* What a search shows, at any moment of a crawl, is no page that has been *)
(* stored and not indexed since ("unindexed pages will not appear in       *)
(* results", README), it is the text that is similar to the query and not  *)
(* one that has replaced it, the best first and each page once, and no     *)
(* more than was asked for.                                                *)
AnswersSound(query, limit) ==
  \A answer \in ServeHTTP(query, limit) :
    /\ answer.status = 200 => Len(answer.pages) <= LimitOf(limit)
    /\ \A i \in DOMAIN answer.pages :
         LET page == answer.pages[i] IN
           /\ page \notin {Shown(p) : p \in Unvectorized}
           /\ Similarity[query][page.content] > MinSimilarity
           /\ \A j \in 1 .. i - 1 :
                /\ answer.pages[j].url # page.url
                /\ Similarity[query][answer.pages[j].content]
                     >= Similarity[query][page.content]

SearchSound == \A query \in Query, limit \in Limit : AnswersSound(query, limit)
=============================================================================
