---------------------------- MODULE IndexerProofs ----------------------------
(***************************************************************************)
(* Vectors stay with their texts, for any number of pages and however the  *)
(* crawler and the indexer write over each other.                          *)
(***************************************************************************)
EXTENDS Search, TLAPS

USE ContentAssumption, MaxErrorsAssumption

(* The error counter passes its limit only to stop. *)
StopsInTime == pc # "stopped" => errCount <= MaxErrors

IndexerInv == TypeOK /\ StopsInTime /\ VectorOfContent

-----------------------------------------------------------------------------
(* An upsert whose vector belongs to its text. *)
LEMMA InsertPageKeeps ==
  ASSUME TypeOK, VectorOfContent,
         NEW p \in Page, NEW content \in Content,
         NEW vector \in Content \cup {NoVector}, NEW vectorizable \in BOOLEAN,
         vector # NoVector => vector = content,
         ~vectorizable => content \in TooLong,
         InsertPage(p, content, vector, vectorizable)
  PROVE  /\ rows' \in [Page -> Row]
         /\ inbox' \in Nat
         /\ VectorOfContent'
<1> DEFINE row == [content |-> content, vector |-> vector,
                   can_be_vectorized |-> vectorizable]
<1>1. /\ rows \in [Page -> Row] /\ inbox \in Nat
      /\ rows' = [rows EXCEPT ![p] = row]
      /\ inbox' = IF conn = "listening" THEN inbox + 1 ELSE inbox
  BY DEF TypeOK, InsertPage, Notify
<1>2. row \in Row
  BY DEF Row
<1>3. /\ row.vector = vector /\ row.content = content
      /\ row.can_be_vectorized = vectorizable
  OBVIOUS
<1>4. /\ rows' \in [Page -> Row] /\ rows'[p] = row
      /\ \A q \in Page : q # p => rows'[q] = rows[q]
  BY <1>1, <1>2
<1>5. ASSUME NEW q \in Page
      PROVE  /\ rows'[q].vector # NoVector => rows'[q].vector = rows'[q].content
             /\ ~rows'[q].can_be_vectorized => rows'[q].content \in TooLong
  <2>1. CASE q = p
    BY <2>1, <1>3, <1>4
  <2>2. CASE q # p
    BY <2>2, <1>4 DEF VectorOfContent
  <2> QED
    BY <2>1, <2>2
<1> QED
  BY <1>1, <1>4, <1>5 DEF VectorOfContent

(* The counter after a failure. *)
LEMMA FailedCounts ==
  ASSUME TypeOK, StopsInTime, pc # "stopped", Failed
  PROVE  /\ pc' \in {"select", "stopped"}
         /\ errCount' \in 0 .. MaxErrors + 1
         /\ StopsInTime'
<1>1. errCount \in Nat /\ errCount <= MaxErrors
  BY DEF TypeOK, StopsInTime
<1> QED
  BY <1>1 DEF Failed, StopsInTime

LEMMA NextPageTypes ==
  ASSUME TypeOK, StopsInTime, pc = "save", NEW page \in batch, NextPage(page)
  PROVE  /\ batch' \in SUBSET (Page \X Content)
         /\ pc' \in {"save", "select"}
         /\ errCount' \in 0 .. MaxErrors + 1
         /\ StopsInTime'
<1>1. errCount \in Nat /\ errCount <= MaxErrors
  BY DEF TypeOK, StopsInTime
<1>2. batch' \in SUBSET (Page \X Content)
  BY DEF TypeOK, NextPage
<1>3. /\ pc' \in {"save", "select"}
      /\ errCount' \in {0, errCount}
  BY DEF NextPage, Succeeded
<1> QED
  BY <1>1, <1>2, <1>3 DEF StopsInTime

LEMMA IndexerInit == Init => IndexerInv
<1> SUFFICES ASSUME Init PROVE IndexerInv
  OBVIOUS
<1>1. hasWork \in BOOLEAN /\ errCh \in BOOLEAN
  BY Zenon DEF Init
<1>2. rows \in [Page -> Row]
  BY DEF Init, Row
<1>3. VectorOfContent
  BY DEF Init, VectorOfContent
<1>4. /\ conn = "down" /\ inbox \in Nat /\ pc = "query" /\ batch = {}
      /\ errCount = 0 /\ errCount \in 0 .. MaxErrors + 1
  BY DEF Init
<1>5. TypeOK
  BY <1>1, <1>2, <1>4 DEF TypeOK
<1> QED
  BY <1>3, <1>4, <1>5 DEF StopsInTime, IndexerInv

LEMMA IndexerStep == IndexerInv /\ [Next]_vars => IndexerInv'
<1> SUFFICES ASSUME IndexerInv, [Next]_vars PROVE IndexerInv'
  OBVIOUS
<1>0. TypeOK /\ StopsInTime /\ VectorOfContent
  BY DEF IndexerInv
<1> DEFINE Table == rows' \in [Page -> Row] /\ VectorOfContent'
           Signals == hasWork' \in BOOLEAN /\ errCh' \in BOOLEAN
           Loop == /\ pc' \in {"query", "embed", "save", "select", "stopped"}
                   /\ errCount' \in 0 .. MaxErrors + 1
                   /\ batch' \in SUBSET (Page \X Content)
                   /\ StopsInTime'
           Listener == conn' \in {"down", "listening"} /\ inbox' \in Nat
<1>1. Table /\ Signals /\ Loop /\ Listener => IndexerInv'
  BY DEF IndexerInv, TypeOK
<1>t. UNCHANGED table => Table
  BY <1>0 DEF table, TypeOK, VectorOfContent
<1>l. UNCHANGED <<pc, batch, errCount>> => Loop
  BY <1>0 DEF TypeOK, StopsInTime
<1>s. ASSUME hasWork' \in {hasWork, TRUE, FALSE}, errCh' \in {errCh, TRUE, FALSE}
      PROVE  Signals
  BY <1>0, <1>s, Zenon DEF TypeOK
<1> HIDE DEF Table, Signals, Loop
<1>2. CASE Listen \/ ListenFails \/ Receive
  <2>1. UNCHANGED <<table, pc, batch, errCount>> /\ Listener
    BY <1>2, <1>0 DEF Listen, ListenFails, Receive, listener, TypeOK
  <2>2. Signals
    BY <1>2, <1>s DEF Listen, ListenFails, Receive, listener
  <2> QED
    BY <2>1, <2>2, <1>1, <1>t, <1>l
<1>3. CASE GetUnvectorized
  <2>1. /\ pc = "query" /\ UNCHANGED <<table, listener, inbox, hasWork>>
        /\ batch' = {<<p, rows[p].content>> : p \in Unvectorized}
        /\ \/ pc' = "select" /\ errCount' = 0
           \/ pc' = "embed" /\ errCount' = errCount
    BY <1>3 DEF GetUnvectorized, Succeeded
  <2>2. \A p \in Unvectorized : p \in Page /\ rows[p].content \in Content
    BY <1>0 DEF Unvectorized, TypeOK, Row
  <2>3. batch' \in SUBSET (Page \X Content)
    BY <2>1, <2>2
  <2>4. Loop
    BY <2>1, <2>3, <1>0 DEF Loop, TypeOK, StopsInTime
  <2> QED
    BY <2>1, <2>4, <1>0, <1>1, <1>t, <1>s DEF TypeOK, listener
<1>4. CASE Embed \/ TakeWork
  <2>1. /\ UNCHANGED <<table, listener, inbox, batch, errCount>>
        /\ pc # "stopped" /\ pc' \in {"save", "query"}
        /\ hasWork' \in {hasWork, FALSE}
    BY <1>4 DEF Embed, TakeWork
  <2>2. Loop
    BY <2>1, <1>0 DEF Loop, TypeOK, StopsInTime
  <2> QED
    BY <2>1, <2>2, <1>0, <1>1, <1>t, <1>s DEF TypeOK, listener
<1>5. CASE ProcessFails \/ TakeError
  <2>1. /\ UNCHANGED <<table, conn, inbox, hasWork>>
        /\ pc # "stopped" /\ Failed
        /\ batch' \in {batch, {}}
        /\ errCh' \in {errCh, FALSE}
    BY <1>5 DEF ProcessFails, TakeError, listener
  <2>2. Loop
    BY <2>1, <1>0, FailedCounts DEF Loop, TypeOK
  <2> QED
    BY <2>1, <2>2, <1>0, <1>1, <1>t, <1>s DEF TypeOK
<1>6. CASE SavePage
  <2>1. PICK page \in batch :
          /\ InsertPage(page[1], page[2], VectorOf(page[2]), VectorizableOf(page[2]))
          /\ NextPage(page)
    BY <1>6 DEF SavePage
  <2>2. pc = "save" /\ UNCHANGED <<listener, hasWork>>
    BY <1>6 DEF SavePage
  <2>3. page[1] \in Page /\ page[2] \in Content
    BY <1>0 DEF TypeOK
  <2>4. /\ VectorOf(page[2]) \in Content \cup {NoVector}
        /\ VectorOf(page[2]) # NoVector => VectorOf(page[2]) = page[2]
    BY <2>3 DEF VectorOf
  <2>5. VectorizableOf(page[2]) \in BOOLEAN
    BY Zenon DEF VectorizableOf
  <2>6. ~VectorizableOf(page[2]) => page[2] \in TooLong
    BY Zenon DEF VectorizableOf
  <2>7. Table /\ inbox' \in Nat
    BY <2>1, <2>3, <2>4, <2>5, <2>6, <1>0, InsertPageKeeps DEF Table
  <2>8. Loop
    BY <2>1, <2>2, <1>0, NextPageTypes DEF Loop
  <2> QED
    BY <2>2, <2>7, <2>8, <1>0, <1>1, <1>s DEF TypeOK, listener
<1>7. CASE SaveFails
  <2>1. /\ pc = "save" /\ UNCHANGED <<table, listener, inbox, hasWork>>
        /\ \E page \in batch : NextPage(page)
    BY <1>7 DEF SaveFails
  <2>2. Loop
    BY <2>1, <1>0, NextPageTypes DEF Loop
  <2> QED
    BY <2>1, <2>2, <1>0, <1>1, <1>t, <1>s DEF TypeOK, listener
<1>8. CASE Crawl
  <2>1. PICK p \in Page, content \in Content :
          InsertPage(p, content, NoVector, TRUE)
    BY <1>8 DEF Crawl
  <2>2. UNCHANGED <<listener, hasWork, pc, batch, errCount>>
    BY <1>8 DEF Crawl
  <2>3. Table /\ inbox' \in Nat
    BY <2>1, <1>0, InsertPageKeeps DEF Table
  <2> QED
    BY <2>2, <2>3, <1>0, <1>1, <1>l, <1>s DEF TypeOK, listener
<1>9. CASE Restart
  <2>1. Loop
    BY <1>9 DEF Restart, Loop, StopsInTime
  <2>2. Signals
    BY <1>9, <1>s DEF Restart
  <2> QED
    BY <1>9, <2>1, <2>2, <1>1, <1>t DEF Restart
<1>10. CASE UNCHANGED vars
  <2>1. UNCHANGED <<table, conn, inbox, hasWork, errCh, pc, batch, errCount>>
    BY <1>10 DEF vars, table
  <2> QED
    BY <2>1, <1>0, <1>1, <1>t, <1>l, <1>s DEF TypeOK
<1> QED
  BY <1>2, <1>3, <1>4, <1>5, <1>6, <1>7, <1>8, <1>9, <1>10
     DEF Next, Execute, Failures

(* The indexer keeps its types, and its error counter its bound. *)
THEOREM IndexerTypeCorrect == Spec => []TypeOK
<1>1. IndexerInv => TypeOK
  BY DEF IndexerInv
<1> QED
  BY <1>1, IndexerInit, IndexerStep, PTL DEF Spec

(* A row never has the vector of another text, and is left out of the      *)
(* index only for its own text.                                            *)
THEOREM IndexerKeepsVectors == Spec => []VectorOfContent
<1>1. IndexerInv => VectorOfContent
  BY DEF IndexerInv
<1> QED
  BY <1>1, IndexerInit, IndexerStep, PTL DEF Spec
-----------------------------------------------------------------------------
(* The life of the pages.  What is being indexed is still plain: nobody    *)
(* but this indexer, and only at the end of it, changes that.              *)
BatchPlain ==
  \A x \in batch :
    /\ PageOf(rows[x[1]]).kind = "plain"
    /\ \A y \in batch : x[1] = y[1] => x = y

LEMMA PageOfRow ==
  ASSUME NEW row \in Row
  PROVE  /\ PageOf(row).kind = "plain" <=> /\ row.content # NoContent
                                          /\ row.vector = NoVector
                                          /\ row.can_be_vectorized = TRUE
         /\ PageOf(row).content = row.content
<1>1. row.can_be_vectorized \in BOOLEAN
  BY DEF Row
<1>2. CASE row.can_be_vectorized = TRUE
  BY <1>2 DEF PageOf
<1>3. CASE row.can_be_vectorized = FALSE
  BY <1>3 DEF PageOf
<1> QED
  BY <1>1, <1>2, <1>3

(* One row changes, and the abstract page with it. *)
LEMMA InsertPageBecomes ==
  ASSUME TypeOK, NEW p \in Page, NEW content \in Content,
         NEW vector \in Content \cup {NoVector}, NEW vectorizable \in BOOLEAN,
         NEW kind,
         kind = IF vector # NoVector THEN "indexed"
                ELSE IF vectorizable THEN "plain" ELSE "excluded",
         InsertPage(p, content, vector, vectorizable)
  PROVE  /\ Life!Becomes(p, content, kind)
         /\ PageOf(rows'[p]).kind = kind
         /\ \A q \in Page : q # p => rows'[q] = rows[q]
<1> DEFINE row == [content |-> content, vector |-> vector,
                   can_be_vectorized |-> vectorizable]
<1>1. rows' = [rows EXCEPT ![p] = row] /\ rows \in [Page -> Row]
  BY DEF InsertPage, TypeOK
<1>2. PageOf(row) = [content |-> content, kind |-> kind]
      /\ PageOf(row).kind = kind
  <2>1. CASE vectorizable
    BY <2>1 DEF PageOf
  <2>2. CASE ~vectorizable
    BY <2>2 DEF PageOf
  <2> QED
    BY <2>1, <2>2
<1>3. rows'[p] = row /\ \A q \in Page : q # p => rows'[q] = rows[q]
  BY <1>1
<1>4. LifeOfPages' = [LifeOfPages EXCEPT ![p] = PageOf(row)]
  BY <1>3 DEF LifeOfPages
<1>5. Life!Becomes(p, content, kind)
  BY <1>2, <1>4 DEF Life!Becomes
<1>6. PageOf(rows'[p]).kind = kind
  BY <1>2, <1>3
<1> HIDE DEF row
<1> QED
  BY <1>3, <1>5, <1>6

LEMMA LifeInit == Init => BatchPlain /\ Life!Init
BY DEF Init, BatchPlain, LifeOfPages, PageOf, Life!Init

LEMMA LifeStep ==
  IndexerInv /\ BatchPlain /\ [Next]_vars
    => BatchPlain' /\ [Life!Next]_LifeOfPages
<1> SUFFICES ASSUME IndexerInv, BatchPlain, [Next]_vars
             PROVE  BatchPlain' /\ (Life!Next \/ UNCHANGED LifeOfPages)
  OBVIOUS
<1>0. TypeOK /\ rows \in [Page -> Row] /\ batch \in SUBSET (Page \X Content)
  BY DEF IndexerInv, TypeOK
<1>1. ASSUME UNCHANGED rows PROVE UNCHANGED LifeOfPages
  BY <1>1 DEF LifeOfPages, PageOf
<1>2. ASSUME UNCHANGED rows, batch' \subseteq batch
      PROVE  BatchPlain' /\ UNCHANGED LifeOfPages
  BY <1>1, <1>2 DEF BatchPlain, PageOf
<1>3. CASE GetUnvectorized
  <2>1. /\ UNCHANGED rows
        /\ batch' = {<<p, rows[p].content>> : p \in Unvectorized}
    BY <1>3 DEF GetUnvectorized, table
  <2>2. \A p \in Unvectorized : p \in Page /\ PageOf(rows[p]).kind = "plain"
    BY <1>0, PageOfRow DEF Unvectorized
  <2>3. \A p \in Page : PageOf(rows[p])' = PageOf(rows[p])
    BY <2>1 DEF PageOf
  <2>4. ASSUME NEW x \in batch', NEW y \in batch'
        PROVE  /\ PageOf(rows[x[1]]).kind' = "plain"
               /\ x[1] = y[1] => x = y
    <3>1. PICK p \in Unvectorized : x = <<p, rows[p].content>>
      BY <2>1, <2>4
    <3>2. PICK q \in Unvectorized : y = <<q, rows[q].content>>
      BY <2>1, <2>4
    <3> QED
      BY <3>1, <3>2, <2>1, <2>2, <2>3
  <2> QED
    BY <1>1, <2>1, <2>4 DEF BatchPlain
<1>4. CASE SavePage
  <2>1. PICK x \in batch :
          /\ InsertPage(x[1], x[2], VectorOf(x[2]), VectorizableOf(x[2]))
          /\ batch' = batch \ {x}
    BY <1>4 DEF SavePage, NextPage
  <2>2. x[1] \in Page /\ x[2] \in Content
    BY <1>0
  <2>3. LifeOfPages[x[1]].kind = "plain"
    BY <2>2 DEF BatchPlain, LifeOfPages
  <2>4. ASSUME x[2] \in TooLong PROVE Life!Next
    <3>1. VectorOf(x[2]) = NoVector
      BY <2>4 DEF VectorOf
    <3>2. VectorizableOf(x[2]) = FALSE
      BY <2>4, Zenon DEF VectorizableOf
    <3>3. InsertPage(x[1], x[2], NoVector, FALSE)
      BY <2>1, <3>1, <3>2
    <3>4. Life!Becomes(x[1], x[2], "excluded")
          /\ \A q \in Page : q # x[1] => rows'[q] = rows[q]
      BY <1>0, <2>2, <3>3, InsertPageBecomes
    <3>5. Life!Exclude(x[1])
      BY <2>2, <2>3, <2>4, <3>4 DEF Life!Exclude
    <3> QED
      BY <2>2, <3>5 DEF Life!Next
  <2>5. ASSUME x[2] \notin TooLong PROVE Life!Next
    <3>1. VectorOf(x[2]) = x[2] /\ x[2] # NoVector
      BY <2>2, <2>5 DEF VectorOf
    <3>2. VectorizableOf(x[2]) = TRUE
      BY <2>5, Zenon DEF VectorizableOf
    <3>3. InsertPage(x[1], x[2], x[2], TRUE)
      BY <2>1, <3>1, <3>2
    <3>4. Life!Becomes(x[1], x[2], "indexed")
      BY <1>0, <2>2, <3>1, <3>3, InsertPageBecomes
    <3>5. Life!Index(x[1])
      BY <2>2, <2>3, <2>5, <3>4 DEF Life!Index
    <3> QED
      BY <2>2, <3>5 DEF Life!Next
  <2>6. \A q \in Page : q # x[1] => rows'[q] = rows[q]
    BY <1>0, <2>1, <2>2 DEF InsertPage
  <2>7. \A y \in batch' : y \in batch /\ y[1] \in Page /\ y[1] # x[1]
    BY <1>0, <2>1 DEF BatchPlain
  <2>8. BatchPlain'
    BY <2>6, <2>7 DEF BatchPlain, PageOf
  <2> QED
    BY <2>4, <2>5, <2>8
<1>5. CASE Crawl
  <2>1. PICK p \in Page, content \in Content :
          InsertPage(p, content, NoVector, TRUE)
    BY <1>5 DEF Crawl
  <2>2. /\ Life!Becomes(p, content, "plain")
        /\ PageOf(rows'[p]).kind = "plain"
        /\ \A q \in Page : q # p => rows'[q] = rows[q]
    BY <1>0, <2>1, InsertPageBecomes
  <2>3. batch' = batch
    BY <1>5 DEF Crawl
  <2>4. \A q \in Page : q # p => PageOf(rows[q])' = PageOf(rows[q])
    BY <2>2 DEF PageOf
  <2>5. PageOf(rows[p])'.kind = "plain"
    BY <2>2 DEF PageOf
  <2>6. BatchPlain'
    BY <1>0, <2>3, <2>4, <2>5 DEF BatchPlain
  <2> QED
    BY <2>2, <2>6 DEF Life!Store, Life!Next
<1>6. CASE Listen \/ ListenFails \/ Receive \/ Embed \/ TakeWork \/ TakeError
           \/ ProcessFails \/ SaveFails \/ Restart \/ UNCHANGED vars
  BY <1>2, <1>6 DEF Listen, ListenFails, Receive, Embed, TakeWork, TakeError,
                    ProcessFails, SaveFails, NextPage, Restart, vars, table
<1> QED
  BY <1>3, <1>4, <1>5, <1>6 DEF Next, Execute, Failures

(* However the indexer is notified, interrupted and overtaken by the       *)
(* crawler, it changes a page only as PageLife allows.                     *)
THEOREM IndexerImplementsLife == Spec => ImplementsLife
<1>1. Init => IndexerInv /\ BatchPlain /\ Life!Init
  BY IndexerInit, LifeInit
<1> QED
  BY <1>1, IndexerStep, LifeStep, PTL DEF Spec, ImplementsLife, Life!Spec

-----------------------------------------------------------------------------
(* What a search shows, for any corpus, query and limit: the invariant of  *)
(* the indexer that a vector is the vector of the text beside it turns the *)
(* similarity of vectors FindSimilar computes into one of texts.           *)

(* The pages FindSimilar returns.                                          *)
LEMMA FoundPages ==
  ASSUME NEW query, NEW limit \in Int, NEW found \in FindSimilar(query, limit)
  PROVE  \E n \in Nat :
           /\ n <= limit
           /\ found \in [1 .. n -> Similar(query)]
           /\ \A i, j \in 1 .. n : i < j =>
                /\ found[i] # found[j]
                /\ Distance(query, found[i]) <= Distance(query, found[j])
<1>1. PICK n \in {n \in 0 .. Cardinality(Page) : n <= limit} :
             found \in {f \in [1 .. n -> Similar(query)] :
               \A i, j \in 1 .. n : i < j =>
                 /\ f[i] # f[j]
                 /\ Distance(query, f[i]) <= Distance(query, f[j])}
  BY DEF FindSimilar
<1>2. n \in Nat /\ n <= limit
  OBVIOUS
<1> QED
  BY <1>1, <1>2

(* The distance of a page that is found is that of the text it shows.      *)
LEMMA ShownText ==
  ASSUME TypeOK, VectorOfContent, NEW query \in Query, NEW p \in Similar(query)
  PROVE  /\ p \in Page
         /\ p \notin Unvectorized
         /\ rows[p].content \in Content
         /\ Similarity[query][rows[p].content] \in Int
         /\ Distance(query, p) = -Similarity[query][rows[p].content]
         /\ Similarity[query][rows[p].content] > MinSimilarity
<1>1. p \in Page /\ rows[p].vector # NoVector /\ Distance(query, p) < -MinSimilarity
  BY DEF Similar
<1>2. rows[p].vector \in Content
  BY <1>1 DEF TypeOK, Row
<1>3. rows[p].vector = rows[p].content
  BY <1>1 DEF VectorOfContent
<1>4. Similarity[query][rows[p].content] \in Int /\ MinSimilarity \in Int
  BY <1>2, <1>3, QueryAssumption
<1>5. Distance(query, p) = -Similarity[query][rows[p].content]
  BY <1>3 DEF Distance
<1>6. p \notin Unvectorized
  BY <1>1 DEF Unvectorized
<1> QED
  BY <1>1, <1>2, <1>3, <1>4, <1>5, <1>6

(* Whatever the table holds by then, a search shows only pages that are    *)
(* indexed, for the text they show, each once, the best first, and no      *)
(* more than were asked for.                                               *)
THEOREM SearchAnswersSound == Spec => []SearchSound
<1>1. TypeOK /\ VectorOfContent => SearchSound
  <2> SUFFICES ASSUME TypeOK, VectorOfContent,
                      NEW query \in Query, NEW limit \in Limit,
                      NEW answer \in ServeHTTP(query, limit)
               PROVE  /\ answer.status = 200 => Len(answer.pages) <= LimitOf(limit)
                      /\ \A i \in DOMAIN answer.pages :
                           /\ answer.pages[i] \notin {Shown(p) : p \in Unvectorized}
                           /\ Similarity[query][answer.pages[i].content] > MinSimilarity
                           /\ \A j \in 1 .. i - 1 :
                                /\ answer.pages[j].url # answer.pages[i].url
                                /\ Similarity[query][answer.pages[j].content]
                                     >= Similarity[query][answer.pages[i].content]
    BY DEF SearchSound, AnswersSound
  <2>1. CASE answer.status # 200
    <3>1. answer.pages = <<>>
      BY <2>1 DEF ServeHTTP
    <3> QED
      BY <2>1, <3>1
  <2>2. CASE answer.status = 200
    <3>1. PICK found \in FindSimilar(query, LimitOf(limit)) :
                 answer.pages = [i \in DOMAIN found |-> Shown(found[i])]
      BY <2>2 DEF ServeHTTP
    <3>2. LimitOf(limit) \in Int
      BY QueryAssumption DEF LimitOf
    <3>3. PICK n \in Nat :
                 /\ n <= LimitOf(limit)
                 /\ found \in [1 .. n -> Similar(query)]
                 /\ \A i, j \in 1 .. n : i < j =>
                      /\ found[i] # found[j]
                      /\ Distance(query, found[i]) <= Distance(query, found[j])
      BY <3>1, <3>2, FoundPages
    <3>4. DOMAIN answer.pages = 1 .. n /\ Len(answer.pages) = n
      <4>1. answer.pages = [i \in 1 .. n |-> Shown(found[i])]
        BY <3>1, <3>3
      <4> QED
        BY <4>1
    <3>5. ASSUME NEW i \in 1 .. n
          PROVE  /\ answer.pages[i] = Shown(found[i])
                 /\ found[i] \in Similar(query)
                 /\ answer.pages[i].url = found[i]
                 /\ answer.pages[i].content = rows[found[i]].content
      BY <3>1, <3>3 DEF Shown
    <3>6. ASSUME NEW i \in 1 .. n
          PROVE  answer.pages[i] \notin {Shown(p) : p \in Unvectorized}
      <4>1. found[i] \notin Unvectorized
        BY <3>5, ShownText
      <4>2. \A p : Shown(p).url = p
        BY DEF Shown
      <4> QED
        BY <3>5, <4>1, <4>2
    <3>7. ASSUME NEW i \in 1 .. n
          PROVE  Similarity[query][answer.pages[i].content] > MinSimilarity
      BY <3>5, ShownText
    <3>8. ASSUME NEW i \in 1 .. n, NEW j \in 1 .. i - 1
          PROVE  /\ answer.pages[j].url # answer.pages[i].url
                 /\ Similarity[query][answer.pages[j].content]
                      >= Similarity[query][answer.pages[i].content]
      <4>1. j \in 1 .. n /\ j < i
        OBVIOUS
      <4>2. found[j] # found[i] /\ Distance(query, found[j]) <= Distance(query, found[i])
        BY <3>3, <4>1
      <4>3. /\ Distance(query, found[i]) = -Similarity[query][rows[found[i]].content]
            /\ Distance(query, found[j]) = -Similarity[query][rows[found[j]].content]
            /\ Similarity[query][rows[found[i]].content] \in Int
            /\ Similarity[query][rows[found[j]].content] \in Int
        BY <3>5, <4>1, ShownText
      <4>4. Similarity[query][rows[found[j]].content]
              >= Similarity[query][rows[found[i]].content]
        BY <4>2, <4>3
      <4> QED
        BY <3>5, <4>1, <4>2, <4>4
    <3> QED
      BY <2>2, <3>3, <3>4, <3>6, <3>7, <3>8
  <2> QED
    BY <2>1, <2>2
<1> QED
  BY <1>1, IndexerTypeCorrect, IndexerKeepsVectors, PTL
=============================================================================
