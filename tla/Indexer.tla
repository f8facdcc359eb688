------------------------------ MODULE Indexer -------------------------------
(***************************************************************************)
(* The indexer: it embeds the pages the crawler stores.  A goroutine       *)
(* listens for the notification Postgres sends for every INSERT into       *)
(* pages, Index.Execute reads the pages without a vector, has them         *)
(* embedded and stores them again (src/internal/application/usecase/       *)
(* index.go, storage/postgres/notify_ds.go, page_ds.go).  Between these    *)
(* steps the crawler stores pages of its own, the same ones included.      *)
(*                                                                         *)
(* A content stands for the title, description and text of a page, and for *)
(* the vector of that text: the embedder is a function.                    *)
(***************************************************************************)
EXTENDS Naturals, FiniteSets

CONSTANTS
  Page,       \* URLs
  Content,    \* what a crawl may find there
  TooLong,    \* the contents whose text no request can carry
  Blank,      \* the content without title, description and text
  NoContent,  \* the URL has no row
  NoVector,   \* vector IS NULL
  MaxErrors   \* 10 in Execute

ASSUME PageAssumption == IsFiniteSet(Page)
ASSUME ContentAssumption ==
  /\ TooLong \subseteq Content
  /\ Blank \in Content \ TooLong
  /\ NoContent \notin Content
  /\ NoVector \notin Content
ASSUME MaxErrorsAssumption == MaxErrors \in Nat

VARIABLES
  rows,      \* the pages table
  conn,      \* the listener's connection: "down", or "listening"
  inbox,     \* notifications sent to that connection and not yet read
  hasWork,   \* the two channels of capacity 1
  errCh,
  pc,        \* "query", "embed", "save", "select" or "stopped"
  batch,     \* the pages that are being indexed, as <<page, content>>
  errCount

table    == rows
listener == <<conn, errCh>>
vars     == <<rows, conn, inbox, hasWork, errCh, pc, batch, errCount>>

Row == [content : Content \cup {NoContent},
        vector : Content \cup {NoVector},
        can_be_vectorized : BOOLEAN]

TypeOK ==
  /\ rows \in [Page -> Row]
  /\ conn \in {"down", "listening"}
  /\ inbox \in Nat
  /\ hasWork \in BOOLEAN
  /\ errCh \in BOOLEAN
  /\ pc \in {"query", "embed", "save", "select", "stopped"}
  /\ batch \in SUBSET (Page \X Content)
  /\ errCount \in 0 .. MaxErrors + 1

\* Execute starts the listener and goes on to its cold start: the two race.
Init ==
  /\ rows = [p \in Page |-> [content |-> NoContent, vector |-> NoVector,
                             can_be_vectorized |-> TRUE]]
  /\ conn = "down"
  /\ inbox = 0
  /\ hasWork = FALSE
  /\ errCh = FALSE
  /\ pc = "query"
  /\ batch = {}
  /\ errCount = 0

-----------------------------------------------------------------------------
\* A mistake: the trigger fires for new rows only.
NotifyOfNewRow ==
  inbox' = IF /\ conn = "listening"
              /\ \E p \in Page : rows[p].content = NoContent /\ rows'[p] # rows[p]
           THEN inbox + 1 ELSE inbox

(* The trigger fires for every statement, an update by ON CONFLICT         *)
(* included, and reaches only a connection that is listening.              *)
Notify == inbox' = IF conn = "listening" THEN inbox + 1 ELSE inbox

(* Mistakes, which no specification uses. *)

\* The indexer updates the vector of the row and leaves its text alone.
InsertPageVectorOnly(p, content, vector, vectorizable) ==
  /\ rows' = [rows EXCEPT
       ![p].content = IF vector = NoVector THEN content ELSE @,
       ![p].vector = vector,
       ![p].can_be_vectorized = vectorizable]
  /\ Notify

\* A text that was too long is tried again.
VectorizableOfAny(content) == TRUE

\* A text that is too long gets the vector of what fits.
VectorOfPrefix(content) == content

\* The indexer never gives up.
FailedForEver == pc' = "select" /\ errCount' = errCount + 1

-----------------------------------------------------------------------------
(* The upsert writes every column.                                         *)
InsertPage(p, content, vector, vectorizable) ==
  /\ rows' = [rows EXCEPT ![p] = [content |-> content, vector |-> vector,
                                  can_be_vectorized |-> vectorizable]]
  /\ Notify

(* GetUnvectorized.                                                        *)
Unvectorized ==
  {p \in Page : /\ rows[p].content \notin {NoContent, Blank}
                /\ rows[p].vector = NoVector
                /\ rows[p].can_be_vectorized}

(* What the indexer stores of a page whose text was too long: the vector   *)
(* is empty but not nil.                                                   *)
VectorOf(content)       == IF content \in TooLong THEN NoVector ELSE content
VectorizableOf(content) == content \notin TooLong

-----------------------------------------------------------------------------
(* The listener. *)

Listen ==
  /\ conn = "down"
  /\ conn' = "listening"
  /\ inbox' = 0
  /\ UNCHANGED <<table, hasWork, errCh, pc, batch, errCount>>

(* Connecting or LISTEN fails; so does a wait, and the connection with it. *)
ListenFails ==
  /\ conn' = "down"
  /\ inbox' = 0
  /\ errCh' = TRUE
  /\ UNCHANGED <<table, hasWork, pc, batch, errCount>>

(* A signal that finds the channel full is dropped. *)
Receive ==
  /\ conn = "listening" /\ inbox > 0
  /\ inbox' = inbox - 1
  /\ hasWork' = TRUE
  /\ UNCHANGED <<table, listener, pc, batch, errCount>>

-----------------------------------------------------------------------------
(* Index.Execute and process. *)

(* The end of process, or an error from the listener. *)
Succeeded == pc' = "select" /\ errCount' = 0

Failed ==
  /\ errCount' = errCount + 1
  /\ pc' = IF errCount' > MaxErrors THEN "stopped" ELSE "select"

GetUnvectorized ==
  /\ pc = "query"
  /\ batch' = {<<p, rows[p].content>> : p \in Unvectorized}
  /\ IF batch' = {} THEN Succeeded
     ELSE pc' = "embed" /\ UNCHANGED errCount
  /\ UNCHANGED <<table, listener, inbox, hasWork>>

Embed ==
  /\ pc = "embed"
  /\ pc' = "save"
  /\ UNCHANGED <<table, listener, inbox, hasWork, batch, errCount>>

ProcessFails ==
  /\ pc \in {"query", "embed"}
  /\ Failed
  /\ batch' = {}
  /\ UNCHANGED <<table, listener, inbox, hasWork>>

(* A page that cannot be stored is logged and skipped, and after the last  *)
(* one process succeeds.                                                   *)
NextPage(page) ==
  /\ batch' = batch \ {page}
  /\ IF batch' = {} THEN Succeeded ELSE UNCHANGED <<pc, errCount>>

SavePage ==
  /\ pc = "save"
  /\ \E page \in batch :
       /\ InsertPage(page[1], page[2], VectorOf(page[2]), VectorizableOf(page[2]))
       /\ NextPage(page)
  /\ UNCHANGED <<listener, hasWork>>

SaveFails ==
  /\ pc = "save"
  /\ \E page \in batch : NextPage(page)
  /\ UNCHANGED <<table, listener, inbox, hasWork>>

TakeWork ==
  /\ pc = "select"
  /\ hasWork
  /\ hasWork' = FALSE
  /\ pc' = "query"
  /\ UNCHANGED <<table, listener, inbox, batch, errCount>>

TakeError ==
  /\ pc = "select"
  /\ errCh
  /\ errCh' = FALSE
  /\ Failed
  /\ UNCHANGED <<table, conn, inbox, hasWork, batch>>

Execute == \/ GetUnvectorized \/ Embed \/ SavePage
           \/ TakeWork \/ TakeError

-----------------------------------------------------------------------------
(* The crawler stores a page, for the first time or again. *)
Crawl ==
  /\ \E p \in Page, content \in Content : InsertPage(p, content, NoVector, TRUE)
  /\ UNCHANGED <<listener, hasWork, pc, batch, errCount>>

(* The process dies, or stops after too many errors, and is started again. *)
Restart ==
  /\ conn' = "down"
  /\ inbox' = 0
  /\ hasWork' = FALSE
  /\ errCh' = FALSE
  /\ pc' = "query"
  /\ batch' = {}
  /\ errCount' = 0
  /\ UNCHANGED table

Failures == ListenFails \/ ProcessFails \/ SaveFails \/ Restart

Next == Listen \/ Receive \/ Execute \/ Crawl \/ Failures

Spec == Init /\ [][Next]_vars

(* The two goroutines are scheduled and their calls return. *)
Fairness == WF_vars(Listen) /\ WF_vars(Receive) /\ WF_vars(Execute)

-----------------------------------------------------------------------------
(* A vector is the vector of the text stored beside it, and a page is left *)
(* out of the index only if its own text is too long, although the crawler *)
(* may replace the page while its former text is being embedded.           *)
VectorOfContent ==
  \A p \in Page :
    /\ rows[p].vector # NoVector => rows[p].vector = rows[p].content
    /\ ~rows[p].can_be_vectorized => rows[p].content \in TooLong

(* The rows go through the life of PageLife: a page is indexed at most     *)
(* once for each time it is stored, nothing that is indexed is taken out   *)
(* again by the indexer, and what is excluded has a text that is too long. *)
PageOf(row) ==
  [content |-> row.content,
   kind |-> IF row.content = NoContent THEN "none"
            ELSE IF row.vector # NoVector THEN "indexed"
            ELSE IF row.can_be_vectorized THEN "plain" ELSE "excluded"]

LifeOfPages == [p \in Page |-> PageOf(rows[p])]

Life == INSTANCE PageLife WITH page <- LifeOfPages

ImplementsLife == Life!Spec

(* The indexer comes to rest, although every page it stores notifies it:   *)
(* once the crawler stores nothing new it stops storing and being woken.   *)
ComesToRest == <>[](pc \in {"select", "stopped"} /\ batch = {})

(* There are pages to index. *)
Backlog == Unvectorized # {}

(* "Replaces interval-based polling with Postgres NOTIFY triggers on page  *)
(* inserts, reducing idle database load and dropping indexing latency to   *)
(* near-zero" (README): a page that was stored is indexed.                 *)
IndexedAtLast == Backlog ~> ~Backlog
=============================================================================
