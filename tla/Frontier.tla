------------------------------ MODULE Frontier ------------------------------
(***************************************************************************)
(* The crawl frontier: the Redis data shared by every worker, the health   *)
(* check and the crawl endpoint (src/internal/infrastructure/storage/      *)
(* redis).  Redis runs a Lua script atomically, so each script is one      *)
(* action; FrontierNext lets any client call any script at any time, in    *)
(* any order, as often as it likes.  What holds here therefore holds for   *)
(* every interleaving of the crawler's goroutines, whatever they crashed   *)
(* in, repeated or delayed, as long as nobody resets the cache.            *)
(***************************************************************************)
EXTENDS Naturals, Sequences, FiniteSets

CONSTANTS
  URL,        \* the strings used as Redis members and hash fields
  Worker,     \* the ids of the worker pool ("0", "1", ...)
  NoWorker,   \* worker_id == ''
  NoParent,   \* parent == '', a seed
  NilParent   \* the parent field is missing from the JSON record

ASSUME URLAssumption     == IsFiniteSet(URL)
ASSUME WorkerAssumption  == NoWorker \notin Worker
ASSUME ParentAssumption  == /\ NoParent \notin URL
                            /\ NilParent \notin URL \cup {NoParent}

VARIABLES
  queue,      \* crawler queue LIST, in the order LMOVE ... RIGHT takes it
  retry,      \* members of the retry ZSET
  due,        \* those of them whose score (retry_at) is in the past
  urlStatus,  \* the url:status HASH; status "Absent" where HGET gives nil
  index,      \* the processing:index SET
  procQueue,  \* how often processing:queue:<worker> holds each URL
  fresh       \* URLs whose take_on_at is younger than the worry threshold

frontierVars == <<queue, retry, due, urlStatus, index, procQueue, fresh>>

-----------------------------------------------------------------------------
(* The JSON record of a URL. *)

Terminal == {"Done", "Manual", "GiveUp"}
Status   == {"Queued", "Processing", "Retry"} \cup Terminal

URLInfo == [status : Status \cup {"Absent"},
            worker : Worker \cup {NoWorker},
            try    : Nat,
            parent : URL \cup {NoParent, NilParent}]

\* HGET found nothing.  A script that fills in a missing record starts from
\* the same empty worker and missing parent.
Unknown == [status |-> "Absent", worker |-> NoWorker,
            try |-> 0, parent |-> NilParent]

Known(u)    == urlStatus[u].status # "Absent"
InQueue(u)  == \E i \in DOMAIN queue : queue[i] = u
Owner(u)    == urlStatus[u].worker

FrontierTypeOK ==
  /\ queue \in Seq(URL)
  /\ retry \in SUBSET URL
  /\ due \in SUBSET retry
  /\ urlStatus \in [URL -> URLInfo]
  /\ index \in SUBSET URL
  /\ procQueue \in [Worker \X URL -> Nat]
  /\ fresh \in SUBSET URL

FrontierInit ==
  /\ queue = <<>>
  /\ retry = {}
  /\ due = {}
  /\ urlStatus = [u \in URL |-> Unknown]
  /\ index = {}
  /\ procQueue = [wu \in Worker \X URL |-> 0]
  /\ fresh = {}

(* LREM with count 0 on the list of one worker.  With worker_id '' there   *)
(* is no list.                                                             *)
LRemAll(w, u) ==
  [wu \in Worker \X URL |-> IF wu = <<w, u>> THEN 0 ELSE procQueue[wu]]

-----------------------------------------------------------------------------
(* Mistakes the scripts could contain.  No specification uses them; each   *)
(* replaces the definition it resembles to see a property fail.            *)

(* LREM counts an element that was not there. *)
LRemOneUnchecked(w, u) ==
  [wu \in Worker \X URL |-> IF wu = <<w, u>> THEN procQueue[wu] - 1
                            ELSE procQueue[wu]]

(* The record keeps the worker that had the URL before. *)
PopURLKeepsWorker(w) ==
  /\ queue # <<>>
  /\ Known(Head(queue))
  /\ LET u == Head(queue) IN
       /\ queue' = Tail(queue)
       /\ procQueue' = [procQueue EXCEPT ![<<w, u>>] = @ + 1]
       /\ urlStatus' = [urlStatus EXCEPT ![u].status = "Processing"]
       /\ index' = index \cup {u}
       /\ fresh' = fresh \cup {u}
  /\ UNCHANGED <<retry, due>>

(* A recovery starts the attempts anew, as for a missing record. *)
RecoverURLAfresh(u) ==
  /\ urlStatus' = [urlStatus EXCEPT ![u].status = "Queued", ![u].try = 0]
  /\ procQueue' = LRemAll(Owner(u), u)
  /\ index' = index \ {u}
  /\ queue' = Append(queue, u)
  /\ UNCHANGED <<retry, due, fresh>>

(* The record of a due URL is built anew, without its parent. *)
RequeuedAnew(info) == [Unknown EXCEPT !.status = "Queued", !.try = info.try]

(* One URL is queued, every due one leaves the retry set. *)
EnqueueFirstURL ==
  /\ IF due = {} THEN UNCHANGED queue
     ELSE \E u \in due : queue' = Append(queue, u)
  /\ urlStatus' = [u \in URL |-> IF u \in due
                                 THEN [urlStatus[u] EXCEPT !.status = "Queued"]
                                 ELSE urlStatus[u]]
  /\ retry' = retry \ due
  /\ due' = {}
  /\ UNCHANGED <<index, procQueue, fresh>>

-----------------------------------------------------------------------------
(* The scripts. *)

\* LREM with count 1.
LRemOne(w, u) ==
  [wu \in Worker \X URL |-> IF wu = <<w, u>> /\ procQueue[wu] > 0
                            THEN procQueue[wu] - 1 ELSE procQueue[wu]]

(* pushURLScript: a URL with a record of whatever status is never queued   *)
(* again.                                                                  *)
PushURL(u, parent) ==
  IF Known(u) THEN UNCHANGED frontierVars
  ELSE /\ queue' = Append(queue, u)
       /\ urlStatus' = [urlStatus EXCEPT ![u] =
                          [status |-> "Queued", worker |-> NoWorker,
                           try |-> 0, parent |-> parent]]
       /\ fresh' = fresh \ {u}
       /\ UNCHANGED <<retry, due, index, procQueue>>

(* popURLScript.  The LMOVE comes before the record is read: for a URL     *)
(* without one cjson.decode aborts the script, and the move stays.         *)
PopURL(w) ==
  /\ queue # <<>>
  /\ Known(Head(queue))
  /\ LET u == Head(queue) IN
       /\ queue' = Tail(queue)
       /\ procQueue' = [procQueue EXCEPT ![<<w, u>>] = @ + 1]
       /\ urlStatus' = [urlStatus EXCEPT ![u].status = "Processing",
                                         ![u].worker = w]
       /\ index' = index \cup {u}
       /\ fresh' = fresh \cup {u}
  /\ UNCHANGED <<retry, due>>

PopUnknownURL(w) ==
  /\ queue # <<>>
  /\ ~Known(Head(queue))
  /\ queue' = Tail(queue)
  /\ procQueue' = [procQueue EXCEPT ![<<w, Head(queue)>>] = @ + 1]
  /\ UNCHANGED <<retry, due, urlStatus, index, fresh>>

(* retryURLScript.  It releases the URL from whichever worker the record   *)
(* names, the caller or not.  ZADD moves an existing member to the new     *)
(* score.                                                                  *)
RetryURL(u) ==
  /\ Known(u)
  /\ urlStatus' = [urlStatus EXCEPT ![u].status = "Retry", ![u].try = @ + 1]
  /\ procQueue' = LRemOne(Owner(u), u)
  /\ index' = index \ {u}
  /\ retry' = retry \cup {u}
  /\ due' = due \ {u}
  /\ UNCHANGED <<queue, fresh>>

(* markProcessedScript. *)
MarkProcessed(u, status) ==
  /\ Known(u)
  /\ urlStatus' = [urlStatus EXCEPT ![u].status = status]
  /\ procQueue' = LRemOne(Owner(u), u)
  /\ index' = index \ {u}
  /\ UNCHANGED <<queue, retry, due, fresh>>

(* recoverScript: it queues the URL whatever its status is by now.  A      *)
(* missing record is recreated with try 0, no worker and no parent field,  *)
(* which is Unknown with the status set.                                   *)
RecoverURL(u) ==
  /\ urlStatus' = [urlStatus EXCEPT ![u].status = "Queued"]
  /\ procQueue' = LRemAll(Owner(u), u)
  /\ index' = index \ {u}
  /\ queue' = Append(queue, u)
  /\ UNCHANGED <<retry, due, fresh>>

(* enqueueURLsScript: every due URL goes to the queue in the order of the  *)
(* scores, which time alone fixed: any order.  A missing record is         *)
(* recreated with try 1.                                                   *)
Requeued(info) ==
  [info EXCEPT !.status = "Queued",
               !.try = IF info.status = "Absent" THEN 1 ELSE @]

ScoreOrders == {s \in [1 .. Cardinality(due) -> due] :
                  \A u \in due : \E i \in DOMAIN s : s[i] = u}

EnqueueURLs ==
  /\ \E s \in ScoreOrders : queue' = queue \o s
  /\ urlStatus' = [u \in URL |-> IF u \in due THEN Requeued(urlStatus[u])
                                 ELSE urlStatus[u]]
  /\ retry' = retry \ due
  /\ due' = {}
  /\ UNCHANGED <<index, procQueue, fresh>>

(* Time passes: a retry time is reached, a take-on becomes worrying.       *)
RetryBecomesDue(u) ==
  /\ u \in retry \ due
  /\ due' = due \cup {u}
  /\ UNCHANGED <<queue, retry, urlStatus, index, procQueue, fresh>>

LeaseExpires(u) ==
  /\ u \in fresh
  /\ fresh' = fresh \ {u}
  /\ UNCHANGED <<queue, retry, due, urlStatus, index, procQueue>>

-----------------------------------------------------------------------------
(* The most general client.  It recovers only URLs that have a record: the *)
(* health check takes them from the index, and without a reset no record   *)
(* disappears.                                                             *)
FrontierNext ==
  \/ \E u \in URL, p \in URL \cup {NoParent} : PushURL(u, p)
  \/ \E w \in Worker : PopURL(w)
  \/ \E u \in URL : RetryURL(u)
  \/ \E u \in URL, s \in Terminal : MarkProcessed(u, s)
  \/ \E u \in URL : Known(u) /\ RecoverURL(u)
  \/ EnqueueURLs
  \/ \E u \in URL : RetryBecomesDue(u)
  \/ \E u \in URL : LeaseExpires(u)

FrontierSpec == FrontierInit /\ [][FrontierNext]_frontierVars

-----------------------------------------------------------------------------
(* What the scripts promise together. *)

(* No URL is lost: a URL whose record says there is work left is where     *)
(* that work is picked up from, in the queue, in the index the health      *)
(* check scans, or in the retry set.                                       *)
NoURLLost ==
  \A u \in URL :
    /\ urlStatus[u].status = "Queued" => InQueue(u)
    /\ urlStatus[u].status = "Processing" => u \in index
    /\ urlStatus[u].status = "Retry" => u \in retry

(* A URL under processing is on the list of the worker its record names,   *)
(* so the LREM of the next script finds it; and a URL that has an outcome  *)
(* or waits for its retry is not under processing, so the health check     *)
(* leaves it alone.                                                        *)
IndexOwned ==
  \A u \in index : /\ Owner(u) \in Worker
                   /\ procQueue[<<Owner(u), u>>] > 0
                   /\ urlStatus[u].status \in {"Processing", "Queued"}

(* Everything a take-on can return has a complete record: popURLScript     *)
(* finds it, and vals[2].(string) in Queue.TakeOn does not panic on a      *)
(* missing parent.                                                         *)
RecordsComplete ==
  \A u \in URL :
    /\ InQueue(u) \/ u \in retry \cup index => Known(u)
    /\ Known(u) => urlStatus[u].parent # NilParent

(* The attempt counter of a URL never goes back and its parent is never    *)
(* rewritten, so neither a recovery nor a duplicate gives a URL its        *)
(* retries back or moves it in the link graph.                             *)
HistoryStep ==
  \A u \in URL : Known(u) => /\ Known(u)'
                            /\ urlStatus'[u].try >= urlStatus[u].try
                            /\ urlStatus'[u].parent = urlStatus[u].parent

HistoryKept == [][HistoryStep]_frontierVars
=============================================================================
