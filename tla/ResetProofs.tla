----------------------------- MODULE ResetProofs -----------------------------
(***************************************************************************)
(* What a reset under a running crawl leaves true, for any number of       *)
(* requests that overlap with each other, with executions, health checks,  *)
(* lost replies and crashes; for any web.                                  *)
(***************************************************************************)
EXTENDS Reset, CrawlerProofs

-----------------------------------------------------------------------------
(* The inductive invariant.  Of CrawlerInv only the types survive a reset: *)
(* an execution and the health check hold what no longer has a record.     *)

\* What an execution pushes as a parent is stored.
PageStored(e) == pc[e] \in {"link", "push"} => Page(e) \in pages

Recorded == \E u \in URL : Known(u)
Emptied  == \A u \in URL : ~InQueue(u) /\ u \notin retry /\ u \notin index

\* A record that is made anew starts without a parent.
BlankRecords == \A u \in URL : ~Known(u) => urlStatus[u].parent = NilParent

\* Outside the time between a DEL and the seed nothing is in the cache
\* without a status hash, so a SCAN there that finds a queue finds that too.
ScannedWhole(r) ==
  handler[r] = "delete" =>
    keys[r] \cap {"queue", "retry", "index"} = {} \/ "status" \in keys[r]

SeedInv ==
  /\ ~unseeded => Recorded \/ Emptied
  /\ ~crossed => \A r \in Req : ScannedWhole(r)
  /\ NewCrawlLosesNoURL

HandlerOK == /\ handler \in [Req -> Command \cup {"none"}]
             /\ keys \in [Req -> SUBSET Key]
             /\ unseeded \in BOOLEAN
             /\ crossed \in BOOLEAN

ResetInv == /\ HeldTypes
            /\ HandlerOK
            /\ BlankRecords
            /\ ParentStored
            /\ \A e \in Exec : PageStored(e)
            /\ SeedInv

(* The scripts a step runs, whoever calls them. *)
AnyScript ==
  \/ UNCHANGED frontierVars
  \/ EnqueueURLs
  \/ \E w \in Worker : PopURL(w) \/ PopUnknownURL(w)
  \/ \E u \in URL : \/ RetryURL(u) \/ RecoverURL(u)
                    \/ RetryBecomesDue(u) \/ LeaseExpires(u)
  \/ \E u \in URL, s \in Terminal : MarkProcessed(u, s)
  \/ \E u \in URL : PushURL(u, NoParent)
  \/ \E u \in URL, e \in Exec : /\ pc[e] = "push" /\ Page(e) \in URL
                               /\ PushURL(u, Page(e))

-----------------------------------------------------------------------------
LEMMA CrawlScripts ==
  ASSUME HeldTypes, [Next]_vars PROVE AnyScript
<1> USE DEF AnyScript
<1>0. /\ WorkerOf \in [Exec -> Worker]
      /\ doomed \in URL \cup {NoURL}
  BY ExecAssumption DEF HeldTypes, OwnTypeOK
<1>1. ASSUME NEW e \in Exec, ExecStep(e) PROVE AnyScript
  <2>1. CASE Execute(e)
    BY <2>1 DEF Execute
  <2>2. CASE TakeOn(e)
    BY <2>2, <1>0 DEF TakeOn
  <2>3. CASE QueueEmpty(e) \/ Fetch(e) \/ SavePage(e) \/ SaveLink(e)
             \/ PushDone(e) \/ URLNotFound(e) \/ DeadContext(e)
    BY <2>3 DEF QueueEmpty, Fetch, SavePage, SaveLink, PushDone, URLNotFound,
                DeadContext
  <2>4. CASE Retry(e)
    BY <2>4, TypedURLs DEF Retry, At, Idle
  <2>5. CASE PushLink(e)
    BY <2>5, TypedURLs DEF PushLink, At, Idle, HeldTypes, OwnTypeOK
  <2>6. CASE MarkDone(e)
    BY <2>6, TypedURLs DEF MarkDone, At, Terminal, Idle
  <2>7. CASE MarkTerminal(e)
    BY <2>7, TypedURLs DEF MarkTerminal, Verdict, Terminal, Idle
  <2> QED
    BY <1>1, <2>1, <2>2, <2>3, <2>4, <2>5, <2>6, <2>7 DEF ExecStep, Returns
<1>2. CASE HealthCheck \/ LostRecover \/ HealthCheckFails
  BY <1>0, <1>2 DEF HealthCheck, ScanIndex, CheckRecord, Recover, LostRecover,
                    HealthCheckFails
<1>3. CASE Start
  BY <1>3, WebAssumption DEF Start
<1>4. CASE \E u \in URL : RetryTime(u) \/ LeaseTime(u) \/ LeaseTimeInScan(u)
  BY <1>4 DEF RetryTime, LeaseTime, LeaseTimeInScan
<1>5. ASSUME NEW e \in Exec,
             Expire(e) \/ CallFails(e) \/ LostPipeline(e) \/ LostWrite(e)
      PROVE  AnyScript
  BY <1>5 DEF Expire, CallFails, LostPipeline, LostWrite
<1>6. ASSUME NEW e \in Exec, LostScript(e) PROVE AnyScript
  <2>1. CASE At(e, "take") /\ PopURL(WorkerOf[e])
    BY <2>1, <1>0
  <2>2. CASE At(e, "retry") /\ RetryURL(Url(e))
    BY <2>2, TypedURLs DEF At, Idle
  <2>3. CASE At(e, "done") /\ MarkProcessed(Url(e), "Done")
    BY <2>3, TypedURLs DEF At, Terminal, Idle
  <2>4. CASE pc[e] \in {"manual", "giveUp"} /\ MarkProcessed(Url(e), Verdict(e))
    BY <2>4, TypedURLs DEF Verdict, Terminal, Idle
  <2> QED
    BY <1>6, <2>1, <2>2, <2>3, <2>4 DEF LostScript
<1>7. CASE Crash \/ UNCHANGED vars
  BY <1>7 DEF Crash, vars
<1> QED
  BY <1>1, <1>2, <1>3, <1>4, <1>5, <1>6, <1>7
     DEF Next, Progress, Disturbance

-----------------------------------------------------------------------------
(* What a script does to the record of a URL and to the structures it is   *)
(* in, also where the record is missing.                                   *)

LEMMA ScriptTypes ==
  ASSUME FrontierTypeOK, AnyScript PROVE FrontierTypeOK'
<1>0. /\ queue \in Seq(URL) /\ retry \in SUBSET URL /\ due \in SUBSET retry
      /\ urlStatus \in [URL -> URLInfo] /\ index \in SUBSET URL
      /\ procQueue \in [Worker \X URL -> Nat] /\ fresh \in SUBSET URL
  BY DEF FrontierTypeOK
<1>1. ASSUME NEW w \in Worker, PopURL(w) \/ PopUnknownURL(w)
      PROVE  FrontierTypeOK'
  <2> DEFINE u == Head(queue)
  <2>1. u \in URL /\ Tail(queue) \in Seq(URL) /\ queue' = Tail(queue)
    BY <1>0, <1>1, TailMembers DEF PopURL, PopUnknownURL
  <2>2. procQueue' = [procQueue EXCEPT ![<<w, u>>] = @ + 1]
    BY <1>1 DEF PopURL, PopUnknownURL
  <2>3. procQueue' \in [Worker \X URL -> Nat]
    <3>1. <<w, u>> \in Worker \X URL /\ procQueue[<<w, u>>] + 1 \in Nat
      BY <1>0, <2>1
    <3> HIDE DEF u
    <3> QED
      BY <1>0, <2>2, <3>1
  <2>4. CASE PopURL(w)
    <3>1. urlStatus' \in [URL -> URLInfo]
      <4>1. urlStatus' = [urlStatus EXCEPT ![u].status = "Processing",
                                           ![u].worker = w]
        BY <2>4 DEF PopURL
      <4>2. [urlStatus[u] EXCEPT !.status = "Processing", !.worker = w] \in URLInfo
        BY <1>0, <2>1 DEF URLInfo, Status
      <4> HIDE DEF u
      <4> QED
        BY <1>0, <2>1, <4>1, <4>2
    <3> QED
      BY <1>0, <2>1, <2>3, <2>4, <3>1 DEF PopURL, FrontierTypeOK
  <2>5. CASE PopUnknownURL(w)
    BY <1>0, <2>1, <2>3, <2>5 DEF PopUnknownURL, FrontierTypeOK
  <2> QED
    BY <1>1, <2>4, <2>5
<1>2. ASSUME NEW u \in URL, RetryURL(u) PROVE FrontierTypeOK'
  <2>1. urlStatus' \in [URL -> URLInfo]
    BY <1>0, <1>2 DEF RetryURL, URLInfo, Status
  <2> QED
    BY <1>0, <1>2, <2>1, LRemKeepsOthers DEF RetryURL, FrontierTypeOK
<1>3. ASSUME NEW u \in URL, RecoverURL(u) PROVE FrontierTypeOK'
  <2>1. urlStatus' \in [URL -> URLInfo]
    BY <1>0, <1>3, StatusChange DEF RecoverURL, Status
  <2> QED
    BY <1>0, <1>3, <2>1, AppendMembers, LRemKeepsOthers DEF RecoverURL, FrontierTypeOK
<1>4. ASSUME NEW u \in URL, NEW s \in Terminal, MarkProcessed(u, s)
      PROVE  FrontierTypeOK'
  <2>1. urlStatus' \in [URL -> URLInfo]
    BY <1>0, <1>4, StatusChange DEF MarkProcessed, Status
  <2> QED
    BY <1>0, <1>4, <2>1, LRemKeepsOthers DEF MarkProcessed, FrontierTypeOK
<1>5. ASSUME NEW u \in URL, NEW p \in URL \cup {NoParent}, PushURL(u, p)
      PROVE  FrontierTypeOK'
  <2>1. CASE Known(u)
    BY <1>0, <1>5, <2>1 DEF PushURL, frontierVars, FrontierTypeOK
  <2>2. CASE ~Known(u)
    <3>1. [status |-> "Queued", worker |-> NoWorker, try |-> 0, parent |-> p]
            \in URLInfo
      BY DEF URLInfo, Status
    <3>2. urlStatus' \in [URL -> URLInfo]
      BY <1>0, <1>5, <2>2, <3>1 DEF PushURL
    <3> QED
      BY <1>0, <1>5, <2>2, <3>2, AppendMembers DEF PushURL, FrontierTypeOK
  <2> QED
    BY <2>1, <2>2
<1>6. CASE EnqueueURLs
  <2>1. PICK s \in ScoreOrders : queue' = queue \o s
    BY <1>6 DEF EnqueueURLs
  <2>2. s \in Seq(URL)
    BY <1>0, OrdersMembers
  <2>3. queue' \in Seq(URL)
    BY <1>0, <2>1, <2>2, ConcatMembers
  <2>4. urlStatus' \in [URL -> URLInfo]
    <3>1. \A u \in URL : urlStatus[u] \in URLInfo
      BY <1>0
    <3>2. \A info \in URLInfo : Requeued(info) \in URLInfo
      BY DEF Requeued, URLInfo, Status
    <3> QED
      BY <1>6, <3>1, <3>2 DEF EnqueueURLs
  <2> QED
    BY <1>0, <1>6, <2>3, <2>4 DEF EnqueueURLs, FrontierTypeOK
<1>7. CASE \E u \in URL : RetryBecomesDue(u) \/ LeaseExpires(u)
  BY <1>0, <1>7 DEF RetryBecomesDue, LeaseExpires, FrontierTypeOK
<1>8. CASE UNCHANGED frontierVars
  BY <1>0, <1>8 DEF frontierVars, FrontierTypeOK
<1> QED
  BY <1>1, <1>2, <1>3, <1>4, <1>5, <1>6, <1>7, <1>8 DEF AnyScript

(* One record: a script leaves it, changes another field than the parent,  *)
(* or makes it with the parent it was pushed with.                         *)
RecordStep(v) ==
  \/ urlStatus'[v] = urlStatus[v]
  \/ /\ urlStatus'[v].status # "Absent"
     /\ \/ urlStatus'[v].parent = urlStatus[v].parent
        \/ ~Known(v) /\ \/ urlStatus'[v].parent = NoParent
                        \/ \E e \in Exec : /\ pc[e] = "push"
                                           /\ urlStatus'[v].parent = Page(e)

LEMMA RecordSteps ==
  ASSUME FrontierTypeOK, AnyScript, NEW v \in URL PROVE RecordStep(v)
<1>0. /\ urlStatus \in [URL -> URLInfo] /\ urlStatus[v] \in URLInfo
      /\ queue \in Seq(URL)
  BY DEF FrontierTypeOK
<1> USE DEF RecordStep
<1>1. ASSUME NEW u \in URL, NEW s \in Status,
             urlStatus' = [urlStatus EXCEPT ![u].status = s]
      PROVE  RecordStep(v)
  BY <1>0, <1>1, StatusChange DEF Status, Terminal
<1>2. CASE UNCHANGED frontierVars \/ \E u \in URL : RetryBecomesDue(u) \/ LeaseExpires(u)
  BY <1>2 DEF frontierVars, RetryBecomesDue, LeaseExpires
<1>3. CASE EnqueueURLs
  <2>1. urlStatus'[v] = IF v \in due THEN Requeued(urlStatus[v]) ELSE urlStatus[v]
    BY <1>3 DEF EnqueueURLs
  <2>2. /\ Requeued(urlStatus[v]).status = "Queued"
        /\ Requeued(urlStatus[v]).parent = urlStatus[v].parent
    BY <1>0 DEF Requeued, URLInfo
  <2> QED
    BY <2>1, <2>2
<1>4. CASE \E w \in Worker : PopURL(w)
  <2>1. PICK w \in Worker : PopURL(w)
    BY <1>4
  <2> DEFINE u == Head(queue)
  <2>2. urlStatus' = [urlStatus EXCEPT ![u].status = "Processing", ![u].worker = w]
    BY <2>1 DEF PopURL
  <2> HIDE DEF u
  <2> QED
    BY <1>0, <2>2 DEF URLInfo
<1>5. CASE \E w \in Worker : PopUnknownURL(w)
  BY <1>5 DEF PopUnknownURL
<1>6. CASE \E u \in URL : RetryURL(u)
  BY <1>0, <1>6 DEF RetryURL, URLInfo
<1>7. CASE \E u \in URL : RecoverURL(u)
  BY <1>1, <1>7 DEF RecoverURL, Status
<1>8. CASE \E u \in URL, s \in Terminal : MarkProcessed(u, s)
  BY <1>1, <1>8 DEF MarkProcessed, Status
<1>9. ASSUME NEW u \in URL, NEW p, PushURL(u, p)
      PROVE  \/ urlStatus'[v] = urlStatus[v]
             \/ ~Known(v) /\ urlStatus'[v].status # "Absent" /\ urlStatus'[v].parent = p
  BY <1>0, <1>9 DEF PushURL, frontierVars
<1>10. CASE \E u \in URL : PushURL(u, NoParent)
  BY <1>9, <1>10
<1>11. CASE \E u \in URL, e \in Exec : /\ pc[e] = "push" /\ Page(e) \in URL
                                      /\ PushURL(u, Page(e))
  BY <1>9, <1>11
<1> QED
  BY <1>2, <1>3, <1>4, <1>5, <1>6, <1>7, <1>8, <1>10, <1>11 DEF AnyScript

(* No script loses a URL, whether or not the records it meets are there.   *)
LEMMA ScriptLosesNone ==
  ASSUME FrontierTypeOK, NoURLLost, AnyScript PROVE NoURLLost'
<1> DEFINE Placed(v) == /\ urlStatus'[v].status = "Queued" => InQueue(v)'
                        /\ urlStatus'[v].status = "Processing" => v \in index'
                        /\ urlStatus'[v].status = "Retry" => v \in retry'
<1> SUFFICES ASSUME NEW v \in URL PROVE Placed(v)
  BY DEF NoURLLost
<1>0. /\ urlStatus \in [URL -> URLInfo] /\ urlStatus[v] \in URLInfo
      /\ queue \in Seq(URL) /\ due \in SUBSET URL /\ due \subseteq retry
      /\ urlStatus[v].status = "Queued" => InQueue(v)
      /\ urlStatus[v].status = "Processing" => v \in index
      /\ urlStatus[v].status = "Retry" => v \in retry
  BY DEF FrontierTypeOK, NoURLLost
<1>q. /\ InQueue(v) <=> Holds(queue, v)
      /\ InQueue(v)' <=> Holds(queue', v)
  BY DEF InQueue, Holds
<1>1. CASE UNCHANGED frontierVars \/ \E u \in URL : RetryBecomesDue(u) \/ LeaseExpires(u)
  BY <1>0, <1>1 DEF frontierVars, RetryBecomesDue, LeaseExpires, InQueue
<1>2. CASE EnqueueURLs
  <2>1. PICK s \in ScoreOrders : queue' = queue \o s
    BY <1>2 DEF EnqueueURLs
  <2>2. Holds(queue', v) <=> Holds(queue, v) \/ v \in due
    BY <1>0, <2>1, OrdersMembers, ConcatMembers
  <2>3. urlStatus'[v] = IF v \in due THEN Requeued(urlStatus[v]) ELSE urlStatus[v]
    BY <1>2 DEF EnqueueURLs
  <2>4. Requeued(urlStatus[v]).status = "Queued"
    BY <1>0 DEF Requeued, URLInfo
  <2> QED
    BY <1>0, <1>q, <1>2, <2>2, <2>3, <2>4 DEF EnqueueURLs
<1>3. ASSUME NEW w \in Worker, PopURL(w) \/ PopUnknownURL(w) PROVE Placed(v)
  <2> DEFINE u == Head(queue)
  <2>1. queue # <<>> /\ queue' = Tail(queue)
    BY <1>3 DEF PopURL, PopUnknownURL
  <2>2. v # u /\ InQueue(v) => InQueue(v)'
    BY <1>0, <1>q, <2>1, TailMembers
  <2>3. CASE PopURL(w)
    <3>1. /\ urlStatus' = [urlStatus EXCEPT ![u].status = "Processing",
                                            ![u].worker = w]
          /\ index' = index \cup {u} /\ retry' = retry
      BY <2>3 DEF PopURL
    <3> HIDE DEF u
    <3>2. v # u => urlStatus'[v] = urlStatus[v]
      BY <1>0, <3>1
    <3>3. v = u => urlStatus'[v].status = "Processing"
      BY <1>0, <3>1 DEF URLInfo
    <3> QED
      BY <1>0, <2>2, <3>1, <3>2, <3>3
  <2>4. CASE PopUnknownURL(w)
    <3>1. ~Known(u) /\ UNCHANGED <<urlStatus, index, retry>>
      BY <2>4 DEF PopUnknownURL
    <3> QED
      BY <1>0, <2>2, <3>1 DEF Known
  <2> QED
    BY <1>3, <2>3, <2>4
<1>4. ASSUME NEW u \in URL, RetryURL(u) PROVE Placed(v)
  <2>1. /\ urlStatus' = [urlStatus EXCEPT ![u].status = "Retry", ![u].try = @ + 1]
        /\ index' = index \ {u} /\ retry' = retry \cup {u} /\ queue' = queue
    BY <1>4 DEF RetryURL
  <2>2. CASE v = u
    <3>1. urlStatus'[v].status = "Retry"
      BY <1>0, <2>1, <2>2 DEF URLInfo
    <3> QED
      BY <2>1, <2>2, <3>1
  <2>3. CASE v # u
    BY <1>0, <1>q, <2>1, <2>3
  <2> QED
    BY <2>2, <2>3
<1>5. ASSUME NEW u \in URL, RecoverURL(u) PROVE Placed(v)
  <2>1. /\ urlStatus' = [urlStatus EXCEPT ![u].status = "Queued"]
        /\ index' = index \ {u} /\ retry' = retry
        /\ queue' = Append(queue, u)
    BY <1>5 DEF RecoverURL
  <2>2. Holds(queue', v) <=> v = u \/ Holds(queue, v)
    BY <1>0, <2>1, AppendMembers
  <2>3. CASE v = u
    <3>1. urlStatus'[v].status = "Queued"
      BY <1>0, <2>1, <2>3 DEF URLInfo
    <3> QED
      BY <1>q, <2>2, <2>3, <3>1
  <2>4. CASE v # u
    BY <1>0, <1>q, <2>1, <2>2, <2>4
  <2> QED
    BY <2>3, <2>4
<1>6. ASSUME NEW u \in URL, NEW s \in Terminal, MarkProcessed(u, s) PROVE Placed(v)
  <2>1. /\ urlStatus' = [urlStatus EXCEPT ![u].status = s]
        /\ index' = index \ {u} /\ retry' = retry /\ queue' = queue
    BY <1>6 DEF MarkProcessed
  <2>2. CASE v = u
    <3>1. urlStatus'[v].status \in Terminal
      BY <1>0, <2>1, <2>2 DEF URLInfo
    <3> QED
      BY <3>1 DEF Terminal
  <2>3. CASE v # u
    BY <1>0, <1>q, <2>1, <2>3
  <2> QED
    BY <2>2, <2>3
<1>7. ASSUME NEW u \in URL, NEW p, PushURL(u, p) PROVE Placed(v)
  <2>1. CASE Known(u)
    BY <1>0, <1>q, <1>7, <2>1 DEF PushURL, frontierVars
  <2>2. CASE ~Known(u)
    <3>1. /\ queue' = Append(queue, u) /\ retry' = retry /\ index' = index
          /\ v # u => urlStatus'[v] = urlStatus[v]
          /\ v = u => urlStatus'[v].status = "Queued"
      BY <1>0, <1>7, <2>2 DEF PushURL
    <3>2. Holds(queue', v) <=> v = u \/ Holds(queue, v)
      BY <1>0, <3>1, AppendMembers
    <3> QED
      BY <1>0, <1>q, <3>1, <3>2
  <2> QED
    BY <2>1, <2>2
<1> QED
  BY <1>1, <1>2, <1>3, <1>4, <1>5, <1>6, <1>7 DEF AnyScript

(* Nothing comes back into an empty cache but with a record. *)
LEMMA ScriptRecords ==
  ASSUME FrontierTypeOK, AnyScript, Recorded \/ Emptied
  PROVE  Recorded' \/ Emptied'
<1>0. /\ urlStatus \in [URL -> URLInfo]
      /\ queue \in Seq(URL) /\ due \in SUBSET URL /\ due \subseteq retry
  BY DEF FrontierTypeOK
<1>1. ASSUME NEW v \in URL, Known(v) PROVE Recorded'
  <2>1. urlStatus'[v].status # "Absent"
    BY <1>1, RecordSteps DEF RecordStep, Known
  <2> QED
    BY <2>1 DEF Recorded, Known
<1>2. ASSUME NEW v \in URL, urlStatus'[v].status # "Absent" PROVE Recorded'
  BY <1>2 DEF Recorded, Known
<1>3. CASE Emptied
  <2>1. CASE UNCHANGED frontierVars
    BY <1>3, <2>1 DEF Emptied, InQueue, frontierVars
  <2>2. CASE EnqueueURLs
    <3>1. PICK s \in ScoreOrders : queue' = queue \o s
      BY <2>2 DEF EnqueueURLs
    <3>2. due = {}
      BY <1>0, <1>3 DEF Emptied
    <3>3. \A v \in URL : Holds(queue', v) => Holds(queue, v)
      BY <1>0, <3>1, <3>2, OrdersMembers, ConcatMembers
    <3>4. retry' \subseteq retry /\ index' = index
      BY <2>2 DEF EnqueueURLs
    <3> QED
      BY <1>3, <3>3, <3>4 DEF Emptied, InQueue, Holds
  <2>3. CASE \E w \in Worker : PopURL(w) \/ PopUnknownURL(w)
    <3>1. queue # <<>>
      BY <2>3 DEF PopURL, PopUnknownURL
    <3>2. queue[1] \in URL /\ 1 \in DOMAIN queue
      BY <1>0, <3>1
    <3> QED
      BY <1>3, <3>2 DEF Emptied, InQueue
  <2>4. CASE \E u \in URL : RetryBecomesDue(u)
    BY <1>3, <2>4 DEF RetryBecomesDue, Emptied
  <2>5. CASE \E u \in URL : LeaseExpires(u)
    BY <1>3, <2>5 DEF LeaseExpires, Emptied, InQueue
  <2>6. ASSUME NEW u \in URL, RetryURL(u) PROVE Recorded'
    BY <1>1, <2>6 DEF RetryURL
  <2>7. ASSUME NEW u \in URL, RecoverURL(u) PROVE Recorded'
    <3>1. urlStatus'[u].status = "Queued"
      BY <1>0, <2>7 DEF RecoverURL, URLInfo
    <3> QED
      BY <1>2, <3>1
  <2>8. ASSUME NEW u \in URL, NEW s, MarkProcessed(u, s) PROVE Recorded'
    BY <1>1, <2>8 DEF MarkProcessed
  <2>9. ASSUME NEW u \in URL, NEW p, PushURL(u, p) PROVE Recorded'
    <3>1. CASE Known(u)
      BY <1>1, <3>1
    <3>2. CASE ~Known(u)
      <4>1. urlStatus'[u].status = "Queued"
        BY <1>0, <2>9, <3>2 DEF PushURL
      <4> QED
        BY <1>2, <4>1
    <3> QED
      BY <3>1, <3>2
  <2> QED
    BY <2>1, <2>2, <2>3, <2>4, <2>5, <2>6, <2>7, <2>8, <2>9 DEF AnyScript
<1> QED
  BY <1>1, <1>3 DEF Recorded
-----------------------------------------------------------------------------
(* The steps of the specification: one of the crawler's own, a take-on     *)
(* that panics, or a command of the handler.                               *)

CrawlStep == /\ [Next]_vars
             /\ UNCHANGED handlerVars
             /\ \A f \in Exec : job'[f].parent # NilParent

HandlerStep == \E r \in Req : Request(r) \/ Handles(r) \/ RequestFails(r)

LEMMA OtherJobs ==
  ASSUME OwnTypeOK, NEW e \in Exec, ExecStep(e), NEW f \in Exec, f # e
  PROVE  job'[f] \in {job[f], NoJob}
<1>1. ASSUME NEW next, Proceed(e, next) PROVE job'[f] \in {job[f], NoJob}
  BY <1>1 DEF Proceed, OwnTypeOK
<1>2. CASE Execute(e) \/ PushLink(e)
  BY <1>2 DEF Execute, PushLink, execs
<1>3. CASE TakeOn(e)
  BY <1>3 DEF TakeOn, OwnTypeOK
<1>4. CASE QueueEmpty(e) \/ Fetch(e) \/ Retry(e) \/ SavePage(e) \/ SaveLink(e)
  BY <1>1, <1>4 DEF QueueEmpty, Fetch, Retry, SavePage, SaveLink
<1>5. CASE PushDone(e) \/ MarkDone(e) \/ MarkTerminal(e) \/ URLNotFound(e)
           \/ DeadContext(e)
  BY <1>1, <1>5 DEF PushDone, MarkDone, MarkTerminal, URLNotFound, DeadContext
<1> QED
  BY <1>2, <1>3, <1>4, <1>5 DEF ExecStep, Returns

LEMMA QuietJobs ==
  ASSUME OwnTypeOK, NEW f \in Exec,
         \/ HealthCheck \/ Start \/ Disturbance \/ UNCHANGED vars
         \/ \E u \in URL : RetryTime(u) \/ LeaseTime(u)
         \/ \E e \in Exec : Execute(e) \/ Fetch(e)
  PROVE  job'[f] \in {job[f], NoJob}
<1>1. ASSUME NEW e \in Exec, NEW next, Proceed(e, next)
      PROVE  job'[f] \in {job[f], NoJob}
  BY <1>1 DEF Proceed, OwnTypeOK
<1>2. CASE HealthCheck \/ Start \/ UNCHANGED vars
           \/ \E u \in URL : RetryTime(u) \/ LeaseTime(u)
  BY <1>2 DEF HealthCheck, ScanIndex, CheckRecord, Recover, Start, RetryTime,
              LeaseTime, vars, execs
<1>3. CASE Disturbance
  <2>1. CASE \E e \in Exec : \/ Expire(e) \/ CallFails(e)
                           \/ LostScript(e) \/ LostPipeline(e) \/ LostWrite(e)
    BY <1>1, <2>1 DEF Expire, CallFails, LostScript, LostPipeline, LostWrite,
                      execs
  <2>2. CASE \/ \E u \in URL : LeaseTimeInScan(u)
             \/ HealthCheckFails \/ LostRecover \/ Crash
    BY <2>2 DEF LeaseTimeInScan, HealthCheckFails, LostRecover, Crash, execs
  <2> QED
    BY <1>3, <2>1, <2>2 DEF Disturbance
<1>4. CASE \E e \in Exec : Execute(e) \/ Fetch(e)
  BY <1>1, <1>4 DEF Execute, Fetch
<1> QED
  BY <1>2, <1>3, <1>4

LEMMA ResetSteps ==
  ASSUME HeldTypes, [ResetNext]_resetVars
  PROVE  CrawlStep \/ HandlerStep \/ \E e \in Exec : TakeOnFails(e)
<1>0. \A f \in Exec : job[f].parent # NilParent /\ NoJob.parent # NilParent
  BY ParentAssumption DEF HeldTypes, OwnTypeOK, Job, NoJob
<1>1. ASSUME NEW e \in Exec, Returns(e), TakesParent(e), UNCHANGED handlerVars
      PROVE  CrawlStep
  <2>1. \A f \in Exec : job'[f].parent # NilParent
    BY <1>0, <1>1, OtherJobs DEF TakesParent, HeldTypes, ExecStep
  <2> QED
    BY <1>1, <2>1 DEF CrawlStep, Next, Progress, ExecStep
<1>2. CASE /\ \/ HealthCheck \/ Start \/ Disturbance \/ UNCHANGED vars
              \/ \E u \in URL : RetryTime(u) \/ LeaseTime(u)
              \/ \E e \in Exec : Execute(e) \/ Fetch(e)
           /\ UNCHANGED handlerVars
  <2>1. \A f \in Exec : job'[f].parent # NilParent
    BY <1>0, <1>2, QuietJobs DEF HeldTypes
  <2> QED
    BY <1>2, <2>1 DEF CrawlStep, Next, Progress, ExecStep
<1>3. UNCHANGED resetVars => UNCHANGED vars /\ UNCHANGED handlerVars
  BY DEF resetVars, handlerVars
<1> QED
  BY <1>1, <1>2, <1>3 DEF ResetNext, ResetProgress, WorkerStep, WorkerReturns,
                              HandlerStep

-----------------------------------------------------------------------------
(* What holds after any script. *)
LEMMA ScriptKeeps ==
  ASSUME ResetInv, AnyScript, pages \subseteq pages'
  PROVE  /\ FrontierTypeOK' /\ BlankRecords' /\ ParentStored'
         /\ NoURLLost => NoURLLost'
         /\ Recorded \/ Emptied => Recorded' \/ Emptied'
<1>0. FrontierTypeOK
  BY DEF ResetInv, HeldTypes
<1>1. ASSUME NEW v \in URL
      PROVE  /\ urlStatus'[v].status = "Absent" => urlStatus'[v].parent = NilParent
             /\ /\ urlStatus'[v].status # "Absent"
                /\ urlStatus'[v].parent \in URL
                => urlStatus'[v].parent \in pages'
  <2>1. RecordStep(v)
    BY <1>0, RecordSteps
  <2>2. /\ urlStatus[v].status = "Absent" => urlStatus[v].parent = NilParent
        /\ /\ urlStatus[v].status # "Absent" /\ urlStatus[v].parent \in URL
           => urlStatus[v].parent \in pages
    BY DEF ResetInv, BlankRecords, ParentStored, Known
  <2>3. \A e \in Exec : pc[e] = "push" => Page(e) \in pages
    BY DEF ResetInv, PageStored
  <2> QED
    BY <2>1, <2>2, <2>3, ParentAssumption DEF RecordStep, Known
<1>2. BlankRecords' /\ ParentStored'
  BY <1>1 DEF BlankRecords, ParentStored, Known
<1> QED
  BY <1>0, <1>2, ScriptTypes, ScriptLosesNone, ScriptRecords

\* ... and after one that the handler did not send.
LEMMA OthersSeedInv ==
  ASSUME ResetInv, AnyScript, pages \subseteq pages', UNCHANGED handlerVars
  PROVE  HandlerOK' /\ SeedInv'
<1>1. /\ NoURLLost => NoURLLost'
      /\ Recorded \/ Emptied => Recorded' \/ Emptied'
  BY ScriptKeeps
<1> QED
  BY <1>1 DEF ResetInv, HandlerOK, SeedInv, ScannedWhole, NewCrawlLosesNoURL,
              handlerVars

LEMMA CrawlStepInv ==
  ASSUME ResetInv, CrawlStep PROVE ResetInv'
<1>1. /\ HeldTypes /\ OwnTypeOK /\ [Next]_vars /\ UNCHANGED handlerVars
      /\ AnyScript
      /\ pages \subseteq pages'
  BY CrawlScripts, TablesGrow DEF ResetInv, HeldTypes, CrawlStep
<1>2. /\ FrontierTypeOK' /\ BlankRecords' /\ ParentStored'
      /\ HandlerOK' /\ SeedInv'
  BY <1>1, ScriptKeeps, OthersSeedInv
<1>3. OwnTypeOK'
  BY <1>1, TypesKept DEF CrawlStep
<1>4. ASSUME NEW f \in Exec PROVE JobTyped(f)' /\ Sending(f)' /\ PageStored(f)'
  <2>1. /\ ExecMove(f) /\ JobTyped(f) /\ Sending(f) /\ PageStored(f)
        /\ job'[f] \in Job \cup {NoJob}
    BY <1>1, <1>3, Moves DEF ResetInv, HeldTypes, OwnTypeOK
  <2>2. job'[f].key \in URL => job'[f] \in Job
    BY <2>1, NoURLAssumption DEF NoJob
  <2>3. JobTyped(f)'
    <3>1. CASE queue # <<>> /\ job'[f].key = Head(queue)
      BY <1>1, <2>2, <3>1, TailMembers DEF HeldTypes, FrontierTypeOK, JobTyped
    <3> QED
      BY <2>1, <3>1 DEF ExecMove, JobTyped, Idle
  <2>4. job'[f] = job[f] => Page(f)' = Page(f)
    BY DEF Page, Url
  <2>5. PageStored(f)'
    BY <1>1, <2>1, <2>4 DEF ExecMove, PageStored, InsertPage, Idle
  <2> QED
    BY <2>1, <2>3, <2>5, SendingKept
<1> QED
  BY <1>2, <1>3, <1>4 DEF ResetInv, HeldTypes

LEMMA TakeFailsInv ==
  ASSUME ResetInv, NEW e \in Exec, TakeOnFails(e) PROVE ResetInv'
<1>0. WorkerOf[e] \in Worker
  BY ExecAssumption
<1>1. /\ AnyScript /\ UNCHANGED <<pages, links, scan, doomed>>
      /\ UNCHANGED handlerVars
      /\ Proceed(e, Idle) /\ OwnTypeOK
  BY <1>0 DEF TakeOnFails, AnyScript, ResetInv, HeldTypes, tables, reaper
<1>2. /\ FrontierTypeOK' /\ BlankRecords' /\ ParentStored'
      /\ HandlerOK' /\ SeedInv'
  BY <1>1, ScriptKeeps, OthersSeedInv
<1>3. /\ pc' \in [Exec -> Calls \cup {Idle}]
      /\ ctx' \in [Exec -> {"live", "late", "dead"}]
      /\ job' \in [Exec -> Job \cup {NoJob}]
      /\ pc'[e] = Idle
      /\ unsent' = [unsent EXCEPT ![e] = {}]
      /\ \A f \in Exec : f # e => /\ pc'[f] = pc[f] /\ job'[f] = job[f]
                                  /\ unsent'[f] = unsent[f]
  BY <1>1, ProceedMoves DEF Idle
<1>4. OwnTypeOK'
  <2>1. unsent' \in [Exec -> SUBSET URL]
    BY <1>1, <1>3 DEF OwnTypeOK
  <2> QED
    BY <1>1, <1>3, <2>1 DEF OwnTypeOK
<1>5. ASSUME NEW f \in Exec PROVE JobTyped(f)' /\ Sending(f)' /\ PageStored(f)'
  <2>1. JobTyped(f) /\ Sending(f) /\ PageStored(f)
    BY DEF ResetInv, HeldTypes
  <2>2. f # e => Page(f)' = Page(f)
    BY <1>3 DEF Page, Url
  <2> QED
    BY <1>1, <1>3, <2>1, <2>2 DEF JobTyped, Sending, PageStored, Idle
<1> QED
  BY <1>2, <1>4, <1>5 DEF ResetInv, HeldTypes
-----------------------------------------------------------------------------
(* The commands of the handler. *)

(* The DEL takes the status hash with whatever it takes of a cache that    *)
(* has one, or that is empty.                                              *)
LEMMA DeleteKeeps ==
  ASSUME ResetInv, NEW r \in Req, handler[r] = "delete", DeleteKeys(r),
         UNCHANGED tables
  PROVE  /\ FrontierTypeOK' /\ BlankRecords' /\ ParentStored'
         /\ ~crossed => NoURLLost'
         /\ (Recorded \/ Emptied) /\ keys[r] = {} => Recorded' \/ Emptied'
<1>0. /\ queue \in Seq(URL) /\ retry \in SUBSET URL /\ due \in SUBSET retry
      /\ urlStatus \in [URL -> URLInfo] /\ index \in SUBSET URL
      /\ procQueue \in [Worker \X URL -> Nat] /\ fresh \in SUBSET URL
  BY DEF ResetInv, HeldTypes, FrontierTypeOK
<1>1. \A u \in URL : \/ "status" \in keys[r] /\ urlStatus'[u] = Unknown
                     \/ "status" \notin keys[r] /\ urlStatus'[u] = urlStatus[u]
  BY DEF DeleteKeys
<1>2. FrontierTypeOK'
  <2>1. Unknown \in URLInfo
    BY DEF Unknown, URLInfo
  <2>2. urlStatus' \in [URL -> URLInfo]
    BY <1>0, <2>1 DEF DeleteKeys
  <2>3. procQueue' \in [Worker \X URL -> Nat]
    BY <1>0 DEF DeleteKeys
  <2>4. queue' \in Seq(URL)
    BY <1>0 DEF DeleteKeys
  <2>5. retry' \in SUBSET URL /\ due' \in SUBSET retry'
    BY <1>0 DEF DeleteKeys
  <2>6. index' \in SUBSET URL /\ fresh' \in SUBSET URL
    BY <1>0 DEF DeleteKeys
  <2> QED
    BY <2>2, <2>3, <2>4, <2>5, <2>6 DEF FrontierTypeOK
<1>3. BlankRecords' /\ ParentStored'
  BY <1>1, ParentAssumption
     DEF ResetInv, BlankRecords, ParentStored, Known, Unknown, tables
<1>4. ASSUME ~crossed PROVE NoURLLost'
  <2>1. CASE "status" \in keys[r]
    BY <1>1, <2>1 DEF NoURLLost, Unknown
  <2>2. CASE "status" \notin keys[r]
    <3>1. keys[r] \cap {"queue", "retry", "index"} = {} /\ NoURLLost
      BY <1>4, <2>2 DEF ResetInv, SeedInv, ScannedWhole, NewCrawlLosesNoURL
    <3>2. queue' = queue /\ retry' = retry /\ index' = index
      BY <3>1 DEF DeleteKeys
    <3> QED
      BY <1>1, <2>2, <3>1, <3>2 DEF NoURLLost, InQueue
  <2> QED
    BY <2>1, <2>2
<1>5. ASSUME keys[r] = {} PROVE UNCHANGED <<queue, retry, urlStatus, index>>
  BY <1>5 DEF DeleteKeys
<1> QED
  BY <1>2, <1>3, <1>4, <1>5 DEF Recorded, Emptied, Known, InQueue

(* The seed has a record after its push, whether it had one before or not. *)
LEMMA SeedRecorded ==
  ASSUME FrontierTypeOK, NEW u \in URL, PushURL(u, NoParent)
  PROVE  AnyScript /\ Recorded'
<1>1. urlStatus \in [URL -> URLInfo]
  BY DEF FrontierTypeOK
<1>2. urlStatus'[u].status # "Absent"
  BY <1>1 DEF PushURL, Known, frontierVars
<1> QED
  BY <1>2 DEF AnyScript, Recorded, Known

(* A step of a handler keeps what the executions hold. *)
LEMMA HandlerKeepsHeld ==
  ASSUME ResetInv, UNCHANGED <<execs, tables, reaper>>
  PROVE  /\ OwnTypeOK'
         /\ \A e \in Exec : JobTyped(e)' /\ Sending(e)' /\ PageStored(e)'
<1>1. OwnTypeOK'
  BY DEF ResetInv, HeldTypes, OwnTypeOK, execs, tables, reaper
<1>2. ASSUME NEW e \in Exec PROVE JobTyped(e)' /\ Sending(e)' /\ PageStored(e)'
  BY DEF ResetInv, HeldTypes, JobTyped, Sending, PageStored, Page, Url, execs,
         tables
<1> QED
  BY <1>1, <1>2

(* One handler moves, to another command with other keys. *)
LEMMA GoesMoves ==
  ASSUME HandlerOK, NEW r \in Req, NEW command \in Command \cup {"none"},
         NEW found \in SUBSET Key, Goes(r, command, found)
  PROVE  /\ handler' \in [Req -> Command \cup {"none"}]
         /\ keys' \in [Req -> SUBSET Key]
         /\ handler'[r] = command /\ keys'[r] = found
         /\ \A q \in Req : q # r => handler'[q] = handler[q] /\ keys'[q] = keys[q]
         /\ /\ command = "delete" =>
                 \/ found \cap {"queue", "retry", "index"} = {}
                 \/ "status" \in found
            /\ \A q \in Req : ScannedWhole(q)
            => \A q \in Req : ScannedWhole(q)'
BY DEF HandlerOK, Goes, ScannedWhole

LEMMA HandlerStepInv ==
  ASSUME ResetInv, HandlerStep PROVE ResetInv'
<1> PICK r \in Req : Request(r) \/ Handles(r) \/ RequestFails(r)
  BY DEF HandlerStep
<1>0. HandlerOK /\ SeedInv /\ FrontierTypeOK
  BY DEF ResetInv, HeldTypes
<1>1. UNCHANGED <<execs, tables, reaper>>
  BY DEF Handles, Request, Scan, Delete, Seed, RequestFails, vars, execs,
         tables, reaper
<1>2. OwnTypeOK' /\ \A e \in Exec : JobTyped(e)' /\ Sending(e)' /\ PageStored(e)'
  BY <1>1, HandlerKeepsHeld
<1> SUFFICES /\ FrontierTypeOK' /\ BlankRecords' /\ ParentStored'
             /\ HandlerOK' /\ SeedInv'
  BY <1>2 DEF ResetInv, HeldTypes
<1> DEFINE Kept == /\ FrontierTypeOK' /\ BlankRecords' /\ ParentStored'
                   /\ NoURLLost => NoURLLost'
                   /\ Recorded \/ Emptied => Recorded' \/ Emptied'
           Wiped == /\ FrontierTypeOK' /\ BlankRecords' /\ ParentStored'
                    /\ ~crossed => NoURLLost'
                    /\ ~unseeded' => Recorded' \/ Emptied'
                    /\ unseeded' \in BOOLEAN
           Seeded == Kept /\ Recorded' /\ unseeded' = FALSE
<1>3. AnyScript => Kept
  BY <1>1, ScriptKeeps DEF tables
<1>4. UNCHANGED frontierVars => Kept
  BY <1>3 DEF AnyScript
<1>5. SeedsCrawl => Seeded
  <2> SUFFICES ASSUME SeedsCrawl PROVE Seeded
    OBVIOUS
  <2>1. PICK u \in Seeds : PushURL(u, NoParent)
    BY DEF SeedsCrawl
  <2>2. AnyScript /\ Recorded'
    BY <1>0, <2>1, SeedRecorded, WebAssumption
  <2> QED
    BY <1>3, <2>2 DEF SeedsCrawl
<1>6. handler[r] = "delete" /\ Wipes(r) => Wiped
  BY <1>0, <1>1, DeleteKeeps DEF Wipes, SeedInv, HandlerOK, tables
<1>7. ASSUME NEW command \in Command \cup {"none"}, command # "delete",
             Goes(r, command, {})
      PROVE  /\ handler' \in [Req -> Command \cup {"none"}]
             /\ keys' \in [Req -> SUBSET Key]
             /\ (\A q \in Req : ScannedWhole(q)) => \A q \in Req : ScannedWhole(q)'
  BY <1>0, <1>7, GoesMoves
<1> HIDE DEF Kept, Wiped, Seeded
<1>8. CASE Request(r)
  <2>1. Kept /\ Goes(r, "scan", {}) /\ UNCHANGED <<unseeded, crossed>>
    BY <1>4, <1>8 DEF Request, vars, frontierVars
  <2> QED
    BY <1>0, <1>7, <2>1 DEF Kept, Command, HandlerOK, SeedInv, NewCrawlLosesNoURL
<1>9. CASE Scan(r)
  <2> DEFINE found == {key \in Key : Exists(key)}
  <2>1. /\ Kept /\ Goes(r, "delete", found)
        /\ unseeded' = unseeded /\ crossed' = (crossed \/ unseeded)
    BY <1>4, <1>9 DEF Scan, vars, frontierVars
  <2>2. Recorded => "status" \in found
    BY DEF Key, Exists, Recorded
  <2>3. Emptied => found \cap {"queue", "retry", "index"} = {}
    <3> SUFFICES ASSUME Emptied PROVE found \cap {"queue", "retry", "index"} = {}
      OBVIOUS
    <3>1. retry = {} /\ index = {}
      BY <1>0 DEF Emptied, FrontierTypeOK
    <3>2. queue = <<>>
      <4> SUFFICES ASSUME queue # <<>> PROVE FALSE
        OBVIOUS
      <4>1. queue[1] \in URL /\ 1 \in DOMAIN queue
        BY <1>0 DEF FrontierTypeOK
      <4> QED
        BY <4>1 DEF Emptied, InQueue
    <3> QED
      BY <3>1, <3>2 DEF Exists
  <2>4. found \in SUBSET Key
    OBVIOUS
  <2> HIDE DEF found
  <2>5. /\ handler' \in [Req -> Command \cup {"none"}]
        /\ keys' \in [Req -> SUBSET Key]
        /\ (Recorded \/ Emptied) /\ (\A q \in Req : ScannedWhole(q))
             => \A q \in Req : ScannedWhole(q)'
    BY <1>0, <2>1, <2>2, <2>3, <2>4, GoesMoves DEF Command
  <2> QED
    BY <1>0, <2>1, <2>5 DEF Kept, HandlerOK, SeedInv, NewCrawlLosesNoURL
<1>10. CASE Delete(r)
  <2>1. Wiped /\ Goes(r, "start", {}) /\ UNCHANGED crossed
    BY <1>6, <1>10 DEF Delete
  <2> QED
    BY <1>0, <1>7, <2>1 DEF Wiped, Command, HandlerOK, SeedInv, NewCrawlLosesNoURL
<1>11. CASE Seed(r)
  <2>1. Seeded /\ Goes(r, "none", {}) /\ UNCHANGED crossed
    BY <1>5, <1>11 DEF Seed
  <2> QED
    BY <1>0, <1>7, <2>1 DEF Seeded, Kept, Command, HandlerOK, SeedInv,
                            NewCrawlLosesNoURL
<1>12. CASE RequestFails(r)
  <2>1. Goes(r, "none", {}) /\ UNCHANGED crossed
    BY <1>12 DEF RequestFails
  <2>2. /\ handler' \in [Req -> Command \cup {"none"}]
        /\ keys' \in [Req -> SUBSET Key]
        /\ (\A q \in Req : ScannedWhole(q)) => \A q \in Req : ScannedWhole(q)'
    BY <1>7, <2>1 DEF Command
  <2>3. CASE handler[r] = "delete" /\ Wipes(r)
    BY <1>0, <1>6, <2>1, <2>2, <2>3 DEF Wiped, HandlerOK, SeedInv,
                                        NewCrawlLosesNoURL
  <2>4. CASE SeedsCrawl
    BY <1>0, <1>5, <2>1, <2>2, <2>4 DEF Seeded, Kept, HandlerOK, SeedInv,
                                        NewCrawlLosesNoURL
  <2>5. CASE UNCHANGED <<frontierVars, unseeded>>
    BY <1>0, <1>4, <2>1, <2>2, <2>5 DEF Kept, HandlerOK, SeedInv,
                                        NewCrawlLosesNoURL
  <2> QED
    BY <1>12, <2>3, <2>4, <2>5 DEF RequestFails
<1> QED
  BY <1>8, <1>9, <1>10, <1>11, <1>12 DEF Handles

-----------------------------------------------------------------------------
LEMMA ResetInitInv == ResetInit => ResetInv
<1> SUFFICES ASSUME ResetInit PROVE ResetInv
  OBVIOUS
<1>1. HeldTypes
  BY InitInv, CrawlerInitInv, InvTyped DEF ResetInit
<1>2. \A u \in URL : urlStatus[u] = Unknown
  BY DEF ResetInit, Init, FrontierInit
<1>3. BlankRecords /\ ParentStored /\ NoURLLost
  BY <1>2 DEF BlankRecords, ParentStored, NoURLLost, Known, Unknown
<1>4. Emptied
  BY DEF ResetInit, Init, FrontierInit, Emptied, InQueue
<1>5. \A e \in Exec : PageStored(e)
  BY DEF ResetInit, Init, PageStored, Idle
<1> QED
  BY <1>1, <1>3, <1>4, <1>5 DEF ResetInv, ResetInit, HandlerOK, SeedInv,
                                ScannedWhole, NewCrawlLosesNoURL

LEMMA ResetStepInv == ResetInv /\ [ResetNext]_resetVars => ResetInv'
<1> SUFFICES ASSUME ResetInv, [ResetNext]_resetVars PROVE ResetInv'
  OBVIOUS
<1>1. CrawlStep \/ HandlerStep \/ \E e \in Exec : TakeOnFails(e)
  BY ResetSteps DEF ResetInv
<1> QED
  BY <1>1, CrawlStepInv, TakeFailsInv, HandlerStepInv

-----------------------------------------------------------------------------
(* The theorems. *)

(* The branches of the scripts for a missing record leave records as well  *)
(* formed as the others, and no execution that overlaps with a reset is    *)
(* given a URL it cannot name.                                             *)
THEOREM ResetTypeCorrect == ResetSpec => []ResetTypeOK
<1>1. ResetInv => ResetTypeOK
  BY DEF ResetInv, HeldTypes, HandlerOK, OwnTypeOK, TypeOK, ResetTypeOK
<1> QED
  BY <1>1, ResetInitInv, ResetStepInv, PTL DEF ResetSpec

(* However many requests reset the cache under the crawl, at the same time *)
(* or one after the other, and whatever fails, is lost, overruns or        *)
(* crashes meanwhile, no URL of the new crawl is lost, as long as no SCAN  *)
(* falls between the DEL of another request and the seed after it.         *)
THEOREM ResetLosesNoURL == ResetSpec => []NewCrawlLosesNoURL
<1>1. ResetInv => NewCrawlLosesNoURL
  BY DEF ResetInv, SeedInv
<1> QED
  BY <1>1, ResetInitInv, ResetStepInv, PTL DEF ResetSpec

(* SaveLink finds the page it links from, also for a URL that an execution *)
(* of the old crawl pushed into the new one.                               *)
THEOREM ResetStoresParents == ResetSpec => []ParentStored
<1>1. ResetInv => ParentStored
  BY DEF ResetInv
<1> QED
  BY <1>1, ResetInitInv, ResetStepInv, PTL DEF ResetSpec
=============================================================================
