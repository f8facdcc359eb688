----------------------------- MODULE ExactProofs -----------------------------
(***************************************************************************)
(* While every disturbance is a failed call or a crash, a URL is in one    *)
(* place at a time, held by one execution, and its attempts that no        *)
(* recovery took back are within its budget; for any web with seeds in     *)
(* normal form, any number of executions and of such disturbances.         *)
(***************************************************************************)
EXTENDS MCCrawler, CrawlerProofs

-----------------------------------------------------------------------------
(* The inductive invariant.  OnePlace counts; what makes the count 1 is    *)
(* that the status in the record names the only structure the URL is in.   *)

Places ==
  \A u \in URL :
    /\ Holds(queue, u) <=> urlStatus[u].status = "Queued"
    /\ u \in index <=> urlStatus[u].status = "Processing"
    /\ u \in retry <=> urlStatus[u].status = "Retry"

Distinct(q) == \A i, j \in DOMAIN q : q[i] = q[j] => i = j

\* The lease of a URL outlasts the context of its holder, so the health
\* check leaves it alone.
Held(e) ==
  /\ ctx[e] = "live"
  /\ pc[e] \in {Idle, "take"} => job[e] = NoJob
  /\ pc[e] \notin {Idle, "take"} =>
       /\ job[e].key \in index \cap fresh
       /\ urlStatus[job[e].key].worker = WorkerOf[e]
       /\ urlStatus[job[e].key].try = job[e].try
  /\ pc[e] = "retry" => job[e].try < TryLim

HeldApart ==
  \A e, f \in Exec : job[e].key = job[f].key => e = f \/ job[e].key = NoURL

\* What left the index since the health check read it has a fresh take-on,
\* and what the health check is about to recover is still in the index.
ReaperExact ==
  /\ scan \subseteq index \cup fresh
  /\ doomed # NoURL => doomed \in index \ (fresh \cup scan)

\* The counter of the record, and what it means: it counts the attempts that
\* ended in a retry, and the place of the URL tells of one more.
TriesBounded == \A u \in URL : urlStatus[u].try <= TryLim

Counted ==
  \A u \in URL :
    attempts[u] = IF Known(u)
                  THEN urlStatus[u].try + Count(u \in index \/ Closed(u))
                  ELSE 0

Exact == /\ Places /\ Distinct(queue)
         /\ \A e \in Exec : Held(e)
         /\ HeldApart
         /\ ReaperExact
         /\ TriesBounded
         /\ Counted

ExactInv == DoneInv /\ (exact => Exact)

(* The steps of an exact run, and the scripts they run. *)
ExactStep == \/ Progress
             \/ HealthCheckFails \/ \E e \in Exec : CallFails(e)
             \/ Crash
             \/ UNCHANGED vars

ExactScript ==
  \/ UNCHANGED <<queue, retry, urlStatus, index>>
  \/ \E u \in URL, p \in URL \cup {NoParent} : ~Known(u) /\ PushURL(u, p)
  \/ \E w \in Worker : PopURL(w)
  \/ \E u \in index : RetryURL(u) /\ urlStatus[u].try < TryLim
  \/ \E u \in index, s \in Terminal : MarkProcessed(u, s)
  \/ \E u \in index : RecoverURL(u)
  \/ EnqueueURLs

(* Where a status puts a URL. *)
PlaceOf(status) ==
  CASE status = "Absent"     -> "new"
    [] status = "Queued"     -> "queue"
    [] status = "Processing" -> "index"
    [] status = "Retry"      -> "retry"
    [] OTHER                 -> "closed"

(* A script gives some URLs a status and leaves the other records alone. *)
StatusMove(urls, to) ==
  /\ \A v \in URL \ urls : urlStatus'[v] = urlStatus[v]
  /\ \A v \in urls : urlStatus'[v].status = to

-----------------------------------------------------------------------------
(* Sequences without duplicates. *)

LEMMA AppendDistinct ==
  ASSUME NEW q \in Seq(URL), NEW u \in URL, Distinct(q), ~Holds(q, u)
  PROVE  Distinct(Append(q, u))
<1> DEFINE r == Append(q, u)
<1>1. /\ DOMAIN r = 1 .. Len(q) + 1 /\ DOMAIN q = 1 .. Len(q) /\ Len(q) \in Nat
      /\ r[Len(q) + 1] = u /\ \A i \in 1 .. Len(q) : r[i] = q[i]
  OBVIOUS
<1> HIDE DEF r
<1>2. ASSUME NEW i \in DOMAIN r, NEW j \in DOMAIN r, r[i] = r[j]
      PROVE  i = j
  <2>1. CASE i \in DOMAIN q /\ j \in DOMAIN q
    BY <1>1, <1>2, <2>1 DEF Distinct
  <2>2. CASE i \notin DOMAIN q /\ j \notin DOMAIN q
    BY <1>1, <2>2
  <2>3. CASE i \notin DOMAIN q /\ j \in DOMAIN q
    BY <1>1, <1>2, <2>3 DEF Holds
  <2>4. CASE i \in DOMAIN q /\ j \notin DOMAIN q
    BY <1>1, <1>2, <2>4 DEF Holds
  <2> QED
    BY <2>1, <2>2, <2>3, <2>4
<1> QED
  BY <1>2 DEF Distinct, r

LEMMA TailDistinct ==
  ASSUME NEW q \in Seq(URL), q # <<>>, Distinct(q)
  PROVE  Distinct(Tail(q)) /\ ~Holds(Tail(q), Head(q))
<1>1. /\ Head(q) = q[1]
      /\ DOMAIN Tail(q) = 1 .. Len(q) - 1
      /\ \A i \in 1 .. Len(q) - 1 : Tail(q)[i] = q[i + 1]
      /\ DOMAIN q = 1 .. Len(q) /\ Len(q) \in Nat /\ Len(q) > 0
  OBVIOUS
<1>2. ASSUME NEW i \in DOMAIN Tail(q), NEW j \in DOMAIN Tail(q),
             Tail(q)[i] = Tail(q)[j]
      PROVE  i = j
  <2>1. /\ i + 1 \in DOMAIN q /\ j + 1 \in DOMAIN q
        /\ q[i + 1] = q[j + 1]
    BY <1>1, <1>2
  <2>2. i + 1 = j + 1
    BY <2>1 DEF Distinct
  <2> QED
    BY <1>1, <2>2
<1>3. ASSUME NEW i \in DOMAIN Tail(q), Tail(q)[i] = Head(q)
      PROVE  FALSE
  <2>1. i + 1 \in DOMAIN q /\ 1 \in DOMAIN q /\ q[i + 1] = q[1]
    BY <1>1, <1>3
  <2>2. i + 1 = 1
    BY <2>1 DEF Distinct
  <2> QED
    BY <1>1, <2>2
<1> QED
  BY <1>2, <1>3 DEF Distinct, Holds

LEMMA ConcatDistinct ==
  ASSUME NEW q \in Seq(URL), NEW s \in Seq(URL), Distinct(q), Distinct(s),
         \A u \in URL : ~(Holds(q, u) /\ Holds(s, u))
  PROVE  Distinct(q \o s)
<1> DEFINE r == q \o s
<1>1. /\ DOMAIN r = 1 .. Len(q) + Len(s)
      /\ DOMAIN q = 1 .. Len(q) /\ Len(q) \in Nat
      /\ DOMAIN s = 1 .. Len(s) /\ Len(s) \in Nat
      /\ \A i \in 1 .. Len(q) : r[i] = q[i] /\ q[i] \in URL
      /\ \A i \in 1 .. Len(s) : r[Len(q) + i] = s[i] /\ s[i] \in URL
  OBVIOUS
<1> HIDE DEF r
<1>2. ASSUME NEW i \in DOMAIN r, i \notin DOMAIN q
      PROVE  i - Len(q) \in DOMAIN s /\ r[i] = s[i - Len(q)]
  <2>1. i - Len(q) \in 1 .. Len(s) /\ Len(q) + (i - Len(q)) = i
    BY <1>1, <1>2
  <2> QED
    BY <1>1, <2>1
<1>3. ASSUME NEW i \in DOMAIN r, NEW j \in DOMAIN r,
             i \in DOMAIN q, j \notin DOMAIN q, r[i] = r[j]
      PROVE  FALSE
  <2>1. r[i] = q[i] /\ q[i] \in URL /\ Holds(q, q[i])
    BY <1>1, <1>3 DEF Holds
  <2>2. Holds(s, q[i])
    BY <1>2, <1>3, <2>1 DEF Holds
  <2> QED
    BY <2>1, <2>2
<1>4. ASSUME NEW i \in DOMAIN r, NEW j \in DOMAIN r, r[i] = r[j]
      PROVE  i = j
  <2>1. CASE i \in DOMAIN q /\ j \in DOMAIN q
    BY <1>1, <1>4, <2>1 DEF Distinct
  <2>2. CASE i \notin DOMAIN q /\ j \notin DOMAIN q
    <3>1. i - Len(q) = j - Len(q)
      BY <1>2, <1>4, <2>2 DEF Distinct
    <3> QED
      BY <1>1, <3>1
  <2> QED
    BY <1>3, <1>4, <2>1, <2>2
<1> QED
  BY <1>4 DEF Distinct, r

(* Every due URL is in the batch once, in whatever order. *)
LEMMA OrdersDistinct ==
  ASSUME due \in SUBSET URL, NEW s \in ScoreOrders
  PROVE  /\ s \in Seq(URL) /\ Distinct(s)
         /\ \A v : Holds(s, v) <=> v \in due
<1> DEFINE n == Cardinality(due)
<1>1. IsFiniteSet(due) /\ n \in Nat
  BY URLAssumption, FS_Subset, FS_CardinalityType
<1>2. s \in [1 .. n -> due] /\ \A u \in due : \E i \in DOMAIN s : s[i] = u
  BY DEF ScoreOrders
<1>3. IsFiniteSet(1 .. n) /\ Cardinality(1 .. n) = n
  BY <1>1, FS_Interval
<1>4. s \in Surjection(1 .. n, due)
  BY <1>2 DEF Surjection
<1>5. s \in Injection(1 .. n, due)
  BY <1>3, <1>4, FS_SurjSameCardinalityImpliesInj
<1>6. Distinct(s)
  BY <1>2, <1>5 DEF Injection, IsInjective, Distinct
<1> QED
  BY <1>6, OrdersMembers

-----------------------------------------------------------------------------
(* The scripts.  Each moves the URLs it is called with from one place to   *)
(* another, if they are where its caller takes them to be.                 *)

\* The place of every URL follows its status.
Follows(urls, to) ==
  /\ Places' /\ Distinct(queue')
  /\ StatusMove(urls, to)

LEMMA PushExact ==
  ASSUME FrontierInv, Places, Distinct(queue), NEW u \in URL,
         NEW p \in URL \cup {NoParent}, ~Known(u), PushURL(u, p)
  PROVE  Follows({u}, "Queued")
<1>1. /\ queue' = Append(queue, u)
      /\ urlStatus' = [urlStatus EXCEPT ![u] =
                         [status |-> "Queued", worker |-> NoWorker,
                          try |-> 0, parent |-> p]]
      /\ retry' = retry /\ index' = index
  BY DEF PushURL
<1>2. queue \in Seq(URL) /\ urlStatus \in [URL -> URLInfo]
  BY DEF FrontierInv, FrontierTypeOK
<1>3. ~Holds(queue, u) /\ u \notin index /\ u \notin retry
  BY DEF Places, Known
<1>4. StatusMove({u}, "Queued")
  BY <1>1, <1>2 DEF StatusMove
<1>5. \A v : Holds(queue', v) <=> v = u \/ Holds(queue, v)
  BY <1>1, <1>2, AppendMembers
<1>6. Distinct(queue')
  BY <1>1, <1>2, <1>3, AppendDistinct
<1>7. Places'
  BY <1>1, <1>3, <1>4, <1>5 DEF Places, StatusMove
<1> QED
  BY <1>4, <1>6, <1>7 DEF Follows

LEMMA PopExact ==
  ASSUME FrontierInv, Places, Distinct(queue), NEW w \in Worker, PopURL(w)
  PROVE  /\ Head(queue) \in URL /\ urlStatus[Head(queue)].status = "Queued"
         /\ Follows({Head(queue)}, "Processing")
<1> DEFINE u == Head(queue)
<1>1. /\ queue # <<>> /\ queue' = Tail(queue)
      /\ urlStatus' = [urlStatus EXCEPT ![u].status = "Processing",
                                        ![u].worker = w]
      /\ retry' = retry /\ index' = index \cup {u}
  BY DEF PopURL
<1>2. queue \in Seq(URL) /\ urlStatus \in [URL -> URLInfo]
  BY DEF FrontierInv, FrontierTypeOK
<1>3. u \in URL /\ Holds(queue, u)
  <2>1. u = queue[1] /\ 1 \in DOMAIN queue
    BY <1>1, <1>2
  <2> QED
    BY <1>1, <1>2, <2>1, TailMembers DEF Holds
<1>4. urlStatus[u].status = "Queued"
  BY <1>3 DEF Places
<1>5. StatusMove({u}, "Processing")
  BY <1>1, <1>2, <1>3 DEF StatusMove, URLInfo
<1>6. /\ Distinct(queue') /\ ~Holds(queue', u)
      /\ \A v : v # u => (Holds(queue', v) <=> Holds(queue, v))
  BY <1>1, <1>2, TailDistinct, TailMembers
<1> HIDE DEF u
<1>7. Places'
  BY <1>1, <1>3, <1>4, <1>5, <1>6 DEF Places, StatusMove
<1> QED
  BY <1>3, <1>4, <1>5, <1>6, <1>7 DEF Follows, u

LEMMA RetryExact ==
  ASSUME FrontierInv, Places, Distinct(queue), NEW u \in index, RetryURL(u)
  PROVE  /\ Follows({u}, "Retry")
         /\ urlStatus'[u].try = urlStatus[u].try + 1
<1>1. /\ urlStatus' = [urlStatus EXCEPT ![u].status = "Retry", ![u].try = @ + 1]
      /\ index' = index \ {u}
      /\ retry' = retry \cup {u}
      /\ queue' = queue
  BY DEF RetryURL
<1>2. u \in URL /\ urlStatus \in [URL -> URLInfo]
  BY DEF FrontierInv, FrontierTypeOK
<1>3. StatusMove({u}, "Retry") /\ urlStatus'[u].try = urlStatus[u].try + 1
  BY <1>1, <1>2 DEF StatusMove, URLInfo
<1>4. Places'
  BY <1>1, <1>2, <1>3 DEF Places, StatusMove
<1> QED
  BY <1>1, <1>3, <1>4 DEF Follows

LEMMA MarkExact ==
  ASSUME FrontierInv, Places, Distinct(queue), NEW u \in index,
         NEW s \in Terminal, MarkProcessed(u, s)
  PROVE  Follows({u}, s)
<1>1. /\ urlStatus' = [urlStatus EXCEPT ![u].status = s]
      /\ index' = index \ {u}
      /\ retry' = retry /\ queue' = queue
  BY DEF MarkProcessed
<1>2. u \in URL /\ urlStatus \in [URL -> URLInfo]
  BY DEF FrontierInv, FrontierTypeOK
<1>3. StatusMove({u}, s)
  BY <1>1, <1>2 DEF StatusMove, URLInfo
<1>4. s \notin {"Queued", "Processing", "Retry"}
  BY DEF Terminal
<1>5. Places'
  BY <1>1, <1>2, <1>3, <1>4 DEF Places, StatusMove
<1> QED
  BY <1>1, <1>3, <1>5 DEF Follows

LEMMA RecoverExact ==
  ASSUME FrontierInv, Places, Distinct(queue), NEW u \in index, RecoverURL(u)
  PROVE  Follows({u}, "Queued")
<1>1. /\ urlStatus' = [urlStatus EXCEPT ![u].status = "Queued"]
      /\ index' = index \ {u}
      /\ queue' = Append(queue, u)
      /\ retry' = retry
  BY DEF RecoverURL
<1>2. u \in URL /\ queue \in Seq(URL) /\ urlStatus \in [URL -> URLInfo]
  BY DEF FrontierInv, FrontierTypeOK
<1>3. StatusMove({u}, "Queued")
  BY <1>1, <1>2 DEF StatusMove, URLInfo
<1>4. ~Holds(queue, u)
  BY <1>2 DEF Places
<1>5. Distinct(queue') /\ \A v : Holds(queue', v) <=> v = u \/ Holds(queue, v)
  BY <1>1, <1>2, <1>4, AppendDistinct, AppendMembers
<1>6. Places'
  BY <1>1, <1>2, <1>3, <1>5 DEF Places, StatusMove
<1> QED
  BY <1>3, <1>5, <1>6 DEF Follows

LEMMA EnqueueExact ==
  ASSUME FrontierInv, Places, Distinct(queue), EnqueueURLs
  PROVE  /\ Follows(due, "Queued")
         /\ \A v \in URL : urlStatus'[v].try = urlStatus[v].try
<1>1. PICK s \in ScoreOrders : queue' = queue \o s
  BY DEF EnqueueURLs
<1>2. /\ urlStatus' = [u \in URL |-> IF u \in due THEN Requeued(urlStatus[u])
                                     ELSE urlStatus[u]]
      /\ retry' = retry \ due
      /\ index' = index
  BY DEF EnqueueURLs
<1>3. /\ queue \in Seq(URL) /\ urlStatus \in [URL -> URLInfo]
      /\ due \in SUBSET URL /\ due \subseteq retry
  BY DEF FrontierInv, FrontierTypeOK
<1>4. /\ s \in Seq(URL) /\ Distinct(s)
      /\ \A v : Holds(s, v) <=> v \in due
  BY <1>3, OrdersDistinct
<1>5. \A v \in due : urlStatus[v].status = "Retry" /\ ~Holds(queue, v)
  BY <1>3 DEF Places
<1>6. \A v : Holds(queue', v) <=> Holds(queue, v) \/ v \in due
  BY <1>1, <1>3, <1>4, ConcatMembers
<1>7. Distinct(queue')
  BY <1>1, <1>3, <1>4, <1>5, ConcatDistinct
<1>8. \A v \in due : /\ urlStatus'[v].status = "Queued"
                     /\ urlStatus'[v].try = urlStatus[v].try
  <2> SUFFICES ASSUME NEW v \in due
               PROVE  /\ urlStatus'[v].status = "Queued"
                      /\ urlStatus'[v].try = urlStatus[v].try
    OBVIOUS
  <2>1. urlStatus'[v] = Requeued(urlStatus[v]) /\ urlStatus[v] \in URLInfo
    BY <1>2, <1>3
  <2> QED
    BY <1>5, <2>1 DEF Requeued, URLInfo
<1>9. \A v \in URL \ due : urlStatus'[v] = urlStatus[v]
  BY <1>2
<1>10. StatusMove(due, "Queued")
  BY <1>8, <1>9 DEF StatusMove
<1>11. Places'
  BY <1>2, <1>3, <1>5, <1>6, <1>8, <1>9 DEF Places
<1> QED
  BY <1>7, <1>8, <1>9, <1>10, <1>11 DEF Follows

-----------------------------------------------------------------------------
(* What the scripts of an exact run do together. *)

LEMMA PlaceByStatus ==
  ASSUME FrontierTypeOK, Places
  PROVE  CrawlPlace = [u \in URL |-> PlaceOf(urlStatus[u].status)]
<1> SUFFICES ASSUME NEW u \in URL
             PROVE  CrawlPlace[u] = PlaceOf(urlStatus[u].status)
  BY DEF CrawlPlace
<1>1. urlStatus[u].status \in Status \cup {"Absent"}
  BY DEF FrontierTypeOK, URLInfo
<1>2. /\ u \in index <=> urlStatus[u].status = "Processing"
      /\ u \in retry <=> urlStatus[u].status = "Retry"
  BY DEF Places
<1> QED
  BY <1>1, <1>2 DEF CrawlPlace, PlaceOf, Known, Closed, Status, Terminal

LEMMA PlaceByStatusPrimed ==
  ASSUME FrontierTypeOK', Places'
  PROVE  CrawlPlace' = [u \in URL |-> PlaceOf(urlStatus'[u].status)]
<1> SUFFICES ASSUME NEW u \in URL
             PROVE  CrawlPlace'[u] = PlaceOf(urlStatus'[u].status)
  BY DEF CrawlPlace
<1>1. urlStatus'[u].status \in Status \cup {"Absent"}
  BY DEF FrontierTypeOK, URLInfo
<1>2. /\ u \in index' <=> urlStatus'[u].status = "Processing"
      /\ u \in retry' <=> urlStatus'[u].status = "Retry"
  BY DEF Places
<1> QED
  BY <1>1, <1>2 DEF CrawlPlace, PlaceOf, Known, Closed, Status, Terminal

LEMMA LifeMoves ==
  ASSUME FrontierTypeOK, Places, FrontierTypeOK',
         NEW urls \in SUBSET URL, NEW from, NEW to, Follows(urls, to),
         \A u \in urls : PlaceOf(urlStatus[u].status) = from
  PROVE  Life!Move(urls, from, PlaceOf(to))
<1>1. CrawlPlace = [u \in URL |-> PlaceOf(urlStatus[u].status)]
  BY PlaceByStatus
<1>2. Places' /\ StatusMove(urls, to)
  BY DEF Follows
<1>3. CrawlPlace' = [u \in URL |-> PlaceOf(urlStatus'[u].status)]
  BY <1>2, PlaceByStatusPrimed
<1>4. \A u \in urls : CrawlPlace[u] = from
  BY <1>1
<1>5. CrawlPlace' = [u \in URL |-> IF u \in urls THEN PlaceOf(to)
                                              ELSE CrawlPlace[u]]
  BY <1>1, <1>2, <1>3 DEF StatusMove
<1> QED
  BY <1>4, <1>5 DEF Life!Move

(* What every script of an exact run leaves true, and the step of URLLife  *)
(* it is.                                                                  *)
LEMMA ScriptsExact ==
  ASSUME FrontierInv, Places, Distinct(queue), TriesBounded, FrontierTypeOK',
         ExactScript
  PROVE  Places' /\ Distinct(queue') /\ TriesBounded' /\ LifeStep
<1> DEFINE Goal == Places' /\ Distinct(queue') /\ TriesBounded' /\ LifeStep
<1>0. /\ FrontierTypeOK /\ urlStatus \in [URL -> URLInfo]
      /\ urlStatus' \in [URL -> URLInfo]
      /\ \A u \in URL : urlStatus[u].try \in Nat /\ urlStatus[u].try <= TryLim
  BY DEF FrontierInv, FrontierTypeOK, TriesBounded, URLInfo
<1>1. CASE UNCHANGED <<queue, retry, urlStatus, index>>
  <2>1. Places' /\ Distinct(queue') /\ TriesBounded'
    BY <1>1 DEF Places, Distinct, Holds, TriesBounded
  <2>2. CrawlPlace' = CrawlPlace
    BY <1>1 DEF CrawlPlace, Known, Closed
  <2> QED
    BY <2>1, <2>2 DEF LifeStep
<1>2. ASSUME NEW u \in URL, NEW p \in URL \cup {NoParent}, ~Known(u), PushURL(u, p)
      PROVE  Goal
  <2>1. Follows({u}, "Queued")
    BY <1>2, PushExact
  <2>2. \A v \in {u} : PlaceOf(urlStatus[v].status) = "new"
    BY <1>2 DEF Known, PlaceOf
  <2>3. Life!Move({u}, "new", PlaceOf("Queued"))
    BY <1>0, <2>1, <2>2, LifeMoves
  <2>4. Life!Discover(u)
    BY <2>3 DEF Life!Discover, PlaceOf
  <2>5. \A v \in URL : urlStatus'[v].try = urlStatus[v].try \/ urlStatus'[v].try = 0
    BY <1>0, <1>2 DEF PushURL
  <2>6. TriesBounded'
    BY <1>0, <2>5, TryLimAssumption DEF TriesBounded
  <2> QED
    BY <1>2, <2>1, <2>4, <2>6 DEF Follows, LifeStep, Life!Next
<1>3. ASSUME NEW w \in Worker, PopURL(w) PROVE Goal
  <2> DEFINE u == Head(queue)
  <2>1. /\ u \in URL /\ urlStatus[u].status = "Queued"
        /\ Follows({u}, "Processing")
    BY <1>3, PopExact
  <2>2. \A v \in URL : urlStatus'[v].try = urlStatus[v].try
    BY <1>0, <1>3 DEF PopURL, URLInfo
  <2> HIDE DEF u
  <2>3. \A v \in {u} : PlaceOf(urlStatus[v].status) = "queue"
    BY <2>1 DEF PlaceOf
  <2>4. Life!Move({u}, "queue", PlaceOf("Processing"))
    BY <1>0, <2>1, <2>3, LifeMoves
  <2>5. Life!TakeOn(u)
    BY <2>4 DEF Life!TakeOn, PlaceOf
  <2>6. TriesBounded'
    BY <1>0, <2>2 DEF TriesBounded
  <2> QED
    BY <2>1, <2>5, <2>6 DEF Follows, LifeStep, Life!Next
<1>4. ASSUME NEW u \in index, RetryURL(u), urlStatus[u].try < TryLim PROVE Goal
  <2>0. u \in URL
    BY <1>0 DEF FrontierTypeOK
  <2>1. /\ Follows({u}, "Retry")
        /\ urlStatus'[u].try = urlStatus[u].try + 1
    BY <1>4, RetryExact
  <2>2. \A v \in {u} : PlaceOf(urlStatus[v].status) = "index"
    BY <2>0 DEF Places, PlaceOf
  <2>3. Life!Move({u}, "index", PlaceOf("Retry"))
    BY <1>0, <2>0, <2>1, <2>2, LifeMoves
  <2>4. Life!Postpone(u)
    BY <2>3 DEF Life!Postpone, PlaceOf
  <2>5. \A v \in URL \ {u} : urlStatus'[v].try = urlStatus[v].try
    BY <2>1 DEF Follows, StatusMove
  <2>6. urlStatus'[u].try <= TryLim
    BY <1>0, <1>4, <2>0, <2>1, TryLimAssumption
  <2>7. TriesBounded'
    BY <1>0, <2>5, <2>6 DEF TriesBounded
  <2> QED
    BY <2>0, <2>1, <2>4, <2>7 DEF Follows, LifeStep, Life!Next
<1>5. ASSUME NEW u \in index, NEW s \in Terminal, MarkProcessed(u, s) PROVE Goal
  <2>0. u \in URL
    BY <1>0 DEF FrontierTypeOK
  <2>1. Follows({u}, s)
    BY <1>5, MarkExact
  <2>2. \A v \in {u} : PlaceOf(urlStatus[v].status) = "index"
    BY <2>0 DEF Places, PlaceOf
  <2>3. Life!Move({u}, "index", PlaceOf(s))
    BY <1>0, <2>0, <2>1, <2>2, LifeMoves
  <2>4. Life!Close(u)
    BY <2>3 DEF Life!Close, PlaceOf, Terminal
  <2>5. \A v \in URL : urlStatus'[v].try = urlStatus[v].try
    BY <1>0, <1>5 DEF MarkProcessed, URLInfo
  <2>6. TriesBounded'
    BY <1>0, <2>5 DEF TriesBounded
  <2> QED
    BY <2>0, <2>1, <2>4, <2>6 DEF Follows, LifeStep, Life!Next
<1>6. ASSUME NEW u \in index, RecoverURL(u) PROVE Goal
  <2>0. u \in URL
    BY <1>0 DEF FrontierTypeOK
  <2>1. Follows({u}, "Queued")
    BY <1>6, RecoverExact
  <2>2. \A v \in {u} : PlaceOf(urlStatus[v].status) = "index"
    BY <2>0 DEF Places, PlaceOf
  <2>3. Life!Move({u}, "index", PlaceOf("Queued"))
    BY <1>0, <2>0, <2>1, <2>2, LifeMoves
  <2>4. Life!Recover(u)
    BY <2>3 DEF Life!Recover, PlaceOf
  <2>5. \A v \in URL : urlStatus'[v].try = urlStatus[v].try
    BY <1>0, <1>6 DEF RecoverURL, URLInfo
  <2>6. TriesBounded'
    BY <1>0, <2>5 DEF TriesBounded
  <2> QED
    BY <2>0, <2>1, <2>4, <2>6 DEF Follows, LifeStep, Life!Next
<1>7. CASE EnqueueURLs
  <2>0. due \in SUBSET URL /\ due \subseteq retry
    BY <1>0 DEF FrontierTypeOK
  <2>1. /\ Follows(due, "Queued")
        /\ \A v \in URL : urlStatus'[v].try = urlStatus[v].try
    BY <1>7, EnqueueExact
  <2>2. \A v \in due : PlaceOf(urlStatus[v].status) = "retry"
    BY <2>0 DEF Places, PlaceOf
  <2>3. Life!Move(due, "retry", PlaceOf("Queued"))
    BY <1>0, <2>0, <2>1, <2>2, LifeMoves
  <2>4. Life!Enqueue(due)
    BY <2>3 DEF Life!Enqueue, PlaceOf
  <2>5. TriesBounded'
    BY <1>0, <2>1 DEF TriesBounded
  <2> QED
    BY <2>0, <2>1, <2>4, <2>5 DEF Follows, LifeStep, Life!Next
<1> QED
  BY <1>1, <1>2, <1>3, <1>4, <1>5, <1>6, <1>7 DEF ExactScript

(* ... and what it does to the account of the attempts.                    *)
LEMMA AttemptsCounted ==
  ASSUME FrontierInv, Places, Distinct(queue), Places', FrontierTypeOK', Counted,
         ExactScript, exact', attempts' = Attempts
  PROVE  Counted'
<1> DEFINE TryMove(v) ==
             LET old == urlStatus[v]
                 new == urlStatus'[v]
             IN  \/ new.status = old.status /\ new.try = old.try
                 \/ old.status = "Absent" /\ new.status = "Queued" /\ new.try = 0
                 \/ /\ old.status = "Processing" /\ new.status = "Retry"
                    /\ new.try = old.try + 1
                 \/ /\ new.try = old.try
                    /\ \/ old.status = "Queued" /\ new.status = "Processing"
                       \/ /\ old.status = "Processing"
                          /\ new.status \in Terminal \cup {"Queued"}
                       \/ old.status = "Retry" /\ new.status = "Queued"
<1>0. /\ FrontierTypeOK /\ urlStatus \in [URL -> URLInfo]
      /\ urlStatus' \in [URL -> URLInfo]
      /\ index \in SUBSET URL
  BY DEF FrontierInv, FrontierTypeOK
<1>1. ASSUME NEW v \in URL PROVE TryMove(v)
  <2>1. CASE urlStatus'[v] = urlStatus[v]
    BY <2>1
  <2>2. ASSUME NEW u \in URL, NEW p \in URL \cup {NoParent}, ~Known(u), PushURL(u, p)
        PROVE  TryMove(v)
    BY <1>0, <2>1, <2>2 DEF PushURL, Known
  <2>3. ASSUME NEW w \in Worker, PopURL(w) PROVE TryMove(v)
    <3> DEFINE u == Head(queue)
    <3>1. /\ u \in URL /\ urlStatus[u].status = "Queued"
          /\ Follows({u}, "Processing")
      BY <2>3, PopExact
    <3>2. urlStatus'[v].try = urlStatus[v].try
      BY <1>0, <2>3 DEF PopURL, URLInfo
    <3> HIDE DEF u
    <3> QED
      BY <2>1, <3>1, <3>2 DEF Follows, StatusMove
  <2>4. ASSUME NEW u \in index, RetryURL(u), urlStatus[u].try < TryLim
        PROVE  TryMove(v)
    <3>1. Follows({u}, "Retry") /\ urlStatus'[u].try = urlStatus[u].try + 1
      BY <2>4, RetryExact
    <3>2. urlStatus[u].status = "Processing"
      BY <1>0 DEF Places
    <3> QED
      BY <2>1, <3>1, <3>2 DEF Follows, StatusMove
  <2>5. ASSUME NEW u \in index, NEW s \in Terminal, MarkProcessed(u, s)
        PROVE  TryMove(v)
    <3>1. Follows({u}, s) /\ urlStatus[u].status = "Processing"
      BY <1>0, <2>5, MarkExact DEF Places
    <3>2. urlStatus'[v].try = urlStatus[v].try
      BY <1>0, <2>5 DEF MarkProcessed, URLInfo
    <3> QED
      BY <2>1, <3>1, <3>2 DEF Follows, StatusMove
  <2>6. ASSUME NEW u \in index, RecoverURL(u) PROVE TryMove(v)
    <3>1. Follows({u}, "Queued") /\ urlStatus[u].status = "Processing"
      BY <1>0, <2>6, RecoverExact DEF Places
    <3>2. urlStatus'[v].try = urlStatus[v].try
      BY <1>0, <2>6 DEF RecoverURL, URLInfo
    <3> QED
      BY <2>1, <3>1, <3>2 DEF Follows, StatusMove
  <2>7. CASE EnqueueURLs
    <3>1. /\ Follows(due, "Queued")
          /\ urlStatus'[v].try = urlStatus[v].try
          /\ due \subseteq retry /\ retry \subseteq URL
      BY <1>0, <2>7, EnqueueExact DEF FrontierTypeOK
    <3>2. v \in due => urlStatus[v].status = "Retry"
      BY <3>1 DEF Places
    <3> QED
      BY <2>1, <3>1, <3>2 DEF Follows, StatusMove
  <2> HIDE DEF TryMove
  <2> QED
    BY <2>1, <2>2, <2>3, <2>4, <2>5, <2>6, <2>7 DEF ExactScript
<1>2. ASSUME NEW v \in URL
      PROVE  attempts'[v] = IF urlStatus'[v].status # "Absent"
                            THEN urlStatus'[v].try
                                   + Count(v \in index' \/ urlStatus'[v].status \in Terminal)
                            ELSE 0
  <2>1. /\ urlStatus[v].status \in Status \cup {"Absent"}
        /\ urlStatus'[v].status \in Status \cup {"Absent"}
        /\ urlStatus[v].try \in Nat /\ urlStatus'[v].try \in Nat
    BY <1>0 DEF URLInfo
  <2>2. /\ v \in index <=> urlStatus[v].status = "Processing"
        /\ v \in index' <=> urlStatus'[v].status = "Processing"
    BY DEF Places
  <2>3. attempts'[v] = IF v \in index' \ index THEN attempts[v] + 1
                       ELSE IF v \in index \ index' /\ urlStatus'[v].status = "Queued"
                            THEN attempts[v] - 1
                       ELSE attempts[v]
    BY DEF Attempts
  <2>4. attempts[v] = IF urlStatus[v].status # "Absent"
                      THEN urlStatus[v].try
                             + IF v \in index \/ urlStatus[v].status \in Terminal
                               THEN 1 ELSE 0
                      ELSE 0
    BY DEF Counted, Count, Known, Closed
  <2>5. TryMove(v)
    BY <1>1
  <2> QED
    BY <2>1, <2>2, <2>3, <2>4, <2>5 DEF Count, Status, Terminal
<1> QED
  BY <1>2 DEF Counted, Known, Closed

-----------------------------------------------------------------------------
(* The steps of an exact run. *)

(* What an execution between its take-on and its last call knows. *)
LEMMA HolderFacts ==
  ASSUME DoneInv, Exact, NEW e \in Exec, pc[e] \notin {Idle, "take"}
  PROVE  /\ Url(e) = job[e].key
         /\ Url(e) \in URL /\ Url(e) \in index /\ Url(e) \in fresh
         /\ urlStatus[Url(e)].worker = WorkerOf[e]
         /\ urlStatus[Url(e)].try = job[e].try
         /\ pc[e] = "retry" => job[e].try < TryLim
<1>1. job[e].key \in URL /\ Known(job[e].key)
  BY HeldURLs DEF DoneInv, StoreInv, CrawlerInv, JobHeld
<1>2. Url(e) = job[e].key
  BY <1>1 DEF Url, DoneInv, KeysNormal
<1> QED
  BY <1>1, <1>2 DEF Exact, Held

(* No script of an exact run finds a URL elsewhere than its caller thinks. *)
LEMMA ExactScripts ==
  ASSUME DoneInv, Exact, ExactStep PROVE ExactScript
<1> USE DEF ExactScript
<1>1. ASSUME NEW e \in Exec, ExecStep(e) PROVE ExactScript
  <2>1. CASE Execute(e)
    BY <2>1 DEF Execute
  <2>2. CASE TakeOn(e)
    BY <2>2, ExecAssumption DEF TakeOn
  <2>3. CASE QueueEmpty(e) \/ Fetch(e) \/ SavePage(e) \/ SaveLink(e)
             \/ PushDone(e) \/ URLNotFound(e) \/ DeadContext(e)
    BY <2>3 DEF QueueEmpty, Fetch, SavePage, SaveLink, PushDone, URLNotFound,
                DeadContext, frontierVars
  <2>4. CASE Retry(e)
    <3>1. RetryURL(Url(e)) /\ pc[e] = "retry"
      BY <2>4 DEF Retry, At
    <3>2. Url(e) \in index /\ urlStatus[Url(e)].try < TryLim
      BY <3>1, HolderFacts DEF Idle
    <3> QED
      BY <3>1, <3>2
  <2>5. CASE PushLink(e)
    <3>1. PICK l \in unsent[e] : PushURL(l, Page(e))
      BY <2>5 DEF PushLink
    <3>2. l \in URL /\ Page(e) \in URL
      BY <2>5, HeldURLs DEF PushLink, At, Idle, DoneInv, StoreInv, CrawlerInv,
                            OwnTypeOK
    <3>3. Known(l) => UNCHANGED <<queue, retry, urlStatus, index>>
      BY <3>1 DEF PushURL, frontierVars
    <3> QED
      BY <3>1, <3>2, <3>3
  <2>6. CASE MarkDone(e)
    <3>1. MarkProcessed(Url(e), "Done") /\ pc[e] = "done"
      BY <2>6 DEF MarkDone, At
    <3>2. Url(e) \in index
      BY <3>1, HolderFacts DEF Idle
    <3> QED
      BY <3>1, <3>2 DEF Terminal
  <2>7. CASE MarkTerminal(e)
    <3>1. MarkProcessed(Url(e), Verdict(e)) /\ pc[e] \in {"manual", "giveUp"}
      BY <2>7 DEF MarkTerminal
    <3>2. Url(e) \in index
      BY <3>1, HolderFacts DEF Idle
    <3>3. Verdict(e) \in Terminal
      BY DEF Verdict, Terminal
    <3> QED
      BY <3>1, <3>2, <3>3
  <2> QED
    BY <1>1, <2>1, <2>2, <2>3, <2>4, <2>5, <2>6, <2>7 DEF ExecStep, Returns
<1>2. CASE HealthCheck
  <2>1. CASE ScanIndex \/ CheckRecord
    BY <2>1 DEF ScanIndex, CheckRecord, frontierVars
  <2>2. CASE Recover
    BY <2>2 DEF Recover, Exact, ReaperExact
  <2> QED
    BY <1>2, <2>1, <2>2 DEF HealthCheck
<1>3. CASE Start
  BY <1>3, WebAssumption DEF Start
<1>4. CASE \E u \in URL : RetryTime(u) \/ LeaseTime(u)
  BY <1>4 DEF RetryTime, LeaseTime, RetryBecomesDue, LeaseExpires
<1>5. CASE HealthCheckFails \/ (\E e \in Exec : CallFails(e)) \/ Crash
           \/ UNCHANGED vars
  BY <1>5 DEF HealthCheckFails, CallFails, Crash, vars, frontierVars
<1> QED
  BY <1>1, <1>2, <1>3, <1>4, <1>5 DEF ExactStep, Progress

-----------------------------------------------------------------------------
(* Who holds what.  A URL is released by its holder, or with the process,  *)
(* and a held one stays where it is.                                       *)

KeyKept(u) == /\ u \in index' /\ u \in fresh'
              /\ urlStatus'[u].worker = urlStatus[u].worker
              /\ urlStatus'[u].try = urlStatus[u].try

\* An execution returns, or goes on with its URL.
ExecKept(f) ==
  /\ ctx'[f] = "live"
  /\ \/ pc'[f] \in {Idle, "take"} /\ job'[f] = NoJob
     \/ /\ pc[f] \notin {Idle, "take"} /\ pc'[f] \notin {Idle, "take"}
        /\ pc'[f] = "retry" => job[f].try < TryLim
        /\ job'[f] = job[f]
        /\ KeyKept(job[f].key)

(* The scripts of the others leave a held URL alone. *)
LEMMA KeyStays ==
  ASSUME DoneInv, Exact, NEW f \in Exec, pc[f] \notin {Idle, "take"},
         \/ UNCHANGED frontierVars
         \/ EnqueueURLs
         \/ \E v \in URL : \E p : ~Known(v) /\ PushURL(v, p)
         \/ \E v \in URL : RetryBecomesDue(v)
         \/ \E v \in URL \ {job[f].key} :
              \/ RetryURL(v) \/ RecoverURL(v) \/ LeaseExpires(v)
              \/ \E s \in Terminal : MarkProcessed(v, s)
  PROVE  KeyKept(job[f].key)
<1> DEFINE u == job[f].key
<1>1. /\ u \in URL /\ Known(u) /\ u \in index /\ u \in fresh
      /\ urlStatus \in [URL -> URLInfo]
  BY HeldURLs DEF DoneInv, StoreInv, CrawlerInv, JobHeld, FrontierInv,
                  FrontierTypeOK, Exact, Held
<1> HIDE DEF u
<1> SUFFICES KeyKept(u)
  BY DEF u
<1>2. CASE UNCHANGED frontierVars
  BY <1>1, <1>2 DEF KeyKept, frontierVars
<1>3. CASE EnqueueURLs
  <2>1. u \notin due
    BY <1>1 DEF Exact, Places, DoneInv, StoreInv, CrawlerInv, FrontierInv,
                FrontierTypeOK
  <2> QED
    BY <1>1, <1>3, <2>1 DEF EnqueueURLs, KeyKept
<1>4. ASSUME NEW v \in URL, NEW p, ~Known(v), PushURL(v, p) PROVE KeyKept(u)
  BY <1>1, <1>4 DEF PushURL, KeyKept
<1>5. ASSUME NEW v \in URL, RetryBecomesDue(v) PROVE KeyKept(u)
  BY <1>1, <1>5 DEF RetryBecomesDue, KeyKept
<1>6. ASSUME NEW v \in URL, v # u, RetryURL(v) \/ RecoverURL(v) \/ LeaseExpires(v)
      PROVE  KeyKept(u)
  BY <1>1, <1>6 DEF RetryURL, RecoverURL, LeaseExpires, KeyKept
<1>7. ASSUME NEW v \in URL, v # u, NEW s, MarkProcessed(v, s)
      PROVE  KeyKept(u)
  BY <1>1, <1>7 DEF MarkProcessed, KeyKept
<1> QED
  BY <1>2, <1>3, <1>4, <1>5, <1>6, <1>7 DEF u

LEMMA ProceedKept ==
  ASSUME DoneInv, Exact, NEW e \in Exec, NEW next \in (Calls \cup {Idle}) \ {"take"},
         Proceed(e, next),
         next = "retry" => job[e].try < TryLim,
         next # Idle => pc[e] \notin {Idle, "take"},
         \A f \in Exec : pc[f] \notin {Idle, "take"} /\ (f # e \/ next # Idle)
                          => KeyKept(job[f].key)
  PROVE  \A f \in Exec : ExecKept(f)
<1> SUFFICES ASSUME NEW f \in Exec PROVE ExecKept(f)
  OBVIOUS
<1>1. OwnTypeOK /\ Held(f)
  BY DEF DoneInv, StoreInv, CrawlerInv, Exact
<1>2. CASE f # e
  <2>1. pc'[f] = pc[f] /\ job'[f] = job[f] /\ ctx'[f] = ctx[f]
    BY <1>1, <1>2 DEF Proceed, OwnTypeOK
  <2> QED
    BY <1>1, <1>2, <2>1 DEF Held, ExecKept
<1>3. CASE f = e /\ next = Idle
  <2>1. pc'[e] = Idle /\ job'[e] = NoJob /\ ctx'[e] = "live"
    BY <1>1, <1>3 DEF Proceed, OwnTypeOK
  <2> QED
    BY <1>3, <2>1 DEF ExecKept
<1>4. CASE f = e /\ next # Idle
  <2>1. pc'[e] = next /\ job'[e] = job[e] /\ ctx'[e] = "live"
    BY <1>1, <1>4 DEF Proceed, OwnTypeOK, Held
  <2> QED
    BY <1>4, <2>1 DEF ExecKept
<1> QED
  BY <1>2, <1>3, <1>4

LEMMA StayKept ==
  ASSUME Exact, UNCHANGED <<pc, ctx, job>>,
         \A f \in Exec : pc[f] \notin {Idle, "take"} => KeyKept(job[f].key)
  PROVE  \A f \in Exec : ExecKept(f)
BY DEF Exact, Held, ExecKept

LEMMA ExecsKept ==
  ASSUME Exact, \A f \in Exec : ExecKept(f)
  PROVE  (\A f \in Exec : Held(f)') /\ HeldApart'
<1>1. ASSUME NEW f \in Exec PROVE Held(f)'
  <2>1. ExecKept(f) /\ Held(f)
    BY DEF Exact
  <2> QED
    BY <2>1 DEF ExecKept, Held, KeyKept, Idle
<1>2. ASSUME NEW e \in Exec, NEW f \in Exec, job'[e].key = job'[f].key
      PROVE  e = f \/ job'[e].key = NoURL
  <2>1. /\ job'[e] = job[e] \/ job'[e] = NoJob
        /\ job'[f] = job[f] \/ job'[f] = NoJob
    BY DEF ExecKept
  <2>2. NoJob.key = NoURL
    BY DEF NoJob
  <2> QED
    BY <1>2, <2>1, <2>2 DEF Exact, HeldApart
<1> QED
  BY <1>1, <1>2 DEF HeldApart

(* A take-on gives the execution a URL nobody holds. *)
LEMMA TakeOnExact ==
  ASSUME DoneInv, Exact, NEW e \in Exec, TakeOn(e)
  PROVE  (\A f \in Exec : Held(f)') /\ HeldApart'
<1> DEFINE u == Head(queue)
           taken == [key |-> u, try |-> urlStatus[u].try,
                     parent |-> urlStatus[u].parent]
<1>1. /\ pc[e] = "take" /\ ctx[e] = "live" /\ PopURL(WorkerOf[e])
      /\ pc' = [pc EXCEPT ![e] = "fetch"]
      /\ ctx' = [ctx EXCEPT ![e] = IF @ = "late" THEN "dead" ELSE @]
      /\ job' = [job EXCEPT ![e] = taken]
      /\ OwnTypeOK /\ FrontierInv /\ WorkerOf[e] \in Worker
      /\ urlStatus \in [URL -> URLInfo]
  BY ExecAssumption DEF TakeOn, At, Exact, Held, DoneInv, StoreInv, CrawlerInv,
                        FrontierInv, FrontierTypeOK
<1>2. /\ u \in URL /\ urlStatus[u].status = "Queued" /\ u \notin index
      /\ index' = index \cup {u} /\ fresh' = fresh \cup {u}
      /\ urlStatus' = [urlStatus EXCEPT ![u].status = "Processing",
                                        ![u].worker = WorkerOf[e]]
  BY <1>1, PopExact DEF PopURL, Exact, Places
<1> HIDE DEF u
<1>3. ASSUME NEW f \in Exec, f # e
      PROVE  /\ pc'[f] = pc[f] /\ ctx'[f] = ctx[f] /\ job'[f] = job[f]
             /\ job[f].key # u
             /\ Held(f)'
  <2>1. pc'[f] = pc[f] /\ ctx'[f] = ctx[f] /\ job'[f] = job[f]
    BY <1>1, <1>3 DEF OwnTypeOK
  <2>2. Held(f)
    BY DEF Exact
  <2>3. CASE pc[f] \in {Idle, "take"}
    <3>1. job[f].key # u
      BY <1>2, <2>2, <2>3, NoURLAssumption DEF Held, NoJob
    <3> QED
      BY <2>1, <2>2, <2>3, <3>1 DEF Held, Idle
  <2>4. CASE pc[f] \notin {Idle, "take"}
    <3>1. job[f].key # u /\ job[f].key \in URL
      BY <1>1, <1>2, <2>2, <2>4 DEF Held, FrontierInv, FrontierTypeOK
    <3>2. urlStatus'[job[f].key] = urlStatus[job[f].key]
      BY <1>1, <1>2, <3>1
    <3> QED
      BY <1>2, <2>1, <2>2, <2>4, <3>1, <3>2 DEF Held
  <2> QED
    BY <2>3, <2>4, <2>1
<1>4. /\ pc'[e] = "fetch" /\ ctx'[e] = "live"
      /\ job'[e].key = u /\ job'[e].try = urlStatus[u].try
      /\ urlStatus'[u].worker = WorkerOf[e] /\ urlStatus'[u].try = urlStatus[u].try
  BY <1>1, <1>2 DEF OwnTypeOK, URLInfo
<1>5. Held(e)'
  BY <1>2, <1>4 DEF Held, Idle
<1>6. HeldApart'
  <2> SUFFICES ASSUME NEW f \in Exec, NEW g \in Exec, job'[f].key = job'[g].key
               PROVE  f = g \/ job'[f].key = NoURL
    BY DEF HeldApart
  <2>1. CASE f # e /\ g # e
    BY <1>3, <2>1 DEF Exact, HeldApart
  <2>2. CASE f = e \/ g = e
    BY <1>3, <1>4, <2>2
  <2> QED
    BY <2>1, <2>2
<1> QED
  BY <1>3, <1>5, <1>6

LEMMA ExecsExact ==
  ASSUME DoneInv, Exact, ExactStep
  PROVE  (\A f \in Exec : Held(f)') /\ HeldApart'
<1> DEFINE Goal == (\A f \in Exec : Held(f)') /\ HeldApart'
           Holder(f) == pc[f] \notin {Idle, "take"}
<1>0. /\ \A f \in Exec : Held(f)
      /\ OwnTypeOK
  BY DEF Exact, DoneInv, StoreInv, CrawlerInv
<1>1. ASSUME UNCHANGED frontierVars, NEW f \in Exec, Holder(f)
      PROVE  KeyKept(job[f].key)
  BY <1>1, KeyStays
<1>2. ASSUME NEW e \in Exec, NEW f \in Exec, Holder(e), Holder(f), e # f,
             RetryURL(Url(e)) \/ \E s \in Terminal : MarkProcessed(Url(e), s)
      PROVE  KeyKept(job[f].key)
  <2>1. Url(e) = job[e].key /\ Url(e) \in URL /\ job[e].key # NoURL
    BY <1>2, HolderFacts, NoURLAssumption
  <2>2. job[e].key # job[f].key
    BY <1>2, <2>1 DEF Exact, HeldApart
  <2> QED
    BY <1>2, <2>1, <2>2, KeyStays
<1>3. ASSUME NEW e \in Exec, ExecStep(e) PROVE Goal
  <2>1. CASE Execute(e)
    <3>1. ASSUME NEW f \in Exec PROVE ExecKept(f)
      <4>1. pc[e] = Idle /\ EnqueueURLs /\ pc' = [pc EXCEPT ![e] = "take"]
            /\ UNCHANGED <<ctx, job>>
        BY <2>1 DEF Execute, MayStart
      <4>2. CASE f = e
        BY <1>0, <4>1, <4>2 DEF OwnTypeOK, Held, ExecKept
      <4>3. CASE f # e /\ Holder(f)
        BY <1>0, <4>1, <4>3, KeyStays DEF OwnTypeOK, Held, ExecKept
      <4>4. CASE f # e /\ ~Holder(f)
        BY <1>0, <4>1, <4>4 DEF OwnTypeOK, Held, ExecKept
      <4> QED
        BY <4>2, <4>3, <4>4
    <3> QED
      BY <3>1, ExecsKept
  <2>2. CASE TakeOn(e)
    BY <2>2, TakeOnExact
  <2>3. CASE QueueEmpty(e)
    <3>1. UNCHANGED frontierVars /\ Proceed(e, Idle)
      BY <2>3 DEF QueueEmpty
    <3>2. \A f \in Exec : ExecKept(f)
      BY <1>1, <3>1, ProceedKept DEF Idle
    <3> QED
      BY <3>2, ExecsKept
  <2>4. CASE Fetch(e)
    <3>1. /\ UNCHANGED frontierVars /\ pc[e] = "fetch"
          /\ \E next \in {"save", "giveUp", "manual", "retry"} :
               Proceed(e, next) /\ (next = "retry" => job[e].try < TryLim)
      BY <2>4 DEF Fetch, At, AfterFetch, CalcRetryTime
    <3>2. \A f \in Exec : ExecKept(f)
      BY <1>1, <3>1, ProceedKept DEF Calls, Idle
    <3> QED
      BY <3>2, ExecsKept
  <2>5. CASE Retry(e) \/ MarkDone(e) \/ MarkTerminal(e)
    <3>1. /\ Holder(e) /\ Proceed(e, Idle)
          /\ RetryURL(Url(e)) \/ \E s \in Terminal : MarkProcessed(Url(e), s)
      BY <2>5 DEF Retry, MarkDone, MarkTerminal, Verdict, At, Terminal, Idle
    <3>2. \A f \in Exec : ExecKept(f)
      BY <1>2, <3>1, ProceedKept DEF Idle
    <3> QED
      BY <3>2, ExecsKept
  <2>6. CASE SavePage(e) \/ SaveLink(e) \/ PushDone(e)
    <3>1. /\ UNCHANGED frontierVars /\ Holder(e)
          /\ \E next \in {"link", "push", "done"} : Proceed(e, next)
      BY <2>6 DEF SavePage, SaveLink, PushDone, AfterSave, At, Idle
    <3>2. \A f \in Exec : ExecKept(f)
      BY <1>1, <3>1, ProceedKept DEF Calls, Idle
    <3> QED
      BY <3>2, ExecsKept
  <2>7. CASE PushLink(e)
    <3>1. PICK l \in unsent[e] : PushURL(l, Page(e))
      BY <2>7 DEF PushLink
    <3>2. l \in URL /\ UNCHANGED <<pc, ctx, job>>
      BY <1>0, <2>7 DEF PushLink, OwnTypeOK
    <3>3. Known(l) => UNCHANGED frontierVars
      BY <3>1 DEF PushURL
    <3>4. \A f \in Exec : ExecKept(f)
      BY <3>1, <3>2, <3>3, KeyStays, StayKept
    <3> QED
      BY <3>4, ExecsKept
  <2>8. CASE URLNotFound(e)
    <3>1. /\ UNCHANGED frontierVars /\ Holder(e)
          /\ \E next \in {Idle, "giveUp"} : Proceed(e, next)
      BY <1>0, <2>8, OnErrorCalls DEF URLNotFound, At, Idle
    <3>2. \A f \in Exec : ExecKept(f)
      BY <1>1, <3>1, ProceedKept DEF Calls, Idle
    <3> QED
      BY <3>2, ExecsKept
  <2>9. CASE DeadContext(e)
    BY <1>0, <2>9 DEF DeadContext, Held
  <2> QED
    BY <1>3, <2>1, <2>2, <2>3, <2>4, <2>5, <2>6, <2>7, <2>8, <2>9
       DEF ExecStep, Returns
<1>4. CASE HealthCheck \/ HealthCheckFails
  <2>1. UNCHANGED <<pc, ctx, job>>
    BY <1>4 DEF HealthCheck, ScanIndex, CheckRecord, Recover, HealthCheckFails,
                execs
  <2>2. ASSUME NEW f \in Exec, Holder(f) PROVE KeyKept(job[f].key)
    <3>1. CASE UNCHANGED frontierVars
      BY <1>1, <2>2, <3>1
    <3>2. CASE Recover
      <4>1. RecoverURL(doomed) /\ doomed \in URL /\ doomed \notin fresh
        BY <1>0, <3>2 DEF Recover, OwnTypeOK, Exact, ReaperExact
      <4>2. doomed # job[f].key
        BY <1>0, <2>2, <4>1 DEF Held
      <4> QED
        BY <2>2, <4>1, <4>2, KeyStays
    <3> QED
      BY <1>4, <3>1, <3>2 DEF HealthCheck, ScanIndex, CheckRecord,
                              HealthCheckFails
  <2>3. \A f \in Exec : ExecKept(f)
    BY <2>1, <2>2, StayKept
  <2> QED
    BY <2>3, ExecsKept
<1>5. CASE Start \/ UNCHANGED vars \/ \E u \in URL : RetryTime(u)
  <2>1. UNCHANGED <<pc, ctx, job>>
    BY <1>5 DEF Start, RetryTime, vars, execs
  <2>2. ASSUME NEW f \in Exec, Holder(f) PROVE KeyKept(job[f].key)
    BY <1>5, <2>2, KeyStays, WebAssumption DEF Start, RetryTime, vars
  <2>3. \A f \in Exec : ExecKept(f)
    BY <2>1, <2>2, StayKept
  <2> QED
    BY <2>3, ExecsKept
<1>6. ASSUME NEW u \in URL, LeaseTime(u) PROVE Goal
  <2>1. ASSUME NEW f \in Exec, Holder(f) PROVE KeyKept(job[f].key)
    <3>1. u # job[f].key /\ LeaseExpires(u)
      BY <1>0, <1>6, <2>1 DEF LeaseTime, Held
    <3> QED
      BY <2>1, <3>1, KeyStays
  <2>2. \A f \in Exec : ExecKept(f)
    BY <1>6, <2>1, StayKept DEF LeaseTime, execs
  <2> QED
    BY <2>2, ExecsKept
<1>7. ASSUME NEW e \in Exec, CallFails(e) PROVE Goal
  <2>1. /\ UNCHANGED frontierVars /\ pc[e] # Idle
        /\ \E next \in {Idle, "giveUp"} :
             Proceed(e, next) /\ (next # Idle => Holder(e))
    BY <1>0, <1>7, OnErrorCalls DEF CallFails
  <2>2. \A f \in Exec : ExecKept(f)
    BY <1>1, <2>1, ProceedKept DEF Calls, Idle
  <2> QED
    BY <2>2, ExecsKept
<1>8. CASE Crash
  <2>1. \A f \in Exec : ExecKept(f)
    BY <1>8 DEF Crash, ExecKept
  <2> QED
    BY <2>1, ExecsKept
<1> QED
  BY <1>3, <1>4, <1>5, <1>6, <1>7, <1>8 DEF ExactStep, Progress

-----------------------------------------------------------------------------
(* The health check recovers what is in the index and nobody holds. *)

(* A step outside the health check takes only fresh URLs from the index    *)
(* and makes fresh only what was not there.                                *)
LEMMA ReaperStays ==
  ASSUME Exact, UNCHANGED reaper,
         \A u \in scan : u \in index' \cup fresh',
         doomed # NoURL => doomed \in index' \ fresh'
  PROVE  ReaperExact'
BY DEF Exact, ReaperExact, reaper

LEMMA ReaperStep ==
  ASSUME DoneInv, Exact, ExactStep PROVE ReaperExact'
<1>0. /\ scan \subseteq index \cup fresh /\ scan \subseteq URL
      /\ doomed # NoURL => doomed \in index \ (fresh \cup scan)
      /\ doomed \in URL \cup {NoURL}
      /\ \A u \in scan : Known(u)
      /\ doomed # NoURL => Known(doomed)
  BY DEF Exact, ReaperExact, DoneInv, StoreInv, CrawlerInv, OwnTypeOK, ScanKnown
<1>1. ASSUME UNCHANGED frontierVars, UNCHANGED reaper PROVE ReaperExact'
  BY <1>0, <1>1, ReaperStays DEF frontierVars
<1>2. ASSUME NEW v \in URL, NEW p, ~Known(v), PushURL(v, p), UNCHANGED reaper
      PROVE  ReaperExact'
  <2>1. index' = index /\ fresh' = fresh \ {v} /\ v \notin scan
    BY <1>0, <1>2 DEF PushURL
  <2> QED
    BY <1>0, <1>2, <2>1, ReaperStays
<1>3. ASSUME NEW e \in Exec, ExecStep(e) PROVE ReaperExact'
  <2>1. CASE Execute(e)
    BY <1>0, <2>1, ReaperStays DEF Execute, EnqueueURLs
  <2>2. CASE TakeOn(e)
    <3>1. /\ PopURL(WorkerOf[e]) /\ UNCHANGED reaper /\ FrontierInv
          /\ WorkerOf[e] \in Worker
      BY <2>2, ExecAssumption DEF TakeOn, DoneInv, StoreInv, CrawlerInv
    <3>2. Head(queue) \notin index
      BY <3>1, PopExact DEF Exact, Places
    <3>3. index' = index \cup {Head(queue)} /\ fresh' = fresh \cup {Head(queue)}
      BY <3>1 DEF PopURL
    <3> QED
      BY <1>0, <3>1, <3>2, <3>3, ReaperStays
  <2>3. CASE QueueEmpty(e) \/ Fetch(e) \/ SavePage(e) \/ SaveLink(e)
             \/ PushDone(e) \/ URLNotFound(e) \/ DeadContext(e)
    BY <1>1, <2>3 DEF QueueEmpty, Fetch, SavePage, SaveLink, PushDone,
                      URLNotFound, DeadContext
  <2>4. CASE Retry(e) \/ MarkDone(e) \/ MarkTerminal(e)
    <3>1. /\ pc[e] \notin {Idle, "take"} /\ UNCHANGED reaper
          /\ index' = index \ {Url(e)} /\ fresh' = fresh
      BY <2>4 DEF Retry, MarkDone, MarkTerminal, At, RetryURL, MarkProcessed, Idle
    <3>2. Url(e) \in fresh
      BY <3>1, HolderFacts
    <3> QED
      BY <1>0, <3>1, <3>2, ReaperStays
  <2>5. CASE PushLink(e)
    <3>1. PICK l \in unsent[e] : PushURL(l, Page(e))
      BY <2>5 DEF PushLink
    <3>2. l \in URL /\ UNCHANGED reaper
      BY <2>5 DEF PushLink, DoneInv, StoreInv, CrawlerInv, OwnTypeOK
    <3>3. Known(l) => UNCHANGED frontierVars
      BY <3>1 DEF PushURL
    <3> QED
      BY <3>1, <3>2, <3>3, <1>1, <1>2
  <2> QED
    BY <1>3, <2>1, <2>2, <2>3, <2>4, <2>5 DEF ExecStep, Returns
<1>4. CASE ScanIndex
  BY <1>4 DEF ScanIndex, ReaperExact, frontierVars
<1>5. CASE CheckRecord
  BY <1>0, <1>5 DEF CheckRecord, ReaperExact, frontierVars
<1>6. CASE Recover
  BY <1>0, <1>6 DEF Recover, RecoverURL, ReaperExact
<1>7. CASE HealthCheckFails \/ Crash
  BY <1>7 DEF HealthCheckFails, Crash, ReaperExact
<1>8. CASE Start
  BY <1>2, <1>8, WebAssumption DEF Start
<1>9. ASSUME NEW u \in URL, RetryTime(u) \/ LeaseTime(u) PROVE ReaperExact'
  BY <1>0, <1>9, ReaperStays DEF RetryTime, LeaseTime, RetryBecomesDue,
                                 LeaseExpires
<1>10. CASE (\E e \in Exec : CallFails(e)) \/ UNCHANGED vars
  BY <1>1, <1>10 DEF CallFails, vars, reaper
<1> QED
  BY <1>3, <1>4, <1>5, <1>6, <1>7, <1>8, <1>9, <1>10
     DEF ExactStep, Progress, HealthCheck

-----------------------------------------------------------------------------
(* The counts of OnePlace. *)
LEMMA OnePlaceCounted ==
  ASSUME DoneInv, Exact PROVE OnePlace
<1> SUFFICES ASSUME NEW u \in URL, Known(u)
             PROVE  /\ Copies(u) + Count(u \in retry) + Count(u \in index)
                         + Count(Closed(u)) = 1
                    /\ \A e \in Exec : job[e].key = u =>
                         /\ u \in index
                         /\ Owner(u) = WorkerOf[e]
                         /\ \A f \in Exec \ {e} : job[f].key # u
  BY DEF OnePlace
<1>1. /\ urlStatus[u].status \in Status
      /\ queue \in Seq(URL)
  BY DEF Known, DoneInv, StoreInv, CrawlerInv, FrontierInv, FrontierTypeOK,
         URLInfo
<1>2. /\ Holds(queue, u) <=> urlStatus[u].status = "Queued"
      /\ u \in index <=> urlStatus[u].status = "Processing"
      /\ u \in retry <=> urlStatus[u].status = "Retry"
      /\ Distinct(queue)
  BY DEF Exact, Places
<1>3. Copies(u) = IF Holds(queue, u) THEN 1 ELSE 0
  <2>1. CASE Holds(queue, u)
    <3>1. PICK i \in DOMAIN queue : queue[i] = u
      BY <2>1 DEF Holds
    <3>2. {j \in DOMAIN queue : queue[j] = u} = {i}
      BY <1>2, <3>1 DEF Distinct
    <3> QED
      BY <2>1, <3>2, FS_Singleton DEF Copies
  <2>2. CASE ~Holds(queue, u)
    <3>1. {j \in DOMAIN queue : queue[j] = u} = {}
      BY <2>2 DEF Holds
    <3> QED
      BY <2>2, <3>1, FS_EmptySet DEF Copies
  <2> QED
    BY <2>1, <2>2
<1>4. Copies(u) + Count(u \in retry) + Count(u \in index) + Count(Closed(u)) = 1
  BY <1>1, <1>2, <1>3 DEF Count, Closed, Status, Terminal
<1>5. ASSUME NEW e \in Exec, job[e].key = u
      PROVE  /\ u \in index
             /\ Owner(u) = WorkerOf[e]
             /\ \A f \in Exec \ {e} : job[f].key # u
  BY <1>5, NoURLAssumption DEF Exact, Held, HeldApart, Owner, NoJob
<1> QED
  BY <1>4, <1>5

-----------------------------------------------------------------------------
(* The theorems.  The seeds are in normal form; a run that stores another  *)
(* name than the one it closes is SourceMarked's.                          *)

LEMMA MCSteps == [MCNext]_mcVars => [Next]_vars
BY DEF MCNext, mcVars, Next, Disturbance, Progress

(* The history variable tells the disturbances apart. *)
LEMMA ExactSteps ==
  ASSUME [MCNext]_mcVars, exact'
  PROVE  exact /\ ExactStep /\ (attempts' = Attempts \/ UNCHANGED mcVars)
<1>1. CASE Progress /\ Calm
  BY <1>1 DEF Calm, ExactStep
<1>2. CASE (HealthCheckFails \/ \E e \in Exec : CallFails(e)) /\ Disturbs("fail")
  BY <1>2 DEF Disturbs, ExactStep
<1>3. CASE Crash /\ Disturbs("crash")
  BY <1>3 DEF Disturbs, ExactStep
<1>4. CASE Disturbs("expire") \/ Disturbs("lost") \/ Disturbs("slow")
  BY <1>4 DEF Disturbs
<1>5. CASE UNCHANGED mcVars
  BY <1>5 DEF mcVars, ExactStep
<1> QED
  BY <1>1, <1>2, <1>3, <1>4, <1>5 DEF MCNext

LEMMA ExactInit == MCInit => ExactInv
<1> SUFFICES ASSUME MCInit PROVE ExactInv
  OBVIOUS
<1>1. DoneInv
  BY StoreInit DEF MCInit, Init, FrontierInit, DoneInv, KeysNormal, DoneStored,
                   Known, Unknown
<1>2. Places /\ Distinct(queue) /\ TriesBounded
  BY TryLimAssumption DEF MCInit, Init, FrontierInit, Places, Holds, Distinct,
                          TriesBounded, Unknown
<1>3. (\A e \in Exec : Held(e)) /\ HeldApart /\ ReaperExact
  BY DEF MCInit, Init, Held, HeldApart, ReaperExact, Idle, NoJob
<1>4. Counted
  BY DEF MCInit, Init, FrontierInit, Counted, Known, Unknown
<1> QED
  BY <1>1, <1>2, <1>3, <1>4 DEF ExactInv, Exact

LEMMA ExactInvStep ==
  (\A s \in Seeds : Norm[s] = s) =>
     (ExactInv /\ [MCNext]_mcVars => ExactInv' /\ [exact' => LifeStep]_mcVars)
<1> SUFFICES ASSUME \A s \in Seeds : Norm[s] = s, ExactInv, [MCNext]_mcVars
             PROVE  ExactInv' /\ (exact' => LifeStep)
  OBVIOUS
<1>1. DoneInv'
  BY MCSteps, DoneStep DEF ExactInv
<1>2. ASSUME exact' PROVE Exact' /\ LifeStep
  <2>1. Exact /\ ExactStep /\ DoneInv
    BY <1>2, ExactSteps DEF ExactInv
  <2>2. ExactScript /\ FrontierInv /\ FrontierTypeOK'
    BY <1>1, <2>1, ExactScripts DEF DoneInv, StoreInv, CrawlerInv, FrontierInv
  <2>3. Places' /\ Distinct(queue') /\ TriesBounded' /\ LifeStep
    BY <2>1, <2>2, ScriptsExact DEF Exact
  <2>4. Counted'
    <3>1. CASE attempts' = Attempts
      BY <1>2, <2>1, <2>2, <2>3, <3>1, AttemptsCounted DEF Exact
    <3>2. CASE UNCHANGED mcVars
      BY <2>1, <3>2 DEF Exact, Counted, mcVars, vars, frontierVars, Known, Closed
    <3> QED
      BY <1>2, <3>1, <3>2, ExactSteps
  <2> QED
    BY <2>1, <2>3, <2>4, ExecsExact, ReaperStep DEF Exact
<1> QED
  BY <1>1, <1>2 DEF ExactInv

(* Whatever calls fail and however often the process crashes, a URL is in  *)
(* one place and one execution has it.                                     *)
THEOREM CrawlerOnePlace ==
  ASSUME \A s \in Seeds : Norm[s] = s
  PROVE  MCSpec => []OnePlaceWhileExact
<1>1. ExactInv /\ [MCNext]_mcVars => ExactInv'
  BY ExactInvStep
<1>2. ExactInv => OnePlaceWhileExact
  BY OnePlaceCounted DEF ExactInv, OnePlaceWhileExact
<1> QED
  BY <1>1, <1>2, ExactInit, PTL DEF MCSpec

(* ... the attempts of a URL, but for those a recovery took back, stay     *)
(* within its budget: the counter in the record, which recoveries keep and *)
(* retries raise, never gets behind them ...                               *)
THEOREM CrawlerRetryBudget ==
  ASSUME \A s \in Seeds : Norm[s] = s
  PROVE  MCSpec => []RetryBudgetWhileExact
<1>1. ExactInv /\ [MCNext]_mcVars => ExactInv'
  BY ExactInvStep
<1>2. ExactInv => RetryBudgetWhileExact
  <2> SUFFICES ASSUME ExactInv, exact, NEW u \in URL
               PROVE  attempts[u] <= 1 + TryLim
    BY DEF RetryBudgetWhileExact
  <2>1. urlStatus[u].try \in Nat /\ urlStatus[u].try <= TryLim
    BY DEF ExactInv, DoneInv, StoreInv, CrawlerInv, FrontierInv, FrontierTypeOK,
           URLInfo, Exact, TriesBounded
  <2>2. attempts[u] \in {0, urlStatus[u].try, urlStatus[u].try + 1}
    BY <2>1 DEF ExactInv, Exact, Counted, Count
  <2> QED
    BY <2>1, <2>2, TryLimAssumption
<1> QED
  BY <1>1, <1>2, ExactInit, PTL DEF MCSpec

(* ... and every step moves the URLs as URLLife says: what has an outcome  *)
(* keeps it.                                                               *)
THEOREM CrawlerLife ==
  ASSUME \A s \in Seeds : Norm[s] = s
  PROVE  MCSpec => LifeWhileExact
<1>1. ExactInv /\ [MCNext]_mcVars => ExactInv' /\ [exact' => LifeStep]_mcVars
  BY ExactInvStep
<1> QED
  BY <1>1, ExactInit, PTL DEF MCSpec, LifeWhileExact
=============================================================================
