--------------------------- MODULE FrontierProofs ---------------------------
(***************************************************************************)
(* What the frontier's scripts guarantee for any number of URLs and        *)
(* workers: the invariants of Frontier, each shown to be preserved by      *)
(* every script.                                                           *)
(***************************************************************************)
EXTENDS Frontier, FiniteSetTheorems, TLAPS

USE DEF InQueue, Owner

Holds(q, v) == \E i \in DOMAIN q : q[i] = v

-----------------------------------------------------------------------------
(* Sequences. *)

(* LPUSH keeps what the queue holds and adds one URL. *)
LEMMA AppendMembers ==
  ASSUME NEW q \in Seq(URL), NEW u \in URL, NEW v
  PROVE  /\ Append(q, u) \in Seq(URL)
         /\ Holds(Append(q, u), v) <=> v = u \/ Holds(q, v)
<1> DEFINE r == Append(q, u)
<1>1. r \in Seq(URL) /\ Len(r) = Len(q) + 1 /\ DOMAIN r = 1 .. Len(q) + 1
  OBVIOUS
<1>2. r[Len(q) + 1] = u /\ \A i \in 1 .. Len(q) : r[i] = q[i]
  OBVIOUS
<1>3. DOMAIN q = 1 .. Len(q) /\ Len(q) \in Nat
  OBVIOUS
<1>4. ASSUME \E i \in DOMAIN r : r[i] = v
      PROVE  v = u \/ \E i \in DOMAIN q : q[i] = v
  <2>1. PICK i \in 1 .. Len(q) + 1 : r[i] = v
    BY <1>1, <1>4
  <2>2. CASE i = Len(q) + 1
    BY <2>1, <2>2, <1>2
  <2>3. CASE i \in 1 .. Len(q)
    BY <2>1, <2>3, <1>2, <1>3
  <2> QED
    BY <2>1, <2>2, <2>3, <1>3
<1>5. ASSUME v = u \/ \E i \in DOMAIN q : q[i] = v
      PROVE  \E i \in DOMAIN r : r[i] = v
  <2>1. CASE v = u
    BY <2>1, <1>1, <1>2, <1>3
  <2>2. CASE \E i \in DOMAIN q : q[i] = v
    <3>1. PICK i \in 1 .. Len(q) : q[i] = v
      BY <2>2, <1>3
    <3>2. i \in 1 .. Len(q) + 1 /\ r[i] = v
      BY <3>1, <1>2, <1>3
    <3> QED
      BY <3>2, <1>1
  <2> QED
    BY <1>5, <2>1, <2>2
<1> QED
  BY <1>1, <1>4, <1>5 DEF Holds

(* LMOVE ... RIGHT loses only the URL it returns. *)
LEMMA TailMembers ==
  ASSUME NEW q \in Seq(URL), q # <<>>, NEW v
  PROVE  /\ Head(q) \in URL
         /\ Tail(q) \in Seq(URL)
         /\ Holds(q, v) /\ v # Head(q) => Holds(Tail(q), v)
         /\ Holds(Tail(q), v) => Holds(q, v)
<1>1. /\ Head(q) \in URL /\ Head(q) = q[1]
      /\ Tail(q) \in Seq(URL) /\ DOMAIN Tail(q) = 1 .. Len(q) - 1
      /\ \A i \in 1 .. Len(q) - 1 : Tail(q)[i] = q[i + 1]
  OBVIOUS
<1>2. DOMAIN q = 1 .. Len(q) /\ Len(q) \in Nat
  OBVIOUS
<1>3. ASSUME \E i \in DOMAIN q : q[i] = v, v # Head(q)
      PROVE  \E i \in DOMAIN Tail(q) : Tail(q)[i] = v
  <2>1. PICK i \in 1 .. Len(q) : q[i] = v
    BY <1>3, <1>2
  <2>2. i - 1 \in 1 .. Len(q) - 1 /\ Tail(q)[i - 1] = v
    <3>1. i # 1
      BY <2>1, <1>1, <1>3
    <3>2. i - 1 \in 1 .. Len(q) - 1 /\ (i - 1) + 1 = i
      BY <2>1, <3>1, <1>2
    <3> QED
      BY <3>2, <2>1, <1>1
  <2> QED
    BY <2>2, <1>1
<1>4. ASSUME NEW i \in DOMAIN Tail(q)
      PROVE  \E j \in DOMAIN q : q[j] = Tail(q)[i]
  <2>1. i + 1 \in 1 .. Len(q) /\ Tail(q)[i] = q[i + 1]
    BY <1>1, <1>2
  <2> QED
    BY <2>1, <1>2
<1> QED
  BY <1>1, <1>3, <1>4 DEF Holds

(* A batch of LPUSHes adds exactly the batch. *)
LEMMA ConcatMembers ==
  ASSUME NEW q \in Seq(URL), NEW s \in Seq(URL), NEW v
  PROVE  /\ q \o s \in Seq(URL)
         /\ Holds(q \o s, v) <=> Holds(q, v) \/ Holds(s, v)
<1> DEFINE r == q \o s
<1>1. /\ r \in Seq(URL) /\ DOMAIN r = 1 .. Len(q) + Len(s)
      /\ \A i \in 1 .. Len(q) + Len(s) :
           r[i] = IF i <= Len(q) THEN q[i] ELSE s[i - Len(q)]
  OBVIOUS
<1>2. /\ DOMAIN q = 1 .. Len(q) /\ Len(q) \in Nat
      /\ DOMAIN s = 1 .. Len(s) /\ Len(s) \in Nat
  OBVIOUS
<1> HIDE DEF r
<1>3. ASSUME NEW i \in DOMAIN r, r[i] = v
      PROVE  (\E k \in DOMAIN q : q[k] = v) \/ (\E k \in DOMAIN s : s[k] = v)
  <2>1. CASE i <= Len(q)
    <3>1. i \in DOMAIN q /\ q[i] = v
      BY <2>1, <1>1, <1>2, <1>3
    <3> QED
      BY <3>1
  <2>2. CASE ~(i <= Len(q))
    <3>1. i - Len(q) \in DOMAIN s /\ s[i - Len(q)] = v
      BY <2>2, <1>1, <1>2, <1>3
    <3> QED
      BY <3>1
  <2> QED
    BY <2>1, <2>2
<1>4. ASSUME NEW i \in DOMAIN q, q[i] = v
      PROVE  \E k \in DOMAIN r : r[k] = v
  <2>1. i \in DOMAIN r /\ r[i] = v
    BY <1>1, <1>2, <1>4
  <2> QED
    BY <2>1
<1>5. ASSUME NEW i \in DOMAIN s, s[i] = v
      PROVE  \E k \in DOMAIN r : r[k] = v
  <2>1. Len(q) + i \in DOMAIN r /\ r[Len(q) + i] = v
    BY <1>1, <1>2, <1>5
  <2> QED
    BY <2>1
<1> QED
  BY <1>1, <1>3, <1>4, <1>5 DEF r, Holds

(* Every due URL is in the batch, in whatever order. *)
LEMMA OrdersMembers ==
  ASSUME due \in SUBSET URL, NEW s \in ScoreOrders
  PROVE  s \in Seq(URL) /\ \A v : Holds(s, v) <=> v \in due
<1>1. /\ s \in [1 .. Cardinality(due) -> due]
      /\ \A u \in due : \E i \in DOMAIN s : s[i] = u
  BY DEF ScoreOrders
<1>2. Cardinality(due) \in Nat
  BY URLAssumption, FS_Subset, FS_CardinalityType
<1>3. s \in [1 .. Cardinality(due) -> URL]
  BY <1>1
<1> QED
  BY <1>1, <1>2, <1>3 DEF Holds

-----------------------------------------------------------------------------
(* The inductive invariant.  NoURLLost needs the type only; IndexOwned     *)
(* needs it for the arithmetic of the lists; RecordsComplete is what keeps *)
(* every script out of its branch for a missing record.                    *)

FrontierInv == /\ FrontierTypeOK
               /\ NoURLLost
               /\ IndexOwned
               /\ RecordsComplete

USE URLAssumption, WorkerAssumption, ParentAssumption

(* Nothing has been crawled yet. *)
LEMMA InitInv == FrontierInit => FrontierInv
<1> SUFFICES ASSUME FrontierInit PROVE FrontierInv
  OBVIOUS
<1>1. FrontierTypeOK
  BY DEF FrontierInit, FrontierTypeOK, URLInfo, Unknown
<1>2. NoURLLost /\ IndexOwned /\ RecordsComplete
  BY DEF FrontierInit, NoURLLost, IndexOwned, RecordsComplete, Unknown, Known
<1> QED
  BY <1>1, <1>2 DEF FrontierInv

(* pushURLScript: the new URL is Queued and in the queue. *)
LEMMA PushURLInv ==
  ASSUME FrontierInv, NEW u \in URL, NEW p \in URL \cup {NoParent},
         PushURL(u, p)
  PROVE  FrontierInv'
<1>1. CASE Known(u)
  BY <1>1 DEF PushURL, frontierVars, FrontierInv, FrontierTypeOK, NoURLLost,
              IndexOwned, RecordsComplete, Known
<1>2. CASE ~Known(u)
  <2> DEFINE rec == [status |-> "Queued", worker |-> NoWorker,
                     try |-> 0, parent |-> p]
  <2>1. /\ queue' = Append(queue, u)
        /\ urlStatus' = [urlStatus EXCEPT ![u] = rec]
        /\ fresh' = fresh \ {u}
        /\ UNCHANGED <<retry, due, index, procQueue>>
    BY <1>2 DEF PushURL
  <2>2. rec \in URLInfo
    BY DEF URLInfo, Status
  <2>3. /\ urlStatus'[u] = rec
        /\ \A v \in URL : v # u => urlStatus'[v] = urlStatus[v]
    BY <2>1 DEF FrontierInv, FrontierTypeOK
  <2>4. ASSUME NEW v \in URL PROVE InQueue(v)' <=> v = u \/ InQueue(v)
    <3>1. queue \in Seq(URL)
      BY DEF FrontierInv, FrontierTypeOK
    <3>2. Holds(Append(queue, u), v) <=> v = u \/ Holds(queue, v)
      BY <3>1, AppendMembers
    <3> QED
      BY <3>2, <2>1 DEF Holds
  <2>5. FrontierTypeOK'
    BY <2>1, <2>2, AppendMembers DEF FrontierInv, FrontierTypeOK
  <2>6. NoURLLost'
    BY <2>1, <2>3, <2>4 DEF FrontierInv, NoURLLost
  <2>7. u \notin index
    BY <1>2 DEF FrontierInv, RecordsComplete
  <2>8. IndexOwned'
    BY <2>1, <2>3, <2>7 DEF FrontierInv, FrontierTypeOK, IndexOwned
  <2>9. RecordsComplete'
    <3> SUFFICES ASSUME NEW v \in URL
                 PROVE  /\ InQueue(v)' \/ v \in retry' \cup index' => Known(v)'
                        /\ Known(v)' => urlStatus'[v].parent # NilParent
      BY DEF RecordsComplete
    <3>1. CASE v = u
      BY <3>1, <2>3 DEF Known
    <3>2. CASE v # u
      BY <3>2, <2>1, <2>3, <2>4 DEF FrontierInv, RecordsComplete, Known
    <3> QED
      BY <3>1, <3>2
  <2> QED
    BY <2>5, <2>6, <2>8, <2>9 DEF FrontierInv
<1> QED
  BY <1>1, <1>2

(* popURLScript: the URL goes to the index, and to the list of the worker  *)
(* the record now names.                                                   *)
LEMMA PopURLInv ==
  ASSUME FrontierInv, NEW w \in Worker, PopURL(w)
  PROVE  FrontierInv'
<1> DEFINE u == Head(queue)
           rec == [urlStatus[u] EXCEPT !.status = "Processing", !.worker = w]
<1>1. u \in URL /\ Tail(queue) \in Seq(URL)
  BY TailMembers DEF PopURL, FrontierInv, FrontierTypeOK
<1>2. /\ queue # <<>>
      /\ Known(u)
      /\ queue' = Tail(queue)
      /\ procQueue' = [procQueue EXCEPT ![<<w, u>>] = @ + 1]
      /\ index' = index \cup {u}
      /\ fresh' = fresh \cup {u}
      /\ UNCHANGED <<retry, due>>
  BY DEF PopURL
<1>3. /\ urlStatus' \in [URL -> URLInfo]
      /\ urlStatus'[u] = rec
      /\ \A v \in URL : v # u => urlStatus'[v] = urlStatus[v]
  BY <1>1 DEF PopURL, FrontierInv, FrontierTypeOK, URLInfo, Status
<1>4. /\ rec.status = "Processing"
      /\ rec.worker = w
      /\ rec.parent = urlStatus[u].parent
  BY <1>1 DEF FrontierInv, FrontierTypeOK, URLInfo
<1>5. /\ procQueue' \in [Worker \X URL -> Nat]
      /\ procQueue'[<<w, u>>] > 0
      /\ \A wu \in Worker \X URL : procQueue'[wu] >= procQueue[wu]
  <2>1. procQueue \in [Worker \X URL -> Nat] /\ <<w, u>> \in Worker \X URL
    BY <1>1 DEF FrontierInv, FrontierTypeOK
  <2>2. procQueue[<<w, u>>] \in Nat /\ procQueue[<<w, u>>] + 1 > 0
    BY <2>1
  <2>3. procQueue'[<<w, u>>] = procQueue[<<w, u>>] + 1
    BY <1>2, <2>1
  <2>4. procQueue' \in [Worker \X URL -> Nat]
    BY <1>2, <2>1, <2>2
  <2>5. ASSUME NEW wu \in Worker \X URL
        PROVE  procQueue'[wu] >= procQueue[wu]
    <3>1. procQueue[wu] \in Nat
      BY <2>1
    <3>2. CASE wu = <<w, u>>
      BY <3>2, <2>2, <2>3
    <3>3. CASE wu # <<w, u>>
      BY <3>1, <3>3, <1>2, <2>1
    <3> QED
      BY <3>2, <3>3
  <2> QED
    BY <2>2, <2>3, <2>4, <2>5
<1>6. ASSUME NEW v \in URL
      PROVE  /\ v # u /\ InQueue(v) => InQueue(v)'
             /\ InQueue(v)' => InQueue(v)
  <2>1. queue \in Seq(URL) /\ queue # <<>>
    BY <1>2 DEF FrontierInv, FrontierTypeOK
  <2>2. /\ Holds(queue, v) /\ v # u => Holds(Tail(queue), v)
        /\ Holds(Tail(queue), v) => Holds(queue, v)
    BY <2>1, TailMembers
  <2> QED
    BY <2>2, <1>2 DEF Holds
<1>7. FrontierTypeOK'
  BY <1>1, <1>2, <1>3, <1>5 DEF FrontierInv, FrontierTypeOK
<1>8. NoURLLost'
  <2> SUFFICES ASSUME NEW v \in URL
               PROVE  /\ urlStatus'[v].status = "Queued" => InQueue(v)'
                      /\ urlStatus'[v].status = "Processing" => v \in index'
                      /\ urlStatus'[v].status = "Retry" => v \in retry'
    BY DEF NoURLLost
  <2>1. CASE v = u
    BY <2>1, <1>2, <1>3, <1>4
  <2>2. CASE v # u
    BY <2>2, <1>2, <1>3, <1>6 DEF FrontierInv, NoURLLost
  <2> QED
    BY <2>1, <2>2
<1>9. IndexOwned'
  <2> SUFFICES ASSUME NEW v \in index'
               PROVE  /\ urlStatus'[v].worker \in Worker
                      /\ procQueue'[<<urlStatus'[v].worker, v>>] > 0
                      /\ urlStatus'[v].status \in {"Processing", "Queued"}
    BY DEF IndexOwned
  <2>1. CASE v = u
    BY <2>1, <1>3, <1>4, <1>5
  <2>2. CASE v # u
    <3>1. v \in index /\ v \in URL /\ urlStatus'[v] = urlStatus[v]
      BY <2>2, <1>2, <1>3 DEF FrontierInv, FrontierTypeOK
    <3>2. /\ urlStatus[v].worker \in Worker
          /\ procQueue[<<urlStatus[v].worker, v>>] > 0
          /\ urlStatus[v].status \in {"Processing", "Queued"}
      BY <3>1 DEF FrontierInv, IndexOwned
    <3>3. procQueue[<<urlStatus[v].worker, v>>] \in Nat
      BY <3>1, <3>2 DEF FrontierInv, FrontierTypeOK
    <3>4. procQueue'[<<urlStatus[v].worker, v>>] \in Nat
      BY <3>1, <3>2, <1>5
    <3>5. procQueue'[<<urlStatus[v].worker, v>>] > 0
      BY <3>1, <3>2, <3>3, <3>4, <1>5
    <3> QED
      BY <3>1, <3>2, <3>5
  <2> QED
    BY <2>1, <2>2
<1>10. RecordsComplete'
  <2> SUFFICES ASSUME NEW v \in URL
               PROVE  /\ InQueue(v)' \/ v \in retry' \cup index' => Known(v)'
                      /\ Known(v)' => urlStatus'[v].parent # NilParent
    BY DEF RecordsComplete
  <2>1. CASE v = u
    BY <2>1, <1>2, <1>3, <1>4 DEF FrontierInv, RecordsComplete, Known
  <2>2. CASE v # u
    BY <2>2, <1>2, <1>3, <1>6 DEF FrontierInv, RecordsComplete, Known
  <2> QED
    BY <2>1, <2>2
<1> QED
  BY <1>7, <1>8, <1>9, <1>10 DEF FrontierInv

(* LREM touches the entries of one URL only. *)
LEMMA LRemKeepsOthers ==
  ASSUME procQueue \in [Worker \X URL -> Nat], NEW w, NEW u
  PROVE  /\ LRemOne(w, u) \in [Worker \X URL -> Nat]
         /\ LRemAll(w, u) \in [Worker \X URL -> Nat]
         /\ \A x \in Worker, v \in URL : v # u =>
              /\ LRemOne(w, u)[<<x, v>>] = procQueue[<<x, v>>]
              /\ LRemAll(w, u)[<<x, v>>] = procQueue[<<x, v>>]
<1>1. \A wu \in Worker \X URL : procQueue[wu] \in Nat
  OBVIOUS
<1>2. \A n \in Nat : n > 0 => n - 1 \in Nat
  OBVIOUS
<1>3. LRemOne(w, u) \in [Worker \X URL -> Nat]
  BY <1>1, <1>2 DEF LRemOne
<1>4. LRemAll(w, u) \in [Worker \X URL -> Nat]
  BY <1>1 DEF LRemAll
<1>5. ASSUME NEW x \in Worker, NEW v \in URL, v # u
      PROVE  /\ LRemOne(w, u)[<<x, v>>] = procQueue[<<x, v>>]
             /\ LRemAll(w, u)[<<x, v>>] = procQueue[<<x, v>>]
  BY <1>5 DEF LRemOne, LRemAll
<1> QED
  BY <1>3, <1>4, <1>5

(* A script that changes the status of a record changes nothing else.      *)
LEMMA StatusChange ==
  ASSUME urlStatus \in [URL -> URLInfo], NEW u \in URL, NEW s \in Status,
         urlStatus' = [urlStatus EXCEPT ![u].status = s]
  PROVE  /\ urlStatus' \in [URL -> URLInfo]
         /\ \A v \in URL : v # u => urlStatus'[v] = urlStatus[v]
         /\ urlStatus'[u].status = s
         /\ urlStatus'[u].try = urlStatus[u].try
         /\ urlStatus'[u].parent = urlStatus[u].parent
<1> DEFINE rec == [urlStatus[u] EXCEPT !.status = s]
<1>1. urlStatus[u] \in URLInfo
  OBVIOUS
<1>2. /\ rec \in URLInfo
      /\ rec.status = s
      /\ rec.try = urlStatus[u].try
      /\ rec.parent = urlStatus[u].parent
  BY <1>1 DEF URLInfo
<1>3. urlStatus' = [urlStatus EXCEPT ![u] = rec]
  OBVIOUS
<1> QED
  BY <1>2, <1>3

(* A script that releases one URL from the index and from a list leaves    *)
(* the other URLs owned.                                                   *)
LEMMA ReleaseKeepsOwned ==
  ASSUME FrontierTypeOK, IndexOwned, NEW u \in URL, NEW w,
         index' = index \ {u},
         procQueue' = LRemOne(w, u) \/ procQueue' = LRemAll(w, u),
         \A v \in URL : v # u => urlStatus'[v] = urlStatus[v]
  PROVE  procQueue' \in [Worker \X URL -> Nat] /\ IndexOwned'
<1>1. /\ procQueue' \in [Worker \X URL -> Nat]
      /\ \A x \in Worker, v \in URL :
           v # u => procQueue'[<<x, v>>] = procQueue[<<x, v>>]
  <2>1. /\ LRemOne(w, u) \in [Worker \X URL -> Nat]
        /\ LRemAll(w, u) \in [Worker \X URL -> Nat]
        /\ \A x \in Worker, v \in URL : v # u =>
             /\ LRemOne(w, u)[<<x, v>>] = procQueue[<<x, v>>]
             /\ LRemAll(w, u)[<<x, v>>] = procQueue[<<x, v>>]
    <3>1. procQueue \in [Worker \X URL -> Nat]
      BY DEF FrontierTypeOK
    <3> QED
      BY <3>1, LRemKeepsOthers
  <2>2. CASE procQueue' = LRemOne(w, u)
    BY <2>1, <2>2
  <2>3. CASE procQueue' = LRemAll(w, u)
    BY <2>1, <2>3
  <2> QED
    BY <2>2, <2>3
<1>2. ASSUME NEW v \in index'
      PROVE  /\ urlStatus'[v].worker \in Worker
             /\ procQueue'[<<urlStatus'[v].worker, v>>] > 0
             /\ urlStatus'[v].status \in {"Processing", "Queued"}
  <2>1. v \in index /\ v \in URL /\ v # u /\ urlStatus'[v] = urlStatus[v]
    BY DEF FrontierTypeOK
  <2>2. /\ urlStatus[v].worker \in Worker
        /\ procQueue[<<urlStatus[v].worker, v>>] > 0
        /\ urlStatus[v].status \in {"Processing", "Queued"}
    BY <2>1 DEF IndexOwned
  <2> QED
    BY <1>1, <2>1, <2>2
<1> QED
  BY <1>1, <1>2 DEF IndexOwned

(* retryURLScript: the URL leaves the index for the retry set. *)
LEMMA RetryURLInv ==
  ASSUME FrontierInv, NEW u \in URL, RetryURL(u)
  PROVE  FrontierInv'
<1> DEFINE rec == urlStatus'[u]
<1>1. /\ Known(u)
      /\ urlStatus' = [urlStatus EXCEPT ![u].status = "Retry",
                                        ![u].try = @ + 1]
      /\ procQueue' = LRemOne(Owner(u), u)
      /\ index' = index \ {u}
      /\ retry' = retry \cup {u}
      /\ due' = due \ {u}
      /\ UNCHANGED <<queue, fresh>>
  BY DEF RetryURL
<1>2. /\ urlStatus' \in [URL -> URLInfo]
      /\ \A v \in URL : v # u => urlStatus'[v] = urlStatus[v]
      /\ rec.status = "Retry"
      /\ rec.parent = urlStatus[u].parent
  BY <1>1 DEF FrontierInv, FrontierTypeOK, URLInfo, Status
<1>3. procQueue' \in [Worker \X URL -> Nat] /\ IndexOwned'
  BY <1>1, <1>2, ReleaseKeepsOwned DEF FrontierInv
<1>4. FrontierTypeOK'
  BY <1>1, <1>2, <1>3 DEF FrontierInv, FrontierTypeOK
<1>5. NoURLLost'
  BY <1>1, <1>2 DEF FrontierInv, NoURLLost
<1>6. RecordsComplete'
  BY <1>1, <1>2 DEF FrontierInv, RecordsComplete, Known
<1> QED
  BY <1>3, <1>4, <1>5, <1>6 DEF FrontierInv

(* markProcessedScript: an outcome promises no place to be found in. *)
LEMMA MarkProcessedInv ==
  ASSUME FrontierInv, NEW u \in URL, NEW s \in Terminal, MarkProcessed(u, s)
  PROVE  FrontierInv'
<1>1. /\ Known(u)
      /\ urlStatus' = [urlStatus EXCEPT ![u].status = s]
      /\ procQueue' = LRemOne(Owner(u), u)
      /\ index' = index \ {u}
      /\ UNCHANGED <<queue, retry, due, fresh>>
  BY DEF MarkProcessed
<1>2. /\ urlStatus' \in [URL -> URLInfo]
      /\ \A v \in URL : v # u => urlStatus'[v] = urlStatus[v]
      /\ urlStatus'[u].status = s
      /\ urlStatus'[u].parent = urlStatus[u].parent
  <2>1. urlStatus \in [URL -> URLInfo] /\ s \in Status
    BY DEF FrontierInv, FrontierTypeOK, Status
  <2> QED
    BY <1>1, <2>1, StatusChange
<1>3. procQueue' \in [Worker \X URL -> Nat] /\ IndexOwned'
  BY <1>1, <1>2, ReleaseKeepsOwned DEF FrontierInv
<1>4. FrontierTypeOK'
  BY <1>1, <1>2, <1>3 DEF FrontierInv, FrontierTypeOK
<1>5. NoURLLost'
  BY <1>1, <1>2 DEF FrontierInv, NoURLLost, Terminal
<1>6. RecordsComplete'
  BY <1>1, <1>2 DEF FrontierInv, RecordsComplete, Known, Terminal
<1> QED
  BY <1>3, <1>4, <1>5, <1>6 DEF FrontierInv

(* recoverScript: the URL leaves the index for the queue. *)
LEMMA RecoverURLInv ==
  ASSUME FrontierInv, NEW u \in URL, Known(u), RecoverURL(u)
  PROVE  FrontierInv'
<1>1. /\ urlStatus' = [urlStatus EXCEPT ![u].status = "Queued"]
      /\ procQueue' = LRemAll(Owner(u), u)
      /\ index' = index \ {u}
      /\ queue' = Append(queue, u)
      /\ UNCHANGED <<retry, due, fresh>>
  BY DEF RecoverURL
<1>2. /\ urlStatus' \in [URL -> URLInfo]
      /\ \A v \in URL : v # u => urlStatus'[v] = urlStatus[v]
      /\ urlStatus'[u].status = "Queued"
      /\ urlStatus'[u].parent = urlStatus[u].parent
  <2>1. urlStatus \in [URL -> URLInfo] /\ "Queued" \in Status
    BY DEF FrontierInv, FrontierTypeOK, Status
  <2> QED
    BY <1>1, <2>1, StatusChange
<1>3. procQueue' \in [Worker \X URL -> Nat] /\ IndexOwned'
  BY <1>1, <1>2, ReleaseKeepsOwned DEF FrontierInv
<1>4. ASSUME NEW v \in URL PROVE InQueue(v)' <=> v = u \/ InQueue(v)
  <2>1. queue \in Seq(URL)
    BY DEF FrontierInv, FrontierTypeOK
  <2>2. Holds(Append(queue, u), v) <=> v = u \/ Holds(queue, v)
    BY <2>1, AppendMembers
  <2> QED
    BY <2>2, <1>1 DEF Holds
<1>5. FrontierTypeOK'
  BY <1>1, <1>2, <1>3, AppendMembers DEF FrontierInv, FrontierTypeOK
<1>6. NoURLLost'
  BY <1>1, <1>2, <1>4 DEF FrontierInv, NoURLLost
<1>7. RecordsComplete'
  BY <1>1, <1>2, <1>4 DEF FrontierInv, RecordsComplete, Known
<1> QED
  BY <1>3, <1>5, <1>6, <1>7 DEF FrontierInv

(* enqueueURLsScript: exactly the due URLs move from the retry set to the  *)
(* queue, whatever the order of their scores.                              *)
LEMMA EnqueueURLsInv ==
  ASSUME FrontierInv, EnqueueURLs
  PROVE  FrontierInv'
<1>1. PICK s \in ScoreOrders : queue' = queue \o s
  BY DEF EnqueueURLs
<1>2. /\ urlStatus' = [u \in URL |-> IF u \in due THEN Requeued(urlStatus[u])
                                     ELSE urlStatus[u]]
      /\ retry' = retry \ due
      /\ due' = {}
      /\ UNCHANGED <<index, procQueue, fresh>>
  BY DEF EnqueueURLs
<1>3. due \in SUBSET URL /\ due \subseteq retry /\ queue \in Seq(URL)
  BY DEF FrontierInv, FrontierTypeOK
<1>4. s \in Seq(URL) /\ \A v : Holds(s, v) <=> v \in due
  BY <1>3, OrdersMembers
<1>5. ASSUME NEW v \in URL PROVE InQueue(v)' <=> v \in due \/ InQueue(v)
  <2>1. Holds(s, v) <=> v \in due
    BY <1>4 DEF Holds
  <2>2. Holds(queue \o s, v) <=> Holds(queue, v) \/ Holds(s, v)
    BY <1>3, <1>4, ConcatMembers
  <2>3. InQueue(v)' <=> Holds(queue \o s, v)
    BY <1>1 DEF Holds
  <2>4. InQueue(v) <=> Holds(queue, v)
    BY DEF Holds
  <2> QED
    BY <2>1, <2>2, <2>3, <2>4
<1>6. ASSUME NEW v \in due
      PROVE  /\ v \in URL
             /\ Known(v)
             /\ urlStatus'[v] \in URLInfo
             /\ urlStatus'[v].status = "Queued"
             /\ urlStatus'[v].worker = urlStatus[v].worker
             /\ urlStatus'[v].try = urlStatus[v].try
             /\ urlStatus'[v].parent = urlStatus[v].parent
  <2>1. v \in URL /\ Known(v)
    BY <1>3 DEF FrontierInv, RecordsComplete
  <2>2. urlStatus[v] \in URLInfo
    BY <2>1 DEF FrontierInv, FrontierTypeOK
  <2>3. urlStatus'[v] = Requeued(urlStatus[v])
    BY <1>2, <2>1
  <2>4. Requeued(urlStatus[v]) = [urlStatus[v] EXCEPT !.status = "Queued"]
    BY <2>1, <2>2 DEF Requeued, Known, URLInfo
  <2> QED
    BY <2>1, <2>2, <2>3, <2>4 DEF URLInfo, Status
<1>7. \A v \in URL : v \notin due => urlStatus'[v] = urlStatus[v]
  BY <1>2
<1>8. FrontierTypeOK'
  <2>1. queue' \in Seq(URL)
    BY <1>1, <1>3, <1>4, ConcatMembers
  <2>2. urlStatus' \in [URL -> URLInfo]
    BY <1>2, <1>6, <1>7 DEF FrontierInv, FrontierTypeOK
  <2> QED
    BY <2>1, <2>2, <1>2 DEF FrontierInv, FrontierTypeOK
<1>9. NoURLLost'
  BY <1>2, <1>5, <1>6, <1>7 DEF FrontierInv, NoURLLost
<1>10. IndexOwned'
  BY <1>2, <1>3, <1>6, <1>7 DEF FrontierInv, FrontierTypeOK, IndexOwned
<1>11. RecordsComplete'
  BY <1>2, <1>5, <1>6, <1>7 DEF FrontierInv, RecordsComplete, Known
<1> QED
  BY <1>8, <1>9, <1>10, <1>11 DEF FrontierInv

(* The passing of time changes what is due and what is worrying, no more. *)
LEMMA TimeInv ==
  ASSUME FrontierInv, NEW u \in URL, RetryBecomesDue(u) \/ LeaseExpires(u)
  PROVE  FrontierInv'
<1>1. /\ UNCHANGED <<queue, retry, urlStatus, index, procQueue>>
      /\ due' \in SUBSET retry
      /\ fresh' \in SUBSET URL
  BY DEF RetryBecomesDue, LeaseExpires, FrontierInv, FrontierTypeOK
<1>2. FrontierTypeOK'
  BY <1>1 DEF FrontierInv, FrontierTypeOK
<1>3. NoURLLost' /\ IndexOwned' /\ RecordsComplete'
  BY <1>1 DEF FrontierInv, NoURLLost, IndexOwned, RecordsComplete, Known
<1> QED
  BY <1>2, <1>3 DEF FrontierInv

(* Every script preserves the invariant. *)
LEMMA NextInv == FrontierInv /\ [FrontierNext]_frontierVars => FrontierInv'
<1> SUFFICES ASSUME FrontierInv, [FrontierNext]_frontierVars
             PROVE  FrontierInv'
  OBVIOUS
<1>1. CASE \E u \in URL, p \in URL \cup {NoParent} : PushURL(u, p)
  BY <1>1, PushURLInv
<1>2. CASE \E w \in Worker : PopURL(w)
  BY <1>2, PopURLInv
<1>3. CASE \E u \in URL : RetryURL(u)
  BY <1>3, RetryURLInv
<1>4. CASE \E u \in URL, s \in Terminal : MarkProcessed(u, s)
  BY <1>4, MarkProcessedInv
<1>5. CASE \E u \in URL : Known(u) /\ RecoverURL(u)
  BY <1>5, RecoverURLInv
<1>6. CASE EnqueueURLs
  BY <1>6, EnqueueURLsInv
<1>7. CASE \E u \in URL : RetryBecomesDue(u) \/ LeaseExpires(u)
  BY <1>7, TimeInv
<1>8. CASE UNCHANGED frontierVars
  BY <1>8 DEF frontierVars, FrontierInv, FrontierTypeOK, NoURLLost,
              IndexOwned, RecordsComplete, Known
<1> QED
  BY <1>1, <1>2, <1>3, <1>4, <1>5, <1>6, <1>7, <1>8 DEF FrontierNext

-----------------------------------------------------------------------------
(* The theorems. *)

(* The frontier's data keeps its shape under every sequence of scripts. *)
THEOREM FrontierTypeCorrect == FrontierSpec => []FrontierTypeOK
<1>1. FrontierInv => FrontierTypeOK
  BY DEF FrontierInv
<1> QED
  BY <1>1, InitInv, NextInv, PTL DEF FrontierSpec

(* No sequence of scripts loses a URL: whatever a worker died in, what is  *)
(* left to do is in the queue, the index or the retry set.                 *)
THEOREM FrontierLosesNoURL == FrontierSpec => []NoURLLost
<1>1. FrontierInv => NoURLLost
  BY DEF FrontierInv
<1> QED
  BY <1>1, InitInv, NextInv, PTL DEF FrontierSpec

(* A URL under processing stays on the list of the worker its record names. *)
THEOREM FrontierIndexOwned == FrontierSpec => []IndexOwned
<1>1. FrontierInv => IndexOwned
  BY DEF FrontierInv
<1> QED
  BY <1>1, InitInv, NextInv, PTL DEF FrontierSpec

(* A take-on never meets a missing or an incomplete record. *)
THEOREM FrontierRecordsComplete == FrontierSpec => []RecordsComplete
<1>1. FrontierInv => RecordsComplete
  BY DEF FrontierInv
<1> QED
  BY <1>1, InitInv, NextInv, PTL DEF FrontierSpec

(* One script, or the passing of time, keeps every record's history. *)
LEMMA NextKeepsHistory ==
  FrontierInv /\ [FrontierNext]_frontierVars => [HistoryStep]_frontierVars
<1> SUFFICES ASSUME FrontierInv, FrontierNext, NEW v \in URL, Known(v)
             PROVE  /\ Known(v)'
                    /\ urlStatus'[v].try >= urlStatus[v].try
                    /\ urlStatus'[v].parent = urlStatus[v].parent
  BY DEF HistoryStep
<1>1. urlStatus \in [URL -> URLInfo] /\ urlStatus[v] \in URLInfo
  BY DEF FrontierInv, FrontierTypeOK
<1>2. urlStatus[v].try \in Nat
  BY <1>1 DEF URLInfo
<1> DEFINE Kept == /\ Known(v)'
                   /\ urlStatus'[v].try >= urlStatus[v].try
                   /\ urlStatus'[v].parent = urlStatus[v].parent
<1>3. ASSUME urlStatus' = urlStatus PROVE Kept
  BY <1>2, <1>3 DEF Known
<1>4. ASSUME NEW u \in URL, NEW s \in Status,
             urlStatus' = [urlStatus EXCEPT ![u].status = s]
      PROVE  Kept
  <2>1. CASE v = u
    BY <2>1, <1>1, <1>2, <1>4, StatusChange DEF Known, Status, Terminal
  <2>2. CASE v # u
    BY <2>2, <1>1, <1>2, <1>4 DEF Known
  <2> QED
    BY <2>1, <2>2
<1>5. ASSUME NEW u \in URL, NEW p \in URL \cup {NoParent}, PushURL(u, p)
      PROVE  Kept
  BY <1>1, <1>2, <1>5 DEF PushURL, frontierVars, Known
<1>6. ASSUME NEW w \in Worker, PopURL(w)
      PROVE  Kept
  BY <1>1, <1>2, <1>6 DEF PopURL, Known, URLInfo
<1>7. ASSUME NEW u \in URL, RetryURL(u)
      PROVE  Kept
  BY <1>1, <1>2, <1>7 DEF RetryURL, Known, URLInfo
<1>8. ASSUME EnqueueURLs
      PROVE  Kept
  <2>1. urlStatus'[v] = urlStatus[v] \/ urlStatus'[v] = Requeued(urlStatus[v])
    BY <1>8 DEF EnqueueURLs
  <2>2. Requeued(urlStatus[v]) = [urlStatus[v] EXCEPT !.status = "Queued"]
    BY <1>1 DEF Requeued, Known, URLInfo
  <2>3. CASE urlStatus'[v] = urlStatus[v]
    BY <2>3, <1>2 DEF Known
  <2>4. CASE urlStatus'[v] = Requeued(urlStatus[v])
    BY <2>2, <2>4, <1>1, <1>2 DEF Known, URLInfo
  <2> QED
    BY <2>1, <2>3, <2>4
<1>9. ASSUME NEW u \in URL, NEW s \in Terminal, MarkProcessed(u, s)
      PROVE  Kept
  BY <1>4, <1>9 DEF MarkProcessed, Status
<1>10. ASSUME NEW u \in URL, RecoverURL(u)
       PROVE  Kept
  BY <1>4, <1>10 DEF RecoverURL, Status
<1>11. ASSUME NEW u \in URL, RetryBecomesDue(u) \/ LeaseExpires(u)
       PROVE  Kept
  BY <1>3, <1>11 DEF RetryBecomesDue, LeaseExpires
<1> QED
  BY <1>5, <1>6, <1>7, <1>8, <1>9, <1>10, <1>11 DEF FrontierNext

(* Attempt counters never go back and parents are never rewritten, so no   *)
(* recovery and no duplicate gives a URL its retries back.                 *)
THEOREM FrontierKeepsHistory == FrontierSpec => HistoryKept
BY InitInv, NextInv, NextKeepsHistory, PTL DEF FrontierSpec, HistoryKept
=============================================================================
