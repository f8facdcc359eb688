----------------------------- MODULE WorkerPool -----------------------------
(***************************************************************************)
(* How the workers of the pool fall asleep and are woken: the loop of      *)
(* Worker.run, the metadata read that decides how long to sleep, the       *)
(* keyspace notifications of the queue, and the two layers of channels of  *)
(* capacity one between them and the workers (src/internal/delivery/       *)
(* worker/worker.go, storage/redis/queue.go).                              *)
(*                                                                         *)
(* The frontier is reduced to where each URL is, and an execution to what  *)
(* it does to that.  Worker.run stops waiting for an execution after 15 s, *)
(* but the goroutine goes on: what it has under way still reaches Redis,   *)
(* and it may yet give up its URL, in a context of its own.                *)
(***************************************************************************)
EXTENDS Naturals, FiniteSets

CONSTANTS
  URL, Worker, NoURL,
  Left   \* the goroutines that workers have stopped waiting for

ASSUME URLFinite == IsFiniteSet(URL)
ASSUME NoURLAssumption == NoURL \notin URL
ASSUME WorkerAssumption == Worker # {}

VARIABLES
  known,   \* the URLs that have a record
  queue,   \* how often a URL is in the queue
  index,   \* the URLs under processing
  retry,   \* the URLs that wait for a retry
  due,     \* those of them whose time has come
  pc,      \* where a worker is in its loop
  job,     \* the URL its current execution holds
  left,    \* the call a goroutine left behind is in, and its URL
  msgs,    \* lpush events published and not yet received by the subscriber
  notify,  \* the channel of Subscribe holds a signal
  fanning, \* the workers the loop of fanOut has yet to reach
  token,   \* the workers whose own channel holds a signal
  missed   \* events were lost, and none has been published since

frontier == <<known, queue, index, retry, due>>
signals  == <<notify, fanning, token>>
vars == <<frontier, pc, job, left, msgs, signals, missed>>

Running  == {"enqueue", "take", "metadata", "crawl"}
Blocked  == {"asleep", "waiting"}   \* in select, with and without a timer
LateCall == {"enqueue", "take", "crawl", "giveUp"}
Gone     == [call |-> "none", url |-> NoURL]

InQueue(u)  == queue[u] > 0
Queued      == \E u \in URL : InQueue(u)
Unprocessed == Queued \/ retry # {} \/ index # {}

TypeOK ==
  /\ known \in SUBSET URL
  /\ queue \in [URL -> Nat]
  /\ index \in SUBSET URL
  /\ retry \in SUBSET URL
  /\ due \in SUBSET retry
  /\ pc \in [Worker -> Running \cup Blocked]
  /\ job \in [Worker -> URL \cup {NoURL}]
  /\ left \in [Left -> [call : LateCall \cup {"none"}, url : URL \cup {NoURL}]]
  /\ \A g \in Left : left[g].call \in {"crawl", "giveUp"} => left[g].url \in URL
  /\ \A w \in Worker : pc[w] = "crawl" => job[w] \in URL
  /\ msgs \in Nat
  /\ notify \in BOOLEAN
  /\ fanning \in SUBSET Worker
  /\ token \in SUBSET Worker
  /\ missed \in BOOLEAN

\* Run subscribes before it starts the workers; what an earlier process left
\* in the frontier may be anywhere.
Init ==
  /\ known \in SUBSET URL
  /\ \E at \in [known -> {"queue", "index", "retry", "due", "closed"}] :
       /\ queue = [u \in URL |-> IF u \in known /\ at[u] = "queue" THEN 1 ELSE 0]
       /\ index = {u \in known : at[u] = "index"}
       /\ retry = {u \in known : at[u] \in {"retry", "due"}}
       /\ due = {u \in known : at[u] = "due"}
  /\ pc = [w \in Worker |-> "enqueue"]
  /\ job = [w \in Worker |-> NoURL]
  /\ left = [g \in Left |-> Gone]
  /\ msgs = 0
  /\ notify = FALSE
  /\ fanning = {}
  /\ token = {}
  /\ missed = FALSE

-----------------------------------------------------------------------------
(* Mistakes, which no specification uses. *)

\* The subscriber does not wait for an event.
ReceiveAlways ==
  /\ msgs' = msgs - 1
  /\ notify' = TRUE
  /\ UNCHANGED <<frontier, pc, job, left, fanning, token, missed>>

\* The workers' channels have no buffer.
SignalUnbuffered(w) ==
  /\ w \in fanning
  /\ fanning' = fanning \ {w}
  /\ token' = IF pc[w] \in Blocked THEN token \cup {w} ELSE token
  /\ UNCHANGED <<frontier, pc, job, left, msgs, notify, missed>>

\* A recovered URL is pushed with RPUSH, whose event Subscribe ignores.
RecoverAtHead(u) ==
  /\ index' = index \ {u}
  /\ queue' = [queue EXCEPT ![u] = @ + 1]
  /\ UNCHANGED <<known, retry, due, msgs, missed>>

-----------------------------------------------------------------------------
(* The scripts of Redis, which publishes one event for every LPUSH. *)
LPush(urls) ==
  /\ queue' = [u \in URL |-> IF u \in urls THEN queue[u] + 1 ELSE queue[u]]
  /\ msgs' = msgs + Cardinality(urls)
  /\ missed' = (missed /\ urls = {})

EnqueueDue ==
  /\ LPush(due)
  /\ retry' = retry \ due
  /\ due' = {}
  /\ UNCHANGED <<known, index>>

Pop(u) ==
  /\ InQueue(u)
  /\ queue' = [queue EXCEPT ![u] = @ - 1]
  /\ index' = index \cup {u}
  /\ UNCHANGED <<known, retry, due, msgs, missed>>

PushNew ==
  \E u \in URL \ known :
    /\ known' = known \cup {u}
    /\ LPush({u})
    /\ UNCHANGED <<index, retry, due>>

RetryURL(u) ==
  /\ index' = index \ {u}
  /\ retry' = retry \cup {u}
  /\ due' = due \ {u}
  /\ UNCHANGED <<known, queue>>

MarkProcessed(u) ==
  /\ index' = index \ {u}
  /\ UNCHANGED <<known, queue, retry, due>>

RecoverURL(u) ==
  /\ index' = index \ {u}
  /\ LPush({u})
  /\ UNCHANGED <<known, retry, due>>

Goto(w, next) == pc' = [pc EXCEPT ![w] = next]

-----------------------------------------------------------------------------
(* Execute: URLDS.TakeOn, the due retries. *)
EnqueueURLs(w) ==
  /\ pc[w] = "enqueue"
  /\ EnqueueDue
  /\ Goto(w, "take")
  /\ UNCHANGED <<job, left, signals>>

(* URLDS.TakeOn, the pop. *)
TakeOn(w) ==
  /\ pc[w] = "take"
  /\ \E u \in URL : Pop(u) /\ job' = [job EXCEPT ![w] = u]
  /\ Goto(w, "crawl")
  /\ UNCHANGED <<left, signals>>

QueueEmpty(w) ==
  /\ pc[w] = "take"
  /\ ~Queued
  /\ Goto(w, "metadata")
  /\ UNCHANGED <<frontier, job, left, msgs, signals, missed>>

(* ErrQueueEmpty: sleep until the earliest retry, or for a random time if  *)
(* there is none but work is in progress.  time.Until is computed after    *)
(* the reply, so a retry that is due by now, or a random time too short,   *)
(* gives a SleepFor that is not positive, as no unprocessed URL gives      *)
(* zero; Worker.run then waits for a signal only.                          *)
Sleep(w) ==
  /\ pc[w] = "metadata"
  /\ Unprocessed
  /\ due = {}
  /\ Goto(w, "asleep")
  /\ UNCHANGED <<frontier, job, left, msgs, signals, missed>>

Wait(w) ==
  /\ pc[w] = "metadata"
  /\ ~Unprocessed \/ due # {} \/ retry = {}
  /\ Goto(w, "waiting")
  /\ UNCHANGED <<frontier, job, left, msgs, signals, missed>>

(* PushURLs: an execution queues a link it found.                          *)
PushLink(w) ==
  /\ pc[w] = "crawl"
  /\ PushNew
  /\ UNCHANGED <<pc, job, left, signals>>

(* An execution ends: an outcome, a retry, or left for recovery.           *)
Finish(w) ==
  /\ pc[w] = "crawl"
  /\ \/ RetryURL(job[w])
     \/ MarkProcessed(job[w])
     \/ UNCHANGED frontier
  /\ job' = [job EXCEPT ![w] = NoURL]
  /\ Goto(w, "enqueue")
  /\ UNCHANGED <<left, msgs, signals, missed>>

(* An error of any call, or a panic: the execution is over, the worker     *)
(* starts again and the URL it may hold stays where it is.                 *)
Fails(w) ==
  /\ pc[w] \in Running
  /\ job' = [job EXCEPT ![w] = NoURL]
  /\ Goto(w, "enqueue")
  /\ UNCHANGED <<frontier, left, msgs, signals, missed>>

(* The 15 s of the execution are over: the worker starts again, and the    *)
(* goroutine goes on with the call it is in.  (One that reads the metadata *)
(* has nothing left to do: that is Fails.)                                 *)
Abandon(w) ==
  /\ pc[w] \in Running \ {"metadata"}
  /\ \E g \in Left :
       /\ left[g] = Gone
       /\ left' = [left EXCEPT ![g] = [call |-> pc[w], url |-> job[w]]]
  /\ job' = [job EXCEPT ![w] = NoURL]
  /\ Goto(w, "enqueue")
  /\ UNCHANGED <<frontier, msgs, signals, missed>>

(* The two selects of Worker.run. *)
TimerFires(w) ==
  /\ pc[w] = "asleep"
  /\ Goto(w, "enqueue")
  /\ UNCHANGED <<frontier, job, left, msgs, signals, missed>>

Signalled(w) ==
  /\ pc[w] \in Blocked
  /\ w \in token
  /\ token' = token \ {w}
  /\ Goto(w, "enqueue")
  /\ UNCHANGED <<frontier, job, left, msgs, notify, fanning, missed>>

-----------------------------------------------------------------------------
(* The goroutines left behind: the call under way takes effect, whoever    *)
(* has the URL by now, and every later one fails in the dead context.      *)
(* After TakeOn and after a failed call of the crawl that is giveUp, which *)
(* has a context of its own.                                               *)
Becomes(g, call, url) == left' = [left EXCEPT ![g] = [call |-> call, url |-> url]]
Ends(g) == left' = [left EXCEPT ![g] = Gone]

LateEnqueue(g) ==
  /\ left[g].call = "enqueue"
  /\ EnqueueDue
  /\ Ends(g)
  /\ UNCHANGED <<pc, job, signals>>

LateTakeOn(g) ==
  /\ left[g].call = "take"
  /\ \E u \in URL : Pop(u) /\ Becomes(g, "giveUp", u)
  /\ UNCHANGED <<pc, job, signals>>

LatePush(g) ==
  /\ left[g].call = "crawl"
  /\ PushNew
  /\ UNCHANGED <<pc, job, left, signals>>

LateFinish(g) ==
  /\ \/ left[g].call = "crawl" /\ RetryURL(left[g].url)
     \/ left[g].call \in {"crawl", "giveUp"} /\ MarkProcessed(left[g].url)
     \/ left[g] # Gone /\ UNCHANGED frontier
  /\ Ends(g)
  /\ UNCHANGED <<pc, job, msgs, signals, missed>>

LateStep(g) == LateEnqueue(g) \/ LateTakeOn(g) \/ LatePush(g) \/ LateFinish(g)

-----------------------------------------------------------------------------
(* The goroutine of Subscribe: a full channel swallows the signal. *)
Receive ==
  /\ msgs > 0
  /\ msgs' = msgs - 1
  /\ notify' = TRUE
  /\ UNCHANGED <<frontier, pc, job, left, fanning, token, missed>>

(* WorkerPool.fanOut, one worker after the other: so does a worker's       *)
(* channel that is full.                                                   *)
FanOut ==
  /\ notify /\ fanning = {}
  /\ notify' = FALSE
  /\ fanning' = Worker
  /\ UNCHANGED <<frontier, pc, job, left, msgs, token, missed>>

Signal(w) ==
  /\ w \in fanning
  /\ fanning' = fanning \ {w}
  /\ token' = token \cup {w}
  /\ UNCHANGED <<frontier, pc, job, left, msgs, notify, missed>>

(* The crawl endpoint, the health check, time, a restart. *)
Start ==
  /\ PushNew
  /\ UNCHANGED <<pc, job, left, signals>>

\* A take-on that is too old is one whose worker no longer waits for it.
Recover ==
  /\ \E u \in index : RecoverURL(u) /\ \A w \in Worker : job[w] # u
  /\ UNCHANGED <<pc, job, left, signals>>

RetryBecomesDue ==
  /\ \E u \in retry \ due : due' = due \cup {u}
  /\ UNCHANGED <<known, queue, index, retry, pc, job, left, msgs, signals, missed>>

(* The subscriber loses its connection; go-redis subscribes again, and the *)
(* events published meanwhile are gone.                                    *)
Reconnect ==
  /\ msgs > 0
  /\ msgs' = 0
  /\ missed' = TRUE
  /\ UNCHANGED <<frontier, pc, job, left, signals>>

Crash ==
  /\ pc' = [w \in Worker |-> "enqueue"]
  /\ job' = [w \in Worker |-> NoURL]
  /\ left' = [g \in Left |-> Gone]
  /\ msgs' = 0
  /\ notify' = FALSE
  /\ fanning' = {}
  /\ token' = {}
  /\ missed' = FALSE
  /\ UNCHANGED frontier

WorkerStep(w) ==
  \/ EnqueueURLs(w) \/ TakeOn(w) \/ QueueEmpty(w) \/ Sleep(w) \/ Wait(w)
  \/ PushLink(w) \/ Finish(w) \/ TimerFires(w) \/ Signalled(w)

Progress ==
  \/ \E w \in Worker : WorkerStep(w) \/ Signal(w)
  \/ \E g \in Left : LateStep(g)
  \/ Receive \/ FanOut
  \/ Start \/ Recover \/ RetryBecomesDue

Disturbance == Crash \/ Reconnect \/ \E w \in Worker : Fails(w) \/ Abandon(w)

Next == Progress \/ Disturbance

Spec == Init /\ [][Next]_vars

(* The goroutines are scheduled, an execution returns or is abandoned      *)
(* after its 15 s, timers fire, retry times come and the health check      *)
(* runs.  Nothing is assumed of the goroutines left behind.                *)
Fairness ==
  /\ \A w \in Worker : /\ WF_vars(WorkerStep(w) \/ Fails(w) \/ Abandon(w))
                        /\ WF_vars(Signal(w))
  /\ WF_vars(Receive) /\ WF_vars(FanOut)
  /\ WF_vars(RetryBecomesDue) /\ WF_vars(Recover)

-----------------------------------------------------------------------------
(* No wake-up is lost: while a URL is in the queue, some worker is on its  *)
(* way to it, will wake by a timer, or has a signal ahead of it in one of  *)
(* the channels, although each of them holds at most one and the sender    *)
(* never waits, and whatever goroutines left behind still push or take.    *)
(* A worker that is only reading the metadata found the queue empty and    *)
(* does not count.  An event that Pub/Sub lost may leave a URL behind,     *)
(* until the next push and no longer.                                      *)
Awake(w) == pc[w] \in {"enqueue", "take", "crawl", "asleep"} \/ w \in token

NoLostWakeup ==
  Queued =>
    \/ msgs > 0 \/ notify \/ fanning # {} \/ \E w \in Worker : Awake(w)
    \/ missed

(* A URL in the queue does not wait for ever: somebody takes one on, be    *)
(* the events of it lost or not once another URL has been pushed.          *)
QueueServed ==
  Queued ~> ~Queued \/ missed \/ \E w \in Worker : pc[w] = "crawl"

(* "the timer acts as a reliability backstop against missed events"        *)
(* (README, "Hybrid Worker Wake-up"): a retry whose time has come is taken *)
(* up.                                                                     *)
DueRetriesTakenUp == due # {} ~> due = {}
=============================================================================
