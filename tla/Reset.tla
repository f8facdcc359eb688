------------------------------- MODULE Reset --------------------------------
(***************************************************************************)
(* POST /crawl?reindex=true under a running crawl (src/internal/delivery/  *)
(* http/handler/crawl/crawl.go, URLDS.ResetCrawlCache).  The handler asks  *)
(* Redis which keys there are, deletes those, and seeds the crawl: three   *)
(* commands, between which the executions, the health check and the        *)
(* handlers of other requests go on with what they hold in memory.  A key  *)
(* exists while it holds something, so what is created after the SCAN      *)
(* survives the DEL.  The branches of the scripts for a missing record,    *)
(* which Crawler never reaches, are alive here, and so is the panic of     *)
(* Queue.TakeOn on a record without a parent.                              *)
(*                                                                         *)
(* The crawler has at most WorkersCount + 4 keys: one SCAN of COUNT 100    *)
(* returns them all in a database that is not shared with others.          *)
(***************************************************************************)
EXTENDS Crawler

CONSTANT Req   \* the goroutines that serve requests with reindex=true

VARIABLES
  handler,   \* the command each of them has yet to send
  keys,      \* the keys its SCAN returned
  unseeded,  \* history: nothing has been seeded since the last DEL
  crossed    \* history: a SCAN fell between a DEL and the next seed

handlerVars == <<handler, keys, unseeded, crossed>>
resetVars   == <<vars, handler, keys, unseeded, crossed>>

Key     == {"queue", "retry", "status", "index"} \cup Worker
Command == {"scan", "delete", "start"}

ResetTypeOK ==
  /\ TypeOK
  /\ handler \in [Req -> Command \cup {"none"}]
  /\ keys \in [Req -> SUBSET Key]
  /\ unseeded \in BOOLEAN
  /\ crossed \in BOOLEAN

ResetInit ==
  /\ Init
  /\ handler = [r \in Req |-> "none"]
  /\ keys = [r \in Req |-> {}]
  /\ unseeded = FALSE
  /\ crossed = FALSE

(* The keys that exist: Redis removes a key that has become empty.         *)
Exists(key) ==
  CASE key = "queue"  -> queue # <<>>
    [] key = "retry"  -> retry # {}
    [] key = "status" -> \E u \in URL : Known(u)
    [] key = "index"  -> index # {}
    [] OTHER          -> \E u \in URL : procQueue[<<key, u>>] > 0

\* The handler of r has had its answer and sends the next command, with
\* what the SCAN returned.
Goes(r, command, found) ==
  /\ handler' = [handler EXCEPT ![r] = command]
  /\ keys' = [keys EXCEPT ![r] = found]

-----------------------------------------------------------------------------
(* Mistakes, which no specification uses. *)

\* The statuses are kept.
DeleteButStatus(r) ==
  /\ queue' = IF "queue" \in keys[r] THEN <<>> ELSE queue
  /\ retry' = IF "retry" \in keys[r] THEN {} ELSE retry
  /\ due' = due \cap retry'
  /\ index' = IF "index" \in keys[r] THEN {} ELSE index
  /\ procQueue' = [wu \in Worker \X URL |-> IF wu[1] \in keys[r] THEN 0
                                            ELSE procQueue[wu]]
  /\ UNCHANGED <<urlStatus, fresh>>

\* The missing value of a record without a parent is taken for one.
TakesNil(e) == TRUE

\* The tables are emptied with the cache.
ScanAndTruncate(r) ==
  /\ handler[r] = "scan"
  /\ Goes(r, "delete", {key \in Key : Exists(key)})
  /\ crossed' = (crossed \/ unseeded)
  /\ pages' = {}
  /\ links' = {}
  /\ UNCHANGED <<frontierVars, execs, reaper, unseeded>>

-----------------------------------------------------------------------------
(* The handler of a request. *)

Request(r) ==
  /\ handler[r] = "none"
  /\ Goes(r, "scan", {})
  /\ UNCHANGED <<vars, unseeded, crossed>>

Scan(r) ==
  /\ handler[r] = "scan"
  /\ Goes(r, "delete", {key \in Key : Exists(key)})
  /\ crossed' = (crossed \/ unseeded)
  /\ UNCHANGED <<vars, unseeded>>

(* DEL with every key of the reply.                                        *)
DeleteKeys(r) ==
  /\ queue' = IF "queue" \in keys[r] THEN <<>> ELSE queue
  /\ retry' = IF "retry" \in keys[r] THEN {} ELSE retry
  /\ due' = due \cap retry'
  /\ urlStatus' = IF "status" \in keys[r] THEN [u \in URL |-> Unknown]
                                          ELSE urlStatus
  /\ fresh' = IF "status" \in keys[r] THEN {} ELSE fresh
  /\ index' = IF "index" \in keys[r] THEN {} ELSE index
  /\ procQueue' = [wu \in Worker \X URL |-> IF wu[1] \in keys[r] THEN 0
                                            ELSE procQueue[wu]]

\* What a DEL and a seed do, whether or not the handler hears of it.
Wipes(r)  == DeleteKeys(r) /\ unseeded' = (unseeded \/ keys[r] # {})
SeedsCrawl == (\E u \in Seeds : PushURL(u, NoParent)) /\ unseeded' = FALSE

Delete(r) ==
  /\ handler[r] = "delete"
  /\ Wipes(r)
  /\ Goes(r, "start", {})
  /\ UNCHANGED <<execs, tables, reaper, crossed>>

Seed(r) ==
  /\ handler[r] = "start"
  /\ SeedsCrawl
  /\ Goes(r, "none", {})
  /\ UNCHANGED <<execs, tables, reaper, crossed>>

(* A command fails, before or after it took effect: 500, and nothing more  *)
(* is sent.                                                                *)
RequestFails(r) ==
  /\ handler[r] # "none"
  /\ \/ handler[r] = "delete" /\ Wipes(r)
     \/ handler[r] = "start" /\ SeedsCrawl
     \/ UNCHANGED <<frontierVars, unseeded>>
  /\ Goes(r, "none", {})
  /\ UNCHANGED <<execs, tables, reaper, crossed>>

Handles(r) == Scan(r) \/ Delete(r) \/ Seed(r)

-----------------------------------------------------------------------------
(* What the workers meet then. *)

(* popURLScript aborts on a URL without a record, after its LMOVE; or it   *)
(* returns two values instead of three for a record without a parent, and  *)
(* vals[2] panics.  Worker.run recovers and goes on to the next execution. *)
TakeOnFails(e) ==
  /\ At(e, "take")
  /\ \/ PopUnknownURL(WorkerOf[e])
     \/ PopURL(WorkerOf[e]) /\ urlStatus[Head(queue)].parent = NilParent
  /\ Proceed(e, Idle)
  /\ UNCHANGED <<tables, reaper, handlerVars>>

\* An execution is given a URL only with a parent or with ''.
TakesParent(e) == job'[e].parent # NilParent

WorkerReturns(e) ==
  \/ Returns(e) /\ TakesParent(e) /\ UNCHANGED handlerVars
  \/ TakeOnFails(e)

WorkerStep(e) ==
  \/ (Execute(e) \/ Fetch(e)) /\ UNCHANGED handlerVars
  \/ WorkerReturns(e)

ResetProgress ==
  \/ \E e \in Exec : WorkerStep(e)
  \/ (HealthCheck \/ Start) /\ UNCHANGED handlerVars
  \/ (\E u \in URL : RetryTime(u) \/ LeaseTime(u)) /\ UNCHANGED handlerVars
  \/ \E r \in Req : Handles(r)

ResetNext ==
  \/ ResetProgress
  \/ \E r \in Req : Request(r) \/ RequestFails(r)
  \/ Disturbance /\ UNCHANGED handlerVars

ResetSpec == ResetInit /\ [][ResetNext]_resetVars

ResetFairness ==
  /\ \A e \in Exec : WF_resetVars(WorkerReturns(e))
  /\ WF_resetVars(HealthCheck /\ UNCHANGED handlerVars)
  /\ \A u \in URL : /\ WF_resetVars(RetryTime(u) /\ UNCHANGED handlerVars)
                    /\ WF_resetVars(LeaseTime(u) /\ UNCHANGED handlerVars)
  /\ \A r \in Req : WF_resetVars(Handles(r))

-----------------------------------------------------------------------------
(* What survives a reset. *)

(* No URL of the new crawl is lost to what is left of the old one: the DEL *)
(* spares what was created after the SCAN, but takes the status hash with  *)
(* whatever it takes.  Requests may overlap and fail, as long as no SCAN   *)
(* falls between a DEL and the seed that follows it.  There the crawl may  *)
(* leave a queue without a status hash, and the DEL of that SCAN takes the *)
(* queue from under the record of a seed that is younger than the SCAN:    *)
(* every later push of the seed finds the record and adds nothing.         *)
NewCrawlLosesNoURL == ~crossed => NoURLLost

(* The crawl that was reset ends, if no fetch hangs and the workers are    *)
(* woken: every URL that has a record with a parent, of the old crawl or   *)
(* the new one, gets an outcome and keeps it, whatever the executions and  *)
(* the health check still held.  A URL whose record a recovery or a retry  *)
(* has made anew, without a parent, does not: every worker that takes it   *)
(* on panics, and it is recovered again.                                   *)
CompleteURLsEnd ==
  FetchesReturn /\ WorkersWake
    => <>[](~crossed =>
              \A u \in URL : Known(u) /\ urlStatus[u].parent # NilParent
                                => Closed(u))
=============================================================================
