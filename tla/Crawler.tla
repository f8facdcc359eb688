------------------------------ MODULE Crawler -------------------------------
(***************************************************************************)
(* The crawler on top of the frontier: goroutines that execute the Parse   *)
(* use case, the health check that recovers what they leave behind, and    *)
(* the Postgres tables they write (src/internal/application/usecase/       *)
(* parse.go, delivery/worker/worker.go, storage/redis/url_ds.go).          *)
(*                                                                         *)
(* An execution is a sequence of calls to Redis, to the web and to         *)
(* Postgres.  pc names the call it has issued and not yet heard from, so   *)
(* everything else can happen between two calls.  Disturbance collects     *)
(* what the code has to survive: a call that fails, a reply that is lost   *)
(* after the call took effect, the 15 s of an execution running out, and a *)
(* crash of the process.                                                   *)
(***************************************************************************)
EXTENDS Frontier

CONSTANTS
  Exec,      \* goroutines: a worker has one, and those that outlived its ctx
  WorkerOf,  \* the worker that started each of them
  Seeds,     \* what NormalizeStartURL makes of the URLs given to /crawl
  Norm,      \* domain.Normalize
  Final,     \* where the redirects of a URL end
  Links,     \* the same-host links of the page found there, normalized
  TryLim,    \* cfg.TryLim
  NoURL

ASSUME ExecAssumption ==
  /\ IsFiniteSet(Exec)
  /\ WorkerOf \in [Exec -> Worker]
ASSUME WebAssumption ==
  /\ Seeds \subseteq URL
  /\ Norm \in [URL -> URL]
  /\ Final \in [URL -> URL]
  /\ Links \in [URL -> SUBSET URL]
  /\ \A u \in URL : Norm[Norm[u]] = Norm[u] /\ Norm[Final[u]] = Final[u]
  /\ \A u \in URL : \A l \in Links[u] : Norm[l] = l
ASSUME TryLimAssumption == TryLim \in Nat
ASSUME NoURLAssumption  == NoURL \notin URL

VARIABLES
  pc,      \* the call an execution is in
  ctx,     \* its context: live; late, it expired during the call; dead
  job,     \* the URLCache it took on
  unsent,  \* the links its pipeline of push scripts has not sent yet
  pages,   \* the url column of the pages table
  links,   \* the links table, as pairs of page URLs
  scan,    \* members of the index the health check read, not yet looked at
  doomed   \* the one whose record it found too old, and is about to recover

tables == <<pages, links>>
execs  == <<pc, ctx, job, unsent>>
reaper == <<scan, doomed>>
vars   == <<frontierVars, pc, ctx, job, unsent, pages, links, scan, doomed>>

Idle  == "idle"
Calls == {"take", "fetch", "retry", "save", "link", "push", "done",
          "manual", "giveUp"}
Job   == [key : URL, try : Nat, parent : URL \cup {NoParent}]
NoJob == [key |-> NoURL, try |-> 0, parent |-> NoParent]

TypeOK ==
  /\ FrontierTypeOK
  /\ pc \in [Exec -> Calls \cup {Idle}]
  /\ ctx \in [Exec -> {"live", "late", "dead"}]
  /\ job \in [Exec -> Job \cup {NoJob}]
  /\ unsent \in [Exec -> SUBSET URL]
  /\ pages \in SUBSET URL
  /\ links \in SUBSET (URL \X URL)
  /\ scan \in SUBSET URL
  /\ doomed \in URL \cup {NoURL}

Init ==
  /\ FrontierInit
  /\ pc = [e \in Exec |-> Idle]
  /\ ctx = [e \in Exec |-> "live"]
  /\ job = [e \in Exec |-> NoJob]
  /\ unsent = [e \in Exec |-> {}]
  /\ pages = {}
  /\ links = {}
  /\ scan = {}
  /\ doomed = NoURL

-----------------------------------------------------------------------------
(* One execution. *)

\* The URL every later call names: mapper.ToDomainURL normalizes the key.
Url(e)     == Norm[job[e].key]
Page(e)    == Final[Url(e)]

\* The call is answered and the next one issued.  A context that expired
\* during the call is dead from the next one on; an execution that returns
\* forgets everything.
Proceed(e, next) ==
  /\ pc' = [pc EXCEPT ![e] = next]
  /\ ctx' = [ctx EXCEPT ![e] = IF next = Idle THEN "live"
                               ELSE IF @ = "late" THEN "dead" ELSE @]
  /\ job' = IF next = Idle THEN [job EXCEPT ![e] = NoJob] ELSE job
  /\ unsent' = [unsent EXCEPT ![e] = IF next = "push" THEN Links[Page(e)]
                                     ELSE {}]

\* A call through the execution's own context.
At(e, call) == pc[e] = call /\ ctx[e] # "dead"

-----------------------------------------------------------------------------
(* Mistakes, which no specification uses. *)

\* Pop and record are two commands, and nothing writes the record.
TakeOnTwoSteps(e) ==
  /\ At(e, "take")
  /\ queue # <<>>
  /\ LET u == Head(queue) IN
       /\ queue' = Tail(queue)
       /\ pc' = [pc EXCEPT ![e] = "fetch"]
       /\ job' = [job EXCEPT ![e] = [key |-> u, try |-> urlStatus[u].try,
                                     parent |-> urlStatus[u].parent]]
  /\ UNCHANGED <<retry, due, urlStatus, index, procQueue, fresh, ctx,
                 unsent, tables, reaper>>

\* try > TryLim
CalcRetryTimeOnceMore(try) == try <= TryLim

\* The page is stored under the URL asked for, not the one reached.
InsertPageAtUrl(e) == pages' = pages \cup {Url(e)} /\ UNCHANGED links

\* The pipeline is not waited for.
PushDoneEarly(e) ==
  /\ At(e, "push")
  /\ Proceed(e, "done")
  /\ UNCHANGED <<frontierVars, tables, reaper>>

\* An error of SavePage is logged and the links are queued all the same.
OnErrorLogged(call) ==
  CASE call \in {"take", "manual", "giveUp"} -> {Idle}
    [] call \in {"fetch", "retry", "push", "done"} -> {"giveUp"}
    [] call \in {"save", "link"} -> {"push"}

\* The age of the take-on is not looked at.
CheckRecordAnyAge ==
  /\ doomed = NoURL
  /\ \E u \in scan : scan' = scan \ {u} /\ doomed' = u
  /\ UNCHANGED <<frontierVars, execs, tables>>

\* Only URLs without a record are recovered.
CheckRecordOrphans ==
  /\ doomed = NoURL
  /\ \E u \in scan :
       /\ scan' = scan \ {u}
       /\ doomed' = IF Known(u) THEN NoURL ELSE u
  /\ UNCHANGED <<frontierVars, execs, tables>>

-----------------------------------------------------------------------------
(* The calls of an execution. *)

\* Worker.run starts an execution when the previous one has returned or its
\* context is done.
MayStart(e) ==
  /\ pc[e] = Idle
  /\ \A f \in Exec \ {e} : WorkerOf[f] = WorkerOf[e] =>
                             pc[f] = Idle \/ ctx[f] # "live"

(* URLDS.TakeOn, first script: the due retries go to the queue. *)
Execute(e) ==
  /\ MayStart(e)
  /\ EnqueueURLs
  /\ pc' = [pc EXCEPT ![e] = "take"]
  /\ UNCHANGED <<ctx, job, unsent, tables, reaper>>

(* URLDS.TakeOn, second script. *)
TakeOn(e) ==
  /\ At(e, "take")
  /\ PopURL(WorkerOf[e])
  /\ LET u == Head(queue) IN
       /\ pc' = [pc EXCEPT ![e] = "fetch"]
       /\ ctx' = [ctx EXCEPT ![e] = IF @ = "late" THEN "dead" ELSE @]
       /\ job' = [job EXCEPT ![e] = [key |-> u, try |-> urlStatus[u].try,
                                     parent |-> urlStatus[u].parent]]
  /\ UNCHANGED <<unsent, tables, reaper>>

(* ErrQueueEmpty: the worker reads the metadata, waits and starts again. *)
QueueEmpty(e) ==
  /\ At(e, "take")
  /\ queue = <<>>
  /\ Proceed(e, Idle)
  /\ UNCHANGED <<frontierVars, tables, reaper>>

(* The fetch and what Execute makes of its status.  A page that cannot be  *)
(* extracted is given up.  CalcRetryTime compares the attempts counted     *)
(* when the URL was taken on.                                              *)
FetchStatus == {"ok", "retry", "manual", "impossible", "error"}

CalcRetryTime(try) == try < TryLim

AfterFetch(e, status) ==
  CASE status = "ok"     -> {"save", "giveUp"}
    [] status = "retry"  -> {IF CalcRetryTime(job[e].try) THEN "retry" ELSE "giveUp"}
    [] status = "manual" -> {"manual"}
    [] OTHER             -> {"giveUp"}

Fetch(e) ==
  /\ At(e, "fetch")
  /\ \E status \in FetchStatus :
       \E next \in AfterFetch(e, status) : Proceed(e, next)
  /\ UNCHANGED <<frontierVars, tables, reaper>>

Retry(e) ==
  /\ At(e, "retry")
  /\ RetryURL(Url(e))
  /\ Proceed(e, Idle)
  /\ UNCHANGED <<tables, reaper>>

AfterSave(e) ==
  CASE job[e].parent # NoParent -> "link"
    [] job[e].parent = NoParent /\ Links[Page(e)] # {} -> "push"
    [] OTHER -> "done"

(* pageRepo.SavePage: an upsert. *)
InsertPage(e) == pages' = pages \cup {Page(e)} /\ UNCHANGED links

SavePage(e) ==
  /\ At(e, "save")
  /\ InsertPage(e)
  /\ Proceed(e, AfterSave(e))
  /\ UNCHANGED <<frontierVars, reaper>>

(* pageRepo.SaveLink: INSERT ... SELECT, nothing if the parent is no page. *)
InsertLink(e) ==
  /\ links' = links \cup ((pages \cap {job[e].parent}) \X {Page(e)})
  /\ UNCHANGED pages

SaveLink(e) ==
  /\ At(e, "link")
  /\ InsertLink(e)
  /\ Proceed(e, IF Links[Page(e)] # {} THEN "push" ELSE "done")
  /\ UNCHANGED <<frontierVars, reaper>>

(* The pipeline of PushURLs sends one script per link, once, and is not a  *)
(* transaction: scripts of other clients run between its scripts.          *)
PushLink(e) ==
  /\ At(e, "push")
  /\ \E l \in unsent[e] :
       /\ PushURL(l, Page(e))
       /\ unsent' = [unsent EXCEPT ![e] = @ \ {l}]
  /\ UNCHANGED <<pc, ctx, job, tables, reaper>>

PushDone(e) ==
  /\ At(e, "push")
  /\ unsent[e] = {}
  /\ Proceed(e, "done")
  /\ UNCHANGED <<frontierVars, tables, reaper>>

MarkDone(e) ==
  /\ At(e, "done")
  /\ MarkProcessed(Url(e), "Done")
  /\ Proceed(e, Idle)
  /\ UNCHANGED <<tables, reaper>>

(* markTerminal, in a context of its own: it outlives the execution's.     *)
Verdict(e) == IF pc[e] = "manual" THEN "Manual" ELSE "GiveUp"

MarkTerminal(e) ==
  /\ pc[e] \in {"manual", "giveUp"}
  /\ MarkProcessed(Url(e), Verdict(e))
  /\ Proceed(e, Idle)
  /\ UNCHANGED <<tables, reaper>>

(* Execute after an error: return it, leave the URL to the health check    *)
(* (both are Idle), or give up.                                            *)
OnError(call) ==
  CASE call \in {"take", "manual", "giveUp"} -> {Idle}
    [] call \in {"fetch", "retry", "push", "done"} -> {"giveUp"}
    [] call \in {"save", "link"} -> {Idle, "giveUp"}

(* retryURLScript or markProcessedScript answers 'url not found': the      *)
(* normalized name is not the key.                                         *)
URLNotFound(e) ==
  /\ \/ At(e, "retry") \/ At(e, "done")
     \/ pc[e] \in {"manual", "giveUp"}
  /\ ~Known(Url(e))
  /\ \E next \in OnError(pc[e]) : Proceed(e, next)
  /\ UNCHANGED <<frontierVars, tables, reaper>>

(* A call in a dead context fails before anything is sent; for Postgres    *)
(* that is a transient error.                                              *)
DeadContext(e) ==
  /\ ctx[e] = "dead"
  /\ pc[e] \notin {Idle, "manual", "giveUp"}
  /\ Proceed(e, IF pc[e] \in {"take", "save", "link"} THEN Idle ELSE "giveUp")
  /\ UNCHANGED <<frontierVars, tables, reaper>>

(* The calls that return by themselves: all have a deadline or a timeout.  *)
(* A fetch may have none: chromedp runs in the context of the browser.     *)
Returns(e) ==
  \/ TakeOn(e) \/ QueueEmpty(e) \/ Retry(e) \/ SavePage(e) \/ SaveLink(e)
  \/ PushLink(e) \/ PushDone(e) \/ MarkDone(e) \/ MarkTerminal(e)
  \/ URLNotFound(e) \/ DeadContext(e)

ExecStep(e) == Execute(e) \/ Fetch(e) \/ Returns(e)

-----------------------------------------------------------------------------
(* The health check: SSCAN, then for each URL HGET and, if the take-on is  *)
(* too old or there is no record, RecoverURL.  Three calls, and the        *)
(* executions run between them.                                            *)

ScanIndex ==
  /\ scan = {} /\ doomed = NoURL
  /\ index # {}
  /\ scan' = index
  /\ UNCHANGED <<frontierVars, execs, tables, doomed>>

CheckRecord ==
  /\ doomed = NoURL
  /\ \E u \in scan :
       /\ scan' = scan \ {u}
       /\ doomed' = IF Known(u) /\ u \in fresh THEN NoURL ELSE u
  /\ UNCHANGED <<frontierVars, execs, tables>>

Recover ==
  /\ doomed # NoURL
  /\ RecoverURL(doomed)
  /\ doomed' = NoURL
  /\ UNCHANGED <<execs, tables, scan>>

HealthCheck == ScanIndex \/ CheckRecord \/ Recover

-----------------------------------------------------------------------------
(* The crawl endpoint, and time. *)

(* POST /crawl without reindex. *)
Start ==
  /\ \E u \in Seeds : ~Known(u) /\ PushURL(u, NoParent)
  /\ UNCHANGED <<execs, tables, reaper>>

RetryTime(u) == RetryBecomesDue(u) /\ UNCHANGED <<execs, tables, reaper>>

\* The worry threshold and an execution's timeout are both 15 s, and the
\* context is older than the take-on.  Only the health check looks at the
\* age, so it matters for what is in the index ...
LeaseTime(u) ==
  /\ u \in index
  /\ \A e \in Exec : job[e].key = u => ctx[e] # "live"
  /\ LeaseExpires(u)
  /\ UNCHANGED <<execs, tables, reaper>>

-----------------------------------------------------------------------------
(* Disturbances. *)

(* The 15 s of an execution are over while it waits for an answer. *)
Expire(e) ==
  /\ pc[e] # Idle
  /\ ctx[e] = "live"
  /\ ctx' = [ctx EXCEPT ![e] = "late"]
  /\ UNCHANGED <<frontierVars, pc, job, unsent, tables, reaper>>

(* A call fails and has changed nothing.  (Fetch has its own outcomes.)    *)
CallFails(e) ==
  /\ pc[e] \notin {Idle, "fetch"}
  /\ \E next \in OnError(pc[e]) : Proceed(e, next)
  /\ UNCHANGED <<frontierVars, tables, reaper>>

(* A call takes effect and the reply is lost: the client reports an error, *)
(* or go-redis sends the script again.                                     *)
LostScript(e) ==
  /\ \/ At(e, "take") /\ PopURL(WorkerOf[e])
     \/ At(e, "retry") /\ RetryURL(Url(e))
     \/ At(e, "done") /\ MarkProcessed(Url(e), "Done")
     \/ pc[e] \in {"manual", "giveUp"} /\ MarkProcessed(Url(e), Verdict(e))
  /\ \/ UNCHANGED execs
     \/ \E next \in OnError(pc[e]) : Proceed(e, next)
  /\ UNCHANGED <<tables, reaper>>

(* The pipeline is sent again from its beginning. *)
LostPipeline(e) ==
  /\ At(e, "push")
  /\ unsent' = [unsent EXCEPT ![e] = Links[Page(e)]]
  /\ UNCHANGED <<frontierVars, pc, ctx, job, tables, reaper>>

LostWrite(e) ==
  /\ \/ At(e, "save") /\ InsertPage(e)
     \/ At(e, "link") /\ InsertLink(e)
  /\ \E next \in OnError(pc[e]) : Proceed(e, next)
  /\ UNCHANGED <<frontierVars, reaper>>

(* ... and for what was in it when the health check read it: the script    *)
(* that released the URL came between SSCAN and HGET, and so did the end   *)
(* of the 15 s.                                                            *)
LeaseTimeInScan(u) ==
  /\ u \in scan \ index
  /\ \A e \in Exec : job[e].key = u => ctx[e] # "live"
  /\ LeaseExpires(u)
  /\ UNCHANGED <<execs, tables, reaper>>

(* The first error ends the pass. *)
HealthCheckFails ==
  /\ scan # {} \/ doomed # NoURL
  /\ scan' = {}
  /\ doomed' = NoURL
  /\ UNCHANGED <<frontierVars, execs, tables>>

LostRecover ==
  /\ doomed # NoURL
  /\ RecoverURL(doomed)
  /\ \/ UNCHANGED reaper
     \/ scan' = {} /\ doomed' = NoURL
  /\ UNCHANGED <<execs, tables>>

(* The crawler process dies and is started again: Redis and Postgres keep  *)
(* what they have, the goroutines are gone.                                *)
Crash ==
  /\ pc' = [e \in Exec |-> Idle]
  /\ ctx' = [e \in Exec |-> "live"]
  /\ job' = [e \in Exec |-> NoJob]
  /\ unsent' = [e \in Exec |-> {}]
  /\ scan' = {}
  /\ doomed' = NoURL
  /\ UNCHANGED <<frontierVars, tables>>

-----------------------------------------------------------------------------
Progress ==
  \/ \E e \in Exec : ExecStep(e)
  \/ HealthCheck
  \/ Start
  \/ \E u \in URL : RetryTime(u) \/ LeaseTime(u)

Disturbance ==
  \/ \E e \in Exec : \/ Expire(e) \/ CallFails(e)
                     \/ LostScript(e) \/ LostPipeline(e) \/ LostWrite(e)
  \/ \E u \in URL : LeaseTimeInScan(u)
  \/ HealthCheckFails \/ LostRecover \/ Crash

Next == Progress \/ Disturbance

Spec == Init /\ [][Next]_vars

(* Calls to Redis and Postgres return, the health check's ticker ticks,    *)
(* time passes.  Nothing is assumed of a fetch, nor of a worker that waits *)
(* for a signal before it executes again.                                  *)
Fairness ==
  /\ \A e \in Exec : WF_vars(Returns(e))
  /\ WF_vars(HealthCheck)
  /\ \A u \in URL : WF_vars(RetryTime(u)) /\ WF_vars(LeaseTime(u))

-----------------------------------------------------------------------------
(* Safety, whatever is disturbed. *)

(* Done means done: the page the URL leads to is stored, the edge from the *)
(* page that linked to it is stored, and every link of the page has a      *)
(* record in the frontier, although the three live in two databases and    *)
(* MarkProcessed is a fourth call that others can make.                    *)
DoneStored ==
  \A u \in URL : urlStatus[u].status = "Done" =>
    /\ Final[u] \in pages
    /\ urlStatus[u].parent \in URL =>
         <<urlStatus[u].parent, Final[u]>> \in links
    /\ \A l \in Links[Final[u]] : Known(l)

(* The page a URL was found on is stored before the URL can be taken on:   *)
(* the INSERT ... SELECT of SaveLink always finds its parent.              *)
ParentStored ==
  \A u \in URL : Known(u) /\ urlStatus[u].parent \in URL =>
                    urlStatus[u].parent \in pages

(* The calls of the use case and of the health check, in whatever order    *)
(* and however often they reach Redis, are calls of the general client.    *)
ImplementsFrontier == FrontierSpec

-----------------------------------------------------------------------------
(* Exactness and progress, for the disturbances that leave them intact. *)

Copies(u)  == Cardinality({i \in DOMAIN queue : queue[i] = u})
Closed(u)  == urlStatus[u].status \in Terminal
Count(bool) == IF bool THEN 1 ELSE 0

(* A URL is in one place at a time: once in the queue, or under            *)
(* processing, or waiting for its retry, or closed.  The execution that    *)
(* holds it is the one its record names, so nobody else fetches it and the *)
(* scripts of its holder release the right list.  Calls that fail and      *)
(* crashes of the process leave this intact.                               *)
OnePlace ==
  \A u \in URL : Known(u) =>
    /\ Copies(u) + Count(u \in retry) + Count(u \in index) + Count(Closed(u)) = 1
    /\ \A e \in Exec : job[e].key = u =>
         /\ u \in index
         /\ Owner(u) = WorkerOf[e]
         /\ \A f \in Exec \ {e} : job[f].key # u

(* Where the frontier's data say a URL is, for URLLife. *)
CrawlPlace ==
  [u \in URL |-> IF ~Known(u) THEN "new"
                 ELSE IF Closed(u) THEN "closed"
                 ELSE IF u \in index THEN "index"
                 ELSE IF u \in retry THEN "retry" ELSE "queue"]

Life == INSTANCE URLLife WITH place <- CrawlPlace

LifeStep == [Life!Next]_CrawlPlace

\* Chrome shows the body of every page it is sent to.
FetchesReturn == \A e \in Exec : []<>(pc[e] # "fetch")

\* What the pool promises (WorkerPool!QueueServed): while there is work,
\* a worker comes for it.
WorkersWake ==
  []<>(\/ queue = <<>> /\ due = {}
       \/ \E e \in Exec : pc[e] = "take")

(* The crawl ends if no fetch hangs and the workers are woken: once the    *)
(* disturbances have stopped, every URL of the site has an outcome and     *)
(* keeps it.  Nothing is recovered, retried or crawled again for ever.     *)
CrawlEnds ==
  FetchesReturn /\ WorkersWake
    => <>[](\A u \in URL : Known(u) => Closed(u))

-----------------------------------------------------------------------------
(* What the documentation, the log and the tests say.                      *)

(* "Redis: source URL must be marked processed" (parse_test.go): a URL     *)
(* given to the crawl endpoint gets an outcome (if no fetch hangs and the  *)
(* workers are woken).                                                     *)
SourceMarked ==
  FetchesReturn /\ WorkersWake => \A u \in Seeds : Known(u) ~> Closed(u)

(* "transient error for %s, leaving for reaper recovery"                   *)
(* (leaveForRecovery): the URL whose page an execution could not store,    *)
(* within its 15 s, is still in the index, or about to be taken on again.  *)
LeftForRecovery ==
  [][\A e \in Exec :
       /\ pc[e] = "save" /\ pc'[e] = Idle
       /\ ctx[e] = "live" /\ Page(e) \notin pages'
       => \/ job[e].key \in index' \cup retry'
          \/ \E i \in DOMAIN queue' : queue'[i] = job[e].key]_vars
=============================================================================
