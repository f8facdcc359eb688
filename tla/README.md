# Specifications of OAFSE

TLA+ specifications of the OAF search engine: its crawler, its crawl frontier in
Redis, its pages in Postgres, its indexer. TLC checks them on small instances;
TLAPS proves the safety invariants and the action properties of the runs for instances of
every size, liveness aside.

All paths are relative to the repository; `redis/` and `postgres/` stand for
`internal/infrastructure/storage/redis/` and `.../postgres/`.

## 1. The system

| component | state it keeps | operations | talks to |
|---|---|---|---|
| **frontier** (`redis/queue.go`, `processing.go`, `retry.go`, `url_ds.go`) | queue LIST, retry ZSET, `url:status` HASH, `processing:index` SET, one `processing:queue:<worker>` LIST for each worker | Lua scripts: push, pop, retry, mark processed, recover, enqueue due; reset | called by everything below; one Redis |
| **parse use case** (`application/usecase/parse.go`) | what an execution holds in memory: the URL it took on, its attempts and parent | `Execute`: take on → fetch → save page → save link → push links → mark done; retry, give up, manual, leave for recovery | frontier, Postgres, fetcher, extractor |
| **health check** (`url_ds.go`, `processing.go`) | the members of the index it has read | `SSCAN`, `HGET`, recover | frontier |
| **crawl endpoint** (`delivery/http/handler/crawl`) | none | `Start`: push a seed; `reindex=true`: reset | frontier |
| **worker pool** (`delivery/worker/worker.go`, `Queue.Subscribe`) | two layers of channels of capacity 1, a timer for each sleeping worker, keyspace events under way | `run` of a worker, `fanOut`, the subscriber | parse use case, Redis Pub/Sub |
| **page store** (`postgres/page_ds.go`) | `pages`, `links` | upserts of pages and links, backlog, similarity query | parse use case, indexer, search |
| **indexer** (`application/usecase/index.go`, `notify_ds.go`) | the batch being indexed, an error counter, two channels | listener, cold start, `process` | page store, embedder, `LISTEN/NOTIFY` |
| **embedder client** (`internal/infrastructure/embedder`) | the loop of `EmbedBatch` | chunking a backlog into requests | embedding service |
| **fetcher, extractor, URL normalization, retry policy** (`infrastructure/fetcher`, `extractor`, `domain/model/url.go`, `domain/service`) | the browser process | fetch by HTTP, again through Chrome; text, name and links of a page; the interval of a retry; close the browser | parse use case, the web |
| **search** (`handler/search`, `usecase/query.go`) | none | embed the query, read similar pages | embedding service, page store |
| HTTP plumbing, wiring, metrics, migrations | none, or configuration | | |

What is hard about it:

* Every step of an execution is a separate remote call, so everything happens
  between any two of them. The Lua scripts are atomic; what is composed of them
  is not.
* An execution that runs out of its 15 s is not stopped. Its worker starts the
  next one beside it, the call under way still takes effect, `markTerminal` uses a context of its own, and by then the
  URL may belong to somebody else.
* The health check reads a record in one call and recovers the URL in another.
* go-redis repeats a script whose reply was lost. A pipeline fails in the middle.
* Redis and Postgres are written by separate calls without a transaction.
* Wake-ups are lossy by design: every channel holds one signal and drops the
  others, Pub/Sub delivers at most once, the timer is computed from a reply that
  is already old.
* `reindex=true` deletes the keys of a crawl that goes on, in several commands, and two such
  requests run beside each other.
* The site decides under which name a page is stored and which links are followed: by
  redirects, slashes, queries, capitals, ports. The browser is bound to no context.
* The indexer is notified by its own writes, and writes over what the crawler
  has stored meanwhile.

What makes each part correct:

* **frontier**: no URL is lost; a URL under processing is on its worker's list; a
  record is complete when it is needed; attempts and parents are never rewritten.
* **crawler**: *done* means stored; a parent is stored before it is named; a URL is
  in one place, held by one execution, and attempted at most `1 + TryLim` times, apart from the
  attempts a recovery took back; the crawl ends, if no fetch hangs.
* **worker pool**: a queued URL is not left with every worker asleep, unless Pub/Sub lost its event
  and nothing has been pushed since.
* **indexer**: a vector is that of the text beside it; nothing is overlooked after
  a notification; the indexer comes to rest.
* **visit** of one URL: a link is queued under the name its execution will use, on the host of the
  page it was found on; retries wait longer each time; a shutdown ends what Chrome keeps.
* **search**: what is shown is similar to the query, at any moment of a crawl.
* **embedder client**: every text gets its own vector; no request is empty or too large.

## 2. Modules

```
Frontier ──── FrontierProofs                 the scripts, any client
   │  └────── MCFrontier
Crawler ───── CrawlerProofs                  executions, health check, Postgres
   │  └────── MCCrawler ────── ExactProofs   failed calls and crashes only
Reset ─────── ResetProofs                    reindex=true under a running crawl
   └───────── MCReset
WorkerPool ── WorkerPoolProofs               sleeping and waking
   └───────── MCWorkerPool
Visit ─────── VisitProofs                    one URL: names, fetch, Chrome, retries
   └───────── MCVisit
Indexer                                      listener, cold start, process
   │
Search ────── IndexerProofs                  GET /search on the indexer's table
   └───────── MCIndexer
EmbedBatch ── EmbedBatchProofs               chunking
   └───────── MCEmbedBatch

URLLife    the abstract life of a URL:  implemented by Crawler, while exact
PageLife   the abstract life of a page: implemented by Indexer
```

A module `MCx` bounds what is unbounded, counts disturbances and defines the small
instances; a module `xProofs` holds theorems. The section "Mistakes" of a module
holds definitions no specification uses: each is a plausible bug in one operation
and shows, put in its place, that a property can fail. `PROJECT.json` pairs each with
its property, and maps every definition to the lines it models.

**Frontier.** Each Lua script is one action, because Redis runs it as one.
`queue` is the list in the order `LMOVE … RIGHT` takes it; `retry` the members of the
ZSET and `due` those whose score has passed; `urlStatus[u]` the JSON record with status
`"Absent"` for a missing hash field; `index` the processing index; `procQueue[<<w, u>>]`
how often `u` is on the list of worker `w` (a list may hold a URL twice); `fresh` the
URLs whose `take_on_at` is younger than the health check's threshold. Times are
abstracted to these two sets: the code only ever compares them with now.
`FrontierNext` is the **abstract specification**: any client, any script, any order,
any number of times. `LREM` with count 1 and 0 are `LRemOne` and `LRemAll`; both
remove from the list of the worker *the record* names, as the scripts do.
`RecordsComplete` is what keeps every script out of its branch for a missing record;
`PopUnknownURL` is the branch of the pop script (`redis/queue.go:71-77`) that aborts
after the move. It is not a disjunct of `FrontierNext`, because its guard is what
`RecordsComplete` excludes; only `Reset` reaches it.

**Crawler.** `pc[e]` is the call execution `e` has issued and not yet heard from;
`ctx[e]` is `live`, `late` (expired during that call) or `dead` (calls through it fail
unsent). `Exec` are goroutines and `WorkerOf` the worker that started each, so two
executions of one worker overlap when the first has outlived its context
(`MayStart`). `PushURLs` is a pipeline: `unsent[e]` are the links whose script has not been sent
yet, and each is sent once, unless the whole pipeline is repeated (`LostPipeline`). The health check is the three actions `ScanIndex`, `CheckRecord`, `Recover`.
`Disturbance` collects what the code must survive: a call that fails, a script or a
write that takes effect and seems to fail or is sent twice (`LostScript`,
`LostPipeline`, `LostWrite`, `LostRecover`), an execution over its time (`Expire`), a slow health check
(`LeaseTimeInScan`), an aborted pass (`HealthCheckFails`), a restart of the process
(`Crash`). The web is a constant: `Final[u]` is where the redirects of `u` end, `Links`
the links of the page there, `Norm` is `domain.Normalize`. A fetch has any of the
outcomes of `FetchStatus`, each time anew. Two facts of the wiring are built in:
the threshold of the health check and the timeout of an execution are both 15 s
(`di/di.go`), and a context is made before its take-on, so a take-on gets old only after
its context is over (`LeaseTime`); and Normalize is idempotent, and applied to
links and to the final URL (`WebAssumption`).
`Crawler` composes with `Frontier` by `EXTENDS`, its actions call the scripts, and
`ImplementsFrontier` is `FrontierSpec`, the refinement with the identity mapping.

**URLLife and PageLife** are what the data structures are for, without them. In `URLLife` a
URL is discovered once, taken on from the queue, and only what is under processing gets an
outcome, a retry or a recovery; an outcome is final. `Crawler` implements it through `CrawlPlace`,
which reads the place off the status hash, the index and the retry set, as long as every disturbance
is a failed call or a crash (`LifeWhileExact`): an execution that has outlived its context closes or
postpones, by name, what is queued again or belongs to somebody else. For the same reason
`WorkerPool`, which has such executions, does not implement it. In `PageLife` a
stored page is plain until the indexer gives it the vector of a text or
excludes it as too long, and stays so until it is stored again; `Indexer` implements it
through `PageOf`, which reads content and vector of a row together.

**Reset** extends `Crawler`. `Req` are the goroutines that serve requests: `net/http` runs them
beside each other, without a lock. Each handler sends three commands, `Scan`, `Delete` and `Seed`,
each of which can fail before or after it took effect (`RequestFails`); `handler[r]` is the
one it has yet to send and `keys[r]` what its SCAN returned. `Exists` is Redis' rule that
an empty key is gone, so a list or a set that was empty at the SCAN is not in `keys[r]` and
survives with what has been added since. The scripts' branches for a missing record, which
`FrontierNext` excludes, are reached here: a recovery or a due retry makes a record anew,
without a parent; `TakeOnFails` is the pop that aborts, and the panic of `Queue.TakeOn`
(`redis/queue.go:116`) that `Worker.run` recovers from. Two history variables say what the requests
have done to each other: `unseeded`, since a DEL nothing has been seeded, and `crossed`, a SCAN fell into such
a stretch. `Crawler.Start` is the request without `reindex`.

**Visit** is what `Crawler` takes for a constant or a free choice: the names of URLs and
the answers of a site. An `Address` is a URL as `net/url` parses it, a path is a sequence of
segments, of which the last is empty if the path ends in a slash, and `Resolve` is
`ResolveReference`. `Url`, `extractLinks` and `Normalize` of `Visit` are `Url`, `Links` and `Norm` of
`Crawler`. In exchange the calls that store the outcome are one step (`Extract`), and neither
recovery nor reset is here. `Fetch` is the HTTP request with its redirects and the content
type, as far as it is that of a text or not (`IsText`), `parseViaChrome` the second navigation, in a tab that
belongs to the browser and not to the execution; `BrowserGone` is its end when `CloseBrowser`, the
`OnStop` hook, has run. `Interval` is computed on `Width` bits; `Pow2` is `math.Pow(2, n)`, a
recursive function that can be reasoned about.

**WorkerPool.** The frontier is reduced to what the scripts do to queue, index and retry set (times a URL
is in the queue, so one that is there twice is two); the execution, to the scripts it calls. In exchange the
loop of `Worker.run` is complete: the drained retries,
the pop, the metadata read that decides how long to sleep, the two selects, the
subscriber (`Receive`), `fanOut` with its loop over the workers (`FanOut`, `Signal`).
One keyspace event is published for each `LPUSH`; `RPUSH` and others are ignored, as
`Subscribe` does. `Sleep` and `Wait` overlap on purpose: `SleepFor` is computed with
the clock of the client after the reply, so it can be positive or not. An execution ends with an outcome
(`Finish`), with an error or a panic (`Fails`), or its worker stops waiting for it after 15 s
(`Abandon`). Then the goroutine goes on (`left[g]`, for at most as many as `Left` has): the call it is in may yet take
effect, whoever has the URL by now (`LateEnqueue`, `LateTakeOn`, `LatePush`, `LateFinish`), and after a call that fails or a
take-on that succeeded it gives its URL up in a context of its own. `Reconnect` is the
connection of the subscriber breaking: go-redis subscribes again, and the events published in
between are gone (`missed`, until another is published).

**Indexer.** A content stands for the title, description and text of a page and for its
vector: the embedder is a function. `Notify` is the trigger of migration 3, which fires for
`ON CONFLICT DO UPDATE` too. The listener and the cold start race from `Init` on.

**Search** is a set of operators over the table of `Indexer`, since a request changes nothing and reads
in one statement: `ServeHTTP` is the set of answers a request can get in a state. The index
on the vectors is approximate, so `FindSimilar` may return any ordered selection: that
*all* similar pages are found is not promised.

**EmbedBatch.** One iteration of the loop is one action. A text is its length, the vector of
the k-th text is k, the empty vector 0. The Python service is external: it returns one
vector for each text, in order.

## 3. What TLC checks

| run | instance | question |
|---|---|---|
| `frontier` | 2 URLs, 2 workers, queue ≤ 2, attempts ≤ 1, a URL at most twice on the workers' lists; symmetry of URLs and workers | do the scripts keep `NoURLLost`, `IndexOwned`, `RecordsComplete`, `HistoryKept` under any client? |
| `crawler` | 2 executions of 2 workers, 2 pages that link to each other, no retries, any 2 disturbances | safety of the crawler, and that it implements the frontier |
| `crawler_ends` | 3 executions, two of them of one worker, a seed that redirects, 1 retry, any 1 disturbance, fairness | safety under redirects and with an execution left behind beside its successor, the retry budget, the life of a URL, the end of the crawl |
| `crawler_reset` | 1 worker, a page and its link, no retries, any 2 of: a request to reindex beside the other, a failure of one, a crash; fairness | what resets leave intact, and that the crawl still ends |
| `worker_pool` | 2 workers, 1 goroutine left behind, 2 URLs anywhere, ≤ 3 events under way, 1 restart, failed or abandoned execution or lost connection, fairness | no lost wake-up; queued URLs are taken on |
| `visit` | 2 executions, 3 hosts of 2 names, 7 paths, ≤ 2 retries on 5 bits, fairness | names, answers, Chrome, intervals, shutdown |
| `indexer` | 2 pages, 4 contents (two ordinary, one too long, one blank), 3 crawled pages, 3 failures, stop after 2 errors in a row; 2 queries, 5 values of `limit` | consistent rows, nothing overlooked, rest, the life of a page, sound answers to every search in every state |
| `embed_batch` | every list of ≤ 5 texts of 0 to 4 bytes, limit 3 | every text its vector, requests within the limit |

Why these bounds are enough for what is asked. In `frontier`, two URLs suffice to
tell "this URL" from "another", two workers to tell the caller of a script from the
owner in the record; a queue of two holds a URL twice, and two entries on the lists
tell `LREM` with count 1 from count 0 and a stale entry from the owner's. The
invariants are proved without the bounds (section 5). In the crawler runs, the
interesting situations need two executions with the same URL: an overrun, a lease that
expires, a recovery and a second take-on are one disturbance and ordinary steps; two
disturbances let the second holder fail too. `OnePlace` and the retry budget are checked
for runs in which every disturbance is a failed call or a crash (`exact`), and proved for those. A reply that is
lost, an execution that overruns and a health check that is slow each break
`OnePlace` in this code: a script is sent twice, or two executions hold the
same URL. A seed whose name is not in normal form is in the run `source_marked`; the theorems
of section 5 on the crawler hold for every `Norm`, `Final` and `Links`, some of them for seeds in
normal form only.
In `crawler_reset`, one worker suffices: what races with the resets is what an execution
and the health check hold in memory, and two requests meet them, and each other, at each of their calls.
A third would only repeat what the second can do: `crossed` is about one SCAN and one DEL. Its safety properties
are proved for any number of requests, workers, URLs and retries; liveness after resets is checked
without retries. The site of `visit` has one instance of each thing that
changes a name: a redirect to the form with a slash, one to another host with a query, a slash too
many, a query, capitals in a seed and in a link, another port, a script that navigates;
5 bits are enough for the interval of the second retry to fit and that of a third not to, as
it would be on 63 bits after some 30. In `worker_pool`, each of the
two layers of channels can be full while further events arrive, a URL can stay
behind while both workers go to sleep, and one goroutine left behind suffices to push, to take or to postpone
a URL that a worker holds or that is queued again; the theorems have any number of them. In `embed_batch`, limit 3 and sizes up to 4
give texts that fit, that fill a chunk exactly and that never fit, at
the beginning, the middle and the end of a list.

Deadlock is checked in `frontier`, the crawler runs and `crawler_reset`. The others may stop:
the pool with every URL closed and every worker waiting, an idle indexer, `EmbedBatch`
when it returns, a site that is crawled.

### Fairness

Every goroutine is scheduled, and calls to Redis and Postgres return (their clients have timeouts):
the subscriber, `fanOut`, the listener, the indexer, the handlers of requests and every call of an execution but its fetch have weak
fairness. The health check has a ticker, and retry times and leases pass with the
clock: weak fairness as well. No disturbance and no outcome is fair: a fetch may answer
"retry" every time, a pass may be aborted, the crawler may never store a page again.
`CrawlEnds`, `CompleteURLsEnd` and `ComesToRest` are of the form `<>[]`: the disturbances of a run are
finitely many, and what is claimed is what holds once they have stopped.

Two things the code does not guarantee are no fairness of `Crawler` and `Reset` but hypotheses of their
properties. `FetchesReturn`: a page that Chrome renders has neither a
timeout nor the context of its execution (`fetcher.go:216-225`), so an execution may stay in its fetch for ever. `WorkersWake`: a
worker that found the queue empty waits for a signal or a timer, and what becomes of that is
the subject of `WorkerPool`, where `QueueServed` shows it and the finding `due_retries` where
it fails. In `WorkerPool` an execution that does not return is abandoned after its 15 s,
so each worker has weak fairness; the goroutines left behind have none. In `Visit`, `Fetch` has
weak fairness because the HTTP client has a timeout and a context; `parseViaChrome` has neither
and gets none, so `ShutdownEnds` is what closing the browser alone achieves.

### Findings

Runs that end with a counterexample to what a document, a log or a test says:

* `left_for_recovery`: an execution over its time gives up, by name, a URL that another
  worker has been given since. If that worker then leaves the URL "for reaper
  recovery" after a transient error, it is in no queue, index or retry set.
* `source_marked`: `NormalizeStartURL` keeps the case of a host that every later call lowers.
  A seed with an upper-case host is recovered and crawled again for ever.
* `due_retries`: a worker that reads the metadata just after a retry has become due computes
  a sleep that is not positive, and waits without a timer. When all workers do, the
  retry waits for an unrelated push.
* `indexed_at_last`: a page that is stored after the cold start has read the table and before
  `LISTEN` has been executed is not indexed until another page is stored.

Seen while modelling, without a run of its own:

* `README.md:76` says that retries are drained only when the main queue is empty;
  `URLDS.TakeOn` (`redis/url_ds.go:115`) drains the due ones before every pop (`Execute`).
* After a reset, a record that a recovery or a retry made anew has no parent. Every worker that takes
  the URL on panics and recovers, and the health check queues it again, for ever. The seed
  itself can meet this, if it is recovered between `Delete` and `Seed`: the push of the seed then finds
  a record. `CompleteURLsEnd` is stated for the other URLs.
* A recovery does not count an attempt (`redis/processing.go:142`): a URL that crashes the process, or hangs in
  Chrome, each time is tried for ever. `RetryBudgetWhileExact` bounds the other attempts.
* Events that Pub/Sub loses may leave a URL in the queue and every worker waiting without a timer, until the next
  push; `README.md:82` calls the timer a backstop. `NoLostWakeup` and `QueueServed` exclude that stretch (`missed`).
* Two requests to reindex can lose the seed, though no call fails. A worker of the old
  crawl pushes a link between the SCAN and the DEL of the first, which leaves a queue without a status hash. The SCAN
  of the second, before anything has been seeded, returns the queue and not the hash; then a seed is pushed;
  the DEL of the second takes the queue from under its record. Every later push of the seed
  finds the record and adds nothing, and each request is answered with 202. A request that
  fails after its DEL and before its seed leaves the same stretch to the next one. TLC shows it if `NoURLLost` is checked in
  the instance of `crawler_reset`. `NewCrawlLosesNoURL` and `CompleteURLsEnd` are stated for
  the histories in which no SCAN falls into that stretch (`crossed`).
* A link "page" on `/dir/` is resolved against `/dir`, the normalized name, and becomes `/page`
  (`url.go:84` before `extractor.go:78`).
* A tab of Chrome has no timeout: a page without a visible body keeps its goroutine until the
  shutdown (`fetcher.go:216`).
* A seed with capitals and its normal form share a record: each execution computes its interval from
  its own attempts and counts them in the shared one (`Shared` in `Visit`).

## 4. What is only model-checked

Liveness: `CrawlEnds`, `CompleteURLsEnd`, `QueueServed`, `ShutdownEnds`, `ComesToRest` and `CatchesUp`.
The prover has neither fairness nor `ENABLED`. Every safety invariant and every action property
of a passing run is stated by a theorem of section 5.

## 5. What is proved

For every finite set of URLs, every set of workers and executions, every web:

| theorem | module | states |
|---|---|---|
| `FrontierTypeCorrect`, `FrontierLosesNoURL`, `FrontierIndexOwned`, `FrontierRecordsComplete` | `FrontierProofs` | the invariants of the scripts |
| `FrontierKeepsHistory` | `FrontierProofs` | the action property `HistoryKept` |
| `CrawlerTypeCorrect`, `CrawlerImplementsFrontier` | `CrawlerProofs` | types; the crawler implements the frontier |
| `CrawlerStoresParents`, `CrawlerDoneMeansStored` | `CrawlerProofs` | `ParentStored`; `DoneStored` if the seeds are in normal form |
| `CrawlerOnePlace`, `CrawlerRetryBudget` | `ExactProofs` | `OnePlaceWhileExact`, `RetryBudgetWhileExact` (attempts that no recovery took back), if the seeds are in normal form |
| `CrawlerLife` | `ExactProofs` | the crawler implements `URLLife` while it is exact, if the seeds are in normal form |
| `ResetTypeCorrect`, `ResetLosesNoURL`, `ResetStoresParents` | `ResetProofs` | `ResetTypeOK`, `NewCrawlLosesNoURL`, `ParentStored`, for any number of overlapping requests under every disturbance |
| `PoolTypeCorrect`, `PoolLosesNoWakeup` | `WorkerPoolProofs` | `NoLostWakeup` for any number of workers and of goroutines left behind |
| `IndexerTypeCorrect`, `IndexerKeepsVectors` | `IndexerProofs` | `VectorOfContent` for any number of pages |
| `IndexerImplementsLife` | `IndexerProofs` | the table implements `PageLife` |
| `SearchAnswersSound` | `IndexerProofs` | `SearchSound` for any corpus, query, limit and similarity |
| `VisitTypeCorrect`, `VisitNamesStable` | `VisitProofs` | types and `NamesStable` for any site |
| `VisitRetriesSpread` | `VisitProofs` | the action property `RetriesSpread` for any base interval, retry limit and width |
| `BatchTypeCorrect`, `BatchVectorsMatch`, `BatchChunksFit` | `EmbedBatchProofs` | `VectorsMatch` and `ChunksFit` for lists of any length |

The arguments:

* **Frontier.** `FrontierInv` is the conjunction of the four invariants. None but
  `NoURLLost` is inductive alone: `IndexOwned` needs that whatever is queued has a record
  (a new record must not be that of an indexed URL), and a due URL keeps its record only
  because `RecordsComplete` keeps `Requeued` out of its branch for a missing one. There is one
  lemma for each script; three lemmas on sequences say what `LPUSH`, a batch of them and
  `LMOVE` do to membership.
* **Refinement.** The step `[Next]_vars => [FrontierNext]_frontierVars` fails without an
  invariant: the health check recovers what it has read some time ago, and an execution names
  what it holds in memory. `CrawlerInv` adds to `FrontierInv` that both still have a
  record, with the parent they were read with. `Scripts` names the script each step runs,
  `Moves` what a step does to each execution; the rest follows from these two. That records
  stay is the theorem on `HistoryKept`, used inside the proof of the refinement.
* **Stores.** `ParentStored` and `DoneStored` relate two databases. `Stage(e)` says what an
  execution has stored by the time it makes each call; that a link is inserted at all
  (`INSERT … SELECT` from the parent's row) uses `ParentStored` itself. `DoneStored` needs
  keys in normal form, hence the assumption on the seeds: without it an execution closes a
  name it was not given.
* **One place, retry budget.** `OnePlace` counts over the queue and over the executions, and is far from inductive.
  `ExactInv` says where the count comes from: the status in a record names the one structure
  the URL is in (`Places`); the queue has no duplicates (`Distinct`), so `Copies` is 0 or 1, and a push
  or a move keeps it so; what an execution holds is under processing and on the list of its worker
  (`Held`), and nobody else holds it (`HeldApart`). The health check is what could break this. `Held` says that an
  execution within its time has a fresh lease, and `ReaperExact` that what the health check is about to recover
  has none: no execution holds it. A closed or a waiting URL is in no index, so neither is recovered. The retry budget
  is about attempts, which the history `attempts` of `MCCrawler` counts, and the code counts retries: `Counted` says that the attempts of a URL
  are the `try` of its record, and one more while it is under processing or once it is closed, and `TriesBounded` that `try`
  grows only where the execution has compared it with `TryLim`; `AttemptsCounted` carries the first through every script. All this is stated under `exact`, which a lost
  reply, an overrun or a slow health check ends for good. `CrawlerLife` follows: who closes or
  postpones a URL holds it, hence it is under processing and not closed already. The seeds must be in normal
  form, as for `DoneStored`.
* **Reset.** Of `CrawlerInv` only the types survive a DEL: executions and the health check hold what
  no longer has a record. What is left is enough. A URL whose status points to the queue, the retry set or the
  index can be lost only if that structure is deleted and the status is not. Unless something was deleted and nothing
  seeded since, either some record exists or everything is empty (first part of `SeedInv`), so a SCAN which returns one of
  them returns the status hash too (`ScannedWhole`), for as long as no SCAN falls into that stretch (`crossed`). The DEL of that SCAN then
  takes the records with the rest, however many other requests have sent theirs meanwhile. `PageStored(e)`
  carries `ParentStored` through the calls of an execution that outlives a reset: the pages are not
  deleted.
* **Worker pool.** `NoLostWakeup` is inductive with the types: the only step that takes a
  worker out of `Awake` without a signal finds the queue empty, and every push, those of goroutines
  left behind included, leaves an event behind it. What such a goroutine takes, closes or postpones only
  makes the queue shorter.
* **The lives.** `Crawler` implements `URLLife`, while it is exact, by the argument on one place above. The table
  implements `PageLife` because everything in the indexer's batch was plain when it was read and only
  the indexer itself makes a page anything else (`BatchPlain`).
* **Search.** `VectorOfContent` turns the distance between vectors, which `FindSimilar` compares, into one
  between the query and the text that is shown; a page of the backlog has no vector.
* **Visit.** `TrimRight` is idempotent: its result ends in a segment that is not empty, or is
  empty itself; the existence of such an end is an instance of the least number principle
  (`LastSegment`). `VisitInv` says of an execution that what it has fetched is named by a
  normal form, on its way to the extractor through HTTP or Chrome; hence the names, the
  hosts and the parents of the links it pushes. This discharges for the code what
  `WebAssumption` of `Crawler` states.
* **Retries.** `Pow2` is a function defined by recursion; that the equation has a solution is
  proved from solutions for prefixes (`PrefixPowers`, `PrefixesAgree`), the next one by the least number
  principle. By `RetryAssumption` the interval of every attempt within `TryLim` fits, so `Signed` does not change it
  (`SmallRemainder`), and doubling a positive number gives a larger one (`IntervalsGrow`). The step from intervals to
  `wait` is the invariant `RetryInv`: a record that is not shared has the `wait` of its own last
  attempt, and an execution counts from the attempts in the record.
* **EmbedBatch.** `Aligned` (the vectors are those of the texts before the chunk) and
  `ChunkSmall` (no text of a chunk is larger than the running sum, and that is within
  the limit) give `VectorsMatch`. `ChunksFit` sums sizes: `SizeCounted` says that the counter of the loop is the
  difference of `Bytes` at the two ends of the chunk; `Bytes` is a recursive function like `Pow2`.

The assumptions are those named in the modules: URLs and executions are finitely many, the
special values are no URLs and no workers, the laws of the web above, and in `Visit` that
the site's addresses are closed under its own links (`SiteAssumption`) and the largest interval fits
its integer (`RetryAssumption`: `5 * 10^9 * 2^4 < 2^63` in `NewCrawler`).

## 6. What is not modelled, and the plan

Not modelled:

* HTML parsing, readability, the markers by which a page is recognized as one for Chrome, and what
  `net/http` and Chrome do inside: libraries whose result is any answer of the site in `Visit`.
* Schemes, escaped slashes, dot segments and URLs that do not parse. A URL that was normalized has a
  `Path` without its slash and keeps the `RawPath`, which `net/url` then ignores: the
  escapes of such a path can be lost. `Visit` has paths without escapes.
* `GetURL`, `GetURLInfo`, `GetPage`, `PageExists`: they only read, and only tests call them.
* Routing, JSON, metrics, dependency injection, connections and migrations, the generated gRPC
  code: no state that others see.
* A Redis that is shared with other programs, where one SCAN of the reset does not return every key.
* `TryLim = -1`, which the wiring does not use.

Next:

1. Larger instances of `Reset`, with retries or two workers, by random simulation: liveness after
   resets is checked for one worker and two requests without retries.
2. Liveness by lemmas: the safety halves of `CrawlEnds` (an outcome is final, a budget bounds the attempts) are
   proved; what decreases with each step is not stated yet.
