------------------------------- MODULE Visit --------------------------------
(***************************************************************************)
(* What an execution of Crawler makes of one URL: the name it asks for,    *)
(* the answer it gets, through HTTP or through Chrome, and the names under *)
(* which page and links are stored (src/internal/infrastructure/fetcher,   *)
(* extractor, storage/mapper, domain/model/url.go, domain/service).        *)
(*                                                                         *)
(* Crawler has the calls that store the outcome, and what can come between *)
(* them; here they are one step.  Crawler's Norm, Final and Links are      *)
(* Normalize, the normalized end of Redirect, and extractLinks of this     *)
(* module.                                                                 *)
(*                                                                         *)
(* An address is a URL as net/url parses it: the host with its port, and   *)
(* whether it is written with capitals; the segments of the path, of which *)
(* the last is empty if the path ends in a slash; whether there is a query *)
(* (user info and fragments are handled like queries).  Schemes, escaped   *)
(* slashes and dot segments are left out.                                  *)
(***************************************************************************)
EXTENDS Integers, Sequences

CONSTANTS
  Host, Hostname,  \* Host, and what it is without its port
  Segment, Empty,  \* segments; the one after the slash at the end
  Path,            \* sequences of segments
  Exec,            \* the goroutines that execute Parse
  Raw,             \* the URLs given to the crawl endpoint
  Redirect,        \* where the redirects of an address end
  Script,          \* where Chrome ends up, the scripts of the page included
  Answers,         \* what the server may answer there
  Hrefs,           \* the links of the page there
  TryLim, TryBaseInterval,
  Width,           \* bits of a time.Duration
  NoAddress

Address == [host : Host, upper : BOOLEAN, path : Path, query : BOOLEAN]

\* A reference without a host: "/x" is rooted, "x" is not.
Relative == [rooted : BOOLEAN, path : Path, query : BOOLEAN]

Response == [status : {"ok", "retry", "manual", "impossible"},
             header : {"none", "text", "binary"},  \* Content-Type
             nosniff : BOOLEAN,
             sniffed : {"text", "binary"},         \* DetectContentType
             spa : BOOLEAN]

\* A mistake, TrimSuffix.
TrimOne(path) ==
  IF path # <<>> /\ path[Len(path)] = Empty THEN SubSeq(path, 1, Len(path) - 1)
  ELSE path

\* strings.TrimRight(path, "/")
TrimRight(path) ==
  SubSeq(path, 1, CHOOSE n \in 0 .. Len(path) :
                    /\ n > 0 => path[n] # Empty
                    /\ \A i \in n + 1 .. Len(path) : path[i] = Empty)

Normalize(a) == [host |-> a.host, upper |-> FALSE,
                 path |-> TrimRight(a.path), query |-> FALSE]

(* Scheme and host: the case of the host is kept.                          *)
NormalizeStartURL(a) == [a EXCEPT !.path = <<>>, !.query = FALSE]

(* url.ResolveReference: the last segment of the base gives way.           *)
Directory(path) == IF path = <<>> THEN <<>> ELSE SubSeq(path, 1, Len(path) - 1)

Resolve(base, ref) ==
  IF ref \in Address THEN ref
  ELSE [base EXCEPT !.query = ref.query,
                    !.path = IF ref.rooted THEN ref.path
                             ELSE IF ref.path = <<>> THEN @
                             ELSE Directory(@) \o ref.path]

(* math.Pow(2, n)                                                          *)
Pow2[n \in Nat] == IF n = 0 THEN 1 ELSE 2 * Pow2[n - 1]

ASSUME SiteAssumption ==
  /\ Raw \subseteq Address
  /\ Redirect \in [Address -> Address]
  /\ Script \in [Address -> Address]
  /\ \A a \in Address : Answers[a] \subseteq Response
  /\ \A a \in Address : Hrefs[a] \subseteq Address \cup Relative
  /\ NoAddress \notin Address
  /\ <<>> \in Path /\ Path \subseteq Seq(Segment)
  /\ \A a \in Address : TrimRight(a.path) \in Path
  /\ \A a, base \in Address : \A ref \in Hrefs[a] :
       Normalize(base) = base => Resolve(base, ref) \in Address

\* 5 * 10^9 * 2^4 < 2^63 in NewCrawler.
ASSUME RetryAssumption ==
  /\ TryLim \in Nat /\ TryBaseInterval \in Nat \ {0} /\ Width \in Nat \ {0}
  /\ TryLim > 0 => TryBaseInterval * Pow2[TryLim - 1] < Pow2[Width - 1]

VARIABLES
  record,   \* the keys with a record: their parent, attempts, last interval
  queue,    \* those that can be taken on
  retry,    \* those that wait for their retry time
  pc,       \* what an execution waits for: "http", "chrome"; or "extract"
  job,      \* the key it took on
  data,     \* the FetchData of its answer
  pages,    \* the pages table: URL, and the address the content was read at
  browser   \* Chrome runs until the OnStop hook closes it

frontier == <<record, queue, retry>>
vars     == <<record, queue, retry, pc, job, data, pages, browser>>

NoData == [FinalURL |-> NoAddress, body |-> NoAddress]

TypeOK ==
  /\ \A k \in DOMAIN record :
       /\ k \in Address
       /\ record[k].parent \in Address \cup {NoAddress}
       /\ record[k].try \in Nat
       /\ record[k].wait \in 0 .. Pow2[Width - 1] - 1
  /\ queue \subseteq DOMAIN record /\ retry \subseteq DOMAIN record
  /\ pc \in [Exec -> {"idle", "http", "chrome", "extract"}]
  /\ job \in [Exec -> Address \cup {NoAddress}]
  /\ pages \subseteq [url : Address, body : Address]
  /\ browser \in {"open", "closed"}

Init ==
  /\ record = <<>>
  /\ queue = {} /\ retry = {}
  /\ pc = [e \in Exec |-> "idle"]
  /\ job = [e \in Exec |-> NoAddress]
  /\ data = [e \in Exec |-> NoData]
  /\ pages = {}
  /\ browser = "open"

-----------------------------------------------------------------------------
(* Mistakes, which no specification uses. *)

\* try > TryLim
CalcRetryTimeOnceMore(try) == try <= TryLim

\* A tab has a context of its own.
BrowserStillRuns(e) ==
  /\ pc[e] = "chrome"
  /\ browser = "open"
  /\ pc' = [pc EXCEPT ![e] = "idle"]
  /\ UNCHANGED <<frontier, job, data, pages, browser>>

(* Hostnames are compared as they are written, and that of the final URL   *)
(* has no capitals: a redirect to another host makes that host's links     *)
(* followed.                                                               *)
Followed(final, abs) ==
  Hostname[final.host] = Hostname[abs.host] /\ ~abs.upper

Url(e) == Normalize(job[e])

extractLinks(e) ==
  LET base == data[e].FinalURL
      abs  == {Resolve(base, ref) : ref \in Hrefs[data[e].body]}
  IN  {Normalize(a) : a \in {a \in abs : Followed(base, a)}}

-----------------------------------------------------------------------------
(* Retries. *)

CalcRetryTime(try) == try < TryLim

\* An int64 of Width bits.
Signed(n) == LET m == n % Pow2[Width]
             IN  IF m >= Pow2[Width - 1] THEN m - Pow2[Width] ELSE m

Interval(try) == Signed(TryBaseInterval * Pow2[try])

-----------------------------------------------------------------------------
(* The crawl. *)

Push(urls, parent) ==
  LET new == urls \ DOMAIN record IN
    /\ record' = [k \in DOMAIN record \cup new |->
                    IF k \in new THEN [parent |-> parent, try |-> 0, wait |-> 0]
                    ELSE record[k]]
    /\ queue' = queue \cup new
    /\ UNCHANGED retry

Start ==
  /\ \E raw \in Raw : Push({NormalizeStartURL(raw)}, NoAddress)
  /\ UNCHANGED <<pc, job, data, pages, browser>>

Proceed(e, next, fetched) ==
  /\ pc' = [pc EXCEPT ![e] = next]
  /\ data' = [data EXCEPT ![e] = fetched]
  /\ job' = IF next = "idle" THEN [job EXCEPT ![e] = NoAddress] ELSE job

TakeOn(e) ==
  /\ pc[e] = "idle" /\ browser = "open"
  /\ \E k \in queue :
       /\ queue' = queue \ {k}
       /\ job' = [job EXCEPT ![e] = k]
  /\ pc' = [pc EXCEPT ![e] = "http"]
  /\ UNCHANGED <<record, retry, data, pages, browser>>

\* Not sniffed only if the server names a type and forbids it.
IsText(resp) ==
  "text" = IF resp.header = "none" \/ ~resp.nosniff THEN resp.sniffed
           ELSE resp.header

(* What the server has answered, and what Execute does if there is no page *)
(* in it.                                                                  *)
FetchPage(e, resp) ==
  LET final == [FinalURL |-> Normalize(Redirect[Url(e)]), body |-> Redirect[Url(e)]]
  IN  /\ resp.status = "ok" /\ IsText(resp)
      /\ Proceed(e, IF resp.spa THEN "chrome" ELSE "extract", final)
      /\ UNCHANGED frontier

FetchRetry(e, resp) ==
  /\ resp.status = "retry"
  /\ Proceed(e, "idle", NoData)
  /\ LET u == Url(e) IN
       IF u \in DOMAIN record /\ CalcRetryTime(record[job[e]].try)
       THEN /\ record' = [record EXCEPT ![u].try = @ + 1,
                                        ![u].wait = Interval(record[job[e]].try)]
            /\ retry' = retry \cup {u}
            /\ UNCHANGED queue
       ELSE UNCHANGED frontier

FetchNothing(e, resp) ==
  /\ \/ resp.status \in {"manual", "impossible"}
     \/ resp.status = "ok" /\ ~IsText(resp)
  /\ Proceed(e, "idle", NoData)
  /\ UNCHANGED frontier

Fetch(e) ==
  /\ pc[e] = "http"
  /\ \/ \E resp \in Answers[Redirect[Url(e)]] :
          FetchPage(e, resp) \/ FetchRetry(e, resp) \/ FetchNothing(e, resp)
     \/ Proceed(e, "idle", NoData) /\ UNCHANGED frontier  \* no answer
  /\ UNCHANGED <<pages, browser>>

(* The second navigation, to the URL and not to where HTTP was led: its    *)
(* content replaces that of the answer, its address does not.              *)
ViaChrome(e) == [data[e] EXCEPT !.body = Script[Url(e)]]

parseViaChrome(e) ==
  /\ pc[e] = "chrome" /\ browser = "open"
  /\ \/ Proceed(e, "extract", ViaChrome(e))
     \/ Proceed(e, "idle", NoData)
  /\ UNCHANGED <<frontier, pages, browser>>

(* Nothing but the end of the browser ends a tab that waits for a body.    *)
BrowserGone(e) ==
  /\ pc[e] = "chrome"
  /\ browser = "closed"
  /\ Proceed(e, "idle", NoData)
  /\ UNCHANGED <<frontier, pages, browser>>

(* The page, and the record of every link that has none; or an error.      *)
Extract(e) ==
  /\ pc[e] = "extract"
  /\ \/ /\ pages' = pages \cup {[url |-> data[e].FinalURL, body |-> data[e].body]}
        /\ Push(extractLinks(e), data[e].FinalURL)
     \/ UNCHANGED <<frontier, pages>>
  /\ Proceed(e, "idle", NoData)
  /\ UNCHANGED browser

RetryTime(k) ==
  /\ k \in retry
  /\ retry' = retry \ {k}
  /\ queue' = queue \cup {k}
  /\ UNCHANGED <<record, pc, job, data, pages, browser>>

(* The OnStop hook: the workers' context is cancelled, Chrome is closed.   *)
CloseBrowser ==
  /\ browser' = "closed"
  /\ UNCHANGED <<frontier, pc, job, data, pages>>

Next ==
  \/ \E e \in Exec : \/ TakeOn(e) \/ Fetch(e) \/ parseViaChrome(e)
                     \/ BrowserGone(e) \/ Extract(e)
  \/ \E k \in DOMAIN record : RetryTime(k)
  \/ Start \/ CloseBrowser

Spec == Init /\ [][Next]_vars

(* The HTTP client has a timeout and a context; Chrome has neither.        *)
Fairness ==
  \A e \in Exec : WF_vars(Fetch(e)) /\ WF_vars(BrowserGone(e)) /\ WF_vars(Extract(e))

FairSpec == Spec /\ Fairness

-----------------------------------------------------------------------------
(* A URL that was found on a page is stored under the name that the calls  *)
(* of its execution will use, and on the host of that page: what Crawler   *)
(* assumes of Norm, Final and Links, whatever redirects, slashes, queries  *)
(* and capitals the site has.                                              *)
NamesStable ==
  /\ \A k \in DOMAIN record :
       record[k].parent # NoAddress =>
         /\ Normalize(k) = k
         /\ Hostname[k.host] = Hostname[record[k].parent.host]
         /\ \E page \in pages : page.url = record[k].parent
  /\ \A page \in pages : Normalize(page.url) = page.url

(* A URL that is tried again waits longer than the time before: the        *)
(* doubled interval does not overflow within the limit.  The record that a *)
(* seed with capitals shares with its normal form counts the attempts of   *)
(* both, and the intervals are those of each.                              *)
Shared(k) == \E j \in DOMAIN record \ {k} : Normalize(j) = k

RetriesSpread ==
  [][\A k \in DOMAIN record :
       record'[k].try > record[k].try /\ ~Shared(k) =>
         record'[k].wait > record[k].wait]_vars

(* Closing the browser ends the executions that Chrome keeps, although     *)
(* nothing else does.                                                      *)
ShutdownEnds == browser = "closed" ~> \A e \in Exec : pc[e] = "idle"
=============================================================================
