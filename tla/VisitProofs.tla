---------------------------- MODULE VisitProofs -----------------------------
(***************************************************************************)
(* The types and names of Visit, for any site that is closed under its own *)
(* links, and the intervals of its retries, for any limit of them.         *)
(***************************************************************************)
EXTENDS Visit, WellFoundedInduction, TLAPS

-----------------------------------------------------------------------------
(* Normal forms. *)

LEMMA LeastNatural ==
  ASSUME NEW T, T \subseteq Nat, T # {}
  PROVE  \E x \in T : \A y \in T : x <= y
<1> DEFINE R == {ss \in Nat \X Nat : ss[1] < ss[2]}
<1>1. IsWellFoundedOn(R, Nat)
  BY NatLessThanWellFounded DEF OpToRel
<1>2. PICK x \in T : \A y \in T : ~ (<<y, x>> \in R)
  BY <1>1, WFMin
<1>3. ASSUME NEW y \in T PROVE x <= y
  <2>1. x \in Nat /\ y \in Nat
    OBVIOUS
  <2>2. ~ (<<y, x>> \in R)
    BY <1>2
  <2>3. ~ (y < x)
    BY <2>1, <2>2 DEF R
  <2> QED
    BY <2>1, <2>3
<1> QED
  BY <1>2, <1>3

(* There is a last segment that is not empty, or none is.                  *)
LEMMA LastSegment ==
  ASSUME NEW S, NEW path \in Seq(S)
  PROVE  \E n \in 0 .. Len(path) :
           /\ n > 0 => path[n] # Empty
           /\ \A i \in n + 1 .. Len(path) : path[i] = Empty
<1> DEFINE T == {n \in 0 .. Len(path) : \A i \in n + 1 .. Len(path) : path[i] = Empty}
<1>1. Len(path) \in Nat
  OBVIOUS
<1>2. T \subseteq Nat /\ Len(path) \in T
  BY <1>1 DEF T
<1>3. PICK n \in T : \A m \in T : n <= m
  BY <1>2, LeastNatural
<1>4. n \in 0 .. Len(path) /\ \A i \in n + 1 .. Len(path) : path[i] = Empty
  BY <1>3 DEF T
<1>5. ASSUME n > 0, path[n] = Empty PROVE FALSE
  <2>1. n - 1 \in 0 .. Len(path)
    BY <1>1, <1>4, <1>5
  <2>2. ASSUME NEW i \in n - 1 + 1 .. Len(path) PROVE path[i] = Empty
    <3>1. i = n \/ i \in n + 1 .. Len(path)
      BY <1>1, <1>4
    <3> QED
      BY <3>1, <1>4, <1>5
  <2>3. n - 1 \in T
    BY <2>1, <2>2 DEF T
  <2> QED
    <3>1. n <= n - 1
      BY <2>3, <1>3
    <3> QED
      BY <3>1, <1>4
<1> QED
  BY <1>4, <1>5

(* Trimming twice is trimming once.                                        *)
LEMMA TrimRightTwice ==
  ASSUME NEW S, NEW path \in Seq(S)
  PROVE  TrimRight(TrimRight(path)) = TrimRight(path)
<1> DEFINE Cut(p, n) == /\ n > 0 => p[n] # Empty
                        /\ \A i \in n + 1 .. Len(p) : p[i] = Empty
           n == CHOOSE n \in 0 .. Len(path) : Cut(path, n)
           q == SubSeq(path, 1, n)
           m == CHOOSE m \in 0 .. Len(q) : Cut(q, m)
<1>1. n \in 0 .. Len(path) /\ Cut(path, n)
  BY LastSegment DEF n, Cut
<1>2. TrimRight(path) = q /\ TrimRight(q) = SubSeq(q, 1, m)
  BY DEF TrimRight, q, m, n, Cut
<1> HIDE DEF n
<1>3. q \in Seq(S) /\ Len(q) = n /\ \A i \in 1 .. n : q[i] = path[i]
  BY <1>1 DEF q
<1> HIDE DEF q
<1>4. m \in 0 .. Len(q) /\ Cut(q, m)
  BY <1>3, LastSegment DEF m, Cut
<1> HIDE DEF m
<1>5. m = n
  <2>1. ASSUME m < n PROVE FALSE
    <3>1. n \in m + 1 .. Len(q) /\ n > 0
      BY <2>1, <1>1, <1>3, <1>4
    <3>2. q[n] = Empty
      BY <3>1, <1>4 DEF Cut
    <3>3. path[n] # Empty /\ q[n] = path[n]
      BY <3>1, <1>1, <1>3 DEF Cut
    <3> QED
      BY <3>2, <3>3
  <2>2. m <= n
    BY <1>1, <1>3, <1>4
  <2> QED
    BY <2>1, <2>2, <1>1, <1>4
<1>6. SubSeq(q, 1, n) = q
  BY <1>3
<1> QED
  BY <1>2, <1>5, <1>6

LEMMA Normalized ==
  ASSUME NEW a \in Address
  PROVE  /\ Normalize(a) \in Address
         /\ Normalize(Normalize(a)) = Normalize(a)
         /\ Normalize(a).host = a.host
<1>1. /\ a.host \in Host
      /\ a.path \in Seq(Segment)
      /\ TrimRight(a.path) \in Path
  BY SiteAssumption DEF Address
<1>2. Normalize(a).host = a.host /\ Normalize(a).path = TrimRight(a.path)
  BY DEF Normalize
<1>3. TrimRight(TrimRight(a.path)) = TrimRight(a.path)
  BY <1>1, TrimRightTwice
<1>4. Normalize(Normalize(a)) = Normalize(a)
  BY <1>2, <1>3 DEF Normalize
<1>5. Normalize(a) \in Address
  BY <1>1 DEF Normalize, Address
<1> QED
  BY <1>2, <1>4, <1>5

-----------------------------------------------------------------------------
(* The invariant: NamesStable, and what an execution holds on the way.     *)

Record == [parent : Address \cup {NoAddress}, try : Nat,
           wait : {0} \cup {Interval(t) : t \in Nat}]

RecordTypes ==
  /\ DOMAIN record \subseteq Address
  /\ record \in [DOMAIN record -> Record]
  /\ queue \subseteq DOMAIN record
  /\ retry \subseteq DOMAIN record

FetchData == [FinalURL : Address \cup {NoAddress},
              body : Address \cup {NoAddress}]

Delivered(d) == /\ d.FinalURL \in Address
                /\ Normalize(d.FinalURL) = d.FinalURL
                /\ d.body \in Address

Execs ==
  /\ pc \in [Exec -> {"idle", "http", "chrome", "extract"}]
  /\ job \in [Exec -> Address \cup {NoAddress}]
  /\ data \in [Exec -> FetchData]
  /\ \A e \in Exec :
       /\ pc[e] # "idle" => job[e] \in DOMAIN record
       /\ pc[e] \in {"chrome", "extract"} => Delivered(data[e])

VisitInv == RecordTypes /\ Execs /\ NamesStable

LEMMA Proceeds ==
  ASSUME Execs, NEW e \in Exec,
         NEW next \in {"idle", "chrome", "extract"}, NEW fetched \in FetchData,
         pc[e] # "idle", DOMAIN record \subseteq DOMAIN record',
         next # "idle" => Delivered(fetched),
         Proceed(e, next, fetched)
  PROVE  Execs'
<1>1. pc' = [pc EXCEPT ![e] = next] /\ data' = [data EXCEPT ![e] = fetched]
  BY DEF Proceed
<1>2. job' \in [Exec -> Address \cup {NoAddress}]
  BY DEF Proceed, Execs
<1>3. pc' \in [Exec -> {"idle", "http", "chrome", "extract"}]
  BY <1>1 DEF Execs
<1>4. data' \in [Exec -> FetchData]
  BY <1>1 DEF Execs
<1>5. ASSUME NEW f \in Exec
      PROVE  /\ pc'[f] # "idle" => job'[f] \in DOMAIN record'
             /\ pc'[f] \in {"chrome", "extract"} => Delivered(data'[f])
  <2>1. CASE f = e
    <3>1. pc'[f] = next /\ data'[f] = fetched
      BY <1>1, <2>1 DEF Execs
    <3>2. next # "idle" => job'[f] \in DOMAIN record'
      BY <2>1 DEF Proceed, Execs
    <3> QED
      BY <3>1, <3>2
  <2>2. CASE f # e
    <3>1. pc'[f] = pc[f] /\ data'[f] = data[f] /\ job'[f] = job[f]
      BY <1>1, <2>2 DEF Proceed, Execs
    <3> QED
      BY <3>1 DEF Execs
  <2> QED
    BY <2>1, <2>2
<1> QED
  BY <1>2, <1>3, <1>4, <1>5 DEF Execs, Delivered

(* New records get along with the old ones.                                *)
LEMMA Pushes ==
  ASSUME RecordTypes, NamesStable,
         NEW urls \in SUBSET Address, NEW parent \in Address \cup {NoAddress},
         Push(urls, parent),
         pages \subseteq pages',
         \A page \in pages' : Normalize(page.url) = page.url,
         parent # NoAddress =>
           /\ \A u \in urls : Normalize(u) = u /\ Hostname[u.host] = Hostname[parent.host]
           /\ \E page \in pages' : page.url = parent
  PROVE  RecordTypes' /\ NamesStable'
<1> DEFINE new == urls \ DOMAIN record
<1>1. record' = [k \in DOMAIN record \cup new |->
                   IF k \in new THEN [parent |-> parent, try |-> 0, wait |-> 0]
                   ELSE record[k]]
  BY DEF Push
<1>2. DOMAIN record' = DOMAIN record \cup new
  BY <1>1
<1>3. ASSUME NEW k \in DOMAIN record'
      PROVE  /\ k \in new => record'[k] = [parent |-> parent, try |-> 0, wait |-> 0]
             /\ k \notin new => k \in DOMAIN record /\ record'[k] = record[k]
  BY <1>1, <1>2
<1>4. ASSUME NEW k \in DOMAIN record'
      PROVE  record'[k] \in Record
  <2>1. [parent |-> parent, try |-> 0, wait |-> 0] \in Record
    BY DEF Record
  <2>2. CASE k \in new
    BY <2>1, <2>2, <1>3
  <2>3. CASE k \notin new
    BY <2>3, <1>3 DEF RecordTypes
  <2> QED
    BY <2>2, <2>3
<1>5. RecordTypes'
  <2>1. record' \in [DOMAIN record' -> Record]
    BY <1>1, <1>2, <1>4
  <2>2. queue' = queue \cup new /\ retry' = retry
    BY DEF Push
  <2> QED
    BY <2>1, <2>2, <1>2 DEF RecordTypes, Record
<1>6. ASSUME NEW k \in DOMAIN record', record'[k].parent # NoAddress
      PROVE  /\ Normalize(k) = k
             /\ Hostname[k.host] = Hostname[record'[k].parent.host]
             /\ \E page \in pages' : page.url = record'[k].parent
  <2>1. CASE k \in new
    <3>1. record'[k].parent = parent /\ k \in urls
      BY <1>3, <2>1
    <3> QED
      BY <3>1, <1>6
  <2>2. CASE k \notin new
    <3>1. k \in DOMAIN record /\ record'[k] = record[k]
      BY <1>3, <2>2
    <3> QED
      BY <3>1, <1>6 DEF NamesStable
  <2> QED
    BY <2>1, <2>2
<1> QED
  BY <1>5, <1>6 DEF NamesStable, Normalize

(* The links of a page have normal names on its host.                      *)
LEMMA LinksNormal ==
  ASSUME NEW e \in Exec, Delivered(data[e]), NEW u \in extractLinks(e)
  PROVE  /\ u \in Address
         /\ Normalize(u) = u
         /\ Hostname[u.host] = Hostname[data[e].FinalURL.host]
<1> DEFINE base == data[e].FinalURL
<1>1. PICK ref \in Hrefs[data[e].body] :
             /\ Followed(base, Resolve(base, ref))
             /\ u = Normalize(Resolve(base, ref))
  BY DEF extractLinks
<1>2. Resolve(base, ref) \in Address
  BY <1>1, SiteAssumption DEF Delivered
<1>3. Hostname[Resolve(base, ref).host] = Hostname[base.host]
  BY <1>1 DEF Followed
<1> QED
  BY <1>1, <1>2, <1>3, Normalized

LEMMA VisitInvInit == Init => VisitInv
<1> SUFFICES ASSUME Init PROVE VisitInv
  OBVIOUS
<1>1. DOMAIN record = {}
  BY DEF Init
<1>2. RecordTypes
  BY <1>1 DEF Init, RecordTypes
<1>3. NoData \in FetchData
  BY DEF NoData, FetchData
<1>4. Execs
  BY <1>3 DEF Init, Execs
<1>5. NamesStable
  BY <1>1 DEF Init, NamesStable
<1> QED
  BY <1>2, <1>4, <1>5 DEF VisitInv

LEMMA VisitInvStep == VisitInv /\ [Next]_vars => VisitInv'
<1> SUFFICES ASSUME VisitInv, [Next]_vars PROVE VisitInv'
  OBVIOUS
<1> USE DEF VisitInv
<1>0. NoData \in FetchData
  BY DEF NoData, FetchData
<1>1. CASE Start
  <2>1. PICK raw \in Raw : Push({NormalizeStartURL(raw)}, NoAddress)
    BY <1>1 DEF Start
  <2>2. NormalizeStartURL(raw) \in Address
    <3>1. raw \in Address /\ <<>> \in Path
      BY SiteAssumption
    <3> QED
      BY <3>1 DEF NormalizeStartURL, Address
  <2>3. pages' = pages /\ Execs'
    <3>1. DOMAIN record \subseteq DOMAIN record'
      BY <2>1 DEF Push
    <3> QED
      BY <1>1, <3>1 DEF Start, Execs, Delivered, Normalize
  <2>4. RecordTypes' /\ NamesStable'
    BY <2>1, <2>2, <2>3, Pushes DEF NamesStable
  <2> QED
    BY <2>3, <2>4
<1>2. ASSUME NEW e \in Exec, TakeOn(e) PROVE VisitInv'
  <2>1. PICK k \in queue : job' = [job EXCEPT ![e] = k] /\ queue' = queue \ {k}
    BY <1>2 DEF TakeOn
  <2>2. k \in DOMAIN record /\ k \in Address
    BY DEF RecordTypes
  <2>3. pc' = [pc EXCEPT ![e] = "http"] /\ UNCHANGED <<record, retry, data, pages>>
    BY <1>2 DEF TakeOn
  <2>4. Execs'
    BY <2>1, <2>2, <2>3 DEF Execs, Delivered, Normalize
  <2>5. RecordTypes'
    BY <2>1, <2>3 DEF RecordTypes, Record
  <2>6. NamesStable'
    BY <2>3 DEF NamesStable, Normalize
  <2> QED
    BY <2>4, <2>5, <2>6
<1>3. ASSUME NEW e \in Exec, Fetch(e) PROVE VisitInv'
  <2>1. pc[e] # "idle" /\ pages' = pages
    BY <1>3 DEF Fetch
  <2>2. job[e] \in DOMAIN record /\ job[e] \in Address
    BY <2>1 DEF Execs, RecordTypes
  <2>3. Url(e) \in Address /\ Redirect[Url(e)] \in Address
    BY <2>2, Normalized, SiteAssumption DEF Url
  <2>4. ASSUME NEW resp, FetchPage(e, resp) PROVE VisitInv'
    <3> DEFINE final == [FinalURL |-> Normalize(Redirect[Url(e)]),
                         body |-> Redirect[Url(e)]]
               next == IF resp.spa THEN "chrome" ELSE "extract"
    <3>1. Proceed(e, next, final) /\ UNCHANGED frontier
      BY <2>4 DEF FetchPage
    <3>2. Normalize(Redirect[Url(e)]) \in Address
          /\ Normalize(Normalize(Redirect[Url(e)])) = Normalize(Redirect[Url(e)])
      BY <2>3, Normalized
    <3>3. final \in FetchData
      BY <2>3, <3>2 DEF FetchData
    <3>4. Delivered(final)
      BY <2>3, <3>2 DEF Delivered
    <3>5. Execs'
      <4>1. DOMAIN record \subseteq DOMAIN record' /\ next \in {"idle", "chrome", "extract"}
        BY <3>1 DEF frontier
      <4> QED
        BY <2>1, <3>1, <3>3, <3>4, <4>1, Proceeds
    <3>6. RecordTypes' /\ NamesStable'
      BY <2>1, <3>1 DEF RecordTypes, Record, NamesStable, frontier, Normalize
    <3> QED
      BY <3>5, <3>6
  <2>5. ASSUME NEW resp, FetchRetry(e, resp) PROVE VisitInv'
    <3> DEFINE u == Url(e)
    <3>1. Execs'
      <4>1. DOMAIN record' = DOMAIN record /\ Proceed(e, "idle", NoData)
        BY <2>5 DEF FetchRetry, frontier, RecordTypes
      <4> QED
        BY <2>1, <4>1, <1>0, Proceeds
    <3>2. CASE frontier' = frontier
      BY <2>1, <3>1, <3>2 DEF RecordTypes, Record, NamesStable, frontier, Normalize
    <3>3. CASE frontier' # frontier
      <4> DEFINE w == Interval(record[job[e]].try)
      <4>1. /\ u \in DOMAIN record
            /\ record' = [record EXCEPT ![u].try = @ + 1, ![u].wait = w]
            /\ retry' = retry \cup {u}
            /\ queue' = queue
        BY <2>5, <3>3 DEF FetchRetry, frontier
      <4>2. DOMAIN record' = DOMAIN record
        BY <4>1 DEF RecordTypes
      <4>3. \A k \in DOMAIN record : record'[k].parent = record[k].parent
        BY <4>1 DEF RecordTypes, Record
      <4>4. NamesStable'
        BY <2>1, <4>2, <4>3 DEF NamesStable, Normalize
      <4>5. RecordTypes'
        <5>1. record[u] \in Record /\ record[job[e]].try \in Nat
          BY <2>2, <4>1 DEF RecordTypes, Record
        <5>2. record'[u] = [record[u] EXCEPT !.try = record[u].try + 1, !.wait = w]
          BY <4>1 DEF RecordTypes
        <5>3. record[u].try + 1 \in Nat /\ w \in {Interval(t) : t \in Nat}
          BY <5>1 DEF Record
        <5>4. record'[u] \in Record
          BY <5>1, <5>2, <5>3 DEF Record
        <5>5. \A k \in DOMAIN record : k # u => record'[k] = record[k]
          BY <4>1 DEF RecordTypes
        <5>6. record' \in [DOMAIN record -> Record]
          BY <4>1, <5>4, <5>5 DEF RecordTypes
        <5> QED
          BY <4>1, <4>2, <5>6 DEF RecordTypes
      <4> QED
        BY <3>1, <4>4, <4>5
    <3> QED
      BY <3>2, <3>3
  <2>6. ASSUME NEW resp, FetchNothing(e, resp) PROVE VisitInv'
    <3>1. Execs'
      BY <2>1, <2>6, <1>0, Proceeds DEF FetchNothing, frontier
    <3> QED
      BY <2>1, <2>6, <3>1
      DEF FetchNothing, RecordTypes, Record, NamesStable, frontier, Normalize
  <2>7. ASSUME Proceed(e, "idle", NoData), UNCHANGED frontier PROVE VisitInv'
    <3>1. Execs'
      BY <2>1, <2>7, <1>0, Proceeds DEF frontier
    <3> QED
      BY <2>1, <2>7, <3>1 DEF RecordTypes, Record, NamesStable, frontier, Normalize
  <2> QED
    BY <1>3, <2>4, <2>5, <2>6, <2>7 DEF Fetch
<1>4. ASSUME NEW e \in Exec, parseViaChrome(e) PROVE VisitInv'
  <2>1. pc[e] = "chrome" /\ UNCHANGED <<record, queue, retry, pages>>
    BY <1>4 DEF parseViaChrome, frontier
  <2>2. Delivered(data[e]) /\ job[e] \in Address /\ data[e] \in FetchData
    BY <2>1 DEF Execs, RecordTypes
  <2>3. Script[Url(e)] \in Address
    BY <2>2, Normalized, SiteAssumption DEF Url
  <2>4. ViaChrome(e) \in FetchData /\ Delivered(ViaChrome(e))
    BY <2>2, <2>3 DEF ViaChrome, FetchData, Delivered
  <2>5. Execs'
    <3>1. CASE Proceed(e, "extract", ViaChrome(e))
      BY <2>1, <2>4, <3>1, Proceeds
    <3>2. CASE Proceed(e, "idle", NoData)
      BY <2>1, <1>0, <3>2, Proceeds
    <3> QED
      BY <1>4, <3>1, <3>2 DEF parseViaChrome
  <2> QED
    BY <2>1, <2>5 DEF RecordTypes, Record, NamesStable, Normalize
<1>5. ASSUME NEW e \in Exec, BrowserGone(e) PROVE VisitInv'
  <2>1. pc[e] = "chrome" /\ UNCHANGED <<record, queue, retry, pages>>
    BY <1>5 DEF BrowserGone, frontier
  <2>2. Execs'
    BY <1>5, <2>1, <1>0, Proceeds DEF BrowserGone
  <2> QED
    BY <2>1, <2>2 DEF RecordTypes, Record, NamesStable, Normalize
<1>6. ASSUME NEW e \in Exec, Extract(e) PROVE VisitInv'
  <2>1. pc[e] = "extract" /\ Proceed(e, "idle", NoData)
    BY <1>6 DEF Extract
  <2>2. DOMAIN record \subseteq DOMAIN record'
    BY <1>6 DEF Extract, Push, frontier
  <2>3. Execs'
    BY <2>1, <2>2, <1>0, Proceeds
  <2>4. Delivered(data[e])
    BY <2>1 DEF Execs
  <2>5. ASSUME pages' = pages \cup {[url |-> data[e].FinalURL, body |-> data[e].body]},
               Push(extractLinks(e), data[e].FinalURL)
        PROVE  RecordTypes' /\ NamesStable'
    <3>1. \A u \in extractLinks(e) :
            /\ u \in Address /\ Normalize(u) = u
            /\ Hostname[u.host] = Hostname[data[e].FinalURL.host]
      BY <2>4, LinksNormal
    <3>2. /\ \A page \in pages' : Normalize(page.url) = page.url
          /\ \E page \in pages' : page.url = data[e].FinalURL
      <4> DEFINE stored == [url |-> data[e].FinalURL, body |-> data[e].body]
      <4>1. stored.url = data[e].FinalURL /\ Normalize(stored.url) = stored.url
        BY <2>4 DEF Delivered
      <4>2. stored \in pages' /\ \A page \in pages' : page \in pages \/ page = stored
        BY <2>5
      <4> HIDE DEF stored
      <4>3. \A page \in pages : Normalize(page.url) = page.url
        BY DEF NamesStable
      <4> QED
        BY <4>1, <4>2, <4>3
    <3>3. data[e].FinalURL \in Address
      BY <2>4 DEF Delivered
    <3> QED
      BY <2>5, <3>1, <3>2, <3>3, Pushes
  <2>6. ASSUME UNCHANGED <<frontier, pages>> PROVE RecordTypes' /\ NamesStable'
    BY <2>6 DEF RecordTypes, Record, NamesStable, frontier, Normalize
  <2> QED
    BY <1>6, <2>5, <2>6, <2>3 DEF Extract
<1>7. ASSUME NEW k, RetryTime(k) PROVE VisitInv'
  <2>1. k \in retry /\ retry' = retry \ {k} /\ queue' = queue \cup {k}
        /\ UNCHANGED <<record, pc, job, data, pages>>
    BY <1>7 DEF RetryTime
  <2> QED
    BY <2>1 DEF RecordTypes, Record, Execs, Delivered, NamesStable, Normalize
<1>8. CASE CloseBrowser \/ UNCHANGED vars
  BY <1>8 DEF CloseBrowser, vars, frontier, RecordTypes, Record, Execs, Delivered,
              NamesStable, Normalize
<1> QED
  BY <1>1, <1>2, <1>3, <1>4, <1>5, <1>6, <1>7, <1>8 DEF Next

-----------------------------------------------------------------------------
(* Whatever redirects, slashes, queries and capitals a site has, a link is *)
(* queued under the name its execution will use, on the host of the page   *)
(* it was found on, and that page is stored.                               *)
THEOREM VisitNamesStable == Spec => []NamesStable
<1>1. VisitInv => NamesStable
  BY DEF VisitInv
<1> QED
  BY <1>1, VisitInvInit, VisitInvStep, PTL DEF Spec

-----------------------------------------------------------------------------
(* Powers of two.  For the prover a recursive function is a CHOOSE; that   *)
(* there is one to choose follows from its prefixes.                       *)

Doubled(f, n) == f = [m \in 0 .. n |-> IF m = 0 THEN 1 ELSE 2 * f[m - 1]]

\* What fails for a number fails for a smaller one: it never fails.
LEMMA NoLeast ==
  ASSUME NEW T, T \subseteq Nat, \A n \in T : \E m \in T : m < n
  PROVE  T = {}
<1> SUFFICES ASSUME T # {} PROVE FALSE
  OBVIOUS
<1>1. PICK n \in T : \A m \in T : n <= m
  BY LeastNatural
<1>2. PICK m \in T : m < n
  OBVIOUS
<1> QED
  BY <1>1, <1>2

LEMMA PrefixPowers ==
  ASSUME NEW n \in Nat PROVE \E f : Doubled(f, n)
<1> DEFINE T == {k \in Nat : ~ \E f : Doubled(f, k)}
<1>1. ASSUME NEW k \in T PROVE \E m \in T : m < k
  <2>1. CASE k = 0
    <3>1. Doubled([m \in 0 .. 0 |-> 1], 0)
      BY DEF Doubled
    <3> QED
      BY <2>1, <3>1
  <2>2. CASE k # 0
    <3> SUFFICES ASSUME k - 1 \notin T PROVE FALSE
      BY <2>2
    <3>1. k - 1 \in Nat
      BY <2>2
    <3>2. PICK f : Doubled(f, k - 1)
      BY <3>1
    <3> DEFINE g == [m \in 0 .. k |-> IF m = k THEN 2 * f[k - 1] ELSE f[m]]
    <3>3. \A m \in 0 .. k - 1 : f[m] = IF m = 0 THEN 1 ELSE 2 * f[m - 1]
      BY <3>2 DEF Doubled
    <3>4. \A m \in 0 .. k - 1 : g[m] = f[m]
      BY <3>1
    <3>5. ASSUME NEW m \in 0 .. k
          PROVE  g[m] = IF m = 0 THEN 1 ELSE 2 * g[m - 1]
      <4>1. CASE m = k
        BY <2>2, <3>1, <3>4, <4>1
      <4>2. CASE m # k
        <5>1. m \in 0 .. k - 1 /\ (m # 0 => m - 1 \in 0 .. k - 1)
          BY <3>1, <4>2
        <5>2. g[m] = f[m] /\ (m # 0 => g[m - 1] = f[m - 1])
          BY <3>4, <5>1
        <5> HIDE DEF g
        <5> QED
          BY <3>3, <5>1, <5>2
      <4> QED
        BY <4>1, <4>2
    <3>6. Doubled(g, k)
      BY <3>5 DEF Doubled
    <3> QED
      BY <3>6
  <2> QED
    BY <2>1, <2>2
<1>2. T = {}
  BY <1>1, NoLeast
<1> QED
  BY <1>2

LEMMA PrefixesAgree ==
  ASSUME NEW n \in Nat, NEW m \in Nat, NEW f, NEW g,
         Doubled(f, n), Doubled(g, m), NEW k \in 0 .. n, k <= m
  PROVE  f[k] = g[k]
<1> DEFINE T == {j \in 0 .. n : j <= m /\ f[j] # g[j]}
<1>1. /\ \A j \in 0 .. n : f[j] = IF j = 0 THEN 1 ELSE 2 * f[j - 1]
      /\ \A j \in 0 .. m : g[j] = IF j = 0 THEN 1 ELSE 2 * g[j - 1]
  BY DEF Doubled
<1>2. ASSUME NEW j \in T PROVE \E l \in T : l < j
  <2>1. j \in 0 .. n /\ j \in 0 .. m /\ f[j] # g[j]
    OBVIOUS
  <2>2. j # 0 /\ f[j - 1] # g[j - 1]
    BY <1>1, <2>1
  <2>3. j - 1 \in T /\ j - 1 < j
    BY <2>1, <2>2
  <2> QED
    BY <2>3
<1>3. T = {}
  <2>1. T \subseteq Nat
    OBVIOUS
  <2> HIDE DEF T
  <2> QED
    BY <1>2, <2>1, NoLeast
<1> QED
  BY <1>3

LEMMA PowersDouble ==
  /\ Pow2[0] = 1
  /\ \A n \in Nat : Pow2[n + 1] = 2 * Pow2[n]
<1> DEFINE P(n) == CHOOSE f : Doubled(f, n)
           F == [n \in Nat |-> P(n)[n]]
<1>1. \A n \in Nat : Doubled(P(n), n)
  BY PrefixPowers
<1> HIDE DEF P
<1>2. ASSUME NEW n \in Nat
      PROVE  F[n] = IF n = 0 THEN 1 ELSE 2 * F[n - 1]
  <2>1. P(n)[n] = IF n = 0 THEN 1 ELSE 2 * P(n)[n - 1]
    BY <1>1 DEF Doubled
  <2>2. CASE n # 0
    <3>1. n - 1 \in Nat /\ n - 1 \in 0 .. n /\ n - 1 <= n - 1
      BY <2>2
    <3>2. P(n)[n - 1] = P(n - 1)[n - 1]
      BY <3>1, <1>1, PrefixesAgree
    <3> QED
      BY <2>1, <2>2, <3>1, <3>2
  <2> QED
    BY <2>1, <2>2
<1>3. F = [n \in Nat |-> IF n = 0 THEN 1 ELSE 2 * F[n - 1]]
  BY <1>2
<1> HIDE DEF F
<1>4. Pow2 = [n \in Nat |-> IF n = 0 THEN 1 ELSE 2 * Pow2[n - 1]]
  BY <1>3 DEF Pow2
<1>5. \A n \in Nat : n + 1 \in Nat /\ n + 1 # 0 /\ (n + 1) - 1 = n
  OBVIOUS
<1> HIDE DEF Pow2
<1> QED
  BY <1>4, <1>5

LEMMA PowersNatural ==
  ASSUME NEW n \in Nat PROVE Pow2[n] \in Nat \ {0}
<1> DEFINE T == {j \in Nat : Pow2[j] \notin Nat \ {0}}
<1>1. ASSUME NEW j \in T PROVE \E l \in T : l < j
  <2>1. j # 0
    BY PowersDouble
  <2>2. j - 1 \in Nat /\ (j - 1) + 1 = j /\ j - 1 < j
    BY <2>1
  <2>3. Pow2[j] = 2 * Pow2[j - 1]
    BY <2>2, PowersDouble
  <2>4. Pow2[j - 1] \notin Nat \ {0}
    BY <2>3
  <2> QED
    BY <2>2, <2>4
<1>2. T = {}
  BY <1>1, NoLeast
<1> QED
  BY <1>2

LEMMA PowersGrow ==
  ASSUME NEW n \in Nat, NEW k \in 0 .. n PROVE Pow2[k] <= Pow2[n]
<1> DEFINE T == {j \in Nat : k <= j /\ ~ (Pow2[k] <= Pow2[j])}
<1>0. k \in Nat /\ Pow2[k] \in Nat
  BY PowersNatural
<1>1. ASSUME NEW j \in T PROVE \E l \in T : l < j
  <2>1. j # k
    BY <1>0
  <2>2. j - 1 \in Nat /\ (j - 1) + 1 = j /\ j - 1 < j /\ k <= j - 1
    BY <1>0, <2>1
  <2>3. Pow2[j] = 2 * Pow2[j - 1] /\ Pow2[j - 1] \in Nat
    BY <2>2, PowersDouble, PowersNatural
  <2>4. ~ (Pow2[k] <= Pow2[j - 1])
    BY <1>0, <2>3
  <2> QED
    BY <2>2, <2>4
<1>2. T = {}
  BY <1>1, NoLeast
<1> QED
  BY <1>0, <1>2

-----------------------------------------------------------------------------
(* The intervals do not overflow below the limit, and double.              *)

LEMMA SmallRemainder ==
  ASSUME NEW n \in Nat, NEW m \in Nat, n < m PROVE n % m = n
OBVIOUS

LEMMA ProductGrows ==
  ASSUME NEW c \in Nat, NEW x \in Nat, NEW y \in Nat, x <= y PROVE c * x <= c * y
OBVIOUS

LEMMA Intervals ==
  ASSUME NEW t \in 0 .. TryLim - 1
  PROVE  /\ Interval(t) = TryBaseInterval * Pow2[t]
         /\ Interval(t) \in 1 .. Pow2[Width - 1] - 1
<1> DEFINE half == Pow2[Width - 1]
           top  == Pow2[TryLim - 1]
           p    == Pow2[t]
           n    == TryBaseInterval * p
<1>1. /\ TryLim \in Nat /\ TryBaseInterval \in Nat \ {0}
      /\ Width \in Nat \ {0}
  BY RetryAssumption
<1>2. /\ t \in Nat /\ TryLim - 1 \in Nat /\ TryLim > 0 /\ t \in 0 .. TryLim - 1
      /\ Width - 1 \in Nat /\ (Width - 1) + 1 = Width
  BY <1>1
<1>3. half \in Nat /\ top \in Nat /\ p \in Nat \ {0} /\ p <= top
      /\ Pow2[Width] = 2 * half
  BY <1>2, PowersNatural, PowersGrow, PowersDouble
<1>4. TryBaseInterval * top < half
  BY <1>2, RetryAssumption
<1> HIDE DEF half, top, p
<1>5. TryBaseInterval * top \in Nat /\ n \in Nat /\ n <= TryBaseInterval * top
  BY <1>1, <1>3, ProductGrows
<1>6. n > 0
  BY <1>1, <1>3
<1> HIDE DEF n
<1>7. n < half /\ n < 2 * half
  BY <1>3, <1>4, <1>5
<1>8. n % (2 * half) = n
  BY <1>3, <1>5, <1>7, SmallRemainder
<1>9. Interval(t) = n
  <2>1. Interval(t) = Signed(n)
    BY DEF Interval, n, p
  <2> QED
    BY <1>3, <1>5, <1>7, <1>8, <2>1 DEF Signed, half
<1> QED
  BY <1>3, <1>5, <1>6, <1>7, <1>9 DEF n, p, half

LEMMA IntervalsGrow ==
  ASSUME NEW t \in Nat, t + 1 \in 0 .. TryLim - 1
  PROVE  Interval(t) < Interval(t + 1)
<1>1. /\ TryBaseInterval \in Nat \ {0} /\ TryLim \in Nat
      /\ t \in 0 .. TryLim - 1
  BY RetryAssumption
<1>2. /\ Interval(t) = TryBaseInterval * Pow2[t]
      /\ Interval(t + 1) = TryBaseInterval * Pow2[t + 1]
      /\ Interval(t) \in Int /\ Interval(t) > 0
  BY <1>1, Intervals
<1>3. Pow2[t + 1] = 2 * Pow2[t] /\ Pow2[t] \in Nat
  BY PowersDouble, PowersNatural
<1>4. TryBaseInterval * (2 * Pow2[t]) = 2 * (TryBaseInterval * Pow2[t])
  BY <1>1, <1>3
<1> QED
  BY <1>2, <1>3, <1>4

-----------------------------------------------------------------------------
(* What a record counts and how long it waits.  The attempts of a record   *)
(* that a seed with capitals shares are not bounded by the limit, but the  *)
(* attempts its interval is computed from are.                             *)

Waits ==
  \A k \in DOMAIN record :
    /\ record[k].wait \in {0} \cup {Interval(t) : t \in 0 .. TryLim - 1}
    /\ ~Shared(k) =>
         IF record[k].try = 0 THEN record[k].wait = 0
         ELSE /\ record[k].try <= TryLim
              /\ record[k].wait = Interval(record[k].try - 1)

\* Pages are stored under addresses.
Stored == /\ pages \subseteq [url : Address, body : Address]
          /\ browser \in {"open", "closed"}

RetryInv == VisitInv /\ Waits /\ Stored

(* What a step does to the record of a key.                                *)
Retried(k) ==
  \E e \in Exec :
    /\ job[e] \in DOMAIN record
    /\ k = Url(e)
    /\ record[job[e]].try < TryLim
    /\ record'[k].try = record[k].try + 1
    /\ record'[k].wait = Interval(record[job[e]].try)

RecordMove(k) ==
  \/ k \in DOMAIN record /\ record'[k] = record[k]
  \/ k \notin DOMAIN record /\ record'[k].try = 0 /\ record'[k].wait = 0
  \/ k \in DOMAIN record /\ Retried(k)

LEMMA RecordMoves ==
  ASSUME VisitInv, [Next]_vars
  PROVE  /\ DOMAIN record \subseteq DOMAIN record'
         /\ \A k \in DOMAIN record' : RecordMove(k)
<1> DEFINE Goal == /\ DOMAIN record \subseteq DOMAIN record'
                   /\ \A k \in DOMAIN record' : RecordMove(k)
<1>1. UNCHANGED record => Goal
  BY DEF RecordMove
<1>2. ASSUME NEW urls, NEW parent, Push(urls, parent) PROVE Goal
  <2> DEFINE new == urls \ DOMAIN record
  <2>1. record' = [k \in DOMAIN record \cup new |->
                     IF k \in new THEN [parent |-> parent, try |-> 0, wait |-> 0]
                     ELSE record[k]]
    BY <1>2 DEF Push
  <2>2. DOMAIN record' = DOMAIN record \cup new
    BY <2>1
  <2>3. ASSUME NEW k \in DOMAIN record' PROVE RecordMove(k)
    <3>1. CASE k \in new
      BY <2>1, <2>2, <3>1 DEF RecordMove
    <3>2. CASE k \notin new
      BY <2>1, <2>2, <3>2 DEF RecordMove
    <3> QED
      BY <3>1, <3>2
  <2> QED
    BY <2>2, <2>3
<1>3. ASSUME NEW e \in Exec, NEW resp, pc[e] # "idle", FetchRetry(e, resp)
      PROVE  Goal
  <2> DEFINE u == Url(e)
             w == Interval(record[job[e]].try)
  <2>1. CASE UNCHANGED frontier
    BY <1>1, <2>1 DEF frontier
  <2>2. CASE ~ UNCHANGED frontier
    <3>1. /\ u \in DOMAIN record
          /\ CalcRetryTime(record[job[e]].try)
          /\ record' = [record EXCEPT ![u].try = @ + 1, ![u].wait = w]
      BY <1>3, <2>2 DEF FetchRetry
    <3>2. /\ job[e] \in DOMAIN record
          /\ record \in [DOMAIN record -> Record] /\ record[u] \in Record
      BY <1>3, <3>1 DEF VisitInv, Execs, RecordTypes
    <3>3. u = Url(e)
      OBVIOUS
    <3> HIDE DEF u, w
    <3>4. DOMAIN record' = DOMAIN record
      BY <3>1, <3>2
    <3>5. record'[u] = [record[u] EXCEPT !.try = record[u].try + 1, !.wait = w]
      BY <3>1, <3>2
    <3>6. record'[u].try = record[u].try + 1 /\ record'[u].wait = w
      BY <3>2, <3>5 DEF Record
    <3>7. ASSUME NEW k \in DOMAIN record' PROVE RecordMove(k)
      <4>1. CASE k = u
        BY <3>1, <3>2, <3>3, <3>6, <4>1
           DEF RecordMove, Retried, CalcRetryTime, w
      <4>2. CASE k # u
        BY <3>1, <3>2, <3>4, <4>2 DEF RecordMove
      <4> QED
        BY <4>1, <4>2
    <3> QED
      BY <3>4, <3>7
  <2> QED
    BY <2>1, <2>2
<1> SUFFICES Goal
  OBVIOUS
<1> HIDE DEF Goal
<1>4. ASSUME NEW e \in Exec, Fetch(e) PROVE Goal
  BY <1>1, <1>3, <1>4 DEF Fetch, FetchPage, FetchNothing, frontier
<1>5. ASSUME NEW e \in Exec, Extract(e) PROVE Goal
  BY <1>1, <1>2, <1>5 DEF Extract, frontier
<1>6. ASSUME NEW e \in Exec, TakeOn(e) \/ parseViaChrome(e) \/ BrowserGone(e)
      PROVE  Goal
  BY <1>1, <1>6 DEF TakeOn, parseViaChrome, BrowserGone, frontier
<1>7. CASE Start
  BY <1>2, <1>7 DEF Start
<1>8. CASE CloseBrowser \/ UNCHANGED vars \/ \E k \in DOMAIN record : RetryTime(k)
  BY <1>1, <1>8 DEF CloseBrowser, RetryTime, vars, frontier
<1> QED
  BY <1>4, <1>5, <1>6, <1>7, <1>8 DEF Next

(* A record that is not shared is retried by the execution of its own key. *)
LEMMA OwnRetry ==
  ASSUME NEW k \in DOMAIN record, ~Shared(k), Retried(k)
  PROVE  /\ record[k].try < TryLim
         /\ record'[k].try = record[k].try + 1
         /\ record'[k].wait = Interval(record[k].try)
<1>1. PICK e \in Exec : /\ job[e] \in DOMAIN record
                        /\ k = Url(e)
                        /\ record[job[e]].try < TryLim
                        /\ record'[k].try = record[k].try + 1
                        /\ record'[k].wait = Interval(record[job[e]].try)
  BY DEF Retried
<1>2. job[e] = k
  BY <1>1 DEF Shared, Url
<1> QED
  BY <1>1, <1>2

LEMMA StoredStep ==
  ASSUME VisitInv, Stored, [Next]_vars PROVE Stored'
<1>1. ASSUME UNCHANGED pages, browser' \in {browser, "closed"} PROVE Stored'
  BY <1>1 DEF Stored
<1>2. ASSUME NEW e \in Exec, Extract(e) PROVE Stored'
  <2>1. data[e].FinalURL \in Address /\ data[e].body \in Address
    BY <1>2 DEF Extract, VisitInv, Execs, Delivered
  <2>2. /\ browser' = browser
        /\ \/ pages' = pages \cup {[url |-> data[e].FinalURL, body |-> data[e].body]}
           \/ pages' = pages
    BY <1>2 DEF Extract
  <2> QED
    BY <2>1, <2>2 DEF Stored
<1>3. ASSUME NEW e \in Exec,
             TakeOn(e) \/ Fetch(e) \/ parseViaChrome(e) \/ BrowserGone(e)
      PROVE  Stored'
  BY <1>1, <1>3 DEF TakeOn, Fetch, parseViaChrome, BrowserGone
<1>4. CASE Start \/ CloseBrowser \/ UNCHANGED vars \/ \E k \in DOMAIN record : RetryTime(k)
  BY <1>1, <1>4 DEF Start, CloseBrowser, RetryTime, vars
<1> QED
  BY <1>2, <1>3, <1>4 DEF Next

LEMMA WaitsStep ==
  ASSUME RetryInv, [Next]_vars PROVE RetryInv'
<1>1. VisitInv /\ VisitInv'
  BY VisitInvStep DEF RetryInv
<1>2. ASSUME NEW k \in DOMAIN record'
      PROVE  /\ record'[k].wait \in {0} \cup {Interval(t) : t \in 0 .. TryLim - 1}
             /\ ~(\E j \in DOMAIN record' \ {k} : Normalize(j) = k) =>
                  IF record'[k].try = 0 THEN record'[k].wait = 0
                  ELSE /\ record'[k].try <= TryLim
                       /\ record'[k].wait = Interval(record'[k].try - 1)
  <2>1. RecordMove(k) /\ DOMAIN record \subseteq DOMAIN record'
    BY <1>1, RecordMoves
  <2>2. Shared(k) => \E j \in DOMAIN record' \ {k} : Normalize(j) = k
    BY <2>1 DEF Shared
  <2>3. CASE k \in DOMAIN record /\ record'[k] = record[k]
    BY <2>2, <2>3 DEF RetryInv, Waits
  <2>4. CASE record'[k].try = 0 /\ record'[k].wait = 0
    BY <2>4
  <2>5. CASE k \in DOMAIN record /\ Retried(k)
    <3>1. record'[k].wait \in {Interval(t) : t \in 0 .. TryLim - 1}
      <4>1. PICK e \in Exec : /\ job[e] \in DOMAIN record
                              /\ record[job[e]].try < TryLim
                              /\ record'[k].wait = Interval(record[job[e]].try)
        BY <2>5 DEF Retried
      <4>2. record[job[e]].try \in Nat /\ TryLim \in Nat
        BY <1>1, <4>1, RetryAssumption DEF VisitInv, RecordTypes, Record
      <4>3. record[job[e]].try \in 0 .. TryLim - 1
        BY <4>1, <4>2
      <4> QED
        BY <4>1, <4>3
    <3>2. ASSUME ~Shared(k)
          PROVE  /\ record'[k].try # 0
                 /\ record'[k].try <= TryLim
                 /\ record'[k].wait = Interval(record'[k].try - 1)
      <4>1. /\ record[k].try < TryLim
            /\ record'[k].try = record[k].try + 1
            /\ record'[k].wait = Interval(record[k].try)
        BY <2>5, <3>2, OwnRetry
      <4>2. record[k].try \in Nat /\ TryLim \in Nat
        BY <1>1, <2>5, RetryAssumption DEF VisitInv, RecordTypes, Record
      <4>3. (record[k].try + 1) - 1 = record[k].try
        BY <4>2
      <4> QED
        BY <4>1, <4>2, <4>3
    <3> QED
      BY <2>2, <3>1, <3>2
  <2> QED
    BY <2>1, <2>3, <2>4, <2>5 DEF RecordMove
<1>3. Waits'
  BY <1>2 DEF Waits, Shared
<1> QED
  BY <1>1, <1>3, StoredStep DEF RetryInv

LEMMA WaitsInit == Init => RetryInv
BY VisitInvInit DEF Init, RetryInv, Waits, Stored

(* No interval overflows: a retry time is never before the attempt.  The   *)
(* other types come with it.                                               *)
THEOREM VisitTypeCorrect == Spec => []TypeOK
<1>1. RetryInv => TypeOK
  <2> SUFFICES ASSUME RetryInv PROVE TypeOK
    OBVIOUS
  <2>1. ASSUME NEW k \in DOMAIN record
        PROVE  /\ k \in Address
               /\ record[k].parent \in Address \cup {NoAddress}
               /\ record[k].try \in Nat
               /\ record[k].wait \in 0 .. Pow2[Width - 1] - 1
    <3>1. /\ record[k].wait \in {0} \cup {Interval(t) : t \in 0 .. TryLim - 1}
          /\ record[k] \in Record /\ k \in Address
      BY DEF RetryInv, Waits, VisitInv, RecordTypes
    <3>2. Pow2[Width - 1] \in Nat \ {0}
      BY PowersNatural, RetryAssumption
    <3> QED
      BY <3>1, <3>2, Intervals DEF Record
  <2>2. pages \subseteq [url : Address, body : Address] /\ browser \in {"open", "closed"}
    BY DEF RetryInv, Stored
  <2> QED
    BY <2>1, <2>2 DEF TypeOK, RetryInv, VisitInv, Execs, RecordTypes
<1> QED
  BY <1>1, WaitsInit, WaitsStep, PTL DEF Spec

(* A URL that is tried again waits longer than the time before, for every  *)
(* limit and every first interval that fit the integers of the machine.    *)
THEOREM VisitRetriesSpread == Spec => RetriesSpread
<1> DEFINE Spread == \A k \in DOMAIN record :
                       record'[k].try > record[k].try /\ ~Shared(k) =>
                         record'[k].wait > record[k].wait
<1>1. RetryInv /\ [Next]_vars => [Spread]_vars
  <2> SUFFICES ASSUME RetryInv, [Next]_vars, NEW k \in DOMAIN record,
                      record'[k].try > record[k].try, ~Shared(k)
               PROVE  record'[k].wait > record[k].wait
    OBVIOUS
  <2>1. RecordMove(k) /\ record[k].try \in Nat /\ TryLim \in Nat
    BY RecordMoves, RetryAssumption DEF RetryInv, VisitInv, RecordTypes, Record
  <2>2. Retried(k)
    BY <2>1 DEF RecordMove
  <2>3. /\ record[k].try < TryLim
        /\ record'[k].wait = Interval(record[k].try)
    BY <2>2, OwnRetry
  <2>4. record[k].try \in 0 .. TryLim - 1
    BY <2>1, <2>3
  <2>5. CASE record[k].try = 0
    BY <2>3, <2>4, <2>5, Intervals DEF RetryInv, Waits
  <2>6. CASE record[k].try # 0
    <3>1. record[k].wait = Interval(record[k].try - 1)
      BY <2>6 DEF RetryInv, Waits
    <3>2. record[k].try - 1 \in Nat /\ (record[k].try - 1) + 1 = record[k].try
      BY <2>1, <2>6
    <3>3. Interval(record[k].try - 1) < Interval(record[k].try)
      BY <2>4, <3>2, IntervalsGrow
    <3>4. /\ Interval(record[k].try - 1) \in Int
          /\ Interval(record[k].try) \in Int
      BY <2>1, <2>4, <3>2, Intervals
    <3> QED
      BY <2>3, <3>1, <3>3, <3>4
  <2> QED
    BY <2>5, <2>6
<1> QED
  BY <1>1, WaitsInit, WaitsStep, PTL DEF Spec, RetriesSpread
=============================================================================
