----------------------------- MODULE MCIndexer ------------------------------
(***************************************************************************)
(* Indexer with a bounded number of crawled pages and of failures, and the *)
(* searches that can come at any moment.                                   *)
(***************************************************************************)
EXTENDS Search

CONSTANTS q1, q2, x, y, long, blank,
          MaxCrawls,    \* bound on the pages the crawler stores
          MaxFailures   \* bound on the failures

VARIABLES crawls, failures

mcVars == <<vars, crawls, failures>>

MCInit == Init /\ crawls = 0 /\ failures = 0

MCNext ==
  \/ (Listen \/ Receive \/ Execute) /\ UNCHANGED <<crawls, failures>>
  \/ crawls < MaxCrawls /\ Crawl /\ crawls' = crawls + 1 /\ UNCHANGED failures
  \/ /\ failures < MaxFailures
     /\ Failures
     /\ failures' = failures + 1
     /\ UNCHANGED crawls

MCSpec == MCInit /\ [][MCNext]_mcVars

FairSpec == MCSpec /\ Fairness

-----------------------------------------------------------------------------
(* One query is closer to y than to x, the other not similar to y.         *)
MCSimilarity ==
  [q \in Query |-> [c \in Content |->
     CASE c = x -> IF q = q1 THEN 4 ELSE 5
       [] c = y -> IF q = q1 THEN 5 ELSE 3
       [] OTHER -> -3]]

MCLimit == {[given |-> "missing", number |-> 0], [given |-> "wrong", number |-> 0]}
            \cup [given : {"number"}, number : 0 .. 2]

(* No page is overlooked by an indexer that is connected: after a          *)
(* notification the backlog is worked off, the pages stored before it had  *)
(* its connection included, although at most one signal is kept and pages  *)
(* arrive all the time; unless something fails from then on, or too much   *)
(* has failed before.                                                      *)
CatchesUp ==
  \A n \in 0 .. MaxFailures :
    failures = n /\ conn = "listening" /\ (inbox > 0 \/ hasWork)
      ~> ~Backlog \/ failures > n \/ pc = "stopped"
=============================================================================
