----------------------------- MODULE MCFrontier -----------------------------
(***************************************************************************)
(* The scripts under the most general client, on a bounded instance.       *)
(***************************************************************************)
EXTENDS Frontier, FiniteSetsExt, TLC

CONSTANTS MaxQueue,   \* bound on the length of the queue
          MaxTry,     \* bound on the attempt counter
          MaxHeld     \* bound on a URL's copies on the workers' lists

Bounded == /\ Len(queue') <= MaxQueue
           /\ \A u \in URL : urlStatus'[u].try <= MaxTry
           /\ \A u \in URL :
                MapThenSumSet(LAMBDA w : procQueue'[<<w, u>>], Worker) <= MaxHeld

MCNext == FrontierNext /\ Bounded

MCSpec == FrontierInit /\ [][MCNext]_frontierVars

Symmetry == Permutations(URL) \cup Permutations(Worker)
=============================================================================
