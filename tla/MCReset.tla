------------------------------ MODULE MCReset -------------------------------
(***************************************************************************)
(* A small web and one worker, requests to reindex that overlap or fail,   *)
(* and crashes of the crawler, for Reset.                                  *)
(***************************************************************************)
EXTENDS Reset, TLC

CONSTANTS a, b, w1, e1, r1, r2,
          MaxEvents   \* bound on requests with reindex=true, failures of
                      \* them and crashes

VARIABLE events

mcVars == <<resetVars, events>>

MCInit == ResetInit /\ events = 0

MCNext ==
  \/ ResetProgress /\ UNCHANGED events
  \/ /\ events < MaxEvents
     /\ \/ \E r \in Req : Request(r) \/ RequestFails(r)
        \/ Crash /\ UNCHANGED handlerVars
     /\ events' = events + 1

MCSpec == MCInit /\ [][MCNext]_mcVars

FairSpec == MCSpec /\ ResetFairness

-----------------------------------------------------------------------------
(* A page that links to another, which links to nothing. *)
Same == (a :> a) @@ (b :> b)
OneLink == (a :> {b}) @@ (b :> {})

One == e1 :> w1
=============================================================================
