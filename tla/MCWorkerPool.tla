---------------------------- MODULE MCWorkerPool ----------------------------
(***************************************************************************)
(* WorkerPool with a bounded number of unread events and of restarts and   *)
(* abandoned executions.                                                   *)
(***************************************************************************)
EXTENDS WorkerPool

CONSTANTS MaxMsgs,    \* bound on the lpush events under way
          MaxFaults   \* bound on the restarts and abandoned executions

VARIABLE faults

mcVars == <<vars, faults>>

MCInit == Init /\ faults = 0

MCNext ==
  /\ \/ Progress /\ UNCHANGED faults
     \/ faults < MaxFaults /\ Disturbance /\ faults' = faults + 1
  /\ msgs' <= MaxMsgs

MCSpec == MCInit /\ [][MCNext]_mcVars

FairSpec == MCSpec /\ Fairness
=============================================================================
