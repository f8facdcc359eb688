----------------------------- MODULE MCCrawler ------------------------------
(***************************************************************************)
(* A small web and a bounded number of disturbances for Crawler.           *)
(***************************************************************************)
EXTENDS Crawler, TLC

CONSTANTS a, b, w1, w2, e1, e2, e3,
          MaxFaults,   \* bound on the number of disturbances
          Faults       \* the kinds that happen

VARIABLES faults,   \* how many happened
          exact,    \* none of them was a lost reply or an overrun
          attempts  \* take-ons of a URL that no recovery took back

mcVars == <<vars, faults, exact, attempts>>

Kinds == {"expire", "fail", "lost", "crash", "slow"}

ASSUME FaultsAssumption == Faults \subseteq Kinds

\* Whoever pops a URL attempts it; a recovery takes the attempt back.  The
\* account is kept as long as it is asked for.
Attempts ==
  [u \in URL |->
     IF ~exact' THEN 0
     ELSE IF u \in index' \ index THEN attempts[u] + 1
     ELSE IF u \in index \ index' /\ urlStatus'[u].status = "Queued"
          THEN attempts[u] - 1
     ELSE attempts[u]]

Calm == /\ UNCHANGED <<faults, exact>>
        /\ attempts' = Attempts

Disturbs(kind) == /\ kind \in Faults
                  /\ faults < MaxFaults
                  /\ faults' = faults + 1
                  /\ exact' = (exact /\ kind \in {"fail", "crash"})
                  /\ attempts' = Attempts

MCInit ==
  /\ Init
  /\ faults = 0
  /\ exact = TRUE
  /\ attempts = [u \in URL |-> 0]

MCNext ==
  \/ Progress /\ Calm
  \/ \E e \in Exec : Expire(e) /\ Disturbs("expire")
  \/ \E e \in Exec : CallFails(e) /\ Disturbs("fail")
  \/ HealthCheckFails /\ Disturbs("fail")
  \/ \E e \in Exec : LostScript(e) /\ Disturbs("lost")
  \/ \E e \in Exec : LostPipeline(e) /\ Disturbs("lost")
  \/ \E e \in Exec : LostWrite(e) /\ Disturbs("lost")
  \/ LostRecover /\ Disturbs("lost")
  \/ \E u \in URL : LeaseTimeInScan(u) /\ Disturbs("slow")
  \/ Crash /\ Disturbs("crash")

MCSpec == MCInit /\ [][MCNext]_mcVars

FairSpec == MCSpec /\ Fairness

-----------------------------------------------------------------------------
(* OnePlace survives calls that fail and crashes of the process.  A script *)
(* that took effect but seemed to fail, and an execution that goes on      *)
(* after its 15 s, break it.                                               *)
OnePlaceWhileExact == exact => OnePlace

(* A URL is attempted at most 1 + TryLim times, apart from the attempts    *)
(* that a recovery took back because a crash or a failed call had cut them *)
(* off: those are not counted by the record and are made again, as often   *)
(* as it takes.  The record is popped, counted up, recovered and requeued  *)
(* by five scripts, and none of them gives an attempt back that was made.  *)
RetryBudgetWhileExact == exact => \A u \in URL : attempts[u] <= 1 + TryLim

(* A URL goes through the places of URLLife: whoever closes or postpones   *)
(* it holds it, and an outcome is final.                                   *)
LifeWhileExact == [][exact' => LifeStep]_mcVars

-----------------------------------------------------------------------------
(* Two pages that link to each other. *)
TwoLinks == (a :> {b}) @@ (b :> {a, b})
Same == (a :> a) @@ (b :> b)

(* The second redirects to the first, which links to both. *)
Back == (a :> a) @@ (b :> a)
BackLinks == (a :> {a, b}) @@ (b :> {})

(* A seed with an upper-case host, and its normal form. *)
Upper == (a :> b) @@ (b :> b)
UpperLinks == [u \in URL |-> {}]

OneEach == (e1 :> w1) @@ (e2 :> w2)

(* The first worker can leave an execution behind and start another. *)
Outlived == (e1 :> w1) @@ (e2 :> w1) @@ (e3 :> w2)
=============================================================================
