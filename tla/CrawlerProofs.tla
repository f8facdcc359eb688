---------------------------- MODULE CrawlerProofs ----------------------------
(***************************************************************************)
(* The crawler implements the frontier, whatever fails, is lost, overruns  *)
(* or crashes; for any web and any number of executions.                   *)
(***************************************************************************)
EXTENDS Crawler, FrontierProofs

-----------------------------------------------------------------------------
(* The inductive invariant.  The scripts are called with what an execution *)
(* holds in memory and what the health check has read before, so the       *)
(* invariant says that both still name URLs with a record.                 *)

OwnTypeOK ==
  /\ pc \in [Exec -> Calls \cup {Idle}]
  /\ ctx \in [Exec -> {"live", "late", "dead"}]
  /\ job \in [Exec -> Job \cup {NoJob}]
  /\ unsent \in [Exec -> SUBSET URL]
  /\ pages \in SUBSET URL
  /\ links \in SUBSET (URL \X URL)
  /\ scan \in SUBSET URL
  /\ doomed \in URL \cup {NoURL}

JobHeld(e) ==
  pc[e] \notin {Idle, "take"} =>
    /\ job[e] \in Job
    /\ Known(job[e].key)
    /\ urlStatus[job[e].key].parent = job[e].parent

ScanKnown ==
  /\ \A u \in scan : Known(u)
  /\ doomed # NoURL => Known(doomed)

(* A pipeline sends the links of the page.                                 *)
Sending(e) == pc[e] = "push" => unsent[e] \subseteq Links[Page(e)]

CrawlerInv == /\ FrontierInv
              /\ OwnTypeOK
              /\ \A e \in Exec : JobHeld(e) /\ Sending(e)
              /\ ScanKnown

(* The part of it that does not need the records to be complete.           *)
JobTyped(e) == pc[e] \notin {Idle, "take"} => job[e] \in Job

HeldTypes == /\ FrontierTypeOK
             /\ OwnTypeOK
             /\ \A e \in Exec : JobTyped(e) /\ Sending(e)

(* What the crawler's steps do to Redis, with the call that does it. *)
ScriptStep ==
  \/ UNCHANGED frontierVars
  \/ EnqueueURLs
  \/ \E w \in Worker : PopURL(w)
  \/ \E u \in URL : RetryURL(u)
  \/ \E u \in URL : Known(u) /\ RecoverURL(u)
  \/ \E u \in URL : RetryBecomesDue(u) \/ LeaseExpires(u)
  \/ \E u \in URL, s \in {"Manual", "GiveUp"} : MarkProcessed(u, s)
  \/ \E e \in Exec : pc[e] = "done" /\ MarkProcessed(Url(e), "Done")
  \/ \E e \in Exec : /\ pc[e] = "push"
                     /\ \E l \in Links[Page(e)] : PushURL(l, Page(e))
  \/ \E s \in Seeds : PushURL(s, NoParent)

(* What they do to one execution: the links its pipeline has to send, and  *)
(* the rest.                                                               *)
Sends(e) ==
  \/ unsent'[e] = unsent[e]
  \/ unsent'[e] = Links[Page(e)]
  \/ \E l \in unsent[e] : /\ pc[e] = "push" /\ PushURL(l, Page(e))
                           /\ unsent'[e] = unsent[e] \ {l}

ExecMove(e) ==
  \/ pc'[e] = pc[e] /\ job'[e] = job[e] /\ Sends(e)
  \/ pc'[e] \in {Idle, "take"} /\ job'[e] \in {job[e], NoJob}
  \/ /\ pc'[e] = "fetch"
     /\ queue # <<>> /\ Known(Head(queue))
     /\ job'[e] = [key |-> Head(queue), try |-> urlStatus[Head(queue)].try,
                   parent |-> urlStatus[Head(queue)].parent]
  \/ /\ pc[e] \notin {Idle, "take"} /\ job'[e] = job[e]
     /\ \/ pc'[e] \in {"retry", "save", "manual", "giveUp"}
        \/ /\ pc[e] = "save" /\ InsertPage(e) /\ pc'[e] = AfterSave(e)
           /\ pc'[e] = "push" => unsent'[e] = Links[Page(e)]
        \/ /\ pc[e] = "link" /\ InsertLink(e)
           /\ pc'[e] = IF Links[Page(e)] # {} THEN "push" ELSE "done"
           /\ pc'[e] = "push" => unsent'[e] = Links[Page(e)]
        \/ pc[e] = "push" /\ unsent[e] = {} /\ pc'[e] = "done"

-----------------------------------------------------------------------------
LEMMA InvTyped == CrawlerInv => HeldTypes
BY DEF CrawlerInv, HeldTypes, FrontierInv, JobHeld, JobTyped

(* The URL an execution names in its calls, and the page it stores. *)
LEMMA TypedURLs ==
  ASSUME HeldTypes, NEW e \in Exec, pc[e] \notin {Idle, "take"}
  PROVE  /\ job[e] \in Job /\ job[e].key \in URL
         /\ job[e].parent \in URL \cup {NoParent}
         /\ Url(e) \in URL /\ Page(e) \in URL
         /\ Links[Page(e)] \in SUBSET URL
<1>1. job[e] \in Job
  BY DEF HeldTypes, JobTyped
<1>2. job[e].key \in URL /\ job[e].parent \in URL \cup {NoParent}
  BY <1>1 DEF Job
<1> QED
  BY <1>1, <1>2, WebAssumption DEF Url, Page

LEMMA HeldURLs ==
  ASSUME CrawlerInv, NEW e \in Exec, pc[e] \notin {Idle, "take"}
  PROVE  /\ job[e] \in Job /\ job[e].key \in URL
         /\ job[e].parent \in URL \cup {NoParent}
         /\ Url(e) \in URL /\ Page(e) \in URL
         /\ Links[Page(e)] \in SUBSET URL
BY TypedURLs, InvTyped

(* An execution goes on to its next call; no other one moves. *)
LEMMA ProceedMoves ==
  ASSUME OwnTypeOK, NEW e \in Exec, NEW next \in Calls \cup {Idle},
         Proceed(e, next)
  PROVE  /\ pc' \in [Exec -> Calls \cup {Idle}]
         /\ ctx' \in [Exec -> {"live", "late", "dead"}]
         /\ job' \in [Exec -> Job \cup {NoJob}]
         /\ pc'[e] = next
         /\ job'[e] = IF next = Idle THEN NoJob ELSE job[e]
         /\ unsent' = [unsent EXCEPT ![e] = IF next = "push"
                                            THEN Links[Page(e)] ELSE {}]
         /\ next = "push" => unsent'[e] = Links[Page(e)]
         /\ \A f \in Exec : f # e => /\ pc'[f] = pc[f] /\ job'[f] = job[f]
                                     /\ unsent'[f] = unsent[f]
BY DEF OwnTypeOK, Proceed

(* An error sends every call to one that exists. *)
LEMMA OnErrorCalls ==
  ASSUME OwnTypeOK, NEW e \in Exec, pc[e] # Idle, NEW next \in OnError(pc[e])
  PROVE  /\ next \in {Idle, "giveUp"}
         /\ pc[e] = "take" => next = Idle
         /\ next \in Calls \cup {Idle}
<1>1. pc[e] \in Calls
  BY DEF OwnTypeOK, Calls, Idle
<1>2. next \in {Idle, "giveUp"}
  BY <1>1 DEF OnError, Calls
<1>3. pc[e] = "take" => next = Idle
  BY DEF OnError
<1> QED
  BY <1>2, <1>3 DEF Calls

(* The script a step runs. *)
LEMMA Scripts == CrawlerInv /\ [Next]_vars => ScriptStep
<1> SUFFICES ASSUME CrawlerInv, [Next]_vars PROVE ScriptStep
  OBVIOUS
<1> USE DEF ScriptStep
<1>0. WorkerOf \in [Exec -> Worker]
  BY ExecAssumption
<1>1. ASSUME NEW e \in Exec, ExecStep(e) PROVE ScriptStep
  <2>1. CASE Execute(e)
    BY <2>1 DEF Execute
  <2>2. CASE TakeOn(e)
    BY <2>2, <1>0 DEF TakeOn
  <2>3. CASE QueueEmpty(e) \/ Fetch(e) \/ SavePage(e) \/ SaveLink(e)
             \/ PushDone(e) \/ URLNotFound(e) \/ DeadContext(e)
    BY <2>3 DEF QueueEmpty, Fetch, SavePage, SaveLink, PushDone, URLNotFound,
                DeadContext
  <2>4. CASE Retry(e)
    BY <2>4, HeldURLs DEF Retry, At, Idle
  <2>5. CASE PushLink(e)
    BY <2>5 DEF PushLink, At, CrawlerInv, Sending
  <2>6. CASE MarkDone(e)
    BY <2>6 DEF MarkDone, At
  <2>7. CASE MarkTerminal(e)
    BY <2>7, HeldURLs DEF MarkTerminal, Verdict, Idle
  <2> QED
    BY <1>1, <2>1, <2>2, <2>3, <2>4, <2>5, <2>6, <2>7 DEF ExecStep, Returns
<1>2. CASE HealthCheck
  <2>1. CASE ScanIndex \/ CheckRecord
    BY <2>1 DEF ScanIndex, CheckRecord
  <2>2. CASE Recover
    BY <2>2 DEF Recover, CrawlerInv, OwnTypeOK, ScanKnown
  <2> QED
    BY <1>2, <2>1, <2>2 DEF HealthCheck
<1>3. CASE Start
  BY <1>3 DEF Start
<1>4. CASE \E u \in URL : RetryTime(u) \/ LeaseTime(u) \/ LeaseTimeInScan(u)
  BY <1>4 DEF RetryTime, LeaseTime, LeaseTimeInScan
<1>5. ASSUME NEW e \in Exec,
             Expire(e) \/ CallFails(e) \/ LostPipeline(e) \/ LostWrite(e)
      PROVE  ScriptStep
  BY <1>5 DEF Expire, CallFails, LostPipeline, LostWrite
<1>6. ASSUME NEW e \in Exec, LostScript(e) PROVE ScriptStep
  <2>1. CASE At(e, "take") /\ PopURL(WorkerOf[e])
    BY <2>1, <1>0
  <2>2. CASE At(e, "retry") /\ RetryURL(Url(e))
    BY <2>2, HeldURLs DEF At, Idle
  <2>3. CASE At(e, "done") /\ MarkProcessed(Url(e), "Done")
    BY <2>3 DEF At
  <2>4. CASE pc[e] \in {"manual", "giveUp"} /\ MarkProcessed(Url(e), Verdict(e))
    BY <2>4, HeldURLs DEF Verdict, Idle
  <2> QED
    BY <1>6, <2>1, <2>2, <2>3, <2>4 DEF LostScript
<1>7. CASE HealthCheckFails \/ Crash \/ UNCHANGED vars
  BY <1>7 DEF HealthCheckFails, Crash, vars
<1>8. CASE LostRecover
  BY <1>8 DEF LostRecover, CrawlerInv, OwnTypeOK, ScanKnown
<1> QED
  BY <1>1, <1>2, <1>3, <1>4, <1>5, <1>6, <1>7, <1>8
     DEF Next, Progress, Disturbance

(* Whatever calls them, the scripts are called with URLs and with parents  *)
(* the general client may name.                                            *)
LEMMA ScriptsImplement ==
  CrawlerInv /\ ScriptStep => [FrontierNext]_frontierVars
<1> SUFFICES ASSUME CrawlerInv, ScriptStep PROVE [FrontierNext]_frontierVars
  OBVIOUS
<1> USE DEF FrontierNext
<1>1. CASE \E e \in Exec : pc[e] = "done" /\ MarkProcessed(Url(e), "Done")
  BY <1>1, HeldURLs DEF Terminal, Idle
<1>2. CASE \E e \in Exec : /\ pc[e] = "push"
                           /\ \E l \in Links[Page(e)] : PushURL(l, Page(e))
  <2>1. PICK e \in Exec : /\ pc[e] = "push"
                          /\ \E l \in Links[Page(e)] : PushURL(l, Page(e))
    BY <1>2
  <2>2. Page(e) \in URL /\ Links[Page(e)] \in SUBSET URL
    BY <2>1, HeldURLs DEF Idle
  <2> QED
    BY <2>1, <2>2
<1>3. CASE \E s \in Seeds : PushURL(s, NoParent)
  BY <1>3, WebAssumption
<1>4. CASE \E u \in URL, s \in {"Manual", "GiveUp"} : MarkProcessed(u, s)
  BY <1>4 DEF Terminal
<1> QED
  BY <1>1, <1>2, <1>3, <1>4 DEF ScriptStep

(* A record is kept, with its parent. *)
LEMMA RecordsKept ==
  ASSUME CrawlerInv, ScriptStep, NEW u \in URL, Known(u)
  PROVE  Known(u)' /\ urlStatus'[u].parent = urlStatus[u].parent
<1>1. [HistoryStep]_frontierVars
  BY ScriptsImplement, NextKeepsHistory DEF CrawlerInv
<1> QED
  BY <1>1 DEF HistoryStep, frontierVars, Known

-----------------------------------------------------------------------------
(* What a step does to each execution. *)
LEMMA Moves ==
  ASSUME OwnTypeOK, [Next]_vars, NEW f \in Exec PROVE ExecMove(f)
<1> DEFINE Stays == pc'[f] = pc[f] /\ job'[f] = job[f] /\ unsent'[f] = unsent[f]
<1>0. Stays => ExecMove(f)
  BY DEF ExecMove, Sends
<1>o. ASSUME NEW e \in Exec, e # f, NEW next \in Calls \cup {Idle},
             Proceed(e, next)
      PROVE  ExecMove(f)
  BY <1>0, <1>o, ProceedMoves
<1>u. UNCHANGED execs => ExecMove(f)
  BY <1>0 DEF execs
<1>i. pc'[f] \in {Idle, "take"} /\ job'[f] \in {job[f], NoJob} => ExecMove(f)
  BY DEF ExecMove
<1> HIDE DEF Stays
<1>e. ASSUME NEW e \in Exec, pc[e] # Idle,
             NEW next \in OnError(pc[e]), Proceed(e, next)
      PROVE  ExecMove(f)
  <2>1. /\ next \in {Idle, "giveUp"}
        /\ pc[e] = "take" => next = Idle
        /\ next \in Calls \cup {Idle}
    BY <1>e, OnErrorCalls
  <2>2. CASE e # f
    BY <1>e, <1>o, <2>1, <2>2
  <2>3. CASE e = f
    <3>1. pc'[f] = next /\ job'[f] = IF next = Idle THEN NoJob ELSE job[f]
      BY <1>e, <2>1, <2>3, ProceedMoves
    <3> QED
      BY <1>e, <2>1, <2>3, <3>1 DEF ExecMove
  <2> QED
    BY <2>2, <2>3
<1>1. ASSUME NEW e \in Exec, ExecStep(e) PROVE ExecMove(f)
  <2>1. CASE Execute(e)
    <3>1. job' = job /\ unsent' = unsent /\ pc' = [pc EXCEPT ![e] = "take"]
      BY <2>1 DEF Execute
    <3>2. CASE e = f
      BY <3>1, <3>2, <1>i DEF OwnTypeOK
    <3>3. CASE e # f
      BY <3>1, <3>3, <1>0 DEF Stays, OwnTypeOK
    <3> QED
      BY <3>2, <3>3
  <2>2. CASE TakeOn(e)
    <3>1. /\ queue # <<>> /\ Known(Head(queue))
          /\ unsent' = unsent
          /\ pc' = [pc EXCEPT ![e] = "fetch"]
          /\ job' = [job EXCEPT ![e] = [key |-> Head(queue),
                                        try |-> urlStatus[Head(queue)].try,
                                        parent |-> urlStatus[Head(queue)].parent]]
      BY <2>2 DEF TakeOn, PopURL
    <3>2. CASE e = f
      BY <3>1, <3>2 DEF ExecMove, OwnTypeOK
    <3>3. CASE e # f
      BY <3>1, <3>3, <1>0 DEF Stays, OwnTypeOK
    <3> QED
      BY <3>2, <3>3
  <2>3. CASE QueueEmpty(e) \/ Retry(e) \/ MarkDone(e) \/ MarkTerminal(e)
    <3>1. Proceed(e, Idle)
      BY <2>3 DEF QueueEmpty, Retry, MarkDone, MarkTerminal
    <3> QED
      BY <3>1, <1>i, <1>o, ProceedMoves
  <2>4. CASE Fetch(e)
    <3>1. PICK next \in {"retry", "save", "manual", "giveUp"} : Proceed(e, next)
      BY <2>4 DEF Fetch, AfterFetch
    <3>2. next \in Calls \cup {Idle} /\ next # Idle
      BY DEF Calls, Idle
    <3>3. CASE e = f
      <4>1. pc'[f] = next /\ job'[f] = job[f]
        BY <3>1, <3>2, <3>3, ProceedMoves
      <4> QED
        BY <2>4, <3>3, <4>1 DEF ExecMove, Fetch, At, Idle
    <3> QED
      BY <3>1, <3>2, <3>3, <1>o
  <2>5. CASE SavePage(e)
    <3>1. AfterSave(e) \in Calls \cup {Idle} /\ AfterSave(e) # Idle
      BY DEF AfterSave, Calls, Idle
    <3>2. CASE e = f
      <4>1. /\ pc'[f] = AfterSave(f) /\ job'[f] = job[f]
            /\ pc'[f] = "push" => unsent'[f] = Links[Page(f)]
        BY <2>5, <3>1, <3>2, ProceedMoves DEF SavePage
      <4> QED
        BY <2>5, <3>2, <4>1 DEF ExecMove, SavePage, At, Idle
    <3> QED
      BY <2>5, <3>1, <3>2, <1>o DEF SavePage
  <2>6. CASE SaveLink(e)
    <3> DEFINE next == IF Links[Page(e)] # {} THEN "push" ELSE "done"
    <3>1. next \in Calls \cup {Idle} /\ next # Idle
      BY DEF Calls, Idle
    <3>2. CASE e = f
      <4>1. /\ pc'[f] = next /\ job'[f] = job[f]
            /\ pc'[f] = "push" => unsent'[f] = Links[Page(f)]
        BY <2>6, <3>1, <3>2, ProceedMoves DEF SaveLink
      <4> QED
        BY <2>6, <3>2, <4>1 DEF ExecMove, SaveLink, At, Idle
    <3> QED
      BY <2>6, <3>1, <3>2, <1>o DEF SaveLink
  <2>7. CASE PushLink(e)
    <3>1. PICK l \in unsent[e] : /\ PushURL(l, Page(e))
                                 /\ unsent' = [unsent EXCEPT ![e] = @ \ {l}]
      BY <2>7 DEF PushLink
    <3>2. pc[e] = "push" /\ pc' = pc /\ job' = job
      BY <2>7 DEF PushLink, At
    <3>3. CASE e = f
      BY <3>1, <3>2, <3>3 DEF ExecMove, Sends, OwnTypeOK
    <3>4. CASE e # f
      BY <3>1, <3>2, <3>4, <1>0 DEF Stays, OwnTypeOK
    <3> QED
      BY <3>3, <3>4
  <2>8. CASE PushDone(e)
    <3>1. "done" \in Calls \cup {Idle} /\ "done" # Idle
      BY DEF Calls, Idle
    <3>2. CASE e = f
      <4>1. pc'[f] = "done" /\ job'[f] = job[f]
        BY <2>8, <3>1, <3>2, ProceedMoves DEF PushDone
      <4> QED
        BY <2>8, <3>2, <4>1 DEF ExecMove, PushDone, At, Idle
    <3> QED
      BY <2>8, <3>1, <3>2, <1>o DEF PushDone
  <2>9. CASE URLNotFound(e)
    BY <2>9, <1>e DEF URLNotFound, At, Idle
  <2>10. CASE DeadContext(e)
    <3>1. PICK next \in {Idle, "giveUp"} : /\ Proceed(e, next)
                                           /\ pc[e] = "take" => next = Idle
                                           /\ pc[e] # Idle
      BY <2>10 DEF DeadContext
    <3>2. next \in Calls \cup {Idle}
      BY DEF Calls
    <3>3. CASE e = f
      <4>1. pc'[f] = next /\ job'[f] = IF next = Idle THEN NoJob ELSE job[f]
        BY <3>1, <3>2, <3>3, ProceedMoves
      <4> QED
        BY <3>1, <3>3, <4>1 DEF ExecMove
    <3> QED
      BY <3>1, <3>2, <3>3, <1>o
  <2> QED
    BY <1>1, <2>1, <2>2, <2>3, <2>4, <2>5, <2>6, <2>7, <2>8, <2>9, <2>10
       DEF ExecStep, Returns
<1>2. CASE \/ HealthCheck \/ Start \/ HealthCheckFails \/ LostRecover
           \/ \E u \in URL : RetryTime(u) \/ LeaseTime(u) \/ LeaseTimeInScan(u)
           \/ UNCHANGED vars
  BY <1>2, <1>u DEF HealthCheck, ScanIndex, CheckRecord, Recover, Start,
                    HealthCheckFails, LostRecover, RetryTime, LeaseTime,
                    LeaseTimeInScan, vars, execs
<1>3. ASSUME NEW e \in Exec, Expire(e) PROVE ExecMove(f)
  BY <1>3, <1>0 DEF Expire, Stays
<1>4. ASSUME NEW e \in Exec, CallFails(e) \/ LostWrite(e) PROVE ExecMove(f)
  BY <1>4, <1>e DEF CallFails, LostWrite, At, Idle
<1>5. ASSUME NEW e \in Exec, LostScript(e) PROVE ExecMove(f)
  BY <1>5, <1>e, <1>u DEF LostScript, At, Idle
<1>6. CASE Crash
  BY <1>6, <1>i DEF Crash
<1>7. ASSUME NEW e \in Exec, LostPipeline(e) PROVE ExecMove(f)
  <2>1. pc' = pc /\ job' = job
        /\ unsent' = [unsent EXCEPT ![e] = Links[Page(e)]]
    BY <1>7 DEF LostPipeline
  <2>2. CASE e = f
    BY <2>1, <2>2 DEF ExecMove, Sends, OwnTypeOK
  <2>3. CASE e # f
    BY <2>1, <2>3, <1>0 DEF Stays, OwnTypeOK
  <2> QED
    BY <2>2, <2>3
<1> QED
  BY <1>1, <1>2, <1>3, <1>4, <1>5, <1>6, <1>7 DEF Next, Progress, Disturbance

(* A pipeline goes on with links of the page. *)
LEMMA SendingKept ==
  ASSUME NEW f \in Exec, Sending(f), ExecMove(f) PROVE Sending(f)'
<1> SUFFICES ASSUME pc'[f] = "push"
             PROVE  unsent'[f] \subseteq Links[Page(f)]'
  BY DEF Sending
<1>1. /\ job'[f] = job[f]
      /\ \/ pc[f] = "push" /\ Sends(f)
         \/ unsent'[f] = Links[Page(f)]
  BY DEF ExecMove, Idle
<1>2. Links[Page(f)]' = Links[Page(f)]
  BY <1>1 DEF Page, Url
<1> QED
  BY <1>1, <1>2 DEF Sending, Sends

(* Types of the crawler's own variables. *)
LEMMA TypesKept ==
  ASSUME HeldTypes, [Next]_vars, \A f \in Exec : job'[f].parent # NilParent
  PROVE  OwnTypeOK'
<1> DEFINE Moved == /\ pc' \in [Exec -> Calls \cup {Idle}]
                    /\ ctx' \in [Exec -> {"live", "late", "dead"}]
                    /\ job' \in [Exec -> Job \cup {NoJob}]
                    /\ unsent' \in [Exec -> SUBSET URL]
           Quiet == UNCHANGED execs
           Stored == pages' \in SUBSET URL /\ links' \in SUBSET (URL \X URL)
           Reaped == scan' \in SUBSET URL /\ doomed' \in URL \cup {NoURL}
<1>0. ASSUME Moved \/ Quiet, Stored \/ UNCHANGED tables,
             Reaped \/ UNCHANGED reaper
      PROVE  OwnTypeOK'
  BY <1>0 DEF HeldTypes, OwnTypeOK, execs, tables, reaper, Calls, Idle, Job,
              NoJob
<1> HIDE DEF Moved, Quiet, Stored, Reaped
<1>p. ASSUME NEW e \in Exec, NEW next \in Calls \cup {Idle}, Proceed(e, next),
             next = "push" => pc[e] \in {"save", "link"}
      PROVE  Moved
  <2>1. next = "push" => Links[Page(e)] \in SUBSET URL
    BY <1>p, TypedURLs DEF Idle
  <2>2. unsent \in [Exec -> SUBSET URL]
    BY DEF HeldTypes, OwnTypeOK
  <2>3. unsent' = [unsent EXCEPT ![e] = IF next = "push"
                                        THEN Links[Page(e)] ELSE {}]
    BY <1>p, ProceedMoves DEF HeldTypes
  <2>4. unsent' \in [Exec -> SUBSET URL]
    BY <2>1, <2>2, <2>3
  <2> QED
    BY <1>p, <2>4, ProceedMoves DEF Moved, HeldTypes
<1>s. ASSUME NEW e \in Exec, pc[e] \in {"save", "link"},
             InsertPage(e) \/ InsertLink(e)
      PROVE  Stored
  <2>1. Page(e) \in URL /\ pages \in SUBSET URL /\ links \in SUBSET (URL \X URL)
    BY <1>s, TypedURLs DEF HeldTypes, OwnTypeOK, Idle
  <2>2. (pages \cap {job[e].parent}) \X {Page(e)} \in SUBSET (URL \X URL)
    BY <2>1
  <2> QED
    BY <1>s, <2>1, <2>2 DEF Stored, InsertPage, InsertLink
<1>1. ASSUME NEW e \in Exec, ExecStep(e) PROVE OwnTypeOK'
  <2>1. CASE Execute(e)
    <3>1. Moved
      BY <2>1 DEF Execute, Moved, HeldTypes, OwnTypeOK, Calls
    <3> QED
      BY <2>1, <3>1, <1>0 DEF Execute
  <2>2. CASE TakeOn(e)
    <3> DEFINE u == Head(queue)
               taken == [key |-> u, try |-> urlStatus[u].try,
                         parent |-> urlStatus[u].parent]
    <3>1. u \in URL
      BY <2>2, TailMembers DEF TakeOn, PopURL, HeldTypes, FrontierTypeOK
    <3>2. urlStatus[u] \in URLInfo
      BY <3>1 DEF HeldTypes, FrontierTypeOK
    <3>3. job' = [job EXCEPT ![e] = taken] /\ job \in [Exec -> Job \cup {NoJob}]
      BY <2>2 DEF TakeOn, HeldTypes, OwnTypeOK
    <3>4. job'[e] = taken /\ job'[e].parent # NilParent
      BY <3>3
    <3>5. taken \in Job
      BY <3>1, <3>2, <3>4 DEF URLInfo, Job
    <3>6. Moved
      BY <2>2, <3>5 DEF TakeOn, Moved, HeldTypes, OwnTypeOK, Calls
    <3> QED
      BY <2>2, <3>6, <1>0 DEF TakeOn
  <2>3. CASE QueueEmpty(e) \/ PushDone(e) \/ Retry(e) \/ MarkDone(e)
             \/ MarkTerminal(e) \/ DeadContext(e)
    <3>1. \E next \in Calls \cup {Idle} : Proceed(e, next) /\ next # "push"
      BY <2>3 DEF Idle, QueueEmpty, PushDone, Retry, MarkDone, MarkTerminal,
                  DeadContext, Calls
    <3> QED
      BY <2>3, <3>1, <1>0, <1>p DEF QueueEmpty, PushDone, Retry, MarkDone,
                                    MarkTerminal, DeadContext
  <2>4. CASE Fetch(e)
    <3>1. \E next \in Calls \cup {Idle} : Proceed(e, next) /\ next # "push"
      BY <2>4 DEF Fetch, AfterFetch, Calls
    <3> QED
      BY <2>4, <3>1, <1>0, <1>p DEF Fetch
  <2>5. CASE SavePage(e)
    <3>1. AfterSave(e) \in Calls \cup {Idle}
      BY DEF AfterSave, Calls
    <3> QED
      BY <2>5, <3>1, <1>0, <1>p, <1>s DEF SavePage, At
  <2>6. CASE SaveLink(e)
    <3>1. (IF Links[Page(e)] # {} THEN "push" ELSE "done") \in Calls \cup {Idle}
      BY DEF Calls
    <3> QED
      BY <2>6, <3>1, <1>0, <1>p, <1>s DEF SaveLink, At
  <2>7. CASE PushLink(e)
    <3>1. PICK l \in unsent[e] : unsent' = [unsent EXCEPT ![e] = @ \ {l}]
      BY <2>7 DEF PushLink
    <3>2. Moved
      BY <2>7, <3>1 DEF PushLink, Moved, HeldTypes, OwnTypeOK
    <3> QED
      BY <2>7, <3>2, <1>0 DEF PushLink
  <2>8. CASE URLNotFound(e)
    <3>1. \E next \in Calls \cup {Idle} : Proceed(e, next) /\ next # "push"
      BY <2>8, OnErrorCalls DEF URLNotFound, At, Idle, HeldTypes
    <3> QED
      BY <2>8, <3>1, <1>0, <1>p DEF URLNotFound
  <2> QED
    BY <1>1, <2>1, <2>2, <2>3, <2>4, <2>5, <2>6, <2>7, <2>8
       DEF ExecStep, Returns
<1>2. CASE HealthCheck \/ HealthCheckFails \/ LostRecover
  <2>1. Reaped \/ UNCHANGED reaper
    BY <1>2 DEF HealthCheck, ScanIndex, CheckRecord, Recover, HealthCheckFails,
                LostRecover, Reaped, HeldTypes, OwnTypeOK,
                FrontierTypeOK, reaper
  <2> QED
    BY <1>2, <2>1, <1>0 DEF HealthCheck, ScanIndex, CheckRecord, Recover,
                            HealthCheckFails, LostRecover, Quiet
<1>3. CASE Start \/ \E u \in URL : RetryTime(u) \/ LeaseTime(u) \/ LeaseTimeInScan(u)
  BY <1>3, <1>0 DEF Start, RetryTime, LeaseTime, LeaseTimeInScan, Quiet
<1>4. ASSUME NEW e \in Exec, Expire(e) PROVE OwnTypeOK'
  <2>1. Moved
    BY <1>4 DEF Expire, Moved, HeldTypes, OwnTypeOK
  <2> QED
    BY <1>4, <2>1, <1>0 DEF Expire
<1>5. ASSUME NEW e \in Exec, CallFails(e) \/ LostWrite(e) PROVE OwnTypeOK'
  <2>1. \E next \in Calls \cup {Idle} : Proceed(e, next) /\ next # "push"
    BY <1>5, OnErrorCalls DEF CallFails, LostWrite, At, Idle, HeldTypes
  <2>2. Stored \/ UNCHANGED tables
    BY <1>5, <1>s DEF CallFails, LostWrite, At
  <2> QED
    BY <1>5, <2>1, <2>2, <1>0, <1>p DEF CallFails, LostWrite
<1>6. ASSUME NEW e \in Exec, LostScript(e) PROVE OwnTypeOK'
  <2>1. CASE \E next \in OnError(pc[e]) : Proceed(e, next)
    <3>1. \E next \in Calls \cup {Idle} : Proceed(e, next) /\ next # "push"
      BY <1>6, <2>1, OnErrorCalls DEF LostScript, At, Idle, HeldTypes
    <3> QED
      BY <1>6, <3>1, <1>0, <1>p DEF LostScript
  <2>2. CASE UNCHANGED execs
    BY <1>6, <2>2, <1>0 DEF LostScript, Quiet
  <2> QED
    BY <1>6, <2>1, <2>2 DEF LostScript
<1>7. CASE Crash
  <2>1. Moved /\ Reaped
    BY <1>7 DEF Crash, Moved, Reaped, NoJob
  <2> QED
    BY <1>7, <2>1, <1>0 DEF Crash
<1>8. CASE UNCHANGED vars
  BY <1>8, <1>0 DEF vars, execs, tables, reaper, Quiet
<1>9. ASSUME NEW e \in Exec, LostPipeline(e) PROVE OwnTypeOK'
  <2>1. Links[Page(e)] \in SUBSET URL
    BY <1>9, TypedURLs DEF LostPipeline, At, Idle
  <2>2. Moved
    BY <1>9, <2>1 DEF LostPipeline, Moved, HeldTypes, OwnTypeOK
  <2> QED
    BY <1>9, <2>2, <1>0 DEF LostPipeline
<1> QED
  BY <1>1, <1>2, <1>3, <1>4, <1>5, <1>6, <1>7, <1>8, <1>9
     DEF Next, Progress, Disturbance

(* No record the frontier hands out lacks its parent. *)
LEMMA JobParents ==
  ASSUME CrawlerInv, [Next]_vars, NEW f \in Exec PROVE job'[f].parent # NilParent
<1>1. ExecMove(f)
  BY Moves DEF CrawlerInv
<1>2. job[f].parent # NilParent /\ NoJob.parent # NilParent
  BY ParentAssumption DEF CrawlerInv, OwnTypeOK, Job, NoJob
<1>3. CASE /\ queue # <<>> /\ Known(Head(queue))
           /\ job'[f] = [key |-> Head(queue),
                         try |-> urlStatus[Head(queue)].try,
                         parent |-> urlStatus[Head(queue)].parent]
  <2>1. Head(queue) \in URL
    BY <1>3, TailMembers DEF CrawlerInv, FrontierInv, FrontierTypeOK
  <2>2. urlStatus[Head(queue)].parent # NilParent
    BY <1>3, <2>1 DEF CrawlerInv, FrontierInv, RecordsComplete
  <2> QED
    BY <1>3, <2>2
<1> QED
  BY <1>1, <1>2, <1>3 DEF ExecMove

LEMMA OwnTypes == CrawlerInv /\ [Next]_vars => OwnTypeOK'
BY InvTyped, TypesKept, JobParents

-----------------------------------------------------------------------------
(* The invariant. *)

(* What an execution holds keeps its record. *)
LEMMA JobsHeld ==
  ASSUME CrawlerInv, [Next]_vars, NEW f \in Exec PROVE JobHeld(f)'
<1>1. ScriptStep /\ ExecMove(f)
  BY Scripts, Moves DEF CrawlerInv
<1>2. ASSUME pc[f] \notin {Idle, "take"}, job'[f] = job[f] PROVE JobHeld(f)'
  <2>1. /\ job[f] \in Job /\ job[f].key \in URL
        /\ Known(job[f].key)
        /\ urlStatus[job[f].key].parent = job[f].parent
    BY <1>2, HeldURLs DEF CrawlerInv, JobHeld
  <2>2. /\ Known(job[f].key)'
        /\ urlStatus'[job[f].key].parent = urlStatus[job[f].key].parent
    <3> DEFINE u == job[f].key
    <3>1. u \in URL /\ Known(u)
      BY <2>1
    <3>2. urlStatus'[u].status # "Absent" /\ urlStatus'[u].parent = urlStatus[u].parent
      <4> HIDE DEF u
      <4> QED
        BY <1>1, <3>1, RecordsKept DEF Known
    <3> QED
      BY <1>2, <3>2 DEF Known
  <2> QED
    BY <1>2, <2>1, <2>2 DEF JobHeld, Job, Known
<1>3. CASE pc'[f] = pc[f] /\ job'[f] = job[f]
  BY <1>2, <1>3 DEF JobHeld
<1>4. CASE pc'[f] \in {Idle, "take"}
  BY <1>4 DEF JobHeld
<1>5. CASE /\ pc'[f] = "fetch"
           /\ queue # <<>> /\ Known(Head(queue))
           /\ job'[f] = [key |-> Head(queue),
                         try |-> urlStatus[Head(queue)].try,
                         parent |-> urlStatus[Head(queue)].parent]
  <2> DEFINE u == Head(queue)
  <2>1. u \in URL /\ Known(u)
    BY <1>5, TailMembers DEF CrawlerInv, FrontierInv, FrontierTypeOK
  <2>2. urlStatus[u] \in URLInfo /\ urlStatus[u].parent # NilParent
    BY <2>1 DEF CrawlerInv, FrontierInv, FrontierTypeOK, RecordsComplete
  <2>3. job'[f] \in Job
    BY <1>5, <2>1, <2>2 DEF URLInfo, Job
  <2>4. urlStatus'[u].status # "Absent" /\ urlStatus'[u].parent = urlStatus[u].parent
    <3> HIDE DEF u
    <3> QED
      BY <1>1, <2>1, RecordsKept DEF Known
  <2> QED
    BY <1>5, <2>3, <2>4 DEF JobHeld, Known
<1> QED
  BY <1>1, <1>2, <1>3, <1>4, <1>5 DEF ExecMove

(* What the health check has read keeps its record. *)
LEMMA ScanStaysKnown ==
  ASSUME CrawlerInv, [Next]_vars PROVE ScanKnown'
<1>1. ScriptStep
  BY Scripts
<1>2. ASSUME NEW u \in URL, Known(u) PROVE urlStatus'[u].status # "Absent"
  BY <1>1, <1>2, RecordsKept DEF Known
<1>3. index \in SUBSET URL /\ scan \in SUBSET URL /\ doomed \in URL \cup {NoURL}
  BY DEF CrawlerInv, FrontierInv, FrontierTypeOK, OwnTypeOK
<1>4. \A u \in index : Known(u)
  BY <1>3 DEF CrawlerInv, FrontierInv, RecordsComplete
<1>5. scan' \subseteq scan \cup index /\ doomed' \in scan \cup {doomed, NoURL}
  BY <1>3 DEF Next, Progress, Disturbance, ExecStep, Returns, HealthCheck, ScanIndex,
     CheckRecord, Recover, Start, RetryTime, LeaseTime, Expire, CallFails,
     LostScript, LostPipeline, LostWrite, LeaseTimeInScan, HealthCheckFails, LostRecover,
     Crash, Execute, TakeOn, QueueEmpty, Fetch, Retry, SavePage, SaveLink,
     PushLink, PushDone, MarkDone, MarkTerminal, URLNotFound, DeadContext,
     vars, reaper
<1>6. \A u \in scan' : urlStatus'[u].status # "Absent"
  BY <1>2, <1>3, <1>4, <1>5 DEF CrawlerInv, ScanKnown
<1>7. doomed' # NoURL => urlStatus'[doomed'].status # "Absent"
  BY <1>2, <1>3, <1>5 DEF CrawlerInv, ScanKnown, Known
<1> QED
  BY <1>6, <1>7 DEF ScanKnown, Known

LEMMA CrawlerStepInv == CrawlerInv /\ [Next]_vars => CrawlerInv'
<1> SUFFICES ASSUME CrawlerInv, [Next]_vars PROVE CrawlerInv'
  OBVIOUS
<1>1. FrontierInv'
  BY Scripts, ScriptsImplement, NextInv DEF CrawlerInv
<1>2. ASSUME NEW e \in Exec PROVE Sending(e)'
  BY Moves, SendingKept DEF CrawlerInv
<1> QED
  BY <1>1, <1>2, OwnTypes, JobsHeld, ScanStaysKnown DEF CrawlerInv

LEMMA CrawlerInitInv == Init => CrawlerInv
<1> SUFFICES ASSUME Init PROVE CrawlerInv
  OBVIOUS
<1>1. FrontierInv
  BY InitInv DEF Init
<1>2. OwnTypeOK
  BY DEF Init, OwnTypeOK, NoJob
<1>3. (\A e \in Exec : JobHeld(e) /\ Sending(e)) /\ ScanKnown
  BY DEF Init, JobHeld, Sending, ScanKnown, Idle
<1> QED
  BY <1>1, <1>2, <1>3 DEF CrawlerInv

-----------------------------------------------------------------------------
(* The theorems. *)

(* The crawler's data keeps its shape: an execution only ever holds what a *)
(* record can hold.                                                        *)
THEOREM CrawlerTypeCorrect == Spec => []TypeOK
<1>1. CrawlerInv => TypeOK
  BY DEF CrawlerInv, FrontierInv, OwnTypeOK, TypeOK
<1> QED
  BY <1>1, CrawlerInitInv, CrawlerStepInv, PTL DEF Spec

(* Every interleaving of executions, health checks, failures, lost replies *)
(* and crashes calls the scripts as the general client may, so all that is *)
(* proved of the frontier holds of the crawler.                            *)
THEOREM CrawlerImplementsFrontier == Spec => ImplementsFrontier
<1>1. Init => FrontierInit
  BY DEF Init
<1>2. CrawlerInv /\ [Next]_vars => [FrontierNext]_frontierVars
  BY Scripts, ScriptsImplement
<1> QED
  BY <1>1, <1>2, CrawlerInitInv, CrawlerStepInv, PTL
     DEF Spec, ImplementsFrontier, FrontierSpec

-----------------------------------------------------------------------------
(* Redis and Postgres agree: what the frontier's records promise about the *)
(* pages and links tables holds, although no transaction spans the two.    *)

(* How far an execution has come with the tables, from the call it is in.  *)
Stage(e) ==
  /\ pc[e] \in {"link", "push", "done"} => Page(e) \in pages
  /\ pc[e] \in {"push", "done"} /\ job[e].parent # NoParent =>
       <<job[e].parent, Page(e)>> \in links
  /\ pc[e] = "push" => \A l \in Links[Page(e)] \ unsent[e] : Known(l)
  /\ pc[e] = "done" => \A l \in Links[Page(e)] : Known(l)

(* ParentStored alone is not inductive: the parent a push writes is the    *)
(* page of the execution that pushes, which Stage says is stored.          *)
StoreInv == /\ CrawlerInv
            /\ ParentStored
            /\ \A e \in Exec : Stage(e)

-----------------------------------------------------------------------------
(* Rows are never deleted. *)
LEMMA TablesGrow ==
  ASSUME [Next]_vars PROVE pages \subseteq pages' /\ links \subseteq links'
BY DEF Next, Progress, Disturbance, ExecStep, Returns, HealthCheck, ScanIndex,
  CheckRecord, Recover, Start, RetryTime, LeaseTime, Expire, CallFails,
  LostScript, LostPipeline, LostWrite, LeaseTimeInScan, HealthCheckFails,
  LostRecover, Crash, Execute, TakeOn, QueueEmpty, Fetch, Retry, SavePage, SaveLink,
  InsertPage, InsertLink, PushLink, PushDone, MarkDone, MarkTerminal,
  URLNotFound, DeadContext, vars, tables

(* Who makes a record, and who closes one as done. *)
LEMMA RecordChanges ==
  ASSUME CrawlerInv, ScriptStep, NEW u \in URL
  PROVE  /\ urlStatus'[u].status = "Done" =>
              \/ urlStatus[u].status = "Done"
              \/ \E e \in Exec : pc[e] = "done" /\ u = Url(e) /\ Known(u)
         /\ urlStatus'[u].status # "Absent" =>
              \/ Known(u)
              \/ u \in Seeds /\ urlStatus'[u].parent = NoParent
              \/ \E e \in Exec : /\ pc[e] = "push"
                                 /\ u \in Links[Page(e)]
                                 /\ urlStatus'[u].parent = Page(e)
<1> DEFINE Goal == /\ urlStatus'[u].status = "Done" =>
                        \/ urlStatus[u].status = "Done"
                        \/ \E e \in Exec : /\ pc[e] = "done" /\ u = Url(e)
                                           /\ Known(u)
                   /\ urlStatus'[u].status # "Absent" =>
                        \/ Known(u)
                        \/ u \in Seeds /\ urlStatus'[u].parent = NoParent
                        \/ \E e \in Exec : /\ pc[e] = "push"
                                           /\ u \in Links[Page(e)]
                                           /\ urlStatus'[u].parent = Page(e)
<1>0. urlStatus \in [URL -> URLInfo] /\ urlStatus[u] \in URLInfo
  BY DEF CrawlerInv, FrontierInv, FrontierTypeOK
<1>1. ASSUME urlStatus'[u] = urlStatus[u] PROVE Goal
  BY <1>1 DEF Known
<1>2. ASSUME NEW v \in URL, NEW s \in Status, s # "Done", Known(v),
             urlStatus' = [urlStatus EXCEPT ![v].status = s]
      PROVE  Goal
  BY <1>0, <1>2, StatusChange DEF Known
<1>3. CASE UNCHANGED frontierVars
  BY <1>1, <1>3 DEF frontierVars
<1>4. CASE EnqueueURLs
  <2>1. CASE u \notin due
    BY <1>1, <1>4, <2>1 DEF EnqueueURLs
  <2>2. CASE u \in due
    <3>1. Known(u)
      BY <2>2 DEF CrawlerInv, FrontierInv, FrontierTypeOK, RecordsComplete
    <3>2. urlStatus'[u] = Requeued(urlStatus[u])
      BY <1>4, <2>2 DEF EnqueueURLs
    <3>3. urlStatus'[u].status = "Queued"
      BY <3>2, <1>0 DEF Requeued, URLInfo
    <3> QED
      BY <3>1, <3>3
  <2> QED
    BY <2>1, <2>2
<1>5. CASE \E w \in Worker : PopURL(w)
  BY <1>5, <1>0 DEF PopURL, URLInfo, Known
<1>6. CASE \E v \in URL : RetryURL(v)
  BY <1>6, <1>0 DEF RetryURL, URLInfo, Known
<1>7. CASE \E v \in URL : Known(v) /\ RecoverURL(v)
  BY <1>2, <1>7 DEF RecoverURL, Status
<1>8. CASE \E v \in URL : RetryBecomesDue(v) \/ LeaseExpires(v)
  BY <1>1, <1>8 DEF RetryBecomesDue, LeaseExpires
<1>9. CASE \E v \in URL, s \in {"Manual", "GiveUp"} : MarkProcessed(v, s)
  BY <1>2, <1>9 DEF MarkProcessed, Status, Terminal
<1>10. CASE \E e \in Exec : pc[e] = "done" /\ MarkProcessed(Url(e), "Done")
  <2>1. PICK e \in Exec : pc[e] = "done" /\ MarkProcessed(Url(e), "Done")
    BY <1>10
  <2>2. Url(e) \in URL /\ Known(Url(e))
    BY <2>1, HeldURLs DEF MarkProcessed, Idle
  <2>3. CASE u = Url(e)
    BY <2>1, <2>2, <2>3
  <2>4. CASE u # Url(e)
    BY <1>0, <1>1, <2>1, <2>2, <2>4 DEF MarkProcessed
  <2> QED
    BY <2>3, <2>4
<1>11. ASSUME NEW v \in URL, NEW p, PushURL(v, p), u # v \/ Known(v)
       PROVE  urlStatus'[u] = urlStatus[u]
  BY <1>0, <1>11 DEF PushURL, frontierVars
<1>12. ASSUME NEW v \in URL, NEW p, PushURL(v, p), u = v, ~Known(v)
       PROVE  urlStatus'[u].status = "Queued" /\ urlStatus'[u].parent = p
  BY <1>0, <1>12 DEF PushURL
<1>13. CASE \E e \in Exec : /\ pc[e] = "push"
                            /\ \E l \in Links[Page(e)] : PushURL(l, Page(e))
  <2>1. PICK e \in Exec : /\ pc[e] = "push"
                          /\ \E l \in Links[Page(e)] : PushURL(l, Page(e))
    BY <1>13
  <2>2. PICK l \in Links[Page(e)] : PushURL(l, Page(e))
    BY <2>1
  <2>3. l \in URL
    BY <2>1, HeldURLs DEF Idle
  <2>4. CASE u # l \/ Known(l)
    BY <2>2, <2>3, <2>4, <1>1, <1>11
  <2>5. CASE u = l /\ ~Known(l)
    <3>1. urlStatus'[u].status = "Queued" /\ urlStatus'[u].parent = Page(e)
      BY <2>2, <2>3, <2>5, <1>12
    <3> QED
      BY <2>1, <2>5, <3>1
  <2> QED
    BY <2>4, <2>5
<1>14. CASE \E s \in Seeds : PushURL(s, NoParent)
  <2>1. PICK s \in Seeds : PushURL(s, NoParent)
    BY <1>14
  <2>2. s \in URL
    BY WebAssumption
  <2>3. CASE u # s \/ Known(s)
    BY <2>1, <2>2, <2>3, <1>1, <1>11
  <2>4. CASE u = s /\ ~Known(s)
    <3>1. urlStatus'[u].status = "Queued" /\ urlStatus'[u].parent = NoParent
      BY <2>1, <2>2, <2>4, <1>12
    <3> QED
      BY <2>4, <3>1
  <2> QED
    BY <2>3, <2>4
<1> QED
  BY <1>3, <1>4, <1>5, <1>6, <1>7, <1>8, <1>9, <1>10, <1>13, <1>14
     DEF ScriptStep

-----------------------------------------------------------------------------
(* A parent is stored before it is named. *)
LEMMA ParentStep ==
  ASSUME StoreInv, [Next]_vars PROVE ParentStored'
<1> SUFFICES ASSUME NEW u \in URL, urlStatus'[u].status # "Absent",
                    urlStatus'[u].parent \in URL
             PROVE  urlStatus'[u].parent \in pages'
  BY DEF ParentStored, Known
<1>1. ScriptStep /\ pages \subseteq pages'
  BY Scripts, TablesGrow DEF StoreInv
<1>2. CASE Known(u)
  <2>1. urlStatus'[u].parent = urlStatus[u].parent
    BY <1>1, <1>2, RecordsKept DEF StoreInv
  <2> QED
    BY <1>1, <1>2, <2>1 DEF StoreInv, ParentStored
<1>3. CASE ~Known(u)
  <2>1. PICK e \in Exec : pc[e] = "push" /\ urlStatus'[u].parent = Page(e)
    BY <1>1, <1>3, RecordChanges, ParentAssumption DEF StoreInv
  <2> QED
    BY <1>1, <2>1 DEF StoreInv, Stage
<1> QED
  BY <1>2, <1>3

(* An execution leaves behind what its next call relies on. *)
LEMMA StageStep ==
  ASSUME StoreInv, [Next]_vars, NEW f \in Exec PROVE Stage(f)'
<1>1. /\ ScriptStep /\ ExecMove(f)
      /\ pages \subseteq pages' /\ links \subseteq links'
  BY Scripts, Moves, TablesGrow DEF StoreInv, CrawlerInv
<1>2. ASSUME NEW l \in URL, Known(l) PROVE urlStatus'[l].status # "Absent"
  BY <1>1, <1>2, RecordsKept DEF StoreInv, Known
<1>3. Stage(f)
  BY DEF StoreInv
<1>4. CASE pc'[f] \notin {"link", "push", "done"}
  BY <1>4 DEF Stage
<1>5. CASE pc'[f] \in {"link", "push", "done"}
  <2>1. /\ pc[f] \notin {Idle, "take"}
        /\ job'[f] = job[f]
    BY <1>1, <1>5 DEF ExecMove, Idle
  <2>2. /\ job[f] \in Job /\ job[f].key \in URL
        /\ job[f].parent \in URL \cup {NoParent}
        /\ Page(f) \in URL /\ Links[Page(f)] \in SUBSET URL
    BY <2>1, HeldURLs DEF StoreInv
  <2>3. Page(f)' = Page(f)
    BY <2>1 DEF Page, Url
  <2>4. CASE pc'[f] = pc[f] /\ Sends(f)
    <3>1. \A l \in Links[Page(f)] : Known(l) => urlStatus'[l].status # "Absent"
      BY <1>2, <2>2
    <3>2. ASSUME pc[f] = "push", NEW l \in Links[Page(f)], l \notin unsent'[f]
          PROVE  urlStatus'[l].status # "Absent"
      <4>1. CASE l \notin unsent[f]
        BY <1>3, <3>1, <3>2, <4>1 DEF Stage
      <4>2. CASE PushURL(l, Page(f))
        <5>1. l \in URL /\ urlStatus \in [URL -> URLInfo]
          BY <2>2 DEF StoreInv, CrawlerInv, FrontierInv, FrontierTypeOK
        <5> QED
          BY <4>2, <5>1 DEF PushURL, frontierVars, Known
      <4> QED
        BY <2>4, <3>2, <4>1, <4>2 DEF Sends
    <3> QED
      BY <1>1, <1>3, <2>1, <2>3, <2>4, <3>1, <3>2 DEF Stage, Known
  <2>5. CASE /\ pc[f] = "save" /\ InsertPage(f) /\ pc'[f] = AfterSave(f)
             /\ pc'[f] = "push" => unsent'[f] = Links[Page(f)]
    <3>1. Page(f) \in pages'
      BY <2>5 DEF InsertPage
    <3>2. pc'[f] \in {"push", "done"} => job[f].parent = NoParent
      BY <2>5 DEF AfterSave
    <3>3. pc'[f] = "done" => Links[Page(f)] = {}
      BY <2>5 DEF AfterSave
    <3> QED
      BY <2>1, <2>3, <2>5, <3>1, <3>2, <3>3 DEF Stage
  <2>6. CASE /\ pc[f] = "link" /\ InsertLink(f)
             /\ pc'[f] = IF Links[Page(f)] # {} THEN "push" ELSE "done"
             /\ pc'[f] = "push" => unsent'[f] = Links[Page(f)]
    <3>1. Page(f) \in pages'
      BY <1>1, <1>3, <2>6 DEF Stage
    <3>2. job[f].parent # NoParent => job[f].parent \in pages
      <4> SUFFICES ASSUME job[f].parent # NoParent
                   PROVE  job[f].parent \in pages
        OBVIOUS
      <4>1. Known(job[f].key) /\ urlStatus[job[f].key].parent = job[f].parent
        BY <2>1 DEF StoreInv, CrawlerInv, JobHeld
      <4>2. urlStatus[job[f].key].parent \in URL
        BY <4>1, <2>2
      <4> QED
        BY <4>1, <4>2, <2>2 DEF StoreInv, ParentStored
    <3>3. job[f].parent # NoParent => <<job[f].parent, Page(f)>> \in links'
      BY <2>6, <3>2 DEF InsertLink
    <3>4. pc'[f] = "done" => Links[Page(f)] = {}
      BY <2>6
    <3> QED
      BY <2>1, <2>3, <2>6, <3>1, <3>3, <3>4 DEF Stage
  <2>7. CASE pc[f] = "push" /\ unsent[f] = {} /\ pc'[f] = "done"
    <3>1. \A l \in Links[Page(f)] : urlStatus'[l].status # "Absent"
      BY <1>2, <1>3, <2>2, <2>7 DEF Stage
    <3> QED
      BY <1>1, <1>3, <2>1, <2>3, <2>7, <3>1 DEF Stage, Known
  <2> QED
    BY <1>1, <1>5, <2>4, <2>5, <2>6, <2>7 DEF ExecMove, Idle
<1> QED
  BY <1>4, <1>5

LEMMA StoreStep == StoreInv /\ [Next]_vars => StoreInv'
<1> SUFFICES ASSUME StoreInv, [Next]_vars PROVE StoreInv'
  OBVIOUS
<1>1. CrawlerInv'
  BY CrawlerStepInv DEF StoreInv
<1> QED
  BY <1>1, ParentStep, StageStep DEF StoreInv

LEMMA StoreInit == Init => StoreInv
<1> SUFFICES ASSUME Init PROVE StoreInv
  OBVIOUS
<1>1. ParentStored
  BY DEF Init, FrontierInit, ParentStored, Known, Unknown
<1>2. \A e \in Exec : Stage(e)
  BY DEF Init, Stage, Idle
<1> QED
  BY <1>1, <1>2, CrawlerInitInv DEF StoreInv

(* SaveLink always finds the page it links from. *)
THEOREM CrawlerStoresParents == Spec => []ParentStored
<1>1. StoreInv => ParentStored
  BY DEF StoreInv
<1> QED
  BY <1>1, StoreInit, StoreStep, PTL DEF Spec

-----------------------------------------------------------------------------
(* With seeds in normal form every key is, and an execution closes the URL *)
(* it took on.                                                             *)
KeysNormal == \A u \in URL : Known(u) => Norm[u] = u

DoneInv == StoreInv /\ KeysNormal /\ DoneStored

LEMMA DoneStep ==
  (\A s \in Seeds : Norm[s] = s) => (DoneInv /\ [Next]_vars => DoneInv')
<1> SUFFICES ASSUME \A s \in Seeds : Norm[s] = s, DoneInv, [Next]_vars
             PROVE  DoneInv'
  OBVIOUS
<1>1. /\ ScriptStep
      /\ pages \subseteq pages' /\ links \subseteq links'
      /\ StoreInv'
  BY Scripts, TablesGrow, StoreStep DEF DoneInv, StoreInv
<1>2. ASSUME NEW u \in URL, urlStatus'[u].status # "Absent"
      PROVE  Norm[u] = u
  <2>1. CASE Known(u)
    BY <2>1 DEF DoneInv, KeysNormal
  <2>2. CASE u \in Seeds
    BY <2>2
  <2>3. ASSUME NEW e \in Exec, pc[e] = "push", u \in Links[Page(e)]
        PROVE  Norm[u] = u
    <3>1. Page(e) \in URL
      BY <2>3, HeldURLs DEF DoneInv, StoreInv, Idle
    <3> QED
      BY <2>3, <3>1, WebAssumption
  <2> QED
    BY <1>1, <1>2, <2>1, <2>2, <2>3, RecordChanges DEF DoneInv, StoreInv
<1>3. ASSUME NEW u \in URL, urlStatus'[u].status = "Done"
      PROVE  /\ Final[u] \in pages'
             /\ urlStatus'[u].parent \in URL =>
                  <<urlStatus'[u].parent, Final[u]>> \in links'
             /\ \A l \in Links[Final[u]] : urlStatus'[l].status # "Absent"
  <2>1. Final[u] \in URL /\ Links[Final[u]] \in SUBSET URL
    BY WebAssumption
  <2>2. ASSUME NEW l \in URL, Known(l) PROVE urlStatus'[l].status # "Absent"
    BY <1>1, <2>2, RecordsKept DEF DoneInv, StoreInv, Known
  <2>3. /\ Known(u)
        /\ Final[u] \in pages
        /\ urlStatus[u].parent \in URL =>
             <<urlStatus[u].parent, Final[u]>> \in links
        /\ \A l \in Links[Final[u]] : Known(l)
    <3>1. CASE urlStatus[u].status = "Done"
      BY <3>1 DEF DoneInv, DoneStored, Known
    <3>2. CASE urlStatus[u].status # "Done"
      <4>1. PICK e \in Exec : pc[e] = "done" /\ u = Url(e) /\ Known(u)
        BY <1>1, <1>3, <3>2, RecordChanges DEF DoneInv, StoreInv
      <4>2. /\ job[e].key \in URL /\ Known(job[e].key)
            /\ urlStatus[job[e].key].parent = job[e].parent
        BY <4>1, HeldURLs DEF DoneInv, StoreInv, CrawlerInv, JobHeld, Idle
      <4>3. job[e].key = u /\ Page(e) = Final[u]
        BY <4>1, <4>2 DEF Url, Page, DoneInv, KeysNormal
      <4>4. Stage(e)
        BY DEF DoneInv, StoreInv
      <4> QED
        BY <4>1, <4>2, <4>3, <4>4, ParentAssumption DEF Stage
    <3> QED
      BY <3>1, <3>2
  <2>4. urlStatus'[u].parent = urlStatus[u].parent
    BY <1>1, <2>3, RecordsKept DEF DoneInv, StoreInv
  <2> QED
    BY <1>1, <2>1, <2>2, <2>3, <2>4
<1>4. KeysNormal'
  BY <1>2 DEF KeysNormal, Known
<1>5. DoneStored'
  BY <1>3 DEF DoneStored, Known
<1> QED
  BY <1>1, <1>4, <1>5 DEF DoneInv

(* Done means done: for seeds in normal form, a URL is only ever closed as *)
(* done when its page, the link that led to it and its own links have all  *)
(* been stored.                                                            *)
THEOREM CrawlerDoneMeansStored ==
  ASSUME \A s \in Seeds : Norm[s] = s
  PROVE  Spec => []DoneStored
<1>1. Init => DoneInv
  BY StoreInit DEF Init, FrontierInit, DoneInv, KeysNormal, DoneStored, Known, Unknown
<1>2. DoneInv /\ [Next]_vars => DoneInv'
  BY DoneStep
<1>3. DoneInv => DoneStored
  BY DEF DoneInv
<1> QED
  BY <1>1, <1>2, <1>3, PTL DEF Spec
=============================================================================
