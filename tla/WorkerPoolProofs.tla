-------------------------- MODULE WorkerPoolProofs --------------------------
(***************************************************************************)
(* No wake-up is lost, for any number of workers, of goroutines left       *)
(* behind and of URLs, whatever is restarted, abandoned or disconnected.   *)
(***************************************************************************)
EXTENDS WorkerPool, FiniteSetTheorems, TLAPS

(* The parts of the type invariant. *)
FrontierTypes ==
  /\ known \in SUBSET URL
  /\ queue \in [URL -> Nat]
  /\ index \in SUBSET URL
  /\ retry \in SUBSET URL
  /\ due \in SUBSET retry

LoopTypes ==
  /\ pc \in [Worker -> Running \cup Blocked]
  /\ job \in [Worker -> URL \cup {NoURL}]
  /\ \A w \in Worker : pc[w] = "crawl" => job[w] \in URL

LeftTypes ==
  /\ left \in [Left -> [call : LateCall \cup {"none"}, url : URL \cup {NoURL}]]
  /\ \A g \in Left : left[g].call \in {"crawl", "giveUp"} => left[g].url \in URL

SignalTypes ==
  /\ msgs \in Nat
  /\ notify \in BOOLEAN
  /\ fanning \in SUBSET Worker
  /\ token \in SUBSET Worker
  /\ missed \in BOOLEAN

LEMMA TypeParts ==
  /\ TypeOK <=> FrontierTypes /\ LoopTypes /\ LeftTypes /\ SignalTypes
  /\ TypeOK' <=> FrontierTypes' /\ LoopTypes' /\ LeftTypes' /\ SignalTypes'
<1>1. TypeOK <=> FrontierTypes /\ LoopTypes /\ LeftTypes /\ SignalTypes
  BY Zenon DEF TypeOK, FrontierTypes, LoopTypes, LeftTypes, SignalTypes
<1>2. TypeOK' <=> FrontierTypes' /\ LoopTypes' /\ LeftTypes' /\ SignalTypes'
  BY Zenon DEF TypeOK, FrontierTypes, LoopTypes, LeftTypes, SignalTypes
<1> QED
  BY <1>1, <1>2

LEMMA SignalsUnchanged ==
  ASSUME SignalTypes, UNCHANGED <<msgs, signals, missed>> PROVE SignalTypes'
BY Zenon DEF SignalTypes, signals

-----------------------------------------------------------------------------
(* The scripts. *)

(* The number of events of a push is a number: the URLs are finitely many. *)
LEMMA LPushCounts ==
  ASSUME SignalTypes, NEW urls \in SUBSET URL, LPush(urls)
  PROVE  /\ msgs' \in Nat
         /\ missed' \in BOOLEAN
         /\ urls # {} => msgs' > 0
<1>1. IsFiniteSet(urls)
  BY URLFinite, FS_Subset
<1>2. Cardinality(urls) \in Nat /\ (urls # {} => Cardinality(urls) # 0)
  BY <1>1, FS_CardinalityType, FS_EmptySet
<1>3. msgs \in Nat /\ msgs' = msgs + Cardinality(urls)
  BY DEF SignalTypes, LPush
<1>4. missed' \in BOOLEAN
  BY Zenon DEF LPush
<1> QED
  BY <1>2, <1>3, <1>4

(* A script that publishes events ... *)
Pushes == EnqueueDue \/ PushNew \/ \E u \in index : RecoverURL(u)

LEMMA PushTypes ==
  ASSUME FrontierTypes, SignalTypes, Pushes, UNCHANGED signals
  PROVE  FrontierTypes' /\ SignalTypes'
<1>1. PICK urls \in SUBSET URL : LPush(urls)
  BY DEF Pushes, EnqueueDue, PushNew, RecoverURL, FrontierTypes
<1>2. msgs' \in Nat /\ missed' \in BOOLEAN
  BY <1>1, LPushCounts
<1>3. SignalTypes'
  BY <1>2, Zenon DEF SignalTypes, signals
<1>4. queue' \in [URL -> Nat]
  BY <1>1 DEF LPush, FrontierTypes
<1> QED
  BY <1>3, <1>4 DEF Pushes, EnqueueDue, PushNew, RecoverURL, FrontierTypes

(* ... either pushes nothing, or leaves one to be received. *)
LEMMA PushWakes ==
  ASSUME FrontierTypes, SignalTypes, Pushes
  PROVE  \/ msgs' > 0
         \/ queue' = queue /\ msgs' = msgs /\ (missed' <=> missed)
<1>1. PICK urls \in SUBSET URL : LPush(urls)
  BY DEF Pushes, EnqueueDue, PushNew, RecoverURL, FrontierTypes
<1>2. CASE urls # {}
  BY <1>1, <1>2, LPushCounts
<1>3. CASE urls = {}
  <2>1. queue' = queue
    BY <1>1, <1>3 DEF LPush, FrontierTypes
  <2>2. msgs' = msgs
    BY <1>1, <1>3, FS_EmptySet DEF LPush, SignalTypes
  <2>3. missed' <=> missed
    BY <1>1, <1>3, Zenon DEF LPush
  <2> QED
    BY <2>1, <2>2, <2>3
<1> QED
  BY <1>2, <1>3

LEMMA PopTypes ==
  ASSUME FrontierTypes, NEW u \in URL, Pop(u)
  PROVE  FrontierTypes' /\ Queued /\ UNCHANGED <<msgs, missed>>
<1>1. queue[u] - 1 \in Nat
  BY DEF FrontierTypes, Pop, InQueue
<1> QED
  BY <1>1 DEF FrontierTypes, Pop, Queued

\* The scripts that end an execution.
LEMMA OutcomeTypes ==
  ASSUME FrontierTypes, NEW u \in URL,
         RetryURL(u) \/ MarkProcessed(u) \/ UNCHANGED frontier
  PROVE  FrontierTypes' /\ queue' = queue
BY DEF FrontierTypes, RetryURL, MarkProcessed, frontier

-----------------------------------------------------------------------------
LEMMA WorkerStepTypes ==
  ASSUME TypeOK, NEW w \in Worker, WorkerStep(w) \/ Fails(w) \/ Abandon(w)
  PROVE  TypeOK'
<1>0. FrontierTypes /\ LoopTypes /\ LeftTypes /\ SignalTypes
  BY TypeParts
<1>1. LoopTypes'
  <2>1. CASE TakeOn(w)
    BY <1>0, <2>1 DEF TakeOn, Goto, LoopTypes, Running
  <2>2. CASE PushLink(w)
    BY <1>0, <2>2 DEF PushLink, LoopTypes
  <2>3. CASE EnqueueURLs(w) \/ QueueEmpty(w) \/ Sleep(w) \/ Wait(w)
             \/ Finish(w) \/ TimerFires(w) \/ Signalled(w)
             \/ Fails(w) \/ Abandon(w)
    BY <1>0, <2>3 DEF EnqueueURLs, QueueEmpty, Sleep, Wait, Finish, TimerFires,
                      Signalled, Fails, Abandon, Goto, LoopTypes, Running, Blocked
  <2> QED
    BY <2>1, <2>2, <2>3 DEF WorkerStep
<1>2. LeftTypes'
  <2>1. CASE Abandon(w)
    <3>1. PICK g \in Left : left' = [left EXCEPT ![g] = [call |-> pc[w], url |-> job[w]]]
      BY <2>1 DEF Abandon
    <3>2. /\ pc[w] \in LateCall /\ job[w] \in URL \cup {NoURL}
          /\ pc[w] = "crawl" => job[w] \in URL
          /\ pc[w] # "giveUp"
      BY <1>0, <2>1 DEF Abandon, LoopTypes, Running, LateCall
    <3> QED
      BY <1>0, <3>1, <3>2 DEF LeftTypes
  <2>2. CASE WorkerStep(w) \/ Fails(w)
    BY <1>0, <2>2 DEF WorkerStep, EnqueueURLs, TakeOn, QueueEmpty, Sleep, Wait,
                      PushLink, Finish, TimerFires, Signalled, Fails, LeftTypes
  <2> QED
    BY <2>1, <2>2
<1>3. FrontierTypes' /\ SignalTypes'
  <2>1. CASE EnqueueURLs(w) \/ PushLink(w)
    BY <1>0, <2>1, PushTypes DEF EnqueueURLs, PushLink, Pushes
  <2>2. CASE TakeOn(w)
    <3>1. FrontierTypes' /\ UNCHANGED <<msgs, missed>>
      BY <1>0, <2>2, PopTypes DEF TakeOn
    <3> QED
      BY <1>0, <2>2, <3>1, SignalsUnchanged DEF TakeOn
  <2>3. CASE Finish(w)
    BY <1>0, <2>3, OutcomeTypes, SignalsUnchanged DEF Finish, LoopTypes
  <2>4. CASE Signalled(w)
    <3>1. FrontierTypes' /\ token' \in SUBSET Worker
      BY <1>0, <2>4 DEF Signalled, FrontierTypes, SignalTypes, frontier
    <3> QED
      BY <1>0, <2>4, <3>1, Zenon DEF Signalled, SignalTypes
  <2>5. CASE QueueEmpty(w) \/ Sleep(w) \/ Wait(w) \/ TimerFires(w)
             \/ Fails(w) \/ Abandon(w)
    <3>1. UNCHANGED <<frontier, msgs, signals, missed>>
      BY <2>5 DEF QueueEmpty, Sleep, Wait, TimerFires, Fails, Abandon
    <3> QED
      BY <1>0, <3>1, SignalsUnchanged DEF FrontierTypes, frontier
  <2> QED
    BY <2>1, <2>2, <2>3, <2>4, <2>5 DEF WorkerStep
<1> QED
  BY <1>1, <1>2, <1>3, TypeParts

LEMMA LateStepTypes ==
  ASSUME TypeOK, NEW g \in Left, LateStep(g) PROVE TypeOK'
<1>0. FrontierTypes /\ LoopTypes /\ LeftTypes /\ SignalTypes
  BY TypeParts
<1>1. LoopTypes'
  BY <1>0 DEF LateStep, LateEnqueue, LateTakeOn, LatePush, LateFinish, LoopTypes
<1>2. LeftTypes'
  BY <1>0 DEF LateStep, LateEnqueue, LateTakeOn, LatePush, LateFinish, Ends,
              Becomes, Gone, LeftTypes, LateCall
<1>3. FrontierTypes' /\ SignalTypes'
  <2>1. CASE LateEnqueue(g) \/ LatePush(g)
    BY <1>0, <2>1, PushTypes DEF LateEnqueue, LatePush, Pushes
  <2>2. CASE LateTakeOn(g)
    <3>1. FrontierTypes' /\ UNCHANGED <<msgs, missed>>
      BY <1>0, <2>2, PopTypes DEF LateTakeOn
    <3> QED
      BY <1>0, <2>2, <3>1, SignalsUnchanged DEF LateTakeOn
  <2>3. CASE LateFinish(g)
    <3>1. CASE left[g].call \in {"crawl", "giveUp"}
      BY <1>0, <2>3, <3>1, OutcomeTypes, SignalsUnchanged DEF LateFinish, LeftTypes
    <3>2. CASE left[g].call \notin {"crawl", "giveUp"}
      BY <1>0, <2>3, <3>2, SignalsUnchanged DEF LateFinish, FrontierTypes, frontier
    <3> QED
      BY <3>1, <3>2
  <2> QED
    BY <2>1, <2>2, <2>3 DEF LateStep
<1> QED
  BY <1>1, <1>2, <1>3, TypeParts

LEMMA TypeStep == TypeOK /\ [Next]_vars => TypeOK'
<1> SUFFICES ASSUME TypeOK, [Next]_vars PROVE TypeOK'
  OBVIOUS
<1>0. FrontierTypes /\ LoopTypes /\ LeftTypes /\ SignalTypes
  BY TypeParts
<1>1. CASE \E w \in Worker : WorkerStep(w) \/ Fails(w) \/ Abandon(w)
  BY <1>1, WorkerStepTypes
<1>2. CASE \E g \in Left : LateStep(g)
  BY <1>2, LateStepTypes
<1>3. CASE Receive \/ FanOut \/ Reconnect \/ Crash \/ UNCHANGED vars
           \/ \E w \in Worker : Signal(w)
  <2>1. notify' \in BOOLEAN /\ missed' \in BOOLEAN
    BY <1>0, <1>3, Zenon DEF Receive, FanOut, Reconnect, Crash, Signal, vars,
                             signals, SignalTypes
  <2>2. msgs' \in Nat /\ fanning' \in SUBSET Worker /\ token' \in SUBSET Worker
    BY <1>0, <1>3 DEF Receive, FanOut, Reconnect, Crash, Signal, vars, signals,
                      SignalTypes
  <2>3. SignalTypes'
    BY <2>1, <2>2, Zenon DEF SignalTypes
  <2>4. FrontierTypes'
    BY <1>0, <1>3 DEF Receive, FanOut, Reconnect, Crash, Signal, vars, frontier,
                      FrontierTypes
  <2>5. LoopTypes' /\ LeftTypes'
    BY <1>0, <1>3 DEF Receive, FanOut, Reconnect, Crash, Signal, vars, LoopTypes,
                      LeftTypes, Running, Gone
  <2> QED
    BY <2>3, <2>4, <2>5, TypeParts
<1>4. CASE RetryBecomesDue
  <2>1. FrontierTypes'
    BY <1>0, <1>4 DEF RetryBecomesDue, FrontierTypes
  <2>2. SignalTypes'
    BY <1>0, <1>4, SignalsUnchanged DEF RetryBecomesDue
  <2>3. LoopTypes' /\ LeftTypes'
    BY <1>0, <1>4 DEF RetryBecomesDue, LoopTypes, LeftTypes
  <2> QED
    BY <2>1, <2>2, <2>3, TypeParts
<1>5. CASE Start \/ Recover
  <2>1. FrontierTypes' /\ SignalTypes'
    BY <1>0, <1>5, PushTypes DEF Start, Recover, Pushes
  <2>2. LoopTypes' /\ LeftTypes'
    BY <1>0, <1>5 DEF Start, Recover, LoopTypes, LeftTypes
  <2> QED
    BY <2>1, <2>2, TypeParts
<1> QED
  BY <1>1, <1>2, <1>3, <1>4, <1>5 DEF Next, Progress, Disturbance

-----------------------------------------------------------------------------
(* While nothing is pushed, the way to a queued URL stays open if every    *)
(* worker that was awake still is.                                         *)
LEMMA StaysAwake ==
  ASSUME TypeOK, NoLostWakeup, Queued' => Queued,
         \A w \in Worker : Awake(w) => Awake(w)',
         msgs' = msgs, notify' = notify, fanning' = fanning, missed' = missed
  PROVE  NoLostWakeup'
BY Zenon DEF NoLostWakeup

LEMMA PushStaysAwake ==
  ASSUME TypeOK, NoLostWakeup, Pushes, UNCHANGED <<pc, signals>>
  PROVE  NoLostWakeup'
<1>1. CASE msgs' > 0
  BY <1>1 DEF NoLostWakeup
<1>2. CASE queue' = queue /\ msgs' = msgs /\ (missed' <=> missed)
  <2>1. Queued' <=> Queued
    BY <1>2 DEF Queued, InQueue
  <2>2. \A w \in Worker : Awake(w)' <=> Awake(w)
    BY DEF Awake, signals
  <2> QED
    BY <1>2, <2>1, <2>2 DEF NoLostWakeup, signals
<1> QED
  BY <1>1, <1>2, PushWakes, TypeParts

(* A worker's own step.  It leaves Awake only by finding the queue empty,  *)
(* or by going to sleep from where it was not awake.                       *)
LEMMA WorkerStepKeepsWakeup ==
  ASSUME TypeOK, NoLostWakeup, NEW w \in Worker,
         WorkerStep(w) \/ Fails(w) \/ Abandon(w)
  PROVE  NoLostWakeup'
<1>0. pc \in [Worker -> Running \cup Blocked]
  BY DEF TypeOK
<1>1. CASE EnqueueURLs(w) \/ TimerFires(w) \/ Signalled(w)
           \/ Finish(w) \/ Fails(w) \/ Abandon(w)
  <2>1. pc'[w] \in {"take", "enqueue"}
    BY <1>0, <1>1 DEF EnqueueURLs, TimerFires, Signalled, Finish, Fails,
                      Abandon, Goto
  <2> QED
    BY <2>1 DEF NoLostWakeup, Awake
<1>2. CASE TakeOn(w) \/ PushLink(w)
  <2>1. pc'[w] = "crawl"
    BY <1>0, <1>2 DEF TakeOn, PushLink, Goto
  <2> QED
    BY <2>1 DEF NoLostWakeup, Awake
<1>3. CASE QueueEmpty(w)
  BY <1>3 DEF QueueEmpty, NoLostWakeup, Queued, InQueue, frontier
<1>4. CASE Sleep(w) \/ Wait(w)
  <2>1. /\ pc[w] = "metadata"
        /\ UNCHANGED <<queue, msgs, notify, fanning, token, missed>>
        /\ \A v \in Worker \ {w} : pc'[v] = pc[v]
    BY <1>0, <1>4 DEF Sleep, Wait, Goto, frontier, signals
  <2>2. \A v \in Worker : Awake(v) => Awake(v)'
    BY <2>1 DEF Awake
  <2>3. Queued' => Queued
    BY <2>1 DEF Queued, InQueue
  <2> QED
    BY <2>1, <2>2, <2>3, StaysAwake
<1> QED
  BY <1>1, <1>2, <1>3, <1>4 DEF WorkerStep

(* A goroutine left behind may take what a worker was woken for: then it   *)
(* is not in the queue.                                                    *)
LEMMA LateStepKeepsWakeup ==
  ASSUME TypeOK, NoLostWakeup, NEW g \in Left, LateStep(g)
  PROVE  NoLostWakeup'
<1>1. CASE LateEnqueue(g) \/ LatePush(g)
  BY <1>1, PushStaysAwake DEF LateEnqueue, LatePush, Pushes
<1>2. CASE LateTakeOn(g) \/ LateFinish(g)
  <2>1. UNCHANGED <<pc, msgs, signals, missed>>
    BY <1>2 DEF LateTakeOn, LateFinish, Pop
  <2>2. Queued' => Queued
    <3>1. CASE LateTakeOn(g)
      BY <3>1 DEF LateTakeOn, Pop, Queued
    <3>2. CASE LateFinish(g)
      BY <3>2 DEF LateFinish, RetryURL, MarkProcessed, frontier, Queued, InQueue
    <3> QED
      BY <1>2, <3>1, <3>2
  <2> QED
    BY <2>1, <2>2, StaysAwake DEF Awake, signals
<1> QED
  BY <1>1, <1>2 DEF LateStep

LEMMA WakeupStep == TypeOK /\ NoLostWakeup /\ [Next]_vars => NoLostWakeup'
<1> SUFFICES ASSUME TypeOK, NoLostWakeup, [Next]_vars PROVE NoLostWakeup'
  OBVIOUS
<1>1. CASE \E w \in Worker : WorkerStep(w) \/ Fails(w) \/ Abandon(w)
  BY <1>1, WorkerStepKeepsWakeup
<1>2. CASE \E g \in Left : LateStep(g)
  BY <1>2, LateStepKeepsWakeup
<1>3. CASE Receive
  BY <1>3 DEF Receive, NoLostWakeup
<1>4. CASE FanOut
  BY <1>4, WorkerAssumption DEF FanOut, NoLostWakeup
<1>5. CASE Start \/ Recover
  BY <1>5, PushStaysAwake DEF Start, Recover, Pushes
<1>6. CASE RetryBecomesDue
  <2>1. Queued' => Queued
    BY <1>6 DEF RetryBecomesDue, Queued, InQueue
  <2> QED
    BY <1>6, <2>1, StaysAwake DEF RetryBecomesDue, signals, Awake
<1>7. CASE Crash \/ Reconnect
  BY <1>7, WorkerAssumption DEF Crash, Reconnect, NoLostWakeup, Awake
<1>8. CASE UNCHANGED vars
  BY <1>8 DEF vars, frontier, signals, NoLostWakeup, Queued, InQueue, Awake
<1>9. CASE \E w \in Worker : Signal(w)
  BY <1>9 DEF Signal, NoLostWakeup, Awake
<1> QED
  BY <1>1, <1>2, <1>3, <1>4, <1>5, <1>6, <1>7, <1>8, <1>9
     DEF Next, Progress, Disturbance

LEMMA InitTypes == Init => TypeOK
<1> SUFFICES ASSUME Init PROVE TypeOK
  OBVIOUS
<1>1. SignalTypes
  BY Zenon, 0 \in Nat DEF Init, SignalTypes
<1>2. LoopTypes /\ LeftTypes
  BY DEF Init, Running, Gone, LoopTypes, LeftTypes
<1>3. FrontierTypes
  BY DEF Init, FrontierTypes
<1> QED
  BY <1>1, <1>2, <1>3, TypeParts

LEMMA InitAwake == Init => NoLostWakeup
BY WorkerAssumption DEF Init, NoLostWakeup, Awake

(* The pool keeps its types: a goroutine left behind holds a URL whenever  *)
(* it may still write about one.                                           *)
THEOREM PoolTypeCorrect == Spec => []TypeOK
BY InitTypes, TypeStep, PTL DEF Spec

(* While a URL is in the queue somebody is on the way to it, however full  *)
(* the channels were when it was pushed, unless Pub/Sub lost the event.    *)
THEOREM PoolLosesNoWakeup == Spec => []NoLostWakeup
BY InitTypes, InitAwake, TypeStep, WakeupStep, PTL DEF Spec
=============================================================================
