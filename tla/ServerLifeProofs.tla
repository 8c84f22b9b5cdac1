--------------------------- MODULE ServerLifeProofs ---------------------------
(***************************************************************************)
(* Proofs about ThreadPool and the server that uses it, for every number of *)
(* workers, callers, tasks and signals.  Of the pool: each task runs once,  *)
(* the destructor drains the queue, no wakeup is lost, and the pool         *)
(* implements TaskService.  Of the server: it uses its pool as ThreadPool   *)
(* allows, so all this holds in it; no task outlives the database; and the  *)
(* bytes in its wakeup pipe are bounded.                                    *)
(***************************************************************************)
EXTENDS ServerLife, FiniteSetTheorems, TLAPS

-----------------------------------------------------------------------------
(* ThreadPool.                                                             *)

PoolInv ==
    /\ TypeOK
    /\ RunOnce
    /\ StopInv
    /\ NoSleeperAfterStop

LEMMA PoolInit == Init => PoolInv
<1> SUFFICES ASSUME Init PROVE PoolInv
  OBVIOUS
<1>1. TypeOK
  <2>1. 0 \in 0..MaxTasks /\ 0 \in 0..0
    BY PoolAssumption DEF PoolAssumption
  <2>2. pushed \in 0..MaxTasks /\ popped \in 0..pushed /\ done \subseteq 1..popped
    BY <2>1 DEF Init
  <2>3. task \in [Worker -> 0..popped]
    BY <2>1 DEF Init
  <2> QED
    BY <2>2, <2>3 DEF Init, TypeOK
<1>4. StopInv /\ NoSleeperAfterStop
  BY DEF Init, StopInv, NoSleeperAfterStop
<1>2. 1..popped = {} /\ done = {} /\ {task[w] : w \in Worker} \ {0} = {}
  BY DEF Init
<1>3. RunOnce
  BY <1>2 DEF Init, RunOnce
<1> QED
  BY <1>1, <1>3, <1>4 DEF PoolInv

LEMMA PoolStep == PoolInv /\ [Next]_vars => PoolInv'
<1> SUFFICES ASSUME PoolInv, [Next]_vars PROVE PoolInv'
  OBVIOUS
<1> USE PoolAssumption DEF PoolAssumption, PoolInv, TypeOK, StopInv,
                           NoSleeperAfterStop, Waiting
<1>1. ASSUME NEW w \in Worker, Pop(w) PROVE PoolInv'
  <2>1. RunOnce'
    BY <1>1 DEF Pop, RunOnce
  <2> QED
    BY <1>1, <2>1 DEF Pop
<1>2. ASSUME NEW w \in Worker, Sleep(w) PROVE PoolInv'
  BY <1>2 DEF Sleep, RunOnce
<1>3. ASSUME NEW w \in Worker, Exit(w) PROVE PoolInv'
  BY <1>3 DEF Exit, RunOnce
<1>4. ASSUME NEW w \in Worker, Run(w) PROVE PoolInv'
  <2>1. RunOnce'
    BY <1>4 DEF Run, RunOnce
  <2> QED
    BY <1>4, <2>1 DEF Run, RunOnce
<1>5. ASSUME NEW w \in Worker, SpuriousWakeup(w) PROVE PoolInv'
  BY <1>5 DEF SpuriousWakeup, RunOnce
<1>6. ASSUME NEW p \in Producer, Enqueue(p) PROVE PoolInv'
  BY <1>6 DEF Enqueue, RunOnce
<1>7. ASSUME NEW p \in Producer, NotifyOne(p) PROVE PoolInv'
  BY <1>7 DEF NotifyOne, RunOnce
<1>8. CASE SetStop
  BY <1>8 DEF SetStop, RunOnce
<1>9. CASE NotifyAll
  BY <1>9 DEF NotifyAll, RunOnce
<1>10. CASE Join
  BY <1>10 DEF Join, RunOnce
<1>11. CASE UNCHANGED vars
  BY <1>11 DEF vars, RunOnce
<1> QED
  BY <1>1, <1>2, <1>3, <1>4, <1>5, <1>6, <1>7, <1>8, <1>9, <1>10, <1>11
  DEF Next, WorkerStep, Destroy

-----------------------------------------------------------------------------
(* No wakeup is lost.                                                      *)

LEMMA WakeupStep ==
    ASSUME PoolInv, PoolInv', NoLostWakeup, [Next]_vars
    PROVE  NoLostWakeup'
<1> DEFINE R == Cardinality(Ready)
           N == Cardinality(Notifying)
<1>0. /\ IsFiniteSet(Ready) /\ IsFiniteSet(Notifying)
      /\ R \in Nat /\ N \in Nat /\ R' \in Nat /\ N' \in Nat
      /\ IsFiniteSet(Ready') /\ IsFiniteSet(Notifying')
  <2>1. /\ IsFiniteSet(Ready) /\ IsFiniteSet(Notifying)
        /\ IsFiniteSet(Ready') /\ IsFiniteSet(Notifying')
    BY PoolAssumption, FS_Subset DEF PoolAssumption, Ready, Notifying
  <2> QED
    BY <2>1, FS_CardinalityType
<1>9. Pending \in Int /\ Pending' \in Int
  BY DEF PoolInv, TypeOK, Pending
<1>1. ASSUME NEW w \in Worker, Pop(w) PROVE NoLostWakeup'
  <2>1. Ready' = Ready \ {w} /\ w \in Ready /\ Notifying' = Notifying
          /\ Waiting' = Waiting
    BY <1>1 DEF Pop, PoolInv, TypeOK, Waiting, Ready, Notifying
  <2>2. R' = R - 1 /\ N' = N
    BY <1>0, <1>9, <2>1, FS_RemoveElement
  <2>3. Pending' = Pending - 1
    BY <1>1 DEF Pop, PoolInv, TypeOK, Pending
  <2> QED
    BY <1>0, <1>9, <2>1, <2>2, <2>3 DEF NoLostWakeup
<1>2. ASSUME NEW w \in Worker, Sleep(w) PROVE NoLostWakeup'
  <2>1. Pending' = 0
    BY <1>2 DEF Sleep, PoolInv, TypeOK, Pending
  <2> QED
    BY <1>0, <1>9, <2>1 DEF NoLostWakeup
<1>3. ASSUME NEW w \in Worker, Exit(w) PROVE NoLostWakeup'
  <2>1. Pending' = 0
    BY <1>3 DEF Exit, PoolInv, TypeOK, Pending
  <2> QED
    BY <1>0, <1>9, <2>1 DEF NoLostWakeup
<1>4. ASSUME NEW w \in Worker, Run(w) \/ SpuriousWakeup(w)
      PROVE  NoLostWakeup'
  <2>1. Ready' = Ready \cup {w} /\ w \notin Ready /\ Notifying' = Notifying
          /\ Waiting' \subseteq Waiting
    BY <1>4 DEF Run, SpuriousWakeup, PoolInv, TypeOK, Waiting, Ready, Notifying
  <2>2. R' = R + 1 /\ N' = N
    BY <1>0, <1>9, <2>1, FS_AddElement
  <2>3. Pending' = Pending
    BY <1>4 DEF Run, SpuriousWakeup, PoolInv, TypeOK, Pending
  <2> QED
    BY <1>0, <1>9, <2>1, <2>2, <2>3 DEF NoLostWakeup
<1>5. ASSUME NEW p \in Producer, Enqueue(p) PROVE NoLostWakeup'
  <2>1. Ready' = Ready /\ Notifying' = Notifying \cup {p}
          /\ p \notin Notifying /\ Waiting' = Waiting
    BY <1>5 DEF Enqueue, PoolInv, TypeOK, Waiting, Ready, Notifying
  <2>2. R' = R /\ N' = N + 1
    BY <1>0, <1>9, <2>1, FS_AddElement
  <2>3. Pending' = Pending + 1
    BY <1>5 DEF Enqueue, PoolInv, TypeOK, Pending
  <2> QED
    BY <1>0, <1>9, <2>1, <2>2, <2>3 DEF NoLostWakeup
<1>6. ASSUME NEW p \in Producer, NotifyOne(p) PROVE NoLostWakeup'
  <2>1. Notifying' = Notifying \ {p} /\ p \in Notifying
          /\ Pending' = Pending
    BY <1>6 DEF NotifyOne, PoolInv, TypeOK, Notifying, Pending
  <2>2. N' = N - 1
    BY <1>0, <1>9, <2>1, FS_RemoveElement
  <2>3. CASE Waiting = {}
    <3>1. Waiting' = {}
      BY <1>6, <2>3 DEF NotifyOne, Waiting
    <3> QED
      BY <3>1 DEF NoLostWakeup
  <2>4. CASE Waiting # {}
    <3>1. PICK w \in Waiting : wpc' = [wpc EXCEPT ![w] = "ready"]
      BY <1>6, <2>4 DEF NotifyOne
    <3>2. Ready' = Ready \cup {w} /\ w \notin Ready
      BY <3>1 DEF PoolInv, TypeOK, Waiting, Ready
    <3>3. R' = R + 1
      BY <1>0, <3>2, FS_AddElement
    <3> QED
      BY <1>0, <1>9, <2>1, <2>2, <2>4, <3>3 DEF NoLostWakeup
  <2> QED
    BY <2>3, <2>4
<1>7. CASE NotifyAll
  <2>1. Waiting' = {}
    BY <1>7 DEF NotifyAll, PoolInv, TypeOK, Waiting
  <2> QED
    BY <2>1 DEF NoLostWakeup
<1>8. CASE SetStop \/ Join \/ UNCHANGED vars
  BY <1>8 DEF SetStop, Join, vars, NoLostWakeup, Waiting, Ready, Notifying,
     Pending
<1> QED
  BY <1>1, <1>2, <1>3, <1>4, <1>5, <1>6, <1>7, <1>8
  DEF Next, WorkerStep, Destroy

-----------------------------------------------------------------------------
(* The refinement of TaskService.                                          *)

LEMMA DrainedFromInv ==
    ASSUME PoolInv, \A w \in Worker : wpc[w] = "exited"
    PROVE  done = 1..pushed
<1>1. popped = pushed
  BY PoolAssumption DEF PoolInv, StopInv, PoolAssumption
<1>2. {task[w] : w \in Worker} \ {0} = {}
  BY DEF PoolInv, RunOnce
<1> QED
  BY <1>1, <1>2 DEF PoolInv, RunOnce

LEMMA ServiceInit == Init => Service!Init
BY DEF Init, Service!Init

LEMMA ServiceStep ==
    ASSUME PoolInv, PoolInv', [Next]_vars
    PROVE  [Service!Next]_(Service!vars)
<1> USE DEF PoolInv, TypeOK, StopInv
<1>1. ASSUME NEW w \in Worker, Pop(w) PROVE Service!Start
  BY <1>1 DEF Pop, Service!Start
<1>2. ASSUME NEW w \in Worker, Sleep(w) \/ Exit(w) \/ SpuriousWakeup(w)
      PROVE  UNCHANGED Service!vars
  BY <1>2 DEF Sleep, Exit, SpuriousWakeup, Service!vars
<1>3. ASSUME NEW w \in Worker, Run(w)
      PROVE  \E k \in 1..popped : Service!Finish(k)
  <2>1. task[w] \in 1..popped /\ task[w] \notin done
    BY <1>3 DEF Run, RunOnce
  <2>2. Service!Finish(task[w])
    BY <1>3, <2>1 DEF Run, Service!Finish
  <2> QED
    BY <2>1, <2>2
<1>4. ASSUME NEW p \in Producer, Enqueue(p) PROVE Service!Accept
  BY <1>4 DEF Enqueue, Service!Accept
<1>5. ASSUME NEW p \in Producer, NotifyOne(p) PROVE UNCHANGED Service!vars
  BY <1>5 DEF NotifyOne, Service!vars
<1>6. CASE SetStop
  <2>1. Service!BeginClose
    BY <1>6 DEF SetStop, Service!BeginClose
  <2> QED
    BY <2>1 DEF Service!Next
<1>7. CASE NotifyAll
  BY <1>7 DEF NotifyAll, Service!vars
<1>8. CASE Join
  <2>1. done = 1..pushed
    BY <1>8, DrainedFromInv DEF Join
  <2>2. Service!EndClose
    BY <1>8, <2>1 DEF Join, Service!EndClose
  <2> QED
    BY <2>2 DEF Service!Next
<1>9. CASE UNCHANGED vars
  BY <1>9 DEF vars, Service!vars
<1> QED
  BY <1>1, <1>2, <1>3, <1>4, <1>5, <1>6, <1>7, <1>8, <1>9
  DEF Next, WorkerStep, Destroy, Service!Next

-----------------------------------------------------------------------------
(* The theorems.                                                           *)

\* Every reachable state of the pool is well-typed, every popped task is with
\* one worker or was run, and no worker sleeps once the destructor notified
\* (the worker loop and ~ThreadPool).
THEOREM PoolInvariant == Spec => []PoolInv
<1>1. Init => PoolInv
  BY PoolInit
<1>2. PoolInv /\ [Next]_vars => PoolInv'
  BY PoolStep
<1> QED
  BY <1>1, <1>2, PTL DEF Spec

\* Each accepted task is taken once, by one worker, and run once.
THEOREM RunOnceHolds == Spec => []RunOnce
<1>1. PoolInv => RunOnce
  BY DEF PoolInv
<1> QED
  BY <1>1, PoolInvariant, PTL

\* When ~ThreadPool returns, everything enqueued before has run.
THEOREM DrainedHolds == Spec => []DrainedWhenDestroyed
<1>1. PoolInv => DrainedWhenDestroyed
  BY DrainedFromInv DEF PoolInv, StopInv, DrainedWhenDestroyed
<1> QED
  BY <1>1, PoolInvariant, PTL

\* notify_one after unlocking loses no wakeup, with any number of callers and
\* with spurious wakeups.
THEOREM NoLostWakeupHolds == Spec => []NoLostWakeup
<1>1. Init => NoLostWakeup
  BY DEF Init, NoLostWakeup, Waiting
<1>2. PoolInv /\ PoolInv' /\ NoLostWakeup /\ [Next]_vars => NoLostWakeup'
  BY WakeupStep
<1> QED
  BY <1>1, <1>2, PoolInvariant, PTL DEF Spec

\* The pool implements the service its callers rely on: the FIFO, run-once,
\* drain-on-destruction specification of TaskService.
THEOREM PoolImplementsService == Spec => ImplementsTaskService
<1>1. Init => Service!Init
  BY ServiceInit
<1>2. PoolInv /\ PoolInv' /\ [Next]_vars => [Service!Next]_(Service!vars)
  BY ServiceStep
<1> QED
  BY <1>1, <1>2, PoolInvariant, PTL
  DEF Spec, ImplementsTaskService, Service!Spec

-----------------------------------------------------------------------------
(* ServerLife.                                                             *)

\* Once the pool is joined nobody works, and only then the database goes.
EndInv ==
    /\ mpc \in {"dbclose", "gone"} => \A w \in Worker : wpc[w] = "exited"
    /\ ~db => mpc = "gone"

LEMMA StepsPool == [LifeNext]_lifeVars => [Next]_vars
<1> SUFFICES ASSUME LifeNext PROVE [Next]_vars
  BY DEF lifeVars, vars, life
<1> USE LifeAssumption DEF LifeAssumption
<1>1. CASE MainStep
  <2>1. CASE MainNotifies
    BY <2>1 DEF MainNotifies, Next
  <2>2. CASE PoolStops \/ PoolWakes \/ PoolJoined
    BY <2>2 DEF PoolStops, PoolWakes, PoolJoined, Next, Destroy
  <2>3. CASE ~(MainNotifies \/ PoolStops \/ PoolWakes \/ PoolJoined)
    BY <1>1, <2>3
    DEF MainStep, Arm, RunBegins, LoopTest, EpollReturns, PipeEvent, OtherDone,
        BatchDone, DestroyRouter, StopAgain, DestroyServer, CloseDb
  <2> QED
    BY <2>1, <2>2, <2>3
<1>2. CASE Surroundings
  <2>1. CASE MainEnqueues
    BY <2>1 DEF MainEnqueues, Next
  <2>2. CASE ~MainEnqueues
    BY <1>2, <2>2
    DEF Surroundings, StartFails, ListenFails, EpollFails, LoopThrows, EpollReturns
  <2> QED
    BY <2>1, <2>2
<1>3. ASSUME NEW w \in Worker, WorkerRuns(w) PROVE Next
  BY <1>3 DEF WorkerRuns, Next
<1>4. ASSUME NEW w \in Worker, Crash(w) PROVE UNCHANGED vars
  BY <1>4 DEF Crash
<1>5. ASSUME NEW t \in Thread, Deliver(t) \/ Handler(t) PROVE UNCHANGED vars
  BY <1>5 DEF Deliver, Handler, StopTest, StopClear, StopWrite
<1> QED
  BY <1>1, <1>2, <1>3, <1>4, <1>5 DEF LifeNext

\* The server is a user of the thread pool like any other: main enqueues only
\* before it destroys the pool.
THEOREM LifeUsesPool == LifeSpec => Spec
<1>1. LifeInit => Init
  BY DEF LifeInit
<1> QED
  BY <1>1, StepsPool, PTL DEF LifeSpec, Spec

\* So tasks run once.
THEOREM LifeRunsOnce == LifeSpec => []RunOnce
  BY LifeUsesPool, RunOnceHolds, PTL

\* And no wakeup is lost.
THEOREM LifeLosesNoWakeup == LifeSpec => []NoLostWakeup
  BY LifeUsesPool, NoLostWakeupHolds, PTL

LEMMA EndStep == TypeOK /\ EndInv /\ [LifeNext]_lifeVars => EndInv'
<1> SUFFICES ASSUME TypeOK, EndInv, [LifeNext]_lifeVars PROVE EndInv'
  OBVIOUS
<1> USE DEF EndInv, MainRuns
<1>1. CASE MainStep
  <2>1. CASE MainNotifies
    BY <2>1 DEF MainNotifies, NotifyOne, Waiting, life, TypeOK
  <2>2. CASE PoolStops
    BY <2>2 DEF PoolStops, SetStop
  <2>3. CASE PoolWakes
    BY <2>3 DEF PoolWakes, NotifyAll, life
  <2>4. CASE PoolJoined
    BY <2>4 DEF PoolJoined, Join
  <2>5. CASE ~(MainNotifies \/ PoolStops \/ PoolWakes \/ PoolJoined)
    BY <1>1, <2>5
    DEF MainStep, Arm, RunBegins, LoopTest, EpollReturns, PipeEvent, OtherDone,
        BatchDone, DestroyRouter, StopAgain, DestroyServer, CloseDb, vars
  <2> QED
    BY <2>1, <2>2, <2>3, <2>4, <2>5
<1>2. CASE Surroundings
  <2>1. CASE MainEnqueues
    BY <2>1 DEF MainEnqueues, Enqueue, life
  <2>2. CASE ~MainEnqueues
    BY <1>2, <2>2
    DEF Surroundings, StartFails, ListenFails, EpollFails, LoopThrows, EpollReturns, vars
  <2> QED
    BY <2>1, <2>2
<1>3. ASSUME NEW w \in Worker, WorkerRuns(w) PROVE EndInv'
  <2>1. wpc[w] # "exited" /\ \A v \in Worker \ {w} : wpc'[v] = wpc[v]
    BY <1>3 DEF WorkerRuns, WorkerStep, Pop, Sleep, Exit, Run, SpuriousWakeup, TypeOK
  <2> QED
    BY <1>3, <2>1 DEF WorkerRuns, life
<1>4. ASSUME NEW w \in Worker, Crash(w) PROVE EndInv'
  BY <1>4 DEF Crash, vars
<1>5. ASSUME NEW t \in Thread, Deliver(t) \/ Handler(t) PROVE EndInv'
  BY <1>5 DEF Deliver, Handler, StopTest, StopClear, StopWrite, Returns, vars
<1>6. CASE UNCHANGED lifeVars
  BY <1>6 DEF lifeVars, vars, life
<1> QED
  BY <1>1, <1>2, <1>3, <1>4, <1>5, <1>6 DEF LifeNext

\* A task that runs while the server is destroyed finds the database open: the
\* pool is joined first.
THEOREM HandlersHaveDatabaseHolds == LifeSpec => []HandlersHaveDatabase
<1>1. LifeInit => EndInv
  BY DEF LifeInit, EndInv
<1>2. LifeSpec => []TypeOK
  BY LifeUsesPool, PoolInvariant, PTL DEF PoolInv
<1>3. EndInv => HandlersHaveDatabase
  BY DEF EndInv, HandlersHaveDatabase
<1> QED
  BY <1>1, <1>2, <1>3, EndStep, PTL DEF LifeSpec

-----------------------------------------------------------------------------
(* The types of the server, and the bytes in its pipe.                     *)

\* The types of the variables that the pool has not got.
LifeTypes ==
    /\ mpc \in MainPC
    /\ events \subseteq {"pipe", "other"}
    /\ running \in BOOLEAN
    /\ pipe \in Nat
    /\ db \in BOOLEAN
    /\ handler \in [Thread -> {"no", "test", "clear", "write"}]
    /\ signals \in 0..MaxSignals

\* The threads that a signal handler runs on, and whether ~EpollServer has
\* called stop, or may have.
InStop == {t \in Thread : handler[t] # "no"}
Stopped ==
    IF mpc \in {"stopped", "bare", "joining", "dbclose", "gone", "crashed"}
    THEN 1 ELSE 0

\* Each signal, and ~EpollServer, writes one byte to the pipe at most.
PipeInv == LifeTypes /\ pipe + Cardinality(InStop) <= signals + Stopped

LEMMA InStopFinite ==
    IsFiniteSet(InStop) /\ Cardinality(InStop) \in Nat
<1>1. IsFiniteSet(Thread)
  BY PoolAssumption, FS_AddElement DEF PoolAssumption, Thread
<1>2. IsFiniteSet(InStop)
  BY <1>1, FS_Subset DEF InStop
<1> QED
  BY <1>2, FS_CardinalityType

\* Where no byte is written and no handler begins or ends.
LEMMA PipeKeep ==
    ASSUME PipeInv, LifeTypes', UNCHANGED <<pipe, handler, signals>>,
           Stopped = 1 => Stopped' = 1
    PROVE  PipeInv'
<1>1. InStop' = InStop
  BY DEF InStop
<1>2. /\ pipe \in Nat /\ signals \in Nat /\ Cardinality(InStop) \in Nat
      /\ Stopped \in {0, 1} /\ Stopped' \in {0, 1}
  BY InStopFinite, LifeAssumption
  DEF PipeInv, LifeTypes, Stopped, LifeAssumption
<1> QED
  BY <1>1, <1>2 DEF PipeInv

\* A handler ends, with a byte written or not.
LEMMA HandlerEnds ==
    ASSUME PipeInv, LifeTypes', NEW t \in Thread, handler[t] # "no",
           handler' = [handler EXCEPT ![t] = "no"],
           pipe' \in {pipe, pipe + 1}, signals' = signals, Stopped' = Stopped
    PROVE  PipeInv'
<1>1. InStop' = InStop \ {t} /\ t \in InStop
  BY DEF PipeInv, LifeTypes, InStop
<1>2. Cardinality(InStop') = Cardinality(InStop) - 1
  BY <1>1, InStopFinite, FS_RemoveElement
<1>3. /\ pipe \in Nat /\ signals \in Nat /\ Cardinality(InStop) \in Nat
      /\ Stopped \in {0, 1}
  BY InStopFinite, LifeAssumption
  DEF PipeInv, LifeTypes, Stopped, LifeAssumption
<1> QED
  BY <1>2, <1>3 DEF PipeInv

LEMMA PipeStep ==
    ASSUME PipeInv, [LifeNext]_lifeVars
    PROVE  PipeInv'
<1>0. /\ LifeTypes /\ pipe \in Nat /\ signals \in Nat /\ MaxSignals \in Nat
      /\ Cardinality(InStop) \in Nat /\ Main \in Thread
      /\ Stopped \in {0, 1} /\ Stopped' \in {0, 1}
  BY InStopFinite, LifeAssumption
  DEF PipeInv, LifeTypes, Stopped, LifeAssumption, Thread
<1>1. CASE StopAgain
  <2>4. pipe' \in Nat
    BY <1>0, <1>1 DEF StopAgain
  <2>5. /\ running' = FALSE /\ mpc' = "stopped"
        /\ UNCHANGED <<events, db, handler, signals>>
    BY <1>1 DEF StopAgain
  <2>1. LifeTypes'
    BY <1>0, <2>4, <2>5 DEF LifeTypes, MainPC
  <2>2. Stopped = 0 /\ Stopped' = 1
    BY <1>1 DEF StopAgain, MainRuns, Stopped
  <2>3. InStop' = InStop /\ pipe' \in {pipe, pipe + 1} /\ signals' = signals
    BY <1>1 DEF StopAgain, InStop
  <2> QED
    BY <1>0, <2>1, <2>2, <2>3 DEF PipeInv
<1>2. CASE MainStep /\ ~StopAgain
  <2>1. /\ UNCHANGED <<pipe, handler, signals>>
        /\ Stopped = 1 => Stopped' = 1
    BY <1>2
    DEF MainStep, Arm, RunBegins, LoopTest, EpollReturns, PipeEvent, OtherDone,
        BatchDone, DestroyRouter, DestroyServer, CloseDb, MainNotifies,
        PoolStops, PoolWakes, PoolJoined, MainRuns, Stopped, life
  <2>2. LifeTypes'
    BY <1>0, <1>2
    DEF MainStep, Arm, RunBegins, LoopTest, EpollReturns, PipeEvent, OtherDone,
        BatchDone, DestroyRouter, DestroyServer, CloseDb, MainNotifies,
        PoolStops, PoolWakes, PoolJoined, MainRuns, LifeTypes, MainPC, life
  <2> QED
    BY <2>1, <2>2, PipeKeep
<1>3. CASE Surroundings \/ UNCHANGED lifeVars
  <2>1. /\ UNCHANGED <<pipe, handler, signals>>
        /\ Stopped = 1 => Stopped' = 1
    BY <1>3
    DEF Surroundings, StartFails, ListenFails, EpollFails, LoopThrows,
        MainEnqueues, EpollReturns, MainRuns, Stopped, life, lifeVars
  <2>2. LifeTypes'
    BY <1>0, <1>3
    DEF Surroundings, StartFails, ListenFails, EpollFails, LoopThrows,
        MainEnqueues, EpollReturns, MainRuns, LifeTypes, MainPC, life, lifeVars
  <2> QED
    BY <2>1, <2>2, PipeKeep
<1>4. ASSUME NEW w \in Worker, WorkerRuns(w) \/ Crash(w)
      PROVE  PipeInv'
  <2>1. /\ UNCHANGED <<pipe, handler, signals>>
        /\ Stopped = 1 => Stopped' = 1
    BY <1>4 DEF WorkerRuns, Crash, life, Stopped
  <2>2. LifeTypes'
    BY <1>0, <1>4 DEF WorkerRuns, Crash, life, LifeTypes, MainPC
  <2> QED
    BY <2>1, <2>2, PipeKeep
<1>5. ASSUME NEW t \in Thread, Deliver(t)
      PROVE  PipeInv'
  <2>1. LifeTypes' /\ signals' = signals + 1 /\ pipe' = pipe /\ mpc' = mpc
    BY <1>0, <1>5 DEF Deliver, LifeTypes
  <2>2. InStop' = InStop \cup {t} /\ t \notin InStop
    BY <1>0, <1>5 DEF Deliver, LifeTypes, InStop
  <2>3. Cardinality(InStop') = Cardinality(InStop) + 1
    BY <2>2, InStopFinite, FS_AddElement
  <2>4. Stopped' = Stopped
    BY <2>1 DEF Stopped
  <2> QED
    BY <1>0, <2>1, <2>3, <2>4 DEF PipeInv
<1>6. ASSUME NEW t \in Thread, Returns(t)
      PROVE  /\ Stopped' = Stopped /\ mpc' \in MainPC
             /\ handler' = [handler EXCEPT ![t] = "no"]
             /\ handler' \in [Thread -> {"no", "test", "clear", "write"}]
  BY <1>0, <1>6 DEF Returns, Stopped, LifeTypes, MainPC
<1>7. ASSUME NEW t \in Thread, StopTest(t)
      PROVE  PipeInv'
  <2>1. /\ UNCHANGED <<vars, events, running, pipe, db, signals>>
        /\ handler[t] = "test"
        /\ \/ handler' = [handler EXCEPT ![t] = "clear"] /\ mpc' = mpc
           \/ Returns(t)
    BY <1>7 DEF StopTest
  <2>2. CASE handler' = [handler EXCEPT ![t] = "clear"] /\ mpc' = mpc
    <3>1. LifeTypes' /\ InStop' = InStop /\ Stopped' = Stopped
      BY <1>0, <2>1, <2>2 DEF LifeTypes, InStop, Stopped
    <3> QED
      BY <1>0, <2>1, <3>1 DEF PipeInv
  <2>3. CASE Returns(t)
    <3>1. LifeTypes'
      BY <1>0, <1>6, <2>1, <2>3 DEF LifeTypes
    <3> QED
      BY <1>6, <2>1, <2>3, <3>1, HandlerEnds
  <2> QED
    BY <2>1, <2>2, <2>3
<1>8. ASSUME NEW t \in Thread, StopClear(t)
      PROVE  PipeInv'
  <2>1. /\ LifeTypes' /\ InStop' = InStop /\ Stopped' = Stopped
        /\ UNCHANGED <<pipe, signals>>
    BY <1>0, <1>8 DEF StopClear, LifeTypes, InStop, Stopped
  <2> QED
    BY <1>0, <2>1 DEF PipeInv
<1>9. ASSUME NEW t \in Thread, StopWrite(t)
      PROVE  PipeInv'
  <2>1. /\ Returns(t) /\ handler[t] = "write" /\ pipe' \in {pipe, pipe + 1}
        /\ UNCHANGED <<events, running, db, signals>>
    BY <1>9 DEF StopWrite
  <2>2. LifeTypes'
    BY <1>0, <1>6, <2>1 DEF LifeTypes
  <2> QED
    BY <1>6, <2>1, <2>2, HandlerEnds
<1> QED
  BY <1>1, <1>2, <1>3, <1>4, <1>5, <1>7, <1>8, <1>9 DEF LifeNext, Handler

\* Type correctness.  What says most is the bound on the pipe, which nobody
\* reads: one byte for each signal and one for ~EpollServer are written at most,
\* so that the write whose failure stop ignores has room.
THEOREM LifeTypeCorrect == LifeSpec => []LifeTypeOK
<1>1. LifeInit => PipeInv
  <2> SUFFICES ASSUME LifeInit PROVE PipeInv
    OBVIOUS
  <2>3. /\ mpc = "setup" /\ events = {} /\ running = FALSE /\ pipe = 0
        /\ db = TRUE /\ signals = 0 /\ handler = [t \in Thread |-> "no"]
    BY DEF LifeInit
  <2>4. signals \in 0..MaxSignals /\ pipe \in Nat
    BY <2>3, LifeAssumption DEF LifeAssumption
  <2>1. LifeTypes /\ pipe = 0 /\ signals = 0
    BY <2>3, <2>4 DEF LifeTypes, MainPC
  <2>2. InStop = {} /\ Stopped = 0
    BY DEF LifeInit, InStop, Stopped
  <2> QED
    BY <2>1, <2>2, FS_EmptySet DEF PipeInv
<1>2. PipeInv /\ [LifeNext]_lifeVars => PipeInv'
  BY PipeStep
<1>3. LifeSpec => []TypeOK
  BY LifeUsesPool, PoolInvariant, PTL DEF PoolInv
<1>4. TypeOK /\ PipeInv => LifeTypeOK
  <2> SUFFICES ASSUME TypeOK, PipeInv PROVE LifeTypeOK
    OBVIOUS
  <2>1. pipe \in 0..(MaxSignals + 1)
    BY InStopFinite, LifeAssumption
    DEF PipeInv, LifeTypes, Stopped, LifeAssumption
  <2> QED
    BY <2>1 DEF PipeInv, LifeTypes, LifeTypeOK
<1> QED
  BY <1>1, <1>2, <1>3, <1>4, PTL DEF LifeSpec
=============================================================================
