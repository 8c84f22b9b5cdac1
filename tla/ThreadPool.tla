------------------------------ MODULE ThreadPool ------------------------------
(***************************************************************************)
(* The server's thread pool: a queue under mutex_, workers that sleep on    *)
(* cv_, enqueue that notifies after it has unlocked, and a destructor that  *)
(* stops, wakes and joins.  A task is its number in the order of enqueue;   *)
(* what it does is abstracted to taking some finite time.                   *)
(***************************************************************************)
EXTENDS Naturals, FiniteSets

CONSTANTS
    Worker,      \* workers_: the threads the constructor starts
    Producer,    \* threads that call enqueue
    MaxTasks     \* bound: tasks enqueued in a behaviour

\* The constructor throws on zero threads.
ASSUME PoolAssumption ==
    /\ Worker # {}
    /\ IsFiniteSet(Worker)
    /\ IsFiniteSet(Producer)
    /\ MaxTasks \in Nat

VARIABLES
    pushed,     \* tasks put into tasks_ so far
    popped,     \* tasks taken out of tasks_ so far: tasks_ is popped+1..pushed
    stop,       \* stop_
    wpc,        \* wpc[w]: "ready" (to take mutex_), "waiting" on cv_, "run",
                \* "exited"
    task,       \* task[w]: the task w runs, 0 if none
    ppc,        \* ppc[p]: "idle", or "notify" between unlock and notify_one
    dpc,        \* the destructor: "none", "notify", "join", "done"
    done        \* the tasks that were run

vars == <<pushed, popped, stop, wpc, task, ppc, dpc, done>>

TypeOK ==
    /\ pushed \in 0..MaxTasks
    /\ popped \in 0..pushed
    /\ stop \in BOOLEAN
    /\ wpc \in [Worker -> {"ready", "waiting", "run", "exited"}]
    /\ task \in [Worker -> 0..popped]
    /\ ppc \in [Producer -> {"idle", "notify"}]
    /\ dpc \in {"none", "notify", "join", "done"}
    /\ done \subseteq 1..popped

Init ==
    /\ pushed = 0
    /\ popped = 0
    /\ stop = FALSE
    /\ wpc = [w \in Worker |-> "ready"]
    /\ task = [w \in Worker |-> 0]
    /\ ppc = [p \in Producer |-> "idle"]
    /\ dpc = "none"
    /\ done = {}

Waiting == {w \in Worker : wpc[w] = "waiting"}
Ready == {w \in Worker : wpc[w] = "ready"}
Notifying == {p \in Producer : ppc[p] = "notify"}
Pending == pushed - popped   \* tasks_.size()

-----------------------------------------------------------------------------
(* The worker loop; the predicate of cv_.wait is evaluated under mutex_.    *)

\* Mutant of Pop: the wait has no predicate, any wakeup takes a task.
PopUnguarded(w) ==
    /\ wpc[w] = "ready"
    /\ popped' = popped + 1
    /\ task' = [task EXCEPT ![w] = popped + 1]
    /\ wpc' = [wpc EXCEPT ![w] = "run"]
    /\ UNCHANGED <<pushed, stop, ppc, dpc, done>>

\* Mutant of Pop: the front of the queue is read and not removed.
PopLeavesTask(w) ==
    /\ wpc[w] = "ready"
    /\ popped < pushed
    /\ task' = [task EXCEPT ![w] = popped + 1]
    /\ wpc' = [wpc EXCEPT ![w] = "run"]
    /\ UNCHANGED <<pushed, popped, stop, ppc, dpc, done>>

Pop(w) ==
    /\ wpc[w] = "ready"
    /\ popped < pushed
    /\ popped' = popped + 1
    /\ task' = [task EXCEPT ![w] = popped + 1]
    /\ wpc' = [wpc EXCEPT ![w] = "run"]
    /\ UNCHANGED <<pushed, stop, ppc, dpc, done>>

\* Evaluating the predicate and going to sleep is one step: cv_.wait releases
\* mutex_ only once the thread is on the wait list.
Sleep(w) ==
    /\ wpc[w] = "ready"
    /\ popped = pushed
    /\ ~stop
    /\ wpc' = [wpc EXCEPT ![w] = "waiting"]
    /\ UNCHANGED <<pushed, popped, stop, task, ppc, dpc, done>>

\* Mutant of Exit: the worker leaves on stop_ with tasks in the queue.
ExitOnStop(w) ==
    /\ wpc[w] = "ready"
    /\ stop
    /\ wpc' = [wpc EXCEPT ![w] = "exited"]
    /\ UNCHANGED <<pushed, popped, stop, task, ppc, dpc, done>>

Exit(w) ==
    /\ wpc[w] = "ready"
    /\ popped = pushed
    /\ stop
    /\ wpc' = [wpc EXCEPT ![w] = "exited"]
    /\ UNCHANGED <<pushed, popped, stop, task, ppc, dpc, done>>

\* The task runs outside the lock.
Run(w) ==
    /\ wpc[w] = "run"
    /\ done' = done \cup {task[w]}
    /\ task' = [task EXCEPT ![w] = 0]
    /\ wpc' = [wpc EXCEPT ![w] = "ready"]
    /\ UNCHANGED <<pushed, popped, stop, ppc, dpc>>

\* A condition variable may wake a thread nobody notified.
SpuriousWakeup(w) ==
    /\ wpc[w] = "waiting"
    /\ wpc' = [wpc EXCEPT ![w] = "ready"]
    /\ UNCHANGED <<pushed, popped, stop, task, ppc, dpc, done>>

-----------------------------------------------------------------------------
(* enqueue.                                                                 *)

\* With stop_ set, enqueue throws and changes nothing.
Enqueue(p) ==
    /\ ppc[p] = "idle"
    /\ ~stop
    /\ pushed < MaxTasks
    /\ pushed' = pushed + 1
    /\ ppc' = [ppc EXCEPT ![p] = "notify"]
    /\ UNCHANGED <<popped, stop, wpc, task, dpc, done>>

\* Mutant of NotifyOne: enqueue wakes nobody.
NotifyNobody(p) ==
    /\ ppc[p] = "notify"
    /\ ppc' = [ppc EXCEPT ![p] = "idle"]
    /\ UNCHANGED <<pushed, popped, stop, wpc, task, dpc, done>>

\* notify_one, after the lock was released.
NotifyOne(p) ==
    /\ ppc[p] = "notify"
    /\ ppc' = [ppc EXCEPT ![p] = "idle"]
    /\ IF Waiting = {}
       THEN UNCHANGED wpc
       ELSE \E w \in Waiting : wpc' = [wpc EXCEPT ![w] = "ready"]
    /\ UNCHANGED <<pushed, popped, stop, task, dpc, done>>

-----------------------------------------------------------------------------
(* ~ThreadPool.                                                             *)

SetStop ==
    /\ dpc = "none"
    /\ stop' = TRUE
    /\ dpc' = "notify"
    /\ UNCHANGED <<pushed, popped, wpc, task, ppc, done>>

NotifyAll ==
    /\ dpc = "notify"
    /\ wpc' = [w \in Worker |-> IF w \in Waiting THEN "ready" ELSE wpc[w]]
    /\ dpc' = "join"
    /\ UNCHANGED <<pushed, popped, stop, task, ppc, done>>

Join ==
    /\ dpc = "join"
    /\ \A w \in Worker : wpc[w] = "exited"
    /\ dpc' = "done"
    /\ UNCHANGED <<pushed, popped, stop, wpc, task, ppc, done>>

-----------------------------------------------------------------------------

WorkerStep(w) == Pop(w) \/ Sleep(w) \/ Exit(w) \/ Run(w)
Destroy == NotifyAll \/ Join

Next ==
    \/ \E w \in Worker : WorkerStep(w) \/ SpuriousWakeup(w)
    \/ \E p \in Producer : Enqueue(p) \/ NotifyOne(p)
    \/ SetStop
    \/ Destroy

Spec == Init /\ [][Next]_vars

-----------------------------------------------------------------------------
(* Properties.                                                             *)

\* Every task taken from the queue is with exactly one worker or was run, and
\* no two workers hold the same task (the pop under mutex_ of the worker
\* loop).
RunOnce ==
    /\ \A w \in Worker : wpc[w] = "run" <=> task[w] # 0
    /\ \A w \in Worker : task[w] \notin done
    /\ \A v, w \in Worker : task[v] = task[w] /\ task[v] # 0 => v = w
    /\ 1..popped = done \cup ({task[w] : w \in Worker} \ {0})

\* No wakeup is lost although enqueue notifies after unlocking: while a
\* worker sleeps, each queued task has an awake worker bound for it or a
\* notification still to come.
NoLostWakeup ==
    Waiting # {} => Pending <= Cardinality(Ready) + Cardinality(Notifying)

\* When the destructor returns, every task accepted before was run (the test
\* TasksQueuedBeforeDestructionAreExecuted) and no worker is left behind
\* (DestructorJoinsAllWorkers).
DrainedWhenDestroyed ==
    dpc = "done" => done = 1..pushed /\ \A w \in Worker : wpc[w] = "exited"

\* How far the destructor is, and what workers that left promise.
StopInv ==
    /\ stop <=> dpc # "none"
    /\ \A w \in Worker : wpc[w] = "exited" => stop /\ popped = pushed
    /\ dpc = "done" => \A w \in Worker : wpc[w] = "exited"

\* After notify_all no worker sleeps again, so none misses the stop.
NoSleeperAfterStop == dpc \in {"join", "done"} => Waiting = {}

\* The pool as its callers see it.
Service == INSTANCE TaskService
    WITH accepted <- pushed, started <- popped, finished <- done,
         closing <- stop, closed <- (dpc = "done")

\* ThreadPool implements TaskService: FIFO start, each task once, nothing
\* accepted or run after the destructor's part is over.
ImplementsTaskService == Service!Spec
=============================================================================
