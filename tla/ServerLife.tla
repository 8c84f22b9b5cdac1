------------------------------ MODULE ServerLife ------------------------------
(***************************************************************************)
(* Start and stop of the server: main's objects, the event loop of           *)
(* EpollServer::run, the signal handler that calls stop, and the destructors  *)
(* in the reverse order of the declarations: router, server (its pool last),  *)
(* database.  The thread pool is the one of ThreadPool; only main enqueues.   *)
(***************************************************************************)
EXTENDS ThreadPool

CONSTANTS
    Main,        \* the main thread
    MaxSignals   \* bound: SIGINTs and SIGTERMs in a behaviour

ASSUME LifeAssumption ==
    /\ Producer = {Main} /\ Main \notin Worker
    /\ MaxSignals \in Nat

Thread == Worker \cup {Main}

VARIABLES
    mpc,         \* where the main thread is, see MainPC
    events,      \* what epoll_wait reported and is not handled yet
    running,     \* running_
    pipe,        \* bytes in wakeup_pipe_
    db,          \* the Database is open
    handler,     \* handler[t]: signal_handler on thread t: "no", or in stop
                 \* before the "test", the "clear" of running_ or the "write"
    signals      \* signals delivered so far

life == <<mpc, events, running, pipe, db, handler, signals>>
lifeVars == <<vars, life>>

MainPC ==
    {"setup",      \* before sigaction
     "armed",      \* in run, before running_ = true
     "check", "wait", "batch",
     "out",        \* run has returned or thrown
     "routerless", \* ~MessageRouter is done
     "stopped",    \* ~EpollServer has called stop
     "bare",       \* sessions_, descriptors and handlers are gone, pool_ is not
     "joining",    \* in ~ThreadPool
     "dbclose", "gone", "crashed"}

\* Database and server, with its workers, have been constructed.
LifeInit ==
    /\ Init
    /\ mpc = "setup"
    /\ events = {}
    /\ running = FALSE
    /\ pipe = 0
    /\ db = TRUE
    /\ handler = [t \in Thread |-> "no"]
    /\ signals = 0

HasServer == mpc \notin {"dbclose", "gone", "crashed"}
HasPipe == mpc \notin {"bare", "joining", "dbclose", "gone", "crashed"}
HasRouter == mpc \in {"armed", "check", "wait", "batch", "out"}

\* The main thread runs: no signal handler on top, no notify_one to come.
MainRuns(at) == mpc = at /\ handler[Main] = "no" /\ ppc[Main] = "idle"

-----------------------------------------------------------------------------
(* main and run.                                                           *)

\* The rest of the set-up, the signal handlers last.
Arm ==
    /\ MainRuns("setup")
    /\ mpc' = "armed"
    /\ UNCHANGED <<vars, events, running, pipe, db, handler, signals>>

\* The constructor of the server throws once it has its pool: there is no
\* router, and of the server only its members are destroyed.
StartFails ==
    /\ MainRuns("setup")
    /\ mpc' = "bare"
    /\ UNCHANGED <<vars, events, running, pipe, db, handler, signals>>

\* socket, bind or listen.
ListenFails ==
    /\ MainRuns("armed")
    /\ mpc' = "out"
    /\ UNCHANGED <<vars, events, running, pipe, db, handler, signals>>

RunBegins ==
    /\ MainRuns("armed")
    /\ running' = TRUE
    /\ mpc' = "check"
    /\ UNCHANGED <<vars, events, pipe, db, handler, signals>>

LoopTest ==
    /\ MainRuns("check")
    /\ mpc' = IF running THEN "wait" ELSE "out"
    /\ UNCHANGED <<vars, events, running, pipe, db, handler, signals>>

\* The byte in the pipe is never read; "other" are sockets and the timer.
EpollReturns(S) ==
    /\ MainRuns("wait")
    /\ "pipe" \in S => pipe > 0
    /\ events' = S
    /\ mpc' = "batch"
    /\ UNCHANGED <<vars, running, pipe, db, handler, signals>>

\* Any error but EINTR.
EpollFails ==
    /\ MainRuns("wait")
    /\ mpc' = "out"
    /\ UNCHANGED <<vars, events, running, pipe, db, handler, signals>>

\* running_ = false; break.
PipeEvent ==
    /\ MainRuns("batch") /\ "pipe" \in events
    /\ running' = FALSE
    /\ events' = {}
    /\ mpc' = "check"
    /\ UNCHANGED <<vars, pipe, db, handler, signals>>

\* handle_client_event, for each of its messages.
MainEnqueues ==
    /\ MainRuns("batch") /\ "other" \in events
    /\ Enqueue(Main)
    /\ UNCHANGED life

MainNotifies ==
    /\ handler[Main] = "no" /\ mpc # "crashed"
    /\ NotifyOne(Main)
    /\ UNCHANGED life

OtherDone ==
    /\ MainRuns("batch") /\ "other" \in events
    /\ events' = events \ {"other"}
    /\ UNCHANGED <<vars, mpc, running, pipe, db, handler, signals>>

BatchDone ==
    /\ MainRuns("batch") /\ events = {}
    /\ mpc' = "check"
    /\ UNCHANGED <<vars, events, running, pipe, db, handler, signals>>

\* What a client sent makes value throw, out of run.
LoopThrows ==
    /\ MainRuns("batch") /\ "other" \in events
    /\ events' = {}
    /\ mpc' = "out"
    /\ UNCHANGED <<vars, running, pipe, db, handler, signals>>

-----------------------------------------------------------------------------
(* The destructors.                                                        *)

\* Mutant of DestroyRouter: the database is declared last in main.
DestroyRouterAndDb ==
    /\ MainRuns("out")
    /\ db' = FALSE
    /\ mpc' = "routerless"
    /\ UNCHANGED <<vars, events, running, pipe, handler, signals>>

DestroyRouter ==
    /\ MainRuns("out")
    /\ mpc' = "routerless"
    /\ UNCHANGED <<vars, events, running, pipe, db, handler, signals>>

\* stop, in ~EpollServer.
StopAgain ==
    /\ MainRuns("routerless")
    /\ running' = FALSE
    /\ pipe' = IF running THEN pipe + 1 ELSE pipe
    /\ mpc' = "stopped"
    /\ UNCHANGED <<vars, events, db, handler, signals>>

\* The rest of its body and the members declared after pool_.
DestroyServer ==
    /\ MainRuns("stopped")
    /\ mpc' = "bare"
    /\ UNCHANGED <<vars, events, running, pipe, db, handler, signals>>

PoolStops ==
    /\ MainRuns("bare")
    /\ SetStop
    /\ mpc' = "joining"
    /\ UNCHANGED <<events, running, pipe, db, handler, signals>>

PoolWakes ==
    /\ MainRuns("joining")
    /\ NotifyAll
    /\ UNCHANGED life

PoolJoined ==
    /\ MainRuns("joining")
    /\ Join
    /\ mpc' = "dbclose"
    /\ UNCHANGED <<events, running, pipe, db, handler, signals>>

\* ~Database and the end of main.
CloseDb ==
    /\ MainRuns("dbclose")
    /\ db' = FALSE
    /\ mpc' = "gone"
    /\ UNCHANGED <<vars, events, running, pipe, handler, signals>>

-----------------------------------------------------------------------------
(* The workers.                                                            *)

WorkerRuns(w) ==
    /\ handler[w] = "no" /\ mpc # "crashed"
    /\ WorkerStep(w) \/ SpuriousWakeup(w)
    /\ UNCHANGED life

\* A task that calls a router or a std::function that was destroyed does what
\* it would have done, or anything: the end of the process stands for that.
Crash(w) ==
    /\ handler[w] = "no" /\ wpc[w] = "run"
    /\ mpc # "crashed" /\ ~HasRouter
    /\ mpc' = "crashed"
    /\ UNCHANGED <<vars, events, running, pipe, db, handler, signals>>

-----------------------------------------------------------------------------
(* signal_handler, on whichever thread the kernel chooses.                 *)

Deliver(t) ==
    /\ mpc \notin {"setup", "gone", "crashed"}
    /\ signals < MaxSignals
    /\ handler[t] = "no"
    /\ t \in Worker => wpc[t] # "exited"
    /\ signals' = signals + 1
    /\ handler' = [handler EXCEPT ![t] = "test"]
    /\ UNCHANGED <<vars, mpc, events, running, pipe, db>>

\* The handler returns; if it interrupted epoll_wait that fails with EINTR, but
\* it may have come just before the call.
Returns(t) ==
    /\ handler' = [handler EXCEPT ![t] = "no"]
    /\ \/ UNCHANGED mpc
       \/ t = Main /\ mpc = "wait" /\ mpc' = "check"

\* Of a server that was destroyed, the handler still has the address: it finds
\* what is left of running_.
StopTest(t) ==
    /\ handler[t] = "test" /\ mpc # "crashed"
    /\ \E found \in IF HasServer THEN {running} ELSE BOOLEAN :
           IF found
           THEN handler' = [handler EXCEPT ![t] = "clear"] /\ UNCHANGED mpc
           ELSE Returns(t)
    /\ UNCHANGED <<vars, events, running, pipe, db, signals>>

StopClear(t) ==
    /\ handler[t] = "clear" /\ mpc # "crashed"
    /\ running' = FALSE
    /\ handler' = [handler EXCEPT ![t] = "write"]
    /\ UNCHANGED <<vars, mpc, events, pipe, db, signals>>

\* Mutant of StopWrite: nothing wakes epoll_wait.
StopWriteNothing(t) ==
    /\ handler[t] = "write" /\ mpc # "crashed"
    /\ Returns(t)
    /\ UNCHANGED <<vars, events, running, pipe, db, signals>>

StopWrite(t) ==
    /\ handler[t] = "write" /\ mpc # "crashed"
    /\ pipe' = IF HasPipe THEN pipe + 1 ELSE pipe
    /\ Returns(t)
    /\ UNCHANGED <<vars, events, running, db, signals>>

-----------------------------------------------------------------------------

\* What the main thread does unless its surroundings keep it from it.
MainStep ==
    \/ Arm \/ RunBegins \/ LoopTest \/ EpollReturns({"pipe"})
    \/ PipeEvent \/ MainNotifies \/ OtherDone \/ BatchDone
    \/ DestroyRouter \/ StopAgain \/ DestroyServer
    \/ PoolStops \/ PoolWakes \/ PoolJoined \/ CloseDb

Surroundings ==
    \/ StartFails \/ ListenFails \/ EpollFails \/ LoopThrows \/ MainEnqueues
    \/ EpollReturns({"other"}) \/ EpollReturns({"pipe", "other"})

Handler(t) == StopTest(t) \/ StopClear(t) \/ StopWrite(t)

LifeNext ==
    \/ MainStep
    \/ Surroundings
    \/ \E w \in Worker : WorkerRuns(w) \/ Crash(w)
    \/ \E t \in Thread : Deliver(t) \/ Handler(t)

LifeSpec == LifeInit /\ [][LifeNext]_lifeVars

\* Threads that can run do, and signal handlers return.
FairLifeSpec ==
    /\ LifeSpec
    /\ WF_lifeVars(MainStep)
    /\ \A w \in Worker : WF_lifeVars(WorkerRuns(w) /\ WorkerStep(w))
    /\ \A t \in Thread : WF_lifeVars(Handler(t))

-----------------------------------------------------------------------------
(* Properties.                                                             *)

LifeTypeOK ==
    /\ TypeOK
    /\ mpc \in MainPC
    /\ events \subseteq {"pipe", "other"}
    /\ running \in BOOLEAN
    /\ pipe \in 0..(MaxSignals + 1)
    /\ db \in BOOLEAN
    /\ handler \in [Thread -> {"no", "test", "clear", "write"}]
    /\ signals \in 0..MaxSignals

\* Tasks that are left when the server stops run while its destructors do; they
\* find the database open to the last one (the order of declarations in main,
\* and pool_ joined before).
HandlersHaveDatabase == \A w \in Worker : wpc[w] = "run" => db

\* Every task that was accepted is run, unless one before it ran after
\* ~MessageRouter and brought the process down.
AcceptedRuns == \A k \in 1..MaxTasks : pushed >= k ~> k \in done \/ mpc = "crashed"

\* A signal that finds running_ set ends the process: whatever the loop was
\* about to do, it neither sleeps over it nor hangs in a destructor.
SignalHeeded ==
    \A t \in Thread : handler[t] = "clear" ~> mpc \in {"gone", "crashed"}
=============================================================================
