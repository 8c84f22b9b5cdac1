----------------------------- MODULE Descriptors -----------------------------
(***************************************************************************)
(* Connections of EpollServer and their descriptors: sessions_ maps numbers  *)
(* to ClientSessions, a number is free again for the next accept4 once       *)
(* ~ClientSession has closed it, and that runs when the last shared_ptr goes: *)
(* in sessions_, in a task of the pool, in a handler that copied it.  Tasks   *)
(* carry the generation their session had when they were dispatched.         *)
(***************************************************************************)
EXTENDS Naturals, Sequences

CONSTANTS
    Worker,      \* threads of the pool
    Main,        \* the thread in EpollServer::run
    Fd,          \* descriptor numbers for connections
    NoFd,        \* of a session not yet made
    Session,     \* the ClientSessions of a behaviour: bounds the connections
    NoSession,   \* what a free number, or one not in sessions_, stands for
    Listen,      \* the event of listen_fd_
    MaxTasks     \* bound: messages dispatched in a behaviour

Thread == Worker \cup {Main}

ASSUME DescriptorAssumption ==
    /\ Main \notin Worker /\ NoFd \notin Fd /\ NoSession \notin Session
    /\ MaxTasks \in Nat

VARIABLES
    file,        \* file[f]: whose socket the kernel has under number f
    watched,     \* the numbers in the interest list of epoll_fd_
    sfd,         \* sfd[s]: s->fd
    gen,         \* gen[s]: s->generation
    gone,        \* the sessions that were destroyed
    sessions,    \* sessions_
    nextGen,     \* next_generation_
    held,        \* held[t]: sessions of which t has a shared_ptr
    mpc,         \* where the main thread is
    batch,       \* events[] still to be looked at
    reading,     \* the number handle_client_event was called with
    tasks,       \* tasks_: what the lambdas captured
    wpc,         \* wpc[w]: "idle", "check" (the generation) or "handler"
    wtask,       \* wtask[w]: the lambda w runs
    dispatched   \* messages dispatched so far

kernel == <<file, watched, gone>>
server == <<sessions, nextGen, sfd, gen>>
main == <<mpc, batch, reading>>
pool == <<tasks, wpc, wtask, dispatched>>
vars == <<kernel, server, held, main, pool>>

Task == [sess : Session, gen : Nat]
NoTask == [sess |-> NoSession, gen |-> 0]
Event == {[fd |-> f, sess |-> s] : f \in Fd, s \in Session}

\* The server before its first connection.
Init ==
    /\ file = [f \in Fd |-> NoSession]
    /\ watched = {}
    /\ gone = {}
    /\ sessions = [f \in Fd |-> NoSession]
    /\ nextGen = 1
    /\ sfd = [s \in Session |-> NoFd]
    /\ gen = [s \in Session |-> 0]
    /\ held = [t \in Thread |-> {}]
    /\ mpc = "wait"
    /\ batch = {}
    /\ reading = NoFd
    /\ tasks = <<>>
    /\ wpc = [w \in Worker |-> "idle"]
    /\ wtask = [w \in Worker |-> NoTask]
    /\ dispatched = 0

-----------------------------------------------------------------------------
(* shared_ptr<ClientSession>.                                              *)

Queued == {tasks[i].sess : i \in DOMAIN tasks}

\* Mutant of Mapped: look-ups by operator[] leave entries without a session.
MappedEmpty == {sessions[f] : f \in Fd}

Mapped == {sessions[f] : f \in Fd} \ {NoSession}
Referenced == (UNION {held[t] : t \in Thread}) \cup Queued \cup Mapped

\* The sessions that lose their last reference in this step: ~ClientSession
\* closes the number each has, whatever is open under it, and the kernel forgets
\* a closed file in every interest list.
Destroyed == {s \in Session : sfd[s] # NoFd /\ s \notin gone /\ s \notin Referenced'}

Destruct ==
    LET closed == {sfd[s] : s \in Destroyed}
    IN  /\ gone' = gone \cup Destroyed
        /\ file' = [f \in Fd |-> IF f \in closed THEN NoSession ELSE file[f]]
        /\ watched' = watched \ closed

Hold(t, S) == held' = [held EXCEPT ![t] = S]

-----------------------------------------------------------------------------
(* run and handle_new_connection.                                          *)

\* epoll_wait reports any of the sockets that are registered.
EpollWait ==
    /\ mpc = "wait"
    /\ \E ready \in SUBSET ({[fd |-> f, sess |-> file[f]] : f \in watched} \cup {Listen}) :
           /\ ready # {}
           /\ batch' = ready
    /\ mpc' = "batch"
    /\ UNCHANGED <<kernel, server, held, reading, pool>>

BatchDone ==
    /\ mpc = "batch"
    /\ batch = {}
    /\ mpc' = "wait"
    /\ UNCHANGED <<kernel, server, held, batch, reading, pool>>

\* accept4 and make_shared, once for every connection that waits.
Fresh(s) == s = CHOOSE r \in Session : sfd[r] = NoFd

Accept(s, f) ==
    /\ mpc = "batch" /\ Listen \in batch
    /\ sfd[s] = NoFd /\ Fresh(s)
    /\ file[f] = NoSession
    /\ file' = [file EXCEPT ![f] = s]
    /\ sfd' = [sfd EXCEPT ![s] = f]
    /\ gen' = [gen EXCEPT ![s] = nextGen]
    /\ nextGen' = nextGen + 1
    /\ Hold(Main, {s})
    /\ mpc' = "accepted"
    /\ UNCHANGED <<watched, gone, sessions, batch, reading, pool>>

\* Registered with epoll and put into sessions_.
Store(s) ==
    /\ mpc = "accepted" /\ s \in held[Main]
    /\ watched' = watched \cup {sfd[s]}
    /\ sessions' = [sessions EXCEPT ![sfd[s]] = s]
    /\ Hold(Main, {})
    /\ mpc' = "batch"
    /\ UNCHANGED <<file, gone, sfd, gen, nextGen, batch, reading, pool>>

\* epoll_ctl fails: close.
AddFails(s) ==
    /\ mpc = "accepted" /\ s \in held[Main]
    /\ file' = [file EXCEPT ![sfd[s]] = NoSession]
    /\ mpc' = "refused"
    /\ UNCHANGED <<watched, gone, server, held, batch, reading, pool>>

\* continue: the session is destroyed, and closes the number again.
Refused ==
    /\ mpc = "refused"
    /\ Hold(Main, {})
    /\ mpc' = "batch"
    /\ UNCHANGED <<server, batch, reading, pool>>
    /\ Destruct

\* EAGAIN.
AcceptDone ==
    /\ mpc = "batch" /\ Listen \in batch
    /\ batch' = batch \ {Listen}
    /\ UNCHANGED <<kernel, server, held, mpc, reading, pool>>

-----------------------------------------------------------------------------
(* handle_client_event and remove_client.                                  *)

ClientEvent(e) ==
    /\ mpc = "batch" /\ e \in batch \ {Listen}
    /\ batch' = batch \ {e}
    /\ IF sessions[e.fd] = NoSession
       THEN UNCHANGED <<mpc, held, reading>>
       ELSE /\ Hold(Main, {sessions[e.fd]})
            /\ reading' = e.fd
            /\ mpc' = "read"
    /\ UNCHANGED <<kernel, server, pool>>

\* A message of recv_msgs.
Dispatch(s) ==
    /\ mpc = "read" /\ s \in held[Main]
    /\ dispatched < MaxTasks
    /\ dispatched' = dispatched + 1
    /\ tasks' = Append(tasks, [sess |-> s, gen |-> gen[s]])
    /\ UNCHANGED <<kernel, server, held, main, wpc, wtask>>

\* Mutant of Remove: only the global counter is bumped.
RemoveKeepsGeneration(s) ==
    /\ mpc = "read" /\ s \in held[Main]
    /\ watched' = watched \ {reading}
    /\ sessions' = [sessions EXCEPT ![reading] = NoSession]
    /\ nextGen' = nextGen + 1
    /\ mpc' = "farewell"
    /\ UNCHANGED <<file, gone, sfd, gen, held, batch, reading, pool>>

\* Mutant of Remove: the descriptor is closed here.
RemoveCloses(s) ==
    /\ mpc = "read" /\ s \in held[Main]
    /\ watched' = watched \ {reading}
    /\ file' = [file EXCEPT ![reading] = NoSession]
    /\ sessions' = [sessions EXCEPT ![reading] = NoSession]
    /\ nextGen' = nextGen + 1
    /\ gen' = [gen EXCEPT ![s] = nextGen + 1]
    /\ mpc' = "farewell"
    /\ UNCHANGED <<gone, sfd, held, batch, reading, pool>>

\* Mutant of Remove: without EPOLL_CTL_DEL.
RemoveStaysWatched(s) ==
    /\ mpc = "read" /\ s \in held[Main]
    /\ sessions' = [sessions EXCEPT ![reading] = NoSession]
    /\ nextGen' = nextGen + 1
    /\ gen' = [gen EXCEPT ![s] = nextGen + 1]
    /\ mpc' = "farewell"
    /\ UNCHANGED <<kernel, sfd, held, batch, reading, pool>>

\* remove_client up to the disconnect handler.
Remove(s) ==
    /\ mpc = "read" /\ s \in held[Main]
    /\ watched' = watched \ {reading}
    /\ sessions' = [sessions EXCEPT ![reading] = NoSession]
    /\ nextGen' = nextGen + 1
    /\ gen' = [gen EXCEPT ![s] = nextGen + 1]
    /\ mpc' = "farewell"
    /\ UNCHANGED <<file, gone, sfd, held, batch, reading, pool>>

\* The end of handle_client_event, after the last message or the shutdown of the
\* number it was called with.
EventDone ==
    /\ mpc \in {"read", "farewell"}
    /\ Hold(Main, {})
    /\ mpc' = "batch"
    /\ reading' = NoFd
    /\ UNCHANGED <<server, batch, pool>>
    /\ Destruct

-----------------------------------------------------------------------------
(* broadcast, find_session and send_to_fd copy shared_ptrs under            *)
(* sessions_mutex_ and drop them after the last send.                       *)

\* The PING of the main thread.
Ping(S) ==
    /\ mpc = "batch"
    /\ Hold(Main, S)
    /\ mpc' = "ping"
    /\ UNCHANGED <<kernel, server, batch, reading, pool>>

PingDone ==
    /\ mpc = "ping"
    /\ Hold(Main, {})
    /\ mpc' = "batch"
    /\ UNCHANGED <<server, batch, reading, pool>>
    /\ Destruct

\* handle_logout, for the session that was removed.
FarewellCopies(S) ==
    /\ mpc = "farewell"
    /\ Hold(Main, S \cup {s \in held[Main] : sfd[s] = reading})
    /\ UNCHANGED <<server, main, pool>>
    /\ Destruct

\* A handler has a shared_ptr of its own session besides.
WorkerCopies(w, S) ==
    /\ wpc[w] = "handler"
    /\ Hold(w, S \cup {wtask[w].sess})
    /\ UNCHANGED <<server, main, pool>>
    /\ Destruct

-----------------------------------------------------------------------------
(* The lambdas of handle_client_event on the pool.                         *)

Take(w) ==
    /\ wpc[w] = "idle"
    /\ tasks # <<>>
    /\ wtask' = [wtask EXCEPT ![w] = Head(tasks)]
    /\ tasks' = Tail(tasks)
    /\ Hold(w, {Head(tasks).sess})
    /\ wpc' = [wpc EXCEPT ![w] = "check"]
    /\ UNCHANGED <<kernel, server, main, dispatched>>

\* Mutant of Return: the shared_ptr outlives the lambda.
ReturnLeaks(w) ==
    /\ wtask' = [wtask EXCEPT ![w] = NoTask]
    /\ wpc' = [wpc EXCEPT ![w] = "idle"]
    /\ UNCHANGED <<kernel, server, held, main, tasks, dispatched>>

\* The lambda ends and is destroyed, with its shared_ptr.
Return(w) ==
    /\ Hold(w, {})
    /\ wtask' = [wtask EXCEPT ![w] = NoTask]
    /\ wpc' = [wpc EXCEPT ![w] = "idle"]
    /\ UNCHANGED <<server, main, tasks, dispatched>>
    /\ Destruct

DropStale(w) ==
    /\ wpc[w] = "check"
    /\ gen[wtask[w].sess] # wtask[w].gen
    /\ Return(w)

Enter(w) ==
    /\ wpc[w] = "check"
    /\ gen[wtask[w].sess] = wtask[w].gen
    /\ wpc' = [wpc EXCEPT ![w] = "handler"]
    /\ UNCHANGED <<kernel, server, held, main, tasks, wtask, dispatched>>

HandlerDone(w) ==
    /\ wpc[w] = "handler"
    /\ Return(w)

-----------------------------------------------------------------------------
(* ~EpollServer: sessions_.clear().                                        *)

Clear ==
    /\ mpc \in {"wait", "batch"}
    /\ mpc' = "cleared"
    /\ sessions' = [f \in Fd |-> NoSession]
    /\ UNCHANGED <<nextGen, sfd, gen, held, batch, reading, pool>>
    /\ Destruct

-----------------------------------------------------------------------------

MainStep ==
    \/ BatchDone \/ AcceptDone \/ Refused \/ EventDone \/ PingDone
    \/ \E s \in Session : Store(s) \/ AddFails(s)
    \/ \E e \in Event : ClientEvent(e)

WorkerStep(w) == Take(w) \/ DropStale(w) \/ Enter(w) \/ HandlerDone(w)

Next ==
    \/ MainStep
    \/ EpollWait
    \/ \E s \in Session, f \in Fd : Accept(s, f)
    \/ \E s \in Session : Dispatch(s) \/ Remove(s)
    \/ \E S \in SUBSET Mapped : Ping(S) \/ FarewellCopies(S)
    \/ \E w \in Worker :
           WorkerStep(w) \/ \E S \in SUBSET Mapped : WorkerCopies(w, S)
    \/ Clear

Spec == Init /\ [][Next]_vars

\* Threads that can run do: calls, batches and handlers end.
FairSpec == Spec /\ WF_vars(MainStep) /\ \A w \in Worker : WF_vars(WorkerStep(w))

-----------------------------------------------------------------------------
(* Properties.                                                             *)

TypeOK ==
    /\ file \in [Fd -> Session \cup {NoSession}]
    /\ watched \subseteq Fd
    /\ gone \subseteq Session
    /\ sessions \in [Fd -> Session \cup {NoSession}]
    /\ nextGen \in Nat
    /\ sfd \in [Session -> Fd \cup {NoFd}]
    /\ gen \in [Session -> Nat]
    /\ held \in [Thread -> SUBSET Session]
    /\ mpc \in {"wait", "batch", "accepted", "refused", "read", "farewell",
                "ping", "cleared"}
    /\ batch \subseteq Event \cup {Listen}
    /\ reading \in Fd \cup {NoFd}
    /\ tasks \in Seq(Task)
    /\ wpc \in [Worker -> {"idle", "check", "handler"}]
    /\ wtask \in [Worker -> Task \cup {NoTask}]
    /\ dispatched \in 0..MaxTasks

\* The session that epoll_ctl refused: its number is closed before it is.
Refusing == IF mpc = "refused" THEN held[Main] ELSE {}

\* Whoever has a shared_ptr of a session has its socket under s->fd, whatever
\* main and the workers removed, closed and accepted meanwhile: no frame, no
\* shutdown and no close goes to another connection, not even when a number is
\* closed twice (remove_client, ~ClientSession, handle_new_connection).
HeldStaysOpen == \A s \in Referenced \ Refusing : sfd[s] \in Fd /\ file[sfd[s]] = s

\* send_to_fd gets the number of a session that its caller has: what it finds
\* under it in sessions_ is that session or nothing.
LookupRight ==
    \A t \in Thread : \A s \in held[t] : sessions[sfd[s]] \in {s, NoSession}

\* Of an event that epoll_wait reported, handle_client_event finds the session
\* that the event is about, though accept4 and remove_client run before it in
\* the same batch.
EventFresh == \A e \in batch \ {Listen} : mpc # "cleared" => sessions[e.fd] = e.sess

\* The lambdas that have not passed the check.
Pending == {tasks[i] : i \in DOMAIN tasks}
               \cup {wtask[w] : w \in {v \in Worker : wpc[v] = "check"}}

\* The check of the generation drops a task exactly if its connection was
\* removed, whether or not the number was accepted again.
GenerationExact ==
    mpc # "cleared" =>
        \A k \in Pending : k.gen = gen[k.sess] <=> k.sess \in Mapped

\* The number of a connection that was removed or refused is closed in the end.
DescriptorReturned ==
    \A s \in Session :
        sfd[s] # NoFd /\ s \notin Mapped ~> s \in gone \/ s \in Mapped
=============================================================================
