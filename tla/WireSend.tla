------------------------------ MODULE WireSend ------------------------------
(***************************************************************************)
(* Writing to connections: Protocol::send_msg and write_all, the functions  *)
(* of EpollServer that write under the send_mutex_ of a session (broadcast,  *)
(* send_to_fd), the answers of MessageRouter that write without it           *)
(* (send_ok, send_error), some of them while login_mutex_ is held, and       *)
(* remove_client.                                                            *)
(*                                                                          *)
(* A handler is any sequence of these calls.  Of the bytes of a frame only   *)
(* how many of them are on the wire matters, and whose frame they belong to. *)
(***************************************************************************)
EXTENDS Naturals, FiniteSets

CONSTANTS
    Worker,      \* threads of the pool
    Main,        \* the thread in EpollServer::run
    NoThread,    \* a mutex that nobody holds
    Conn,        \* the ClientSessions
    NoConn,      \* a thread that writes to none
    HeadLen,     \* the length prefix, one call of write_all
    BodyLen,     \* the JSON text, a second call
    SndBuf,      \* what a socket takes before send() says EAGAIN
    MaxCalls     \* bound: calls made in a behaviour

Thread == Worker \cup {Main}
FrameLen == HeadLen + BodyLen

ASSUME WireAssumption ==
    /\ Main \notin Worker /\ NoThread \notin Thread /\ NoConn \notin Conn
    /\ HeadLen \in Nat \ {0} /\ BodyLen \in Nat \ {0} /\ SndBuf \in Nat \ {0}
    /\ MaxCalls \in Nat

VARIABLES
    pc,          \* pc[t]: where t is in its call
    call,        \* call[t]: which call
    conn,        \* conn[t]: the connection it writes to
    todo,        \* todo[t]: targets that a broadcast has still to send to
    victim,      \* the session remove_client takes away
    left,        \* broadcasts of the disconnect handler still to come
    live,        \* sessions_
    open,        \* open[c]: the sending side works: no shutdown, no reset
    unread,      \* unread[c]: bytes in the socket's buffer
    part,        \* part[c][t]: bytes on the wire of a frame of t that is not
                 \* whole, written under send_mutex_
    bare,        \* bare[c][t]: the same of a frame written without it
    sendLock,    \* sendLock[c]: who holds the session's send_mutex_
    loginLock,   \* who holds login_mutex_
    sessionsLock, \* who holds sessions_mutex_
    calls        \* calls made so far

control == <<pc, call, conn, todo, victim, left>>
wires == <<open, unread, part, bare>>
locks == <<sendLock, loginLock, sessionsLock>>
vars == <<control, live, wires, locks, calls>>

PC == {"idle", "login", "sessions", "copy", "next", "send", "write", "unlock"}

\* Frames of these calls are written under send_mutex_.
LockedCall == {"broadcast", "sendto", "remove"}
Call == LockedCall \cup {"none", "answer", "reserve"}

TypeOK ==
    /\ pc \in [Thread -> PC]
    /\ call \in [Thread -> Call]
    /\ conn \in [Thread -> Conn \cup {NoConn}]
    /\ todo \in [Thread -> SUBSET Conn]
    /\ victim \in Conn \cup {NoConn}
    /\ left \in 0..2
    /\ live \subseteq Conn
    /\ open \in [Conn -> BOOLEAN]
    /\ unread \in [Conn -> 0..SndBuf]
    /\ part \in [Conn -> [Thread -> 0..(FrameLen - 1)]]
    /\ bare \in [Conn -> [Thread -> 0..(FrameLen - 1)]]
    /\ sendLock \in [Conn -> Thread \cup {NoThread}]
    /\ loginLock \in Thread \cup {NoThread}
    /\ sessionsLock \in Thread \cup {NoThread}
    /\ calls \in 0..MaxCalls

\* The server at a moment at which nobody writes.
Init ==
    /\ pc = [t \in Thread |-> "idle"]
    /\ call = [t \in Thread |-> "none"]
    /\ conn = [t \in Thread |-> NoConn]
    /\ todo = [t \in Thread |-> {}]
    /\ victim = NoConn
    /\ left = 0
    /\ live = Conn
    /\ open = [c \in Conn |-> TRUE]
    /\ unread \in [Conn -> 0..SndBuf]
    /\ part = [c \in Conn |-> [t \in Thread |-> 0]]
    /\ bare = [c \in Conn |-> [t \in Thread |-> 0]]
    /\ sendLock = [c \in Conn |-> NoThread]
    /\ loginLock = NoThread
    /\ sessionsLock = NoThread
    /\ calls = 0

Goto(t, l) == pc' = [pc EXCEPT ![t] = l]

-----------------------------------------------------------------------------
(* A thread makes a call.                                                  *)

Begin(t, what, c, l) ==
    /\ pc[t] = "idle"
    /\ calls < MaxCalls
    /\ calls' = calls + 1
    /\ call' = [call EXCEPT ![t] = what]
    /\ conn' = [conn EXCEPT ![t] = c]
    /\ Goto(t, l)
    /\ UNCHANGED <<todo, left, live, wires, locks>>

\* broadcast, by a handler, or by the main thread for its PING.
BeginBroadcast(t) ==
    Begin(t, "broadcast", NoConn, "sessions") /\ UNCHANGED victim

\* send_to_fd.
BeginSendTo(w, c) == Begin(w, "sendto", c, "sessions") /\ UNCHANGED victim

\* send_ok and send_error, to the session whose frame is handled.
BeginAnswer(w, c) == Begin(w, "answer", c, "write") /\ UNCHANGED victim

\* The blocks under login_mutex_ of handle_login and handle_register.
BeginReserve(w, c) == Begin(w, "reserve", c, "login") /\ UNCHANGED victim

\* remove_client.
BeginRemove(c) ==
    /\ c \in live
    /\ Begin(Main, "remove", NoConn, "sessions")
    /\ victim' = c

-----------------------------------------------------------------------------
(* The mutexes, and what is done under them.                               *)

\* handle_login refuses a name in progress or goes on to find_session,
\* handle_register refuses or reserves it, and both take the mutex again to give
\* it back; the disconnect handler gives back a pending reservation.
LockLogin(t) ==
    /\ pc[t] = "login"
    /\ loginLock = NoThread
    /\ loginLock' = t
    /\ \E l \in IF call[t] = "remove" THEN {"unlock"}
                ELSE {"write", "sessions", "unlock"} : Goto(t, l)
    /\ UNCHANGED <<call, conn, todo, victim, left, live, wires, sendLock,
                   sessionsLock, calls>>

UnlockLogin(t) ==
    /\ pc[t] = "unlock"
    /\ loginLock = t
    /\ loginLock' = NoThread
    /\ Goto(t, IF call[t] = "remove" THEN "next" ELSE "idle")
    /\ UNCHANGED <<call, conn, todo, victim, left, live, wires, sendLock,
                   sessionsLock, calls>>

LockSessions(t) ==
    /\ pc[t] = "sessions"
    /\ sessionsLock = NoThread
    /\ sessionsLock' = t
    /\ Goto(t, "copy")
    /\ UNCHANGED <<call, conn, todo, victim, left, live, wires, sendLock,
                   loginLock, calls>>

\* find_session: a name that is found is refused, under login_mutex_.
FindSession(t) ==
    /\ call[t] = "reserve"
    /\ \E l \in {"write", "unlock"} : Goto(t, l)
    /\ UNCHANGED <<todo, left, live>>

\* send_to_fd looks the session up.
LookUp(t) ==
    /\ call[t] = "sendto"
    /\ Goto(t, IF conn[t] \in live THEN "send" ELSE "idle")
    /\ UNCHANGED <<todo, left, live>>

\* broadcast copies the sessions that are logged in.
CopyTargets(t) ==
    /\ call[t] = "broadcast" \/ (call[t] = "remove" /\ victim \notin live)
    /\ \E targets \in SUBSET live : todo' = [todo EXCEPT ![t] = targets]
    /\ Goto(t, "next")
    /\ UNCHANGED <<left, live>>

\* remove_client erases the session.  It may have a pending login; if it was
\* logged in, handle_logout broadcasts the user list and a NOTIFY.
Erase(t) ==
    /\ call[t] = "remove" /\ victim \in live
    /\ live' = live \ {victim}
    /\ left' \in {0, 2}
    /\ \E l \in {"login", "next"} : Goto(t, l)
    /\ UNCHANGED todo

\* Mutant of UnlockSessions: remove_client keeps sessions_mutex_ while the
\* disconnect handler runs.
UnlockSessionsLate(t) ==
    /\ pc[t] = "copy"
    /\ \/ sessionsLock' = NoThread /\ (FindSession(t) \/ LookUp(t) \/ CopyTargets(t))
       \/ Erase(t) /\ UNCHANGED sessionsLock
    /\ UNCHANGED <<call, conn, victim, wires, sendLock, loginLock, calls>>

\* The block under sessions_mutex_ and its end.
UnlockSessions(t) ==
    /\ pc[t] = "copy"
    /\ sessionsLock' = NoThread
    /\ FindSession(t) \/ LookUp(t) \/ CopyTargets(t) \/ Erase(t)
    /\ UNCHANGED <<call, conn, victim, wires, sendLock, loginLock, calls>>

\* Mutant of LockSend: the frame is written without send_mutex_.
LockSendForgotten(t) ==
    /\ pc[t] = "send"
    /\ sendLock' = [sendLock EXCEPT ![conn[t]] = t]
    /\ Goto(t, "write")
    /\ UNCHANGED <<call, conn, todo, victim, left, live, wires, loginLock,
                   sessionsLock, calls>>

LockSend(t) ==
    /\ pc[t] = "send"
    /\ sendLock[conn[t]] = NoThread
    /\ sendLock' = [sendLock EXCEPT ![conn[t]] = t]
    /\ Goto(t, "write")
    /\ UNCHANGED <<call, conn, todo, victim, left, live, wires, loginLock,
                   sessionsLock, calls>>

UnlockSend(t) ==
    /\ pc[t] = "unlock"
    /\ call[t] \in LockedCall
    /\ loginLock # t
    /\ sendLock' = [sendLock EXCEPT ![conn[t]] = NoThread]
    /\ Goto(t, IF call[t] = "sendto" THEN "idle" ELSE "next")
    /\ UNCHANGED <<call, conn, todo, victim, left, live, wires, loginLock,
                   sessionsLock, calls>>

-----------------------------------------------------------------------------
(* The loop over the targets of a broadcast.                               *)

NextTarget(t, c) ==
    /\ pc[t] = "next"
    /\ c \in todo[t]
    /\ conn' = [conn EXCEPT ![t] = c]
    /\ todo' = [todo EXCEPT ![t] = @ \ {c}]
    /\ Goto(t, "send")
    /\ UNCHANGED <<call, victim, left, live, wires, locks, calls>>

BroadcastDone(t) ==
    /\ pc[t] = "next" /\ call[t] = "broadcast"
    /\ todo[t] = {}
    /\ Goto(t, "idle")
    /\ UNCHANGED <<call, conn, todo, victim, left, live, wires, locks, calls>>

\* handle_logout for the session that was erased.
NextFarewell(t) ==
    /\ pc[t] = "next" /\ call[t] = "remove"
    /\ todo[t] = {}
    /\ left > 0
    /\ left' = left - 1
    /\ Goto(t, "sessions")
    /\ UNCHANGED <<call, conn, todo, victim, live, wires, locks, calls>>

\* shutdown at the end of remove_client, whoever is writing.
Shutdown(t) ==
    /\ pc[t] = "next" /\ call[t] = "remove"
    /\ todo[t] = {}
    /\ left = 0
    /\ open' = [open EXCEPT ![victim] = FALSE]
    /\ victim' = NoConn
    /\ Goto(t, "idle")
    /\ UNCHANGED <<call, conn, todo, left, live, unread, part, bare, locks, calls>>

-----------------------------------------------------------------------------
(* send_msg.                                                               *)

Locked(t) == call[t] \in LockedCall

\* How much of its frame t has on the wire.
Progress(t) == IF Locked(t) THEN part[conn[t]][t] ELSE bare[conn[t]][t]

\* The end of the call of write_all that t is in.
Goal(t) == IF Progress(t) < HeadLen THEN HeadLen ELSE FrameLen

AfterWrite(t) == Goto(t, IF call[t] = "answer" THEN "idle" ELSE "unlock")

\* Mutant of Put: the count of bytes is not reset after a whole frame.
PutKeeps(f, t, n) == [f EXCEPT ![conn[t]][t] = n]

Put(f, t, n) == [f EXCEPT ![conn[t]][t] = IF n = FrameLen THEN 0 ELSE n]

\* One send(): the socket takes some of the bytes.
Write(t, n) ==
    LET c == conn[t]
        k == n - Progress(t)
    IN  /\ pc[t] = "write"
        /\ open[c]
        /\ k > 0 /\ n <= Goal(t)
        /\ unread[c] + k <= SndBuf
        /\ unread' = [unread EXCEPT ![c] = @ + k]
        /\ IF Locked(t) THEN part' = Put(part, t, n) /\ UNCHANGED bare
                        ELSE bare' = Put(bare, t, n) /\ UNCHANGED part
        /\ IF n = FrameLen THEN AfterWrite(t) ELSE UNCHANGED pc
        /\ UNCHANGED <<call, conn, todo, victim, left, live, open, locks, calls>>

\* Mutant of GiveUp: write_all only returns; the next frame follows the torn one.
GiveUpOpen(t) ==
    /\ pc[t] = "write"
    /\ open[conn[t]]
    /\ unread[conn[t]] = SndBuf
    /\ AfterWrite(t)
    /\ UNCHANGED <<call, conn, todo, victim, left, live, wires, locks, calls>>

\* EAGAIN until five seconds have passed: the sending side is shut down.
GiveUp(t) ==
    /\ pc[t] = "write"
    /\ open[conn[t]]
    /\ unread[conn[t]] = SndBuf
    /\ open' = [open EXCEPT ![conn[t]] = FALSE]
    /\ AfterWrite(t)
    /\ UNCHANGED <<call, conn, todo, victim, left, live, unread, part, bare,
                   locks, calls>>

\* Mutant of SendFails: an error is retried like EAGAIN.
SendFailsRetried(t) ==
    /\ pc[t] = "write"
    /\ ~open[conn[t]]
    /\ UNCHANGED vars

\* Another error: EPIPE after a shutdown, ECONNRESET.
SendFails(t) ==
    /\ pc[t] = "write"
    /\ ~open[conn[t]]
    /\ AfterWrite(t)
    /\ UNCHANGED <<call, conn, todo, victim, left, live, wires, locks, calls>>

\* send_msg refuses what cannot be serialized or is too long.
SendRefused(t) ==
    /\ pc[t] = "write"
    /\ Progress(t) = 0
    /\ AfterWrite(t)
    /\ UNCHANGED <<call, conn, todo, victim, left, live, wires, locks, calls>>

-----------------------------------------------------------------------------
(* The clients, who promise nothing.                                       *)

Read(c) ==
    /\ unread[c] > 0
    /\ unread' = [unread EXCEPT ![c] = @ - 1]
    /\ UNCHANGED <<control, live, open, part, bare, locks, calls>>

Reset(c) ==
    /\ open[c]
    /\ open' = [open EXCEPT ![c] = FALSE]
    /\ UNCHANGED <<control, live, unread, part, bare, locks, calls>>

-----------------------------------------------------------------------------

\* What a thread does once it has begun a call.
Step(t) ==
    \/ LockLogin(t) \/ UnlockLogin(t)
    \/ LockSessions(t) \/ UnlockSessions(t)
    \/ LockSend(t) \/ UnlockSend(t)
    \/ \E c \in Conn : NextTarget(t, c)
    \/ BroadcastDone(t) \/ NextFarewell(t) \/ Shutdown(t)
    \/ \E n \in 1..FrameLen : Write(t, n)
    \/ GiveUp(t) \/ SendFails(t) \/ SendRefused(t)

Next ==
    \/ \E t \in Thread : BeginBroadcast(t) \/ Step(t)
    \/ \E w \in Worker, c \in Conn :
           BeginSendTo(w, c) \/ BeginAnswer(w, c) \/ BeginReserve(w, c)
    \/ \E c \in Conn : BeginRemove(c) \/ Read(c) \/ Reset(c)

Spec == Init /\ [][Next]_vars

\* The system runs every thread that can run, and time passes (GiveUp).
FairSpec == Spec /\ \A t \in Thread : WF_vars(Step(t))

-----------------------------------------------------------------------------
(* Properties.                                                             *)

\* For the threads that write under send_mutex_ each connection is a line that
\* carries one frame after the other, whole but for the last, whoever writes
\* without the mutex in between, gives up or takes the connection away
\* (broadcast, send_to_fd, write_all, remove_client).
Channel == INSTANCE FrameChannel WITH writer <- sendLock

ImplementsFrameChannel == Channel!Spec

\* Every call ends, also when no client ever reads: the main thread is not held
\* up for good by its PING, nor by a worker that writes an ERROR while it holds
\* login_mutex_, for which the disconnect handler waits (write_all,
\* handle_login, cleanup_login_reservation).
CallsEnd == \A t \in Thread : pc[t] # "idle" ~> pc[t] = "idle"

\* t waits for a mutex that somebody holds.
Blocked(t) ==
    \/ pc[t] = "login" /\ loginLock # NoThread
    \/ pc[t] = "sessions" /\ sessionsLock # NoThread
    \/ pc[t] = "send" /\ sendLock[conn[t]] # NoThread

\* Of the threads that are in a call one at least waits for no mutex, although
\* login_mutex_ is held while sessions_mutex_ is taken (handle_login) and while
\* frames are written.
NoDeadlock ==
    (\E t \in Thread : pc[t] # "idle") =>
        \E t \in Thread : pc[t] # "idle" /\ ~Blocked(t)

(* The inductive invariant behind them.                                    *)

\* Which calls come to which labels, and that a writer has its connection.
CallInv ==
    \A t \in Thread :
        /\ pc[t] = "login" => call[t] \in {"reserve", "remove"}
        /\ pc[t] \in {"sessions", "copy"} => call[t] \notin {"none", "answer"}
        /\ pc[t] = "next" => call[t] \in {"broadcast", "remove"}
        /\ pc[t] = "send" => Locked(t)
        /\ pc[t] \in {"write", "unlock"} => call[t] # "none"
        /\ pc[t] = "unlock" => call[t] # "answer"
        /\ pc[t] \in {"send", "write"} => conn[t] \in Conn
        /\ call[t] \in {"sendto", "reserve"} => conn[t] \in Conn

\* t holds the send_mutex_ of the connection it writes to.
HasLine(t) ==
    /\ Locked(t)
    /\ pc[t] = "write" \/ (pc[t] = "unlock" /\ loginLock # t)

\* Who holds what.
LockInv ==
    /\ \A t \in Thread : sessionsLock = t <=> pc[t] = "copy"
    /\ \A t \in Thread : loginLock = t =>
           \/ call[t] = "reserve"
              /\ pc[t] \in {"sessions", "copy", "write", "unlock"}
           \/ call[t] = "remove" /\ pc[t] = "unlock"
    /\ \A t \in Thread :
           call[t] = "reserve" /\ pc[t] \in {"sessions", "copy", "write", "unlock"}
               => loginLock = t
    /\ \A t \in Thread : HasLine(t) => conn[t] \in Conn
    /\ \A t \in Thread, c \in Conn :
           sendLock[c] = t <=> HasLine(t) /\ conn[t] = c

\* A torn frame is being written, or nothing follows it.
TornInv ==
    \A c \in Conn, t \in Thread :
        part[c][t] > 0 => ~open[c] \/ (sendLock[c] = t /\ pc[t] = "write")

WireInv == TypeOK /\ CallInv /\ LockInv /\ TornInv

Begun(f, c) == {t \in Thread : f[c][t] > 0}

\* client_session.h:29 says that send_mutex_ serializes the writes and prevents
\* that frames are interleaved.  send_ok and send_error do not take it.
FramesWhole ==
    \A c \in Conn : Cardinality(Begun(part, c)) + Cardinality(Begun(bare, c)) <= 1
=============================================================================
