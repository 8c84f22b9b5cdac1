----------------------------- MODULE SessionAuth -----------------------------
(***************************************************************************)
(* Authentication and presence of the chat server: the REGISTER, LOGIN and *)
(* LOGOUT handlers of MessageRouter, run by the worker threads of the pool, *)
(* against the main epoll thread, which accepts connections, dispatches     *)
(* frames and tears connections down (EpollServer::remove_client and the    *)
(* disconnect handler main.cpp installs).                                   *)
(*                                                                          *)
(* One action is one critical section of the code: the step between two     *)
(* lock acquisitions of a thread, together with the thread-local work       *)
(* around it.  Passwords, hashes and reply texts are abstracted: whether a  *)
(* password verifies is a choice, and a reply only matters in that a client *)
(* that waits for it may then send its next frame.                          *)
(***************************************************************************)
EXTENDS Naturals, Sequences, FiniteSets

CONSTANTS
    Session,      \* one ClientSession object per accepted connection
    User,         \* user names
    NoUser,       \* the empty string: nobody logged in, nothing pending
    NoSession,    \* the session of a thread that runs no handler
    Worker,       \* threads of the pool
    Main,         \* the thread in EpollServer::run
    Request,      \* the frames clients may send, a subset of Frame
    MaxFrames,    \* bound: frames one connection sends in a behaviour
    Pipelined,    \* TRUE: a client may send a frame before the last answer
    RandCanFail   \* TRUE: RAND_bytes may fail, generate_salt throws

Thread == Worker \cup {Main}

NameOrNone == User \cup {NoUser}

Frame == [type : {"REGISTER", "LOGIN", "LOGOUT"}, user : NameOrNone]

ASSUME ConstantsAssumption ==
    /\ NoUser \notin User
    /\ NoSession \notin Session
    /\ Main \notin Worker
    /\ Request \subseteq Frame
    /\ MaxFrames \in Nat
    /\ Pipelined \in BOOLEAN
    /\ RandCanFail \in BOOLEAN

VARIABLES
    conn,         \* conn[s]: "new", "live" (in sessions_), "removed"
    username,     \* username[s]: ClientSession::username_
    pending,      \* pending[s]: ClientSession::pending_login_
    inProgress,   \* MessageRouter::login_in_progress_
    online,       \* MessageRouter::online_users_
    accounts,     \* names with a row in the users table
    tasks,        \* the pool's queue: frames dispatched, not yet taken
    pc,           \* pc[t]: where thread t is in its handler
    sess,         \* sess[t]: the session of that handler
    kind,         \* kind[t]: the type of the frame it handles
    who,          \* who[t]: its local username
    sent,         \* sent[s]: frames dispatched for s so far
    awaiting,     \* awaiting[s]: what the client on s waits for
    raced         \* history: names whose login a disconnect overlapped

vars == <<conn, username, pending, inProgress, online, accounts, tasks, pc,
          sess, kind, who, sent, awaiting, raced>>

threadVars == <<pc, sess, kind, who>>
clientVars == <<sent, awaiting>>

FlowPC == {"pending", "verify", "fail", "failclear", "enter", "online",
           "clear", "release"}
LogoutPC == {"logout", "name", "offline", "clearname"}
PC == {"idle", "route", "reserve", "cleanup", "cleanup_release",
       "cleanup_clear"} \cup FlowPC \cup LogoutPC

Task == [s : Session, frame : Request]

TypeOK ==
    /\ conn \in [Session -> {"new", "live", "removed"}]
    /\ username \in [Session -> NameOrNone]
    /\ pending \in [Session -> NameOrNone]
    /\ inProgress \subseteq User
    /\ online \subseteq User
    /\ accounts \subseteq User
    /\ tasks \in Seq(Task)
    /\ pc \in [Thread -> PC]
    /\ sess \in [Thread -> Session \cup {NoSession}]
    /\ kind \in [Thread -> {"REGISTER", "LOGIN", "LOGOUT"}]
    /\ who \in [Thread -> NameOrNone]
    /\ sent \in [Session -> Nat]
    /\ awaiting \in [Session -> {"nothing", "reply", "close"}]
    /\ raced \subseteq User

Init ==
    /\ conn = [s \in Session |-> "new"]
    /\ username = [s \in Session |-> NoUser]
    /\ pending = [s \in Session |-> NoUser]
    /\ inProgress = {}
    /\ online = {}
    /\ accounts \in SUBSET User
    /\ tasks = <<>>
    /\ pc = [t \in Thread |-> "idle"]
    /\ sess = [t \in Thread |-> NoSession]
    /\ kind = [t \in Thread |-> "LOGOUT"]
    /\ who = [t \in Thread |-> NoUser]
    /\ sent = [s \in Session |-> 0]
    /\ awaiting = [s \in Session |-> "nothing"]
    /\ raced = {}

\* The handler of thread t goes on at label l.
Goto(t, l) ==
    /\ pc' = [pc EXCEPT ![t] = l]
    /\ UNCHANGED <<sess, kind, who>>

\* The handler of thread t returns; its locals are gone.
Return(t) ==
    /\ pc' = [pc EXCEPT ![t] = "idle"]
    /\ sess' = [sess EXCEPT ![t] = NoSession]
    /\ kind' = [kind EXCEPT ![t] = "LOGOUT"]
    /\ who' = [who EXCEPT ![t] = NoUser]

\* A reply reaches the client of session s.
Reply(s) == awaiting' = [awaiting EXCEPT ![s] = "nothing"]

\* The workers whose handler runs on session s.
BusyOn(s) == {w \in Worker : pc[w] # "idle" /\ sess[w] = s}

\* find_session(u): the sessions in sessions_ that carry the name u.
LiveSessionsOf(u) == {s \in Session : conn[s] = "live" /\ username[s] = u}

\* w handles a frame for name u and has taken the reservation of u, and has
\* not given it back.
Holds(w, u) == who[w] = u /\ pc[w] \in FlowPC \ {"failclear"}

-----------------------------------------------------------------------------
(* The main thread: handle_new_connection, handle_client_event.            *)

Accept(s) ==
    /\ pc[Main] = "idle"
    /\ conn[s] = "new"
    /\ conn' = [conn EXCEPT ![s] = "live"]
    /\ UNCHANGED <<username, pending, inProgress, online, accounts, tasks,
                   threadVars, clientVars, raced>>

\* One complete frame of s is read and handed to the pool.  A client that
\* waits sends nothing while a reply is due, nor after its LOGOUT.
Dispatch(s, f) ==
    /\ pc[Main] = "idle"
    /\ conn[s] = "live"
    /\ sent[s] < MaxFrames
    /\ Pipelined \/ awaiting[s] = "nothing"
    /\ tasks' = Append(tasks, [s |-> s, frame |-> f])
    /\ sent' = [sent EXCEPT ![s] = @ + 1]
    /\ awaiting' = [awaiting EXCEPT ![s] =
                       IF f.type = "LOGOUT" THEN "close" ELSE "reply"]
    /\ UNCHANGED <<conn, username, pending, inProgress, online, accounts,
                   threadVars, raced>>

\* remove_client, first half: the session leaves sessions_ and its
\* generation changes.  The client may vanish at any time.
\* raced records the names this disconnect overlaps: those that a handler
\* running on s works on, and the one whose login s has pending.
Remove(s) ==
    /\ pc[Main] = "idle"
    /\ conn[s] = "live"
    /\ conn' = [conn EXCEPT ![s] = "removed"]
    /\ sess' = [sess EXCEPT ![Main] = s]
    /\ pc' = [pc EXCEPT ![Main] = "cleanup"]
    /\ raced' = (raced \cup {who[w] : w \in BusyOn(s)} \cup {pending[s]}
                 \cup (IF BusyOn(s) = {} THEN {} ELSE {username[s]}))
                \ {NoUser}
    /\ UNCHANGED <<username, pending, inProgress, online, accounts, tasks,
                   kind, who, clientVars>>

(* The disconnect handler installed by main.cpp.                           *)

CleanupRead ==
    /\ pc[Main] = "cleanup"
    /\ LET p == pending[sess[Main]] IN
       /\ who' = [who EXCEPT ![Main] = p]
       /\ pc' = [pc EXCEPT ![Main] =
                    IF p = NoUser THEN "logout" ELSE "cleanup_release"]
    /\ UNCHANGED <<conn, username, pending, inProgress, online, accounts,
                   tasks, sess, kind, clientVars, raced>>

CleanupRelease ==
    /\ pc[Main] = "cleanup_release"
    /\ inProgress' = inProgress \ {who[Main]}
    /\ Goto(Main, "cleanup_clear")
    /\ UNCHANGED <<conn, username, pending, online, accounts, tasks,
                   clientVars, raced>>

CleanupClear ==
    /\ pc[Main] = "cleanup_clear"
    /\ pending' = [pending EXCEPT ![sess[Main]] = NoUser]
    /\ Goto(Main, "logout")
    /\ UNCHANGED <<conn, username, inProgress, online, accounts, tasks,
                   clientVars, raced>>

-----------------------------------------------------------------------------
(* A worker takes a task; the lambda of handle_client_event; route.        *)

\* The task of a session whose generation has changed is dropped.
Take(w) ==
    /\ pc[w] = "idle"
    /\ tasks # <<>>
    /\ tasks' = Tail(tasks)
    /\ LET t == Head(tasks) IN
       IF conn[t.s] = "removed"
       THEN UNCHANGED threadVars
       ELSE /\ sess' = [sess EXCEPT ![w] = t.s]
            /\ kind' = [kind EXCEPT ![w] = t.frame.type]
            /\ who' = [who EXCEPT ![w] = t.frame.user]
            /\ pc' = [pc EXCEPT ![w] = "route"]
    /\ UNCHANGED <<conn, username, pending, inProgress, online, accounts,
                   clientVars, raced>>

\* route: LOGIN and REGISTER only before, LOGOUT only after authentication;
\* the other combinations are answered with an error.
Route(w) ==
    /\ pc[w] = "route"
    /\ LET authenticated == username[sess[w]] # NoUser IN
       IF authenticated = (kind[w] = "LOGOUT")
       THEN /\ Goto(w, IF authenticated THEN "logout" ELSE "reserve")
            /\ UNCHANGED awaiting
       ELSE /\ Return(w)
            /\ Reply(sess[w])
    /\ UNCHANGED <<conn, username, pending, inProgress, online, accounts,
                   tasks, sent, raced>>

\* The early returns before the reservation: an empty or too long name or
\* password, and for a LOGIN the rate limiter.
RejectInput(w) ==
    /\ pc[w] = "reserve"
    /\ Return(w)
    /\ Reply(sess[w])
    /\ UNCHANGED <<conn, username, pending, inProgress, online, accounts,
                   tasks, sent, raced>>

\* Mutant of ValidName: the test for empty and too long names is missing.
AnyName(w) == TRUE

\* The name passed the tests for empty and too long names.
ValidName(w) == who[w] # NoUser

\* Mutant of Refused: the find_session check is missing.
RefusedInProgressOnly(w) == who[w] \in inProgress

\* The reservation is refused to a name that is in progress and, for a
\* LOGIN, to one that a session already carries.
Refused(w) ==
    \/ who[w] \in inProgress
    \/ kind[w] = "LOGIN" /\ LiveSessionsOf(who[w]) # {}

\* The block under login_mutex_.  A LOGIN for the name that the disconnect
\* handler has not yet taken offline overlaps that disconnect.
Reserve(w) ==
    /\ pc[w] = "reserve"
    /\ ValidName(w)
    /\ IF Refused(w)
       THEN /\ Return(w)
            /\ Reply(sess[w])
            /\ UNCHANGED <<inProgress, raced>>
       ELSE /\ inProgress' = inProgress \cup {who[w]}
            /\ Goto(w, "pending")
            /\ raced' = IF /\ pc[Main] # "idle"
                           /\ username[sess[Main]] = who[w]
                        THEN raced \cup {who[w]}
                        ELSE raced
            /\ UNCHANGED awaiting
    /\ UNCHANGED <<conn, username, pending, online, accounts, tasks, sent>>

SetPending(w) ==
    /\ pc[w] = "pending"
    /\ pending' = [pending EXCEPT ![sess[w]] = who[w]]
    /\ Goto(w, "verify")
    /\ UNCHANGED <<conn, username, inProgress, online, accounts, tasks,
                   clientVars, raced>>

\* get_stored_hash and verify_password: a wrong password or no such account
\* fails, the right password of an account succeeds.
Verify(w) ==
    /\ pc[w] = "verify"
    /\ kind[w] = "LOGIN"
    /\ \/ Goto(w, "fail")
       \/ who[w] \in accounts /\ Goto(w, "enter")
    /\ UNCHANGED <<conn, username, pending, inProgress, online, accounts,
                   tasks, clientVars, raced>>

\* Mutant of RegisterUser: the INSERT replaces the row of an existing account.
RegisterUserReplaces(w) ==
    /\ pc[w] = "verify"
    /\ kind[w] = "REGISTER"
    /\ Goto(w, "enter")
    /\ accounts' = accounts \cup {who[w]}
    /\ UNCHANGED <<conn, username, pending, inProgress, online, tasks,
                   clientVars, raced>>

\* register_user: the INSERT changes nothing for the name of an existing
\* account, nor when SQLite reports an error.
RegisterUser(w) ==
    /\ pc[w] = "verify"
    /\ kind[w] = "REGISTER"
    /\ \/ /\ Goto(w, "fail")
          /\ UNCHANGED accounts
       \/ /\ who[w] \notin accounts
          /\ Goto(w, "enter")
          /\ accounts' = accounts \cup {who[w]}
    /\ UNCHANGED <<conn, username, pending, inProgress, online, tasks,
                   clientVars, raced>>

\* hash_password throws; the exception leaves handle_register and is caught
\* around the handler: nothing is released, nothing is answered.
HashThrows(w) ==
    /\ RandCanFail
    /\ pc[w] = "verify"
    /\ kind[w] = "REGISTER"
    /\ Return(w)
    /\ UNCHANGED <<conn, username, pending, inProgress, online, accounts,
                   tasks, clientVars, raced>>

\* Mutant of FailRelease: the failure path forgets the reservation.
FailReleaseForgotten(w) ==
    /\ pc[w] = "fail"
    /\ Goto(w, "failclear")
    /\ UNCHANGED <<conn, username, pending, inProgress, online, accounts,
                   tasks, clientVars, raced>>

\* The failure path erases the reservation, then clears the pending login and
\* answers USER_EXISTS or WRONG_PASSWORD.
FailRelease(w) ==
    /\ pc[w] = "fail"
    /\ inProgress' = inProgress \ {who[w]}
    /\ Goto(w, "failclear")
    /\ UNCHANGED <<conn, username, pending, online, accounts, tasks,
                   clientVars, raced>>

\* Mutant of FailClear: the failure is not answered.
FailClearSilent(w) ==
    /\ pc[w] = "failclear"
    /\ pending' = [pending EXCEPT ![sess[w]] = NoUser]
    /\ Return(w)
    /\ UNCHANGED <<conn, username, inProgress, online, accounts, tasks,
                   clientVars, raced>>

FailClear(w) ==
    /\ pc[w] = "failclear"
    /\ pending' = [pending EXCEPT ![sess[w]] = NoUser]
    /\ Return(w)
    /\ Reply(sess[w])
    /\ UNCHANGED <<conn, username, inProgress, online, accounts, tasks, sent,
                   raced>>

(* finish_login, and what both handlers do after it.                       *)

SetUsername(w) ==
    /\ pc[w] = "enter"
    /\ username' = [username EXCEPT ![sess[w]] = who[w]]
    /\ Goto(w, "online")
    /\ UNCHANGED <<conn, pending, inProgress, online, accounts, tasks,
                   clientVars, raced>>

\* The insertion into online_users_ and LOGIN_OK; the history, the user list
\* and the NOTIFY that follow change nothing here.
GoOnline(w) ==
    /\ pc[w] = "online"
    /\ online' = online \cup {who[w]}
    /\ Goto(w, "clear")
    /\ Reply(sess[w])
    /\ UNCHANGED <<conn, username, pending, inProgress, accounts, tasks,
                   sent, raced>>

ClearPending(w) ==
    /\ pc[w] = "clear"
    /\ pending' = [pending EXCEPT ![sess[w]] = NoUser]
    /\ Goto(w, "release")
    /\ UNCHANGED <<conn, username, inProgress, online, accounts, tasks,
                   clientVars, raced>>

Release(w) ==
    /\ pc[w] = "release"
    /\ inProgress' = inProgress \ {who[w]}
    /\ Return(w)
    /\ UNCHANGED <<conn, username, pending, online, accounts, tasks,
                   clientVars, raced>>

-----------------------------------------------------------------------------
(* handle_logout, run by a worker for LOGOUT and by the main thread for a  *)
(* disconnect.                                                             *)

LogoutCheck(t) ==
    /\ pc[t] = "logout"
    /\ IF username[sess[t]] = NoUser THEN Return(t) ELSE Goto(t, "name")
    /\ UNCHANGED <<conn, username, pending, inProgress, online, accounts,
                   tasks, clientVars, raced>>

\* Mutant of LogoutName: clear_username comes before the name is erased from
\* online_users_.
LogoutNameClears(t) ==
    /\ pc[t] = "name"
    /\ who' = [who EXCEPT ![t] = username[sess[t]]]
    /\ pc' = [pc EXCEPT ![t] = "offline"]
    /\ username' = [username EXCEPT ![sess[t]] = NoUser]
    /\ UNCHANGED <<conn, pending, inProgress, online, accounts, tasks, sess,
                   kind, clientVars, raced>>

LogoutName(t) ==
    /\ pc[t] = "name"
    /\ who' = [who EXCEPT ![t] = username[sess[t]]]
    /\ pc' = [pc EXCEPT ![t] = "offline"]
    /\ UNCHANGED <<conn, username, pending, inProgress, online, accounts,
                   tasks, sess, kind, clientVars, raced>>

\* Mutant of LogoutOffline: the name stays in online_users_.
LogoutStaysOnline(t) ==
    /\ pc[t] = "offline"
    /\ Goto(t, "clearname")
    /\ UNCHANGED <<conn, username, pending, inProgress, online, accounts,
                   tasks, clientVars, raced>>

LogoutOffline(t) ==
    /\ pc[t] = "offline"
    /\ online' = online \ {who[t]}
    /\ Goto(t, "clearname")
    /\ UNCHANGED <<conn, username, pending, inProgress, accounts, tasks,
                   clientVars, raced>>

\* clear_username; the user list and the NOTIFY that follow change nothing.
LogoutClear(t) ==
    /\ pc[t] = "clearname"
    /\ username' = [username EXCEPT ![sess[t]] = NoUser]
    /\ Return(t)
    /\ UNCHANGED <<conn, pending, inProgress, online, accounts, tasks,
                   clientVars, raced>>

-----------------------------------------------------------------------------

Logout(t) ==
    LogoutCheck(t) \/ LogoutName(t) \/ LogoutOffline(t) \/ LogoutClear(t)

\* What a worker does once it has taken a frame.
WorkerStep(w) ==
    \/ Route(w) \/ RejectInput(w) \/ Reserve(w) \/ SetPending(w)
    \/ Verify(w) \/ RegisterUser(w) \/ HashThrows(w)
    \/ FailRelease(w) \/ FailClear(w)
    \/ SetUsername(w) \/ GoOnline(w) \/ ClearPending(w) \/ Release(w)
    \/ Logout(w)

\* What the main thread does once it has removed a session.
MainStep == CleanupRead \/ CleanupRelease \/ CleanupClear \/ Logout(Main)

Next ==
    \/ \E s \in Session : Accept(s) \/ Remove(s)
    \/ \E s \in Session, f \in Request : Dispatch(s, f)
    \/ \E w \in Worker : Take(w) \/ WorkerStep(w)
    \/ MainStep

Spec == Init /\ [][Next]_vars

\* The scheduler runs every thread that can run; clients promise nothing.
Fairness ==
    /\ \A w \in Worker : WF_vars(Take(w) \/ WorkerStep(w))
    /\ WF_vars(MainStep)

FairSpec == Spec /\ Fairness

-----------------------------------------------------------------------------
(* Properties.                                                             *)

\* No thread works on name u or on a session that carries it.
Quiet(u) ==
    \A t \in Thread : pc[t] # "idle" => who[t] # u /\ username[sess[t]] # u

\* The reservation under login_mutex_ does its work: unless a disconnect
\* overlapped a login of the name, two connections never carry the same
\* name, whatever other frames the workers handle at the same time
\* (handle_login, handle_register, finish_login).
UniqueLogin ==
    \A u \in User \ raced : \A s1, s2 \in LiveSessionsOf(u) : s1 = s2

\* The same for every name, as message_router.h states it ("prevents TOCTOU
\* race where two concurrent LOGIN requests for the same username both pass
\* the find_session() check").
LiveUnique ==
    \A u \in User : \A s1, s2 \in LiveSessionsOf(u) : s1 = s2

\* online_users_ and the sessions agree: once no thread works on a name, it is
\* online if and only if a connection carries it, unless a disconnect and a
\* login of the name overlapped (finish_login, handle_logout).
PresenceExact ==
    \A u \in User \ raced :
        Quiet(u) => (u \in online <=> LiveSessionsOf(u) # {})

\* A name is reserved only while one handler works on it: no path of
\* handle_login or handle_register leaves its reservation behind, and the
\* disconnect handler takes away none but those a disconnect overlapped.
ReservationOwned ==
    \A u \in User \ raced :
        u \in inProgress <=> \E w \in Worker : Holds(w, u)

\* A name that is being logged in does not stay reserved: the reservation is
\* given back, on success and on every failure.
ReservationReleased == \A u \in User : u \in inProgress ~> u \notin inProgress

\* A client that waits for the answer to its LOGIN or REGISTER gets it, or its
\* connection is gone.
LoginAnswered ==
    \A s \in Session :
        awaiting[s] = "reply" ~> (awaiting[s] # "reply" \/ conn[s] = "removed")

-----------------------------------------------------------------------------
(* The inductive invariant behind UniqueLogin and ReservationOwned.        *)

\* Where each thread can be, and that a running handler has its session.
ThreadInv ==
    /\ \A w \in Worker : pc[w] \in {"idle", "route", "reserve"}
                                       \cup FlowPC \cup LogoutPC
    /\ pc[Main] \in {"idle", "cleanup", "cleanup_release", "cleanup_clear"}
                        \cup LogoutPC
    /\ \A t \in Thread : pc[t] # "idle" => sess[t] \in Session
    /\ \A w \in Worker : pc[w] \in FlowPC => who[w] \in User
    /\ pc[Main] = "cleanup_release" => who[Main] \in User

\* Only names of accounts are put on a session.
AccountsInv ==
    /\ \A s \in Session : username[s] \in accounts \cup {NoUser}
    /\ \A w \in Worker : pc[w] \in {"enter", "online"} => who[w] \in accounts

\* Connections not yet accepted have no frames and no names.
AcceptedInv ==
    /\ \A i \in 1..Len(tasks) : conn[tasks[i].s] # "new"
    /\ \A t \in Thread : pc[t] # "idle" => conn[sess[t]] # "new"
    /\ \A s \in Session : conn[s] = "new" => username[s] = NoUser

\* What still runs on a removed session, or is left pending there, was
\* overlapped by the disconnect.
OverlapInv ==
    /\ pc[Main] # "idle" => conn[sess[Main]] = "removed"
    /\ pc[Main] = "cleanup_release" => who[Main] \in raced
    /\ \A s \in Session :
           conn[s] = "removed" => pending[s] \in raced \cup {NoUser}
    /\ \A w \in Worker :
           pc[w] \in {"route", "reserve"} \cup FlowPC
               /\ conn[sess[w]] = "removed" => who[w] \in raced \cup {NoUser}

\* w is to put name u on its session: a LOGIN from its find_session on, a
\* REGISTER from its INSERT on.
Entering(w, u) ==
    /\ Holds(w, u)
    /\ \/ pc[w] = "enter"
       \/ kind[w] = "LOGIN" /\ pc[w] \in {"pending", "verify"}

\* For a name no disconnect overlapped: a handler that works on it has it
\* reserved, there is one such handler at most, and none is about to put it
\* on a session while another session carries it.
ReservationInv ==
    \A u \in User \ raced :
        /\ \A w \in Worker : Holds(w, u) => u \in inProgress
        /\ \A v, w \in Worker : Holds(v, u) /\ Holds(w, u) => v = w
        /\ \A w \in Worker : Entering(w, u) => LiveSessionsOf(u) = {}

\* Without a failing RAND_bytes every reservation has its handler.
HolderInv ==
    ~RandCanFail =>
        \A u \in inProgress \ raced : \E w \in Worker : Holds(w, u)

LoginInv ==
    /\ ThreadInv
    /\ AccountsInv
    /\ AcceptedInv
    /\ OverlapInv
    /\ ReservationInv
    /\ HolderInv
    /\ UniqueLogin
-----------------------------------------------------------------------------
(* The inductive invariant behind PresenceExact, for clients that wait.     *)

\* w handles a frame that it has not answered yet.
Early(w) == pc[w] \notin {"idle", "clear", "release"}

\* Of a connection there is one frame at most that is queued or not answered,
\* and none if its client waits for nothing.
PatientInv ==
    /\ \A i \in 1..Len(tasks) : awaiting[tasks[i].s] # "nothing"
    /\ \A i, j \in 1..Len(tasks) : tasks[i].s = tasks[j].s => i = j
    /\ \A w \in Worker : Early(w) =>
           /\ awaiting[sess[w]] # "nothing"
           /\ \A i \in 1..Len(tasks) : tasks[i].s # sess[w]
    /\ \A v, w \in Worker : Early(v) /\ Early(w) /\ sess[v] = sess[w] => v = w

\* Names that are known to be overlapped, or none.
Spent == raced \cup {NoUser}

\* A removed session carries a name that was not overlapped only while the
\* disconnect handler is at it, and then nobody else is.
RemovedInv ==
    /\ \A s \in Session :
           conn[s] = "removed" /\ username[s] \notin Spent =>
               /\ pc[Main] # "idle" /\ sess[Main] = s
               /\ BusyOn(s) = {}
    /\ \A w \in Worker :
           pc[w] \in {"offline", "clearname"} /\ conn[sess[w]] = "removed"
               => who[w] \in Spent
    /\ pc[Main] \in {"offline", "clearname"} =>
           \/ who[Main] = username[sess[Main]]
           \/ who[Main] \in Spent /\ username[sess[Main]] \in Spent

\* What a handler knows of the name on its session.
HandlerInv ==
    \A w \in Worker :
        /\ pc[w] \in {"reserve", "pending", "verify", "fail", "failclear", "enter"}
               => username[sess[w]] = NoUser
        /\ pc[w] \in {"online", "offline", "clearname"} /\ conn[sess[w]] = "live"
               => username[sess[w]] = who[w]

\* UniqueLogin for all sessions, removed ones included.
CarrierInv ==
    \A u \in User \ raced :
        /\ \A s1, s2 \in Session : username[s1] = u /\ username[s2] = u => s1 = s2
        /\ \A w \in Worker : Entering(w, u) => \A s \in Session : username[s] # u

\* A name goes online after it was put on a session, and offline before it is
\* taken away.
OnlineInv ==
    \A u \in User \ raced :
        /\ u \in online => \E s \in Session : username[s] = u
        /\ \A s \in LiveSessionsOf(u) :
               \/ u \in online
               \/ \E w \in Worker : sess[w] = s /\ pc[w] \in {"online", "clearname"}
        /\ \A t \in Thread : pc[t] = "clearname" /\ who[t] = u => u \notin online

PresenceInv ==
    PatientInv /\ RemovedInv /\ HandlerInv /\ CarrierInv /\ OnlineInv

(* What the refinement of NameService needs besides.                       *)

\* What the client that sent such a frame waits for.
Due(type) == IF type = "LOGOUT" THEN "close" ELSE "reply"

\* The handler of w is one for the frame it took, and until it has answered
\* the client waits for that.
RequestAt(w) ==
    /\ Early(w) => awaiting[sess[w]] = Due(kind[w])
    /\ pc[w] \in LogoutPC => kind[w] = "LOGOUT"
    /\ pc[w] \in {"reserve"} \cup FlowPC => kind[w] # "LOGOUT"

RequestInv ==
    /\ \A i \in 1..Len(tasks) : awaiting[tasks[i].s] = Due(tasks[i].frame.type)
    /\ \A w \in Worker : RequestAt(w)

-----------------------------------------------------------------------------
(* The names that clients see, those apart that a disconnect overlapped.    *)

Names == [s \in Session |-> IF username[s] \in raced THEN NoUser ELSE username[s]]
Quitting == {s \in Session : awaiting[s] = "close"}
Removed == {s \in Session : conn[s] = "removed"}

Service == INSTANCE NameService
             WITH name <- Names, online <- online \ raced, quit <- Quitting,
                  gone <- Removed, spoiled <- raced

\* For clients that wait for their answers the handlers, however they
\* interleave, keep what NameService promises: a name gets onto a connection
\* that is there, once and with an account, goes online after that, goes
\* offline before it leaves, and does both only because its own client asked
\* or is gone (finish_login, handle_logout, the disconnect handler).
ImplementsNameService == Service!Spec
=============================================================================
