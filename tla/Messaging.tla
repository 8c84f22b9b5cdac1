------------------------------ MODULE Messaging ------------------------------
(***************************************************************************)
(* Chat messages, history and user lists: BROADCAST, PRIVATE, HISTORY_REQ,  *)
(* what a LOGIN pushes and what a LOGOUT or a disconnect announces, run by  *)
(* several workers and the main thread.  Every handler reads the session,   *)
(* the database, online_users_ and sessions_ under a lock of its own each   *)
(* time, and sends outside of all of them.                                  *)
(*                                                                          *)
(* A frame is delivered to a session in one step (the wire is another       *)
(* matter), the text of a message is its number, and that a login succeeds  *)
(* only for a name nobody carries or is entering is taken from SessionAuth. *)
(* NOTIFY frames leave nothing behind and are left out.                     *)
(***************************************************************************)
EXTENDS Integers, Sequences, FiniteSets, FiniteSetsExt

CONSTANTS
    Session,       \* connections
    User,          \* user names
    NoUser,        \* the empty string
    Room,          \* "__room__"
    NoSession,     \* no session
    Worker,        \* threads of the pool
    Main,          \* the thread in EpollServer::run
    PushLimit,     \* room messages pushed after a login (20)
    ReqLimit,      \* messages returned for a HISTORY_REQ (50)
    MaxTime,       \* bound: the clock, in seconds, stops here
    MaxHandlers    \* bound: frames and disconnects handled in a behaviour

Thread == Worker \cup {Main}
NameOrNone == User \cup {NoUser}

ASSUME MessagingAssumption ==
    /\ NoUser \notin User
    /\ Room \notin NameOrNone
    /\ NoSession \notin Session
    /\ Main \notin Worker
    /\ PushLimit \in Nat /\ ReqLimit \in Nat
    /\ MaxTime \in Nat /\ MaxHandlers \in Nat

VARIABLES
    live,       \* live[s]: s is in sessions_
    username,   \* username[s]: ClientSession::username_
    online,     \* MessageRouter::online_users_
    now,        \* what time() said last, in seconds
    message,    \* the messages, numbered in the order of store_message
    got,        \* got[s]: messages that came to s since its last login
    hist,       \* hist[s]: messages that came to s in HISTORY_RESP since then
    list,       \* list[s]: the names in the last USER_LIST that came to s
    h,          \* h[t]: the handler thread t runs, and its locals
    begun,      \* how many frames and disconnects were handled
    due,        \* due[s], history: the worker whose login put the last name on
                \* s, as long as it has not pushed the room's history
    carried,    \* history: the names that s ever carried
    listRace    \* history: two user lists were on their way together

vars == <<live, username, online, now, message, got, hist, list, h, begun,
          due, carried, listRace>>
inboxes == <<got, hist, list>>
histories == <<due, carried, listRace>>

Message == [from : NameOrNone, to : User \cup {Room}, ts : Nat,
            stored : BOOLEAN]

LoginPC == {"enter", "online", "readhist", "sendhist"}
LogoutPC == {"logout", "name", "offline", "clearname"}
ListPC == {"compose", "listtargets", "sendlist"}
ChatPC == {"find", "sender", "store", "targets", "deliver", "target", "echo"}
ReqPC == {"reqname", "reqread", "reqsend"}

Handler ==
    [pc : {"idle"} \cup LoginPC \cup LogoutPC \cup ListPC \cup ChatPC \cup ReqPC,
     sess : Session \cup {NoSession},
     to : NameOrNone \cup {Room},
     who : NameOrNone,
     ts : Nat,
     num : Nat,
     peer : Session \cup {NoSession},
     todo : SUBSET Session,
     rows : SUBSET Nat,
     names : SUBSET User]

Idle == [pc |-> "idle", sess |-> NoSession, to |-> NoUser, who |-> NoUser,
         ts |-> 0, num |-> 0, peer |-> NoSession, todo |-> {}, rows |-> {},
         names |-> {}]

TypeOK ==
    /\ live \in [Session -> BOOLEAN]
    /\ username \in [Session -> NameOrNone]
    /\ online \subseteq User
    /\ now \in Nat
    /\ message \in Seq(Message)
    /\ got \in [Session -> SUBSET (1..Len(message))]
    /\ hist \in [Session -> SUBSET (1..Len(message))]
    /\ list \in [Session -> SUBSET User]
    /\ h \in [Thread -> Handler]
    /\ begun \in Nat
    /\ due \in [Session -> SUBSET Worker]
    /\ carried \in [Session -> SUBSET User]
    /\ listRace \in BOOLEAN

\* Any moment without messages at which no handler runs: some connections are
\* logged in under different names, and all of these know of each other.
Init ==
    /\ live = [s \in Session |-> TRUE]
    /\ username \in [Session -> NameOrNone]
    /\ \A s, r \in Session : username[s] = username[r] /\ s # r
                                => username[s] = NoUser
    /\ online = {username[s] : s \in Session} \ {NoUser}
    /\ now = 0
    /\ message = <<>>
    /\ got = [s \in Session |-> {}]
    /\ hist = [s \in Session |-> {}]
    /\ list = [s \in Session |-> IF username[s] = NoUser THEN {} ELSE online]
    /\ h = [t \in Thread |-> Idle]
    /\ begun = 0
    /\ due = [s \in Session |-> {}]
    /\ carried = [s \in Session |-> {username[s]} \ {NoUser}]
    /\ listRace = FALSE

At(t, l) == h[t].pc = l

\* The handler of thread t goes on as g.
Become(t, g) == h' = [h EXCEPT ![t] = g]
Goto(t, l) == Become(t, [h[t] EXCEPT !.pc = l])
Return(t) == Become(t, Idle)

\* A frame for s: it is lost on a session that was removed.
Receive(box, s, what) ==
    IF live[s] THEN [box EXCEPT ![s] = @ \cup what] ELSE box

\* The sessions that carry name u (find_session).
Carriers(u) == {s \in Session : live[s] /\ username[s] = u}

-----------------------------------------------------------------------------
(* A worker takes a frame of s: the generation check and route.            *)

Begin(w, s, l, to) ==
    /\ At(w, "idle")
    /\ live[s]
    /\ begun < MaxHandlers
    /\ begun' = begun + 1
    /\ Become(w, [Idle EXCEPT !.pc = l, !.sess = s, !.to = to])
    /\ UNCHANGED <<live, username, online, now, message, inboxes, histories>>

\* handle_login or handle_register up to finish_login.  A name is reserved
\* until finish_login has returned, unless the disconnect handler gave it back;
\* a client waits for LOGIN_OK before it tries again.
BeginLogin(w, s, u) ==
    /\ username[s] = NoUser
    /\ Carriers(u) = {}
    /\ \A t \in Worker :
           /\ h[t].pc \in LoginPC \cup ListPC /\ h[t].to = u
                  => ~live[h[t].sess]
           /\ h[t].pc \in {"enter", "online"} => h[t].sess # s
    /\ Begin(w, s, "enter", u)

BeginLogout(w, s) == username[s] # NoUser /\ Begin(w, s, "logout", NoUser)

\* The content of a chat message is neither empty nor too long; otherwise the
\* handler answers with an error and changes nothing.
BeginBroadcast(w, s) == username[s] # NoUser /\ Begin(w, s, "sender", Room)

BeginPrivate(w, s, u) == username[s] # NoUser /\ Begin(w, s, "find", u)

BeginHistoryReq(w, s, to) ==
    username[s] # NoUser /\ Begin(w, s, "reqname", to)

-----------------------------------------------------------------------------
(* finish_login.                                                           *)

SetUsername(w) ==
    /\ At(w, "enter")
    /\ LET s == h[w].sess IN
       /\ username' = [username EXCEPT ![s] = h[w].to]
       /\ got' = [got EXCEPT ![s] = {}]
       /\ hist' = [hist EXCEPT ![s] = {}]
       /\ due' = [due EXCEPT ![s] = {w}]
       /\ carried' = [carried EXCEPT ![s] = @ \cup {h[w].to}]
    /\ Goto(w, "online")
    /\ UNCHANGED <<live, online, now, message, list, begun, listRace>>

GoOnline(w) ==
    /\ At(w, "online")
    /\ online' = online \cup {h[w].to}
    /\ Goto(w, "readhist")
    /\ UNCHANGED <<live, username, now, message, inboxes, begun, histories>>

\* What a query returns: the rows that match, as many as the limit allows and
\* the newest of them; rows of one second have no order.
Recent(rows, limit) ==
    LET n == IF Cardinality(rows) < limit THEN Cardinality(rows) ELSE limit
    IN  {R \in kSubset(n, rows) :
            \A i \in R, j \in rows \ R : message[i].ts >= message[j].ts}

RowsOfRoom ==
    {i \in 1..Len(message) : message[i].stored /\ message[i].to = Room}

\* Mutant of RowsBetween: the requestor does not matter.
RowsWith(a, b) ==
    {i \in 1..Len(message) :
        /\ message[i].stored
        /\ message[i].to # Room
        /\ message[i].to = b \/ message[i].from = b}

RowsBetween(a, b) ==
    {i \in 1..Len(message) :
        /\ message[i].stored
        /\ \/ message[i].from = a /\ message[i].to = b
           \/ message[i].from = b /\ message[i].to = a}

\* push_history: get_history for the room.
ReadHistory(w) ==
    /\ At(w, "readhist")
    /\ \E R \in Recent(RowsOfRoom, PushLimit) :
           Become(w, [h[w] EXCEPT !.pc = "sendhist", !.rows = R])
    /\ UNCHANGED <<live, username, online, now, message, inboxes, begun,
                   histories>>

SendHistory(w) ==
    /\ At(w, "sendhist")
    /\ LET s == h[w].sess IN
       /\ hist' = Receive(hist, s, h[w].rows)
       /\ due' = [due EXCEPT ![s] = @ \ {w}]
    /\ Become(w, [h[w] EXCEPT !.pc = "compose", !.rows = {}])
    /\ UNCHANGED <<live, username, online, now, message, got, list, begun,
                   carried, listRace>>

-----------------------------------------------------------------------------
(* broadcast_user_list, after a login or a logout.                         *)

Announcing == {t \in Thread : h[t].pc \in {"listtargets", "sendlist"}}

ComposeList(t) ==
    /\ At(t, "compose")
    /\ Become(t, [h[t] EXCEPT !.pc = "listtargets", !.names = online])
    /\ listRace' = (listRace \/ Announcing # {})
    /\ UNCHANGED <<live, username, online, now, message, inboxes, begun,
                   due, carried>>

\* Mutant of Targets: the sender of a message, or the user whose login or
\* logout is announced, is left out, as for a NOTIFY.
TargetsButOne(t) ==
    {s \in Session : /\ live[s] /\ username[s] # NoUser
                     /\ s # h[t].sess}

\* The sessions that broadcast copies under sessions_mutex_.
Targets(t) == {s \in Session : live[s] /\ username[s] # NoUser}

\* Thread t has to send to the sessions of todo, in no certain order; with
\* none left it is done.
Sending(t, l, todo) ==
    IF todo = {} THEN Idle ELSE [h[t] EXCEPT !.pc = l, !.todo = todo]

ListTargets(t) ==
    /\ At(t, "listtargets")
    /\ Become(t, Sending(t, "sendlist", Targets(t)))
    /\ UNCHANGED <<live, username, online, now, message, inboxes, begun,
                   histories>>

SendList(t) ==
    /\ At(t, "sendlist")
    /\ \E s \in h[t].todo :
           /\ list' = IF live[s] THEN [list EXCEPT ![s] = h[t].names] ELSE list
           /\ Become(t, Sending(t, "sendlist", h[t].todo \ {s}))
    /\ UNCHANGED <<live, username, online, now, message, got, hist, begun,
                   histories>>

-----------------------------------------------------------------------------
(* handle_logout, for a LOGOUT frame or, on the main thread, a disconnect.  *)

Remove(s) ==
    /\ At(Main, "idle")
    /\ live[s]
    /\ begun < MaxHandlers
    /\ begun' = begun + 1
    /\ live' = [live EXCEPT ![s] = FALSE]
    /\ Become(Main, [Idle EXCEPT !.pc = "logout", !.sess = s])
    /\ UNCHANGED <<username, online, now, message, inboxes, histories>>

LogoutCheck(t) ==
    /\ At(t, "logout")
    /\ IF username[h[t].sess] = NoUser THEN Return(t) ELSE Goto(t, "name")
    /\ UNCHANGED <<live, username, online, now, message, inboxes, begun,
                   histories>>

LogoutName(t) ==
    /\ At(t, "name")
    /\ Become(t, [h[t] EXCEPT !.pc = "offline", !.who = username[h[t].sess]])
    /\ UNCHANGED <<live, username, online, now, message, inboxes, begun,
                   histories>>

LogoutOffline(t) ==
    /\ At(t, "offline")
    /\ online' = online \ {h[t].who}
    /\ Goto(t, "clearname")
    /\ UNCHANGED <<live, username, now, message, inboxes, begun, histories>>

LogoutClear(t) ==
    /\ At(t, "clearname")
    /\ username' = [username EXCEPT ![h[t].sess] = NoUser]
    /\ Goto(t, "compose")
    /\ UNCHANGED <<live, online, now, message, inboxes, begun, histories>>

-----------------------------------------------------------------------------
(* handle_broadcast and handle_private.                                    *)

\* The target of a private message, by name; none: TARGET_OFFLINE.
FindTarget(w) ==
    /\ At(w, "find")
    /\ IF Carriers(h[w].to) = {}
       THEN Return(w)
       ELSE \E p \in Carriers(h[w].to) :
                Become(w, [h[w] EXCEPT !.pc = "sender", !.peer = p])
    /\ UNCHANGED <<live, username, online, now, message, inboxes, begun,
                   histories>>

\* The time is read, which may have gone on, then the sender's name.
ReadSender(w) ==
    /\ At(w, "sender")
    /\ now' \in now..MaxTime
    /\ Become(w, [h[w] EXCEPT !.pc = "store", !.ts = now',
                              !.who = username[h[w].sess]])
    /\ UNCHANGED <<live, username, online, message, inboxes, begun, histories>>

\* Mutant of StoreMessage: the message is numbered by the row it would have,
\* also when the INSERT failed.
StoreOrLose(w) ==
    /\ At(w, "store")
    /\ \E ok \in BOOLEAN :
           message' = IF ok THEN Append(message, [from |-> h[w].who,
                                     to |-> h[w].to, ts |-> h[w].ts,
                                     stored |-> TRUE])
                            ELSE message
    /\ Become(w, [h[w] EXCEPT
                    !.pc = IF h[w].to = Room THEN "targets" ELSE "target",
                    !.num = Len(message) + 1])
    /\ UNCHANGED <<live, username, online, now, inboxes, begun, histories>>

\* An INSERT that fails is logged, and the message goes out all the same.
StoreMessage(w) ==
    /\ At(w, "store")
    /\ \E ok \in BOOLEAN :
           message' = Append(message, [from |-> h[w].who, to |-> h[w].to,
                                       ts |-> h[w].ts, stored |-> ok])
    /\ Become(w, [h[w] EXCEPT
                    !.pc = IF h[w].to = Room THEN "targets" ELSE "target",
                    !.num = Len(message) + 1])
    /\ UNCHANGED <<live, username, online, now, inboxes, begun, histories>>

MessageTargets(w) ==
    /\ At(w, "targets")
    /\ Become(w, Sending(w, "deliver", Targets(w)))
    /\ UNCHANGED <<live, username, online, now, message, inboxes, begun,
                   histories>>

Deliver(w) ==
    /\ At(w, "deliver")
    /\ \E s \in h[w].todo :
           /\ got' = Receive(got, s, {h[w].num})
           /\ Become(w, Sending(w, "deliver", h[w].todo \ {s}))
    /\ UNCHANGED <<live, username, online, now, message, hist, list, begun,
                   histories>>

SendTarget(w) ==
    /\ At(w, "target")
    /\ got' = Receive(got, h[w].peer, {h[w].num})
    /\ Goto(w, "echo")
    /\ UNCHANGED <<live, username, online, now, message, hist, list, begun,
                   histories>>

SendEcho(w) ==
    /\ At(w, "echo")
    /\ got' = Receive(got, h[w].sess, {h[w].num})
    /\ Return(w)
    /\ UNCHANGED <<live, username, online, now, message, hist, list, begun,
                   histories>>

-----------------------------------------------------------------------------
(* handle_history_req.                                                     *)

ReadRequestor(w) ==
    /\ At(w, "reqname")
    /\ Become(w, [h[w] EXCEPT !.pc = "reqread", !.who = username[h[w].sess]])
    /\ UNCHANGED <<live, username, online, now, message, inboxes, begun,
                   histories>>

GetHistory(w) ==
    /\ At(w, "reqread")
    /\ LET rows == IF h[w].to = Room THEN RowsOfRoom
                                     ELSE RowsBetween(h[w].who, h[w].to)
       IN  \E R \in Recent(rows, ReqLimit) :
               Become(w, [h[w] EXCEPT !.pc = "reqsend", !.rows = R])
    /\ UNCHANGED <<live, username, online, now, message, inboxes, begun,
                   histories>>

SendResponse(w) ==
    /\ At(w, "reqsend")
    /\ hist' = Receive(hist, h[w].sess, h[w].rows)
    /\ Return(w)
    /\ UNCHANGED <<live, username, online, now, message, got, list, begun,
                   histories>>

-----------------------------------------------------------------------------

Announce(t) == ComposeList(t) \/ ListTargets(t) \/ SendList(t)
Logout(t) ==
    \/ LogoutCheck(t) \/ LogoutName(t) \/ LogoutOffline(t) \/ LogoutClear(t)
    \/ Announce(t)

BeginFrame(w, s) ==
    \/ BeginLogout(w, s)
    \/ BeginBroadcast(w, s)
    \/ \E u \in User : BeginLogin(w, s, u) \/ BeginPrivate(w, s, u)
    \/ \E to \in User \cup {Room} : BeginHistoryReq(w, s, to)

WorkerStep(w) ==
    \/ SetUsername(w) \/ GoOnline(w) \/ ReadHistory(w) \/ SendHistory(w)
    \/ FindTarget(w) \/ ReadSender(w) \/ StoreMessage(w) \/ MessageTargets(w)
    \/ Deliver(w) \/ SendTarget(w) \/ SendEcho(w)
    \/ ReadRequestor(w) \/ GetHistory(w) \/ SendResponse(w)
    \/ Logout(w)

Next ==
    \/ \E s \in Session : Remove(s)
    \/ \E w \in Worker, s \in Session : BeginFrame(w, s)
    \/ \E w \in Worker : WorkerStep(w)
    \/ Logout(Main)

Spec == Init /\ [][Next]_vars

-----------------------------------------------------------------------------
(* Properties.                                                             *)

\* Thread t has stored message i and is still to send it to s.
Carries(t, i, s) ==
    /\ h[t].num = i
    /\ \/ At(t, "targets")
       \/ At(t, "deliver") /\ s \in h[t].todo

\* As many newer messages as a login pushes stand before message i in rows.
Outdated(rows, i) ==
    Cardinality({j \in rows : /\ message[j].to = Room
                              /\ message[j].ts >= message[i].ts})
        >= PushLimit

\* A client that is logged in and has its history misses no message of the
\* room: each that was stored is in the history or came since, or is on its
\* way, or is older than what the history shows.  The message may be stored at
\* any moment of the login (finish_login sets the name before push_history
\* reads; handle_broadcast stores before broadcast copies the targets).
NoMessageMissed ==
    \A s \in Session :
        live[s] /\ username[s] # NoUser /\ due[s] = {} =>
            \A i \in RowsOfRoom :
                \/ i \in got[s] \cup hist[s]
                \/ \E t \in Worker : Carries(t, i, s)
                \/ Outdated(hist[s], i)

\* A private message comes only to connections that carry, or once carried,
\* the name of its sender or of its receiver, live and from the database
\* (handle_private, handle_history_req).  Messages whose sender was logged out
\* before his name was read belong to nobody.
PrivateConfined ==
    \A s \in Session : \A i \in got[s] \cup hist[s] :
        LET m == message[i] IN
        m.to # Room /\ m.from # NoUser => {m.from, m.to} \cap carried[s] # {}

\* No thread is between a change of the presence and its announcement.
Settled ==
    \A t \in Thread : h[t].pc \notin LoginPC \cup LogoutPC \cup ListPC

\* Once a login or logout has been announced, every client that is logged in
\* has the list of who is online, unless two lists were on their way together:
\* then the older may have come last (broadcast_user_list).
ListCurrent ==
    Settled /\ ~listRace =>
        \A s \in Session :
            live[s] /\ username[s] # NoUser => list[s] = online
-----------------------------------------------------------------------------
(* The inductive invariants behind these properties.                        *)

\* The locals of handler g fit where it is in its code; there are n messages.
HandlerFits(g, n) ==
    /\ g.pc # "idle" => g.sess \in Session
    /\ g.pc \in LoginPC \cup {"find", "target", "echo"} => g.to \in User
    /\ g.pc \in {"sender", "store", "reqname", "reqread"}
           => g.to \in User \cup {Room}
    /\ g.pc \in {"sender", "store"} /\ g.to # Room => g.peer \in Session
    /\ g.pc = "target" => g.peer \in Session
    /\ g.pc \in {"targets", "deliver"} => g.to = Room
    /\ g.rows \subseteq 1..n
    /\ g.pc \in {"targets", "deliver", "target", "echo"} => g.num \in 1..n

HandlersFit == \A t \in Thread : HandlerFits(h[t], Len(message))

IInv == TypeOK /\ HandlersFit

\* A private message m whose sender had a name has to do with one of names.
Concerns(m, names) ==
    m.to # Room /\ m.from # NoUser => {m.from, m.to} \cap names # {}

\* What handler g is about to store or send concerns whom it goes to; ms are
\* the messages, names[s] the names that s ever carried.
Confines(g, ms, names) ==
    /\ g.pc \in {"sender", "store", "target"} /\ g.to # Room
           => g.to \in names[g.peer]
    /\ g.pc \in {"store", "target", "echo", "reqread"}
           => g.who \in names[g.sess] \cup {NoUser}
    /\ g.pc \in {"targets", "deliver"} => ms[g.num].to = Room
    /\ g.pc \in {"target", "echo"}
           => ms[g.num].from = g.who /\ ms[g.num].to = g.to
    /\ g.pc \in {"sendhist", "reqsend"}
           => \A i \in g.rows : Concerns(ms[i], names[g.sess])

PrivateInv ==
    /\ \A s \in Session : username[s] \in carried[s] \cup {NoUser}
    /\ \A t \in Thread : Confines(h[t], message, carried)
    /\ \A s \in Session : \A i \in got[s] \cup hist[s] :
           Concerns(message[i], carried[s])

\* Room messages that s has been shown as history or will be by its login.
Shown(s) == hist[s] \cup UNION {h[w].rows : w \in due[s]}

\* s is logged in, and whoever logged it in has read the history.
HistoryRead(s) ==
    /\ live[s] /\ username[s] # NoUser
    /\ \A w \in due[s] : At(w, "sendhist")

\* From the moment at which the history was read no message is missed.
MissedInv ==
    /\ \A s \in Session : \A w \in due[s] :
           h[w].sess = s /\ h[w].pc \in {"online", "readhist", "sendhist"}
    /\ \A s \in Session : HistoryRead(s) =>
           \A i \in RowsOfRoom :
               \/ i \in got[s] \cup Shown(s)
               \/ \E t \in Worker : Carries(t, i, s)
               \/ Outdated(Shown(s), i)

\* Threads that have changed the presence or are about to, and have still to
\* compose the list.
PendingPC == {"online", "readhist", "sendhist", "clearname", "compose"}

\* Without a race one thread at most sends a list; if nobody has still to
\* compose one, that list is right and on its way to all who do not have it.
ListInv ==
    ~listRace =>
        /\ \A t, r \in Announcing : t = r
        /\ (\A t \in Thread : h[t].pc \notin PendingPC) =>
               /\ \A t \in Announcing : h[t].names = online
               /\ \A s \in Session : live[s] /\ username[s] # NoUser =>
                      \/ list[s] = online
                      \/ \E t \in Announcing :
                             At(t, "listtargets") \/ s \in h[t].todo
=============================================================================
