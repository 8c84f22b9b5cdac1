------------------------------ MODULE ClientSide ------------------------------
(***************************************************************************)
(* The Qt client: ChatClient (the socket), LoginController (the state of    *)
(* the login page and its two timers), ChatBackend (the name, the messages  *)
(* of the room) and the page that main.qml shows.                           *)
(*                                                                          *)
(* All of it runs in one event loop: an action is one event together with   *)
(* every slot its signals call.  The server is what one connection sees of  *)
(* it: a worker for every frame, each running as it likes, so answers come  *)
(* in any order; SessionAuth and Messaging have the server itself.          *)
(***************************************************************************)
EXTENDS Integers, Sequences, FiniteSets

CONSTANTS
    User,         \* user names
    NoUser,       \* the empty string
    PushLimit,    \* room messages pushed after a login (20)
    ReqLimit,     \* messages returned for a HISTORY_REQ (50)
    MaxClicks,    \* bound: what the user does
    MaxTasks,     \* bound: frames of the user the server has at a time
    MaxRoom       \* bound: messages in the room

ASSUME ClientAssumption ==
    /\ NoUser \notin User
    /\ PushLimit \in Nat /\ ReqLimit \in Nat /\ PushLimit <= ReqLimit
    /\ MaxClicks \in Nat /\ MaxTasks \in Nat /\ MaxRoom \in Nat

VARIABLES
    sock,        \* the state of ChatClient::socket_
    connecting,  \* ChatClient::is_connecting_
    lc,          \* LoginController: its state, flags and running timers
    chats,       \* ChatWindows that main.qml has pushed above the login page
    user,        \* ChatBackend::m_currentUser
    view,        \* ChatBackend::m_roomMessages, by number
    inbox,       \* frames on the way to this connection
    srv,         \* the server's username_ of this connection
    task,        \* the frames of this connection the server is handling
    sent,        \* frames sent on this connection
    room,        \* messages the server has stored in the room
    underway,    \* those that are still to be sent to this connection
    clicks,      \* how often the user has done something
    hasty,       \* history: asked for a second name while the first was tried
    crossed      \* history: a history was read while a message was under way

client == <<sock, connecting, lc, chats, user>>
server == <<srv, task, sent, room, underway>>
histories == <<hasty, crossed>>
vars == <<client, view, inbox, server, clicks, histories>>

State == {"Disconnected", "Connecting", "Authenticating", "Authenticated"}
\* The messages first .. last of the room.
Rows == [first : Nat, last : Nat]
Frame ==
    [type : {"LOGIN_OK"}, from : User]
    \cup [type : {"ERROR"}]
    \cup [type : {"BROADCAST"}, num : Nat]
    \cup [type : {"HISTORY_RESP"}, rows : Rows]
Task ==
    [id : Nat, kind : {"LOGIN", "BROADCAST", "HISTORY_REQ"},
     pc : {"sent", "run", "ok", "error", "read", "send"},
     who : User \cup {NoUser}, limit : Nat, rows : Rows]

TypeOK ==
    /\ sock \in {"closed", "connecting", "connected"}
    /\ connecting \in BOOLEAN
    /\ lc \in [state : State, isConnecting : BOOLEAN, loading : BOOLEAN,
               connectTimer : BOOLEAN, loginTimer : BOOLEAN]
    /\ chats \in Nat
    /\ user \in User \cup {NoUser}
    /\ view \in Seq(1..room)
    /\ inbox \in Seq(Frame)
    /\ srv \in User \cup {NoUser}
    /\ task \in SUBSET Task
    /\ sent \in Nat /\ room \in Nat /\ clicks \in Nat
    /\ underway \subseteq 1..room
    /\ hasty \in BOOLEAN /\ crossed \in BOOLEAN

\* The client has just been started; the room has some history.
Init ==
    /\ sock = "closed" /\ connecting = FALSE
    /\ lc = [state |-> "Disconnected", isConnecting |-> FALSE,
             loading |-> FALSE, connectTimer |-> FALSE, loginTimer |-> FALSE]
    /\ chats = 0 /\ user = NoUser
    /\ view = <<>> /\ inbox = <<>>
    /\ srv = NoUser /\ task = {} /\ sent = 0
    /\ room \in 0..MaxRoom
    /\ underway = {} /\ clicks = 0
    /\ hasty = FALSE /\ crossed = FALSE

-----------------------------------------------------------------------------
(* The slots of LoginController.                                           *)

StopConnecting(c) ==
    [c EXCEPT !.isConnecting = FALSE, !.connectTimer = FALSE, !.loading = FALSE]

OnConnected(c) == [StopConnecting(c) EXCEPT !.state = "Authenticating"]

\* onDisconnected and onConnectionError, which differ in their text.
OnDisconnected(c) ==
    [StopConnecting(c) EXCEPT !.loginTimer = FALSE, !.state = "Disconnected"]

OnLoginOk(c) ==
    [c EXCEPT !.connectTimer = FALSE, !.loginTimer = FALSE, !.loading = FALSE,
              !.state = "Authenticated"]

OnErrorReceived(c) ==
    [c EXCEPT !.loginTimer = FALSE, !.loading = FALSE,
              !.state = "Authenticating"]

\* stateChanged, as main.qml takes it: a new ChatWindow, or back to the login.
Pages(c) ==
    IF c.state = lc.state THEN chats
    ELSE IF c.state = "Authenticated" THEN chats + 1
    ELSE IF c.state = "Disconnected" THEN 0
    ELSE chats

Control(c) == lc' = c /\ chats' = Pages(c)

-----------------------------------------------------------------------------
(* Frames to the server, and what becomes of the connection.               *)

NewTask(kind, who) ==
    [id |-> sent, kind |-> kind, pc |-> "sent", who |-> who, limit |-> ReqLimit,
     rows |-> [first |-> 0, last |-> 0]]

Send(kind, who) ==
    /\ task' = task \cup {NewTask(kind, who)}
    /\ sent' = sent + 1

\* Mutant of Hangup: frames of the old connection are still received, as
\* without recv_buf_.clear() and blockSignals.
HangupKeepsInbox ==
    /\ inbox' = inbox /\ srv' = NoUser /\ task' = {} /\ sent' = 0
    /\ underway' = {} /\ hasty' = FALSE /\ crossed' = FALSE
    /\ UNCHANGED room

\* What the server still does for this connection reaches nobody.
Hangup ==
    /\ inbox' = <<>> /\ srv' = NoUser /\ task' = {} /\ sent' = 0
    /\ underway' = {} /\ hasty' = FALSE /\ crossed' = FALSE
    /\ UNCHANGED room

Click == clicks < MaxClicks /\ clicks' = clicks + 1

-----------------------------------------------------------------------------
(* The user, on the login page.                                            *)

\* ChatClient::connect_to_server, called by a controller that goes to c: while
\* it still tries an earlier address it ignores the new one, else the new socket
\* begins to connect or fails at once.
TryAddress(c) ==
    \/ /\ connecting
       /\ Control(c)
       /\ UNCHANGED <<sock, connecting, inbox, server, histories>>
    \/ /\ ~connecting
       /\ \/ /\ sock' = "connecting" /\ connecting' = TRUE
             /\ Control(c)
          \/ /\ sock' = "closed" /\ connecting' = FALSE
             /\ Control(OnDisconnected(c))
       /\ Hangup

\* The address is valid.
ConnectToServer ==
    /\ chats = 0
    /\ ~lc.isConnecting
    /\ Click
    /\ TryAddress([lc EXCEPT !.isConnecting = TRUE, !.loading = TRUE,
                             !.state = "Connecting", !.connectTimer = TRUE])
    /\ UNCHANGED <<user, view>>

\* login and registerUser: both wait for LOGIN_OK.  Without a connection they
\* show a text, no more.  The buttons work while a login is under way.
Login(u) ==
    /\ chats = 0
    /\ sock = "connected"
    /\ Cardinality(task) < MaxTasks
    /\ Click
    /\ Control([lc EXCEPT !.loading = TRUE, !.state = "Authenticating",
                          !.loginTimer = TRUE])
    /\ Send("LOGIN", u)
    /\ hasty' = (hasty \/ \E k \in task : k.kind = "LOGIN" /\ k.who # u)
    /\ UNCHANGED <<sock, connecting, user, view, inbox, srv, room, underway,
                   crossed>>

(* The user, on the chat page.                                             *)

SendMessage ==
    /\ chats > 0
    /\ sock = "connected"
    /\ Cardinality(task) < MaxTasks
    /\ Click
    /\ Send("BROADCAST", NoUser)
    /\ UNCHANGED <<client, view, inbox, srv, room, underway, histories>>

\* ChatBackend::logout, then disconnectFromServer: the socket is aborted, which
\* signals disconnected, and the LOGOUT may be lost.
Logout ==
    /\ chats > 0
    /\ sock = "connected"
    /\ Click
    /\ user' = NoUser
    /\ sock' = "closed"
    /\ Control(OnDisconnected(lc))
    /\ Hangup
    /\ UNCHANGED <<connecting, view>>

-----------------------------------------------------------------------------
(* The socket.                                                             *)

SocketConnected ==
    /\ sock = "connecting"
    /\ sock' = "connected"
    /\ connecting' = FALSE
    /\ Control(OnConnected(lc))
    /\ UNCHANGED <<user, view, inbox, server, clicks, histories>>

\* Mutant of SocketFails: as Qt need not signal disconnected, the flag stays.
SocketFailsStuck ==
    /\ sock = "connecting"
    /\ sock' = "closed"
    /\ Control(OnDisconnected(lc))
    /\ UNCHANGED <<connecting, user, view, inbox, server, clicks, histories>>

\* on_socket_error of a socket that never connected.
SocketFails ==
    /\ sock = "connecting"
    /\ sock' = "closed"
    /\ connecting' = FALSE
    /\ Control(OnDisconnected(lc))
    /\ UNCHANGED <<user, view, inbox, server, clicks, histories>>

SocketDisconnected ==
    /\ sock = "connected"
    /\ sock' = "closed"
    /\ Control(OnDisconnected(lc))
    /\ Hangup
    /\ UNCHANGED <<connecting, user, view, clicks>>

(* The timers of LoginController.                                          *)

\* The socket goes on connecting.
OnConnectTimeout ==
    /\ lc.connectTimer
    /\ Control([StopConnecting(lc) EXCEPT !.state = "Disconnected"])
    /\ UNCHANGED <<sock, connecting, user, view, inbox, server, clicks, histories>>

OnLoginTimeout ==
    /\ lc.loginTimer
    /\ Control([lc EXCEPT !.loginTimer = FALSE, !.loading = FALSE])
    /\ UNCHANGED <<sock, connecting, user, view, inbox, server, clicks, histories>>

-----------------------------------------------------------------------------
(* process_frames and dispatch_message: the next frame.                    *)

Receive(type) ==
    /\ inbox # <<>>
    /\ Head(inbox).type = type
    /\ inbox' = Tail(inbox)

\* A new ChatWindow asks for the history of the room.
ReceiveLoginOk ==
    /\ Receive("LOGIN_OK")
    /\ user' = Head(inbox).from
    /\ Control(OnLoginOk(lc))
    /\ IF chats' > chats THEN Send("HISTORY_REQ", NoUser)
                         ELSE UNCHANGED <<task, sent>>
    /\ UNCHANGED <<sock, connecting, view, srv, room, underway, clicks, histories>>

ReceiveError ==
    /\ Receive("ERROR")
    /\ Control(OnErrorReceived(lc))
    /\ UNCHANGED <<sock, connecting, user, view, server, clicks, histories>>

ReceiveBroadcast ==
    /\ Receive("BROADCAST")
    /\ view' = Append(view, Head(inbox).num)
    /\ UNCHANGED <<client, server, clicks, histories>>

Listed(rows) == [i \in 1..(rows.last - rows.first + 1) |-> rows.first + i - 1]

\* Mutant of ReceiveHistory: what is shown is kept.
ReceiveHistoryAppends ==
    /\ Receive("HISTORY_RESP")
    /\ view' = view \o Listed(Head(inbox).rows)
    /\ UNCHANGED <<client, server, clicks, histories>>

\* loadFromJsonArray replaces what is shown.
ReceiveHistory ==
    /\ Receive("HISTORY_RESP")
    /\ view' = Listed(Head(inbox).rows)
    /\ UNCHANGED <<client, server, clicks, histories>>

-----------------------------------------------------------------------------
(* The server.                                                             *)

Step(k, l) == task' = (task \ {k}) \cup {[k EXCEPT !.pc = l]}
Done(k) == task' = task \ {k}
Answer(frame) == inbox' = Append(inbox, frame)

\* route: a connection that is logged in has no LOGIN, any other nothing else.
Route(k) ==
    /\ k.pc = "sent"
    /\ IF (k.kind = "LOGIN") # (srv = NoUser)
       THEN Step(k, "error")
       ELSE Step(k, IF k.kind = "HISTORY_REQ" THEN "read" ELSE "run")
    /\ UNCHANGED <<client, view, inbox, srv, sent, room, underway, clicks, histories>>

\* A LOGIN that succeeds; a name that is on a connection is refused.
Grant(k) ==
    /\ k.kind = "LOGIN" /\ k.pc = "run"
    /\ srv # k.who
    /\ srv' = k.who
    /\ Step(k, "ok")
    /\ UNCHANGED <<client, view, inbox, sent, room, underway, clicks, histories>>

\* Any other LOGIN, and a message that is too long.
Refuse(k) ==
    /\ k.pc = "run"
    /\ Step(k, "error")
    /\ UNCHANGED <<client, view, inbox, srv, sent, room, underway, clicks, histories>>

ReplyError(k) ==
    /\ k.pc = "error"
    /\ Answer([type |-> "ERROR"])
    /\ Done(k)
    /\ UNCHANGED <<client, view, srv, sent, room, underway, clicks, histories>>

\* finish_login: LOGIN_OK, then push_history.
ReplyOk(k) ==
    /\ k.pc = "ok"
    /\ Answer([type |-> "LOGIN_OK", from |-> k.who])
    /\ task' = (task \ {k}) \cup {[k EXCEPT !.pc = "read", !.limit = PushLimit]}
    /\ UNCHANGED <<client, view, srv, sent, room, underway, clicks, histories>>

Newest(limit) ==
    [first |-> IF room > limit THEN room - limit + 1 ELSE 1, last |-> room]

ReadHistory(k) ==
    /\ k.pc = "read"
    /\ task' = (task \ {k})
                  \cup {[k EXCEPT !.pc = "send", !.rows = Newest(k.limit)]}
    /\ crossed' = (crossed \/ underway # {})
    /\ UNCHANGED <<client, view, inbox, srv, sent, room, underway, clicks, hasty>>

SendHistory(k) ==
    /\ k.pc = "send"
    /\ Answer([type |-> "HISTORY_RESP", rows |-> k.rows])
    /\ Done(k)
    /\ UNCHANGED <<client, view, srv, sent, room, underway, clicks, histories>>

\* Mutant of Store: the message goes out and is not stored.
StoreForgets ==
    /\ room < MaxRoom
    /\ room' = room
    /\ underway' = underway \cup {room + 1}
    /\ crossed' = (crossed \/ \E k \in task : k.pc = "send")

\* A message of the room is stored, and then sent to those logged in.
Store ==
    /\ room < MaxRoom
    /\ room' = room + 1
    /\ underway' = underway \cup {room + 1}
    /\ crossed' = (crossed \/ \E k \in task : k.pc = "send")

Broadcast(k) ==
    /\ k.kind = "BROADCAST" /\ k.pc = "run"
    /\ Store
    /\ Done(k)
    /\ UNCHANGED <<client, view, inbox, srv, sent, clicks, hasty>>

\* Another client's message.
Post ==
    /\ Store
    /\ UNCHANGED <<client, view, inbox, srv, task, sent, clicks, hasty>>

Deliver(n) ==
    /\ underway' = underway \ {n}
    /\ IF srv = NoUser THEN UNCHANGED inbox
                       ELSE Answer([type |-> "BROADCAST", num |-> n])
    /\ UNCHANGED <<client, view, srv, task, sent, room, clicks, histories>>

Handle(k) ==
    \/ Route(k) \/ Grant(k) \/ Refuse(k) \/ ReplyError(k) \/ ReplyOk(k)
    \/ ReadHistory(k) \/ SendHistory(k) \/ Broadcast(k)

Next ==
    \/ ConnectToServer \/ SendMessage \/ Logout
    \/ \E u \in User : Login(u)
    \/ SocketConnected \/ SocketFails \/ SocketDisconnected
    \/ OnConnectTimeout \/ OnLoginTimeout
    \/ ReceiveLoginOk \/ ReceiveError \/ ReceiveBroadcast \/ ReceiveHistory
    \/ \E k \in task : Handle(k)
    \/ \E n \in underway : Deliver(n)
    \/ Post

Spec == Init /\ [][Next]_vars

-----------------------------------------------------------------------------
(* Properties.                                                             *)

\* Whoever waits is freed by a timer (m_isLoading).
LoadingHasTimer == lc.loading => lc.connectTimer \/ lc.loginTimer

\* ChatClient believes to be connecting while its socket is, and only then: else
\* it would ignore every later attempt; LoginController is as impatient as it.
ConnectingAgrees ==
    /\ connecting <=> sock = "connecting"
    /\ lc.isConnecting => connecting /\ lc.connectTimer

\* The chat page is shown over a connection, and gone when it is lost.
PageFits ==
    /\ chats > 0 => sock = "connected"
                       /\ lc.state \in {"Authenticating", "Authenticated"}
    /\ lc.state = "Authenticated" => chats > 0
    /\ lc.state = "Connecting" => lc.isConnecting

\* Only a connection has frames on it, and a name on the server.
WireFits == sock # "connected" => inbox = <<>> /\ task = {} /\ srv = NoUser

\* The flags, timers and pages of the client fit its socket, whatever clicks,
\* answers and timeouts come in between (LoginController, ChatClient, main.qml).
ClientInv == LoadingHasTimer /\ ConnectingAgrees /\ PageFits /\ WireFits

Quiet == sock = "connected" /\ inbox = <<>> /\ task = {} /\ underway = {}

\* When all is answered the client is on the chat page, once and under the name
\* that the server has for it, or neither of them is logged in; logins that timed
\* out and were repeated included (onLoginTimeout), those for another name while
\* the first was tried excepted (onLoginOk takes the name of the later answer).
UserAgrees ==
    Quiet /\ ~hasty =>
        IF srv = NoUser THEN chats = 0 ELSE chats = 1 /\ user = srv

Shown == {view[i] : i \in 1..Len(view)}

\* When all is answered the room's messages are shown, each once, up to the last
\* and back to the first or as far as the history goes, unless a message was on
\* its way while a history was (ChatBackend replaces the list by each history).
RoomFaithful ==
    Quiet /\ srv # NoUser /\ ~crossed =>
        /\ Cardinality(Shown) = Len(view)
        /\ \E a \in 1..(room + 1) :
               /\ Shown = a..room
               /\ a = 1 \/ room - a + 1 >= PushLimit

(* The inductive invariant behind RoomFaithful: what the client will show    *)
(* once it has received what is on its way.                                  *)

\* Where the frames q have a history, and which is the last.
HistoriesIn(q) == {i \in 1..Len(q) : q[i].type = "HISTORY_RESP"}
IsLast(q, p) == p \in HistoriesIn(q) /\ \A i \in HistoriesIn(q) : i <= p

\* The messages that follow place p of q, and that they do so once each.
NewerIn(q, p) == {i \in (p + 1)..Len(q) : q[i].type = "BROADCAST"}
Nums(q, p) == {q[i].num : i \in NewerIn(q, p)}
Once(q, p) == \A i, j \in NewerIn(q, p) : q[i].num = q[j].num => i = j

\* The messages first .. last go back as far as RoomFaithful asks for.
Enough(first, last) == first = 1 \/ last - first + 1 >= PushLimit

\* K, N and U are disjoint, and together the newest messages up to last.
Tile(K, N, U, last) ==
    /\ K \cap N = {} /\ K \cap U = {} /\ N \cap U = {}
    /\ \E a \in 1..(last + 1) : K \cup N \cup U = a..last /\ Enough(a, last)

\* The messages of K become complete by those that follow place p on the wire
\* and those that are still to be sent.
Completed(K, p) == Once(inbox, p) /\ Tile(K, Nums(inbox, p), underway, room)

\* Answers are limited as the push is, at least.
LimitsHigh == \A k \in task : k.limit >= PushLimit

\* Only who is logged in is sent a history.
HistoryForUser ==
    srv = NoUser => /\ HistoriesIn(inbox) = {}
                    /\ \A k \in task : k.pc \notin {"ok", "read", "send"}

\* A history that is about to be sent is up to date.
SendsCurrent ==
    \A k \in task : k.pc = "send" =>
        underway = {} /\ k.rows.last = room /\ Enough(k.rows.first, room)

\* The last history on its way becomes complete.
WireComplete ==
    \A p \in 1..Len(inbox) : IsLast(inbox, p) =>
        Completed(inbox[p].rows.first..inbox[p].rows.last, p)

\* The login has still to push its history.
Pushing == \E k \in task : k.kind = "LOGIN" /\ k.pc \in {"ok", "read", "send"}

\* And with no history to come, the list that is shown does.
ListComplete ==
    \/ Pushing
    \/ HistoriesIn(inbox) # {}
    \/ /\ \A i, j \in 1..Len(view) : view[i] = view[j] => i = j
       /\ Completed(Shown, 0)

FaithInv ==
    /\ LimitsHigh
    /\ HistoryForUser
    /\ srv # NoUser /\ ~crossed => SendsCurrent /\ WireComplete /\ ListComplete
=============================================================================
