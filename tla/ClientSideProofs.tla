--------------------------- MODULE ClientSideProofs ---------------------------
(***************************************************************************)
(* ClientInv holds in every state of ClientSide, whatever the names and the *)
(* limits: the flags, timers and pages of the client fit its socket.  Then  *)
(* type correctness; UserAgrees: the client works under the name the server *)
(* has logged in; and RoomFaithful, from FaithInv: the list it shows is the *)
(* room.                                                                    *)
(***************************************************************************)
EXTENDS ClientSide, SequenceTheorems, FunctionTheorems, FiniteSetTheorems, TLAPS

\* The types of the variables ClientInv speaks of.
Controller ==
    [state : State, isConnecting : BOOLEAN, loading : BOOLEAN,
     connectTimer : BOOLEAN, loginTimer : BOOLEAN]
ControlType ==
    /\ sock \in {"closed", "connecting", "connected"}
    /\ connecting \in BOOLEAN
    /\ lc \in Controller
    /\ chats \in Nat

IInv == ControlType /\ ClientInv

\* The variables ClientInv speaks of; the rest of the state may change.
controls == <<sock, connecting, lc, chats>>

\* A step that leaves the client alone, answers or not, keeps the invariant
\* where the server had anything to answer on (ReceiveBroadcast, the server).
LEMMA ServerStep ==
    ASSUME IInv, UNCHANGED controls, sock = "connected"
    PROVE  IInv'
  BY DEF IInv, ControlType, Controller, ClientInv, LoadingHasTimer,
         ConnectingAgrees, PageFits, WireFits, controls

\* The slots of LoginController keep its type (login_controller.cpp).
LEMMA SlotTypes ==
    ASSUME NEW c \in Controller
    PROVE  /\ StopConnecting(c) \in Controller
           /\ OnConnected(c) \in Controller
           /\ OnDisconnected(c) \in Controller
           /\ OnLoginOk(c) \in Controller
           /\ OnErrorReceived(c) \in Controller
           /\ [StopConnecting(c) EXCEPT !.state = "Disconnected"] \in Controller
           /\ [c EXCEPT !.loginTimer = FALSE, !.loading = FALSE] \in Controller
           /\ [c EXCEPT !.loading = TRUE, !.state = "Authenticating",
                        !.loginTimer = TRUE] \in Controller
           /\ [c EXCEPT !.isConnecting = TRUE, !.loading = TRUE,
                        !.state = "Connecting", !.connectTimer = TRUE]
                  \in Controller
  BY DEF Controller, State, StopConnecting, OnConnected, OnDisconnected,
         OnLoginOk, OnErrorReceived

\* Whatever a slot did, the pages are a number.
LEMMA ControlTypes ==
    ASSUME ControlType, NEW c \in Controller, Control(c)
    PROVE  lc' = c /\ lc' \in Controller /\ chats' \in Nat
  BY DEF ControlType, Control, Pages

\* Conclusion of each step: the parts of the invariant.
LEMMA Parts ==
    ASSUME ControlType', LoadingHasTimer', ConnectingAgrees', PageFits',
           WireFits'
    PROVE  IInv'
  BY DEF IInv, ClientInv

\* The connection is gone, or never came about: disconnected, connection_error
\* and the logout (on_socket_disconnected, on_socket_error).
LEMMA LostStep ==
    ASSUME IInv, sock' = "closed", connecting' = FALSE,
           NEW c \in Controller, Control(OnDisconnected(c)),
           inbox' = <<>>, task' = {}, srv' = NoUser,
           lc.state # "Disconnected" \/ chats = 0
    PROVE  IInv'
  <1>1. OnDisconnected(c) \in Controller
    BY SlotTypes
  <1>2. lc' = OnDisconnected(c) /\ chats' \in Nat
    BY <1>1, ControlTypes DEF IInv
  <1>3. /\ lc'.state = "Disconnected" /\ lc'.isConnecting = FALSE
        /\ lc'.loading = FALSE
    BY <1>2 DEF OnDisconnected, StopConnecting, Controller
  <1>4. chats' = 0
    BY <1>2, <1>3 DEF Control, Pages
  <1>5. ControlType'
    BY <1>1, <1>2 DEF ControlType
  <1>6. LoadingHasTimer'
    BY <1>3 DEF LoadingHasTimer
  <1>7. ConnectingAgrees'
    BY <1>3 DEF ConnectingAgrees
  <1>8. PageFits'
    BY <1>3, <1>4 DEF PageFits
  <1>9. WireFits'
    BY DEF WireFits
  <1> QED
    BY <1>5, <1>6, <1>7, <1>8, <1>9, Parts

\* connectToServer: the flags are raised, then ChatClient takes the address,
\* ignores it, or fails at once.
LEMMA ConnectStep ==
    ASSUME IInv, ConnectToServer
    PROVE  IInv'
  <1> DEFINE c == [lc EXCEPT !.isConnecting = TRUE, !.loading = TRUE,
                             !.state = "Connecting", !.connectTimer = TRUE]
  <1>0. lc \in Controller /\ chats = 0 /\ chats \in Nat
    BY DEF IInv, ControlType, ConnectToServer
  <1>1. c \in Controller
    BY <1>0, SlotTypes
  <1>2. /\ c.state = "Connecting" /\ c.isConnecting = TRUE
        /\ c.loading = TRUE /\ c.connectTimer = TRUE
    BY <1>0 DEF Controller
  <1> HIDE DEF c
  <1>3. CASE /\ sock' = "connecting" /\ connecting' = TRUE /\ Control(c)
             /\ inbox' = <<>> /\ task' = {} /\ srv' = NoUser
    <2>1. lc' = c /\ lc' \in Controller /\ chats' = 0
      BY <1>0, <1>1, <1>2, <1>3 DEF Control, Pages
    <2>2. ControlType'
      BY <1>3, <2>1 DEF ControlType
    <2>3. LoadingHasTimer'
      BY <1>2, <2>1 DEF LoadingHasTimer
    <2>4. ConnectingAgrees'
      BY <1>2, <1>3, <2>1 DEF ConnectingAgrees
    <2>5. PageFits'
      BY <1>2, <2>1 DEF PageFits
    <2>6. WireFits'
      BY <1>3 DEF WireFits
    <2> QED
      BY <2>2, <2>3, <2>4, <2>5, <2>6, Parts
  <1>4. CASE /\ connecting = TRUE /\ Control(c)
             /\ UNCHANGED <<sock, connecting, inbox, task, srv>>
    <2>1. lc' = c /\ lc' \in Controller /\ chats' = 0
      BY <1>0, <1>1, <1>2, <1>4 DEF Control, Pages
    <2>2. sock = "connecting" /\ inbox = <<>> /\ task = {} /\ srv = NoUser
      BY <1>4 DEF IInv, ClientInv, ConnectingAgrees, WireFits
    <2>3. ControlType'
      BY <1>4, <2>1 DEF IInv, ControlType
    <2>4. LoadingHasTimer'
      BY <1>2, <2>1 DEF LoadingHasTimer
    <2>5. ConnectingAgrees'
      BY <1>2, <1>4, <2>1, <2>2 DEF ConnectingAgrees
    <2>6. PageFits'
      BY <1>2, <2>1 DEF PageFits
    <2>7. WireFits'
      BY <1>4, <2>2 DEF WireFits
    <2> QED
      BY <2>3, <2>4, <2>5, <2>6, <2>7, Parts
  <1>5. CASE /\ sock' = "closed" /\ connecting' = FALSE
             /\ Control(OnDisconnected(c))
             /\ inbox' = <<>> /\ task' = {} /\ srv' = NoUser
    BY <1>0, <1>1, <1>5, LostStep
  <1>6. connecting \in BOOLEAN
    BY DEF IInv, ControlType
  <1> QED
    BY <1>3, <1>4, <1>5, <1>6 DEF ConnectToServer, TryAddress, Hangup, server, c

\* A slot that ran while the socket kept its state: what it must leave behind.
LEMMA SlotStep ==
    ASSUME IInv, NEW c \in Controller, Control(c),
           UNCHANGED <<sock, connecting>>,
           c.loading => c.connectTimer \/ c.loginTimer,
           c.isConnecting => lc.isConnecting /\ c.connectTimer,
           \/ c.state = lc.state /\ (c.state = "Connecting" => c.isConnecting)
           \/ c.state \in {"Authenticating", "Authenticated"}
              /\ sock = "connected"
           \/ c.state = "Disconnected",
           sock # "connected" => inbox' = <<>> /\ task' = {} /\ srv' = NoUser
    PROVE  IInv'
  <1>1. lc' = c /\ lc' \in Controller /\ chats' \in Nat
    BY ControlTypes DEF IInv
  <1>2. chats' = Pages(c) /\ chats \in Nat
    BY DEF Control, IInv, ControlType
  <1>3. ControlType'
    BY <1>1 DEF IInv, ControlType
  <1>4. LoadingHasTimer'
    BY <1>1 DEF LoadingHasTimer
  <1>5. connecting' <=> sock' = "connecting"
    BY DEF IInv, ClientInv, ConnectingAgrees
  <1>6. lc'.isConnecting => connecting' /\ lc'.connectTimer
    BY <1>1 DEF IInv, ClientInv, ConnectingAgrees
  <1>7. PageFits'
    BY <1>1, <1>2 DEF IInv, ClientInv, PageFits, Pages
  <1>8. WireFits'
    BY DEF WireFits
  <1> QED
    BY <1>3, <1>4, <1>5, <1>6, <1>7, <1>8, Parts DEF ConnectingAgrees

\* on_socket_connected.
LEMMA ConnectedStep ==
    ASSUME IInv, SocketConnected
    PROVE  IInv'
  <1>1. lc \in Controller
    BY DEF IInv, ControlType
  <1>2. OnConnected(lc) \in Controller
    BY <1>1, SlotTypes
  <1>3. lc' = OnConnected(lc) /\ chats' = Pages(OnConnected(lc)) /\ chats' \in Nat
    BY <1>2, ControlTypes DEF IInv, SocketConnected, Control
  <1>4. /\ lc'.state = "Authenticating" /\ lc'.isConnecting = FALSE
        /\ lc'.loading = FALSE
    BY <1>1, <1>3 DEF OnConnected, StopConnecting, Controller
  <1>5. sock' = "connected" /\ connecting' = FALSE
    BY DEF SocketConnected
  <1>6. ControlType'
    BY <1>2, <1>3, <1>5 DEF ControlType
  <1>7. LoadingHasTimer'
    BY <1>4 DEF LoadingHasTimer
  <1>8. ConnectingAgrees'
    BY <1>4, <1>5 DEF ConnectingAgrees
  <1>9. PageFits'
    BY <1>4, <1>5 DEF PageFits
  <1>10. WireFits'
    BY <1>5 DEF WireFits
  <1> QED
    BY <1>6, <1>7, <1>8, <1>9, <1>10, Parts

\* The client's own events.
LEMMA ClientStep ==
    ASSUME IInv,
           \/ ConnectToServer \/ SendMessage \/ Logout
           \/ \E u \in User : Login(u)
           \/ SocketConnected \/ SocketFails \/ SocketDisconnected
           \/ OnConnectTimeout \/ OnLoginTimeout
           \/ ReceiveLoginOk \/ ReceiveError \/ ReceiveBroadcast
           \/ ReceiveHistory
    PROVE  IInv'
  <1>1. lc \in Controller /\ sock \in {"closed", "connecting", "connected"}
    BY DEF IInv, ControlType
  <1>2. lc.state # "Disconnected" \/ chats = 0
    BY DEF IInv, ControlType, ClientInv, PageFits
  <1>3. inbox # <<>> => sock = "connected"
    BY DEF IInv, ClientInv, WireFits
  <1>4. /\ lc.isConnecting => connecting /\ lc.connectTimer
        /\ connecting <=> sock = "connecting"
        /\ lc.loading => lc.connectTimer \/ lc.loginTimer
        /\ lc.state = "Connecting" => lc.isConnecting
        /\ sock # "connected" => inbox = <<>> /\ task = {} /\ srv = NoUser
    BY DEF IInv, ClientInv, ConnectingAgrees, LoadingHasTimer, PageFits, WireFits
  <1>a. CASE ConnectToServer
    BY <1>a, ConnectStep
  <1>b. CASE SendMessage
    BY <1>b, ServerStep DEF SendMessage, client, controls
  <1>c. CASE Logout
    <2>1. connecting' = FALSE
      BY <1>4, <1>c DEF Logout, IInv, ControlType
    <2> QED
      BY <1>1, <1>2, <1>c, <2>1, LostStep DEF Logout, Hangup
  <1>d. ASSUME NEW u \in User, Login(u)
        PROVE  IInv'
    <2> DEFINE c == [lc EXCEPT !.loading = TRUE, !.state = "Authenticating",
                               !.loginTimer = TRUE]
    <2>1. c \in Controller
      BY <1>1, SlotTypes
    <2>2. /\ c.state = "Authenticating" /\ c.loginTimer = TRUE
          /\ c.isConnecting = lc.isConnecting
          /\ c.connectTimer = lc.connectTimer
      BY <1>1 DEF Controller
    <2>3. Control(c) /\ sock = "connected" /\ UNCHANGED <<sock, connecting>>
      BY <1>d DEF Login
    <2> HIDE DEF c
    <2> QED
      BY <1>4, <2>1, <2>2, <2>3, SlotStep
  <1>e. CASE SocketConnected
    BY <1>e, ConnectedStep
  <1>f. CASE SocketFails
    BY <1>1, <1>2, <1>4, <1>f, LostStep DEF SocketFails, server
  <1>g. CASE SocketDisconnected
    <2>1. connecting' = FALSE
      BY <1>4, <1>g DEF SocketDisconnected, IInv, ControlType
    <2> QED
      BY <1>1, <1>2, <1>g, <2>1, LostStep DEF SocketDisconnected, Hangup
  <1>h. CASE OnConnectTimeout
    <2> DEFINE c == [StopConnecting(lc) EXCEPT !.state = "Disconnected"]
    <2>1. c \in Controller
      BY <1>1, SlotTypes
    <2>2. c.state = "Disconnected" /\ c.loading = FALSE /\ c.isConnecting = FALSE
      BY <1>1 DEF Controller, StopConnecting
    <2>3. Control(c) /\ UNCHANGED <<sock, connecting, inbox, task, srv>>
      BY <1>h DEF OnConnectTimeout, server
    <2> HIDE DEF c
    <2> QED
      BY <1>4, <2>1, <2>2, <2>3, SlotStep
  <1>i. CASE OnLoginTimeout
    <2> DEFINE c == [lc EXCEPT !.loginTimer = FALSE, !.loading = FALSE]
    <2>1. c \in Controller
      BY <1>1, SlotTypes
    <2>2. /\ c.state = lc.state /\ c.loading = FALSE
          /\ c.isConnecting = lc.isConnecting /\ c.connectTimer = lc.connectTimer
      BY <1>1 DEF Controller
    <2>3. Control(c) /\ UNCHANGED <<sock, connecting, inbox, task, srv>>
      BY <1>i DEF OnLoginTimeout, server
    <2> HIDE DEF c
    <2> QED
      BY <1>4, <2>1, <2>2, <2>3, SlotStep
  <1>j. CASE ReceiveLoginOk
    <2>1. sock = "connected" /\ lc.isConnecting = FALSE
      BY <1>1, <1>3, <1>4, <1>j DEF ReceiveLoginOk, Receive, Controller
    <2>2. OnLoginOk(lc) \in Controller
      BY <1>1, SlotTypes
    <2>3. /\ OnLoginOk(lc).state = "Authenticated"
          /\ OnLoginOk(lc).loading = FALSE
          /\ OnLoginOk(lc).isConnecting = lc.isConnecting
      BY <1>1 DEF Controller, OnLoginOk
    <2>4. Control(OnLoginOk(lc)) /\ UNCHANGED <<sock, connecting>>
      BY <1>j DEF ReceiveLoginOk
    <2> QED
      BY <2>1, <2>2, <2>3, <2>4, SlotStep
  <1>k. CASE ReceiveError
    <2>1. sock = "connected" /\ lc.isConnecting = FALSE
      BY <1>1, <1>3, <1>4, <1>k DEF ReceiveError, Receive, Controller
    <2>2. OnErrorReceived(lc) \in Controller
      BY <1>1, SlotTypes
    <2>3. /\ OnErrorReceived(lc).state = "Authenticating"
          /\ OnErrorReceived(lc).loading = FALSE
          /\ OnErrorReceived(lc).isConnecting = lc.isConnecting
      BY <1>1 DEF Controller, OnErrorReceived
    <2>4. Control(OnErrorReceived(lc)) /\ UNCHANGED <<sock, connecting>>
      BY <1>k DEF ReceiveError
    <2> QED
      BY <2>1, <2>2, <2>3, <2>4, SlotStep
  <1>l. CASE ReceiveBroadcast
    BY <1>3, <1>l, ServerStep DEF ReceiveBroadcast, Receive, client, controls
  <1>m. CASE ReceiveHistory
    BY <1>3, <1>m, ServerStep DEF ReceiveHistory, Receive, client, controls
  <1> QED
    BY <1>a, <1>b, <1>c, <1>d, <1>e, <1>f, <1>g, <1>h, <1>i, <1>j, <1>k, <1>l,
       <1>m

\* What the server does is nothing to the client until it is received.
LEMMA HandleStep ==
    ASSUME IInv, NEW k \in task, Handle(k)
    PROVE  IInv'
  <1>1. sock = "connected"
    BY DEF IInv, ClientInv, WireFits
  <1>2. UNCHANGED controls
    BY DEF Handle, Route, Grant, Refuse, ReplyError, ReplyOk, ReadHistory,
           SendHistory, Broadcast, client, controls
  <1> QED
    BY <1>1, <1>2, ServerStep

LEMMA DeliverStep ==
    ASSUME IInv, NEW n \in underway, Deliver(n)
    PROVE  IInv'
  <1>1. CASE sock = "connected"
    BY <1>1, ServerStep DEF Deliver, client, controls
  <1>2. CASE sock # "connected"
    BY <1>2 DEF IInv, ControlType, Controller, ClientInv, LoadingHasTimer,
                ConnectingAgrees, PageFits, WireFits, Deliver, client
  <1> QED
    BY <1>1, <1>2

\* Every step keeps the invariant.
LEMMA Inductive ==
    ASSUME IInv, [Next]_vars
    PROVE  IInv'
  <1>1. CASE Post
    BY <1>1 DEF Post, IInv, ControlType, Controller, ClientInv, LoadingHasTimer,
                ConnectingAgrees, PageFits, WireFits, client
  <1>2. CASE UNCHANGED vars
    BY <1>2 DEF vars, client, server, IInv, ControlType, Controller, ClientInv,
                LoadingHasTimer, ConnectingAgrees, PageFits, WireFits
  <1> QED
    BY <1>1, <1>2, ClientStep, HandleStep, DeliverStep DEF Next

LEMMA ClientInit == Init => IInv
  <1> SUFFICES ASSUME Init PROVE IInv
    OBVIOUS
  <1>1. ControlType
    BY DEF Init, ControlType, Controller, State
  <1>2. LoadingHasTimer /\ PageFits
    BY DEF Init, LoadingHasTimer, PageFits
  <1>3. ConnectingAgrees
    BY DEF Init, ConnectingAgrees
  <1>4. WireFits
    BY DEF Init, WireFits
  <1> QED
    BY <1>1, <1>2, <1>3, <1>4 DEF IInv, ClientInv

\* The flags, timers and pages of the client fit its socket in every state,
\* whatever the user, the timers, the network and the server do.
THEOREM ClientInvariant == Spec => [](ControlType /\ ClientInv)
  <1>1. Init => IInv
    BY ClientInit
  <1>2. IInv /\ [Next]_vars => IInv'
    BY Inductive
  <1> QED
    BY <1>1, <1>2, PTL DEF Spec, IInv

-----------------------------------------------------------------------------
(* The wire: what is queued, handled and shown.                            *)

\* A history that the database can have returned: rows of the room, or none.
Fits(rows) == rows.first \in 1..(rows.last + 1) /\ rows.last <= room

FrameFits(f) ==
    /\ f.type = "BROADCAST" => f.num \in 1..room
    /\ f.type = "HISTORY_RESP" => Fits(f.rows)

TaskFits(k) ==
    /\ k.kind = "LOGIN" => k.who \in User
    /\ k.pc = "ok" => k.kind = "LOGIN"
    /\ k.pc = "send" => Fits(k.rows)

InboxFits ==
    inbox \in Seq(Frame) /\ \A i \in 1..Len(inbox) : FrameFits(inbox[i])
TasksFit == task \subseteq Task /\ \A k \in task : TaskFits(k)
ShownFits ==
    /\ user \in User \cup {NoUser}
    /\ view \in Seq(1..room)
Scalars ==
    /\ srv \in User \cup {NoUser}
    /\ sent \in Nat /\ room \in Nat /\ clicks \in Nat
    /\ underway \subseteq 1..room
    /\ hasty \in BOOLEAN /\ crossed \in BOOLEAN

WireType == InboxFits /\ TasksFit /\ ShownFits /\ Scalars

\* What is taken from the wire fits, and so does what is left.
LEMMA ReceiveFits ==
    ASSUME InboxFits, NEW type, Receive(type), room' = room
    PROVE  /\ InboxFits'
           /\ Head(inbox) \in Frame /\ Head(inbox).type = type
           /\ FrameFits(Head(inbox)) /\ Head(inbox) = inbox[1]
  <1>1. /\ inbox \in Seq(Frame) /\ inbox # <<>> /\ inbox' = Tail(inbox)
        /\ Head(inbox).type = type
    BY DEF InboxFits, Receive
  <1>2. /\ Head(inbox) = inbox[1] /\ Head(inbox) \in Frame
        /\ Tail(inbox) \in Seq(Frame) /\ Len(Tail(inbox)) = Len(inbox) - 1
        /\ \A i \in 1..Len(Tail(inbox)) : Tail(inbox)[i] = inbox[i + 1]
    BY <1>1, HeadTailProperties
  <1>3. 1 \in 1..Len(inbox)
    BY <1>1, EmptySeq, LenProperties
  <1>4. \A i \in 1..Len(inbox') : i + 1 \in 1..Len(inbox)
    BY <1>1, <1>2, LenProperties
  <1> QED
    BY <1>1, <1>2, <1>3, <1>4 DEF InboxFits, FrameFits, Fits

LEMMA AnswerFits ==
    ASSUME InboxFits, NEW f \in Frame, FrameFits(f), Answer(f), room' = room
    PROVE  InboxFits'
  <1>1. /\ inbox' \in Seq(Frame) /\ Len(inbox') = Len(inbox) + 1
        /\ \A i \in 1..Len(inbox) : inbox'[i] = inbox[i]
        /\ inbox'[Len(inbox) + 1] = f
    BY AppendProperties DEF InboxFits, Answer
  <1>2. \A i \in 1..Len(inbox') : i \in 1..Len(inbox) \/ i = Len(inbox) + 1
    BY <1>1, LenProperties DEF InboxFits
  <1> QED
    BY <1>1, <1>2 DEF InboxFits, FrameFits, Fits

LEMMA SendFits ==
    ASSUME TasksFit, Scalars, NEW kind \in {"LOGIN", "BROADCAST", "HISTORY_REQ"},
           NEW who \in User \cup {NoUser}, kind = "LOGIN" => who \in User,
           Send(kind, who), room' = room
    PROVE  TasksFit' /\ sent' \in Nat
  <1>1. NewTask(kind, who) \in Task
    BY ClientAssumption DEF NewTask, Task, Rows, Scalars, ClientAssumption
  <1>2. TaskFits(NewTask(kind, who))
    BY DEF NewTask, TaskFits
  <1> QED
    BY <1>1, <1>2 DEF TasksFit, Send, Scalars, TaskFits, Fits

\* A frame goes on to label l, or is done.
LEMMA StepFits ==
    ASSUME TasksFit, NEW k \in task, NEW l \in {"run", "ok", "error", "read"},
           l = "ok" => k.kind = "LOGIN", Step(k, l) \/ Done(k), room' = room
    PROVE  TasksFit'
  <1>1. [k EXCEPT !.pc = l] \in Task /\ TaskFits([k EXCEPT !.pc = l])
    BY DEF TasksFit, Task, TaskFits
  <1> QED
    BY <1>1 DEF TasksFit, Step, Done, TaskFits, Fits

\* Messages are only added to the room: what fitted fits.
LEMMA RoomGrows ==
    ASSUME WireType, room' = room + 1
    PROVE  /\ \A f \in Frame : FrameFits(f) => FrameFits(f)'
           /\ \A k \in Task : TaskFits(k) => TaskFits(k)'
           /\ view \in Seq(1..room')
           /\ inbox' = inbox => InboxFits'
  <1>1. room \in Nat /\ 1..room \subseteq 1..room'
    BY DEF WireType, Scalars
  <1>2. \A rows \in Rows : Fits(rows) => Fits(rows)'
    BY <1>1 DEF Fits, Rows
  <1>3. \A f \in Frame : FrameFits(f) => FrameFits(f)'
    BY <1>1, <1>2 DEF FrameFits, Frame
  <1>4. \A k \in Task : TaskFits(k) => TaskFits(k)'
    BY <1>2 DEF TaskFits, Task
  <1>5. view \in Seq(1..room')
    BY <1>1, SeqDef DEF WireType, ShownFits
  <1>6. inbox' = inbox => InboxFits'
    <2>1. inbox \in Seq(Frame) /\ \A i \in 1..Len(inbox) : inbox[i] \in Frame
      BY ElementOfSeq DEF WireType, InboxFits
    <2> QED
      BY <1>3, <2>1 DEF WireType, InboxFits
  <1> QED
    BY <1>3, <1>4, <1>5, <1>6

LEMMA StoreFits ==
    ASSUME WireType, Store
    PROVE  /\ room' \in Nat /\ room' = room + 1 /\ underway' \subseteq 1..room'
           /\ crossed' \in BOOLEAN
  BY DEF WireType, Scalars, Store

\* loadFromJsonArray takes rows of the room.
LEMMA ListedFits ==
    ASSUME room \in Nat, NEW rows \in Rows, Fits(rows)
    PROVE  Listed(rows) \in Seq(1..room)
  <1>1. rows.last - rows.first + 1 \in Nat
    BY DEF Fits, Rows
  <1>2. \A i \in 1..(rows.last - rows.first + 1) : rows.first + i - 1 \in 1..room
    BY DEF Fits, Rows
  <1> QED
    BY <1>1, <1>2 DEF Listed

LEMMA HangupFits ==
    ASSUME WireType, Hangup
    PROVE  InboxFits' /\ TasksFit' /\ room' = room /\ srv' = NoUser
           /\ sent' \in Nat /\ underway' = {} /\ hasty' = FALSE /\ crossed' = FALSE
  BY EmptySeq DEF Hangup, InboxFits, TasksFit

\* What leaves the wire alone.
LEMMA WireKeep ==
    ASSUME WireType, UNCHANGED <<server, histories, inbox, view>>,
           user' = user, clicks' \in Nat
    PROVE  WireType'
  BY DEF WireType, InboxFits, TasksFit, ShownFits, Scalars, server, histories,
         FrameFits, TaskFits, Fits

LEMMA WireClientStep ==
    ASSUME WireType,
           \/ ConnectToServer \/ SendMessage \/ Logout
           \/ \E u \in User : Login(u)
           \/ SocketConnected \/ SocketFails \/ SocketDisconnected
           \/ OnConnectTimeout \/ OnLoginTimeout
           \/ ReceiveLoginOk \/ ReceiveError \/ ReceiveBroadcast
           \/ ReceiveHistory
    PROVE  WireType'
  <1>0. InboxFits /\ TasksFit /\ ShownFits /\ Scalars /\ clicks \in Nat
    BY DEF WireType, Scalars
  <1>1. CASE ConnectToServer
    <2>1. /\ UNCHANGED <<user, view>> /\ clicks' \in Nat
          /\ UNCHANGED <<server, histories, inbox>> \/ Hangup
      BY <1>0, <1>1 DEF ConnectToServer, TryAddress, Click
    <2>2. CASE Hangup
      BY <1>0, <2>1, <2>2, HangupFits DEF WireType, ShownFits, Scalars
    <2> QED
      BY <2>1, <2>2, WireKeep
  <1>2. CASE SendMessage
    BY <1>0, <1>2, SendFits
    DEF SendMessage, Click, histories, client, WireType, InboxFits, ShownFits,
        Scalars, FrameFits, Fits
  <1>3. CASE Logout
    <2>1. /\ Hangup /\ user' = NoUser /\ view' = view /\ clicks' \in Nat
      BY <1>0, <1>3 DEF Logout, Click
    <2>2. ShownFits'
      BY <1>0, <2>1, HangupFits DEF ShownFits
    <2>3. Scalars'
      BY <1>0, <2>1, HangupFits DEF Scalars
    <2> QED
      BY <2>1, <2>2, <2>3, HangupFits DEF WireType
  <1>4. ASSUME NEW u \in User, Login(u)
        PROVE  WireType'
    <2>1. Send("LOGIN", u) /\ room' = room /\ clicks' \in Nat
          /\ hasty' \in BOOLEAN
          /\ UNCHANGED <<user, view, inbox, srv, underway, crossed>>
      BY <1>0, <1>4 DEF Login, Click, Scalars
    <2> QED
      BY <1>0, <2>1, SendFits
      DEF WireType, InboxFits, ShownFits, Scalars, FrameFits, Fits
  <1>5. CASE SocketConnected \/ SocketFails \/ OnConnectTimeout \/ OnLoginTimeout
    BY <1>0, <1>5, WireKeep
    DEF SocketConnected, SocketFails, OnConnectTimeout, OnLoginTimeout
  <1>6. CASE SocketDisconnected
    BY <1>0, <1>6, HangupFits DEF SocketDisconnected, WireType, ShownFits, Scalars
  <1>7. CASE ReceiveLoginOk
    <2>1. /\ Receive("LOGIN_OK") /\ user' = Head(inbox).from
          /\ Send("HISTORY_REQ", NoUser) \/ UNCHANGED <<task, sent>>
          /\ UNCHANGED <<view, srv, room, underway, clicks, histories>>
      BY <1>7 DEF ReceiveLoginOk
    <2>2. /\ InboxFits' /\ Head(inbox) \in Frame
          /\ Head(inbox).type = "LOGIN_OK"
      BY <1>0, <2>1, ReceiveFits
    <2>3. user' \in User
      BY <2>1, <2>2 DEF Frame
    <2>4. TasksFit' /\ sent' \in Nat
      <3>1. CASE Send("HISTORY_REQ", NoUser)
        BY <1>0, <2>1, <3>1, SendFits
      <3>2. CASE UNCHANGED <<task, sent>>
        BY <1>0, <2>1, <3>2 DEF TasksFit, TaskFits, Fits, Scalars
      <3> QED
        BY <2>1, <3>1, <3>2
    <2> QED
      BY <1>0, <2>1, <2>2, <2>3, <2>4
      DEF WireType, ShownFits, Scalars, histories
  <1>8. CASE ReceiveError
    <2>1. /\ Receive("ERROR")
          /\ UNCHANGED <<user, view, server, clicks, histories>>
      BY <1>8 DEF ReceiveError
    <2>2. InboxFits'
      BY <1>0, <2>1, ReceiveFits DEF server
    <2> QED
      BY <1>0, <2>1, <2>2
      DEF WireType, TasksFit, TaskFits, Fits, ShownFits, Scalars, server,
          histories
  <1>9. CASE ReceiveBroadcast \/ ReceiveHistory
    <2>1. UNCHANGED <<client, server, clicks, histories>>
      BY <1>9 DEF ReceiveBroadcast, ReceiveHistory
    <2>2. InboxFits' /\ view' \in Seq(1..room)
      <3>1. CASE ReceiveBroadcast
        <4>1. /\ InboxFits' /\ Head(inbox).type = "BROADCAST"
              /\ FrameFits(Head(inbox))
          BY <1>0, <2>1, <3>1, ReceiveFits DEF ReceiveBroadcast, server
        <4> QED
          BY <1>0, <3>1, <4>1, AppendProperties
          DEF ReceiveBroadcast, FrameFits, ShownFits
      <3>2. CASE ReceiveHistory
        <4>1. /\ InboxFits' /\ Head(inbox) \in Frame
              /\ Head(inbox).type = "HISTORY_RESP" /\ FrameFits(Head(inbox))
          BY <1>0, <2>1, <3>2, ReceiveFits DEF ReceiveHistory, server
        <4>2. Head(inbox).rows \in Rows /\ Fits(Head(inbox).rows)
          BY <4>1 DEF Frame, FrameFits
        <4> QED
          BY <1>0, <3>2, <4>1, <4>2, ListedFits DEF ReceiveHistory, Scalars
      <3> QED
        BY <1>9, <3>1, <3>2
    <2> QED
      BY <1>0, <2>1, <2>2
      DEF WireType, TasksFit, TaskFits, Fits, ShownFits, Scalars, client, server,
          histories
  <1> QED
    BY <1>1, <1>2, <1>3, <1>4, <1>5, <1>6, <1>7, <1>8, <1>9

\* The server's steps change neither the name nor the list that is shown.
LEMMA WireServerStep ==
    ASSUME WireType,
           \/ \E k \in task : Handle(k)
           \/ \E n \in underway : Deliver(n)
           \/ Post
    PROVE  WireType'
  <1>0. /\ InboxFits /\ TasksFit /\ ShownFits /\ Scalars
        /\ room \in Nat /\ crossed \in BOOLEAN /\ hasty \in BOOLEAN
    BY DEF WireType, Scalars
  <1>1. ASSUME NEW k \in task, Route(k) \/ Grant(k) \/ Refuse(k)
        PROVE  WireType'
    <2>1. /\ UNCHANGED <<client, view, inbox, sent, room, underway, clicks,
                         histories>>
          /\ srv' \in User \cup {NoUser}
          /\ \E l \in {"run", "ok", "error", "read"} :
                 Step(k, l) /\ (l = "ok" => k.kind = "LOGIN")
      BY <1>0, <1>1
      DEF Route, Grant, Refuse, TasksFit, TaskFits, Scalars
    <2>2. TasksFit'
      BY <1>0, <2>1, StepFits
    <2> QED
      BY <1>0, <2>1, <2>2
      DEF WireType, InboxFits, FrameFits, Fits, ShownFits, Scalars, client,
          histories
  <1>2. ASSUME NEW k \in task, ReplyError(k)
        PROVE  WireType'
    <2>1. /\ Answer([type |-> "ERROR"]) /\ Done(k)
          /\ UNCHANGED <<client, view, srv, sent, room, underway, clicks,
                         histories>>
      BY <1>2 DEF ReplyError
    <2>2. InboxFits'
      BY <1>0, <2>1, AnswerFits DEF Frame, FrameFits
    <2>3. TasksFit'
      BY <1>0, <2>1, StepFits
    <2> QED
      BY <1>0, <2>1, <2>2, <2>3
      DEF WireType, ShownFits, Scalars, client, histories
  <1>3. ASSUME NEW k \in task, ReplyOk(k)
        PROVE  WireType'
    <2> DEFINE j == [k EXCEPT !.pc = "read", !.limit = PushLimit]
    <2>1. /\ Answer([type |-> "LOGIN_OK", from |-> k.who])
          /\ task' = (task \ {k}) \cup {j}
          /\ UNCHANGED <<client, view, srv, sent, room, underway, clicks,
                         histories>>
          /\ k.pc = "ok"
      BY <1>3 DEF ReplyOk
    <2>2. k \in Task /\ TaskFits(k) /\ k.who \in User
      BY <1>0, <2>1 DEF TasksFit, TaskFits
    <2>3. InboxFits'
      BY <1>0, <2>1, <2>2, AnswerFits DEF Frame, FrameFits
    <2>4. j \in Task /\ TaskFits(j)
      BY <2>2, ClientAssumption DEF Task, TaskFits, ClientAssumption
    <2> HIDE DEF j
    <2>5. TasksFit'
      BY <1>0, <2>1, <2>4 DEF TasksFit, TaskFits, Fits
    <2> QED
      BY <1>0, <2>1, <2>3, <2>5
      DEF WireType, ShownFits, Scalars, client, histories
  <1>4. ASSUME NEW k \in task, ReadHistory(k)
        PROVE  WireType'
    <2> DEFINE j == [k EXCEPT !.pc = "send", !.rows = Newest(k.limit)]
    <2>1. /\ task' = (task \ {k}) \cup {j}
          /\ crossed' \in BOOLEAN
          /\ UNCHANGED <<client, view, inbox, srv, sent, room, underway, clicks,
                         hasty>>
      BY <1>0, <1>4 DEF ReadHistory
    <2>2. k \in Task /\ TaskFits(k) /\ k.limit \in Nat
      BY <1>0 DEF TasksFit, Task
    <2>3. Newest(k.limit) \in Rows /\ Fits(Newest(k.limit))
      BY <1>0, <2>2 DEF Newest, Rows, Fits
    <2>4. j \in Task /\ TaskFits(j)
      BY <2>2, <2>3 DEF Task, TaskFits
    <2> HIDE DEF j
    <2>5. TasksFit'
      BY <1>0, <2>1, <2>4 DEF TasksFit, TaskFits, Fits
    <2> QED
      BY <1>0, <2>1, <2>5
      DEF WireType, InboxFits, FrameFits, Fits, ShownFits, Scalars, client
  <1>5. ASSUME NEW k \in task, SendHistory(k)
        PROVE  WireType'
    <2>1. /\ Answer([type |-> "HISTORY_RESP", rows |-> k.rows]) /\ Done(k)
          /\ UNCHANGED <<client, view, srv, sent, room, underway, clicks,
                         histories>>
          /\ k.pc = "send"
      BY <1>5 DEF SendHistory
    <2>2. k.rows \in Rows /\ Fits(k.rows)
      BY <1>0, <2>1 DEF TasksFit, Task, TaskFits
    <2>3. InboxFits'
      BY <1>0, <2>1, <2>2, AnswerFits DEF Frame, FrameFits
    <2>4. TasksFit'
      BY <1>0, <2>1, StepFits
    <2> QED
      BY <1>0, <2>1, <2>3, <2>4
      DEF WireType, ShownFits, Scalars, client, histories
  <1>6. ASSUME Store, task' \subseteq task,
               UNCHANGED <<client, view, inbox, srv, sent, clicks, hasty>>
        PROVE  WireType'
    <2>1. /\ room' \in Nat /\ room' = room + 1 /\ underway' \subseteq 1..room'
          /\ crossed' \in BOOLEAN
      BY <1>6, StoreFits
    <2>2. /\ view \in Seq(1..room') /\ InboxFits'
          /\ \A k \in Task : TaskFits(k) => TaskFits(k)'
      BY <1>6, <2>1, RoomGrows
    <2>3. TasksFit'
      BY <1>0, <1>6, <2>2 DEF TasksFit
    <2> QED
      BY <1>0, <1>6, <2>1, <2>2, <2>3 DEF WireType, ShownFits, Scalars, client
  <1>7. CASE Post
    BY <1>6, <1>7 DEF Post
  <1>8. ASSUME NEW k \in task, Broadcast(k)
        PROVE  WireType'
    BY <1>6, <1>8 DEF Broadcast, Done
  <1>9. ASSUME NEW n \in underway, Deliver(n)
        PROVE  WireType'
    <2>1. /\ UNCHANGED <<client, view, srv, task, sent, room, clicks, histories>>
          /\ underway' \subseteq underway
          /\ UNCHANGED inbox \/ Answer([type |-> "BROADCAST", num |-> n])
      BY <1>9 DEF Deliver
    <2>2. InboxFits'
      <3>1. n \in 1..room
        BY <1>0 DEF Scalars
      <3>2. CASE Answer([type |-> "BROADCAST", num |-> n])
        <4>1. /\ [type |-> "BROADCAST", num |-> n] \in Frame
              /\ FrameFits([type |-> "BROADCAST", num |-> n])
          BY <1>0, <3>1 DEF Frame, FrameFits
        <4> QED
          BY <1>0, <2>1, <3>2, <4>1, AnswerFits
      <3>3. CASE UNCHANGED inbox
        BY <1>0, <2>1, <3>3 DEF InboxFits, FrameFits, Fits
      <3> QED
        BY <2>1, <3>2, <3>3
    <2> QED
      BY <1>0, <2>1, <2>2
      DEF WireType, TasksFit, TaskFits, Fits, ShownFits, Scalars, client,
          histories
  <1> QED
    BY <1>1, <1>2, <1>3, <1>4, <1>5, <1>7, <1>8, <1>9 DEF Handle

LEMMA WireStep ==
    ASSUME WireType, [Next]_vars
    PROVE  WireType'
  <1>1. CASE UNCHANGED vars
    BY <1>1, WireKeep DEF vars, client, WireType, Scalars
  <1> QED
    BY <1>1, WireClientStep, WireServerStep DEF Next

LEMMA WireInit == Init => WireType
  <1> SUFFICES ASSUME Init PROVE WireType
    OBVIOUS
  <1>1. room \in Nat
    BY ClientAssumption DEF Init, ClientAssumption
  <1>2. /\ inbox = <<>> /\ view = <<>> /\ task = {} /\ user = NoUser
        /\ srv = NoUser /\ sent = 0 /\ underway = {} /\ clicks = 0
        /\ hasty = FALSE /\ crossed = FALSE
    BY DEF Init
  <1>3. inbox \in Seq(Frame) /\ view \in Seq(1..room)
    BY <1>2, EmptySeq
  <1>4. InboxFits
    BY <1>2, <1>3 DEF InboxFits
  <1>5. TasksFit
    BY <1>2 DEF TasksFit
  <1>6. ShownFits /\ Scalars
    BY <1>1, <1>2, <1>3 DEF ShownFits, Scalars
  <1> QED
    BY <1>4, <1>5, <1>6 DEF WireType

\* Type correctness: in every reachable state frames, tasks, pages and lists are
\* what the signals and slots of the client take them for, and no list shows a
\* message that the room has not got.
THEOREM TypeCorrect == Spec => []TypeOK
  <1>1. Init => WireType
    BY WireInit
  <1>2. WireType /\ [Next]_vars => WireType'
    BY WireStep
  <1>3. ControlType /\ WireType => TypeOK
    BY DEF ControlType, Controller, WireType, InboxFits, TasksFit, ShownFits,
           Scalars, TypeOK
  <1> QED
    BY <1>1, <1>2, <1>3, ClientInvariant, PTL DEF Spec

-----------------------------------------------------------------------------
(* The one LOGIN of a connection that succeeds.                            *)

\* The LOGIN that the server has granted and not yet answered, and where its
\* answer lies in the inbox.
Oks == {k \in task : k.pc = "ok"}
OkAt == {i \in 1..Len(inbox) : inbox[i].type = "LOGIN_OK"}

NotYet == Oks = {} /\ OkAt = {} /\ chats = 0
Granted ==
    (\E k \in task : Oks = {k} /\ k.who = srv) /\ OkAt = {} /\ chats = 0
Answered ==
    Oks = {} /\ (\E i \in OkAt : OkAt = {i} /\ inbox[i].from = srv) /\ chats = 0
Shows == Oks = {} /\ OkAt = {} /\ chats = 1 /\ user = srv

\* One LOGIN at most is granted on a connection, and then it is to be answered,
\* or its answer is on the way, or the client shows the chat page for it.
LoginFlow ==
    sock = "connected" /\ ~hasty =>
        /\ IF srv = NoUser THEN NotYet ELSE Granted \/ Answered \/ Shows
        /\ \A j, k \in task :
               j.kind = "LOGIN" /\ k.kind = "LOGIN" => j.who = k.who
        /\ \A k \in task :
               k.kind = "LOGIN" /\ k.pc = "run" /\ srv # NoUser => k.who = srv

\* No connect timeout throws the chat page away.
TimerOff == sock = "connected" => ~lc.connectTimer

FlowInv == IInv /\ WireType /\ LoginFlow /\ TimerOff

\* Only frames that are no granted LOGIN come, go or move on.
LEMMA FlowKeep ==
    ASSUME LoginFlow, UNCHANGED <<sock, srv, chats, user, hasty>>,
           Oks' = Oks, OkAt' = OkAt, \A i \in OkAt : inbox'[i] = inbox[i],
           \A k \in task' : k.kind = "LOGIN" =>
               \E j \in task : /\ j.kind = "LOGIN" /\ j.who = k.who
                               /\ k.pc = "run" => j.pc = "run" \/ srv = NoUser
    PROVE  LoginFlow'
  <1> SUFFICES ASSUME sock = "connected", ~hasty
               PROVE  LoginFlow'
    BY DEF LoginFlow
  <1>1. NotYet => NotYet'
    BY DEF NotYet
  <1>2. Granted => Granted'
    <2> HAVE Granted
    <2>1. PICK k \in task : Oks = {k} /\ k.who = srv
      BY DEF Granted
    <2>2. k \in task'
      BY <2>1 DEF Oks
    <2> QED
      BY <2>1, <2>2 DEF Granted
  <1>3. Answered => Answered'
    BY DEF Answered
  <1>4. Shows => Shows'
    BY DEF Shows
  <1>5. \A j, k \in task' :
            j.kind = "LOGIN" /\ k.kind = "LOGIN" => j.who = k.who
    BY DEF LoginFlow
  <1>6. \A k \in task' :
            k.kind = "LOGIN" /\ k.pc = "run" /\ srv # NoUser => k.who = srv
    BY DEF LoginFlow
  <1> QED
    BY <1>1, <1>2, <1>3, <1>4, <1>5, <1>6 DEF LoginFlow

\* The answer to anything but a LOGIN goes on the wire.
LEMMA OtherAnswer ==
    ASSUME InboxFits, NEW f, Answer(f), f.type # "LOGIN_OK"
    PROVE  OkAt' = OkAt /\ \A i \in OkAt : inbox'[i] = inbox[i]
  <1>1. /\ Len(inbox') = Len(inbox) + 1 /\ Len(inbox) \in Nat
        /\ \A i \in 1..Len(inbox) : inbox'[i] = inbox[i]
        /\ inbox'[Len(inbox) + 1] = f
    BY DEF InboxFits, Answer
  <1> QED
    BY <1>1 DEF OkAt

\* An answer that is not LOGIN_OK is received.
LEMMA OtherReceived ==
    ASSUME LoginFlow, InboxFits, NEW type, Receive(type), type # "LOGIN_OK",
           UNCHANGED <<sock, srv, chats, user, hasty, task, room>>
    PROVE  LoginFlow'
  <1>1. /\ Len(inbox) \in Nat /\ Len(inbox') = Len(inbox) - 1
        /\ \A i \in 1..Len(inbox') : inbox'[i] = inbox[i + 1]
        /\ inbox[1].type = type /\ 1 \in 1..Len(inbox)
    BY HeadTailProperties DEF InboxFits, Receive
  <1>2. \A i \in OkAt : i - 1 \in OkAt' /\ inbox'[i - 1] = inbox[i]
    BY <1>1 DEF OkAt
  <1>3. \A i \in OkAt' : i + 1 \in OkAt
    BY <1>1 DEF OkAt
  <1>4. Oks' = Oks
    BY DEF Oks
  <1>5. OkAt = {} => OkAt' = {}
    BY <1>3
  <1>6. Answered => Answered'
    <2> HAVE Answered
    <2>1. PICK i \in OkAt : OkAt = {i} /\ inbox[i].from = srv
      BY DEF Answered
    <2>2. i \in Nat /\ OkAt' \subseteq Nat
      BY <1>1 DEF OkAt
    <2>3. OkAt' = {i - 1}
      <3>1. i - 1 \in OkAt'
        BY <1>2, <2>1
      <3>2. \A m \in OkAt' : m + 1 = i /\ m \in Nat
        BY <1>3, <2>1, <2>2
      <3>3. \A m \in OkAt' : m = i - 1
        BY <2>2, <3>2
      <3> QED
        BY <3>1, <3>3, Zenon
    <2> QED
      BY <1>2, <1>4, <2>1, <2>3 DEF Answered
  <1>7. (NotYet => NotYet') /\ (Shows => Shows')
    BY <1>4, <1>5 DEF NotYet, Shows
  <1>8. Granted => Granted'
    BY <1>4, <1>5 DEF Granted
  <1> QED
    BY <1>6, <1>7, <1>8 DEF LoginFlow

\* What the client and its user do.
LEMMA FlowClientStep ==
    ASSUME FlowInv,
           \/ ConnectToServer \/ SendMessage \/ Logout
           \/ \E u \in User : Login(u)
           \/ SocketConnected \/ SocketFails \/ SocketDisconnected
           \/ OnConnectTimeout \/ OnLoginTimeout
           \/ ReceiveLoginOk \/ ReceiveError \/ ReceiveBroadcast
           \/ ReceiveHistory
    PROVE  LoginFlow' /\ TimerOff'
  <1>0. /\ lc \in Controller /\ chats \in Nat
        /\ InboxFits /\ LoginFlow /\ TimerOff
        /\ connecting <=> sock = "connecting"
        /\ chats > 0 => sock = "connected"
        /\ lc.state = "Authenticated" => chats > 0
        /\ sock # "connected" => inbox = <<>> /\ task = {} /\ srv = NoUser
    BY DEF FlowInv, WireType, IInv, ControlType, ClientInv, ConnectingAgrees,
           PageFits, WireFits
  <1>1. CASE ConnectToServer
    <2>1. sock' # "connected"
      BY <1>0, <1>1 DEF ConnectToServer, TryAddress
    <2> QED
      BY <2>1 DEF LoginFlow, TimerOff
  <1>2. CASE SocketFails \/ SocketDisconnected \/ Logout
    <2>1. sock' = "closed"
      BY <1>2 DEF SocketFails, SocketDisconnected, Logout
    <2> QED
      BY <2>1 DEF LoginFlow, TimerOff
  <1>3. CASE SendMessage
    <2>1. /\ Send("BROADCAST", NoUser)
          /\ UNCHANGED <<sock, srv, chats, user, hasty, inbox, lc>>
      BY <1>3 DEF SendMessage, client, histories
    <2>2. /\ NewTask("BROADCAST", NoUser).pc = "sent"
          /\ NewTask("BROADCAST", NoUser).kind = "BROADCAST"
      BY DEF NewTask
    <2>3. /\ Oks' = Oks /\ OkAt' = OkAt /\ \A i \in OkAt : inbox'[i] = inbox[i]
          /\ \A k \in task' : k.kind = "LOGIN" => k \in task
      BY <2>1, <2>2 DEF Oks, OkAt, Send
    <2> QED
      BY <1>0, <2>1, <2>3, FlowKeep DEF TimerOff
  <1>4. ASSUME NEW u \in User, Login(u)
        PROVE  LoginFlow' /\ TimerOff'
    <2> DEFINE c == [lc EXCEPT !.loading = TRUE, !.state = "Authenticating",
                               !.loginTimer = TRUE]
               n == NewTask("LOGIN", u)
    <2>1. c.state = "Authenticating" /\ c.connectTimer = lc.connectTimer
      BY <1>0 DEF Controller
    <2>2. lc' = c /\ chats' = Pages(c)
      BY <1>4 DEF Login, Control
    <2>3. /\ sock = "connected" /\ task' = task \cup {n}
          /\ UNCHANGED <<sock, user, inbox, srv>>
          /\ ~hasty' => /\ ~hasty
                        /\ \A k \in task : k.kind = "LOGIN" => k.who = u
      BY <1>4 DEF Login, Send
    <2>4. n.pc = "sent" /\ n.kind = "LOGIN" /\ n.who = u
      BY DEF NewTask
    <2> HIDE DEF c, n
    <2>5. chats' = chats /\ TimerOff'
      BY <1>0, <2>1, <2>2, <2>3 DEF Pages, TimerOff
    <2>6. Oks' = Oks /\ OkAt' = OkAt
      BY <2>3, <2>4 DEF Oks, OkAt
    <2>7. /\ NotYet => NotYet'
          /\ Answered => Answered'
          /\ Shows => Shows'
      BY <2>3, <2>5, <2>6 DEF NotYet, Answered, Shows
    <2>8. Granted => Granted'
      BY <2>3, <2>5, <2>6 DEF Granted
    <2>9. ~hasty' =>
              /\ \A j, k \in task' :
                     j.kind = "LOGIN" /\ k.kind = "LOGIN" => j.who = k.who
              /\ \A k \in task' : k.kind = "LOGIN" /\ k.pc = "run"
                                     /\ srv # NoUser => k.who = srv
      BY <1>0, <2>3, <2>4 DEF LoginFlow
    <2> QED
      BY <1>0, <2>3, <2>5, <2>7, <2>8, <2>9 DEF LoginFlow
  <1>5. CASE SocketConnected
    <2>1. /\ sock = "connecting" /\ Control(OnConnected(lc))
          /\ UNCHANGED <<user, inbox, task, srv>>
      BY <1>5 DEF SocketConnected, server
    <2>2. OnConnected(lc).state = "Authenticating"
            /\ OnConnected(lc).connectTimer = FALSE
      BY <1>0 DEF OnConnected, StopConnecting, Controller
    <2>3. chats = 0 /\ inbox = <<>> /\ task = {} /\ srv = NoUser
      BY <1>0, <2>1
    <2>4. chats' = 0 /\ TimerOff'
      BY <2>1, <2>2, <2>3 DEF Control, Pages, TimerOff
    <2>5. NotYet'
      BY <2>1, <2>3, <2>4 DEF NotYet, Oks, OkAt
    <2> QED
      BY <2>1, <2>3, <2>4, <2>5 DEF LoginFlow
  <1>6. CASE OnConnectTimeout
    <2>1. sock' # "connected"
      BY <1>0, <1>6 DEF OnConnectTimeout, TimerOff
    <2> QED
      BY <2>1 DEF LoginFlow, TimerOff
  <1>7. CASE OnLoginTimeout
    <2> DEFINE c == [lc EXCEPT !.loginTimer = FALSE, !.loading = FALSE]
    <2>1. c.state = lc.state /\ c.connectTimer = lc.connectTimer
      BY <1>0 DEF Controller
    <2>2. lc' = c /\ chats' = Pages(c)
      BY <1>7 DEF OnLoginTimeout, Control
    <2> HIDE DEF c
    <2>3. UNCHANGED <<sock, srv, chats, user, hasty, inbox, task>>
      BY <1>7, <2>1, <2>2 DEF OnLoginTimeout, server, histories, Pages
    <2>4. Oks' = Oks /\ OkAt' = OkAt
      BY <2>3 DEF Oks, OkAt
    <2>5. TimerOff'
      BY <1>0, <2>1, <2>2, <2>3 DEF TimerOff
    <2> QED
      BY <1>0, <2>3, <2>4, <2>5, FlowKeep
  <1>8. CASE ReceiveLoginOk
    <2>1. /\ Receive("LOGIN_OK") /\ user' = Head(inbox).from
          /\ Control(OnLoginOk(lc))
          /\ Send("HISTORY_REQ", NoUser) \/ UNCHANGED <<task, sent>>
          /\ UNCHANGED <<sock, srv, hasty>>
      BY <1>8 DEF ReceiveLoginOk, histories
    <2>2. /\ OnLoginOk(lc).state = "Authenticated"
          /\ OnLoginOk(lc).connectTimer = FALSE
      BY <1>0 DEF OnLoginOk, Controller
    <2>3. TimerOff'
      BY <2>1, <2>2 DEF Control, TimerOff
    <2> SUFFICES ASSUME sock = "connected", ~hasty
                 PROVE  LoginFlow'
      BY <2>1, <2>3 DEF LoginFlow
    <2>4. /\ Len(inbox) \in Nat /\ Len(inbox') = Len(inbox) - 1
          /\ \A i \in 1..Len(inbox') : inbox'[i] = inbox[i + 1]
          /\ inbox[1].type = "LOGIN_OK" /\ 1 \in 1..Len(inbox)
          /\ Head(inbox) = inbox[1]
      BY <1>0, <2>1, HeadTailProperties DEF InboxFits, Receive
    <2>5. 1 \in OkAt /\ \A i \in OkAt' : i + 1 \in OkAt /\ i \in Nat /\ i > 0
      BY <2>4 DEF OkAt
    <2>6. srv # NoUser /\ Answered
      BY <1>0, <2>5 DEF LoginFlow, NotYet, Granted, Shows
    <2>7. OkAt = {1} /\ inbox[1].from = srv /\ Oks = {} /\ chats = 0
      BY <2>5, <2>6 DEF Answered
    <2>8. OkAt' = {}
      BY <2>5, <2>7
    <2>9. chats' = 1 /\ user' = srv
      BY <1>0, <2>1, <2>2, <2>4, <2>7 DEF Control, Pages
    <2>10. /\ NewTask("HISTORY_REQ", NoUser).pc = "sent"
           /\ NewTask("HISTORY_REQ", NoUser).kind = "HISTORY_REQ"
      BY DEF NewTask
    <2>11. Oks' = {} /\ \A k \in task' : k.kind = "LOGIN" => k \in task
      BY <2>1, <2>7, <2>10 DEF Oks, Send
    <2>12. Shows'
      BY <2>1, <2>8, <2>9, <2>11 DEF Shows
    <2> QED
      BY <1>0, <2>1, <2>6, <2>11, <2>12 DEF LoginFlow
  <1>9. CASE ReceiveError
    <2>1. /\ Receive("ERROR") /\ Control(OnErrorReceived(lc))
          /\ UNCHANGED <<sock, srv, user, hasty, task, room>>
      BY <1>9 DEF ReceiveError, server, histories
    <2>2. /\ OnErrorReceived(lc).state = "Authenticating"
          /\ OnErrorReceived(lc).connectTimer = lc.connectTimer
      BY <1>0 DEF OnErrorReceived, Controller
    <2>3. chats' = chats /\ TimerOff'
      BY <1>0, <2>1, <2>2 DEF Control, Pages, TimerOff
    <2> QED
      BY <1>0, <2>1, <2>3, OtherReceived
  <1>10. CASE ReceiveBroadcast \/ ReceiveHistory
    <2>1. /\ Receive("BROADCAST") \/ Receive("HISTORY_RESP")
          /\ UNCHANGED <<sock, srv, chats, user, hasty, task, room, lc>>
      BY <1>10 DEF ReceiveBroadcast, ReceiveHistory, client, server, histories
    <2>2. LoginFlow'
      BY <1>0, <2>1, OtherReceived
    <2> QED
      BY <1>0, <2>1, <2>2 DEF TimerOff
  <1> QED
    BY <1>1, <1>2, <1>3, <1>4, <1>5, <1>6, <1>7, <1>8, <1>9, <1>10

\* What the server does.
LEMMA FlowServerStep ==
    ASSUME FlowInv,
           \/ \E k \in task : Handle(k)
           \/ \E n \in underway : Deliver(n)
           \/ Post
    PROVE  LoginFlow' /\ TimerOff'
  <1>0. /\ InboxFits /\ TasksFit /\ LoginFlow /\ TimerOff
        /\ inbox \in Seq(Frame) /\ task \subseteq Task
    BY DEF FlowInv, WireType, InboxFits, TasksFit
  <1>1. UNCHANGED client
    BY DEF Handle, Route, Grant, Refuse, ReplyError, ReplyOk, ReadHistory,
           SendHistory, Broadcast, Deliver, Post
  <1>2. TimerOff' /\ UNCHANGED <<sock, chats, user>>
    BY <1>0, <1>1 DEF client, TimerOff
  <1>3. \A k \in task : \A l \in {"run", "ok", "error", "read"} :
            /\ [k EXCEPT !.pc = l].pc = l
            /\ [k EXCEPT !.pc = l].kind = k.kind
            /\ [k EXCEPT !.pc = l].who = k.who
    BY <1>0 DEF Task
  <1>4. ASSUME NEW k \in task, Route(k) \/ Refuse(k)
        PROVE  LoginFlow'
    <2>1. PICK l \in {"run", "error", "read"} :
              /\ Step(k, l)
              /\ l = "run" /\ k.kind = "LOGIN" => srv = NoUser
      BY <1>4 DEF Route, Refuse
    <2>2. k.pc # "ok" /\ UNCHANGED <<srv, hasty, inbox>>
      BY <1>4 DEF Route, Refuse, histories
    <2> DEFINE n == [k EXCEPT !.pc = l]
    <2>3. /\ task' = (task \ {k}) \cup {n}
          /\ n.pc = l /\ n.kind = k.kind /\ n.who = k.who
      BY <1>3, <2>1 DEF Step
    <2> HIDE DEF n
    <2>4. Oks' = Oks /\ OkAt' = OkAt
      BY <2>1, <2>2, <2>3 DEF Oks, OkAt
    <2>5. \A j \in task' : j.kind = "LOGIN" =>
              \E i \in task : /\ i.kind = "LOGIN" /\ i.who = j.who
                              /\ j.pc = "run" => i.pc = "run" \/ srv = NoUser
      BY <2>1, <2>3
    <2> QED
      BY <1>0, <1>2, <2>2, <2>4, <2>5, FlowKeep
  <1>5. ASSUME NEW k \in task, Grant(k)
        PROVE  LoginFlow'
    <2> DEFINE j == [k EXCEPT !.pc = "ok"]
    <2>1. /\ k.kind = "LOGIN" /\ k.pc = "run" /\ srv # k.who /\ srv' = k.who
          /\ task' = (task \ {k}) \cup {j} /\ UNCHANGED <<inbox, hasty>>
      BY <1>5 DEF Grant, Step, histories
    <2>2. j.pc = "ok" /\ j.kind = "LOGIN" /\ j.who = k.who
      BY <1>3, <2>1
    <2>3. k.who \in User
      BY <1>0, <2>1 DEF TasksFit, TaskFits
    <2> HIDE DEF j
    <2> SUFFICES ASSUME sock = "connected", ~hasty
                 PROVE  LoginFlow'
      BY <1>2, <2>1 DEF LoginFlow
    <2>4. /\ srv = NoUser /\ NotYet
          /\ \A i \in task : i.kind = "LOGIN" => i.who = k.who
      BY <1>0, <2>1 DEF LoginFlow
    <2>5. Oks' = {j} /\ OkAt' = {} /\ chats' = 0 /\ j \in task'
      BY <1>2, <2>1, <2>2, <2>4 DEF NotYet, Oks, OkAt
    <2>6. Granted'
      BY <2>1, <2>2, <2>5 DEF Granted
    <2>7. \A i \in task' : i.kind = "LOGIN" => i.who = srv'
      BY <2>1, <2>2, <2>4
    <2> QED
      BY <2>1, <2>3, <2>6, <2>7, ClientAssumption DEF LoginFlow, ClientAssumption
  <1>6. ASSUME NEW k \in task, ReplyError(k) \/ SendHistory(k) \/ Broadcast(k)
        PROVE  LoginFlow'
    <2>1. /\ Done(k) /\ k.pc # "ok" /\ UNCHANGED <<srv, hasty>>
          /\ \/ UNCHANGED inbox
             \/ Answer([type |-> "ERROR"])
             \/ Answer([type |-> "HISTORY_RESP", rows |-> k.rows])
      BY <1>6 DEF ReplyError, SendHistory, Broadcast, histories
    <2>2. Oks' = Oks /\ task' \subseteq task
      BY <2>1 DEF Oks, Done
    <2>3. OkAt' = OkAt /\ \A i \in OkAt : inbox'[i] = inbox[i]
      <3>1. CASE UNCHANGED inbox
        BY <3>1 DEF OkAt
      <3> QED
        BY <1>0, <2>1, <3>1, OtherAnswer
    <2> QED
      BY <1>0, <1>2, <2>1, <2>2, <2>3, FlowKeep
  <1>7. ASSUME NEW k \in task, ReadHistory(k)
        PROVE  LoginFlow'
    <2> DEFINE j == [k EXCEPT !.pc = "send", !.rows = Newest(k.limit)]
    <2>1. /\ k.pc = "read" /\ task' = (task \ {k}) \cup {j}
          /\ UNCHANGED <<srv, hasty, inbox>>
      BY <1>7 DEF ReadHistory
    <2>2. j.pc = "send" /\ j.kind = k.kind /\ j.who = k.who
      BY <1>0 DEF Task
    <2> HIDE DEF j
    <2>3. Oks' = Oks /\ OkAt' = OkAt
      BY <2>1, <2>2 DEF Oks, OkAt
    <2>4. \A m \in task' : m.kind = "LOGIN" =>
              \E i \in task : /\ i.kind = "LOGIN" /\ i.who = m.who
                              /\ m.pc = "run" => i.pc = "run" \/ srv = NoUser
      BY <2>1, <2>2
    <2> QED
      BY <1>0, <1>2, <2>1, <2>3, <2>4, FlowKeep
  <1>8. ASSUME NEW k \in task, ReplyOk(k)
        PROVE  LoginFlow'
    <2> DEFINE j == [k EXCEPT !.pc = "read", !.limit = PushLimit]
               f == [type |-> "LOGIN_OK", from |-> k.who]
    <2>1. /\ k.pc = "ok" /\ task' = (task \ {k}) \cup {j}
          /\ inbox' = Append(inbox, f) /\ UNCHANGED <<srv, hasty>>
      BY <1>8 DEF ReplyOk, Answer, histories
    <2>2. j.pc = "read" /\ j.kind = k.kind /\ j.who = k.who
      BY <1>0 DEF Task
    <2>3. /\ Len(inbox') = Len(inbox) + 1 /\ Len(inbox) \in Nat
          /\ \A i \in 1..Len(inbox) : inbox'[i] = inbox[i]
          /\ inbox'[Len(inbox) + 1].type = "LOGIN_OK"
          /\ inbox'[Len(inbox) + 1].from = k.who
      BY <1>0, <2>1
    <2> HIDE DEF j, f
    <2> SUFFICES ASSUME sock = "connected", ~hasty
                 PROVE  LoginFlow'
      BY <1>2, <2>1 DEF LoginFlow
    <2>4. k \in Oks
      BY <2>1 DEF Oks
    <2>5. srv # NoUser /\ Granted
      BY <1>0, <2>4 DEF LoginFlow, NotYet, Answered, Shows
    <2>6. Oks = {k} /\ k.who = srv /\ OkAt = {} /\ chats = 0
      BY <2>4, <2>5 DEF Granted
    <2>7. Oks' = {}
      BY <2>1, <2>2, <2>6 DEF Oks
    <2>8. OkAt' = {Len(inbox) + 1}
      BY <2>3, <2>6 DEF OkAt
    <2>9. Answered'
      BY <1>2, <2>1, <2>3, <2>6, <2>7, <2>8 DEF Answered
    <2>10. \A m \in task' : m.kind = "LOGIN" =>
               \E i \in task : /\ i.kind = "LOGIN" /\ i.who = m.who
                               /\ m.pc = "run" => i.pc = "run"
      BY <2>1, <2>2
    <2> QED
      BY <1>0, <2>1, <2>5, <2>9, <2>10 DEF LoginFlow
  <1>9. CASE Post
    <2>1. UNCHANGED <<srv, hasty, inbox, task>>
      BY <1>9 DEF Post
    <2>2. Oks' = Oks /\ OkAt' = OkAt
      BY <2>1 DEF Oks, OkAt
    <2> QED
      BY <1>0, <1>2, <2>1, <2>2, FlowKeep
  <1>10. ASSUME NEW n \in underway, Deliver(n)
         PROVE  LoginFlow'
    <2>1. /\ UNCHANGED <<srv, hasty, task>>
          /\ UNCHANGED inbox \/ Answer([type |-> "BROADCAST", num |-> n])
      BY <1>10 DEF Deliver, histories
    <2>2. Oks' = Oks
      BY <2>1 DEF Oks
    <2>3. OkAt' = OkAt /\ \A i \in OkAt : inbox'[i] = inbox[i]
      <3>1. CASE UNCHANGED inbox
        BY <3>1 DEF OkAt
      <3> QED
        BY <1>0, <2>1, <3>1, OtherAnswer
    <2> QED
      BY <1>0, <1>2, <2>1, <2>2, <2>3, FlowKeep
  <1> QED
    BY <1>2, <1>4, <1>5, <1>6, <1>7, <1>8, <1>9, <1>10 DEF Handle

LEMMA FlowStep ==
    ASSUME FlowInv, [Next]_vars
    PROVE  FlowInv'
  <1>1. IInv' /\ WireType'
    BY Inductive, WireStep DEF FlowInv
  <1>2. LoginFlow' /\ TimerOff'
    <2>1. CASE UNCHANGED vars
      <3>1. UNCHANGED <<sock, srv, chats, user, hasty, task, inbox, lc>>
        BY <2>1 DEF vars, client, server, histories
      <3>2. Oks' = Oks /\ OkAt' = OkAt
        BY <3>1 DEF Oks, OkAt
      <3> QED
        BY <3>1, <3>2, FlowKeep DEF FlowInv, TimerOff
    <2> QED
      BY <2>1, FlowClientStep, FlowServerStep DEF Next
  <1> QED
    BY <1>1, <1>2 DEF FlowInv

\* When all is answered, the client shows the chat page once and under the name
\* the server has for the connection, or both of them know of no login: logins
\* that were repeated after a timeout of the client are granted once
\* (onLoginTimeout, handle_login), whatever the order of the answers.
THEOREM UserAgreesHolds == Spec => []UserAgrees
  <1>1. Init => FlowInv
    <2> SUFFICES ASSUME Init PROVE FlowInv
      OBVIOUS
    <2>1. IInv /\ WireType
      BY ClientInit, WireInit
    <2>2. LoginFlow /\ TimerOff
      BY DEF Init, LoginFlow, TimerOff
    <2> QED
      BY <2>1, <2>2 DEF FlowInv
  <1>2. FlowInv /\ [Next]_vars => FlowInv'
    BY FlowStep
  <1>3. FlowInv => UserAgrees
    <2> SUFFICES ASSUME FlowInv, Quiet, ~hasty
                 PROVE  IF srv = NoUser THEN chats = 0
                                        ELSE chats = 1 /\ user = srv
      BY DEF UserAgrees
    <2>1. Oks = {} /\ OkAt = {}
      BY DEF Quiet, Oks, OkAt
    <2> QED
      BY <2>1 DEF FlowInv, LoginFlow, Quiet, NotYet, Granted, Answered, Shows
  <1> QED
    BY <1>1, <1>2, <1>3, PTL DEF Spec

-----------------------------------------------------------------------------
(* The room the client shows.                                              *)

\* The first frame is taken from the wire: the others move up by one place.
LEMMA TailFrames ==
    ASSUME NEW q \in Seq(Frame), q # <<>>
    PROVE  /\ Len(q) \in Nat /\ Len(q) > 0 /\ Len(Tail(q)) = Len(q) - 1
           /\ Tail(q) \in Seq(Frame) /\ Head(q) = q[1]
           /\ \A i \in 1..Len(Tail(q)) : Tail(q)[i] = q[i + 1]
           /\ \A i \in 2..Len(q) : Tail(q)[i - 1] = q[i]
  BY HeadTailProperties, EmptySeq, LenProperties

\* So do the histories.
LEMMA TailHistories ==
    ASSUME NEW q \in Seq(Frame), q # <<>>
    PROVE  /\ HistoriesIn(q) = {} => HistoriesIn(Tail(q)) = {}
           /\ HistoriesIn(Tail(q)) = {} /\ Head(q).type # "HISTORY_RESP"
                 => HistoriesIn(q) = {}
           /\ HistoriesIn(Tail(q)) = {} /\ Head(q).type = "HISTORY_RESP"
                 => IsLast(q, 1)
           /\ \A p \in 1..Len(Tail(q)) : IsLast(Tail(q), p) => IsLast(q, p + 1)
  <1> DEFINE t == Tail(q)
  <1>1. /\ Len(q) \in Nat /\ Len(q) > 0 /\ Len(t) = Len(q) - 1 /\ Head(q) = q[1]
        /\ \A i \in 1..Len(t) : t[i] = q[i + 1]
        /\ \A i \in 2..Len(q) : t[i - 1] = q[i]
    BY TailFrames
  <1> HIDE DEF t
  <1>2. \A i \in HistoriesIn(t) : i + 1 \in HistoriesIn(q)
    BY <1>1 DEF HistoriesIn
  <1>3. \A i \in HistoriesIn(q) : i = 1 \/ i - 1 \in HistoriesIn(t)
    BY <1>1 DEF HistoriesIn
  <1>4. 1 \in HistoriesIn(q) <=> Head(q).type = "HISTORY_RESP"
    BY <1>1 DEF HistoriesIn
  <1>5. HistoriesIn(q) \subseteq 1..Len(q)
    BY DEF HistoriesIn
  <1>6. \A p \in 1..Len(t) : IsLast(t, p) => IsLast(q, p + 1)
    <2> TAKE p \in 1..Len(t)
    <2> HAVE IsLast(t, p)
    <2>1. \A i \in HistoriesIn(q) : i <= p + 1
      BY <1>1, <1>3, <1>5 DEF IsLast
    <2> QED
      BY <1>2, <2>1 DEF IsLast
  <1>7. HistoriesIn(t) = {} /\ Head(q).type = "HISTORY_RESP" => IsLast(q, 1)
    BY <1>3, <1>4 DEF IsLast
  <1> QED
    BY <1>2, <1>3, <1>4, <1>6, <1>7 DEF t

\* And the messages behind one of the others.
LEMMA TailNums ==
    ASSUME NEW q \in Seq(Frame), q # <<>>, NEW p \in Nat
    PROVE  /\ Nums(Tail(q), p) = Nums(q, p + 1)
           /\ Once(q, p + 1) => Once(Tail(q), p)
  <1> DEFINE t == Tail(q)
  <1>1. /\ Len(q) \in Nat /\ Len(q) > 0 /\ Len(t) = Len(q) - 1
        /\ \A i \in 1..Len(t) : t[i] = q[i + 1]
        /\ \A i \in 2..Len(q) : t[i - 1] = q[i]
    BY TailFrames
  <1> HIDE DEF t
  <1>2. \A i \in NewerIn(t, p) : i + 1 \in NewerIn(q, p + 1) /\ t[i] = q[i + 1]
                                    /\ i \in Nat
    BY <1>1 DEF NewerIn
  <1>3. \A i \in NewerIn(q, p + 1) : i - 1 \in NewerIn(t, p) /\ t[i - 1] = q[i]
    BY <1>1 DEF NewerIn
  <1>4. Nums(t, p) = Nums(q, p + 1)
    BY <1>2, <1>3 DEF Nums
  <1>5. Once(q, p + 1) => Once(t, p)
    <2> SUFFICES ASSUME Once(q, p + 1), NEW i \in NewerIn(t, p),
                        NEW j \in NewerIn(t, p), t[i].num = t[j].num
                 PROVE  i = j
      BY DEF Once
    <2>1. i + 1 = j + 1
      BY <1>2 DEF Once
    <2> QED
      BY <1>2, <2>1
  <1> QED
    BY <1>4, <1>5 DEF t

\* The first frame is one of the messages that come, or is none.
LEMMA HeadNums ==
    ASSUME NEW q \in Seq(Frame), q # <<>>, Once(q, 0)
    PROVE  /\ Once(Tail(q), 0)
           /\ Head(q).type # "BROADCAST" => Nums(Tail(q), 0) = Nums(q, 0)
           /\ Head(q).type = "BROADCAST" =>
                 /\ Nums(q, 0) = Nums(Tail(q), 0) \cup {Head(q).num}
                 /\ Head(q).num \notin Nums(Tail(q), 0)
  <1>1. /\ Len(q) \in Nat /\ Len(q) > 0 /\ Head(q) = q[1]
    BY TailFrames
  <1>2. /\ Nums(Tail(q), 0) = Nums(q, 1)
        /\ Once(q, 1) => Once(Tail(q), 0)
    BY TailNums
  <1>3. \A i \in NewerIn(q, 0) : i = 1 \/ i \in NewerIn(q, 1)
    BY <1>1 DEF NewerIn
  <1>4. NewerIn(q, 1) \subseteq NewerIn(q, 0) /\ 1 \notin NewerIn(q, 1)
    BY <1>1 DEF NewerIn
  <1>5. 1 \in NewerIn(q, 0) <=> Head(q).type = "BROADCAST"
    BY <1>1 DEF NewerIn
  <1>6. Once(Tail(q), 0)
    BY <1>2, <1>4 DEF Once
  <1>7. Head(q).type # "BROADCAST" => Nums(q, 1) = Nums(q, 0)
    BY <1>3, <1>4, <1>5 DEF Nums
  <1>8. Head(q).type = "BROADCAST" => Nums(q, 0) = Nums(q, 1) \cup {Head(q).num}
    BY <1>1, <1>3, <1>4, <1>5 DEF Nums
  <1>9. Head(q).type = "BROADCAST" => Head(q).num \notin Nums(q, 1)
    BY <1>1, <1>4, <1>5 DEF Nums, Once
  <1> QED
    BY <1>2, <1>6, <1>7, <1>8, <1>9

\* A frame is sent: the others keep their place.
LEMMA AppendFrames ==
    ASSUME NEW q \in Seq(Frame), NEW f \in Frame
    PROVE  /\ Len(q) \in Nat /\ Len(Append(q, f)) = Len(q) + 1
           /\ \A i \in 1..Len(q) : Append(q, f)[i] = q[i]
           /\ Append(q, f)[Len(q) + 1] = f
  BY AppendProperties, LenProperties

LEMMA AppendHistories ==
    ASSUME NEW q \in Seq(Frame), NEW f \in Frame
    PROVE  /\ f.type # "HISTORY_RESP" => HistoriesIn(Append(q, f)) = HistoriesIn(q)
           /\ f.type = "HISTORY_RESP" =>
                 /\ HistoriesIn(Append(q, f)) # {}
                 /\ \A p : IsLast(Append(q, f), p) => p = Len(q) + 1
  <1> DEFINE a == Append(q, f)
  <1>1. /\ Len(q) \in Nat /\ Len(a) = Len(q) + 1 /\ a[Len(q) + 1] = f
        /\ \A i \in 1..Len(q) : a[i] = q[i]
    BY AppendFrames
  <1> HIDE DEF a
  <1>2. f.type # "HISTORY_RESP" => HistoriesIn(a) = HistoriesIn(q)
    BY <1>1 DEF HistoriesIn
  <1>3. f.type = "HISTORY_RESP" => Len(q) + 1 \in HistoriesIn(a)
    BY <1>1 DEF HistoriesIn
  <1>4. \A p \in HistoriesIn(a) : p \in Nat /\ p <= Len(q) + 1
    BY <1>1 DEF HistoriesIn
  <1>5. f.type = "HISTORY_RESP" => \A p : IsLast(a, p) => p = Len(q) + 1
    BY <1>1, <1>3, <1>4 DEF IsLast
  <1> QED
    BY <1>2, <1>3, <1>5 DEF a

LEMMA AppendNums ==
    ASSUME NEW q \in Seq(Frame), NEW f \in Frame, NEW p \in 0..Len(q), Once(q, p)
    PROVE  /\ f.type # "BROADCAST" =>
                 Once(Append(q, f), p) /\ Nums(Append(q, f), p) = Nums(q, p)
           /\ f.type = "BROADCAST" /\ f.num \notin Nums(q, p) =>
                 /\ Once(Append(q, f), p)
                 /\ Nums(Append(q, f), p) = Nums(q, p) \cup {f.num}
  <1> DEFINE a == Append(q, f)
             z == Len(q) + 1
  <1>1. /\ Len(q) \in Nat /\ Len(a) = z /\ a[z] = f
        /\ \A i \in 1..Len(q) : a[i] = q[i]
    BY AppendFrames
  <1> HIDE DEF a
  <1>2. \A i \in NewerIn(q, p) : i \in NewerIn(a, p) /\ a[i] = q[i] /\ i # z
    BY <1>1 DEF NewerIn
  <1>3. \A i \in NewerIn(a, p) : i = z \/ i \in NewerIn(q, p)
    BY <1>1 DEF NewerIn
  <1>4. z \in NewerIn(a, p) <=> f.type = "BROADCAST"
    BY <1>1 DEF NewerIn
  <1>5. ASSUME f.type # "BROADCAST"
        PROVE  Once(a, p) /\ Nums(a, p) = Nums(q, p)
    <2>1. NewerIn(a, p) = NewerIn(q, p)
      BY <1>2, <1>3, <1>4, <1>5
    <2> QED
      BY <1>2, <2>1 DEF Once, Nums
  <1>6. ASSUME f.type = "BROADCAST", f.num \notin Nums(q, p)
        PROVE  Once(a, p) /\ Nums(a, p) = Nums(q, p) \cup {f.num}
    <2>1. NewerIn(a, p) = NewerIn(q, p) \cup {z} /\ a[z] = f
      BY <1>1, <1>2, <1>3, <1>4, <1>6
    <2>2. \A i \in NewerIn(q, p) : a[i].num = q[i].num /\ q[i].num # f.num
      BY <1>2, <1>6 DEF Nums
    <2> QED
      BY <2>1, <2>2 DEF Once, Nums
  <1> QED
    BY <1>5, <1>6 DEF a

\* Nothing follows the last place.
LEMMA EndNums ==
    ASSUME NEW q \in Seq(Frame)
    PROVE  Nums(q, Len(q)) = {} /\ Once(q, Len(q))
  <1>1. Len(q) \in Nat
    BY LenProperties
  <1>2. NewerIn(q, Len(q)) = {}
    BY <1>1 DEF NewerIn
  <1> QED
    BY <1>2 DEF Nums, Once

-----------------------------------------------------------------------------
\* A message is sent, shown or stored: it is still there once.
LEMMA TileMoves ==
    ASSUME NEW K, NEW N, NEW U, NEW last, Tile(K, N, U, last)
    PROVE  /\ \A n \in U : Tile(K, N \cup {n}, U \ {n}, last)
           /\ \A n, M : N = M \cup {n} /\ n \notin M => Tile(K \cup {n}, M, U, last)
  <1>1. PICK a \in 1..(last + 1) : K \cup N \cup U = a..last /\ Enough(a, last)
    BY DEF Tile
  <1>2. ASSUME NEW n \in U
        PROVE  Tile(K, N \cup {n}, U \ {n}, last)
    <2>1. K \cup (N \cup {n}) \cup (U \ {n}) = a..last
      BY <1>1, <1>2
    <2> QED
      BY <1>1, <1>2, <2>1, Zenon DEF Tile
  <1>3. ASSUME NEW n, NEW M, N = M \cup {n}, n \notin M
        PROVE  Tile(K \cup {n}, M, U, last)
    <2>1. (K \cup {n}) \cup M \cup U = a..last
      BY <1>1, <1>3
    <2> QED
      BY <1>1, <1>3, <2>1, Zenon DEF Tile
  <1> QED
    BY <1>2, <1>3

LEMMA TileGrows ==
    ASSUME NEW K, NEW N, NEW U, NEW last \in Nat, Tile(K, N, U, last)
    PROVE  Tile(K, N, U \cup {last + 1}, last + 1)
  <1>1. PICK a \in 1..(last + 1) : K \cup N \cup U = a..last /\ Enough(a, last)
    BY DEF Tile
  <1>2. last + 1 \notin a..last /\ (a..last) \cup {last + 1} = a..(last + 1)
    BY <1>1
  <1>3. /\ last + 1 \notin K /\ last + 1 \notin N
        /\ K \cup N \cup (U \cup {last + 1}) = a..(last + 1)
    BY <1>1, <1>2
  <1>4. Enough(a, last + 1)
    BY <1>1, ClientAssumption DEF Enough, ClientAssumption
  <1>5. a \in 1..((last + 1) + 1)
    BY <1>1
  <1> QED
    BY <1>3, <1>4, <1>5, Zenon DEF Tile

LEMMA TileNew ==
    ASSUME NEW last \in Nat, NEW first \in 1..(last + 1), Enough(first, last)
    PROVE  Tile(first..last, {}, {}, last)
  BY DEF Tile

-----------------------------------------------------------------------------
\* The list stays complete, or what makes it so stays to come.
LEMMA ListKeeps ==
    ASSUME ListComplete, view' = view, Pushing => Pushing',
           HistoriesIn(inbox) # {} => HistoriesIn(inbox') # {},
           Completed(Shown, 0) => Completed(Shown, 0)'
    PROVE  ListComplete'
  <1>1. CASE Pushing \/ HistoriesIn(inbox) # {}
    BY <1>1 DEF ListComplete
  <1>2. CASE /\ \A i, j \in 1..Len(view) : view[i] = view[j] => i = j
             /\ Completed(Shown, 0)
    BY <1>2 DEF ListComplete
  <1> QED
    BY <1>1, <1>2 DEF ListComplete

\* What comes and goes on the wire is neither a history nor a message, and no
\* history is sent nor about to be (a login, a request, an ERROR, a timeout).
LEMMA FaithKeep ==
    ASSUME FaithInv, UNCHANGED <<srv, crossed, room, underway, view>>,
           HistoriesIn(inbox') = {} <=> HistoriesIn(inbox) = {},
           WireComplete => WireComplete',
           Completed(Shown, 0) => Completed(Shown, 0)',
           \A k \in task' : /\ k.limit >= PushLimit
                            /\ k.pc = "send" => k \in task
                            /\ srv = NoUser => k.pc \notin {"ok", "read", "send"},
           Pushing => Pushing'
    PROVE  FaithInv'
  <1>1. LimitsHigh'
    BY DEF LimitsHigh
  <1>2. HistoryForUser'
    BY DEF FaithInv, HistoryForUser
  <1>3. SendsCurrent => SendsCurrent'
    BY DEF SendsCurrent, Enough
  <1>4. ListComplete => ListComplete'
    BY ListKeeps
  <1> QED
    BY <1>1, <1>2, <1>3, <1>4 DEF FaithInv

\* The wire is the same.
LEMMA SameWire ==
    ASSUME UNCHANGED <<inbox, room, underway, view>>
    PROVE  /\ HistoriesIn(inbox') = {} <=> HistoriesIn(inbox) = {}
           /\ WireComplete => WireComplete'
           /\ Completed(Shown, 0) => Completed(Shown, 0)'
  BY DEF WireComplete, Completed, Tile, Enough, Shown

\* What the two conditions on completeness become in a step.
LEMMA CompleteNext ==
    /\ WireComplete' <=>
           \A p \in 1..Len(inbox') : IsLast(inbox', p) =>
               /\ Once(inbox', p)
               /\ Tile(inbox'[p].rows.first..inbox'[p].rows.last,
                       Nums(inbox', p), underway', room')
    /\ Completed(Shown, 0)' <=>
           /\ Once(inbox', 0)
           /\ Tile(Shown', Nums(inbox', 0), underway', room')
  BY DEF WireComplete, Completed

\* A frame is taken from the wire: a history behind it becomes complete still.
LEMMA TakenWire ==
    ASSUME inbox \in Seq(Frame), inbox # <<>>, inbox' = Tail(inbox),
           UNCHANGED <<room, underway>>, WireComplete
    PROVE  WireComplete'
  <1> SUFFICES ASSUME NEW p \in 1..Len(inbox'), IsLast(inbox', p)
               PROVE  /\ Once(inbox', p)
                      /\ Tile(inbox'[p].rows.first..inbox'[p].rows.last,
                              Nums(inbox', p), underway', room')
    BY CompleteNext
  <1>1. p \in Nat /\ p + 1 \in 1..Len(inbox) /\ inbox'[p] = inbox[p + 1]
    BY TailFrames
  <1>2. IsLast(inbox, p + 1)
    BY TailHistories
  <1>3. Completed(inbox[p + 1].rows.first..inbox[p + 1].rows.last, p + 1)
    BY <1>1, <1>2 DEF WireComplete
  <1> QED
    BY <1>1, <1>3, TailNums DEF Completed

\* An ERROR or a LOGIN_OK is received.
LEMMA OtherTaken ==
    ASSUME inbox \in Seq(Frame), inbox # <<>>, inbox' = Tail(inbox),
           Head(inbox).type \in {"ERROR", "LOGIN_OK"},
           UNCHANGED <<room, underway, view>>
    PROVE  /\ HistoriesIn(inbox') = {} <=> HistoriesIn(inbox) = {}
           /\ WireComplete => WireComplete'
           /\ Completed(Shown, 0) => Completed(Shown, 0)'
  <1>1. HistoriesIn(inbox') = {} <=> HistoriesIn(inbox) = {}
    BY TailHistories
  <1>2. Completed(Shown, 0) => Completed(Shown, 0)'
    BY HeadNums, CompleteNext DEF Completed, Shown
  <1> QED
    BY <1>1, <1>2, TakenWire

\* An ERROR or a LOGIN_OK is sent.
LEMMA OtherSent ==
    ASSUME inbox \in Seq(Frame), NEW f \in Frame, Answer(f),
           f.type \in {"ERROR", "LOGIN_OK"}, UNCHANGED <<room, underway, view>>
    PROVE  /\ HistoriesIn(inbox') = {} <=> HistoriesIn(inbox) = {}
           /\ WireComplete => WireComplete'
           /\ Completed(Shown, 0) => Completed(Shown, 0)'
  <1>0. inbox' = Append(inbox, f) /\ Len(inbox) \in Nat
    BY AppendFrames DEF Answer
  <1>1. HistoriesIn(inbox') = HistoriesIn(inbox)
    BY <1>0, AppendHistories
  <1>2. WireComplete => WireComplete'
    <2> SUFFICES ASSUME WireComplete, NEW p \in 1..Len(inbox'), IsLast(inbox', p)
                 PROVE  /\ Once(inbox', p)
                        /\ Tile(inbox'[p].rows.first..inbox'[p].rows.last,
                                Nums(inbox', p), underway', room')
      BY CompleteNext
    <2>1. p \in 1..Len(inbox) /\ IsLast(inbox, p) /\ inbox'[p] = inbox[p]
      BY <1>0, <1>1, AppendFrames DEF IsLast, HistoriesIn
    <2>2. Completed(inbox[p].rows.first..inbox[p].rows.last, p)
      BY <2>1 DEF WireComplete
    <2> QED
      BY <1>0, <2>1, <2>2, AppendNums DEF Completed
  <1>3. Completed(Shown, 0) => Completed(Shown, 0)'
    BY <1>0, AppendNums, CompleteNext DEF Completed, Shown
  <1> QED
    BY <1>1, <1>2, <1>3

\* A message is sent to the client.
LEMMA DeliverFaith ==
    ASSUME WireType, FaithInv, NEW n \in underway, Deliver(n)
    PROVE  FaithInv'
  <1>0. /\ inbox \in Seq(Frame) /\ Len(inbox) \in Nat
        /\ UNCHANGED <<view, srv, task, room, crossed>>
        /\ underway' = underway \ {n} /\ n \in Nat
    BY LenProperties
    DEF WireType, InboxFits, Scalars, Deliver, client, histories
  <1>1. LimitsHigh'
    BY <1>0 DEF FaithInv, LimitsHigh
  <1>2. CASE srv = NoUser
    BY <1>0, <1>1, <1>2 DEF Deliver, FaithInv, HistoryForUser
  <1>3. CASE srv # NoUser
    <2> DEFINE f == [type |-> "BROADCAST", num |-> n]
    <2>1. f \in Frame /\ f.type = "BROADCAST" /\ f.num = n
      BY <1>0 DEF Frame
    <2>2. inbox' = Append(inbox, f)
      BY <1>3 DEF Deliver, Answer
    <2> HIDE DEF f
    <2>3. HistoriesIn(inbox') = HistoriesIn(inbox)
      BY <1>0, <2>1, <2>2, AppendHistories
    <2> SUFFICES ASSUME ~crossed, SendsCurrent, WireComplete, ListComplete
                 PROVE  SendsCurrent' /\ WireComplete' /\ ListComplete'
      BY <1>0, <1>1, <1>3 DEF FaithInv, HistoryForUser
    <2>4. SendsCurrent'
      BY <1>0 DEF SendsCurrent
    <2>5. ASSUME NEW K, NEW p \in 0..Len(inbox), Completed(K, p)
          PROVE  /\ Once(inbox', p)
                 /\ Tile(K, Nums(inbox', p), underway', room')
      <3>1. n \notin Nums(inbox, p)
        BY <2>5 DEF Completed, Tile
      <3>2. Once(inbox', p) /\ Nums(inbox', p) = Nums(inbox, p) \cup {n}
        BY <1>0, <2>1, <2>2, <2>5, <3>1, AppendNums DEF Completed
      <3> QED
        BY <1>0, <2>5, <3>2, TileMoves DEF Completed
    <2>6. WireComplete'
      <3> SUFFICES ASSUME NEW p \in 1..Len(inbox'), IsLast(inbox', p)
                   PROVE  /\ Once(inbox', p)
                          /\ Tile(inbox'[p].rows.first..inbox'[p].rows.last,
                                  Nums(inbox', p), underway', room')
        BY CompleteNext
      <3>1. p \in 1..Len(inbox) /\ IsLast(inbox, p) /\ inbox'[p] = inbox[p]
        BY <1>0, <2>1, <2>2, <2>3, AppendFrames DEF IsLast, HistoriesIn
      <3>2. Completed(inbox[p].rows.first..inbox[p].rows.last, p)
        BY <3>1 DEF WireComplete
      <3> DEFINE K == inbox[p].rows.first..inbox[p].rows.last
      <3>3. p \in 0..Len(inbox) /\ Completed(K, p)
        BY <1>0, <3>1, <3>2
      <3>4. K = inbox'[p].rows.first..inbox'[p].rows.last
        BY <3>1
      <3> HIDE DEF K
      <3>5. Once(inbox', p) /\ Tile(K, Nums(inbox', p), underway', room')
        BY <2>5, <3>3
      <3> QED
        BY <3>4, <3>5
    <2>7. Completed(Shown, 0) => Completed(Shown, 0)'
      BY <1>0, <2>5, CompleteNext DEF Shown
    <2>8. Pushing => Pushing'
      BY <1>0 DEF Pushing
    <2> QED
      BY <1>0, <2>3, <2>4, <2>6, <2>7, <2>8, ListKeeps
  <1> QED
    BY <1>2, <1>3

\* A message of the room is stored: the histories on their way miss it, and it
\* will follow them.
LEMMA StoreFaith ==
    ASSUME WireType, FaithInv, Store, UNCHANGED <<view, inbox, srv>>,
           task' \subseteq task, Pushing => Pushing'
    PROVE  FaithInv'
  <1>0. /\ room \in Nat /\ room' = room + 1 /\ underway' = underway \cup {room + 1}
        /\ ~crossed' => ~crossed /\ \A k \in task : k.pc # "send"
    BY DEF WireType, Scalars, Store
  <1>1. LimitsHigh' /\ HistoryForUser'
    BY DEF FaithInv, LimitsHigh, HistoryForUser
  <1>2. ASSUME NEW K, NEW p, Completed(K, p)
        PROVE  Once(inbox', p) /\ Tile(K, Nums(inbox', p), underway', room')
    BY <1>0, <1>2, TileGrows DEF Completed
  <1>3. WireComplete => WireComplete'
    BY <1>2, CompleteNext DEF WireComplete
  <1>4. Completed(Shown, 0) => Completed(Shown, 0)'
    BY <1>2, CompleteNext DEF Shown
  <1>5. ListComplete => ListComplete'
    BY <1>4, ListKeeps
  <1>6. ~crossed' => SendsCurrent'
    BY <1>0 DEF SendsCurrent
  <1> QED
    BY <1>0, <1>1, <1>3, <1>5, <1>6 DEF FaithInv

\* A history is read: it goes up to the last message of the room.
LEMMA ReadFaith ==
    ASSUME WireType, FaithInv, NEW k \in task, ReadHistory(k)
    PROVE  FaithInv'
  <1> DEFINE j == [k EXCEPT !.pc = "send", !.rows = Newest(k.limit)]
  <1>0. /\ k \in Task /\ k.limit \in Nat /\ k.limit >= PushLimit /\ k.pc = "read"
        /\ room \in Nat /\ PushLimit \in Nat
    BY ClientAssumption
    DEF WireType, TasksFit, Task, Scalars, FaithInv, LimitsHigh, ReadHistory,
        ClientAssumption
  <1>1. /\ j.kind = k.kind /\ j.limit = k.limit /\ j.pc = "send"
        /\ j.rows = Newest(k.limit)
    BY <1>0 DEF Task
  <1>2. /\ task' = (task \ {k}) \cup {j}
        /\ UNCHANGED <<view, inbox, srv, room, underway>>
        /\ ~crossed' => ~crossed /\ underway = {}
    BY DEF ReadHistory, client
  <1> HIDE DEF j
  <1>3. LimitsHigh'
    BY <1>0, <1>1, <1>2 DEF FaithInv, LimitsHigh
  <1>4. srv # NoUser
    BY <1>0 DEF FaithInv, HistoryForUser
  <1>5. j.rows.last = room /\ Enough(j.rows.first, room)
    BY <1>0, <1>1 DEF Newest, Enough
  <1>6. ~crossed' /\ SendsCurrent => SendsCurrent'
    BY <1>2, <1>5 DEF SendsCurrent, Enough
  <1>7. Pushing => Pushing'
    BY <1>1, <1>2 DEF Pushing
  <1>8. /\ WireComplete => WireComplete'
        /\ ListComplete => ListComplete'
    BY <1>2, <1>7, SameWire, ListKeeps
  <1>9. HistoryForUser'
    BY <1>2, <1>4 DEF HistoryForUser
  <1> QED
    BY <1>2, <1>3, <1>6, <1>8, <1>9 DEF FaithInv

\* It is sent: from now on it is the last one.
LEMMA SendFaith ==
    ASSUME WireType, FaithInv, NEW k \in task, SendHistory(k)
    PROVE  FaithInv'
  <1> DEFINE f == [type |-> "HISTORY_RESP", rows |-> k.rows]
             z == Len(inbox) + 1
  <1>0. /\ k \in Task /\ Fits(k.rows) /\ k.rows \in Rows /\ k.pc = "send"
        /\ room \in Nat /\ inbox \in Seq(Frame) /\ Len(inbox) \in Nat
    BY LenProperties
    DEF WireType, TasksFit, TaskFits, Task, Scalars, InboxFits, SendHistory
  <1>1. f \in Frame /\ f.type = "HISTORY_RESP" /\ f.rows = k.rows
    BY <1>0 DEF Frame
  <1>2. /\ task' \subseteq task /\ inbox' = Append(inbox, f)
        /\ UNCHANGED <<view, srv, room, underway, crossed>>
    BY DEF SendHistory, Done, Answer, client, histories
  <1> HIDE DEF f
  <1>3. LimitsHigh'
    BY <1>2 DEF FaithInv, LimitsHigh
  <1>4. srv # NoUser
    BY <1>0 DEF FaithInv, HistoryForUser
  <1>5. HistoryForUser'
    BY <1>2, <1>4 DEF HistoryForUser
  <1> SUFFICES ASSUME ~crossed, SendsCurrent
               PROVE  SendsCurrent' /\ WireComplete' /\ ListComplete'
    BY <1>2, <1>3, <1>4, <1>5 DEF FaithInv
  <1>6. SendsCurrent'
    BY <1>2 DEF SendsCurrent, Enough
  <1>7. ListComplete'
    BY <1>0, <1>1, <1>2, AppendHistories DEF ListComplete
  <1>8. /\ underway = {} /\ k.rows.last = room /\ Enough(k.rows.first, room)
        /\ k.rows.first \in 1..(room + 1)
    BY <1>0 DEF SendsCurrent, Fits
  <1>9. Tile(k.rows.first..k.rows.last, {}, {}, room)
    BY <1>0, <1>8, TileNew
  <1>10. WireComplete'
    <2> SUFFICES ASSUME NEW p \in 1..Len(inbox'), IsLast(inbox', p)
                 PROVE  /\ Once(inbox', p)
                        /\ Tile(inbox'[p].rows.first..inbox'[p].rows.last,
                                Nums(inbox', p), underway', room')
      BY CompleteNext
    <2>1. p = z /\ inbox'[p] = f /\ Len(inbox') = z
      BY <1>0, <1>1, <1>2, AppendHistories, AppendFrames
    <2>2. inbox' \in Seq(Frame)
      BY <1>0, <1>1, <1>2, AppendProperties
    <2>3. Nums(inbox', p) = {} /\ Once(inbox', p)
      BY <2>1, <2>2, EndNums
    <2> QED
      BY <1>1, <1>2, <1>8, <1>9, <2>1, <2>3
  <1> QED
    BY <1>6, <1>7, <1>10

\* A login is granted: it will push a history, and none is on its way yet.
LEMMA GrantFaith ==
    ASSUME WireType, FaithInv, NEW k \in task, Grant(k)
    PROVE  FaithInv'
  <1> DEFINE j == [k EXCEPT !.pc = "ok"]
  <1>0. k \in Task /\ k.kind = "LOGIN" /\ k.pc = "run" /\ k.who \in User
    BY DEF WireType, TasksFit, TaskFits, Grant
  <1>1. j.kind = "LOGIN" /\ j.limit = k.limit /\ j.pc = "ok"
    BY <1>0 DEF Task
  <1>2. /\ task' = (task \ {k}) \cup {j} /\ srv' \in User
        /\ UNCHANGED <<view, inbox, room, underway, crossed>>
    BY <1>0 DEF Grant, Step, client, histories
  <1> HIDE DEF j
  <1>3. LimitsHigh'
    BY <1>1, <1>2 DEF FaithInv, LimitsHigh
  <1>4. HistoryForUser'
    BY <1>2, ClientAssumption DEF HistoryForUser, ClientAssumption
  <1>5. ListComplete'
    BY <1>1, <1>2 DEF ListComplete, Pushing
  <1>6. CASE srv = NoUser
    <2>1. HistoriesIn(inbox) = {} /\ \A i \in task : i.pc # "send"
      BY <1>6 DEF FaithInv, HistoryForUser
    <2>2. SendsCurrent'
      BY <1>1, <1>2, <2>1 DEF SendsCurrent
    <2>3. WireComplete'
      BY <1>2, <2>1 DEF WireComplete, IsLast
    <2> QED
      BY <1>3, <1>4, <1>5, <2>2, <2>3 DEF FaithInv
  <1>7. CASE srv # NoUser
    <2>1. SendsCurrent => SendsCurrent'
      BY <1>1, <1>2 DEF SendsCurrent, Enough
    <2>2. WireComplete => WireComplete'
      BY <1>2, SameWire
    <2> QED
      BY <1>2, <1>3, <1>4, <1>5, <1>7, <2>1, <2>2 DEF FaithInv
  <1> QED
    BY <1>6, <1>7

\* A message is received: it is shown behind the others, and for the first time.
LEMMA BroadcastFaith ==
    ASSUME WireType, FaithInv, ReceiveBroadcast
    PROVE  FaithInv'
  <1> DEFINE n == Head(inbox).num
  <1>0. /\ inbox \in Seq(Frame) /\ inbox # <<>> /\ inbox' = Tail(inbox)
        /\ Head(inbox).type = "BROADCAST"
        /\ view' = Append(view, n) /\ view \in Seq(1..room)
        /\ UNCHANGED <<srv, task, room, underway, crossed>>
    BY DEF WireType, InboxFits, ShownFits, ReceiveBroadcast, Receive, server,
           histories
  <1>1. n \in 1..room
    BY <1>0, ReceiveFits
    DEF WireType, FrameFits, ReceiveBroadcast, server
  <1> HIDE DEF n
  <1>2. /\ Len(view) \in Nat /\ Len(view') = Len(view) + 1
        /\ \A i \in 1..Len(view) : view'[i] = view[i]
        /\ view'[Len(view) + 1] = n
    BY <1>0, <1>1, AppendProperties, LenProperties
  <1>3. Shown' = Shown \cup {n}
    BY <1>2 DEF Shown
  <1>4. /\ HistoriesIn(inbox) = {} => HistoriesIn(inbox') = {}
        /\ HistoriesIn(inbox') = {} => HistoriesIn(inbox) = {}
    BY <1>0, TailHistories
  <1>5. LimitsHigh' /\ HistoryForUser'
    BY <1>0, <1>4 DEF FaithInv, LimitsHigh, HistoryForUser
  <1>6. SendsCurrent => SendsCurrent'
    BY <1>0 DEF SendsCurrent, Enough
  <1>7. WireComplete => WireComplete'
    BY <1>0, TakenWire
  <1>8. ListComplete => ListComplete'
    <2>1. CASE Pushing \/ HistoriesIn(inbox) # {}
      BY <1>0, <1>4, <2>1 DEF ListComplete, Pushing
    <2>2. CASE /\ \A i, j \in 1..Len(view) : view[i] = view[j] => i = j
               /\ Completed(Shown, 0)
      <3>1. /\ Once(inbox', 0) /\ n \notin Nums(inbox', 0)
            /\ Nums(inbox, 0) = Nums(inbox', 0) \cup {n}
        BY <1>0, <2>2, HeadNums DEF Completed, n
      <3>2. n \notin Shown
        BY <2>2, <3>1 DEF Completed, Tile
      <3>3. \A i \in 1..Len(view) : view'[i] \in Shown
        BY <1>2 DEF Shown
      <3>4. \A i, j \in 1..Len(view') : view'[i] = view'[j] => i = j
        BY <1>2, <2>2, <3>2, <3>3
      <3>5. Tile(Shown', Nums(inbox', 0), underway', room')
        BY <1>0, <1>3, <2>2, <3>1, TileMoves DEF Completed
      <3> QED
        BY <3>1, <3>4, <3>5, CompleteNext DEF ListComplete
    <2> QED
      BY <2>1, <2>2 DEF ListComplete
  <1> QED
    BY <1>0, <1>5, <1>6, <1>7, <1>8 DEF FaithInv

\* loadFromJsonArray shows its rows, each once.
LEMMA ListedShows ==
    ASSUME NEW rows \in Rows, rows.first \in 1..(rows.last + 1)
    PROVE  LET l == Listed(rows)
           IN  /\ {l[i] : i \in 1..Len(l)} = rows.first..rows.last
               /\ \A i, j \in 1..Len(l) : l[i] = l[j] => i = j
  <1> DEFINE m == rows.last - rows.first + 1
  <1>1. rows.first \in Nat /\ rows.last \in Nat /\ m \in Nat
    BY DEF Rows
  <1>2. /\ Listed(rows) = [i \in 1..m |-> rows.first + i - 1]
        /\ Listed(rows) \in Seq(Int) /\ Len(Listed(rows)) = m
    BY <1>1 DEF Listed
  <1>3. \A v \in rows.first..rows.last : /\ v - rows.first + 1 \in 1..m
                                         /\ Listed(rows)[v - rows.first + 1] = v
    BY <1>1, <1>2
  <1>4. \A i \in 1..m : /\ Listed(rows)[i] \in rows.first..rows.last
                        /\ Listed(rows)[i] = rows.first + i - 1
    BY <1>1, <1>2
  <1> HIDE DEF m
  <1>5. {Listed(rows)[i] : i \in 1..m} = rows.first..rows.last
    BY <1>3, <1>4
  <1>6. \A i, j \in 1..m : Listed(rows)[i] = Listed(rows)[j] => i = j
    BY <1>1, <1>4
  <1> QED
    BY <1>2, <1>5, <1>6

\* A history is received: the list is that history, and if it is the last one
\* it becomes complete by what follows.
LEMMA HistoryFaith ==
    ASSUME WireType, FaithInv, ReceiveHistory
    PROVE  FaithInv'
  <1> DEFINE rows == Head(inbox).rows
  <1>0. /\ inbox \in Seq(Frame) /\ inbox # <<>> /\ inbox' = Tail(inbox)
        /\ Head(inbox).type = "HISTORY_RESP" /\ view' = Listed(rows)
        /\ UNCHANGED <<srv, task, room, underway, crossed>>
    BY DEF WireType, InboxFits, ReceiveHistory, Receive, server, histories
  <1>1. rows \in Rows /\ Fits(rows) /\ Head(inbox) = inbox[1]
    BY <1>0, ReceiveFits
    DEF WireType, FrameFits, Frame, ReceiveHistory, server
  <1>2. /\ Shown' = rows.first..rows.last
        /\ \A i, j \in 1..Len(view') : view'[i] = view'[j] => i = j
    BY <1>0, <1>1, ListedShows DEF Fits, Shown
  <1>3. HistoriesIn(inbox) = {} => HistoriesIn(inbox') = {}
    BY <1>0, TailHistories
  <1>4. LimitsHigh' /\ HistoryForUser'
    BY <1>0, <1>3 DEF FaithInv, LimitsHigh, HistoryForUser
  <1>5. SendsCurrent => SendsCurrent'
    BY <1>0 DEF SendsCurrent, Enough
  <1>6. WireComplete => WireComplete'
    BY <1>0, TakenWire
  <1>7. WireComplete => ListComplete'
    <2> SUFFICES ASSUME WireComplete, HistoriesIn(inbox') = {}
                 PROVE  ListComplete'
      BY DEF ListComplete
    <2>1. IsLast(inbox, 1) /\ 1 \in 1..Len(inbox)
      BY <1>0, TailHistories, TailFrames
    <2>2. Completed(rows.first..rows.last, 1)
      BY <1>1, <2>1 DEF WireComplete
    <2>3. Nums(inbox', 0) = Nums(inbox, 1) /\ Once(inbox', 0)
      BY <1>0, <2>2, TailNums DEF Completed
    <2>4. Completed(Shown, 0)'
      BY <1>0, <1>2, <2>2, <2>3, CompleteNext DEF Completed
    <2> QED
      BY <1>2, <2>4 DEF ListComplete
  <1> QED
    BY <1>0, <1>4, <1>5, <1>6, <1>7 DEF FaithInv

\* The connection is gone, and all that was on it.
LEMMA HangupFaith ==
    ASSUME Hangup
    PROVE  FaithInv'
  <1>1. inbox' = <<>> /\ srv' = NoUser /\ task' = {}
    BY DEF Hangup
  <1>2. HistoriesIn(inbox') = {}
    BY <1>1, EmptySeq DEF HistoriesIn
  <1> QED
    BY <1>1, <1>2 DEF FaithInv, LimitsHigh, HistoryForUser

\* A frame is sent to the server, and asks for no more than is pushed at least.
LEMMA SendTasks ==
    ASSUME FaithInv, NEW kind, NEW who, Send(kind, who), srv' = srv
    PROVE  /\ \A k \in task' :
                  /\ k.limit >= PushLimit
                  /\ k.pc = "send" => k \in task
                  /\ srv = NoUser => k.pc \notin {"ok", "read", "send"}
           /\ Pushing => Pushing'
  <1>1. /\ NewTask(kind, who).pc = "sent"
        /\ NewTask(kind, who).limit >= PushLimit
    BY ClientAssumption DEF NewTask, ClientAssumption
  <1> QED
    BY <1>1 DEF Send, FaithInv, LimitsHigh, HistoryForUser, Pushing

\* The tasks are the same.
LEMMA SameTasks ==
    ASSUME FaithInv, UNCHANGED <<srv, task>>
    PROVE  /\ \A k \in task' :
                  /\ k.limit >= PushLimit
                  /\ k.pc = "send" => k \in task
                  /\ srv = NoUser => k.pc \notin {"ok", "read", "send"}
           /\ Pushing => Pushing'
  BY DEF FaithInv, LimitsHigh, HistoryForUser, Pushing

\* What the client and its user do.
LEMMA FaithClientStep ==
    ASSUME WireType, FaithInv,
           \/ ConnectToServer \/ SendMessage \/ Logout
           \/ \E u \in User : Login(u)
           \/ SocketConnected \/ SocketFails \/ SocketDisconnected
           \/ OnConnectTimeout \/ OnLoginTimeout
           \/ ReceiveLoginOk \/ ReceiveError \/ ReceiveBroadcast
           \/ ReceiveHistory
    PROVE  FaithInv'
  <1>1. ASSUME UNCHANGED <<inbox, server, view, histories>>
        PROVE  FaithInv'
    BY <1>1, FaithKeep, SameWire, SameTasks DEF server, histories
  <1>2. CASE ConnectToServer
    BY <1>1, <1>2, HangupFaith DEF ConnectToServer, TryAddress
  <1>3. CASE SendMessage
    BY <1>3, FaithKeep, SameWire, SendTasks DEF SendMessage, histories
  <1>4. ASSUME NEW u \in User, Login(u)
        PROVE  FaithInv'
    BY <1>4, FaithKeep, SameWire, SendTasks DEF Login
  <1>5. CASE Logout \/ SocketDisconnected
    BY <1>5, HangupFaith DEF Logout, SocketDisconnected
  <1>6. CASE SocketConnected \/ SocketFails \/ OnConnectTimeout \/ OnLoginTimeout
    BY <1>1, <1>6
    DEF SocketConnected, SocketFails, OnConnectTimeout, OnLoginTimeout
  <1>7. CASE ReceiveLoginOk \/ ReceiveError
    <2>1. /\ Receive("LOGIN_OK") \/ Receive("ERROR")
          /\ Send("HISTORY_REQ", NoUser) \/ UNCHANGED task
          /\ UNCHANGED <<srv, crossed, room, underway, view>>
      BY <1>7 DEF ReceiveLoginOk, ReceiveError, server, histories
    <2>2. /\ inbox \in Seq(Frame) /\ inbox # <<>> /\ inbox' = Tail(inbox)
          /\ Head(inbox).type \in {"ERROR", "LOGIN_OK"}
      BY <2>1 DEF WireType, InboxFits, Receive
    <2>3. /\ HistoriesIn(inbox') = {} <=> HistoriesIn(inbox) = {}
          /\ WireComplete => WireComplete'
          /\ Completed(Shown, 0) => Completed(Shown, 0)'
      BY <2>1, <2>2, OtherTaken
    <2> QED
      BY <2>1, <2>3, FaithKeep, SendTasks, SameTasks
  <1> QED
    BY <1>2, <1>3, <1>4, <1>5, <1>6, <1>7, BroadcastFaith, HistoryFaith

\* What the server does.
LEMMA FaithServerStep ==
    ASSUME WireType, FaithInv,
           \/ \E k \in task : Handle(k)
           \/ \E n \in underway : Deliver(n)
           \/ Post
    PROVE  FaithInv'
  <1>0. /\ task \subseteq Task /\ inbox \in Seq(Frame)
        /\ \A k \in task : k.pc = "ok" => k.kind = "LOGIN" /\ k.who \in User
    BY DEF WireType, TasksFit, TaskFits, InboxFits
  <1>1. /\ \A k \in task : k.limit >= PushLimit
        /\ srv = NoUser => \A k \in task : k.pc \notin {"ok", "read", "send"}
    BY DEF FaithInv, LimitsHigh, HistoryForUser
  <1>2. ASSUME NEW k \in task, Route(k) \/ Refuse(k)
        PROVE  FaithInv'
    <2>1. PICK l \in {"run", "error", "read"} :
              /\ Step(k, l)
              /\ l = "read" => srv # NoUser
      BY <1>2 DEF Route, Refuse
    <2> DEFINE j == [k EXCEPT !.pc = l]
    <2>2. /\ k.pc \notin {"ok", "read", "send"} /\ task' = (task \ {k}) \cup {j}
          /\ UNCHANGED <<inbox, srv, room, underway, crossed, view>>
      BY <1>2, <2>1 DEF Route, Refuse, Step, histories
    <2>3. j.pc = l /\ j.limit = k.limit
      BY <1>0 DEF Task
    <2> HIDE DEF j
    <2>4. \A i \in task' : /\ i.limit >= PushLimit
                           /\ i.pc = "send" => i \in task
                           /\ srv = NoUser => i.pc \notin {"ok", "read", "send"}
      BY <1>1, <2>1, <2>2, <2>3
    <2>5. Pushing => Pushing'
      BY <2>2 DEF Pushing
    <2> QED
      BY <2>2, <2>4, <2>5, SameWire, FaithKeep
  <1>3. ASSUME NEW k \in task, ReplyError(k)
        PROVE  FaithInv'
    <2> DEFINE f == [type |-> "ERROR"]
    <2>1. /\ k.pc = "error" /\ task' = task \ {k} /\ Answer(f)
          /\ f \in Frame /\ f.type = "ERROR"
          /\ UNCHANGED <<srv, room, underway, crossed, view>>
      BY <1>3 DEF ReplyError, Done, Frame, histories
    <2> HIDE DEF f
    <2>2. Pushing => Pushing'
      BY <2>1 DEF Pushing
    <2>3. /\ HistoriesIn(inbox') = {} <=> HistoriesIn(inbox) = {}
          /\ WireComplete => WireComplete'
          /\ Completed(Shown, 0) => Completed(Shown, 0)'
      BY <1>0, <2>1, OtherSent
    <2> QED
      BY <1>1, <2>1, <2>2, <2>3, FaithKeep
  <1>4. ASSUME NEW k \in task, ReplyOk(k)
        PROVE  FaithInv'
    <2> DEFINE f == [type |-> "LOGIN_OK", from |-> k.who]
               j == [k EXCEPT !.pc = "read", !.limit = PushLimit]
    <2>1. /\ k.pc = "ok" /\ task' = (task \ {k}) \cup {j} /\ Answer(f)
          /\ f \in Frame /\ f.type = "LOGIN_OK"
          /\ UNCHANGED <<srv, room, underway, crossed, view>>
      BY <1>0, <1>4 DEF ReplyOk, Frame, histories
    <2>2. /\ j.pc = "read" /\ j.kind = "LOGIN"
          /\ j.limit = PushLimit /\ PushLimit >= PushLimit
      BY <1>0, <2>1, ClientAssumption DEF Task, ClientAssumption
    <2> HIDE DEF f, j
    <2>3. Pushing'
      BY <2>1, <2>2 DEF Pushing
    <2>4. /\ HistoriesIn(inbox') = {} <=> HistoriesIn(inbox) = {}
          /\ WireComplete => WireComplete'
          /\ Completed(Shown, 0) => Completed(Shown, 0)'
      BY <1>0, <2>1, OtherSent
    <2>5. \A i \in task' : /\ i.limit >= PushLimit
                           /\ i.pc = "send" => i \in task
                           /\ srv = NoUser => i.pc \notin {"ok", "read", "send"}
      BY <1>1, <2>1, <2>2
    <2> QED
      BY <2>1, <2>3, <2>4, <2>5, FaithKeep
  <1>5. ASSUME NEW k \in task, Broadcast(k)
        PROVE  FaithInv'
    <2>1. /\ Store /\ k.kind = "BROADCAST" /\ task' = task \ {k}
          /\ UNCHANGED <<view, inbox, srv>>
      BY <1>5 DEF Broadcast, Done
    <2>2. Pushing => Pushing'
      BY <2>1 DEF Pushing
    <2> QED
      BY <2>1, <2>2, StoreFaith
  <1>6. CASE Post
    <2>1. Store /\ UNCHANGED <<view, inbox, srv, task>>
      BY <1>6 DEF Post
    <2>2. Pushing => Pushing'
      BY <2>1 DEF Pushing
    <2> QED
      BY <2>1, <2>2, StoreFaith
  <1> QED
    BY <1>2, <1>3, <1>4, <1>5, <1>6, GrantFaith, ReadFaith, SendFaith,
       DeliverFaith DEF Handle

LEMMA FaithStep ==
    ASSUME WireType, FaithInv, [Next]_vars
    PROVE  FaithInv'
  <1>1. CASE UNCHANGED vars
    BY <1>1, FaithKeep, SameWire, SameTasks DEF vars, server, histories
  <1> QED
    BY <1>1, FaithClientStep, FaithServerStep DEF Next

\* With nothing to come the list that is shown is complete.
LEMMA FaithQuiet ==
    ASSUME WireType, FaithInv
    PROVE  RoomFaithful
  <1> SUFFICES ASSUME Quiet, srv # NoUser, ~crossed
               PROVE  /\ Cardinality(Shown) = Len(view)
                      /\ \E a \in 1..(room + 1) :
                             /\ Shown = a..room
                             /\ a = 1 \/ room - a + 1 >= PushLimit
    BY DEF RoomFaithful
  <1>1. inbox = <<>> /\ task = {} /\ underway = {}
    BY DEF Quiet
  <1>2. /\ HistoriesIn(inbox) = {} /\ Nums(inbox, 0) = {} /\ ~Pushing
    BY <1>1, EmptySeq DEF HistoriesIn, Nums, NewerIn, Pushing
  <1>3. /\ \A i, j \in 1..Len(view) : view[i] = view[j] => i = j
        /\ Completed(Shown, 0)
    BY <1>2 DEF FaithInv, ListComplete
  <1>4. Tile(Shown, {}, {}, room)
    BY <1>1, <1>2, <1>3 DEF Completed
  <1>5. \E a \in 1..(room + 1) : Shown = a..room /\ Enough(a, room)
    BY <1>4 DEF Tile
  <1>6. Len(view) \in Nat /\ view = [i \in 1..Len(view) |-> view[i]]
    BY SeqDef, LenProperties DEF WireType, ShownFits
  <1>7. view \in Bijection(1..Len(view), Shown)
    BY <1>3, <1>6, Fun_IsBij DEF Shown
  <1>8. Cardinality(Shown) = Len(view)
    BY <1>6, <1>7, FS_CountingElements DEF ExistsBijection
  <1> QED
    BY <1>5, <1>8 DEF Enough

\* When all is answered the room's messages are shown, each once, up to the last
\* and back to the first or as far as the history goes, whatever was received
\* before (loadFromJsonArray): no later history lacks a message that was sent,
\* unless one was on its way while a history was.
THEOREM RoomFaithfulHolds == Spec => []RoomFaithful
  <1>1. Init => WireType /\ FaithInv
    <2> SUFFICES ASSUME Init PROVE FaithInv
      BY WireInit
    <2>1. inbox = <<>> /\ task = {} /\ srv = NoUser
      BY DEF Init
    <2>2. HistoriesIn(inbox) = {}
      BY <2>1, EmptySeq DEF HistoriesIn
    <2> QED
      BY <2>1, <2>2 DEF FaithInv, LimitsHigh, HistoryForUser
  <1>2. (WireType /\ FaithInv) /\ [Next]_vars => (WireType /\ FaithInv)'
    BY WireStep, FaithStep
  <1>3. WireType /\ FaithInv => RoomFaithful
    BY FaithQuiet
  <1> QED
    BY <1>1, <1>2, <1>3, PTL DEF Spec
=============================================================================
