---------------------------- MODULE WireSendProofs ----------------------------
(***************************************************************************)
(* Proofs about WireSend, for every number of workers and connections and    *)
(* every length of prefix, body and buffer: the mutexes do not deadlock, and *)
(* those who write under send_mutex_ have the line of FrameChannel.          *)
(***************************************************************************)
EXTENDS WireSend, TLAPS

\* The beginning of any call keeps the types.
LEMMA BeginType ==
    ASSUME TypeOK, NEW t \in Thread, NEW what \in Call,
           NEW c \in Conn \cup {NoConn}, NEW l \in PC,
           Begin(t, what, c, l), victim' \in Conn \cup {NoConn}
    PROVE  TypeOK'
<1>1. calls' \in 0..MaxCalls
  BY WireAssumption DEF WireAssumption, TypeOK, Begin
<1> QED
  BY <1>1 DEF TypeOK, Begin, Goto, wires, locks

\* The types.
LEMMA TypeStep == TypeOK /\ CallInv /\ [Next]_vars => TypeOK'
<1> SUFFICES ASSUME TypeOK /\ CallInv, [Next]_vars PROVE TypeOK'
  OBVIOUS
<1> USE WireAssumption DEF WireAssumption, TypeOK, Thread, control, wires, locks
<1>1. ASSUME NEW t \in Thread, BeginBroadcast(t)
      PROVE  TypeOK'
  BY <1>1, BeginType DEF BeginBroadcast, PC, Call, LockedCall
<1>2. ASSUME NEW t \in Worker, NEW c \in Conn, BeginSendTo(t, c)
      PROVE  TypeOK'
  BY <1>2, BeginType DEF BeginSendTo, PC, Call, LockedCall
<1>3. ASSUME NEW t \in Worker, NEW c \in Conn, BeginAnswer(t, c)
      PROVE  TypeOK'
  BY <1>3, BeginType DEF BeginAnswer, PC, Call, LockedCall
<1>4. ASSUME NEW t \in Worker, NEW c \in Conn, BeginReserve(t, c)
      PROVE  TypeOK'
  BY <1>4, BeginType DEF BeginReserve, PC, Call, LockedCall
<1>5. ASSUME NEW c \in Conn, BeginRemove(c)
      PROVE  TypeOK'
  BY <1>5, BeginType DEF BeginRemove, PC, Call, LockedCall
<1>6. ASSUME NEW t \in Thread, LockLogin(t)
      PROVE  TypeOK'
  BY <1>6 DEF LockLogin, Goto, PC
<1>7. ASSUME NEW t \in Thread, UnlockLogin(t)
      PROVE  TypeOK'
  BY <1>7 DEF UnlockLogin, Goto, PC
<1>8. ASSUME NEW t \in Thread, LockSessions(t)
      PROVE  TypeOK'
  BY <1>8 DEF LockSessions, Goto, PC
<1>9. ASSUME NEW t \in Thread, UnlockSessions(t)
      PROVE  TypeOK'
  <2> USE <1>9 DEF UnlockSessions, Goto
  <2>1. CASE FindSession(t)
    BY <2>1 DEF FindSession, PC
  <2>2. CASE LookUp(t)
    BY <2>2 DEF LookUp, PC
  <2>3. CASE CopyTargets(t)
    <3>1. PICK targets \in SUBSET live : todo' = [todo EXCEPT ![t] = targets]
      BY <2>3 DEF CopyTargets
    <3>2. todo' \in [Thread -> SUBSET Conn]
      BY <3>1
    <3> QED
      BY <2>3, <3>2 DEF CopyTargets, PC
  <2>4. CASE Erase(t)
    <3>1. left' \in 0..2
      BY <2>4 DEF Erase
    <3>2. pc' \in [Thread -> PC]
      BY <2>4 DEF Erase, PC
    <3> QED
      BY <2>4, <3>1, <3>2 DEF Erase
  <2> QED
    BY <2>1, <2>2, <2>3, <2>4
<1>10. ASSUME NEW t \in Thread, LockSend(t)
      PROVE  TypeOK'
  BY <1>10 DEF LockSend, Goto, PC
<1>11. ASSUME NEW t \in Thread, UnlockSend(t)
      PROVE  TypeOK'
  BY <1>11 DEF UnlockSend, Goto, PC
<1>12. ASSUME NEW t \in Thread, NEW c \in Conn, NextTarget(t, c)
      PROVE  TypeOK'
  BY <1>12 DEF NextTarget, Goto, PC
<1>13. ASSUME NEW t \in Thread, BroadcastDone(t)
      PROVE  TypeOK'
  BY <1>13 DEF BroadcastDone, Goto, PC
<1>14. ASSUME NEW t \in Thread, NextFarewell(t)
      PROVE  TypeOK'
  <2>1. left' \in 0..2
    BY <1>14 DEF NextFarewell
  <2> QED
    BY <1>14, <2>1 DEF NextFarewell, Goto, PC
<1>15. ASSUME NEW t \in Thread, Shutdown(t)
      PROVE  TypeOK'
  <2>1. open' \in [Conn -> BOOLEAN]
    BY <1>15 DEF Shutdown
  <2> QED
    BY <1>15, <2>1 DEF Shutdown, Goto, PC
<1>16. ASSUME NEW t \in Thread, NEW n \in 1..FrameLen, Write(t, n)
      PROVE  TypeOK'
  <2> DEFINE c == conn[t]
             k == n - Progress(t)
  <2>1. c \in Conn /\ pc[t] = "write"
    BY <1>16 DEF Write, CallInv
  <2>2. Progress(t) \in 0..(FrameLen - 1)
    BY <2>1 DEF Progress
  <2>3. unread[c] + k \in 0..SndBuf
    BY <1>16, <2>1, <2>2 DEF Write, FrameLen
  <2>4. unread' \in [Conn -> 0..SndBuf]
    BY <1>16, <2>3 DEF Write
  <2>5. ASSUME NEW f \in [Conn -> [Thread -> 0..(FrameLen - 1)]]
        PROVE  Put(f, t, n) \in [Conn -> [Thread -> 0..(FrameLen - 1)]]
    <3>1. (IF n = FrameLen THEN 0 ELSE n) \in 0..(FrameLen - 1)
      BY DEF FrameLen
    <3> QED
      BY <2>1, <3>1 DEF Put
  <2>6. part' \in [Conn -> [Thread -> 0..(FrameLen - 1)]]
    BY <1>16, <2>5 DEF Write
  <2>7. bare' \in [Conn -> [Thread -> 0..(FrameLen - 1)]]
    BY <1>16, <2>5 DEF Write
  <2>8. pc' \in [Thread -> PC]
    BY <1>16 DEF Write, AfterWrite, Goto, PC
  <2> QED
    BY <1>16, <2>4, <2>6, <2>7, <2>8 DEF Write
<1>17. ASSUME NEW t \in Thread, GiveUp(t)
      PROVE  TypeOK'
  <2>1. open' \in [Conn -> BOOLEAN]
    BY <1>17 DEF GiveUp
  <2> QED
    BY <1>17, <2>1 DEF GiveUp, AfterWrite, Goto, PC
<1>18. ASSUME NEW t \in Thread, SendFails(t)
      PROVE  TypeOK'
  BY <1>18 DEF SendFails, AfterWrite, Goto, PC
<1>19. ASSUME NEW t \in Thread, SendRefused(t)
      PROVE  TypeOK'
  BY <1>19 DEF SendRefused, Progress, AfterWrite, Goto, PC
<1>20. ASSUME NEW c \in Conn, Read(c)
      PROVE  TypeOK'
  <2>1. unread' \in [Conn -> 0..SndBuf]
    BY <1>20 DEF Read
  <2> QED
    BY <1>20, <2>1 DEF Read, control
<1>21. ASSUME NEW c \in Conn, Reset(c)
      PROVE  TypeOK'
  BY <1>21 DEF Reset
<1>22. CASE UNCHANGED vars
  BY <1>22 DEF vars
<1> QED
  BY <1>1, <1>2, <1>3, <1>4, <1>5, <1>6, <1>7, <1>8, <1>9, <1>10, <1>11,
     <1>12, <1>13, <1>14, <1>15, <1>16, <1>17, <1>18, <1>19, <1>20, <1>21,
     <1>22
  DEF Next, Step

\* Nobody comes to a label of another call, nor to a write without its connection.
LEMMA CallStep == TypeOK /\ CallInv /\ LockInv /\ [Next]_vars => CallInv'
<1> SUFFICES ASSUME TypeOK /\ CallInv /\ LockInv, [Next]_vars PROVE CallInv'
  OBVIOUS
<1> USE WireAssumption DEF WireAssumption, TypeOK, CallInv, LockInv, HasLine,
      Locked, Thread, PC, Call, LockedCall, control, wires, locks
<1>1. ASSUME NEW t \in Thread, BeginBroadcast(t)
      PROVE  CallInv'
  BY <1>1 DEF BeginBroadcast, Begin, Goto
<1>2. ASSUME NEW t \in Worker, NEW c \in Conn, BeginSendTo(t, c)
      PROVE  CallInv'
  BY <1>2 DEF BeginSendTo, Begin, Goto
<1>3. ASSUME NEW t \in Worker, NEW c \in Conn, BeginAnswer(t, c)
      PROVE  CallInv'
  BY <1>3 DEF BeginAnswer, Begin, Goto
<1>4. ASSUME NEW t \in Worker, NEW c \in Conn, BeginReserve(t, c)
      PROVE  CallInv'
  BY <1>4 DEF BeginReserve, Begin, Goto
<1>5. ASSUME NEW c \in Conn, BeginRemove(c)
      PROVE  CallInv'
  BY <1>5 DEF BeginRemove, Begin, Goto
<1>6. ASSUME NEW t \in Thread, LockLogin(t)
      PROVE  CallInv'
  BY <1>6 DEF LockLogin, Goto
<1>7. ASSUME NEW t \in Thread, UnlockLogin(t)
      PROVE  CallInv'
  BY <1>7 DEF UnlockLogin, Goto
<1>8. ASSUME NEW t \in Thread, LockSessions(t)
      PROVE  CallInv'
  BY <1>8 DEF LockSessions, Goto
<1>9. ASSUME NEW t \in Thread, UnlockSessions(t)
      PROVE  CallInv'
  <2> USE <1>9 DEF UnlockSessions, Goto
  <2>1. CASE FindSession(t)
    BY <2>1 DEF FindSession
  <2>2. CASE LookUp(t)
    BY <2>2 DEF LookUp
  <2>3. CASE CopyTargets(t)
    BY <2>3 DEF CopyTargets
  <2>4. CASE Erase(t)
    BY <2>4 DEF Erase
  <2> QED
    BY <2>1, <2>2, <2>3, <2>4
<1>10. ASSUME NEW t \in Thread, LockSend(t)
      PROVE  CallInv'
  BY <1>10 DEF LockSend, Goto
<1>11. ASSUME NEW t \in Thread, UnlockSend(t)
      PROVE  CallInv'
  BY <1>11 DEF UnlockSend, Goto
<1>12. ASSUME NEW t \in Thread, NEW c \in Conn, NextTarget(t, c)
      PROVE  CallInv'
  BY <1>12 DEF NextTarget, Goto
<1>13. ASSUME NEW t \in Thread, BroadcastDone(t)
      PROVE  CallInv'
  BY <1>13 DEF BroadcastDone, Goto
<1>14. ASSUME NEW t \in Thread, NextFarewell(t)
      PROVE  CallInv'
  BY <1>14 DEF NextFarewell, Goto
<1>15. ASSUME NEW t \in Thread, Shutdown(t)
      PROVE  CallInv'
  BY <1>15 DEF Shutdown, Goto
<1>16. ASSUME NEW t \in Thread, NEW n \in 1..FrameLen, Write(t, n)
      PROVE  CallInv'
  BY <1>16 DEF Write, Put, Progress, Goal, AfterWrite, Goto
<1>17. ASSUME NEW t \in Thread, GiveUp(t)
      PROVE  CallInv'
  BY <1>17 DEF GiveUp, AfterWrite, Goto
<1>18. ASSUME NEW t \in Thread, SendFails(t)
      PROVE  CallInv'
  BY <1>18 DEF SendFails, AfterWrite, Goto
<1>19. ASSUME NEW t \in Thread, SendRefused(t)
      PROVE  CallInv'
  BY <1>19 DEF SendRefused, Progress, AfterWrite, Goto
<1>20. ASSUME NEW c \in Conn, Read(c)
      PROVE  CallInv'
  BY <1>20 DEF Read
<1>21. ASSUME NEW c \in Conn, Reset(c)
      PROVE  CallInv'
  BY <1>21 DEF Reset
<1>22. CASE UNCHANGED vars
  BY <1>22 DEF vars
<1> QED
  BY <1>1, <1>2, <1>3, <1>4, <1>5, <1>6, <1>7, <1>8, <1>9, <1>10, <1>11,
     <1>12, <1>13, <1>14, <1>15, <1>16, <1>17, <1>18, <1>19, <1>20, <1>21,
     <1>22
  DEF Next, Step

\* A mutex has the holder that the labels say.
LEMMA LockStep == TypeOK /\ CallInv /\ LockInv /\ [Next]_vars => LockInv'
<1> SUFFICES ASSUME TypeOK /\ CallInv /\ LockInv, [Next]_vars PROVE LockInv'
  OBVIOUS
<1> USE WireAssumption DEF WireAssumption, TypeOK, CallInv, LockInv, HasLine,
      Locked, Thread, PC, Call, LockedCall, control, wires, locks
<1>1. ASSUME NEW t \in Thread, BeginBroadcast(t)
      PROVE  LockInv'
  BY <1>1 DEF BeginBroadcast, Begin, Goto
<1>2. ASSUME NEW t \in Worker, NEW c \in Conn, BeginSendTo(t, c)
      PROVE  LockInv'
  BY <1>2 DEF BeginSendTo, Begin, Goto
<1>3. ASSUME NEW t \in Worker, NEW c \in Conn, BeginAnswer(t, c)
      PROVE  LockInv'
  BY <1>3 DEF BeginAnswer, Begin, Goto
<1>4. ASSUME NEW t \in Worker, NEW c \in Conn, BeginReserve(t, c)
      PROVE  LockInv'
  BY <1>4 DEF BeginReserve, Begin, Goto
<1>5. ASSUME NEW c \in Conn, BeginRemove(c)
      PROVE  LockInv'
  BY <1>5 DEF BeginRemove, Begin, Goto
<1>6. ASSUME NEW t \in Thread, LockLogin(t)
      PROVE  LockInv'
  BY <1>6 DEF LockLogin, Goto
<1>7. ASSUME NEW t \in Thread, UnlockLogin(t)
      PROVE  LockInv'
  BY <1>7 DEF UnlockLogin, Goto
<1>8. ASSUME NEW t \in Thread, LockSessions(t)
      PROVE  LockInv'
  BY <1>8 DEF LockSessions, Goto
<1>9. ASSUME NEW t \in Thread, UnlockSessions(t)
      PROVE  LockInv'
  <2> USE <1>9 DEF UnlockSessions, Goto
  <2>1. CASE FindSession(t)
    BY <2>1 DEF FindSession
  <2>2. CASE LookUp(t)
    BY <2>2 DEF LookUp
  <2>3. CASE CopyTargets(t)
    BY <2>3 DEF CopyTargets
  <2>4. CASE Erase(t)
    BY <2>4 DEF Erase
  <2> QED
    BY <2>1, <2>2, <2>3, <2>4
<1>10. ASSUME NEW t \in Thread, LockSend(t)
      PROVE  LockInv'
  BY <1>10 DEF LockSend, Goto
<1>11. ASSUME NEW t \in Thread, UnlockSend(t)
      PROVE  LockInv'
  BY <1>11 DEF UnlockSend, Goto
<1>12. ASSUME NEW t \in Thread, NEW c \in Conn, NextTarget(t, c)
      PROVE  LockInv'
  BY <1>12 DEF NextTarget, Goto
<1>13. ASSUME NEW t \in Thread, BroadcastDone(t)
      PROVE  LockInv'
  BY <1>13 DEF BroadcastDone, Goto
<1>14. ASSUME NEW t \in Thread, NextFarewell(t)
      PROVE  LockInv'
  BY <1>14 DEF NextFarewell, Goto
<1>15. ASSUME NEW t \in Thread, Shutdown(t)
      PROVE  LockInv'
  BY <1>15 DEF Shutdown, Goto
<1>16. ASSUME NEW t \in Thread, NEW n \in 1..FrameLen, Write(t, n)
      PROVE  LockInv'
  BY <1>16 DEF Write, Put, Progress, Goal, AfterWrite, Goto
<1>17. ASSUME NEW t \in Thread, GiveUp(t)
      PROVE  LockInv'
  BY <1>17 DEF GiveUp, AfterWrite, Goto
<1>18. ASSUME NEW t \in Thread, SendFails(t)
      PROVE  LockInv'
  BY <1>18 DEF SendFails, AfterWrite, Goto
<1>19. ASSUME NEW t \in Thread, SendRefused(t)
      PROVE  LockInv'
  BY <1>19 DEF SendRefused, Progress, AfterWrite, Goto
<1>20. ASSUME NEW c \in Conn, Read(c)
      PROVE  LockInv'
  BY <1>20 DEF Read
<1>21. ASSUME NEW c \in Conn, Reset(c)
      PROVE  LockInv'
  BY <1>21 DEF Reset
<1>22. CASE UNCHANGED vars
  BY <1>22 DEF vars
<1> QED
  BY <1>1, <1>2, <1>3, <1>4, <1>5, <1>6, <1>7, <1>8, <1>9, <1>10, <1>11,
     <1>12, <1>13, <1>14, <1>15, <1>16, <1>17, <1>18, <1>19, <1>20, <1>21,
     <1>22
  DEF Next, Step

\* Who leaves a frame torn leaves a connection that takes no more bytes.
LEMMA TornStep == TypeOK /\ CallInv /\ LockInv /\ TornInv /\ [Next]_vars => TornInv'
<1> SUFFICES ASSUME TypeOK /\ CallInv /\ LockInv /\ TornInv, [Next]_vars PROVE TornInv'
  OBVIOUS
<1> USE WireAssumption DEF WireAssumption, TypeOK, CallInv, LockInv, TornInv, HasLine,
      FrameLen, Locked, Thread, PC, Call, LockedCall, control, wires, locks
<1>1. ASSUME NEW t \in Thread, BeginBroadcast(t)
      PROVE  TornInv'
  BY <1>1 DEF BeginBroadcast, Begin, Goto
<1>2. ASSUME NEW t \in Worker, NEW c \in Conn, BeginSendTo(t, c)
      PROVE  TornInv'
  BY <1>2 DEF BeginSendTo, Begin, Goto
<1>3. ASSUME NEW t \in Worker, NEW c \in Conn, BeginAnswer(t, c)
      PROVE  TornInv'
  BY <1>3 DEF BeginAnswer, Begin, Goto
<1>4. ASSUME NEW t \in Worker, NEW c \in Conn, BeginReserve(t, c)
      PROVE  TornInv'
  BY <1>4 DEF BeginReserve, Begin, Goto
<1>5. ASSUME NEW c \in Conn, BeginRemove(c)
      PROVE  TornInv'
  BY <1>5 DEF BeginRemove, Begin, Goto
<1>6. ASSUME NEW t \in Thread, LockLogin(t)
      PROVE  TornInv'
  BY <1>6 DEF LockLogin, Goto
<1>7. ASSUME NEW t \in Thread, UnlockLogin(t)
      PROVE  TornInv'
  BY <1>7 DEF UnlockLogin, Goto
<1>8. ASSUME NEW t \in Thread, LockSessions(t)
      PROVE  TornInv'
  BY <1>8 DEF LockSessions, Goto
<1>9. ASSUME NEW t \in Thread, UnlockSessions(t)
      PROVE  TornInv'
  BY <1>9 DEF UnlockSessions, FindSession, LookUp, CopyTargets, Erase, Goto
<1>10. ASSUME NEW t \in Thread, LockSend(t)
      PROVE  TornInv'
  BY <1>10 DEF LockSend, Goto
<1>11. ASSUME NEW t \in Thread, UnlockSend(t)
      PROVE  TornInv'
  BY <1>11 DEF UnlockSend, Goto
<1>12. ASSUME NEW t \in Thread, NEW c \in Conn, NextTarget(t, c)
      PROVE  TornInv'
  BY <1>12 DEF NextTarget, Goto
<1>13. ASSUME NEW t \in Thread, BroadcastDone(t)
      PROVE  TornInv'
  BY <1>13 DEF BroadcastDone, Goto
<1>14. ASSUME NEW t \in Thread, NextFarewell(t)
      PROVE  TornInv'
  BY <1>14 DEF NextFarewell, Goto
<1>15. ASSUME NEW t \in Thread, Shutdown(t)
      PROVE  TornInv'
  BY <1>15 DEF Shutdown, Goto
<1>16. ASSUME NEW t \in Thread, NEW n \in 1..FrameLen, Write(t, n)
      PROVE  TornInv'
  BY <1>16 DEF Write, Put, Progress, Goal, AfterWrite, Goto
<1>17. ASSUME NEW t \in Thread, GiveUp(t)
      PROVE  TornInv'
  BY <1>17 DEF GiveUp, AfterWrite, Goto
<1>18. ASSUME NEW t \in Thread, SendFails(t)
      PROVE  TornInv'
  BY <1>18 DEF SendFails, AfterWrite, Goto
<1>19. ASSUME NEW t \in Thread, SendRefused(t)
      PROVE  TornInv'
  BY <1>19 DEF SendRefused, Progress, AfterWrite, Goto
<1>20. ASSUME NEW c \in Conn, Read(c)
      PROVE  TornInv'
  BY <1>20 DEF Read
<1>21. ASSUME NEW c \in Conn, Reset(c)
      PROVE  TornInv'
  BY <1>21 DEF Reset
<1>22. CASE UNCHANGED vars
  BY <1>22 DEF vars
<1> QED
  BY <1>1, <1>2, <1>3, <1>4, <1>5, <1>6, <1>7, <1>8, <1>9, <1>10, <1>11,
     <1>12, <1>13, <1>14, <1>15, <1>16, <1>17, <1>18, <1>19, <1>20, <1>21,
     <1>22
  DEF Next, Step

-----------------------------------------------------------------------------
(* The theorems.                                                           *)

\* Types, labels, who holds which mutex, and that a torn frame is the last of
\* its connection (write_all, send_to_fd, broadcast, remove_client).
THEOREM WireInvariant == Spec => []WireInv
<1>1. Init => WireInv
  <2> SUFFICES ASSUME Init PROVE WireInv
    OBVIOUS
  <2> USE WireAssumption DEF WireAssumption, Init, Thread
  <2>1. 0 \in 0..(FrameLen - 1) /\ 0 \in 0..2 /\ 0 \in 0..MaxCalls
    BY DEF FrameLen
  <2>2. TypeOK
    BY <2>1 DEF TypeOK, PC, Call, LockedCall
  <2>3. CallInv
    BY DEF CallInv
  <2>4. LockInv /\ TornInv
    BY DEF LockInv, TornInv, HasLine
  <2> QED
    BY <2>2, <2>3, <2>4 DEF WireInv
<1>2. WireInv /\ [Next]_vars => WireInv'
  BY TypeStep, CallStep, LockStep, TornStep DEF WireInv
<1> QED
  BY <1>1, <1>2, PTL DEF Spec

\* Every variable keeps its type.
THEOREM TypeCorrect == Spec => []TypeOK
<1>1. WireInv => TypeOK
  BY DEF WireInv
<1> QED
  BY <1>1, WireInvariant, PTL

\* Some thread that is in a call waits for no mutex: who holds sessions_mutex_
\* or a send_mutex_ takes no other, and who holds login_mutex_ waits at most for
\* sessions_mutex_ (handle_login, broadcast, remove_client).
THEOREM NoDeadlockHolds == Spec => []NoDeadlock
<1>1. ASSUME WireInv PROVE NoDeadlock
  <2> SUFFICES ASSUME NEW t \in Thread, pc[t] # "idle",
                      \A u \in Thread : pc[u] # "idle" => Blocked(u)
               PROVE  FALSE
    BY DEF NoDeadlock
  <2> USE <1>1 DEF WireInv, TypeOK
  <2>1. sessionsLock = NoThread
    BY DEF LockInv, Blocked
  <2>2. \A c \in Conn : sendLock[c] = NoThread
    <3> SUFFICES ASSUME NEW c \in Conn, sendLock[c] # NoThread PROVE FALSE
      OBVIOUS
    <3>1. sendLock[c] \in Thread
      OBVIOUS
    <3>2. pc[sendLock[c]] \in {"write", "unlock"}
      BY <3>1 DEF LockInv, HasLine
    <3> QED
      BY <3>1, <3>2 DEF Blocked
  <2>3. loginLock = NoThread
    BY <2>1 DEF LockInv, Blocked
  <2>4. ~Blocked(t)
    BY <2>1, <2>2, <2>3 DEF CallInv, Blocked
  <2> QED
    BY <2>4
<1> QED
  BY <1>1, WireInvariant, PTL

LEMMA ChannelInit == Init => Channel!Init
  BY DEF Init, Channel!Init

\* The step of the line that each action is.
LEMMA ChannelStep == WireInv /\ [Next]_vars => [Channel!Next]_(Channel!vars)
<1> SUFFICES ASSUME WireInv, [Next]_vars PROVE [Channel!Next]_(Channel!vars)
  OBVIOUS
<1> USE WireAssumption DEF WireAssumption, WireInv, TypeOK, Channel!vars, locks, wires
<1> DEFINE Still == UNCHANGED Channel!vars
<1>1. ASSUME NEW t, NEW what, NEW c, NEW l, Begin(t, what, c, l) PROVE Still
  BY <1>1 DEF Begin
<1>2. ASSUME NEW t \in Thread, LockSend(t) PROVE Channel!TakeLine(conn[t], t)
  BY <1>2 DEF LockSend, Channel!TakeLine
<1>3. ASSUME NEW t \in Thread, UnlockSend(t) PROVE Channel!LeaveLine(conn[t], t)
  <2>1. conn[t] \in Conn /\ sendLock[conn[t]] = t
    BY <1>3 DEF UnlockSend, LockInv, HasLine, Locked
  <2>2. part[conn[t]][t] = 0 \/ ~open[conn[t]]
    BY <1>3, <2>1 DEF UnlockSend, TornInv
  <2> QED
    BY <1>3, <2>1, <2>2 DEF UnlockSend, Channel!LeaveLine
<1>4. ASSUME NEW t \in Thread, NEW n \in 1..FrameLen, Write(t, n)
      PROVE  Still \/ Channel!Put(conn[t], t, n)
  <2>1. conn[t] \in Conn /\ pc[t] = "write"
    BY <1>4 DEF Write, CallInv
  <2>2. CASE ~Locked(t)
    BY <1>4, <2>2 DEF Write
  <2>3. CASE Locked(t)
    <3>1. sendLock[conn[t]] = t
      BY <2>1, <2>3 DEF LockInv, HasLine
    <3>2. part[conn[t]][t] < n
      BY <1>4, <2>1, <2>3 DEF Write, Progress, FrameLen
    <3> QED
      BY <1>4, <2>3, <3>1, <3>2 DEF Write, Put, Channel!Put
  <2> QED
    BY <2>2, <2>3
<1>5. ASSUME NEW t \in Thread, GiveUp(t) PROVE Channel!Close(conn[t])
  BY <1>5 DEF GiveUp, Channel!Close
<1>6. ASSUME NEW t \in Thread, Shutdown(t)
      PROVE  Still \/ (victim \in Conn /\ Channel!Close(victim))
  BY <1>6 DEF Shutdown, Channel!Close
<1>7. ASSUME NEW c \in Conn, Reset(c) PROVE Channel!Close(c)
  BY <1>7 DEF Reset, Channel!Close
<1>8. ASSUME NEW t \in Thread,
             \/ LockLogin(t) \/ UnlockLogin(t)
             \/ LockSessions(t) \/ UnlockSessions(t)
             \/ \E c \in Conn : NextTarget(t, c)
             \/ BroadcastDone(t) \/ NextFarewell(t)
             \/ SendFails(t) \/ SendRefused(t)
      PROVE  Still
  BY <1>8 DEF LockLogin, UnlockLogin, LockSessions, UnlockSessions, NextTarget,
              BroadcastDone, NextFarewell, SendFails, SendRefused
<1>9. ASSUME NEW c \in Conn, Read(c) PROVE Still
  BY <1>9 DEF Read
<1>10. CASE UNCHANGED vars
  BY <1>10 DEF vars
<1>11. \A t \in Thread : pc[t] \in {"send", "write"} => conn[t] \in Conn
  BY DEF CallInv
<1>12. ASSUME NEW t \in Thread, Step(t) PROVE [Channel!Next]_(Channel!vars)
  <2>1. CASE LockSend(t)
    BY <2>1, <1>2, <1>11 DEF Channel!Next, LockSend
  <2>2. CASE UnlockSend(t)
    <3>1. conn[t] \in Conn
      BY <2>2 DEF UnlockSend, LockInv, HasLine, Locked
    <3> QED
      BY <2>2, <3>1, <1>3 DEF Channel!Next
  <2>3. CASE \E n \in 1..FrameLen : Write(t, n)
    BY <2>3, <1>4, <1>11 DEF Channel!Next, Write
  <2>4. CASE GiveUp(t)
    BY <2>4, <1>5, <1>11 DEF Channel!Next, GiveUp
  <2>5. CASE Shutdown(t)
    BY <2>5, <1>6 DEF Channel!Next
  <2> QED
    BY <1>12, <1>8, <2>1, <2>2, <2>3, <2>4, <2>5 DEF Step
<1> QED
  BY <1>1, <1>7, <1>9, <1>10, <1>12
  DEF Next, BeginBroadcast, BeginSendTo, BeginAnswer, BeginReserve, BeginRemove,
      Channel!Next

\* Under send_mutex_ frames go on a connection one after the other and whole,
\* but for the last of a connection that is given up, reset or removed.
THEOREM WireImplementsChannel == Spec => ImplementsFrameChannel
<1>1. Init => Channel!Init
  BY ChannelInit
<1>2. WireInv /\ [Next]_vars => [Channel!Next]_(Channel!vars)
  BY ChannelStep
<1> QED
  BY <1>1, <1>2, WireInvariant, PTL
  DEF Spec, ImplementsFrameChannel, Channel!Spec
=============================================================================
