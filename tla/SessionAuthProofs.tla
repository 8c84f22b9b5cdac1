-------------------------- MODULE SessionAuthProofs --------------------------
(***************************************************************************)
(* Proofs about SessionAuth, for every number of connections, names and     *)
(* workers, with pipelining clients and with a failing RAND_bytes:          *)
(* type correctness, UniqueLogin and ReservationOwned; and, of clients that *)
(* wait for their answers, PresenceExact and the refinement of NameService. *)
(***************************************************************************)
EXTENDS SessionAuth, SequenceTheorems, TLAPS

-----------------------------------------------------------------------------
(* Type correctness.                                                       *)

LEMMA TypeInit == Init => TypeOK /\ ThreadInv
BY ConstantsAssumption
DEF Init, TypeOK, ThreadInv, Thread, NameOrNone, PC, FlowPC, LogoutPC

LEMMA TypeStep == TypeOK /\ ThreadInv /\ [Next]_vars => TypeOK' /\ ThreadInv'
<1> SUFFICES ASSUME TypeOK, ThreadInv, [Next]_vars
             PROVE  TypeOK' /\ ThreadInv'
  OBVIOUS
<1> USE ConstantsAssumption DEF ConstantsAssumption
<1>1. ASSUME NEW s \in Session, Accept(s)
      PROVE  TypeOK' /\ ThreadInv'
  BY <1>1 DEF Accept, TypeOK, ThreadInv, threadVars, clientVars
<1>2. ASSUME NEW s \in Session, Remove(s)
      PROVE  TypeOK' /\ ThreadInv'
  BY <1>2 DEF Remove, TypeOK, ThreadInv, clientVars, BusyOn, Thread,
     NameOrNone, PC, FlowPC, LogoutPC
<1>3. ASSUME NEW s \in Session, NEW f \in Request, Dispatch(s, f)
      PROVE  TypeOK' /\ ThreadInv'
  BY <1>3 DEF Dispatch, TypeOK, ThreadInv, threadVars, Task
<1>4. ASSUME NEW w \in Worker, Take(w)
      PROVE  TypeOK' /\ ThreadInv'
  <2> DEFINE t == Head(tasks)
  <2>1. t \in Task /\ tasks' \in Seq(Task)
    BY <1>4, HeadTailProperties DEF Take, TypeOK
  <2>2. t.s \in Session /\ t.frame.user \in NameOrNone
          /\ t.frame.type \in {"REGISTER", "LOGIN", "LOGOUT"}
    BY <2>1 DEF Task, Frame
  <2> HIDE DEF t
  <2>3. CASE conn[t.s] = "removed"
    BY <1>4, <2>1, <2>3
    DEF Take, t, TypeOK, ThreadInv, threadVars, clientVars
  <2>4. CASE conn[t.s] # "removed"
    <3>1. /\ pc' = [pc EXCEPT ![w] = "route"]
          /\ sess' = [sess EXCEPT ![w] = t.s]
          /\ kind' = [kind EXCEPT ![w] = t.frame.type]
          /\ who' = [who EXCEPT ![w] = t.frame.user]
          /\ UNCHANGED <<conn, username, pending, inProgress, online,
                         accounts, sent, awaiting, raced>>
      BY <1>4, <2>4 DEF Take, t, clientVars
    <3> QED
      BY <2>1, <2>2, <3>1
      DEF TypeOK, ThreadInv, Thread, PC, FlowPC, LogoutPC
  <2> QED
    BY <2>3, <2>4
<1>5. ASSUME NEW w \in Worker, Route(w)
      PROVE  TypeOK' /\ ThreadInv'
  <2>1. CASE Return(w) /\ Reply(sess[w])
    BY <1>5, <2>1 DEF Route, TypeOK, ThreadInv, Return, Reply, Thread,
       NameOrNone, PC, FlowPC, LogoutPC
  <2>2. CASE Goto(w, "logout") /\ UNCHANGED awaiting
    BY <1>5, <2>2 DEF Route, TypeOK, ThreadInv, Goto, Thread, PC, FlowPC,
       LogoutPC
  <2>3. CASE Goto(w, "reserve") /\ UNCHANGED awaiting
    BY <1>5, <2>3 DEF Route, TypeOK, ThreadInv, Goto, Thread, PC, FlowPC,
       LogoutPC
  <2> QED
    BY <1>5, <2>1, <2>2, <2>3 DEF Route
<1>6. ASSUME NEW w \in Worker, RejectInput(w)
      PROVE  TypeOK' /\ ThreadInv'
  BY <1>6 DEF RejectInput, TypeOK, ThreadInv, Return, Reply, Thread,
     NameOrNone, PC, FlowPC, LogoutPC
<1>7. ASSUME NEW w \in Worker, Reserve(w)
      PROVE  TypeOK' /\ ThreadInv'
  <2>1. CASE Refused(w)
    <3>1. /\ Return(w) /\ Reply(sess[w])
          /\ UNCHANGED <<conn, username, pending, inProgress, online,
                         accounts, tasks, sent, raced>>
      BY <1>7, <2>1, Zenon DEF Reserve
    <3> QED
      BY <3>1 DEF TypeOK, ThreadInv, Return, Reply, Thread, NameOrNone, PC,
         FlowPC, LogoutPC
  <2>2. CASE ~Refused(w)
    <3>1. who[w] \in User /\ pc[w] = "reserve"
      BY <1>7 DEF Reserve, ValidName, TypeOK, NameOrNone, Thread
    <3>2. /\ Goto(w, "pending")
          /\ inProgress' = inProgress \cup {who[w]}
          /\ raced' = raced \/ raced' = raced \cup {who[w]}
          /\ UNCHANGED <<conn, username, pending, online, accounts, tasks,
                         sent, awaiting>>
      BY <1>7, <2>2, Zenon DEF Reserve
    <3> QED
      <4>1. TypeOK'
        BY <3>1, <3>2 DEF TypeOK, Goto, Thread, PC, FlowPC
      <4>2. ThreadInv'
        BY <3>1, <3>2 DEF TypeOK, ThreadInv, Goto, Thread, PC, FlowPC,
           LogoutPC
      <4> QED
        BY <4>1, <4>2
  <2> QED
    BY <2>1, <2>2
<1>8. ASSUME NEW w \in Worker, SetPending(w)
      PROVE  TypeOK' /\ ThreadInv'
  BY <1>8 DEF SetPending, TypeOK, ThreadInv, clientVars, Goto, Thread,
     NameOrNone, PC, FlowPC, LogoutPC
<1>9. ASSUME NEW w \in Worker, Verify(w)
      PROVE  TypeOK' /\ ThreadInv'
  BY <1>9, ZenonT(30) DEF Verify, TypeOK, ThreadInv, clientVars, Goto, Thread,
     NameOrNone, PC, FlowPC, LogoutPC
<1>10. ASSUME NEW w \in Worker, RegisterUser(w)
      PROVE  TypeOK' /\ ThreadInv'
  BY <1>10, ZenonT(30) DEF RegisterUser, TypeOK, ThreadInv, clientVars, Goto, Thread,
     NameOrNone, PC, FlowPC, LogoutPC
<1>11. ASSUME NEW w \in Worker, HashThrows(w)
      PROVE  TypeOK' /\ ThreadInv'
  BY <1>11 DEF HashThrows, TypeOK, ThreadInv, clientVars, Return, Thread,
     NameOrNone, PC, FlowPC, LogoutPC
<1>12. ASSUME NEW w \in Worker, FailRelease(w)
      PROVE  TypeOK' /\ ThreadInv'
  BY <1>12 DEF FailRelease, TypeOK, ThreadInv, clientVars, Goto, Thread,
     NameOrNone, PC, FlowPC, LogoutPC
<1>13. ASSUME NEW w \in Worker, FailClear(w)
      PROVE  TypeOK' /\ ThreadInv'
  BY <1>13 DEF FailClear, TypeOK, ThreadInv, Return, Reply, Thread,
     NameOrNone, PC, FlowPC, LogoutPC
<1>14. ASSUME NEW w \in Worker, SetUsername(w)
      PROVE  TypeOK' /\ ThreadInv'
  BY <1>14 DEF SetUsername, TypeOK, ThreadInv, clientVars, Goto, Thread,
     NameOrNone, PC, FlowPC, LogoutPC
<1>15. ASSUME NEW w \in Worker, GoOnline(w)
      PROVE  TypeOK' /\ ThreadInv'
  BY <1>15 DEF GoOnline, TypeOK, ThreadInv, Goto, Reply, Thread, NameOrNone,
     PC, FlowPC, LogoutPC
<1>16. ASSUME NEW w \in Worker, ClearPending(w)
      PROVE  TypeOK' /\ ThreadInv'
  BY <1>16 DEF ClearPending, TypeOK, ThreadInv, clientVars, Goto, Thread,
     NameOrNone, PC, FlowPC, LogoutPC
<1>17. ASSUME NEW w \in Worker, Release(w)
      PROVE  TypeOK' /\ ThreadInv'
  BY <1>17 DEF Release, TypeOK, ThreadInv, clientVars, Return, Thread,
     NameOrNone, PC, FlowPC, LogoutPC
<1>18. ASSUME NEW t \in Thread, LogoutCheck(t)
      PROVE  TypeOK' /\ ThreadInv'
  <2>1. CASE Return(t)
    BY <1>18, <2>1 DEF LogoutCheck, TypeOK, ThreadInv, clientVars, Return,
       Thread, NameOrNone, PC, FlowPC, LogoutPC
  <2>2. CASE Goto(t, "name")
    BY <1>18, <2>2 DEF LogoutCheck, TypeOK, ThreadInv, clientVars, Goto,
       Thread, PC, FlowPC, LogoutPC
  <2> QED
    BY <1>18, <2>1, <2>2 DEF LogoutCheck
<1>19. ASSUME NEW t \in Thread, LogoutName(t)
      PROVE  TypeOK' /\ ThreadInv'
  <2>1. sess[t] \in Session /\ username[sess[t]] \in NameOrNone
    BY <1>19 DEF LogoutName, TypeOK, ThreadInv
  <2>2. TypeOK'
    BY <1>19, <2>1 DEF LogoutName, TypeOK, clientVars, PC, LogoutPC
  <2>3. pc'[t] = "offline" /\ sess' = sess
    BY <1>19 DEF LogoutName, TypeOK
  <2>4. \A r \in Thread \ {t} : pc'[r] = pc[r] /\ who'[r] = who[r]
    BY <1>19 DEF LogoutName, TypeOK
  <2> QED
    <3>1. \A w \in Worker : pc'[w] \in {"idle", "route", "reserve"}
                                          \cup FlowPC \cup LogoutPC
      BY <2>3, <2>4 DEF ThreadInv, Thread, LogoutPC
    <3>2. pc'[Main] \in {"idle", "cleanup", "cleanup_release",
                         "cleanup_clear"} \cup LogoutPC
      BY <2>3, <2>4 DEF ThreadInv, Thread, LogoutPC
    <3>3. \A r \in Thread : pc'[r] # "idle" => sess'[r] \in Session
      BY <2>1, <2>3, <2>4 DEF ThreadInv
    <3>4. \A w \in Worker : pc'[w] \in FlowPC => who'[w] \in User
      BY <2>3, <2>4 DEF ThreadInv, Thread, FlowPC
    <3>5. pc'[Main] = "cleanup_release" => who'[Main] \in User
      BY <2>3, <2>4 DEF ThreadInv, Thread
    <3> QED
      BY <2>2, <3>1, <3>2, <3>3, <3>4, <3>5 DEF ThreadInv
<1>20. ASSUME NEW t \in Thread, LogoutOffline(t)
      PROVE  TypeOK' /\ ThreadInv'
  BY <1>20 DEF LogoutOffline, TypeOK, ThreadInv, clientVars, Goto, Thread,
     NameOrNone, PC, FlowPC, LogoutPC
<1>21. ASSUME NEW t \in Thread, LogoutClear(t)
      PROVE  TypeOK' /\ ThreadInv'
  BY <1>21 DEF LogoutClear, TypeOK, ThreadInv, clientVars, Return, Thread,
     NameOrNone, PC, FlowPC, LogoutPC
<1>22. CASE CleanupRead
  BY <1>22 DEF CleanupRead, TypeOK, ThreadInv, clientVars, Thread,
     NameOrNone, PC, FlowPC, LogoutPC
<1>23. CASE CleanupRelease
  BY <1>23 DEF CleanupRelease, TypeOK, ThreadInv, clientVars, Goto, Thread,
     NameOrNone, PC, FlowPC, LogoutPC
<1>24. CASE CleanupClear
  BY <1>24 DEF CleanupClear, TypeOK, ThreadInv, clientVars, Goto, Thread,
     NameOrNone, PC, FlowPC, LogoutPC
<1>25. CASE UNCHANGED vars
  BY <1>25 DEF vars, TypeOK, ThreadInv
<1> QED
  BY <1>1, <1>2, <1>3, <1>4, <1>5, <1>6, <1>7, <1>8, <1>9, <1>10, <1>11,
     <1>12, <1>13, <1>14, <1>15, <1>16, <1>17, <1>18, <1>19, <1>20, <1>21,
     <1>22, <1>23, <1>24, <1>25
  DEF Next, WorkerStep, MainStep, Logout, Thread

\* Type correctness of every reachable state of the authentication model, for
\* every value of the constants: names, sessions and labels stay in their
\* sets through every handler of MessageRouter and every disconnect.
THEOREM TypeCorrect == Spec => []TypeOK
<1>1. Init => TypeOK /\ ThreadInv
  BY TypeInit
<1>2. TypeOK /\ ThreadInv /\ [Next]_vars => TypeOK' /\ ThreadInv'
  BY TypeStep
<1> QED
  BY <1>1, <1>2, PTL DEF Spec

-----------------------------------------------------------------------------
LEMMA AccountsStep ==
    ASSUME TypeOK, ThreadInv, AccountsInv, [Next]_vars
    PROVE  AccountsInv'
<1> USE ConstantsAssumption DEF ConstantsAssumption
<1>1. ASSUME NEW s \in Session, Accept(s) PROVE AccountsInv'
  BY <1>1 DEF Accept, threadVars, clientVars, TypeOK, ThreadInv, Thread,
     NameOrNone, FlowPC, LogoutPC, AccountsInv
<1>2. ASSUME NEW s \in Session, Remove(s) PROVE AccountsInv'
  BY <1>2 DEF Remove, clientVars, TypeOK, ThreadInv, Thread, NameOrNone,
     FlowPC, LogoutPC, AccountsInv
<1>3. ASSUME NEW s \in Session, NEW f \in Request, Dispatch(s, f) PROVE AccountsInv'
  BY <1>3 DEF Dispatch, threadVars, TypeOK, ThreadInv, Thread, NameOrNone,
     FlowPC, LogoutPC, AccountsInv
<1>4. ASSUME NEW w \in Worker, Take(w) PROVE AccountsInv'
  BY <1>4 DEF Take, threadVars, clientVars, TypeOK, ThreadInv, Thread,
     NameOrNone, FlowPC, LogoutPC, AccountsInv
<1>5. ASSUME NEW w \in Worker, Route(w) PROVE AccountsInv'
  BY <1>5 DEF Route, Goto, Return, TypeOK, ThreadInv, Thread, NameOrNone,
     FlowPC, LogoutPC, AccountsInv
<1>6. ASSUME NEW w \in Worker, RejectInput(w) PROVE AccountsInv'
  BY <1>6 DEF RejectInput, Return, TypeOK, ThreadInv, Thread, NameOrNone,
     FlowPC, LogoutPC, AccountsInv
<1>7. ASSUME NEW w \in Worker, Reserve(w) PROVE AccountsInv'
  BY <1>7, SMTT(20) DEF Reserve, Goto, Return, TypeOK, ThreadInv, Thread, NameOrNone,
     FlowPC, LogoutPC, AccountsInv
<1>8. ASSUME NEW w \in Worker, SetPending(w) PROVE AccountsInv'
  BY <1>8 DEF SetPending, clientVars, Goto, TypeOK, ThreadInv, Thread,
     NameOrNone, FlowPC, LogoutPC, AccountsInv
<1>9. ASSUME NEW w \in Worker, Verify(w) PROVE AccountsInv'
  BY <1>9 DEF Verify, clientVars, Goto, TypeOK, ThreadInv, Thread,
     NameOrNone, FlowPC, LogoutPC, AccountsInv
<1>10. ASSUME NEW w \in Worker, RegisterUser(w) PROVE AccountsInv'
  BY <1>10 DEF RegisterUser, clientVars, Goto, TypeOK, ThreadInv, Thread,
     NameOrNone, FlowPC, LogoutPC, AccountsInv
<1>11. ASSUME NEW w \in Worker, HashThrows(w) PROVE AccountsInv'
  BY <1>11 DEF HashThrows, clientVars, Return, TypeOK, ThreadInv, Thread,
     NameOrNone, FlowPC, LogoutPC, AccountsInv
<1>12. ASSUME NEW w \in Worker, FailRelease(w) PROVE AccountsInv'
  BY <1>12 DEF FailRelease, clientVars, Goto, TypeOK, ThreadInv, Thread,
     NameOrNone, FlowPC, LogoutPC, AccountsInv
<1>13. ASSUME NEW w \in Worker, FailClear(w) PROVE AccountsInv'
  BY <1>13 DEF FailClear, Return, TypeOK, ThreadInv, Thread, NameOrNone,
     FlowPC, LogoutPC, AccountsInv
<1>14. ASSUME NEW w \in Worker, SetUsername(w) PROVE AccountsInv'
  BY <1>14 DEF SetUsername, clientVars, Goto, TypeOK, ThreadInv, Thread,
     NameOrNone, FlowPC, LogoutPC, AccountsInv
<1>15. ASSUME NEW w \in Worker, GoOnline(w) PROVE AccountsInv'
  BY <1>15 DEF GoOnline, Goto, TypeOK, ThreadInv, Thread, NameOrNone,
     FlowPC, LogoutPC, AccountsInv
<1>16. ASSUME NEW w \in Worker, ClearPending(w) PROVE AccountsInv'
  BY <1>16 DEF ClearPending, clientVars, Goto, TypeOK, ThreadInv, Thread,
     NameOrNone, FlowPC, LogoutPC, AccountsInv
<1>17. ASSUME NEW w \in Worker, Release(w) PROVE AccountsInv'
  BY <1>17 DEF Release, clientVars, Return, TypeOK, ThreadInv, Thread,
     NameOrNone, FlowPC, LogoutPC, AccountsInv
<1>18. ASSUME NEW t \in Thread, LogoutCheck(t) PROVE AccountsInv'
  BY <1>18, ZenonT(30) DEF LogoutCheck, clientVars, Goto, Return, TypeOK, ThreadInv,
     Thread, NameOrNone, FlowPC, LogoutPC, AccountsInv
<1>19. ASSUME NEW t \in Thread, LogoutName(t) PROVE AccountsInv'
  BY <1>19 DEF LogoutName, clientVars, TypeOK, ThreadInv, Thread,
     NameOrNone, FlowPC, LogoutPC, AccountsInv
<1>20. ASSUME NEW t \in Thread, LogoutOffline(t) PROVE AccountsInv'
  BY <1>20 DEF LogoutOffline, clientVars, Goto, TypeOK, ThreadInv, Thread,
     NameOrNone, FlowPC, LogoutPC, AccountsInv
<1>21. ASSUME NEW t \in Thread, LogoutClear(t) PROVE AccountsInv'
  BY <1>21 DEF LogoutClear, clientVars, Return, TypeOK, ThreadInv, Thread,
     NameOrNone, FlowPC, LogoutPC, AccountsInv
<1>22. CASE CleanupRead
  BY <1>22 DEF CleanupRead, clientVars, TypeOK, ThreadInv, Thread,
     NameOrNone, FlowPC, LogoutPC, AccountsInv
<1>23. CASE CleanupRelease
  BY <1>23 DEF CleanupRelease, clientVars, Goto, TypeOK, ThreadInv, Thread,
     NameOrNone, FlowPC, LogoutPC, AccountsInv
<1>24. CASE CleanupClear
  BY <1>24 DEF CleanupClear, clientVars, Goto, TypeOK, ThreadInv, Thread,
     NameOrNone, FlowPC, LogoutPC, AccountsInv
<1>25. CASE UNCHANGED vars
  BY <1>25 DEF vars, TypeOK, ThreadInv, Thread, NameOrNone, FlowPC,
     LogoutPC, AccountsInv
<1> QED
  BY <1>1, <1>2, <1>3, <1>4, <1>5, <1>6, <1>7, <1>8, <1>9, <1>10, <1>11,
     <1>12, <1>13, <1>14, <1>15, <1>16, <1>17, <1>18, <1>19, <1>20, <1>21,
     <1>22, <1>23, <1>24, <1>25
  DEF Next, WorkerStep, MainStep, Logout, Thread

LEMMA AcceptedStep ==
    ASSUME TypeOK, ThreadInv, AcceptedInv, [Next]_vars
    PROVE  AcceptedInv'
<1> USE ConstantsAssumption DEF ConstantsAssumption
<1>1. ASSUME NEW s \in Session, Accept(s) PROVE AcceptedInv'
  BY <1>1 DEF Accept, threadVars, clientVars, TypeOK, ThreadInv, Thread,
     NameOrNone, FlowPC, LogoutPC, AcceptedInv
<1>2. ASSUME NEW s \in Session, Remove(s) PROVE AcceptedInv'
  BY <1>2 DEF Remove, clientVars, TypeOK, ThreadInv, Thread, NameOrNone,
     FlowPC, LogoutPC, AcceptedInv
<1>3. ASSUME NEW s \in Session, NEW f \in Request, Dispatch(s, f) PROVE AcceptedInv'
  BY <1>3 DEF Dispatch, threadVars, TypeOK, ThreadInv, Thread, NameOrNone,
     FlowPC, LogoutPC, AcceptedInv
<1>4. ASSUME NEW w \in Worker, Take(w) PROVE AcceptedInv'
  BY <1>4 DEF Take, threadVars, clientVars, TypeOK, ThreadInv, Thread,
     NameOrNone, FlowPC, LogoutPC, AcceptedInv
<1>5. ASSUME NEW w \in Worker, Route(w) PROVE AcceptedInv'
  BY <1>5 DEF Route, Goto, Return, TypeOK, ThreadInv, Thread, NameOrNone,
     FlowPC, LogoutPC, AcceptedInv
<1>6. ASSUME NEW w \in Worker, RejectInput(w) PROVE AcceptedInv'
  BY <1>6 DEF RejectInput, Return, TypeOK, ThreadInv, Thread, NameOrNone,
     FlowPC, LogoutPC, AcceptedInv
<1>7. ASSUME NEW w \in Worker, Reserve(w) PROVE AcceptedInv'
  BY <1>7, ZenonT(30) DEF Reserve, Goto, Return, TypeOK, ThreadInv, Thread, NameOrNone,
     FlowPC, LogoutPC, AcceptedInv
<1>8. ASSUME NEW w \in Worker, SetPending(w) PROVE AcceptedInv'
  BY <1>8 DEF SetPending, clientVars, Goto, TypeOK, ThreadInv, Thread,
     NameOrNone, FlowPC, LogoutPC, AcceptedInv
<1>9. ASSUME NEW w \in Worker, Verify(w) PROVE AcceptedInv'
  BY <1>9 DEF Verify, clientVars, Goto, TypeOK, ThreadInv, Thread,
     NameOrNone, FlowPC, LogoutPC, AcceptedInv
<1>10. ASSUME NEW w \in Worker, RegisterUser(w) PROVE AcceptedInv'
  BY <1>10 DEF RegisterUser, clientVars, Goto, TypeOK, ThreadInv, Thread,
     NameOrNone, FlowPC, LogoutPC, AcceptedInv
<1>11. ASSUME NEW w \in Worker, HashThrows(w) PROVE AcceptedInv'
  BY <1>11 DEF HashThrows, clientVars, Return, TypeOK, ThreadInv, Thread,
     NameOrNone, FlowPC, LogoutPC, AcceptedInv
<1>12. ASSUME NEW w \in Worker, FailRelease(w) PROVE AcceptedInv'
  BY <1>12 DEF FailRelease, clientVars, Goto, TypeOK, ThreadInv, Thread,
     NameOrNone, FlowPC, LogoutPC, AcceptedInv
<1>13. ASSUME NEW w \in Worker, FailClear(w) PROVE AcceptedInv'
  BY <1>13 DEF FailClear, Return, TypeOK, ThreadInv, Thread, NameOrNone,
     FlowPC, LogoutPC, AcceptedInv
<1>14. ASSUME NEW w \in Worker, SetUsername(w) PROVE AcceptedInv'
  BY <1>14 DEF SetUsername, clientVars, Goto, TypeOK, ThreadInv, Thread,
     NameOrNone, FlowPC, LogoutPC, AcceptedInv
<1>15. ASSUME NEW w \in Worker, GoOnline(w) PROVE AcceptedInv'
  BY <1>15 DEF GoOnline, Goto, TypeOK, ThreadInv, Thread, NameOrNone,
     FlowPC, LogoutPC, AcceptedInv
<1>16. ASSUME NEW w \in Worker, ClearPending(w) PROVE AcceptedInv'
  BY <1>16 DEF ClearPending, clientVars, Goto, TypeOK, ThreadInv, Thread,
     NameOrNone, FlowPC, LogoutPC, AcceptedInv
<1>17. ASSUME NEW w \in Worker, Release(w) PROVE AcceptedInv'
  BY <1>17 DEF Release, clientVars, Return, TypeOK, ThreadInv, Thread,
     NameOrNone, FlowPC, LogoutPC, AcceptedInv
<1>18. ASSUME NEW t \in Thread, LogoutCheck(t) PROVE AcceptedInv'
  BY <1>18, ZenonT(30) DEF LogoutCheck, clientVars, Goto, Return, TypeOK, ThreadInv,
     Thread, NameOrNone, FlowPC, LogoutPC, AcceptedInv
<1>19. ASSUME NEW t \in Thread, LogoutName(t) PROVE AcceptedInv'
  BY <1>19 DEF LogoutName, clientVars, TypeOK, ThreadInv, Thread,
     NameOrNone, FlowPC, LogoutPC, AcceptedInv
<1>20. ASSUME NEW t \in Thread, LogoutOffline(t) PROVE AcceptedInv'
  BY <1>20 DEF LogoutOffline, clientVars, Goto, TypeOK, ThreadInv, Thread,
     NameOrNone, FlowPC, LogoutPC, AcceptedInv
<1>21. ASSUME NEW t \in Thread, LogoutClear(t) PROVE AcceptedInv'
  BY <1>21 DEF LogoutClear, clientVars, Return, TypeOK, ThreadInv, Thread,
     NameOrNone, FlowPC, LogoutPC, AcceptedInv
<1>22. CASE CleanupRead
  BY <1>22 DEF CleanupRead, clientVars, TypeOK, ThreadInv, Thread,
     NameOrNone, FlowPC, LogoutPC, AcceptedInv
<1>23. CASE CleanupRelease
  BY <1>23 DEF CleanupRelease, clientVars, Goto, TypeOK, ThreadInv, Thread,
     NameOrNone, FlowPC, LogoutPC, AcceptedInv
<1>24. CASE CleanupClear
  BY <1>24 DEF CleanupClear, clientVars, Goto, TypeOK, ThreadInv, Thread,
     NameOrNone, FlowPC, LogoutPC, AcceptedInv
<1>25. CASE UNCHANGED vars
  BY <1>25 DEF vars, TypeOK, ThreadInv, Thread, NameOrNone, FlowPC,
     LogoutPC, AcceptedInv
<1> QED
  BY <1>1, <1>2, <1>3, <1>4, <1>5, <1>6, <1>7, <1>8, <1>9, <1>10, <1>11,
     <1>12, <1>13, <1>14, <1>15, <1>16, <1>17, <1>18, <1>19, <1>20, <1>21,
     <1>22, <1>23, <1>24, <1>25
  DEF Next, WorkerStep, MainStep, Logout, Thread

LEMMA OverlapStep ==
    ASSUME TypeOK, ThreadInv, AcceptedInv, OverlapInv, [Next]_vars
    PROVE  OverlapInv'
<1> USE ConstantsAssumption DEF ConstantsAssumption
<1>1. ASSUME NEW s \in Session, Accept(s) PROVE OverlapInv'
  BY <1>1 DEF Accept, threadVars, clientVars, TypeOK, ThreadInv, Thread,
     NameOrNone, FlowPC, LogoutPC, OverlapInv
<1>2. ASSUME NEW s \in Session, Remove(s) PROVE OverlapInv'
  <2> /\ conn' = [conn EXCEPT ![s] = "removed"]
      /\ pc' = [pc EXCEPT ![Main] = "cleanup"]
      /\ sess' = [sess EXCEPT ![Main] = s]
      /\ pending' = pending /\ who' = who
      /\ raced \subseteq raced'
    BY <1>2 DEF Remove, TypeOK
  <2>1. pending[s] \in raced' \cup {NoUser}
    BY <1>2 DEF Remove
  <2>2. \A w \in Worker : pc[w] # "idle" /\ sess[w] = s
                               => who[w] \in raced' \cup {NoUser}
    BY <1>2 DEF Remove, BusyOn
  <2>3. \A w \in Worker :
            pc'[w] \in {"route", "reserve"} \cup FlowPC
                /\ conn'[sess'[w]] = "removed"
              => who'[w] \in raced' \cup {NoUser}
    BY <2>2 DEF OverlapInv, TypeOK, ThreadInv, Thread, FlowPC
  <2>4. \A r \in Session :
            conn'[r] = "removed" => pending'[r] \in raced' \cup {NoUser}
    BY <2>1 DEF OverlapInv, TypeOK
  <2>5. pc'[Main] = "cleanup" /\ conn'[sess'[Main]] = "removed"
    BY DEF TypeOK, Thread
  <2> QED
    BY <2>3, <2>4, <2>5 DEF OverlapInv
<1>3. ASSUME NEW s \in Session, NEW f \in Request, Dispatch(s, f) PROVE OverlapInv'
  BY <1>3 DEF Dispatch, threadVars, TypeOK, ThreadInv, Thread, NameOrNone,
     FlowPC, LogoutPC, OverlapInv
<1>4. ASSUME NEW w \in Worker, Take(w) PROVE OverlapInv'
  <2>1. UNCHANGED <<conn, pending, raced>>
    BY <1>4 DEF Take
  <2>2. \A t \in Thread \ {w} :
            pc'[t] = pc[t] /\ sess'[t] = sess[t] /\ who'[t] = who[t]
    BY <1>4, Zenon DEF Take, threadVars, TypeOK
  <2>3. pc'[w] \in {"route", "idle"} /\ pc'[w] # "idle"
            => conn[sess'[w]] # "removed"
    BY <1>4 DEF Take, threadVars, TypeOK, Thread
  <2>4. pc'[w] \in {"route", "idle"}
    BY <1>4 DEF Take, threadVars, TypeOK, Thread
  <2> QED
    BY <2>1, <2>2, <2>3, <2>4 DEF OverlapInv, Thread, FlowPC
<1>5. ASSUME NEW w \in Worker, Route(w) PROVE OverlapInv'
  BY <1>5 DEF Route, Goto, Return, TypeOK, ThreadInv, Thread, NameOrNone,
     FlowPC, LogoutPC, OverlapInv
<1>6. ASSUME NEW w \in Worker, RejectInput(w) PROVE OverlapInv'
  BY <1>6 DEF RejectInput, Return, TypeOK, ThreadInv, Thread, NameOrNone,
     FlowPC, LogoutPC, OverlapInv
<1>7. ASSUME NEW w \in Worker, Reserve(w) PROVE OverlapInv'
  <2>1. UNCHANGED <<conn, pending>> /\ raced \subseteq raced'
    BY <1>7, Zenon DEF Reserve
  <2>2. \A t \in Thread \ {w} :
            pc'[t] = pc[t] /\ sess'[t] = sess[t] /\ who'[t] = who[t]
    BY <1>7 DEF Reserve, Goto, Return, TypeOK
  <2>3. \/ pc'[w] = "idle"
        \/ pc[w] = "reserve" /\ sess'[w] = sess[w] /\ who'[w] = who[w]
    BY <1>7 DEF Reserve, Goto, Return, TypeOK, Thread
  <2> QED
    BY <2>1, <2>2, <2>3 DEF OverlapInv, Thread, FlowPC
<1>8. ASSUME NEW w \in Worker, SetPending(w) PROVE OverlapInv'
  BY <1>8 DEF SetPending, clientVars, Goto, TypeOK, ThreadInv, Thread,
     NameOrNone, FlowPC, LogoutPC, OverlapInv
<1>9. ASSUME NEW w \in Worker, Verify(w) PROVE OverlapInv'
  BY <1>9 DEF Verify, clientVars, Goto, TypeOK, ThreadInv, Thread,
     NameOrNone, FlowPC, LogoutPC, OverlapInv
<1>10. ASSUME NEW w \in Worker, RegisterUser(w) PROVE OverlapInv'
  BY <1>10 DEF RegisterUser, clientVars, Goto, TypeOK, ThreadInv, Thread,
     NameOrNone, FlowPC, LogoutPC, OverlapInv
<1>11. ASSUME NEW w \in Worker, HashThrows(w) PROVE OverlapInv'
  BY <1>11 DEF HashThrows, clientVars, Return, TypeOK, ThreadInv, Thread,
     NameOrNone, FlowPC, LogoutPC, OverlapInv
<1>12. ASSUME NEW w \in Worker, FailRelease(w) PROVE OverlapInv'
  BY <1>12 DEF FailRelease, clientVars, Goto, TypeOK, ThreadInv, Thread,
     NameOrNone, FlowPC, LogoutPC, OverlapInv
<1>13. ASSUME NEW w \in Worker, FailClear(w) PROVE OverlapInv'
  BY <1>13 DEF FailClear, Return, TypeOK, ThreadInv, Thread, NameOrNone,
     FlowPC, LogoutPC, OverlapInv
<1>14. ASSUME NEW w \in Worker, SetUsername(w) PROVE OverlapInv'
  BY <1>14 DEF SetUsername, clientVars, Goto, TypeOK, ThreadInv, Thread,
     NameOrNone, FlowPC, LogoutPC, OverlapInv
<1>15. ASSUME NEW w \in Worker, GoOnline(w) PROVE OverlapInv'
  BY <1>15 DEF GoOnline, Goto, TypeOK, ThreadInv, Thread, NameOrNone,
     FlowPC, LogoutPC, OverlapInv
<1>16. ASSUME NEW w \in Worker, ClearPending(w) PROVE OverlapInv'
  BY <1>16 DEF ClearPending, clientVars, Goto, TypeOK, ThreadInv, Thread,
     NameOrNone, FlowPC, LogoutPC, OverlapInv
<1>17. ASSUME NEW w \in Worker, Release(w) PROVE OverlapInv'
  BY <1>17 DEF Release, clientVars, Return, TypeOK, ThreadInv, Thread,
     NameOrNone, FlowPC, LogoutPC, OverlapInv
<1>18. ASSUME NEW t \in Thread, LogoutCheck(t) PROVE OverlapInv'
  <2>1. UNCHANGED <<conn, pending, raced>>
    BY <1>18 DEF LogoutCheck
  <2>2. \A r \in Thread \ {t} :
            pc'[r] = pc[r] /\ sess'[r] = sess[r] /\ who'[r] = who[r]
    BY <1>18 DEF LogoutCheck, Goto, Return, TypeOK
  <2>3. \/ pc'[t] = "idle"
        \/ pc[t] = "logout" /\ pc'[t] = "name" /\ sess'[t] = sess[t]
    BY <1>18 DEF LogoutCheck, Goto, Return, TypeOK
  <2> QED
    BY <2>1, <2>2, <2>3 DEF OverlapInv, Thread, FlowPC
<1>19. ASSUME NEW t \in Thread, LogoutName(t) PROVE OverlapInv'
  BY <1>19 DEF LogoutName, clientVars, TypeOK, ThreadInv, Thread,
     NameOrNone, FlowPC, LogoutPC, OverlapInv
<1>20. ASSUME NEW t \in Thread, LogoutOffline(t) PROVE OverlapInv'
  BY <1>20 DEF LogoutOffline, clientVars, Goto, TypeOK, ThreadInv, Thread,
     NameOrNone, FlowPC, LogoutPC, OverlapInv
<1>21. ASSUME NEW t \in Thread, LogoutClear(t) PROVE OverlapInv'
  BY <1>21 DEF LogoutClear, clientVars, Return, TypeOK, ThreadInv, Thread,
     NameOrNone, FlowPC, LogoutPC, OverlapInv
<1>22. CASE CleanupRead
  BY <1>22 DEF CleanupRead, clientVars, TypeOK, ThreadInv, Thread,
     NameOrNone, FlowPC, LogoutPC, OverlapInv
<1>23. CASE CleanupRelease
  BY <1>23 DEF CleanupRelease, clientVars, Goto, TypeOK, ThreadInv, Thread,
     NameOrNone, FlowPC, LogoutPC, OverlapInv
<1>24. CASE CleanupClear
  BY <1>24 DEF CleanupClear, clientVars, Goto, TypeOK, ThreadInv, Thread,
     NameOrNone, FlowPC, LogoutPC, OverlapInv
<1>25. CASE UNCHANGED vars
  BY <1>25 DEF vars, TypeOK, ThreadInv, Thread, NameOrNone, FlowPC,
     LogoutPC, OverlapInv
<1> QED
  BY <1>1, <1>2, <1>3, <1>4, <1>5, <1>6, <1>7, <1>8, <1>9, <1>10, <1>11,
     <1>12, <1>13, <1>14, <1>15, <1>16, <1>17, <1>18, <1>19, <1>20, <1>21,
     <1>22, <1>23, <1>24, <1>25
  DEF Next, WorkerStep, MainStep, Logout, Thread

LEMMA ReservationStep ==
    ASSUME TypeOK, ThreadInv, AccountsInv, AcceptedInv, OverlapInv, ReservationInv, [Next]_vars
    PROVE  ReservationInv'
<1> USE ConstantsAssumption DEF ConstantsAssumption
<1>1. ASSUME NEW s \in Session, Accept(s) PROVE ReservationInv'
  <2>1. UNCHANGED <<pc, who, kind, username, inProgress, raced>>
    BY <1>1 DEF Accept, threadVars
  <2>2. \A u \in User : LiveSessionsOf(u)' = LiveSessionsOf(u)
    BY <1>1 DEF Accept, AcceptedInv, LiveSessionsOf, TypeOK
  <2> QED
    BY <2>1, <2>2 DEF ReservationInv, Entering, Holds
<1>2. ASSUME NEW s \in Session, Remove(s) PROVE ReservationInv'
  BY <1>2 DEF Remove, clientVars, TypeOK, ThreadInv, Thread, NameOrNone,
     FlowPC, LogoutPC, ReservationInv, Entering, Holds, LiveSessionsOf
<1>3. ASSUME NEW s \in Session, NEW f \in Request, Dispatch(s, f) PROVE ReservationInv'
  BY <1>3 DEF Dispatch, threadVars, TypeOK, ThreadInv, Thread, NameOrNone,
     FlowPC, LogoutPC, ReservationInv, Entering, Holds, LiveSessionsOf
<1>4. ASSUME NEW w \in Worker, Take(w) PROVE ReservationInv'
  <2>1. \A v \in Worker :
            \/ pc'[v] = pc[v] /\ who'[v] = who[v] /\ kind'[v] = kind[v]
            \/ pc'[v] \notin FlowPC
    BY <1>4 DEF Take, threadVars, TypeOK, ThreadInv, Thread, FlowPC
  <2>2. UNCHANGED <<conn, username, inProgress, raced>>
    BY <1>4 DEF Take
  <2> QED
    BY <2>1, <2>2 DEF ReservationInv, Entering, Holds, LiveSessionsOf
<1>5. ASSUME NEW w \in Worker, Route(w) PROVE ReservationInv'
  <2>1. \A v \in Worker :
            \/ pc'[v] = pc[v] /\ who'[v] = who[v] /\ kind'[v] = kind[v]
            \/ pc'[v] \notin FlowPC
    BY <1>5 DEF Route, Goto, Return, TypeOK, ThreadInv, Thread, FlowPC
  <2>2. UNCHANGED <<conn, username, inProgress, raced>>
    BY <1>5 DEF Route
  <2> QED
    BY <2>1, <2>2 DEF ReservationInv, Entering, Holds, LiveSessionsOf
<1>6. ASSUME NEW w \in Worker, RejectInput(w) PROVE ReservationInv'
  BY <1>6 DEF RejectInput, Return, TypeOK, ThreadInv, Thread, NameOrNone,
     FlowPC, LogoutPC, ReservationInv, Entering, Holds, LiveSessionsOf
<1>7. ASSUME NEW w \in Worker, Reserve(w) PROVE ReservationInv'
  <2>1. pc[w] = "reserve" /\ who[w] \in User
    BY <1>7 DEF Reserve, ValidName, TypeOK, Thread, NameOrNone
  <2>2. \A v \in Worker \ {w} :
            pc'[v] = pc[v] /\ who'[v] = who[v] /\ kind'[v] = kind[v]
    BY <1>7 DEF Reserve, Goto, Return, TypeOK, Thread
  <2>3. /\ UNCHANGED <<conn, username>>
        /\ raced \subseteq raced' /\ inProgress \subseteq inProgress'
    BY <1>7, Zenon DEF Reserve
  <2>4. CASE pc'[w] = "idle"
    BY <2>2, <2>3, <2>4
    DEF ReservationInv, Entering, Holds, LiveSessionsOf, FlowPC
  <2>5. CASE ~Refused(w)
    <3>1. Goto(w, "pending") /\ inProgress' = inProgress \cup {who[w]}
      BY <1>7, <2>5, Zenon DEF Reserve
    <3>2. pc'[w] = "pending" /\ who'[w] = who[w] /\ kind'[w] = kind[w]
      BY <3>1 DEF Goto, TypeOK, Thread
    <3>3. who[w] \notin inProgress
      BY <2>5 DEF Refused
    <3>4. kind[w] = "LOGIN" => LiveSessionsOf(who[w]) = {}
      BY <2>5 DEF Refused
    <3>5. \A u \in User : LiveSessionsOf(u)' = LiveSessionsOf(u)
      BY <2>3 DEF LiveSessionsOf
    <3>6. \A v \in Worker \ {w}, u \in User :
              /\ Holds(v, u)' <=> Holds(v, u)
              /\ Entering(v, u)' <=> Entering(v, u)
      BY <2>2 DEF Holds, Entering
    <3>7. \A u \in User : /\ Holds(w, u)' => u = who[w]
                          /\ Entering(w, u)' => kind[w] = "LOGIN"
      BY <3>2 DEF Holds, Entering
    <3>8. \A v \in Worker : who[w] \notin raced => ~Holds(v, who[w])
      BY <2>1, <3>3 DEF ReservationInv
    <3>9. \A v \in Worker, u \in User : Entering(v, u) => Holds(v, u)
      BY DEF Entering
    <3> SUFFICES ASSUME NEW u \in User \ raced'
                 PROVE  /\ \A v \in Worker : Holds(v, u)' => u \in inProgress'
                        /\ \A v1, v2 \in Worker :
                               Holds(v1, u)' /\ Holds(v2, u)' => v1 = v2
                        /\ \A v \in Worker :
                               Entering(v, u)' => LiveSessionsOf(u)' = {}
      BY DEF ReservationInv
    <3>10. CASE u = who[w]
      <4>1. \A v \in Worker \ {w} : ~Holds(v, u)' /\ ~Entering(v, u)'
        BY <2>3, <3>6, <3>8, <3>9, <3>10
      <4> QED
        BY <3>1, <3>4, <3>5, <3>7, <3>10, <4>1
    <3>11. CASE u # who[w]
      <4>1. ~Holds(w, u)' /\ ~Entering(w, u)'
        BY <3>7, <3>11 DEF Entering
      <4> QED
        BY <2>3, <3>5, <3>6, <4>1 DEF ReservationInv
    <3> QED
      BY <3>10, <3>11
  <2>6. CASE Refused(w)
    BY <1>7, <2>4, <2>6 DEF Reserve, ValidName, Return, TypeOK, Thread
  <2> QED
    BY <2>5, <2>6
<1>8. ASSUME NEW w \in Worker, SetPending(w) PROVE ReservationInv'
  BY <1>8 DEF SetPending, clientVars, Goto, TypeOK, ThreadInv, Thread,
     NameOrNone, FlowPC, LogoutPC, ReservationInv, Entering, Holds,
     LiveSessionsOf
<1>9. ASSUME NEW w \in Worker, Verify(w) PROVE ReservationInv'
  <2>1. \A v \in Worker :
            /\ who'[v] = who[v] /\ kind'[v] = kind[v]
            /\ \/ pc'[v] = pc[v]
               \/ /\ pc[v] = "verify" /\ pc'[v] \in {"fail", "enter"}
                  /\ kind[v] = "LOGIN"
    BY <1>9 DEF Verify, Goto, TypeOK, Thread
  <2>2. UNCHANGED <<conn, username, inProgress, raced>>
    BY <1>9 DEF Verify
  <2>3. \A v \in Worker, u \in User :
            /\ Holds(v, u)' => Holds(v, u)
            /\ Entering(v, u)' => Entering(v, u)
    BY <2>1 DEF Holds, Entering, FlowPC
  <2> QED
    BY <2>2, <2>3 DEF ReservationInv, LiveSessionsOf
<1>10. ASSUME NEW w \in Worker, RegisterUser(w) PROVE ReservationInv'
  <2>1. pc[w] = "verify" /\ who[w] \in User
    BY <1>10 DEF RegisterUser, ThreadInv, FlowPC
  <2>2. \A v \in Worker \ {w} :
            pc'[v] = pc[v] /\ who'[v] = who[v] /\ kind'[v] = kind[v]
    BY <1>10 DEF RegisterUser, Goto, TypeOK, Thread
  <2>3. /\ who'[w] = who[w]
        /\ \/ pc'[w] = "fail"
           \/ pc'[w] = "enter" /\ who[w] \notin accounts
    BY <1>10 DEF RegisterUser, Goto, TypeOK, Thread
  <2>4. UNCHANGED <<conn, username, inProgress, raced>>
    BY <1>10 DEF RegisterUser
  <2>5. who[w] \notin accounts => LiveSessionsOf(who[w]) = {}
    BY <2>1 DEF AccountsInv, LiveSessionsOf, ConstantsAssumption
  <2>6. \A u \in User : LiveSessionsOf(u)' = LiveSessionsOf(u)
    BY <2>4 DEF LiveSessionsOf
  <2>7. \A v \in Worker, u \in User : Holds(v, u)' => Holds(v, u)
    BY <2>1, <2>2, <2>3 DEF Holds, FlowPC
  <2>8. \A v \in Worker, u \in User :
            Entering(v, u)' => LiveSessionsOf(u) = {} \/ Entering(v, u)
    BY <2>1, <2>2, <2>3, <2>5 DEF Entering, Holds
  <2> QED
    BY <2>4, <2>6, <2>7, <2>8 DEF ReservationInv
<1>11. ASSUME NEW w \in Worker, HashThrows(w) PROVE ReservationInv'
  BY <1>11 DEF HashThrows, clientVars, Return, TypeOK, ThreadInv, Thread,
     NameOrNone, FlowPC, LogoutPC, ReservationInv, Entering, Holds,
     LiveSessionsOf
<1>12. ASSUME NEW w \in Worker, FailRelease(w) PROVE ReservationInv'
  BY <1>12 DEF FailRelease, clientVars, Goto, TypeOK, ThreadInv, Thread,
     NameOrNone, FlowPC, LogoutPC, ReservationInv, Entering, Holds,
     LiveSessionsOf
<1>13. ASSUME NEW w \in Worker, FailClear(w) PROVE ReservationInv'
  BY <1>13 DEF FailClear, Return, TypeOK, ThreadInv, Thread, NameOrNone,
     FlowPC, LogoutPC, ReservationInv, Entering, Holds, LiveSessionsOf
<1>14. ASSUME NEW w \in Worker, SetUsername(w) PROVE ReservationInv'
  BY <1>14 DEF SetUsername, clientVars, Goto, TypeOK, ThreadInv, Thread,
     NameOrNone, FlowPC, LogoutPC, ReservationInv, Entering, Holds,
     LiveSessionsOf
<1>15. ASSUME NEW w \in Worker, GoOnline(w) PROVE ReservationInv'
  BY <1>15 DEF GoOnline, Goto, TypeOK, ThreadInv, Thread, NameOrNone,
     FlowPC, LogoutPC, ReservationInv, Entering, Holds, LiveSessionsOf
<1>16. ASSUME NEW w \in Worker, ClearPending(w) PROVE ReservationInv'
  BY <1>16 DEF ClearPending, clientVars, Goto, TypeOK, ThreadInv, Thread,
     NameOrNone, FlowPC, LogoutPC, ReservationInv, Entering, Holds,
     LiveSessionsOf
<1>17. ASSUME NEW w \in Worker, Release(w) PROVE ReservationInv'
  BY <1>17 DEF Release, clientVars, Return, TypeOK, ThreadInv, Thread,
     NameOrNone, FlowPC, LogoutPC, ReservationInv, Entering, Holds,
     LiveSessionsOf
<1>18. ASSUME NEW t \in Thread, LogoutCheck(t) PROVE ReservationInv'
  <2>1. \A v \in Worker :
            \/ pc'[v] = pc[v] /\ who'[v] = who[v] /\ kind'[v] = kind[v]
            \/ pc'[v] \notin FlowPC
    BY <1>18 DEF LogoutCheck, Goto, Return, TypeOK, ThreadInv, Thread, FlowPC
  <2>2. UNCHANGED <<conn, username, inProgress, raced>>
    BY <1>18 DEF LogoutCheck
  <2> QED
    BY <2>1, <2>2 DEF ReservationInv, Entering, Holds, LiveSessionsOf
<1>19. ASSUME NEW t \in Thread, LogoutName(t) PROVE ReservationInv'
  BY <1>19 DEF LogoutName, clientVars, TypeOK, ThreadInv, Thread,
     NameOrNone, FlowPC, LogoutPC, ReservationInv, Entering, Holds,
     LiveSessionsOf
<1>20. ASSUME NEW t \in Thread, LogoutOffline(t) PROVE ReservationInv'
  BY <1>20 DEF LogoutOffline, clientVars, Goto, TypeOK, ThreadInv, Thread,
     NameOrNone, FlowPC, LogoutPC, ReservationInv, Entering, Holds,
     LiveSessionsOf
<1>21. ASSUME NEW t \in Thread, LogoutClear(t) PROVE ReservationInv'
  BY <1>21 DEF LogoutClear, clientVars, Return, TypeOK, ThreadInv, Thread,
     NameOrNone, FlowPC, LogoutPC, ReservationInv, Entering, Holds,
     LiveSessionsOf
<1>22. CASE CleanupRead
  BY <1>22 DEF CleanupRead, clientVars, TypeOK, ThreadInv, Thread,
     NameOrNone, FlowPC, LogoutPC, ReservationInv, Entering, Holds,
     LiveSessionsOf
<1>23. CASE CleanupRelease
  <2>1. UNCHANGED <<conn, username, raced, sess, kind, who>>
    BY <1>23 DEF CleanupRelease, Goto
  <2>2. \A v \in Worker : pc'[v] = pc[v]
    BY <1>23 DEF CleanupRelease, Goto, TypeOK, Thread
  <2>3. \A u \in User \ raced : u \in inProgress => u \in inProgress'
    BY <1>23 DEF CleanupRelease, OverlapInv
  <2> QED
    BY <2>1, <2>2, <2>3
    DEF ReservationInv, Entering, Holds, LiveSessionsOf
<1>24. CASE CleanupClear
  BY <1>24 DEF CleanupClear, clientVars, Goto, TypeOK, ThreadInv, Thread,
     NameOrNone, FlowPC, LogoutPC, ReservationInv, Entering, Holds,
     LiveSessionsOf
<1>25. CASE UNCHANGED vars
  BY <1>25 DEF vars, TypeOK, ThreadInv, Thread, NameOrNone, FlowPC,
     LogoutPC, ReservationInv, Entering, Holds, LiveSessionsOf
<1> QED
  BY <1>1, <1>2, <1>3, <1>4, <1>5, <1>6, <1>7, <1>8, <1>9, <1>10, <1>11,
     <1>12, <1>13, <1>14, <1>15, <1>16, <1>17, <1>18, <1>19, <1>20, <1>21,
     <1>22, <1>23, <1>24, <1>25
  DEF Next, WorkerStep, MainStep, Logout, Thread

LEMMA HolderStep ==
    ASSUME TypeOK, ThreadInv, OverlapInv, HolderInv, [Next]_vars
    PROVE  HolderInv'
<1> USE ConstantsAssumption DEF ConstantsAssumption
<1>1. ASSUME NEW s \in Session, Accept(s) PROVE HolderInv'
  BY <1>1 DEF Accept, threadVars, clientVars, TypeOK, ThreadInv, Thread,
     NameOrNone, FlowPC, LogoutPC, HolderInv, Holds
<1>2. ASSUME NEW s \in Session, Remove(s) PROVE HolderInv'
  BY <1>2 DEF Remove, clientVars, TypeOK, ThreadInv, Thread, NameOrNone,
     FlowPC, LogoutPC, HolderInv, Holds
<1>3. ASSUME NEW s \in Session, NEW f \in Request, Dispatch(s, f) PROVE HolderInv'
  <2>1. UNCHANGED <<pc, who, inProgress, raced>>
    BY <1>3 DEF Dispatch, threadVars
  <2>2. \A v \in Worker : \A u \in User : Holds(v, u) => Holds(v, u)'
    BY <2>1 DEF Holds
  <2> QED
    BY <2>1, <2>2 DEF HolderInv, TypeOK
<1>4. ASSUME NEW w \in Worker, Take(w) PROVE HolderInv'
  <2>1. pc[w] \notin FlowPC
    BY <1>4 DEF Take, FlowPC
  <2>2. \A v \in Worker \ {w} : pc'[v] = pc[v] /\ who'[v] = who[v]
    BY <1>4 DEF Take, threadVars, TypeOK, Thread
  <2>3. inProgress' = inProgress /\ raced' = raced
    BY <1>4 DEF Take
  <2>4. \A v \in Worker : \A u \in User : Holds(v, u) => Holds(v, u)'
    BY <2>1, <2>2 DEF Holds
  <2> QED
    BY <2>3, <2>4 DEF HolderInv, TypeOK
<1>5. ASSUME NEW w \in Worker, Route(w) PROVE HolderInv'
  <2>1. pc[w] \notin FlowPC /\ pc'[w] \notin FlowPC
    BY <1>5 DEF Route, Goto, Return, Thread, TypeOK, FlowPC
  <2>2. \A v \in Worker \ {w} : pc'[v] = pc[v] /\ who'[v] = who[v]
    BY <1>5 DEF Route, Goto, Return, TypeOK, Thread
  <2>3. inProgress' = inProgress /\ raced' = raced
    BY <1>5 DEF Route
  <2>4. \A v \in Worker : \A u \in User : Holds(v, u) => Holds(v, u)'
    BY <2>1, <2>2 DEF Holds
  <2> QED
    BY <2>3, <2>4 DEF HolderInv, TypeOK
<1>6. ASSUME NEW w \in Worker, RejectInput(w) PROVE HolderInv'
  <2>1. pc[w] \notin FlowPC /\ pc'[w] \notin FlowPC
    BY <1>6 DEF RejectInput, Return, Thread, TypeOK, FlowPC
  <2>2. \A v \in Worker \ {w} : pc'[v] = pc[v] /\ who'[v] = who[v]
    BY <1>6 DEF RejectInput, Return, TypeOK, Thread
  <2>3. inProgress' = inProgress /\ raced' = raced
    BY <1>6 DEF RejectInput
  <2>4. \A v \in Worker : \A u \in User : Holds(v, u) => Holds(v, u)'
    BY <2>1, <2>2 DEF Holds
  <2> QED
    BY <2>3, <2>4 DEF HolderInv, TypeOK
<1>7. ASSUME NEW w \in Worker, Reserve(w) PROVE HolderInv'
  <2>1. pc[w] = "reserve" /\ who[w] \in User
    BY <1>7 DEF Reserve, ValidName, TypeOK, Thread, NameOrNone
  <2>2. \A v \in Worker \ {w} : pc'[v] = pc[v] /\ who'[v] = who[v]
    BY <1>7 DEF Reserve, Goto, Return, TypeOK, Thread
  <2>3. \A v \in Worker : \A u \in User : Holds(v, u) => Holds(v, u)'
    BY <2>1, <2>2 DEF Holds, FlowPC
  <2>4. raced \subseteq raced'
    BY <1>7, Zenon DEF Reserve
  <2>5. CASE inProgress' = inProgress
    BY <2>3, <2>4, <2>5 DEF HolderInv, TypeOK
  <2>6. CASE inProgress' = inProgress \cup {who[w]} /\ Goto(w, "pending")
    <3>1. \A u \in User : u = who[w] => Holds(w, u)'
      BY <2>6 DEF Goto, Holds, FlowPC, TypeOK, Thread
    <3> QED
      <4>1. ASSUME ~RandCanFail, NEW u \in inProgress' \ raced'
            PROVE  \E v \in Worker : Holds(v, u)'
        <5>1. CASE u = who[w]
          BY <2>1, <3>1, <5>1
        <5>2. CASE u # who[w]
          BY <2>3, <2>4, <2>6, <4>1, <5>2 DEF HolderInv, TypeOK
        <5> QED
          BY <5>1, <5>2
      <4> QED
        BY <4>1 DEF HolderInv
  <2> QED
    BY <1>7, <2>5, <2>6, Zenon DEF Reserve
<1>8. ASSUME NEW w \in Worker, SetPending(w) PROVE HolderInv'
  BY <1>8 DEF SetPending, clientVars, Goto, TypeOK, ThreadInv, Thread,
     NameOrNone, FlowPC, LogoutPC, HolderInv, Holds
<1>9. ASSUME NEW w \in Worker, Verify(w) PROVE HolderInv'
  <2>1. \A v \in Worker : \/ pc'[v] = pc[v] /\ who'[v] = who[v]
                          \/ /\ pc'[v] \in {"fail", "enter"}
                             /\ who'[v] = who[v]
    BY <1>9 DEF Verify, Goto, TypeOK, Thread
  <2>2. inProgress' = inProgress /\ raced' = raced
    BY <1>9 DEF Verify
  <2>3. \A v \in Worker : \A u \in User : Holds(v, u) => Holds(v, u)'
    BY <2>1 DEF Holds, FlowPC
  <2> QED
    BY <2>2, <2>3 DEF HolderInv, TypeOK
<1>10. ASSUME NEW w \in Worker, RegisterUser(w) PROVE HolderInv'
  <2>1. \A v \in Worker : \/ pc'[v] = pc[v] /\ who'[v] = who[v]
                          \/ /\ pc'[v] \in {"fail", "enter"}
                             /\ who'[v] = who[v]
    BY <1>10 DEF RegisterUser, Goto, TypeOK, Thread
  <2>2. inProgress' = inProgress /\ raced' = raced
    BY <1>10 DEF RegisterUser
  <2>3. \A v \in Worker : \A u \in User : Holds(v, u) => Holds(v, u)'
    BY <2>1 DEF Holds, FlowPC
  <2> QED
    BY <2>2, <2>3 DEF HolderInv, TypeOK
<1>11. ASSUME NEW w \in Worker, HashThrows(w) PROVE HolderInv'
  BY <1>11 DEF HashThrows, clientVars, Return, TypeOK, ThreadInv, Thread,
     NameOrNone, FlowPC, LogoutPC, HolderInv, Holds
<1>12. ASSUME NEW w \in Worker, FailRelease(w) PROVE HolderInv'
  BY <1>12 DEF FailRelease, clientVars, Goto, TypeOK, ThreadInv, Thread,
     NameOrNone, FlowPC, LogoutPC, HolderInv, Holds
<1>13. ASSUME NEW w \in Worker, FailClear(w) PROVE HolderInv'
  BY <1>13 DEF FailClear, Return, TypeOK, ThreadInv, Thread, NameOrNone,
     FlowPC, LogoutPC, HolderInv, Holds
<1>14. ASSUME NEW w \in Worker, SetUsername(w) PROVE HolderInv'
  BY <1>14 DEF SetUsername, clientVars, Goto, TypeOK, ThreadInv, Thread,
     NameOrNone, FlowPC, LogoutPC, HolderInv, Holds
<1>15. ASSUME NEW w \in Worker, GoOnline(w) PROVE HolderInv'
  BY <1>15 DEF GoOnline, Goto, TypeOK, ThreadInv, Thread, NameOrNone,
     FlowPC, LogoutPC, HolderInv, Holds
<1>16. ASSUME NEW w \in Worker, ClearPending(w) PROVE HolderInv'
  BY <1>16 DEF ClearPending, clientVars, Goto, TypeOK, ThreadInv, Thread,
     NameOrNone, FlowPC, LogoutPC, HolderInv, Holds
<1>17. ASSUME NEW w \in Worker, Release(w) PROVE HolderInv'
  BY <1>17 DEF Release, clientVars, Return, TypeOK, ThreadInv, Thread,
     NameOrNone, FlowPC, LogoutPC, HolderInv, Holds
<1>18. ASSUME NEW t \in Thread, LogoutCheck(t) PROVE HolderInv'
  <2>1. pc[t] \notin FlowPC /\ pc'[t] \notin FlowPC
    BY <1>18 DEF LogoutCheck, Goto, Return, TypeOK, FlowPC
  <2>2. \A v \in Worker \ {t} : pc'[v] = pc[v] /\ who'[v] = who[v]
    BY <1>18 DEF LogoutCheck, Goto, Return, TypeOK, Thread
  <2>3. inProgress' = inProgress /\ raced' = raced
    BY <1>18 DEF LogoutCheck
  <2>4. \A v \in Worker : \A u \in User : Holds(v, u) => Holds(v, u)'
    BY <2>1, <2>2 DEF Holds
  <2> QED
    BY <2>3, <2>4 DEF HolderInv, TypeOK
<1>19. ASSUME NEW t \in Thread, LogoutName(t) PROVE HolderInv'
  <2>1. pc[t] \notin FlowPC /\ pc'[t] \notin FlowPC
    BY <1>19 DEF LogoutName, TypeOK, FlowPC
  <2>2. \A v \in Worker \ {t} : pc'[v] = pc[v] /\ who'[v] = who[v]
    BY <1>19 DEF LogoutName, TypeOK, Thread
  <2>3. inProgress' = inProgress /\ raced' = raced
    BY <1>19 DEF LogoutName
  <2>4. \A v \in Worker : \A u \in User : Holds(v, u) => Holds(v, u)'
    BY <2>1, <2>2 DEF Holds
  <2> QED
    BY <2>3, <2>4 DEF HolderInv, TypeOK
<1>20. ASSUME NEW t \in Thread, LogoutOffline(t) PROVE HolderInv'
  <2>1. pc[t] \notin FlowPC /\ pc'[t] \notin FlowPC
    BY <1>20 DEF LogoutOffline, Goto, TypeOK, FlowPC
  <2>2. \A v \in Worker \ {t} : pc'[v] = pc[v] /\ who'[v] = who[v]
    BY <1>20 DEF LogoutOffline, Goto, TypeOK, Thread
  <2>3. inProgress' = inProgress /\ raced' = raced
    BY <1>20 DEF LogoutOffline
  <2>4. \A v \in Worker : \A u \in User : Holds(v, u) => Holds(v, u)'
    BY <2>1, <2>2 DEF Holds
  <2> QED
    BY <2>3, <2>4 DEF HolderInv, TypeOK
<1>21. ASSUME NEW t \in Thread, LogoutClear(t) PROVE HolderInv'
  <2>1. pc[t] \notin FlowPC /\ pc'[t] \notin FlowPC
    BY <1>21 DEF LogoutClear, Return, TypeOK, FlowPC
  <2>2. \A v \in Worker \ {t} : pc'[v] = pc[v] /\ who'[v] = who[v]
    BY <1>21 DEF LogoutClear, Return, TypeOK, Thread
  <2>3. inProgress' = inProgress /\ raced' = raced
    BY <1>21 DEF LogoutClear
  <2>4. \A v \in Worker : \A u \in User : Holds(v, u) => Holds(v, u)'
    BY <2>1, <2>2 DEF Holds
  <2> QED
    BY <2>3, <2>4 DEF HolderInv, TypeOK
<1>22. CASE CleanupRead
  BY <1>22 DEF CleanupRead, clientVars, TypeOK, ThreadInv, Thread,
     NameOrNone, FlowPC, LogoutPC, HolderInv, Holds
<1>23. CASE CleanupRelease
  BY <1>23 DEF CleanupRelease, clientVars, Goto, TypeOK, ThreadInv, Thread,
     NameOrNone, FlowPC, LogoutPC, HolderInv, Holds
<1>24. CASE CleanupClear
  BY <1>24 DEF CleanupClear, clientVars, Goto, TypeOK, ThreadInv, Thread,
     NameOrNone, FlowPC, LogoutPC, HolderInv, Holds
<1>25. CASE UNCHANGED vars
  BY <1>25 DEF vars, TypeOK, ThreadInv, Thread, NameOrNone, FlowPC,
     LogoutPC, HolderInv, Holds
<1> QED
  BY <1>1, <1>2, <1>3, <1>4, <1>5, <1>6, <1>7, <1>8, <1>9, <1>10, <1>11,
     <1>12, <1>13, <1>14, <1>15, <1>16, <1>17, <1>18, <1>19, <1>20, <1>21,
     <1>22, <1>23, <1>24, <1>25
  DEF Next, WorkerStep, MainStep, Logout, Thread

LEMMA UniqueStep ==
    ASSUME TypeOK, ThreadInv, AcceptedInv, ReservationInv, UniqueLogin, [Next]_vars
    PROVE  UniqueLogin'
<1> USE ConstantsAssumption DEF ConstantsAssumption
<1>1. ASSUME NEW s \in Session, Accept(s) PROVE UniqueLogin'
  <2>1. UNCHANGED <<pc, who, kind, username, inProgress, raced>>
    BY <1>1 DEF Accept, threadVars
  <2>2. \A u \in User : LiveSessionsOf(u)' = LiveSessionsOf(u)
    BY <1>1 DEF Accept, AcceptedInv, LiveSessionsOf, TypeOK
  <2> QED
    BY <2>1, <2>2 DEF UniqueLogin
<1>2. ASSUME NEW s \in Session, Remove(s) PROVE UniqueLogin'
  BY <1>2 DEF Remove, clientVars, TypeOK, ThreadInv, Thread, NameOrNone,
     FlowPC, LogoutPC, ReservationInv, UniqueLogin, Entering, Holds,
     LiveSessionsOf
<1>3. ASSUME NEW s \in Session, NEW f \in Request, Dispatch(s, f) PROVE UniqueLogin'
  BY <1>3 DEF Dispatch, threadVars, TypeOK, ThreadInv, Thread, NameOrNone,
     FlowPC, LogoutPC, ReservationInv, UniqueLogin, Entering, Holds,
     LiveSessionsOf
<1>4. ASSUME NEW w \in Worker, Take(w) PROVE UniqueLogin'
  BY <1>4 DEF Take, threadVars, clientVars, TypeOK, ThreadInv, Thread,
     NameOrNone, FlowPC, LogoutPC, ReservationInv, UniqueLogin, Entering,
     Holds, LiveSessionsOf
<1>5. ASSUME NEW w \in Worker, Route(w) PROVE UniqueLogin'
  BY <1>5 DEF Route, Goto, Return, TypeOK, ThreadInv, Thread, NameOrNone,
     FlowPC, LogoutPC, ReservationInv, UniqueLogin, Entering, Holds,
     LiveSessionsOf
<1>6. ASSUME NEW w \in Worker, RejectInput(w) PROVE UniqueLogin'
  BY <1>6 DEF RejectInput, Return, TypeOK, ThreadInv, Thread, NameOrNone,
     FlowPC, LogoutPC, ReservationInv, UniqueLogin, Entering, Holds,
     LiveSessionsOf
<1>7. ASSUME NEW w \in Worker, Reserve(w) PROVE UniqueLogin'
  BY <1>7 DEF Reserve, Goto, Return, TypeOK, ThreadInv, Thread, NameOrNone,
     FlowPC, LogoutPC, ReservationInv, UniqueLogin, Entering, Holds,
     LiveSessionsOf
<1>8. ASSUME NEW w \in Worker, SetPending(w) PROVE UniqueLogin'
  BY <1>8 DEF SetPending, clientVars, Goto, TypeOK, ThreadInv, Thread,
     NameOrNone, FlowPC, LogoutPC, ReservationInv, UniqueLogin, Entering,
     Holds, LiveSessionsOf
<1>9. ASSUME NEW w \in Worker, Verify(w) PROVE UniqueLogin'
  BY <1>9 DEF Verify, clientVars, Goto, TypeOK, ThreadInv, Thread,
     NameOrNone, FlowPC, LogoutPC, ReservationInv, UniqueLogin, Entering,
     Holds, LiveSessionsOf
<1>10. ASSUME NEW w \in Worker, RegisterUser(w) PROVE UniqueLogin'
  BY <1>10 DEF RegisterUser, clientVars, Goto, TypeOK, ThreadInv, Thread,
     NameOrNone, FlowPC, LogoutPC, ReservationInv, UniqueLogin, Entering,
     Holds, LiveSessionsOf
<1>11. ASSUME NEW w \in Worker, HashThrows(w) PROVE UniqueLogin'
  BY <1>11 DEF HashThrows, clientVars, Return, TypeOK, ThreadInv, Thread,
     NameOrNone, FlowPC, LogoutPC, ReservationInv, UniqueLogin, Entering,
     Holds, LiveSessionsOf
<1>12. ASSUME NEW w \in Worker, FailRelease(w) PROVE UniqueLogin'
  BY <1>12 DEF FailRelease, clientVars, Goto, TypeOK, ThreadInv, Thread,
     NameOrNone, FlowPC, LogoutPC, ReservationInv, UniqueLogin, Entering,
     Holds, LiveSessionsOf
<1>13. ASSUME NEW w \in Worker, FailClear(w) PROVE UniqueLogin'
  BY <1>13 DEF FailClear, Return, TypeOK, ThreadInv, Thread, NameOrNone,
     FlowPC, LogoutPC, ReservationInv, UniqueLogin, Entering, Holds,
     LiveSessionsOf
<1>14. ASSUME NEW w \in Worker, SetUsername(w) PROVE UniqueLogin'
  BY <1>14 DEF SetUsername, clientVars, Goto, TypeOK, ThreadInv, Thread,
     NameOrNone, FlowPC, LogoutPC, ReservationInv, UniqueLogin, Entering,
     Holds, LiveSessionsOf
<1>15. ASSUME NEW w \in Worker, GoOnline(w) PROVE UniqueLogin'
  BY <1>15 DEF GoOnline, Goto, TypeOK, ThreadInv, Thread, NameOrNone,
     FlowPC, LogoutPC, ReservationInv, UniqueLogin, Entering, Holds,
     LiveSessionsOf
<1>16. ASSUME NEW w \in Worker, ClearPending(w) PROVE UniqueLogin'
  BY <1>16 DEF ClearPending, clientVars, Goto, TypeOK, ThreadInv, Thread,
     NameOrNone, FlowPC, LogoutPC, ReservationInv, UniqueLogin, Entering,
     Holds, LiveSessionsOf
<1>17. ASSUME NEW w \in Worker, Release(w) PROVE UniqueLogin'
  BY <1>17 DEF Release, clientVars, Return, TypeOK, ThreadInv, Thread,
     NameOrNone, FlowPC, LogoutPC, ReservationInv, UniqueLogin, Entering,
     Holds, LiveSessionsOf
<1>18. ASSUME NEW t \in Thread, LogoutCheck(t) PROVE UniqueLogin'
  BY <1>18 DEF LogoutCheck, clientVars, Goto, Return, TypeOK, ThreadInv,
     Thread, NameOrNone, FlowPC, LogoutPC, ReservationInv, UniqueLogin,
     Entering, Holds, LiveSessionsOf
<1>19. ASSUME NEW t \in Thread, LogoutName(t) PROVE UniqueLogin'
  BY <1>19 DEF LogoutName, clientVars, TypeOK, ThreadInv, Thread,
     NameOrNone, FlowPC, LogoutPC, ReservationInv, UniqueLogin, Entering,
     Holds, LiveSessionsOf
<1>20. ASSUME NEW t \in Thread, LogoutOffline(t) PROVE UniqueLogin'
  BY <1>20 DEF LogoutOffline, clientVars, Goto, TypeOK, ThreadInv, Thread,
     NameOrNone, FlowPC, LogoutPC, ReservationInv, UniqueLogin, Entering,
     Holds, LiveSessionsOf
<1>21. ASSUME NEW t \in Thread, LogoutClear(t) PROVE UniqueLogin'
  BY <1>21 DEF LogoutClear, clientVars, Return, TypeOK, ThreadInv, Thread,
     NameOrNone, FlowPC, LogoutPC, ReservationInv, UniqueLogin, Entering,
     Holds, LiveSessionsOf
<1>22. CASE CleanupRead
  BY <1>22 DEF CleanupRead, clientVars, TypeOK, ThreadInv, Thread,
     NameOrNone, FlowPC, LogoutPC, ReservationInv, UniqueLogin, Entering,
     Holds, LiveSessionsOf
<1>23. CASE CleanupRelease
  BY <1>23 DEF CleanupRelease, clientVars, Goto, TypeOK, ThreadInv, Thread,
     NameOrNone, FlowPC, LogoutPC, ReservationInv, UniqueLogin, Entering,
     Holds, LiveSessionsOf
<1>24. CASE CleanupClear
  BY <1>24 DEF CleanupClear, clientVars, Goto, TypeOK, ThreadInv, Thread,
     NameOrNone, FlowPC, LogoutPC, ReservationInv, UniqueLogin, Entering,
     Holds, LiveSessionsOf
<1>25. CASE UNCHANGED vars
  BY <1>25 DEF vars, TypeOK, ThreadInv, Thread, NameOrNone, FlowPC,
     LogoutPC, ReservationInv, UniqueLogin, Entering, Holds, LiveSessionsOf
<1> QED
  BY <1>1, <1>2, <1>3, <1>4, <1>5, <1>6, <1>7, <1>8, <1>9, <1>10, <1>11,
     <1>12, <1>13, <1>14, <1>15, <1>16, <1>17, <1>18, <1>19, <1>20, <1>21,
     <1>22, <1>23, <1>24, <1>25
  DEF Next, WorkerStep, MainStep, Logout, Thread

-----------------------------------------------------------------------------
(* The invariants.                                                         *)

LEMMA LoginInvInit == Init => LoginInv
<1> SUFFICES ASSUME Init PROVE LoginInv
  OBVIOUS
<1>1. \A t \in Thread : pc[t] = "idle"
  BY DEF Init
<1>2. ThreadInv
  BY TypeInit
<1>3. AccountsInv /\ AcceptedInv /\ OverlapInv
  BY <1>1 DEF Init, AccountsInv, AcceptedInv, OverlapInv, Thread, FlowPC
<1>4. ReservationInv /\ HolderInv
  BY <1>1 DEF Init, ReservationInv, HolderInv, Entering, Holds, Thread, FlowPC
<1>5. UniqueLogin
  BY DEF Init, UniqueLogin, LiveSessionsOf
<1> QED
  BY <1>2, <1>3, <1>4, <1>5 DEF LoginInv

LEMMA LoginInvStep ==
    TypeOK /\ LoginInv /\ [Next]_vars => TypeOK' /\ LoginInv'
<1> SUFFICES ASSUME TypeOK, LoginInv, [Next]_vars
             PROVE  TypeOK' /\ LoginInv'
  OBVIOUS
<1>1. /\ ThreadInv /\ AccountsInv /\ AcceptedInv /\ OverlapInv
      /\ ReservationInv /\ HolderInv /\ UniqueLogin
  BY DEF LoginInv
<1>2. TypeOK' /\ ThreadInv'
  BY <1>1, TypeStep
<1>3. AccountsInv' /\ AcceptedInv' /\ OverlapInv'
  BY <1>1, AccountsStep, AcceptedStep, OverlapStep
<1>4. ReservationInv' /\ HolderInv' /\ UniqueLogin'
  BY <1>1, ReservationStep, HolderStep, UniqueStep
<1> QED
  BY <1>2, <1>3, <1>4 DEF LoginInv

\* The inductive invariant holds in every reachable state: reservations are
\* exclusive, owned by a handler, and guard the names put on sessions
\* (handle_login, handle_register, the disconnect handler).
THEOREM LoginInvariant == Spec => []LoginInv
<1>1. Init => TypeOK /\ LoginInv
  BY TypeInit, LoginInvInit
<1>2. TypeOK /\ LoginInv /\ [Next]_vars => TypeOK' /\ LoginInv'
  BY LoginInvStep
<1> QED
  BY <1>1, <1>2, PTL DEF Spec

\* Unless a disconnect overlapped a login of the name, no two connections
\* ever carry the same name: what the reservation under login_mutex_ is for,
\* with any number of connections, names and workers, with clients that
\* pipeline frames and with a failing RAND_bytes.
THEOREM UniqueLoginHolds == Spec => []UniqueLogin
<1>1. LoginInv => UniqueLogin
  BY DEF LoginInv
<1> QED
  BY <1>1, LoginInvariant, PTL

LEMMA OwnedFromInv ==
    ~RandCanFail /\ TypeOK /\ LoginInv => ReservationOwned
BY DEF LoginInv, ReservationInv, HolderInv, ReservationOwned, TypeOK

\* While RAND_bytes works, a name no disconnect overlapped is reserved exactly
\* while a handler works on it: every return of handle_login and
\* handle_register gives the reservation back.
THEOREM ReservationOwnedHolds ==
    ASSUME ~RandCanFail
    PROVE  Spec => []ReservationOwned
<1>1. TypeOK /\ LoginInv => ReservationOwned
  BY OwnedFromInv
<1> QED
  BY <1>1, TypeCorrect, LoginInvariant, PTL

-----------------------------------------------------------------------------
(* Presence, for clients that wait for their answers.                      *)

\* A worker goes on, or is done, with no answer sent.
LEMMA PatientKeep ==
    ASSUME PatientInv, NEW w \in Worker, Early(w) \/ ~Early(w)',
           UNCHANGED <<tasks, awaiting>>,
           sess'[w] = sess[w] \/ ~Early(w)',
           \A v \in Worker \ {w} : pc'[v] = pc[v] /\ sess'[v] = sess[v]
    PROVE  PatientInv'
BY DEF PatientInv, Early

\* A worker answers its client and is done.
LEMMA PatientReply ==
    ASSUME TypeOK, PatientInv, NEW w \in Worker, Early(w), ~Early(w)',
           tasks' = tasks, Reply(sess[w]),
           \A v \in Worker \ {w} : pc'[v] = pc[v] /\ sess'[v] = sess[v],
           \A v \in Worker : Early(v) => sess[v] \in Session
    PROVE  PatientInv'
<1>1. \A i \in 1..Len(tasks) : tasks[i] \in Task /\ tasks[i].s # sess[w]
  BY ElementOfSeq DEF PatientInv, TypeOK
<1>2. \A s \in Session \ {sess[w]} : awaiting'[s] = awaiting[s]
  BY DEF Reply, TypeOK
<1>3. \A i \in 1..Len(tasks) : awaiting'[tasks[i].s] # "nothing"
  BY <1>1, <1>2 DEF PatientInv, Task
<1>4. \A v \in Worker : Early(v)' =>
          v # w /\ Early(v) /\ sess'[v] = sess[v] /\ sess[v] # sess[w]
  BY DEF Early, PatientInv
<1> QED
  BY <1>2, <1>3, <1>4 DEF PatientInv

LEMMA PatientStep ==
    ASSUME ~Pipelined, TypeOK, ThreadInv, PatientInv, [Next]_vars
    PROVE  PatientInv'
<1> USE ConstantsAssumption DEF ConstantsAssumption
<1>1. ASSUME NEW s \in Session, Accept(s)
      PROVE  PatientInv'
  BY <1>1 DEF Accept, threadVars, clientVars, TypeOK, ThreadInv, Thread,
     NameOrNone, FlowPC, LogoutPC, Early, PatientInv
<1>2. ASSUME NEW s \in Session, Remove(s)
      PROVE  PatientInv'
  BY <1>2 DEF Remove, clientVars, BusyOn, TypeOK, ThreadInv, Thread,
     NameOrNone, FlowPC, LogoutPC, Early, PatientInv
<1>3. ASSUME NEW s \in Session, NEW f \in Request, Dispatch(s, f)
      PROVE  PatientInv'
  BY <1>3 DEF Dispatch, threadVars, TypeOK, ThreadInv, Thread, NameOrNone,
     FlowPC, LogoutPC, Early, PatientInv
<1>4. ASSUME NEW w \in Worker, Take(w)
      PROVE  PatientInv'
  <2> DEFINE r == Head(tasks).s
  <2>1. /\ Head(tasks) = tasks[1] /\ 1 \in 1..Len(tasks)
        /\ Len(tasks') = Len(tasks) - 1
        /\ \A i \in 1..Len(tasks') :
               i + 1 \in 1..Len(tasks) /\ tasks'[i] = tasks[i + 1]
    BY <1>4, HeadTailProperties DEF Take, TypeOK
  <2>2. /\ \A v \in Worker \ {w} : pc'[v] = pc[v] /\ sess'[v] = sess[v]
        /\ awaiting' = awaiting /\ ~Early(w)
        /\ ~Early(w)' \/ sess'[w] = r
    BY <1>4 DEF Take, threadVars, clientVars, TypeOK, Thread, Early
  <2>3. /\ awaiting[r] # "nothing"
        /\ \A i \in 1..Len(tasks') : tasks'[i].s # r
        /\ \A v \in Worker : Early(v) => sess[v] # r
    BY <2>1 DEF PatientInv
  <2> HIDE DEF r
  <2>4. /\ \A i \in 1..Len(tasks') : awaiting[tasks'[i].s] # "nothing"
        /\ \A v \in Worker : Early(v) =>
               \A i \in 1..Len(tasks') : tasks'[i].s # sess[v]
    BY <2>1 DEF PatientInv
  <2>5. \A i, j \in 1..Len(tasks') : tasks'[i].s = tasks'[j].s => i = j
    <3> TAKE i, j \in 1..Len(tasks')
    <3> HAVE tasks'[i].s = tasks'[j].s
    <3>1. i + 1 = j + 1
      BY <2>1 DEF PatientInv
    <3> QED
      BY <3>1
  <2>6. \A v \in Worker : Early(v)' =>
            \/ v = w /\ sess'[v] = r
            \/ v # w /\ Early(v) /\ sess'[v] = sess[v]
    BY <2>2 DEF Early
  <2> QED
    BY <2>2, <2>3, <2>4, <2>5, <2>6 DEF PatientInv
<1>5. ASSUME NEW w \in Worker, Route(w)
      PROVE  PatientInv'
  <2>1. CASE Return(w) /\ Reply(sess[w])
    <3>1. /\ \A v \in Worker \ {w} : pc'[v] = pc[v] /\ sess'[v] = sess[v]
          /\ tasks' = tasks /\ Early(w) /\ ~Early(w)'
      BY <1>5, <2>1 DEF Route, Return, TypeOK, Thread, Early
    <3>2. \A v \in Worker : Early(v) => sess[v] \in Session
      BY DEF Early, ThreadInv, Thread
    <3> QED
      BY <2>1, <3>1, <3>2, PatientReply
  <2>2. CASE ~(Return(w) /\ Reply(sess[w]))
    <3>1. /\ \A v \in Worker \ {w} : pc'[v] = pc[v] /\ sess'[v] = sess[v]
          /\ sess'[w] = sess[w]
          /\ tasks' = tasks /\ awaiting' = awaiting /\ Early(w)
      BY <1>5, <2>2 DEF Route, Goto, TypeOK, Thread, Early
    <3> QED
      BY <3>1, PatientKeep
  <2> QED
    BY <2>1, <2>2
<1>6. ASSUME NEW w \in Worker, RejectInput(w)
      PROVE  PatientInv'
  <2>1. /\ \A v \in Worker \ {w} : pc'[v] = pc[v] /\ sess'[v] = sess[v]
        /\ tasks' = tasks /\ Reply(sess[w]) /\ Early(w) /\ ~Early(w)'
    BY <1>6 DEF RejectInput, Return, TypeOK, Thread, Early
  <2>2. \A v \in Worker : Early(v) => sess[v] \in Session
    BY DEF Early, ThreadInv, Thread
  <2> QED
    BY <2>1, <2>2, PatientReply
<1>7. ASSUME NEW w \in Worker, Reserve(w)
      PROVE  PatientInv'
  <2>1. CASE Return(w) /\ Reply(sess[w])
    <3>1. /\ \A v \in Worker \ {w} : pc'[v] = pc[v] /\ sess'[v] = sess[v]
          /\ tasks' = tasks /\ Early(w) /\ ~Early(w)'
      BY <1>7, <2>1 DEF Reserve, Return, TypeOK, Thread, Early
    <3>2. \A v \in Worker : Early(v) => sess[v] \in Session
      BY DEF Early, ThreadInv, Thread
    <3> QED
      BY <2>1, <3>1, <3>2, PatientReply
  <2>2. CASE ~(Return(w) /\ Reply(sess[w]))
    <3>1. /\ Goto(w, "pending") /\ pc[w] = "reserve"
          /\ tasks' = tasks /\ awaiting' = awaiting
      BY <1>7, <2>2, Zenon DEF Reserve
    <3>2. /\ \A v \in Worker \ {w} : pc'[v] = pc[v]
          /\ sess' = sess /\ Early(w)
      BY <3>1 DEF Goto, TypeOK, Thread, Early
    <3> QED
      BY <3>1, <3>2, PatientKeep
  <2> QED
    BY <2>1, <2>2
<1>8. ASSUME NEW w \in Worker, SetPending(w)
      PROVE  PatientInv'
  BY <1>8 DEF SetPending, clientVars, Goto, TypeOK, ThreadInv, Thread,
     NameOrNone, FlowPC, LogoutPC, Early, PatientInv
<1>9. ASSUME NEW w \in Worker, Verify(w)
      PROVE  PatientInv'
  <2>1. /\ \A v \in Worker \ {w} : pc'[v] = pc[v]
        /\ sess' = sess /\ tasks' = tasks /\ awaiting' = awaiting
        /\ Early(w)
    BY <1>9 DEF Verify, Goto, TypeOK, Thread, Early, clientVars
  <2> QED
    BY <2>1, PatientKeep
<1>10. ASSUME NEW w \in Worker, RegisterUser(w)
      PROVE  PatientInv'
  <2>1. /\ \A v \in Worker \ {w} : pc'[v] = pc[v]
        /\ sess' = sess /\ tasks' = tasks /\ awaiting' = awaiting
        /\ Early(w)
    BY <1>10 DEF RegisterUser, Goto, TypeOK, Thread, Early, clientVars
  <2> QED
    BY <2>1, PatientKeep
<1>11. ASSUME NEW w \in Worker, HashThrows(w)
      PROVE  PatientInv'
  BY <1>11 DEF HashThrows, clientVars, Return, TypeOK, ThreadInv, Thread,
     NameOrNone, FlowPC, LogoutPC, Early, PatientInv
<1>12. ASSUME NEW w \in Worker, FailRelease(w)
      PROVE  PatientInv'
  BY <1>12 DEF FailRelease, clientVars, Goto, TypeOK, ThreadInv, Thread,
     NameOrNone, FlowPC, LogoutPC, Early, PatientInv
<1>13. ASSUME NEW w \in Worker, FailClear(w)
      PROVE  PatientInv'
  <2>1. /\ \A v \in Worker \ {w} : pc'[v] = pc[v] /\ sess'[v] = sess[v]
        /\ tasks' = tasks /\ Reply(sess[w]) /\ Early(w) /\ ~Early(w)'
    BY <1>13 DEF FailClear, Return, TypeOK, Thread, Early
  <2>2. \A v \in Worker : Early(v) => sess[v] \in Session
    BY DEF Early, ThreadInv, Thread
  <2> QED
    BY <2>1, <2>2, PatientReply
<1>14. ASSUME NEW w \in Worker, SetUsername(w)
      PROVE  PatientInv'
  BY <1>14 DEF SetUsername, clientVars, Goto, TypeOK, ThreadInv, Thread,
     NameOrNone, FlowPC, LogoutPC, Early, PatientInv
<1>15. ASSUME NEW w \in Worker, GoOnline(w)
      PROVE  PatientInv'
  BY <1>15 DEF GoOnline, Goto, Reply, TypeOK, ThreadInv, Thread, NameOrNone,
     FlowPC, LogoutPC, Early, PatientInv
<1>16. ASSUME NEW w \in Worker, ClearPending(w)
      PROVE  PatientInv'
  BY <1>16 DEF ClearPending, clientVars, Goto, TypeOK, ThreadInv, Thread,
     NameOrNone, FlowPC, LogoutPC, Early, PatientInv
<1>17. ASSUME NEW w \in Worker, Release(w)
      PROVE  PatientInv'
  BY <1>17 DEF Release, clientVars, Return, TypeOK, ThreadInv, Thread,
     NameOrNone, FlowPC, LogoutPC, Early, PatientInv
<1>18. ASSUME NEW t \in Thread, LogoutCheck(t)
      PROVE  PatientInv'
  <2>1. /\ \A v \in Worker \ {t} : pc'[v] = pc[v] /\ sess'[v] = sess[v]
        /\ pc[t] = "logout"
        /\ pc'[t] = "idle" \/ sess'[t] = sess[t]
        /\ tasks' = tasks /\ awaiting' = awaiting
    BY <1>18 DEF LogoutCheck, Goto, Return, TypeOK, Thread, clientVars
  <2>2. CASE t \in Worker
    BY <2>1, <2>2, PatientKeep DEF Early
  <2>3. CASE t = Main
    BY <2>1, <2>3 DEF PatientInv, Early
  <2> QED
    BY <2>2, <2>3 DEF Thread
<1>19. ASSUME NEW t \in Thread, LogoutName(t)
      PROVE  PatientInv'
  BY <1>19 DEF LogoutName, clientVars, TypeOK, ThreadInv, Thread,
     NameOrNone, FlowPC, LogoutPC, Early, PatientInv
<1>20. ASSUME NEW t \in Thread, LogoutOffline(t)
      PROVE  PatientInv'
  BY <1>20 DEF LogoutOffline, clientVars, Goto, TypeOK, ThreadInv, Thread,
     NameOrNone, FlowPC, LogoutPC, Early, PatientInv
<1>21. ASSUME NEW t \in Thread, LogoutClear(t)
      PROVE  PatientInv'
  BY <1>21 DEF LogoutClear, clientVars, Return, TypeOK, ThreadInv, Thread,
     NameOrNone, FlowPC, LogoutPC, Early, PatientInv
<1>22. CASE CleanupRead
  BY <1>22 DEF CleanupRead, clientVars, TypeOK, ThreadInv, Thread,
     NameOrNone, FlowPC, LogoutPC, Early, PatientInv
<1>23. CASE CleanupRelease
  BY <1>23 DEF CleanupRelease, clientVars, Goto, TypeOK, ThreadInv, Thread,
     NameOrNone, FlowPC, LogoutPC, Early, PatientInv
<1>24. CASE CleanupClear
  BY <1>24 DEF CleanupClear, clientVars, Goto, TypeOK, ThreadInv, Thread,
     NameOrNone, FlowPC, LogoutPC, Early, PatientInv
<1>25. CASE UNCHANGED vars
  BY <1>25 DEF vars, TypeOK, ThreadInv, Thread, NameOrNone, FlowPC,
     LogoutPC, Early, PatientInv
<1> QED
  BY <1>1, <1>2, <1>3, <1>4, <1>5, <1>6, <1>7, <1>8, <1>9, <1>10, <1>11,
     <1>12, <1>13, <1>14, <1>15, <1>16, <1>17, <1>18, <1>19, <1>20, <1>21,
     <1>22, <1>23, <1>24, <1>25
  DEF Next, WorkerStep, MainStep, Logout, Thread

LEMMA RemovedStep ==
    ASSUME TypeOK, ThreadInv, AcceptedInv, OverlapInv, RemovedInv, [Next]_vars
    PROVE  RemovedInv'
<1> USE ConstantsAssumption DEF ConstantsAssumption
<1>1. ASSUME NEW s \in Session, Accept(s)
      PROVE  RemovedInv'
  BY <1>1 DEF Accept, threadVars, clientVars, TypeOK, ThreadInv, Thread,
     NameOrNone, FlowPC, LogoutPC, AcceptedInv, OverlapInv, Spent, BusyOn,
     RemovedInv
<1>2. ASSUME NEW s \in Session, Remove(s)
      PROVE  RemovedInv'
  BY <1>2 DEF Remove, clientVars, BusyOn, TypeOK, ThreadInv, Thread,
     NameOrNone, FlowPC, LogoutPC, AcceptedInv, OverlapInv, Spent,
     RemovedInv
<1>3. ASSUME NEW s \in Session, NEW f \in Request, Dispatch(s, f)
      PROVE  RemovedInv'
  BY <1>3 DEF Dispatch, threadVars, TypeOK, ThreadInv, Thread, NameOrNone,
     FlowPC, LogoutPC, AcceptedInv, OverlapInv, Spent, BusyOn, RemovedInv
<1>4. ASSUME NEW w \in Worker, Take(w)
      PROVE  RemovedInv'
  <2>1. Head(tasks) \in Task
    BY <1>4, HeadTailProperties DEF Take, TypeOK
  <2>2. /\ \A t \in Thread \ {w} : /\ pc'[t] = pc[t] /\ sess'[t] = sess[t]
                                   /\ who'[t] = who[t]
        /\ \/ pc'[w] = "idle"
           \/ pc'[w] = "route" /\ conn[sess'[w]] # "removed"
    BY <1>4, <2>1 DEF Take, threadVars, TypeOK, Thread, Task
  <2>3. UNCHANGED <<conn, username, raced>>
    BY <1>4 DEF Take
  <2>4. \A s \in Session :
            conn[s] = "removed" /\ BusyOn(s) = {} => BusyOn(s)' = {}
    BY <2>2, <2>3 DEF BusyOn, Thread
  <2> QED
    BY <2>2, <2>3, <2>4 DEF RemovedInv, Spent, Thread
<1>5. ASSUME NEW w \in Worker, Route(w)
      PROVE  RemovedInv'
  <2>1. /\ \A t \in Thread \ {w} : /\ pc'[t] = pc[t] /\ sess'[t] = sess[t]
                                   /\ who'[t] = who[t]
        /\ pc[w] = "route"
        /\ \/ pc'[w] = "idle"
           \/ pc'[w] \in {"logout", "reserve"} /\ sess'[w] = sess[w]
    BY <1>5 DEF Route, Goto, Return, TypeOK, Thread
  <2>2. UNCHANGED <<conn, username, raced>>
    BY <1>5 DEF Route
  <2>3. \A s \in Session : BusyOn(s) = {} => BusyOn(s)' = {}
    BY <2>1 DEF BusyOn, Thread
  <2> QED
    BY <2>1, <2>2, <2>3 DEF RemovedInv, Spent, Thread
<1>6. ASSUME NEW w \in Worker, RejectInput(w)
      PROVE  RemovedInv'
  BY <1>6 DEF RejectInput, Return, Reply, TypeOK, ThreadInv, Thread,
     NameOrNone, FlowPC, LogoutPC, AcceptedInv, OverlapInv, Spent, BusyOn,
     RemovedInv
<1>7. ASSUME NEW w \in Worker, Reserve(w)
      PROVE  RemovedInv'
  <2>1. \A t \in Thread \ {w} : /\ pc'[t] = pc[t] /\ sess'[t] = sess[t]
                                /\ who'[t] = who[t]
    BY <1>7 DEF Reserve, Goto, Return, TypeOK, Thread
  <2>2. /\ pc[w] = "reserve"
        /\ \/ pc'[w] = "idle"
           \/ pc'[w] = "pending" /\ sess'[w] = sess[w]
    BY <1>7, Zenon DEF Reserve, Goto, Return, TypeOK, Thread
  <2>3. UNCHANGED <<conn, username>> /\ raced \subseteq raced'
    BY <1>7, Zenon DEF Reserve
  <2>4. \A s \in Session : BusyOn(s) = {} => BusyOn(s)' = {}
    BY <2>1, <2>2 DEF BusyOn, Thread
  <2> QED
    BY <2>1, <2>2, <2>3, <2>4 DEF RemovedInv, Spent, Thread
<1>8. ASSUME NEW w \in Worker, SetPending(w)
      PROVE  RemovedInv'
  BY <1>8 DEF SetPending, clientVars, Goto, TypeOK, ThreadInv, Thread,
     NameOrNone, FlowPC, LogoutPC, AcceptedInv, OverlapInv, Spent, BusyOn,
     RemovedInv
<1>9. ASSUME NEW w \in Worker, Verify(w)
      PROVE  RemovedInv'
  BY <1>9 DEF Verify, clientVars, Goto, TypeOK, ThreadInv, Thread,
     NameOrNone, FlowPC, LogoutPC, AcceptedInv, OverlapInv, Spent, BusyOn,
     RemovedInv
<1>10. ASSUME NEW w \in Worker, RegisterUser(w)
      PROVE  RemovedInv'
  BY <1>10 DEF RegisterUser, clientVars, Goto, TypeOK, ThreadInv, Thread,
     NameOrNone, FlowPC, LogoutPC, AcceptedInv, OverlapInv, Spent, BusyOn,
     RemovedInv
<1>11. ASSUME NEW w \in Worker, HashThrows(w)
      PROVE  RemovedInv'
  BY <1>11 DEF HashThrows, clientVars, Return, TypeOK, ThreadInv, Thread,
     NameOrNone, FlowPC, LogoutPC, AcceptedInv, OverlapInv, Spent, BusyOn,
     RemovedInv
<1>12. ASSUME NEW w \in Worker, FailRelease(w)
      PROVE  RemovedInv'
  BY <1>12 DEF FailRelease, clientVars, Goto, TypeOK, ThreadInv, Thread,
     NameOrNone, FlowPC, LogoutPC, AcceptedInv, OverlapInv, Spent, BusyOn,
     RemovedInv
<1>13. ASSUME NEW w \in Worker, FailClear(w)
      PROVE  RemovedInv'
  BY <1>13 DEF FailClear, Return, Reply, TypeOK, ThreadInv, Thread,
     NameOrNone, FlowPC, LogoutPC, AcceptedInv, OverlapInv, Spent, BusyOn,
     RemovedInv
<1>14. ASSUME NEW w \in Worker, SetUsername(w)
      PROVE  RemovedInv'
  BY <1>14 DEF SetUsername, clientVars, Goto, TypeOK, ThreadInv, Thread,
     NameOrNone, FlowPC, LogoutPC, AcceptedInv, OverlapInv, Spent, BusyOn,
     RemovedInv
<1>15. ASSUME NEW w \in Worker, GoOnline(w)
      PROVE  RemovedInv'
  BY <1>15 DEF GoOnline, Goto, Reply, TypeOK, ThreadInv, Thread, NameOrNone,
     FlowPC, LogoutPC, AcceptedInv, OverlapInv, Spent, BusyOn, RemovedInv
<1>16. ASSUME NEW w \in Worker, ClearPending(w)
      PROVE  RemovedInv'
  BY <1>16 DEF ClearPending, clientVars, Goto, TypeOK, ThreadInv, Thread,
     NameOrNone, FlowPC, LogoutPC, AcceptedInv, OverlapInv, Spent, BusyOn,
     RemovedInv
<1>17. ASSUME NEW w \in Worker, Release(w)
      PROVE  RemovedInv'
  BY <1>17 DEF Release, clientVars, Return, TypeOK, ThreadInv, Thread,
     NameOrNone, FlowPC, LogoutPC, AcceptedInv, OverlapInv, Spent, BusyOn,
     RemovedInv
<1>18. ASSUME NEW t \in Thread, LogoutCheck(t)
      PROVE  RemovedInv'
  <2>1. /\ \A r \in Thread \ {t} : /\ pc'[r] = pc[r] /\ sess'[r] = sess[r]
                                   /\ who'[r] = who[r]
        /\ pc[t] = "logout"
        /\ \/ pc'[t] = "idle" /\ username[sess[t]] = NoUser
           \/ pc'[t] = "name" /\ sess'[t] = sess[t]
    BY <1>18 DEF LogoutCheck, Goto, Return, TypeOK, Thread
  <2>2. UNCHANGED <<conn, username, raced>>
    BY <1>18 DEF LogoutCheck
  <2>3. \A s \in Session : BusyOn(s) = {} => BusyOn(s)' = {}
    BY <2>1 DEF BusyOn, Thread
  <2> QED
    BY <2>1, <2>2, <2>3 DEF RemovedInv, Spent, Thread
<1>19. ASSUME NEW t \in Thread, LogoutName(t)
      PROVE  RemovedInv'
  BY <1>19 DEF LogoutName, clientVars, TypeOK, ThreadInv, Thread,
     NameOrNone, FlowPC, LogoutPC, AcceptedInv, OverlapInv, Spent, BusyOn,
     RemovedInv
<1>20. ASSUME NEW t \in Thread, LogoutOffline(t)
      PROVE  RemovedInv'
  BY <1>20 DEF LogoutOffline, clientVars, Goto, TypeOK, ThreadInv, Thread,
     NameOrNone, FlowPC, LogoutPC, AcceptedInv, OverlapInv, Spent, BusyOn,
     RemovedInv
<1>21. ASSUME NEW t \in Thread, LogoutClear(t)
      PROVE  RemovedInv'
  BY <1>21 DEF LogoutClear, clientVars, Return, TypeOK, ThreadInv, Thread,
     NameOrNone, FlowPC, LogoutPC, AcceptedInv, OverlapInv, Spent, BusyOn,
     RemovedInv
<1>22. CASE CleanupRead
  BY <1>22 DEF CleanupRead, clientVars, TypeOK, ThreadInv, Thread,
     NameOrNone, FlowPC, LogoutPC, AcceptedInv, OverlapInv, Spent, BusyOn,
     RemovedInv
<1>23. CASE CleanupRelease
  BY <1>23 DEF CleanupRelease, clientVars, Goto, TypeOK, ThreadInv, Thread,
     NameOrNone, FlowPC, LogoutPC, AcceptedInv, OverlapInv, Spent, BusyOn,
     RemovedInv
<1>24. CASE CleanupClear
  BY <1>24 DEF CleanupClear, clientVars, Goto, TypeOK, ThreadInv, Thread,
     NameOrNone, FlowPC, LogoutPC, AcceptedInv, OverlapInv, Spent, BusyOn,
     RemovedInv
<1>25. CASE UNCHANGED vars
  BY <1>25 DEF vars, TypeOK, ThreadInv, Thread, NameOrNone, FlowPC,
     LogoutPC, AcceptedInv, OverlapInv, Spent, BusyOn, RemovedInv
<1> QED
  BY <1>1, <1>2, <1>3, <1>4, <1>5, <1>6, <1>7, <1>8, <1>9, <1>10, <1>11,
     <1>12, <1>13, <1>14, <1>15, <1>16, <1>17, <1>18, <1>19, <1>20, <1>21,
     <1>22, <1>23, <1>24, <1>25
  DEF Next, WorkerStep, MainStep, Logout, Thread

LEMMA HandlerStep ==
    ASSUME TypeOK, ThreadInv, AcceptedInv, OverlapInv, PatientInv, HandlerInv, [Next]_vars
    PROVE  HandlerInv'
<1> USE ConstantsAssumption DEF ConstantsAssumption
<1>1. ASSUME NEW s \in Session, Accept(s)
      PROVE  HandlerInv'
  BY <1>1 DEF Accept, threadVars, clientVars, TypeOK, ThreadInv, Thread,
     NameOrNone, FlowPC, LogoutPC, AcceptedInv, OverlapInv, Early,
     PatientInv, HandlerInv
<1>2. ASSUME NEW s \in Session, Remove(s)
      PROVE  HandlerInv'
  BY <1>2 DEF Remove, clientVars, BusyOn, TypeOK, ThreadInv, Thread,
     NameOrNone, FlowPC, LogoutPC, AcceptedInv, OverlapInv, Early,
     PatientInv, HandlerInv
<1>3. ASSUME NEW s \in Session, NEW f \in Request, Dispatch(s, f)
      PROVE  HandlerInv'
  BY <1>3 DEF Dispatch, threadVars, TypeOK, ThreadInv, Thread, NameOrNone,
     FlowPC, LogoutPC, AcceptedInv, OverlapInv, Early, PatientInv,
     HandlerInv
<1>4. ASSUME NEW w \in Worker, Take(w)
      PROVE  HandlerInv'
  BY <1>4 DEF Take, threadVars, clientVars, TypeOK, ThreadInv, Thread,
     NameOrNone, FlowPC, LogoutPC, AcceptedInv, OverlapInv, Early,
     PatientInv, HandlerInv
<1>5. ASSUME NEW w \in Worker, Route(w)
      PROVE  HandlerInv'
  BY <1>5 DEF Route, Goto, Return, Reply, TypeOK, ThreadInv, Thread,
     NameOrNone, FlowPC, LogoutPC, AcceptedInv, OverlapInv, Early,
     PatientInv, HandlerInv
<1>6. ASSUME NEW w \in Worker, RejectInput(w)
      PROVE  HandlerInv'
  BY <1>6 DEF RejectInput, Return, Reply, TypeOK, ThreadInv, Thread,
     NameOrNone, FlowPC, LogoutPC, AcceptedInv, OverlapInv, Early,
     PatientInv, HandlerInv
<1>7. ASSUME NEW w \in Worker, Reserve(w)
      PROVE  HandlerInv'
  <2>1. \A v \in Worker \ {w} : /\ pc'[v] = pc[v] /\ sess'[v] = sess[v]
                                /\ who'[v] = who[v]
    BY <1>7 DEF Reserve, Goto, Return, TypeOK, Thread
  <2>2. /\ pc[w] = "reserve"
        /\ \/ pc'[w] = "idle"
           \/ pc'[w] = "pending" /\ sess'[w] = sess[w]
    BY <1>7, Zenon DEF Reserve, Goto, Return, TypeOK, Thread
  <2>3. UNCHANGED <<conn, username>>
    BY <1>7, Zenon DEF Reserve
  <2> QED
    BY <2>1, <2>2, <2>3 DEF HandlerInv
<1>8. ASSUME NEW w \in Worker, SetPending(w)
      PROVE  HandlerInv'
  BY <1>8 DEF SetPending, clientVars, Goto, TypeOK, ThreadInv, Thread,
     NameOrNone, FlowPC, LogoutPC, AcceptedInv, OverlapInv, Early,
     PatientInv, HandlerInv
<1>9. ASSUME NEW w \in Worker, Verify(w)
      PROVE  HandlerInv'
  BY <1>9 DEF Verify, clientVars, Goto, TypeOK, ThreadInv, Thread,
     NameOrNone, FlowPC, LogoutPC, AcceptedInv, OverlapInv, Early,
     PatientInv, HandlerInv
<1>10. ASSUME NEW w \in Worker, RegisterUser(w)
      PROVE  HandlerInv'
  BY <1>10 DEF RegisterUser, clientVars, Goto, TypeOK, ThreadInv, Thread,
     NameOrNone, FlowPC, LogoutPC, AcceptedInv, OverlapInv, Early,
     PatientInv, HandlerInv
<1>11. ASSUME NEW w \in Worker, HashThrows(w)
      PROVE  HandlerInv'
  BY <1>11 DEF HashThrows, clientVars, Return, TypeOK, ThreadInv, Thread,
     NameOrNone, FlowPC, LogoutPC, AcceptedInv, OverlapInv, Early,
     PatientInv, HandlerInv
<1>12. ASSUME NEW w \in Worker, FailRelease(w)
      PROVE  HandlerInv'
  BY <1>12 DEF FailRelease, clientVars, Goto, TypeOK, ThreadInv, Thread,
     NameOrNone, FlowPC, LogoutPC, AcceptedInv, OverlapInv, Early,
     PatientInv, HandlerInv
<1>13. ASSUME NEW w \in Worker, FailClear(w)
      PROVE  HandlerInv'
  BY <1>13 DEF FailClear, Return, Reply, TypeOK, ThreadInv, Thread,
     NameOrNone, FlowPC, LogoutPC, AcceptedInv, OverlapInv, Early,
     PatientInv, HandlerInv
<1>14. ASSUME NEW w \in Worker, SetUsername(w)
      PROVE  HandlerInv'
  <2>1. /\ \A v \in Worker \ {w} : pc'[v] = pc[v]
        /\ pc[w] = "enter" /\ pc'[w] = "online"
        /\ sess' = sess /\ who' = who /\ conn' = conn
    BY <1>14 DEF SetUsername, Goto, TypeOK, Thread
  <2>2. /\ sess[w] \in Session
        /\ username'[sess[w]] = who[w]
        /\ \A s \in Session \ {sess[w]} : username'[s] = username[s]
    BY <1>14 DEF SetUsername, TypeOK, ThreadInv, Thread
  <2>3. \A v \in Worker \ {w} :
            pc[v] \notin {"idle", "clear", "release"} => sess[v] # sess[w]
    BY <2>1 DEF PatientInv, Early
  <2>4. \A v \in Worker : pc[v] # "idle" => sess[v] \in Session
    BY DEF ThreadInv, Thread
  <2> QED
    BY <2>1, <2>2, <2>3, <2>4 DEF HandlerInv
<1>15. ASSUME NEW w \in Worker, GoOnline(w)
      PROVE  HandlerInv'
  BY <1>15 DEF GoOnline, Goto, Reply, TypeOK, ThreadInv, Thread, NameOrNone,
     FlowPC, LogoutPC, AcceptedInv, OverlapInv, Early, PatientInv,
     HandlerInv
<1>16. ASSUME NEW w \in Worker, ClearPending(w)
      PROVE  HandlerInv'
  BY <1>16 DEF ClearPending, clientVars, Goto, TypeOK, ThreadInv, Thread,
     NameOrNone, FlowPC, LogoutPC, AcceptedInv, OverlapInv, Early,
     PatientInv, HandlerInv
<1>17. ASSUME NEW w \in Worker, Release(w)
      PROVE  HandlerInv'
  BY <1>17 DEF Release, clientVars, Return, TypeOK, ThreadInv, Thread,
     NameOrNone, FlowPC, LogoutPC, AcceptedInv, OverlapInv, Early,
     PatientInv, HandlerInv
<1>18. ASSUME NEW t \in Thread, LogoutCheck(t)
      PROVE  HandlerInv'
  <2>1. /\ \A v \in Worker \ {t} : /\ pc'[v] = pc[v] /\ sess'[v] = sess[v]
                                   /\ who'[v] = who[v]
        /\ pc'[t] \in {"idle", "name"}
    BY <1>18 DEF LogoutCheck, Goto, Return, TypeOK, Thread
  <2>2. UNCHANGED <<conn, username>>
    BY <1>18 DEF LogoutCheck
  <2> QED
    BY <2>1, <2>2 DEF HandlerInv
<1>19. ASSUME NEW t \in Thread, LogoutName(t)
      PROVE  HandlerInv'
  BY <1>19 DEF LogoutName, clientVars, TypeOK, ThreadInv, Thread,
     NameOrNone, FlowPC, LogoutPC, AcceptedInv, OverlapInv, Early,
     PatientInv, HandlerInv
<1>20. ASSUME NEW t \in Thread, LogoutOffline(t)
      PROVE  HandlerInv'
  BY <1>20 DEF LogoutOffline, clientVars, Goto, TypeOK, ThreadInv, Thread,
     NameOrNone, FlowPC, LogoutPC, AcceptedInv, OverlapInv, Early,
     PatientInv, HandlerInv
<1>21. ASSUME NEW t \in Thread, LogoutClear(t)
      PROVE  HandlerInv'
  <2>1. /\ \A v \in Worker \ {t} : /\ pc'[v] = pc[v] /\ sess'[v] = sess[v]
                                   /\ who'[v] = who[v]
        /\ pc[t] = "clearname" /\ pc'[t] = "idle" /\ conn' = conn
    BY <1>21 DEF LogoutClear, Return, TypeOK, Thread
  <2>2. /\ sess[t] \in Session
        /\ username'[sess[t]] = NoUser
        /\ \A s \in Session \ {sess[t]} : username'[s] = username[s]
    BY <1>21 DEF LogoutClear, TypeOK, ThreadInv
  <2>3. \A v \in Worker \ {t} :
            /\ pc[v] \notin {"idle", "clear", "release"}
            /\ conn[sess[v]] = "live"
            => sess[v] # sess[t]
    <3>1. CASE t \in Worker
      BY <2>1, <3>1 DEF PatientInv, Early
    <3>2. CASE t = Main
      BY <2>1, <3>2 DEF OverlapInv
    <3> QED
      BY <3>1, <3>2 DEF Thread
  <2>4. \A v \in Worker : pc[v] # "idle" => sess[v] \in Session
    BY DEF ThreadInv, Thread
  <2> QED
    BY <2>1, <2>2, <2>3, <2>4 DEF HandlerInv
<1>22. CASE CleanupRead
  BY <1>22 DEF CleanupRead, clientVars, TypeOK, ThreadInv, Thread,
     NameOrNone, FlowPC, LogoutPC, AcceptedInv, OverlapInv, Early,
     PatientInv, HandlerInv
<1>23. CASE CleanupRelease
  BY <1>23 DEF CleanupRelease, clientVars, Goto, TypeOK, ThreadInv, Thread,
     NameOrNone, FlowPC, LogoutPC, AcceptedInv, OverlapInv, Early,
     PatientInv, HandlerInv
<1>24. CASE CleanupClear
  BY <1>24 DEF CleanupClear, clientVars, Goto, TypeOK, ThreadInv, Thread,
     NameOrNone, FlowPC, LogoutPC, AcceptedInv, OverlapInv, Early,
     PatientInv, HandlerInv
<1>25. CASE UNCHANGED vars
  BY <1>25 DEF vars, TypeOK, ThreadInv, Thread, NameOrNone, FlowPC,
     LogoutPC, AcceptedInv, OverlapInv, Early, PatientInv, HandlerInv
<1> QED
  BY <1>1, <1>2, <1>3, <1>4, <1>5, <1>6, <1>7, <1>8, <1>9, <1>10, <1>11,
     <1>12, <1>13, <1>14, <1>15, <1>16, <1>17, <1>18, <1>19, <1>20, <1>21,
     <1>22, <1>23, <1>24, <1>25
  DEF Next, WorkerStep, MainStep, Logout, Thread

LEMMA CarrierStep ==
    ASSUME TypeOK, ThreadInv, AccountsInv, AcceptedInv, OverlapInv, ReservationInv,
           RemovedInv, CarrierInv, [Next]_vars
    PROVE  CarrierInv'
<1> USE ConstantsAssumption DEF ConstantsAssumption
<1>1. ASSUME NEW s \in Session, Accept(s)
      PROVE  CarrierInv'
  BY <1>1 DEF Accept, threadVars, clientVars, TypeOK, ThreadInv, Thread,
     NameOrNone, FlowPC, LogoutPC, Holds, Entering, CarrierInv
<1>2. ASSUME NEW s \in Session, Remove(s)
      PROVE  CarrierInv'
  BY <1>2 DEF Remove, clientVars, BusyOn, TypeOK, ThreadInv, Thread,
     NameOrNone, FlowPC, LogoutPC, Holds, Entering, CarrierInv
<1>3. ASSUME NEW s \in Session, NEW f \in Request, Dispatch(s, f)
      PROVE  CarrierInv'
  BY <1>3 DEF Dispatch, threadVars, TypeOK, ThreadInv, Thread, NameOrNone,
     FlowPC, LogoutPC, Holds, Entering, CarrierInv
<1>4. ASSUME NEW w \in Worker, Take(w)
      PROVE  CarrierInv'
  BY <1>4 DEF Take, threadVars, clientVars, TypeOK, ThreadInv, Thread,
     NameOrNone, FlowPC, LogoutPC, Holds, Entering, CarrierInv
<1>5. ASSUME NEW w \in Worker, Route(w)
      PROVE  CarrierInv'
  <2>1. \A v \in Worker :
            \/ pc'[v] = pc[v] /\ who'[v] = who[v] /\ kind'[v] = kind[v]
            \/ pc'[v] \notin FlowPC
    BY <1>5 DEF Route, Goto, Return, TypeOK, ThreadInv, Thread, FlowPC
  <2>2. UNCHANGED <<username, raced>>
    BY <1>5 DEF Route
  <2> QED
    BY <2>1, <2>2 DEF CarrierInv, Entering, Holds
<1>6. ASSUME NEW w \in Worker, RejectInput(w)
      PROVE  CarrierInv'
  BY <1>6 DEF RejectInput, Return, Reply, TypeOK, ThreadInv, Thread,
     NameOrNone, FlowPC, LogoutPC, Holds, Entering, CarrierInv
<1>7. ASSUME NEW w \in Worker, Reserve(w)
      PROVE  CarrierInv'
  <2>1. \A v \in Worker \ {w} :
            pc'[v] = pc[v] /\ who'[v] = who[v] /\ kind'[v] = kind[v]
    BY <1>7 DEF Reserve, Goto, Return, TypeOK, Thread
  <2>2. UNCHANGED <<conn, username>> /\ raced \subseteq raced'
    BY <1>7, Zenon DEF Reserve
  <2>3. CASE Refused(w)
    <3>1. pc'[w] = "idle"
      BY <1>7, <2>3 DEF Reserve, ValidName, Return, TypeOK, Thread
    <3> QED
      BY <2>1, <2>2, <3>1 DEF CarrierInv, Entering, Holds, FlowPC
  <2>4. CASE ~Refused(w)
    <3>1. /\ Goto(w, "pending")
          /\ raced' = IF pc[Main] # "idle" /\ username[sess[Main]] = who[w]
                      THEN raced \cup {who[w]}
                      ELSE raced
      BY <1>7, <2>4, Zenon DEF Reserve
    <3>2. pc'[w] = "pending" /\ who'[w] = who[w] /\ kind'[w] = kind[w]
      BY <3>1 DEF Goto, TypeOK, Thread
    <3>3. kind[w] = "LOGIN" /\ who[w] \in User \ raced'
              => \A s \in Session : username[s] # who[w]
      <4> SUFFICES ASSUME kind[w] = "LOGIN", who[w] \in User \ raced',
                          NEW s \in Session, username[s] = who[w]
                   PROVE  FALSE
        OBVIOUS
      <4>1. conn[s] # "live"
        BY <2>4 DEF Refused, LiveSessionsOf
      <4>2. conn[s] = "removed"
        BY <4>1 DEF AcceptedInv, TypeOK
      <4>3. who[w] \notin raced
        BY <2>2
      <4>4. pc[Main] # "idle" /\ sess[Main] = s
        BY <4>2, <4>3 DEF RemovedInv, Spent
      <4>5. who[w] \in raced'
        BY <3>1, <4>4
      <4> QED
        BY <4>5
    <3>4. \A u \in User : Entering(w, u)' => u = who[w] /\ kind[w] = "LOGIN"
      BY <3>2 DEF Entering, Holds
    <3>5. \A v \in Worker \ {w}, u \in User :
              Entering(v, u)' => Entering(v, u)
      BY <2>1 DEF Entering, Holds
    <3> QED
      BY <2>2, <3>3, <3>4, <3>5 DEF CarrierInv
  <2> QED
    BY <2>3, <2>4
<1>8. ASSUME NEW w \in Worker, SetPending(w)
      PROVE  CarrierInv'
  BY <1>8 DEF SetPending, clientVars, Goto, TypeOK, ThreadInv, Thread,
     NameOrNone, FlowPC, LogoutPC, Holds, Entering, CarrierInv
<1>9. ASSUME NEW w \in Worker, Verify(w)
      PROVE  CarrierInv'
  <2>1. \A v \in Worker :
            /\ who'[v] = who[v] /\ kind'[v] = kind[v]
            /\ \/ pc'[v] = pc[v]
               \/ /\ pc[v] = "verify" /\ pc'[v] \in {"fail", "enter"}
                  /\ kind[v] = "LOGIN"
    BY <1>9 DEF Verify, Goto, TypeOK, Thread
  <2>2. UNCHANGED <<username, raced>>
    BY <1>9 DEF Verify
  <2>3. \A v \in Worker, u \in User : Entering(v, u)' => Entering(v, u)
    BY <2>1 DEF Entering, Holds, FlowPC
  <2> QED
    BY <2>2, <2>3 DEF CarrierInv
<1>10. ASSUME NEW w \in Worker, RegisterUser(w)
      PROVE  CarrierInv'
  <2>1. pc[w] = "verify" /\ who[w] \in User
    BY <1>10 DEF RegisterUser, ThreadInv, FlowPC
  <2>2. \A v \in Worker \ {w} :
            pc'[v] = pc[v] /\ who'[v] = who[v] /\ kind'[v] = kind[v]
    BY <1>10 DEF RegisterUser, Goto, TypeOK, Thread
  <2>3. /\ who'[w] = who[w]
        /\ \/ pc'[w] = "fail"
           \/ pc'[w] = "enter" /\ who[w] \notin accounts
    BY <1>10 DEF RegisterUser, Goto, TypeOK, Thread
  <2>4. UNCHANGED <<username, raced>>
    BY <1>10 DEF RegisterUser
  <2>5. who[w] \notin accounts => \A s \in Session : username[s] # who[w]
    BY <2>1 DEF AccountsInv
  <2>6. \A v \in Worker, u \in User :
            \/ ~Entering(v, u)'
            \/ Entering(v, u)
            \/ \A s \in Session : username[s] # u
    BY <2>1, <2>2, <2>3, <2>5 DEF Entering, Holds
  <2> QED
    BY <2>4, <2>6 DEF CarrierInv
<1>11. ASSUME NEW w \in Worker, HashThrows(w)
      PROVE  CarrierInv'
  BY <1>11 DEF HashThrows, clientVars, Return, TypeOK, ThreadInv, Thread,
     NameOrNone, FlowPC, LogoutPC, Holds, Entering, CarrierInv
<1>12. ASSUME NEW w \in Worker, FailRelease(w)
      PROVE  CarrierInv'
  BY <1>12 DEF FailRelease, clientVars, Goto, TypeOK, ThreadInv, Thread,
     NameOrNone, FlowPC, LogoutPC, Holds, Entering, CarrierInv
<1>13. ASSUME NEW w \in Worker, FailClear(w)
      PROVE  CarrierInv'
  BY <1>13 DEF FailClear, Return, Reply, TypeOK, ThreadInv, Thread,
     NameOrNone, FlowPC, LogoutPC, Holds, Entering, CarrierInv
<1>14. ASSUME NEW w \in Worker, SetUsername(w)
      PROVE  CarrierInv'
  <2>1. /\ \A v \in Worker \ {w} : pc'[v] = pc[v]
        /\ pc[w] = "enter" /\ pc'[w] = "online"
        /\ who' = who /\ kind' = kind /\ raced' = raced
    BY <1>14 DEF SetUsername, Goto, TypeOK, Thread
  <2>2. /\ sess[w] \in Session /\ who[w] \in User
        /\ username'[sess[w]] = who[w]
        /\ \A s \in Session \ {sess[w]} : username'[s] = username[s]
    BY <1>14 DEF SetUsername, TypeOK, ThreadInv, Thread, FlowPC
  <2>3. Entering(w, who[w]) /\ Holds(w, who[w])
    BY <2>1 DEF Entering, Holds, FlowPC
  <2>4. \A v \in Worker, u \in User :
            Entering(v, u)' => v # w /\ Entering(v, u) /\ Holds(v, u)
    BY <2>1 DEF Entering, Holds
  <2>5. who[w] \notin raced =>
            /\ \A s \in Session : username[s] # who[w]
            /\ \A v \in Worker \ {w} : ~Holds(v, who[w])
    BY <2>2, <2>3 DEF CarrierInv, ReservationInv
  <2> SUFFICES ASSUME NEW u \in User \ raced
               PROVE  /\ \A s1, s2 \in Session :
                             username'[s1] = u /\ username'[s2] = u => s1 = s2
                      /\ \A v \in Worker : Entering(v, u)' =>
                             \A s \in Session : username'[s] # u
    BY <2>1 DEF CarrierInv
  <2>6. CASE u = who[w]
    BY <2>2, <2>4, <2>5, <2>6
  <2>7. CASE u # who[w]
    BY <2>2, <2>4, <2>7 DEF CarrierInv
  <2> QED
    BY <2>6, <2>7
<1>15. ASSUME NEW w \in Worker, GoOnline(w)
      PROVE  CarrierInv'
  BY <1>15 DEF GoOnline, Goto, Reply, TypeOK, ThreadInv, Thread, NameOrNone,
     FlowPC, LogoutPC, Holds, Entering, CarrierInv
<1>16. ASSUME NEW w \in Worker, ClearPending(w)
      PROVE  CarrierInv'
  BY <1>16 DEF ClearPending, clientVars, Goto, TypeOK, ThreadInv, Thread,
     NameOrNone, FlowPC, LogoutPC, Holds, Entering, CarrierInv
<1>17. ASSUME NEW w \in Worker, Release(w)
      PROVE  CarrierInv'
  BY <1>17 DEF Release, clientVars, Return, TypeOK, ThreadInv, Thread,
     NameOrNone, FlowPC, LogoutPC, Holds, Entering, CarrierInv
<1>18. ASSUME NEW t \in Thread, LogoutCheck(t)
      PROVE  CarrierInv'
  BY <1>18 DEF LogoutCheck, clientVars, Goto, Return, TypeOK, ThreadInv,
     Thread, NameOrNone, FlowPC, LogoutPC, Holds, Entering, CarrierInv
<1>19. ASSUME NEW t \in Thread, LogoutName(t)
      PROVE  CarrierInv'
  BY <1>19 DEF LogoutName, clientVars, TypeOK, ThreadInv, Thread,
     NameOrNone, FlowPC, LogoutPC, Holds, Entering, CarrierInv
<1>20. ASSUME NEW t \in Thread, LogoutOffline(t)
      PROVE  CarrierInv'
  BY <1>20 DEF LogoutOffline, clientVars, Goto, TypeOK, ThreadInv, Thread,
     NameOrNone, FlowPC, LogoutPC, Holds, Entering, CarrierInv
<1>21. ASSUME NEW t \in Thread, LogoutClear(t)
      PROVE  CarrierInv'
  BY <1>21 DEF LogoutClear, clientVars, Return, TypeOK, ThreadInv, Thread,
     NameOrNone, FlowPC, LogoutPC, Holds, Entering, CarrierInv
<1>22. CASE CleanupRead
  BY <1>22 DEF CleanupRead, clientVars, TypeOK, ThreadInv, Thread,
     NameOrNone, FlowPC, LogoutPC, Holds, Entering, CarrierInv
<1>23. CASE CleanupRelease
  BY <1>23 DEF CleanupRelease, clientVars, Goto, TypeOK, ThreadInv, Thread,
     NameOrNone, FlowPC, LogoutPC, Holds, Entering, CarrierInv
<1>24. CASE CleanupClear
  BY <1>24 DEF CleanupClear, clientVars, Goto, TypeOK, ThreadInv, Thread,
     NameOrNone, FlowPC, LogoutPC, Holds, Entering, CarrierInv
<1>25. CASE UNCHANGED vars
  BY <1>25 DEF vars, TypeOK, ThreadInv, Thread, NameOrNone, FlowPC,
     LogoutPC, Holds, Entering, CarrierInv
<1> QED
  BY <1>1, <1>2, <1>3, <1>4, <1>5, <1>6, <1>7, <1>8, <1>9, <1>10, <1>11,
     <1>12, <1>13, <1>14, <1>15, <1>16, <1>17, <1>18, <1>19, <1>20, <1>21,
     <1>22, <1>23, <1>24, <1>25
  DEF Next, WorkerStep, MainStep, Logout, Thread

\* A step that puts no name on a session, takes none away and leaves
\* online_users_ alone.
LEMMA OnlineKeep ==
    ASSUME OnlineInv, UNCHANGED <<username, online>>, raced \subseteq raced',
           \A u \in User : LiveSessionsOf(u)' \subseteq LiveSessionsOf(u),
           \A w \in Worker : pc[w] \in {"online", "clearname"} =>
                                 pc'[w] = pc[w] /\ sess'[w] = sess[w],
           \A t \in Thread : pc'[t] = "clearname" =>
                                 pc[t] = "clearname" /\ who'[t] = who[t]
    PROVE  OnlineInv'
<1>1. \A u \in User \ raced' : u \in User \ raced
  OBVIOUS
<1> QED
  BY <1>1 DEF OnlineInv

LEMMA OnlineStep ==
    ASSUME TypeOK, ThreadInv, AcceptedInv, OverlapInv, PatientInv, RemovedInv,
           HandlerInv, CarrierInv, OnlineInv, [Next]_vars
    PROVE  OnlineInv'
<1> USE ConstantsAssumption DEF ConstantsAssumption
<1>1. ASSUME NEW s \in Session, Accept(s)
      PROVE  OnlineInv'
  <2>1. UNCHANGED <<username, online, raced, pc, sess, who>>
    BY <1>1 DEF Accept, threadVars
  <2>2. \A u \in User : LiveSessionsOf(u)' = LiveSessionsOf(u)
    BY <1>1 DEF Accept, AcceptedInv, LiveSessionsOf, TypeOK
  <2> QED
    BY <2>1, <2>2, OnlineKeep
<1>2. ASSUME NEW s \in Session, Remove(s)
      PROVE  OnlineInv'
  BY <1>2 DEF Remove, clientVars, BusyOn, TypeOK, ThreadInv, Thread,
     NameOrNone, FlowPC, LogoutPC, LiveSessionsOf, OnlineInv
<1>3. ASSUME NEW s \in Session, NEW f \in Request, Dispatch(s, f)
      PROVE  OnlineInv'
  BY <1>3 DEF Dispatch, threadVars, TypeOK, ThreadInv, Thread, NameOrNone,
     FlowPC, LogoutPC, LiveSessionsOf, OnlineInv
<1>4. ASSUME NEW w \in Worker, Take(w)
      PROVE  OnlineInv'
  <2>1. /\ UNCHANGED <<conn, username, online>> /\ raced \subseteq raced'
        /\ pc[w] = "idle" /\ pc'[w] \notin {"online", "clearname"}
        /\ \A r \in Thread \ {w} : /\ pc'[r] = pc[r] /\ sess'[r] = sess[r]
                                   /\ who'[r] = who[r]
    BY <1>4 DEF Take, threadVars, TypeOK, Thread
  <2>2. \A u \in User : LiveSessionsOf(u)' = LiveSessionsOf(u)
    BY <2>1 DEF LiveSessionsOf
  <2> QED
    BY <2>1, <2>2, OnlineKeep DEF Thread
<1>5. ASSUME NEW w \in Worker, Route(w)
      PROVE  OnlineInv'
  <2>1. /\ UNCHANGED <<conn, username, online>> /\ raced \subseteq raced'
        /\ pc[w] = "route" /\ pc'[w] \notin {"online", "clearname"}
        /\ \A r \in Thread \ {w} : /\ pc'[r] = pc[r] /\ sess'[r] = sess[r]
                                   /\ who'[r] = who[r]
    BY <1>5 DEF Route, Goto, Return, TypeOK, Thread
  <2>2. \A u \in User : LiveSessionsOf(u)' = LiveSessionsOf(u)
    BY <2>1 DEF LiveSessionsOf
  <2> QED
    BY <2>1, <2>2, OnlineKeep DEF Thread
<1>6. ASSUME NEW w \in Worker, RejectInput(w)
      PROVE  OnlineInv'
  <2>1. /\ UNCHANGED <<conn, username, online>> /\ raced \subseteq raced'
        /\ pc[w] = "reserve" /\ pc'[w] \notin {"online", "clearname"}
        /\ \A r \in Thread \ {w} : /\ pc'[r] = pc[r] /\ sess'[r] = sess[r]
                                   /\ who'[r] = who[r]
    BY <1>6 DEF RejectInput, Return, TypeOK, Thread
  <2>2. \A u \in User : LiveSessionsOf(u)' = LiveSessionsOf(u)
    BY <2>1 DEF LiveSessionsOf
  <2> QED
    BY <2>1, <2>2, OnlineKeep DEF Thread
<1>7. ASSUME NEW w \in Worker, Reserve(w)
      PROVE  OnlineInv'
  <2>1. UNCHANGED <<conn, username, online>> /\ raced \subseteq raced'
    BY <1>7, Zenon DEF Reserve
  <2>2. pc[w] = "reserve" /\ pc'[w] \notin {"online", "clearname"}
    BY <1>7, Zenon DEF Reserve, Goto, Return, TypeOK, Thread
  <2>3. \A r \in Thread \ {w} : /\ pc'[r] = pc[r] /\ sess'[r] = sess[r]
                                /\ who'[r] = who[r]
    BY <1>7 DEF Reserve, Goto, Return, TypeOK, Thread
  <2>4. \A u \in User : LiveSessionsOf(u)' = LiveSessionsOf(u)
    BY <2>1 DEF LiveSessionsOf
  <2> QED
    BY <2>1, <2>2, <2>3, <2>4, OnlineKeep DEF Thread
<1>8. ASSUME NEW w \in Worker, SetPending(w)
      PROVE  OnlineInv'
  BY <1>8 DEF SetPending, clientVars, Goto, TypeOK, ThreadInv, Thread,
     NameOrNone, FlowPC, LogoutPC, LiveSessionsOf, OnlineInv
<1>9. ASSUME NEW w \in Worker, Verify(w)
      PROVE  OnlineInv'
  <2>1. /\ UNCHANGED <<conn, username, online>> /\ raced \subseteq raced'
        /\ pc[w] = "verify" /\ pc'[w] \notin {"online", "clearname"}
        /\ \A r \in Thread \ {w} : /\ pc'[r] = pc[r] /\ sess'[r] = sess[r]
                                   /\ who'[r] = who[r]
    BY <1>9 DEF Verify, Goto, TypeOK, Thread
  <2>2. \A u \in User : LiveSessionsOf(u)' = LiveSessionsOf(u)
    BY <2>1 DEF LiveSessionsOf
  <2> QED
    BY <2>1, <2>2, OnlineKeep DEF Thread
<1>10. ASSUME NEW w \in Worker, RegisterUser(w)
      PROVE  OnlineInv'
  <2>1. /\ UNCHANGED <<conn, username, online>> /\ raced \subseteq raced'
        /\ pc[w] = "verify" /\ pc'[w] \notin {"online", "clearname"}
        /\ \A r \in Thread \ {w} : /\ pc'[r] = pc[r] /\ sess'[r] = sess[r]
                                   /\ who'[r] = who[r]
    BY <1>10 DEF RegisterUser, Goto, TypeOK, Thread
  <2>2. \A u \in User : LiveSessionsOf(u)' = LiveSessionsOf(u)
    BY <2>1 DEF LiveSessionsOf
  <2> QED
    BY <2>1, <2>2, OnlineKeep DEF Thread
<1>11. ASSUME NEW w \in Worker, HashThrows(w)
      PROVE  OnlineInv'
  <2>1. /\ UNCHANGED <<conn, username, online>> /\ raced \subseteq raced'
        /\ pc[w] = "verify" /\ pc'[w] \notin {"online", "clearname"}
        /\ \A r \in Thread \ {w} : /\ pc'[r] = pc[r] /\ sess'[r] = sess[r]
                                   /\ who'[r] = who[r]
    BY <1>11 DEF HashThrows, Return, TypeOK, Thread
  <2>2. \A u \in User : LiveSessionsOf(u)' = LiveSessionsOf(u)
    BY <2>1 DEF LiveSessionsOf
  <2> QED
    BY <2>1, <2>2, OnlineKeep DEF Thread
<1>12. ASSUME NEW w \in Worker, FailRelease(w)
      PROVE  OnlineInv'
  <2>1. /\ UNCHANGED <<conn, username, online>> /\ raced \subseteq raced'
        /\ pc[w] = "fail" /\ pc'[w] \notin {"online", "clearname"}
        /\ \A r \in Thread \ {w} : /\ pc'[r] = pc[r] /\ sess'[r] = sess[r]
                                   /\ who'[r] = who[r]
    BY <1>12 DEF FailRelease, Goto, TypeOK, Thread
  <2>2. \A u \in User : LiveSessionsOf(u)' = LiveSessionsOf(u)
    BY <2>1 DEF LiveSessionsOf
  <2> QED
    BY <2>1, <2>2, OnlineKeep DEF Thread
<1>13. ASSUME NEW w \in Worker, FailClear(w)
      PROVE  OnlineInv'
  <2>1. /\ UNCHANGED <<conn, username, online>> /\ raced \subseteq raced'
        /\ pc[w] = "failclear" /\ pc'[w] \notin {"online", "clearname"}
        /\ \A r \in Thread \ {w} : /\ pc'[r] = pc[r] /\ sess'[r] = sess[r]
                                   /\ who'[r] = who[r]
    BY <1>13 DEF FailClear, Return, TypeOK, Thread
  <2>2. \A u \in User : LiveSessionsOf(u)' = LiveSessionsOf(u)
    BY <2>1 DEF LiveSessionsOf
  <2> QED
    BY <2>1, <2>2, OnlineKeep DEF Thread
<1>14. ASSUME NEW w \in Worker, SetUsername(w)
      PROVE  OnlineInv'
  <2>1. /\ \A v \in Thread \ {w} : pc'[v] = pc[v]
        /\ pc[w] = "enter" /\ pc'[w] = "online"
        /\ UNCHANGED <<sess, who, conn, online, raced>>
    BY <1>14 DEF SetUsername, Goto, TypeOK, Thread
  <2>2. /\ sess[w] \in Session
        /\ username[sess[w]] = NoUser /\ username'[sess[w]] = who[w]
        /\ \A s \in Session \ {sess[w]} : username'[s] = username[s]
    BY <1>14 DEF SetUsername, TypeOK, ThreadInv, Thread, HandlerInv
  <2> SUFFICES ASSUME NEW u \in User \ raced
               PROVE  /\ u \in online => \E s \in Session : username'[s] = u
                      /\ \A s \in LiveSessionsOf(u)' :
                             \/ u \in online
                             \/ \E v \in Worker :
                                    /\ sess'[v] = s
                                    /\ pc'[v] \in {"online", "clearname"}
                      /\ \A t \in Thread : pc'[t] = "clearname" /\ who'[t] = u
                                               => u \notin online
    BY <2>1 DEF OnlineInv
  <2>3. u \in online => \E s \in Session : username'[s] = u
    BY <2>2 DEF OnlineInv
  <2>4. ASSUME NEW s \in LiveSessionsOf(u)', u \notin online
        PROVE  \E v \in Worker : /\ sess'[v] = s
                                 /\ pc'[v] \in {"online", "clearname"}
    <3>1. CASE s = sess[w]
      BY <2>1, <3>1
    <3>2. CASE s # sess[w]
      <4>1. s \in LiveSessionsOf(u)
        BY <2>1, <2>2, <2>4, <3>2 DEF LiveSessionsOf
      <4>2. PICK v \in Worker : sess[v] = s /\ pc[v] \in {"online", "clearname"}
        BY <2>4, <4>1 DEF OnlineInv
      <4> QED
        BY <2>1, <4>2 DEF Thread
    <3> QED
      BY <3>1, <3>2
  <2>5. \A t \in Thread : pc'[t] = "clearname" /\ who'[t] = u => u \notin online
    BY <2>1 DEF OnlineInv
  <2> QED
    BY <2>3, <2>4, <2>5
<1>15. ASSUME NEW w \in Worker, GoOnline(w)
      PROVE  OnlineInv'
  <2>1. /\ \A v \in Thread \ {w} : pc'[v] = pc[v]
        /\ pc[w] = "online" /\ pc'[w] = "clear"
        /\ online' = online \cup {who[w]}
        /\ UNCHANGED <<sess, who, conn, username, raced>>
    BY <1>15 DEF GoOnline, Goto, TypeOK, Thread
  <2>2. sess[w] \in Session
    BY <2>1 DEF ThreadInv, Thread
  <2>3. who[w] \in User \ raced =>
            conn[sess[w]] = "live" /\ username[sess[w]] = who[w]
    <3>1. conn[sess[w]] # "new"
      BY <2>1 DEF AcceptedInv, Thread
    <3>2. who[w] \in User \ raced => conn[sess[w]] # "removed"
      BY <2>1 DEF OverlapInv, FlowPC
    <3> QED
      BY <2>1, <2>2, <3>1, <3>2 DEF HandlerInv, TypeOK
  <2> SUFFICES ASSUME NEW u \in User \ raced
               PROVE  /\ u \in online' => \E s \in Session : username[s] = u
                      /\ \A s \in LiveSessionsOf(u)' :
                             \/ u \in online'
                             \/ \E v \in Worker :
                                    /\ sess'[v] = s
                                    /\ pc'[v] \in {"online", "clearname"}
                      /\ \A t \in Thread : pc'[t] = "clearname" /\ who'[t] = u
                                               => u \notin online'
    BY <2>1 DEF OnlineInv
  <2>4. u \in online' => \E s \in Session : username[s] = u
    BY <2>1, <2>2, <2>3 DEF OnlineInv
  <2>5. ASSUME NEW s \in LiveSessionsOf(u)', u \notin online'
        PROVE  \E v \in Worker : /\ sess'[v] = s
                                 /\ pc'[v] \in {"online", "clearname"}
    <3>1. s \in LiveSessionsOf(u) /\ conn[s] = "live" /\ username[s] = u
      BY <2>1, <2>5 DEF LiveSessionsOf
    <3>2. PICK v \in Worker : sess[v] = s /\ pc[v] \in {"online", "clearname"}
      BY <2>1, <2>5, <3>1 DEF OnlineInv
    <3>3. v # w
      BY <2>1, <2>5, <3>1, <3>2 DEF HandlerInv
    <3> QED
      BY <2>1, <3>2, <3>3 DEF Thread
  <2>6. ASSUME NEW t \in Thread, pc'[t] = "clearname", who'[t] = u
        PROVE  u \notin online'
    <3>1. pc[t] = "clearname" /\ who[t] = u /\ u \notin online /\ t # w
      BY <2>1, <2>6 DEF OnlineInv
    <3>2. ASSUME u = who[w] PROVE FALSE
      <4>1. conn[sess[w]] = "live" /\ username[sess[w]] = u
        BY <2>3, <3>2
      <4>2. CASE t \in Worker
        <5>1. sess[t] \in Session /\ conn[sess[t]] # "new"
          BY <3>1 DEF ThreadInv, AcceptedInv
        <5>2. conn[sess[t]] # "removed"
          BY <3>1, <4>2 DEF RemovedInv, Spent
        <5>3. username[sess[t]] = u
          BY <3>1, <4>2, <5>1, <5>2 DEF HandlerInv, TypeOK
        <5>4. sess[t] = sess[w]
          BY <2>2, <4>1, <5>1, <5>3 DEF CarrierInv
        <5> QED
          BY <2>1, <3>1, <4>2, <5>4 DEF PatientInv, Early
      <4>3. CASE t = Main
        <5>1. sess[t] \in Session /\ conn[sess[t]] = "removed"
          BY <3>1, <4>3 DEF ThreadInv, OverlapInv
        <5>2. username[sess[t]] = u
          BY <3>1, <4>3 DEF RemovedInv, Spent
        <5>3. sess[t] = sess[w]
          BY <2>2, <4>1, <5>1, <5>2 DEF CarrierInv
        <5> QED
          BY <4>1, <5>1, <5>3
      <4> QED
        BY <4>2, <4>3 DEF Thread
    <3> QED
      BY <2>1, <3>1, <3>2
  <2> QED
    BY <2>4, <2>5, <2>6
<1>16. ASSUME NEW w \in Worker, ClearPending(w)
      PROVE  OnlineInv'
  BY <1>16 DEF ClearPending, clientVars, Goto, TypeOK, ThreadInv, Thread,
     NameOrNone, FlowPC, LogoutPC, LiveSessionsOf, OnlineInv
<1>17. ASSUME NEW w \in Worker, Release(w)
      PROVE  OnlineInv'
  <2>1. /\ UNCHANGED <<conn, username, online>> /\ raced \subseteq raced'
        /\ pc[w] = "release" /\ pc'[w] \notin {"online", "clearname"}
        /\ \A r \in Thread \ {w} : /\ pc'[r] = pc[r] /\ sess'[r] = sess[r]
                                   /\ who'[r] = who[r]
    BY <1>17 DEF Release, Return, TypeOK, Thread
  <2>2. \A u \in User : LiveSessionsOf(u)' = LiveSessionsOf(u)
    BY <2>1 DEF LiveSessionsOf
  <2> QED
    BY <2>1, <2>2, OnlineKeep DEF Thread
<1>18. ASSUME NEW t \in Thread, LogoutCheck(t)
      PROVE  OnlineInv'
  <2>1. /\ UNCHANGED <<conn, username, online>> /\ raced \subseteq raced'
        /\ pc[t] = "logout" /\ pc'[t] \notin {"online", "clearname"}
        /\ \A r \in Thread \ {t} : /\ pc'[r] = pc[r] /\ sess'[r] = sess[r]
                                   /\ who'[r] = who[r]
    BY <1>18 DEF LogoutCheck, Goto, Return, TypeOK, Thread
  <2>2. \A u \in User : LiveSessionsOf(u)' = LiveSessionsOf(u)
    BY <2>1 DEF LiveSessionsOf
  <2> QED
    BY <2>1, <2>2, OnlineKeep DEF Thread
<1>19. ASSUME NEW t \in Thread, LogoutName(t)
      PROVE  OnlineInv'
  BY <1>19 DEF LogoutName, clientVars, TypeOK, ThreadInv, Thread,
     NameOrNone, FlowPC, LogoutPC, LiveSessionsOf, OnlineInv
<1>20. ASSUME NEW t \in Thread, LogoutOffline(t)
      PROVE  OnlineInv'
  <2>1. /\ \A v \in Thread \ {t} : pc'[v] = pc[v]
        /\ pc[t] = "offline" /\ pc'[t] = "clearname"
        /\ online' = online \ {who[t]}
        /\ UNCHANGED <<sess, who, conn, username, raced>>
    BY <1>20 DEF LogoutOffline, Goto, TypeOK, Thread
  <2>2. sess[t] \in Session /\ conn[sess[t]] # "new"
    BY <2>1 DEF ThreadInv, AcceptedInv
  <2> SUFFICES ASSUME NEW u \in User \ raced
               PROVE  /\ u \in online' => \E s \in Session : username[s] = u
                      /\ \A s \in LiveSessionsOf(u)' :
                             \/ u \in online'
                             \/ \E v \in Worker :
                                    /\ sess'[v] = s
                                    /\ pc'[v] \in {"online", "clearname"}
                      /\ \A r \in Thread : pc'[r] = "clearname" /\ who'[r] = u
                                               => u \notin online'
    BY <2>1 DEF OnlineInv
  <2>3. u \in online' => \E s \in Session : username[s] = u
    BY <2>1 DEF OnlineInv
  <2>4. ASSUME NEW s \in LiveSessionsOf(u)', u \notin online'
        PROVE  \E v \in Worker : /\ sess'[v] = s
                                 /\ pc'[v] \in {"online", "clearname"}
    <3>1. /\ s \in LiveSessionsOf(u) /\ s \in Session
          /\ conn[s] = "live" /\ username[s] = u
      BY <2>1, <2>4 DEF LiveSessionsOf
    <3>2. CASE u \in online
      <4>1. who[t] = u
        BY <2>1, <2>4, <3>2
      <4>2. CASE t \in Worker
        <5>1. conn[sess[t]] # "removed"
          BY <2>1, <4>1, <4>2 DEF RemovedInv, Spent
        <5>2. username[sess[t]] = u
          BY <2>1, <2>2, <4>1, <4>2, <5>1 DEF HandlerInv, TypeOK
        <5>3. sess[t] = s
          BY <2>2, <3>1, <5>2 DEF CarrierInv
        <5> QED
          BY <2>1, <4>2, <5>3
      <4>3. CASE t = Main
        <5>1. conn[sess[t]] = "removed"
          BY <2>1, <4>3 DEF OverlapInv
        <5>2. username[sess[t]] = u
          BY <2>1, <4>1, <4>3 DEF RemovedInv, Spent
        <5>3. sess[t] = s
          BY <2>2, <3>1, <5>2 DEF CarrierInv
        <5> QED
          BY <3>1, <5>1, <5>3
      <4> QED
        BY <4>2, <4>3 DEF Thread
    <3>3. CASE u \notin online
      <4>1. PICK v \in Worker : sess[v] = s /\ pc[v] \in {"online", "clearname"}
        BY <3>1, <3>3 DEF OnlineInv
      <4> QED
        BY <2>1, <4>1 DEF Thread
    <3> QED
      BY <3>2, <3>3
  <2>5. \A r \in Thread : pc'[r] = "clearname" /\ who'[r] = u
                              => u \notin online'
    BY <2>1 DEF OnlineInv
  <2> QED
    BY <2>3, <2>4, <2>5
<1>21. ASSUME NEW t \in Thread, LogoutClear(t)
      PROVE  OnlineInv'
  <2>1. /\ \A r \in Thread \ {t} : /\ pc'[r] = pc[r] /\ sess'[r] = sess[r]
                                   /\ who'[r] = who[r]
        /\ pc[t] = "clearname" /\ pc'[t] = "idle"
        /\ UNCHANGED <<conn, online, raced>>
    BY <1>21 DEF LogoutClear, Return, TypeOK, Thread
  <2>2. /\ sess[t] \in Session /\ conn[sess[t]] # "new"
        /\ username'[sess[t]] = NoUser
        /\ \A s \in Session \ {sess[t]} : username'[s] = username[s]
    BY <1>21 DEF LogoutClear, TypeOK, ThreadInv, AcceptedInv
  <2>3. username[sess[t]] \in User \ raced => username[sess[t]] = who[t]
    <3>1. CASE t \in Worker
      <4>1. t \in BusyOn(sess[t])
        BY <2>1, <3>1 DEF BusyOn
      <4>2. username[sess[t]] \in User \ raced => conn[sess[t]] # "removed"
        BY <2>2, <4>1 DEF RemovedInv, Spent
      <4> QED
        BY <2>1, <2>2, <3>1, <4>2 DEF HandlerInv, TypeOK
    <3>2. CASE t = Main
      BY <2>1, <3>2 DEF RemovedInv, Spent
    <3> QED
      BY <3>1, <3>2 DEF Thread
  <2> SUFFICES ASSUME NEW u \in User \ raced
               PROVE  /\ u \in online => \E s \in Session : username'[s] = u
                      /\ \A s \in LiveSessionsOf(u)' :
                             \/ u \in online
                             \/ \E v \in Worker :
                                    /\ sess'[v] = s
                                    /\ pc'[v] \in {"online", "clearname"}
                      /\ \A r \in Thread : pc'[r] = "clearname" /\ who'[r] = u
                                               => u \notin online
    BY <2>1 DEF OnlineInv
  <2>4. ASSUME u \in online PROVE \E s \in Session : username'[s] = u
    <3>1. PICK s \in Session : username[s] = u
      BY <2>4 DEF OnlineInv
    <3>2. s # sess[t]
      BY <2>1, <2>3, <2>4, <3>1 DEF OnlineInv
    <3> QED
      BY <2>2, <3>1, <3>2
  <2>5. ASSUME NEW s \in LiveSessionsOf(u)', u \notin online
        PROVE  \E v \in Worker : /\ sess'[v] = s
                                 /\ pc'[v] \in {"online", "clearname"}
    <3>1. s # sess[t] /\ s \in LiveSessionsOf(u)
      BY <2>1, <2>2, <2>5 DEF LiveSessionsOf
    <3>2. PICK v \in Worker : sess[v] = s /\ pc[v] \in {"online", "clearname"}
      BY <2>5, <3>1 DEF OnlineInv
    <3> QED
      BY <2>1, <3>1, <3>2 DEF Thread
  <2>6. \A r \in Thread : pc'[r] = "clearname" /\ who'[r] = u => u \notin online
    BY <2>1 DEF OnlineInv
  <2> QED
    BY <2>4, <2>5, <2>6
<1>22. CASE CleanupRead
  BY <1>22 DEF CleanupRead, clientVars, TypeOK, ThreadInv, Thread,
     NameOrNone, FlowPC, LogoutPC, LiveSessionsOf, OnlineInv
<1>23. CASE CleanupRelease
  BY <1>23 DEF CleanupRelease, clientVars, Goto, TypeOK, ThreadInv, Thread,
     NameOrNone, FlowPC, LogoutPC, LiveSessionsOf, OnlineInv
<1>24. CASE CleanupClear
  BY <1>24 DEF CleanupClear, clientVars, Goto, TypeOK, ThreadInv, Thread,
     NameOrNone, FlowPC, LogoutPC, LiveSessionsOf, OnlineInv
<1>25. CASE UNCHANGED vars
  BY <1>25 DEF vars, TypeOK, ThreadInv, Thread, NameOrNone, FlowPC,
     LogoutPC, LiveSessionsOf, OnlineInv
<1> QED
  BY <1>1, <1>2, <1>3, <1>4, <1>5, <1>6, <1>7, <1>8, <1>9, <1>10, <1>11,
     <1>12, <1>13, <1>14, <1>15, <1>16, <1>17, <1>18, <1>19, <1>20, <1>21,
     <1>22, <1>23, <1>24, <1>25
  DEF Next, WorkerStep, MainStep, Logout, Thread

LEMMA PresenceInit == Init => PresenceInv
<1> SUFFICES ASSUME Init PROVE PresenceInv
  OBVIOUS
<1>1. /\ \A t \in Thread : pc[t] = "idle"
      /\ \A s \in Session : conn[s] = "new" /\ username[s] = NoUser
      /\ tasks = <<>> /\ online = {}
  BY DEF Init
<1>2. PatientInv
  BY <1>1 DEF PatientInv, Early, Thread
<1>3. RemovedInv /\ HandlerInv
  BY <1>1 DEF RemovedInv, HandlerInv, Thread
<1>4. CarrierInv
  BY <1>1, ConstantsAssumption DEF CarrierInv
<1>5. OnlineInv
  BY <1>1 DEF OnlineInv, LiveSessionsOf, Thread
<1> QED
  BY <1>2, <1>3, <1>4, <1>5 DEF PresenceInv

LEMMA PresenceStep ==
    ASSUME ~Pipelined, TypeOK, LoginInv, PresenceInv, [Next]_vars
    PROVE  PresenceInv'
<1>1. /\ ThreadInv /\ AccountsInv /\ AcceptedInv /\ OverlapInv
      /\ ReservationInv
  BY DEF LoginInv
<1>2. PatientInv /\ RemovedInv /\ HandlerInv /\ CarrierInv /\ OnlineInv
  BY DEF PresenceInv
<1>3. PatientInv' /\ RemovedInv' /\ HandlerInv'
  BY <1>1, <1>2, PatientStep, RemovedStep, HandlerStep
<1>4. CarrierInv' /\ OnlineInv'
  BY <1>1, <1>2, CarrierStep, OnlineStep
<1> QED
  BY <1>3, <1>4 DEF PresenceInv

LEMMA PresenceFromInv ==
    ASSUME TypeOK, LoginInv, PresenceInv
    PROVE  PresenceExact
<1>1. AcceptedInv /\ RemovedInv /\ OnlineInv
  BY DEF LoginInv, PresenceInv
<1> SUFFICES ASSUME NEW u \in User \ raced, Quiet(u)
             PROVE  u \in online <=> LiveSessionsOf(u) # {}
  BY DEF PresenceExact
<1>2. ASSUME u \in online PROVE LiveSessionsOf(u) # {}
  <2>1. PICK s \in Session : username[s] = u
    BY <1>1, <1>2 DEF OnlineInv
  <2>2. conn[s] # "new"
    BY <1>1, <2>1, ConstantsAssumption DEF AcceptedInv
  <2>3. conn[s] # "removed"
    BY <1>1, <2>1, ConstantsAssumption DEF RemovedInv, Spent, Quiet, Thread
  <2> QED
    BY <2>1, <2>2, <2>3 DEF LiveSessionsOf, TypeOK
<1>3. ASSUME LiveSessionsOf(u) # {} PROVE u \in online
  <2>1. PICK s \in LiveSessionsOf(u) : TRUE
    BY <1>3
  <2>2. \A w \in Worker :
            ~(sess[w] = s /\ pc[w] \in {"online", "clearname"})
    BY <2>1 DEF LiveSessionsOf, Quiet, Thread
  <2> QED
    BY <1>1, <2>1, <2>2 DEF OnlineInv
<1> QED
  BY <1>2, <1>3

\* For clients that wait for the answer to a frame before they send the next:
\* once no thread works on a name that no disconnect overlapped, the name is
\* in online_users_ exactly if a connection carries it.  finish_login puts a
\* name on the session before it goes online, handle_logout takes it offline
\* before clear_username, and no other handler may come between.
THEOREM PresenceExactHolds ==
    ASSUME ~Pipelined
    PROVE  Spec => []PresenceExact
<1>1. Init => PresenceInv
  BY PresenceInit
<1>2. TypeOK /\ LoginInv /\ PresenceInv /\ [Next]_vars => PresenceInv'
  BY PresenceStep
<1>3. TypeOK /\ LoginInv /\ PresenceInv => PresenceExact
  BY PresenceFromInv
<1> QED
  BY <1>1, <1>2, <1>3, TypeCorrect, LoginInvariant, PTL DEF Spec
-----------------------------------------------------------------------------
(* The refinement of NameService, for clients that wait for their answers.  *)

\* A worker goes on, or is done, with no answer sent.
LEMMA RequestKeep ==
    ASSUME RequestInv, NEW w \in Worker, RequestAt(w)',
           UNCHANGED <<tasks, awaiting>>,
           \A v \in Worker \ {w} :
               pc'[v] = pc[v] /\ sess'[v] = sess[v] /\ kind'[v] = kind[v]
    PROVE  RequestInv'
<1>1. \A v \in Worker \ {w} : RequestAt(v)'
  BY DEF RequestInv, RequestAt, Early
<1> QED
  BY <1>1 DEF RequestInv

\* A worker answers its client.
LEMMA RequestReply ==
    ASSUME TypeOK, ThreadInv, PatientInv, RequestInv,
           NEW w \in Worker, Early(w), RequestAt(w)', tasks' = tasks,
           Reply(sess[w]),
           \A v \in Worker \ {w} :
               pc'[v] = pc[v] /\ sess'[v] = sess[v] /\ kind'[v] = kind[v]
    PROVE  RequestInv'
<1>1. \A i \in 1..Len(tasks) : tasks[i] \in Task /\ tasks[i].s # sess[w]
  BY ElementOfSeq DEF PatientInv, TypeOK
<1>2. \A s \in Session \ {sess[w]} : awaiting'[s] = awaiting[s]
  BY DEF Reply, TypeOK
<1>3. \A i \in 1..Len(tasks) :
          awaiting'[tasks[i].s] = Due(tasks[i].frame.type)
  BY <1>1, <1>2 DEF RequestInv, Task
<1>4. \A v \in Worker \ {w} : Early(v) =>
          sess[v] \in Session \ {sess[w]}
  BY DEF PatientInv, ThreadInv, Thread, Early
<1>5. \A v \in Worker \ {w} : RequestAt(v)'
  BY <1>2, <1>4 DEF RequestInv, RequestAt, Early
<1> QED
  BY <1>3, <1>5 DEF RequestInv

LEMMA RequestStep ==
    ASSUME ~Pipelined, TypeOK, ThreadInv, PatientInv, RequestInv, [Next]_vars
    PROVE  RequestInv'
<1> USE ConstantsAssumption DEF ConstantsAssumption
<1>1. ASSUME UNCHANGED <<tasks, awaiting>>,
             \A v \in Worker :
                 pc'[v] = pc[v] /\ sess'[v] = sess[v] /\ kind'[v] = kind[v]
      PROVE  RequestInv'
  BY <1>1 DEF RequestInv, RequestAt, Early
<1>2. ASSUME NEW s \in Session, Accept(s) \/ Remove(s)
      PROVE  RequestInv'
  BY <1>1, <1>2 DEF Accept, Remove, threadVars, clientVars, TypeOK, Thread
<1>3. ASSUME NEW s \in Session, NEW f \in Request, Dispatch(s, f)
      PROVE  RequestInv'
  <2>1. awaiting[s] = "nothing" /\ awaiting' = [awaiting EXCEPT ![s] = Due(f.type)]
    BY <1>3 DEF Dispatch, Due
  <2>2. \A v \in Worker : RequestAt(v)'
    <3>1. \A v \in Worker : Early(v) => sess[v] # s
      BY <2>1 DEF PatientInv
    <3> QED
      BY <1>3, <2>1, <3>1
      DEF Dispatch, threadVars, RequestInv, RequestAt, Early, TypeOK
  <2>3. \A i \in 1..Len(tasks) : tasks[i] \in Task /\ tasks[i].s # s
    BY <2>1, ElementOfSeq DEF PatientInv, TypeOK
  <2>4. /\ tasks' = Append(tasks, [s |-> s, frame |-> f])
        /\ \A i \in 1..Len(tasks') : \/ i = Len(tasks) + 1
                                     \/ i \in 1..Len(tasks)
    BY <1>3, AppendProperties DEF Dispatch, TypeOK
  <2>5. ASSUME NEW i \in 1..Len(tasks')
        PROVE  awaiting'[tasks'[i].s] = Due(tasks'[i].frame.type)
    <3>1. CASE i = Len(tasks) + 1
      BY <2>1, <2>4, <3>1, AppendProperties DEF TypeOK
    <3>2. CASE i \in 1..Len(tasks)
      <4>1. tasks'[i] = tasks[i]
        BY <2>4, <3>2, AppendProperties DEF TypeOK
      <4> QED
        BY <2>1, <2>3, <3>2, <4>1 DEF RequestInv, TypeOK, Task
    <3> QED
      BY <2>4, <3>1, <3>2
  <2> QED
    BY <2>2, <2>5 DEF RequestInv
<1>4. ASSUME NEW w \in Worker, Take(w)
      PROVE  RequestInv'
  <2>1. /\ Head(tasks) = tasks[1] /\ 1 \in 1..Len(tasks)
        /\ \A i \in 1..Len(tasks') :
               i + 1 \in 1..Len(tasks) /\ tasks'[i] = tasks[i + 1]
    BY <1>4, HeadTailProperties DEF Take, TypeOK
  <2>2. /\ \A v \in Worker \ {w} :
               pc'[v] = pc[v] /\ sess'[v] = sess[v] /\ kind'[v] = kind[v]
        /\ awaiting' = awaiting /\ pc[w] = "idle"
        /\ \/ pc'[w] = "idle"
           \/ /\ pc'[w] = "route" /\ sess'[w] = tasks[1].s
              /\ kind'[w] = tasks[1].frame.type
    BY <1>4, <2>1 DEF Take, threadVars, clientVars, TypeOK, Thread
  <2>3. RequestAt(w)'
    BY <2>1, <2>2 DEF RequestInv, RequestAt, Early, FlowPC, LogoutPC
  <2>4. \A v \in Worker \ {w} : RequestAt(v)'
    BY <2>2 DEF RequestInv, RequestAt, Early
  <2>5. \A i \in 1..Len(tasks') :
            awaiting'[tasks'[i].s] = Due(tasks'[i].frame.type)
    BY <2>1, <2>2 DEF RequestInv
  <2> QED
    BY <2>3, <2>4, <2>5 DEF RequestInv
<1>5. ASSUME NEW w \in Worker, Goto(w, "reserve") \/ Goto(w, "logout"),
             Route(w)
      PROVE  RequestInv'
  <2>1. /\ UNCHANGED <<tasks, awaiting, sess, kind>> /\ Early(w)
        /\ \A v \in Worker \ {w} : pc'[v] = pc[v]
        /\ \/ pc'[w] = "reserve" /\ kind[w] # "LOGOUT"
           \/ pc'[w] = "logout" /\ kind[w] = "LOGOUT"
    BY <1>5 DEF Route, Goto, Return, TypeOK, Thread, Early
  <2>2. RequestAt(w)'
    BY <2>1 DEF RequestInv, RequestAt, Early, FlowPC, LogoutPC
  <2> QED
    BY <2>1, <2>2, RequestKeep
\* The early returns, and LOGIN_OK.
<1>6. ASSUME NEW w \in Worker, Early(w), tasks' = tasks, Reply(sess[w]),
             Return(w) \/ (Goto(w, "clear") /\ GoOnline(w))
      PROVE  RequestInv'
  <2>1. /\ \A v \in Worker \ {w} :
               pc'[v] = pc[v] /\ sess'[v] = sess[v] /\ kind'[v] = kind[v]
        /\ \/ pc'[w] = "idle"
           \/ pc[w] = "online" /\ pc'[w] = "clear" /\ kind'[w] = kind[w]
    BY <1>6 DEF Return, Goto, GoOnline, TypeOK, Thread
  <2>2. RequestAt(w)'
    BY <2>1 DEF RequestInv, RequestAt, Early, FlowPC, LogoutPC
  <2> QED
    BY <1>6, <2>1, <2>2, RequestReply
\* A handler is left without an answer.
<1>7. ASSUME NEW t \in Thread, Return(t), UNCHANGED <<tasks, awaiting>>
      PROVE  RequestInv'
  <2>1. /\ \A v \in Worker \ {t} :
               pc'[v] = pc[v] /\ sess'[v] = sess[v] /\ kind'[v] = kind[v]
        /\ pc'[t] = "idle"
    BY <1>7 DEF Return, TypeOK, Thread
  <2>2. CASE t \in Worker
    <3>1. RequestAt(t)'
      BY <2>1 DEF RequestAt, Early, FlowPC, LogoutPC
    <3> QED
      BY <1>7, <2>1, <2>2, <3>1, RequestKeep
  <2>3. CASE t = Main
    BY <1>1, <1>7, <2>1, <2>3
  <2> QED
    BY <2>2, <2>3 DEF Thread
\* A handler goes on within its kind.
<1>8. ASSUME NEW t \in Thread, NEW l \in FlowPC \cup LogoutPC,
             pc' = [pc EXCEPT ![t] = l],
             pc[t] \in (IF l \in FlowPC THEN {"reserve"} \cup FlowPC ELSE LogoutPC),
             Early(t) \/ l \in {"clear", "release"},
             UNCHANGED <<tasks, awaiting, sess, kind>>
      PROVE  RequestInv'
  <2>1. \A v \in Worker \ {t} : pc'[v] = pc[v]
    BY <1>8 DEF TypeOK, Thread
  <2>2. CASE t \in Worker
    <3>1. RequestAt(t)'
      BY <1>8, <2>2 DEF RequestInv, RequestAt, Early, FlowPC, LogoutPC, TypeOK, Thread
    <3> QED
      BY <1>8, <2>1, <2>2, <3>1, RequestKeep
  <2>3. CASE t = Main
    BY <1>1, <1>8, <2>1, <2>3
  <2> QED
    BY <2>2, <2>3 DEF Thread
<1>9. ASSUME NEW w \in Worker, WorkerStep(w) /\ ~Logout(w)
      PROVE  RequestInv'
  <2> Early(w) \/ pc[w] \in {"clear", "release"}
    BY <1>9 DEF WorkerStep, Route, RejectInput, Reserve, SetPending, Verify,
       RegisterUser, HashThrows, FailRelease, FailClear, SetUsername,
       GoOnline, ClearPending, Release, Early
  <2> w \in Thread
    BY DEF Thread
  <2>1. CASE Route(w)
    BY <1>5, <1>6, <2>1 DEF Route, Early
  <2>2. CASE RejectInput(w)
    BY <1>6, <2>2 DEF RejectInput, Early
  <2>3. CASE Reserve(w)
    <3>1. CASE Return(w) /\ Reply(sess[w])
      BY <1>6, <2>3, <3>1 DEF Reserve, Early
    <3>2. CASE ~(Return(w) /\ Reply(sess[w]))
      <4>1. /\ Goto(w, "pending") /\ pc[w] = "reserve"
            /\ tasks' = tasks /\ awaiting' = awaiting
        BY <2>3, <3>2, Zenon DEF Reserve
      <4> QED
        BY <1>8, <4>1 DEF Goto, FlowPC, Early
    <3> QED
      BY <3>1, <3>2
  <2>4. CASE SetPending(w)
    BY <1>8, <2>4 DEF SetPending, Goto, clientVars, FlowPC, Early
  <2>5. CASE Verify(w)
    BY <1>8, <2>5 DEF Verify, Goto, clientVars, FlowPC, Early
  <2>6. CASE RegisterUser(w)
    BY <1>8, <2>6 DEF RegisterUser, Goto, clientVars, FlowPC, Early
  <2>7. CASE HashThrows(w) \/ Release(w)
    BY <1>7, <2>7 DEF HashThrows, Release, clientVars
  <2>8. CASE FailRelease(w)
    BY <1>8, <2>8 DEF FailRelease, Goto, clientVars, FlowPC, Early
  <2>9. CASE FailClear(w)
    BY <1>6, <2>9 DEF FailClear, Early
  <2>10. CASE SetUsername(w)
    BY <1>8, <2>10 DEF SetUsername, Goto, clientVars, FlowPC, Early
  <2>11. CASE GoOnline(w)
    BY <1>6, <2>11 DEF GoOnline, Early
  <2>12. CASE ClearPending(w)
    BY <1>8, <2>12 DEF ClearPending, Goto, clientVars, FlowPC, Early
  <2> QED
    BY <1>9, <2>1, <2>2, <2>3, <2>4, <2>5, <2>6, <2>7, <2>8, <2>9, <2>10,
       <2>11, <2>12 DEF WorkerStep
<1>10. ASSUME NEW t \in Thread, Logout(t)
       PROVE  RequestInv'
  <2>1. CASE LogoutCheck(t)
    BY <1>7, <1>8, <2>1 DEF LogoutCheck, Goto, clientVars, FlowPC, LogoutPC, Early
  <2>2. CASE LogoutName(t)
    BY <1>8, <2>2 DEF LogoutName, clientVars, FlowPC, LogoutPC, Early
  <2>3. CASE LogoutOffline(t)
    BY <1>8, <2>3 DEF LogoutOffline, Goto, clientVars, FlowPC, LogoutPC, Early
  <2>4. CASE LogoutClear(t)
    BY <1>7, <2>4 DEF LogoutClear, clientVars
  <2> QED
    BY <1>10, <2>1, <2>2, <2>3, <2>4 DEF Logout
<1>11. CASE CleanupRead \/ CleanupRelease \/ CleanupClear
  BY <1>1, <1>11
  DEF CleanupRead, CleanupRelease, CleanupClear, Goto, clientVars, TypeOK, Thread
<1>12. CASE UNCHANGED vars
  BY <1>1, <1>12 DEF vars
<1> QED
  BY <1>2, <1>3, <1>4, <1>9, <1>10, <1>11, <1>12
  DEF Next, MainStep, WorkerStep, Thread

\* Clients see nothing of it.
LEMMA ServiceStutter ==
    ASSUME UNCHANGED <<accounts, username, online, conn, raced>>,
           Quitting' = Quitting
    PROVE  UNCHANGED Service!vars
BY DEF Service!vars, Names, Removed

\* An answer is not one to a LOGOUT.
LEMMA ReplyQuits ==
    ASSUME TypeOK, RequestInv, NEW w \in Worker, Early(w), sess[w] \in Session,
           kind[w] # "LOGOUT", Reply(sess[w])
    PROVE  Quitting' = Quitting
<1>1. awaiting[sess[w]] = "reply"
  BY DEF RequestInv, RequestAt, Due
<1> QED
  BY <1>1 DEF Reply, Quitting, TypeOK

\* Only a client that asked for it, or is gone, is being logged out.
LEMMA LogoutAsked ==
    ASSUME TypeOK, ThreadInv, OverlapInv, RequestInv, NEW t \in Thread,
           pc[t] \in LogoutPC
    PROVE  sess[t] \in Session /\ sess[t] \in Quitting \cup Removed
<1>1. sess[t] \in Session
  BY DEF ThreadInv, LogoutPC
<1>2. CASE t \in Worker
  BY <1>1, <1>2 DEF RequestInv, RequestAt, Early, Due, Quitting, LogoutPC
<1>3. CASE t = Main
  BY <1>1, <1>3 DEF OverlapInv, Removed, LogoutPC
<1> QED
  BY <1>1, <1>2, <1>3 DEF Thread

\* What finish_login finds: a connection that is there and carries no name,
\* and a name with an account that no connection carries.
LEMMA EnterFinds ==
    ASSUME TypeOK, ThreadInv, AccountsInv, OverlapInv, HandlerInv, CarrierInv,
           NEW w \in Worker, pc[w] = "enter", who[w] \notin raced
    PROVE  /\ who[w] \in User /\ who[w] \in accounts
           /\ sess[w] \in Session /\ sess[w] \notin Removed
           /\ username[sess[w]] = NoUser
           /\ \A r \in Session : username[r] # who[w]
<1> USE ConstantsAssumption DEF ConstantsAssumption
<1>1. who[w] \in User /\ who[w] \in accounts /\ sess[w] \in Session
  BY DEF ThreadInv, AccountsInv, FlowPC, Thread
<1>2. sess[w] \notin Removed /\ username[sess[w]] = NoUser
  BY <1>1 DEF OverlapInv, HandlerInv, FlowPC, Removed
<1>3. Entering(w, who[w])
  BY DEF Entering, Holds, FlowPC
<1> QED
  BY <1>1, <1>2, <1>3 DEF CarrierInv

LEMMA ServiceInit == Init => Service!Init
BY ConstantsAssumption
DEF Init, Service!Init, Names, Quitting, Removed, ConstantsAssumption

LEMMA RequestInit == Init => RequestInv
BY DEF Init, RequestInv, RequestAt, Early, FlowPC, LogoutPC, Thread

LEMMA ServiceStep ==
    ASSUME ~Pipelined, TypeOK, LoginInv, PresenceInv, RequestInv, [Next]_vars
    PROVE  [Service!Next]_(Service!vars)
<1> USE ConstantsAssumption DEF ConstantsAssumption
<1>0. /\ ThreadInv /\ AccountsInv /\ AcceptedInv /\ OverlapInv
      /\ PatientInv /\ RemovedInv /\ HandlerInv /\ CarrierInv /\ OnlineInv
  BY DEF LoginInv, PresenceInv
<1>1. ASSUME UNCHANGED <<accounts, username, online, conn, raced, awaiting>>
      PROVE  UNCHANGED Service!vars
  BY <1>1, ServiceStutter DEF Quitting
<1>2. ASSUME NEW s \in Session, Accept(s)
      PROVE  UNCHANGED Service!vars
  <2>1. Removed' = Removed /\ UNCHANGED <<accounts, username, online, raced, awaiting>>
    BY <1>2 DEF Accept, Removed, TypeOK, clientVars
  <2> QED
    BY <2>1 DEF Service!vars, Names, Quitting
<1>3. ASSUME NEW s \in Session, Remove(s)
      PROVE  Service!Next
  <2> DEFINE L == raced' \ raced
  <2>1. /\ raced' = raced \cup L /\ L \in SUBSET User
        /\ UNCHANGED <<accounts, username, online, awaiting>>
    <3>1. raced' \subseteq User /\ raced \subseteq raced'
      BY <1>3 DEF Remove, BusyOn, TypeOK, NameOrNone, Thread
    <3> QED
      BY <1>3, <3>1 DEF Remove, clientVars, TypeOK
  <2>2. s \notin Removed /\ Removed' = Removed \cup {s}
    BY <1>3 DEF Remove, Removed, TypeOK
  <2> HIDE DEF L
  <2>3. /\ Names' = [r \in Session |-> IF Names[r] \in L THEN NoUser ELSE Names[r]]
        /\ (online \ raced)' = (online \ raced) \ L
        /\ Quitting' = Quitting
    BY <2>1 DEF Names, Quitting
  <2>4. Service!Disconnect(s, L)
    BY <2>1, <2>2, <2>3 DEF Service!Disconnect, Service!Spoil
  <2> QED
    BY <2>1, <2>4 DEF Service!Next
<1>4. ASSUME NEW s \in Session, NEW f \in Request, Dispatch(s, f)
      PROVE  Service!Next \/ UNCHANGED Service!vars
  <2>1. /\ awaiting[s] = "nothing" /\ s \notin Removed
        /\ awaiting' = [awaiting EXCEPT ![s] = Due(f.type)]
        /\ UNCHANGED <<accounts, username, online, conn, raced>>
    BY <1>4 DEF Dispatch, Due, Removed
  <2>2. CASE f.type = "LOGOUT"
    <3>1. Quitting' = Quitting \cup {s}
      BY <2>1, <2>2 DEF Quitting, Due, TypeOK
    <3>2. Service!Quit(s)
      BY <2>1, <3>1 DEF Service!Quit, Names, Removed
    <3> QED
      BY <3>2 DEF Service!Next
  <2>3. CASE f.type # "LOGOUT"
    <3>1. Quitting' = Quitting
      BY <2>1, <2>3 DEF Quitting, Due, TypeOK
    <3> QED
      BY <2>1, <3>1, ServiceStutter
  <2> QED
    BY <2>2, <2>3
<1>5. ASSUME NEW w \in Worker, Route(w)
      PROVE  Service!Next \/ UNCHANGED Service!vars
  <2>1. /\ UNCHANGED <<accounts, username, online, conn, raced>>
        /\ sess[w] \in Session /\ Early(w) /\ w \in Thread
    BY <1>0, <1>5 DEF Route, ThreadInv, Early, Thread
  <2>2. CASE awaiting' = awaiting
    BY <1>1, <2>1, <2>2
  <2>3. CASE Reply(sess[w]) /\ kind[w] # "LOGOUT"
    BY <2>1, <2>3, ReplyQuits, ServiceStutter
  <2>4. CASE Reply(sess[w]) /\ kind[w] = "LOGOUT" /\ awaiting' # awaiting
    <3>1. username[sess[w]] = NoUser
      BY <1>5, <2>4 DEF Route
    <3>2. Quitting' = Quitting \ {sess[w]} /\ Names[sess[w]] = NoUser
      BY <2>1, <2>4, <3>1 DEF Reply, Quitting, Names, TypeOK
    <3>3. Service!RefuseQuit(sess[w])
      BY <2>1, <3>2 DEF Service!RefuseQuit, Names, Removed
    <3> QED
      BY <2>1, <3>3 DEF Service!Next
  <2> QED
    BY <1>5, <2>2, <2>3, <2>4 DEF Route
\* The early returns and the failure are answers.
<1>6. ASSUME NEW w \in Worker, RejectInput(w) \/ FailClear(w)
      PROVE  UNCHANGED Service!vars
  <2>1. /\ UNCHANGED <<accounts, username, online, conn, raced>>
        /\ Reply(sess[w]) /\ pc[w] \in {"reserve"} \cup FlowPC
    BY <1>6 DEF RejectInput, FailClear, FlowPC
  <2>2. /\ Early(w) /\ kind[w] # "LOGOUT" /\ sess[w] \in Session
    BY <1>0, <1>6, <2>1
    DEF RejectInput, FailClear, RequestInv, RequestAt, ThreadInv, Early, Thread
  <2> QED
    BY <2>1, <2>2, ReplyQuits, ServiceStutter
<1>7. ASSUME NEW w \in Worker, Reserve(w)
      PROVE  Service!Next \/ UNCHANGED Service!vars
  <2>1. /\ UNCHANGED <<accounts, username, online, conn>> /\ pc[w] = "reserve"
        /\ Early(w) /\ kind[w] # "LOGOUT" /\ sess[w] \in Session
    BY <1>0, <1>7
    DEF Reserve, RequestInv, RequestAt, ThreadInv, Early, Thread
  <2>2. CASE Reply(sess[w]) /\ raced' = raced
    BY <2>1, <2>2, ReplyQuits, ServiceStutter
  <2>3. CASE awaiting' = awaiting /\ raced' = raced
    BY <1>1, <2>1, <2>3
  <2>4. CASE /\ awaiting' = awaiting /\ raced' = raced \cup {who[w]}
             /\ pc[Main] # "idle" /\ username[sess[Main]] = who[w]
             /\ who[w] \notin raced
    <3> DEFINE s == sess[Main]
    <3>1. s \in Session /\ s \in Removed
      BY <1>0, <2>4 DEF ThreadInv, OverlapInv, Removed, Thread
    <3>2. Names[s] = who[w] /\ who[w] # NoUser
      BY <1>7, <2>4, <3>1 DEF Names, Reserve, ValidName
    <3>3. /\ Names' = [r \in Session |->
                          IF Names[r] \in {who[w]} THEN NoUser ELSE Names[r]]
          /\ (online \ raced)' = (online \ raced) \ {who[w]}
      BY <2>1, <2>4 DEF Names
    <3>4. Service!EnterTooEarly(s)
      BY <2>1, <2>4, <3>1, <3>2, <3>3
      DEF Service!EnterTooEarly, Service!Spoil, Quitting, Removed
    <3> QED
      BY <3>1, <3>4 DEF Service!Next
  <2> QED
    BY <1>7, <2>2, <2>3, <2>4 DEF Reserve
<1>8. ASSUME NEW w \in Worker, RegisterUser(w)
      PROVE  Service!Next \/ UNCHANGED Service!vars
  <2>1. UNCHANGED <<username, online, conn, raced, awaiting>> /\ who[w] \in User
    BY <1>0, <1>8 DEF RegisterUser, clientVars, ThreadInv, FlowPC
  <2>2. CASE accounts' = accounts
    BY <1>1, <2>1, <2>2
  <2>3. CASE who[w] \notin accounts /\ accounts' = accounts \cup {who[w]}
    <3>1. Service!Register(who[w])
      BY <2>1, <2>3 DEF Service!Register, Names, Quitting, Removed
    <3> QED
      BY <2>1, <3>1 DEF Service!Next
  <2> QED
    BY <1>8, <2>2, <2>3 DEF RegisterUser
<1>9. ASSUME NEW w \in Worker, SetUsername(w)
      PROVE  Service!Next \/ UNCHANGED Service!vars
  <2>1. /\ UNCHANGED <<accounts, online, conn, raced, awaiting>>
        /\ pc[w] = "enter" /\ username' = [username EXCEPT ![sess[w]] = who[w]]
    BY <1>9 DEF SetUsername, clientVars
  <2>2. sess[w] \in Session /\ username[sess[w]] = NoUser
    BY <1>0, <2>1 DEF ThreadInv, HandlerInv, Thread
  <2>3. CASE who[w] \in raced
    <3>1. Names' = Names
      BY <2>1, <2>2, <2>3 DEF Names, TypeOK
    <3> QED
      BY <2>1, <3>1 DEF Service!vars, Quitting, Removed
  <2>4. CASE who[w] \notin raced
    <3>1. /\ who[w] \in User /\ who[w] \in accounts
          /\ sess[w] \notin Removed
          /\ \A r \in Session : username[r] # who[w]
      BY <1>0, <2>1, <2>4, EnterFinds
    <3>2. /\ Names[sess[w]] = NoUser
          /\ \A r \in Session : Names[r] # who[w]
          /\ Names' = [Names EXCEPT ![sess[w]] = who[w]]
      BY <2>1, <2>2, <2>4, <3>1 DEF Names, TypeOK
    <3>3. Service!Enter(sess[w], who[w])
      BY <2>1, <2>4, <3>1, <3>2 DEF Service!Enter, Quitting, Removed
    <3> QED
      BY <2>2, <3>1, <3>3 DEF Service!Next
  <2> QED
    BY <2>3, <2>4
<1>10. ASSUME NEW w \in Worker, GoOnline(w)
       PROVE  Service!Next \/ UNCHANGED Service!vars
  <2>1. /\ UNCHANGED <<accounts, username, conn, raced>>
        /\ pc[w] = "online" /\ online' = online \cup {who[w]}
        /\ Reply(sess[w])
    BY <1>10 DEF GoOnline
  <2>2. /\ who[w] \in User /\ sess[w] \in Session /\ Quitting' = Quitting
    <3>1. who[w] \in User /\ sess[w] \in Session /\ kind[w] # "LOGOUT" /\ Early(w)
      BY <1>0, <2>1 DEF ThreadInv, RequestInv, RequestAt, FlowPC, Early, Thread
    <3> QED
      BY <2>1, <3>1, ReplyQuits
  <2>3. CASE who[w] \in raced
    <3>1. (online \ raced)' = online \ raced
      BY <2>1, <2>3
    <3> QED
      BY <2>1, <2>2, <3>1 DEF Service!vars, Names, Removed
  <2>4. CASE who[w] \notin raced
    <3>1. conn[sess[w]] = "live"
      <4>1. conn[sess[w]] # "new"
        BY <1>0, <2>1 DEF AcceptedInv, Thread
      <4>2. conn[sess[w]] # "removed"
        BY <1>0, <2>1, <2>2, <2>4 DEF OverlapInv, FlowPC
      <4> QED
        BY <2>2, <4>1, <4>2 DEF TypeOK
    <3>2. Names[sess[w]] = who[w] /\ who[w] # NoUser
      BY <1>0, <2>1, <2>2, <2>4, <3>1 DEF HandlerInv, Names
    <3>3. (online \ raced)' = (online \ raced) \cup {Names[sess[w]]}
      BY <2>1, <2>4, <3>2
    <3>4. Service!Announce(sess[w])
      BY <2>1, <2>2, <3>1, <3>2, <3>3 DEF Service!Announce, Names, Removed
    <3> QED
      BY <2>2, <3>4 DEF Service!Next
  <2> QED
    BY <2>3, <2>4
<1>11. ASSUME NEW t \in Thread, LogoutOffline(t)
       PROVE  Service!Next \/ UNCHANGED Service!vars
  <2>1. /\ UNCHANGED <<accounts, username, conn, raced, awaiting>>
        /\ pc[t] = "offline" /\ online' = online \ {who[t]}
    BY <1>11 DEF LogoutOffline, clientVars
  <2>2. sess[t] \in Session /\ sess[t] \in Quitting \cup Removed
    BY <1>0, <2>1, LogoutAsked DEF LogoutPC
  <2>3. CASE who[t] \in Spent
    <3>1. (online \ raced)' = online \ raced
      BY <2>1, <2>3 DEF Spent, TypeOK
    <3> QED
      BY <2>1, <3>1 DEF Service!vars, Names, Quitting, Removed
  <2>4. CASE who[t] \notin Spent
    <3>1. username[sess[t]] = who[t]
      <4>1. CASE t = Main
        BY <1>0, <2>1, <2>4, <4>1 DEF RemovedInv
      <4>2. CASE t \in Worker
        <5>1. conn[sess[t]] = "live"
          BY <1>0, <2>1, <2>2, <2>4, <4>2 DEF RemovedInv, AcceptedInv, TypeOK
        <5> QED
          BY <1>0, <2>1, <4>2, <5>1 DEF HandlerInv
      <4> QED
        BY <4>1, <4>2 DEF Thread
    <3>2. Names[sess[t]] = who[t] /\ who[t] # NoUser
      BY <2>2, <2>4, <3>1 DEF Names, Spent
    <3>3. (online \ raced)' = (online \ raced) \ {Names[sess[t]]}
      BY <2>1, <3>2
    <3>4. Service!Withdraw(sess[t])
      BY <2>1, <2>2, <3>2, <3>3 DEF Service!Withdraw, Names, Quitting, Removed
    <3> QED
      BY <2>2, <3>4 DEF Service!Next
  <2> QED
    BY <2>3, <2>4
<1>12. ASSUME NEW t \in Thread, LogoutClear(t)
       PROVE  Service!Next \/ UNCHANGED Service!vars
  <2>1. /\ UNCHANGED <<accounts, online, conn, raced, awaiting>>
        /\ pc[t] = "clearname"
        /\ username' = [username EXCEPT ![sess[t]] = NoUser]
    BY <1>12 DEF LogoutClear, clientVars
  <2>2. sess[t] \in Session /\ sess[t] \in Quitting \cup Removed
    BY <1>0, <2>1, LogoutAsked DEF LogoutPC
  <2>3. CASE username[sess[t]] \in Spent
    <3>1. Names' = Names
      BY <2>1, <2>2, <2>3 DEF Names, Spent, TypeOK
    <3> QED
      BY <2>1, <3>1 DEF Service!vars, Quitting, Removed
  <2>4. CASE username[sess[t]] \notin Spent
    <3>1. username[sess[t]] = who[t]
      <4>1. CASE t = Main
        BY <1>0, <2>1, <2>4, <4>1 DEF RemovedInv
      <4>2. CASE t \in Worker
        <5>1. conn[sess[t]] # "removed"
          BY <1>0, <2>1, <2>2, <2>4, <4>2 DEF RemovedInv, BusyOn
        <5>2. conn[sess[t]] = "live"
          BY <1>0, <2>1, <2>2, <5>1 DEF AcceptedInv, TypeOK
        <5> QED
          BY <1>0, <2>1, <4>2, <5>2 DEF HandlerInv
      <4> QED
        BY <4>1, <4>2 DEF Thread
    <3>2. who[t] \in User \ raced
      BY <2>2, <2>4, <3>1 DEF Spent, TypeOK, NameOrNone
    <3>3. who[t] \notin online
      BY <1>0, <2>1, <3>2 DEF OnlineInv
    <3>4. /\ Names[sess[t]] = who[t]
          /\ Names' = [Names EXCEPT ![sess[t]] = NoUser]
      BY <2>1, <2>2, <3>1, <3>2 DEF Names, TypeOK
    <3>5. Service!Leave(sess[t])
      BY <2>1, <2>2, <3>3, <3>4 DEF Service!Leave, Quitting, Removed
    <3> QED
      BY <2>2, <3>5 DEF Service!Next
  <2> QED
    BY <2>3, <2>4
\* All the others change what no client sees.
<1>13. ASSUME NEW w \in Worker,
              \/ Take(w) \/ SetPending(w) \/ Verify(w) \/ HashThrows(w)
              \/ FailRelease(w) \/ ClearPending(w) \/ Release(w)
       PROVE  UNCHANGED Service!vars
  BY <1>1, <1>13 DEF Take, SetPending, Verify, HashThrows, FailRelease,
     ClearPending, Release, clientVars
<1>14. ASSUME NEW t \in Thread, LogoutCheck(t) \/ LogoutName(t)
       PROVE  UNCHANGED Service!vars
  BY <1>1, <1>14 DEF LogoutCheck, LogoutName, clientVars
<1>15. ASSUME CleanupRead \/ CleanupRelease \/ CleanupClear \/ UNCHANGED vars
       PROVE  UNCHANGED Service!vars
  BY <1>1, <1>15
  DEF CleanupRead, CleanupRelease, CleanupClear, clientVars, vars
<1> QED
  BY <1>2, <1>3, <1>4, <1>5, <1>6, <1>7, <1>8, <1>9, <1>10, <1>11, <1>12,
     <1>13, <1>14, <1>15
  DEF Next, WorkerStep, MainStep, Logout, Thread

\* For clients that wait for their answers, however many connections, names and
\* workers there are: the handlers and the disconnect handler, all their critical
\* sections interleaved, do to accounts, names and the online list only what
\* NameService allows.
THEOREM LoginImplementsService ==
    ASSUME ~Pipelined
    PROVE  Spec => ImplementsNameService
<1>1. Init => PresenceInv /\ RequestInv /\ Service!Init
  BY PresenceInit, RequestInit, ServiceInit
<1>2. TypeOK /\ LoginInv /\ PresenceInv /\ RequestInv /\ [Next]_vars
          => PresenceInv' /\ RequestInv'
  BY PresenceStep, RequestStep DEF LoginInv, PresenceInv
<1>3. TypeOK /\ LoginInv /\ PresenceInv /\ RequestInv /\ [Next]_vars
          => [Service!Next]_(Service!vars)
  BY ServiceStep
<1> QED
  BY <1>1, <1>2, <1>3, TypeCorrect, LoginInvariant, PTL
  DEF Spec, ImplementsNameService, Service!Spec
=============================================================================
