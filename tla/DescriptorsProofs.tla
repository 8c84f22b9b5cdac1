--------------------------- MODULE DescriptorsProofs ---------------------------
(***************************************************************************)
(* Proofs about Descriptors, for every number of workers, descriptors,       *)
(* connections and messages: a number stays with the socket of a session     *)
(* while anybody has a shared_ptr of it, and a task is dropped exactly if its *)
(* connection was removed.                                                   *)
(***************************************************************************)
EXTENDS Descriptors, TLAPS

\* The main thread alone has s.
Alone(s) ==
    /\ held[Main] = {s}
    /\ \A w \in Worker : s \notin held[w]
    /\ s \notin Queued \cup Mapped

\* What the main thread has at each place.
MainInv ==
    /\ mpc \in {"wait", "batch"} => held[Main] = {}
    /\ mpc = "accepted" => \E s \in Session : Alone(s)
    /\ mpc = "refused" => \E s \in Session : Alone(s) /\ file[sfd[s]] = NoSession
    /\ mpc = "read" =>
           \E s \in Session :
               /\ held[Main] = {s}
               /\ reading \in Fd /\ sessions[reading] = s
               /\ [fd |-> reading, sess |-> s] \notin batch

\* Exactly the sessions somebody refers to are not destroyed.
LiveInv ==
    /\ \A s \in Session : sfd[s] # NoFd /\ s \notin gone <=> s \in Referenced
    /\ \A s \in gone : sfd[s] # NoFd

\* sessions_ has a session under its own number, and a lambda has its session.
OwnInv ==
    /\ \A f \in Fd : sessions[f] # NoSession => sfd[sessions[f]] = f
    /\ \A w \in Worker :
           IF wpc[w] = "idle" THEN held[w] = {}
           ELSE wtask[w] \in Task /\ wtask[w].sess \in held[w]

RefInv == LiveInv /\ OwnInv

\* Epoll watches connections that are in sessions_, and reports them.
WatchInv ==
    mpc # "cleared" => \A f \in watched : sessions[f] \in Session /\ file[f] = sessions[f]

\* The generations given so far are at most the counter.
GenInv ==
    /\ \A s \in Session : gen[s] <= nextGen
    /\ \A k \in Pending : k.gen <= nextGen

DInv ==
    /\ TypeOK /\ MainInv /\ RefInv /\ HeldStaysOpen
    /\ WatchInv /\ EventFresh /\ GenInv /\ GenerationExact

-----------------------------------------------------------------------------
(* The queue.                                                              *)

LEMMA AppendTask ==
    ASSUME tasks \in Seq(Task), NEW k \in Task, tasks' = Append(tasks, k)
    PROVE  /\ Queued' = Queued \cup {k.sess}
           /\ {tasks'[i] : i \in DOMAIN tasks'} = {tasks[i] : i \in DOMAIN tasks} \cup {k}
<1>1. /\ DOMAIN tasks = 1..Len(tasks) /\ DOMAIN tasks' = 1..(Len(tasks) + 1)
      /\ \A i \in 1..Len(tasks) : tasks'[i] = tasks[i]
      /\ tasks'[Len(tasks) + 1] = k /\ Len(tasks) \in Nat
  OBVIOUS
<1>2. DOMAIN tasks' = DOMAIN tasks \cup {Len(tasks) + 1}
  BY <1>1
<1>3. {tasks'[i] : i \in DOMAIN tasks'} = {tasks[i] : i \in DOMAIN tasks} \cup {k}
  BY <1>1, <1>2
<1>4. {tasks'[i].sess : i \in DOMAIN tasks'} = {tasks[i].sess : i \in DOMAIN tasks} \cup {k.sess}
  BY <1>1, <1>2
<1> QED
  BY <1>3, <1>4 DEF Queued

LEMMA TakeTask ==
    ASSUME tasks \in Seq(Task), tasks # <<>>, tasks' = Tail(tasks)
    PROVE  /\ Head(tasks) \in Task
           /\ Queued = Queued' \cup {Head(tasks).sess}
           /\ {tasks[i] : i \in DOMAIN tasks}
                  = {tasks'[i] : i \in DOMAIN tasks'} \cup {Head(tasks)}
<1>1. /\ Len(tasks) \in Nat \ {0} /\ DOMAIN tasks = 1..Len(tasks)
      /\ DOMAIN tasks' = 1..(Len(tasks) - 1)
      /\ \A i \in 1..(Len(tasks) - 1) : tasks'[i] = tasks[i + 1]
      /\ Head(tasks) = tasks[1]
  OBVIOUS
<1>2. ASSUME NEW i \in DOMAIN tasks
      PROVE  i = 1 \/ (i - 1 \in DOMAIN tasks' /\ tasks[i] = tasks'[i - 1])
  BY <1>1, <1>2
<1>3. ASSUME NEW i \in DOMAIN tasks'
      PROVE  i + 1 \in DOMAIN tasks /\ tasks'[i] = tasks[i + 1]
  BY <1>1, <1>3
<1>4. 1 \in DOMAIN tasks
  BY <1>1
<1>5. ASSUME NEW k
      PROVE  (\E i \in DOMAIN tasks : k = tasks[i])
                 <=> (\E i \in DOMAIN tasks' : k = tasks'[i]) \/ k = Head(tasks)
  BY <1>1, <1>2, <1>3, <1>4
<1>6. \A k : (\E i \in DOMAIN tasks : k = tasks[i].sess)
                 <=> (\E i \in DOMAIN tasks' : k = tasks'[i].sess) \/ k = Head(tasks).sess
  BY <1>1, <1>2, <1>3, <1>4
<1>7. Head(tasks) \in Task
  BY <1>1, <1>4
<1>8. Queued = Queued' \cup {Head(tasks).sess}
  <2>1. \A k : k \in Queued <=> \E i \in DOMAIN tasks : k = tasks[i].sess
    BY DEF Queued
  <2>2. \A k : k \in Queued' <=> \E i \in DOMAIN tasks' : k = tasks'[i].sess
    BY DEF Queued
  <2>3. \A k : k \in Queued <=> k \in Queued' \/ k = Head(tasks).sess
    BY ONLY <1>6, <2>1, <2>2
  <2> QED
    BY ONLY <2>3
<1>9. {tasks[i] : i \in DOMAIN tasks}
          = {tasks'[i] : i \in DOMAIN tasks'} \cup {Head(tasks)}
  BY <1>5
<1> QED
  BY <1>7, <1>8, <1>9

-----------------------------------------------------------------------------
(* ~ClientSession.                                                         *)

LEMMA ReferencedType == ASSUME TypeOK PROVE Referenced \subseteq Session
<1>1. Queued \subseteq Session
  <2>1. \A i \in DOMAIN tasks : tasks[i] \in Task
    BY DEF TypeOK
  <2> QED
    BY <2>1 DEF Queued, Task
<1>2. Mapped \subseteq Session
  BY DEF TypeOK, Mapped
<1>3. \A t \in Thread : held[t] \subseteq Session
  BY DEF TypeOK
<1> QED
  BY <1>1, <1>2, <1>3 DEF Referenced

\* Whoever drops references closes no number that is still referred to.
LEMMA DestructKeeps ==
    ASSUME DInv, Destruct, UNCHANGED sfd,
           Referenced' \subseteq Referenced, Refusing \cap Referenced' \subseteq Refusing'
    PROVE  /\ LiveInv' /\ HeldStaysOpen'
<1> USE DEF DInv, RefInv, OwnInv, HeldStaysOpen
<1>1. LiveInv'
  BY DEF LiveInv, Destruct, Destroyed
<1>2. ASSUME NEW s \in Referenced' \ Refusing'
      PROVE  sfd'[s] \in Fd /\ file'[sfd'[s]] = s
  <2>1. s \in Referenced \ Refusing /\ sfd[s] \in Fd /\ file[sfd[s]] = s
    OBVIOUS
  <2>2. s \in Session
    BY <2>1, ReferencedType
  <2>3. ASSUME NEW d \in Destroyed, sfd[d] = sfd[s] PROVE FALSE
    <3>1. d \in Referenced /\ d \notin Referenced'
      BY <2>3 DEF Destroyed, LiveInv
    <3>2. file[sfd[d]] = d \/ file[sfd[d]] = NoSession
      BY <3>1 DEF Refusing, MainInv, Alone
    <3> QED
      BY <2>1, <2>2, <2>3, <3>1, <3>2, <1>2, DescriptorAssumption
      DEF DescriptorAssumption
  <2> QED
    BY <2>1, <2>3 DEF Destruct
<1> QED
  BY <1>1, <1>2

-----------------------------------------------------------------------------
(* The steps.                                                              *)

LEMMA MappedType == ASSUME TypeOK PROVE Mapped \subseteq Session
  BY DEF TypeOK, Mapped

LEMMA DestructType ==
    ASSUME TypeOK, Destruct
    PROVE  /\ file' \in [Fd -> Session \cup {NoSession}]
           /\ gone' \subseteq Session /\ watched' \subseteq Fd
  BY DEF TypeOK, Destruct, Destroyed

\* The types.
LEMMA TypeStep == DInv /\ [Next]_vars => TypeOK'
<1> SUFFICES ASSUME DInv, [Next]_vars PROVE TypeOK'
  OBVIOUS
<1> USE DescriptorAssumption DEF DescriptorAssumption, DInv, TypeOK, Thread, kernel, server,
      main, pool
<1>1. CASE EpollWait
  <2>1. PICK ready \in SUBSET ({[fd |-> f, sess |-> file[f]] : f \in watched} \cup {Listen}) :
            batch' = ready
    BY <1>1 DEF EpollWait
  <2>2. \A f \in watched : [fd |-> f, sess |-> file[f]] \in Event
    BY <1>1 DEF EpollWait, Event, WatchInv
  <2> QED
    BY <1>1, <2>1, <2>2 DEF EpollWait
<1>2. CASE BatchDone
  BY <1>2 DEF BatchDone
<1>3. ASSUME NEW s \in Session, NEW f \in Fd, Accept(s, f)
      PROVE  TypeOK'
  BY <1>3 DEF Accept, Hold
<1>4. ASSUME NEW s \in Session, Store(s)
      PROVE  TypeOK'
  <2>1. sfd[s] \in Fd
    BY <1>4 DEF Store, HeldStaysOpen, Referenced, Refusing
  <2> QED
    BY <1>4, <2>1 DEF Store, Hold
<1>5. ASSUME NEW s \in Session, AddFails(s)
      PROVE  TypeOK'
  BY <1>5 DEF AddFails
<1>6. CASE Refused
  BY <1>6, DestructType, MappedType DEF Refused, Hold
<1>7. CASE AcceptDone
  BY <1>7 DEF AcceptDone
<1>8. ASSUME NEW e \in Event, ClientEvent(e)
      PROVE  TypeOK'
  <2>1. e.fd \in Fd
    BY DEF Event
  <2>2. CASE sessions[e.fd] = NoSession
    BY <1>8, <2>1, <2>2 DEF ClientEvent
  <2>3. CASE sessions[e.fd] # NoSession
    BY <1>8, <2>1, <2>3 DEF ClientEvent, Hold
  <2> QED
    BY <2>2, <2>3
<1>9. ASSUME NEW s \in Session, Dispatch(s)
      PROVE  TypeOK'
  <2>1. [sess |-> s, gen |-> gen[s]] \in Task
    BY DEF Task
  <2>2. tasks' \in Seq(Task) /\ dispatched' \in 0..MaxTasks
    BY <1>9, <2>1 DEF Dispatch
  <2> QED
    BY <1>9, <2>2 DEF Dispatch
<1>10. ASSUME NEW s \in Session, Remove(s)
      PROVE  TypeOK'
  <2>1. gen' \in [Session -> Nat] /\ nextGen' \in Nat
    BY <1>10 DEF Remove
  <2> QED
    BY <1>10, <2>1 DEF Remove
<1>11. CASE EventDone
  BY <1>11, DestructType, MappedType DEF EventDone, Hold
<1>12. ASSUME NEW S \in SUBSET Mapped, Ping(S)
      PROVE  TypeOK'
  BY <1>12, MappedType DEF Ping, Hold
<1>13. CASE PingDone
  BY <1>13, DestructType, MappedType DEF PingDone, Hold
<1>14. ASSUME NEW S \in SUBSET Mapped, FarewellCopies(S)
      PROVE  TypeOK'
  BY <1>14, DestructType, MappedType DEF FarewellCopies, Hold
<1>15. ASSUME NEW w \in Worker, NEW S \in SUBSET Mapped, WorkerCopies(w, S)
      PROVE  TypeOK'
  <2>1. wtask[w].sess \in Session
    BY <1>15 DEF WorkerCopies, RefInv, OwnInv, Task
  <2> QED
    BY <1>15, <2>1, DestructType, MappedType DEF WorkerCopies, Hold
<1>16. ASSUME NEW w \in Worker, Take(w)
      PROVE  TypeOK'
  <2>1. Head(tasks) \in Task /\ Tail(tasks) \in Seq(Task) /\ Head(tasks).sess \in Session
    BY <1>16, TakeTask DEF Take, Task
  <2> QED
    BY <1>16, <2>1 DEF Take, Hold
<1>17. ASSUME NEW w \in Worker, DropStale(w)
      PROVE  TypeOK'
  BY <1>17, DestructType, MappedType DEF DropStale, Return, Hold
<1>18. ASSUME NEW w \in Worker, Enter(w)
      PROVE  TypeOK'
  BY <1>18 DEF Enter
<1>19. ASSUME NEW w \in Worker, HandlerDone(w)
      PROVE  TypeOK'
  BY <1>19, DestructType, MappedType DEF HandlerDone, Return, Hold
<1>20. CASE Clear
  BY <1>20, DestructType DEF Clear
<1>21. CASE UNCHANGED vars
  BY <1>21 DEF vars
<1> QED
  BY <1>1, <1>2, <1>3, <1>4, <1>5, <1>6, <1>7, <1>8, <1>9, <1>10, <1>11,
     <1>12, <1>13, <1>14, <1>15, <1>16, <1>17, <1>18, <1>19, <1>20, <1>21
  DEF Next, MainStep, WorkerStep

\* A thread that lets go, or copies what is in sessions_, refers to nothing new.
LEMMA HoldLess ==
    ASSUME TypeOK, NEW t \in Thread, NEW S, Hold(t, S), S \subseteq Referenced,
           UNCHANGED tasks, Mapped' \subseteq Mapped
    PROVE  Referenced' \subseteq Referenced
<1>1. \A u \in Thread : held'[u] \subseteq Referenced
  BY DEF TypeOK, Hold, Referenced
<1> QED
  BY <1>1 DEF Referenced, Queued

LEMMA LetGo ==
    ASSUME TypeOK, NEW t \in Thread, Hold(t, {}), UNCHANGED <<tasks, sessions>>
    PROVE  Referenced' \subseteq Referenced
<1>1. Mapped' \subseteq Mapped
  BY DEF Mapped
<1> QED
  BY <1>1, HoldLess

\* Two sessions that are referred to have two numbers.
LEMMA LookupFromOpen ==
    ASSUME DInv, mpc # "refused", NEW s \in Referenced
    PROVE  sfd[s] \in Fd /\ sessions[sfd[s]] \in {s, NoSession}
<1>1. sfd[s] \in Fd /\ file[sfd[s]] = s
  BY DEF DInv, HeldStaysOpen, Refusing
<1>2. ASSUME sessions[sfd[s]] # NoSession PROVE sessions[sfd[s]] = s
  <2> DEFINE r == sessions[sfd[s]]
  <2>1. r \in Referenced /\ sfd[r] = sfd[s]
    BY <1>1, <1>2 DEF DInv, RefInv, OwnInv, Referenced, Mapped
  <2> QED
    BY <1>1, <2>1 DEF DInv, HeldStaysOpen, Refusing
<1> QED
  BY <1>1, <1>2

\* The descriptors.
LEMMA OpenStep == DInv /\ TypeOK' /\ [Next]_vars => (LiveInv /\ HeldStaysOpen)'
<1> SUFFICES ASSUME DInv /\ TypeOK', [Next]_vars PROVE (LiveInv /\ HeldStaysOpen)'
  OBVIOUS
<1> USE DescriptorAssumption DEF DescriptorAssumption, DInv, TypeOK, Thread, kernel,
      server, main, pool, RefInv, OwnInv, LiveInv, HeldStaysOpen, Refusing
<1>1. CASE EpollWait
  <2>1. Referenced' = Referenced
    BY <1>1 DEF EpollWait, Referenced, Queued, Mapped
  <2> QED
    BY <1>1, <2>1 DEF EpollWait
<1>2. CASE BatchDone
  <2>1. Referenced' = Referenced
    BY <1>2 DEF BatchDone, Referenced, Queued, Mapped
  <2> QED
    BY <1>2, <2>1 DEF BatchDone
<1>3. ASSUME NEW s \in Session, NEW f \in Fd, Accept(s, f)
      PROVE  (LiveInv /\ HeldStaysOpen)'
  <2>1. Referenced' = Referenced \cup {s}
    BY <1>3 DEF Accept, Hold, MainInv, Referenced, Queued, Mapped
  <2>2. s \notin Referenced /\ s \notin gone
    BY <1>3 DEF Accept
  <2> QED
    BY <1>3, <2>1, <2>2, ReferencedType DEF Accept
<1>4. ASSUME NEW s \in Session, Store(s)
      PROVE  (LiveInv /\ HeldStaysOpen)'
  <2>4. Alone(s) /\ s \in Referenced
    BY <1>4 DEF Store, MainInv, Alone, Referenced
  <2>5. sfd[s] \in Fd /\ sessions[sfd[s]] \in {s, NoSession}
    BY <1>4, <2>4, LookupFromOpen DEF Store
  <2>1. held[Main] = {s} /\ s \in Referenced /\ sfd[s] \in Fd /\ sessions[sfd[s]] = NoSession
    BY <2>4, <2>5 DEF Alone, Mapped
  <2>2. Mapped' = Mapped \cup {s}
    BY <1>4, <2>1 DEF Store, Mapped
  <2>3. Referenced' = Referenced
    BY <1>4, <2>1, <2>2 DEF Store, Hold, Referenced, Queued
  <2> QED
    BY <1>4, <2>3 DEF Store
<1>5. ASSUME NEW s \in Session, AddFails(s)
      PROVE  (LiveInv /\ HeldStaysOpen)'
  <2>1. Referenced' = Referenced
    BY <1>5 DEF AddFails, Referenced, Queued, Mapped
  <2>2. held[Main] = {s} /\ s \in Referenced
    BY <1>5 DEF AddFails, MainInv, Alone, Referenced
  <2> QED
    BY <1>5, <2>1, <2>2 DEF AddFails
<1>6. CASE Refused
  <2>1. PICK s \in Session : Alone(s) /\ file[sfd[s]] = NoSession
    BY <1>6 DEF Refused, MainInv
  <2>2. Referenced' \subseteq Referenced
    BY <1>6, LetGo DEF Refused
  <2>3. s \notin Referenced'
    BY <1>6, <2>1 DEF Refused, Hold, Alone, Referenced, Queued, Mapped
  <2> QED
    BY <1>6, <2>1, <2>2, <2>3, DestructKeeps DEF Refused, Alone
<1>7. CASE AcceptDone
  <2>1. Referenced' = Referenced
    BY <1>7 DEF AcceptDone, Referenced, Queued, Mapped
  <2> QED
    BY <1>7, <2>1 DEF AcceptDone
<1>8. ASSUME NEW e \in Event, ClientEvent(e)
      PROVE  (LiveInv /\ HeldStaysOpen)'
  <2>1. e.fd \in Fd
    BY DEF Event
  <2>2. Referenced' = Referenced
    <3>1. CASE sessions[e.fd] = NoSession
      BY <1>8, <3>1 DEF ClientEvent, Referenced, Queued, Mapped
    <3>2. CASE sessions[e.fd] # NoSession
      BY <1>8, <2>1, <3>2 DEF ClientEvent, Hold, MainInv, Referenced, Queued, Mapped
    <3> QED
      BY <3>1, <3>2
  <2> QED
    BY <1>8, <2>2 DEF ClientEvent
<1>9. ASSUME NEW s \in Session, Dispatch(s)
      PROVE  (LiveInv /\ HeldStaysOpen)'
  <2>1. Queued' = Queued \cup {s}
    <3>1. [sess |-> s, gen |-> gen[s]] \in Task
      BY DEF Task
    <3> QED
      BY <1>9, <3>1, AppendTask DEF Dispatch
  <2>2. Referenced' = Referenced
    BY <1>9, <2>1 DEF Dispatch, Referenced, Mapped
  <2> QED
    BY <1>9, <2>2 DEF Dispatch
<1>10. ASSUME NEW s \in Session, Remove(s)
      PROVE  (LiveInv /\ HeldStaysOpen)'
  <2>4. mpc = "read" /\ s \in held[Main] /\ MainInv
    BY <1>10 DEF Remove
  <2>1. held[Main] = {s} /\ reading \in Fd /\ sessions[reading] = s
    BY ONLY <2>4 DEF MainInv
  <2>2. Mapped \subseteq Mapped' \cup {s} /\ Mapped' \subseteq Mapped
    BY <1>10, <2>1 DEF Remove, Mapped
  <2>3. Referenced' = Referenced
    BY <1>10, <2>1, <2>2 DEF Remove, Referenced, Queued
  <2> QED
    BY <1>10, <2>3 DEF Remove
<1>11. CASE EventDone
  <2>1. Referenced' \subseteq Referenced
    BY <1>11, LetGo DEF EventDone
  <2> QED
    BY <1>11, <2>1, DestructKeeps DEF EventDone, Hold
<1>12. ASSUME NEW S \in SUBSET Mapped, Ping(S)
      PROVE  (LiveInv /\ HeldStaysOpen)'
  <2>1. Referenced' = Referenced
    BY <1>12 DEF Ping, Hold, MainInv, Referenced, Queued, Mapped
  <2> QED
    BY <1>12, <2>1 DEF Ping
<1>13. CASE PingDone
  <2>1. Referenced' \subseteq Referenced
    BY <1>13, LetGo DEF PingDone
  <2> QED
    BY <1>13, <2>1, DestructKeeps DEF PingDone, Hold
<1>14. ASSUME NEW S \in SUBSET Mapped, FarewellCopies(S)
      PROVE  (LiveInv /\ HeldStaysOpen)'
  <2>1. S \cup {s \in held[Main] : sfd[s] = reading} \subseteq Referenced
    BY <1>14 DEF Referenced
  <2>3. Mapped' \subseteq Mapped
    BY <1>14 DEF FarewellCopies, Mapped
  <2>2. Referenced' \subseteq Referenced
    BY <1>14, <2>1, <2>3, HoldLess DEF FarewellCopies
  <2> QED
    BY <1>14, <2>2, DestructKeeps DEF FarewellCopies
<1>15. ASSUME NEW w \in Worker, NEW S \in SUBSET Mapped, WorkerCopies(w, S)
      PROVE  (LiveInv /\ HeldStaysOpen)'
  <2>1. S \cup {wtask[w].sess} \subseteq Referenced
    BY <1>15 DEF WorkerCopies, RefInv, OwnInv, Referenced
  <2>2. Referenced' \subseteq Referenced
    BY <1>15, <2>1, HoldLess DEF WorkerCopies, Mapped
  <2>3. Refusing' = Refusing
    BY <1>15 DEF WorkerCopies, Hold
  <2> QED
    BY <1>15, <2>2, <2>3, DestructKeeps DEF WorkerCopies
<1>16. ASSUME NEW w \in Worker, Take(w)
      PROVE  (LiveInv /\ HeldStaysOpen)'
  <2>1. Queued = Queued' \cup {Head(tasks).sess} /\ Head(tasks).sess \in Session
    BY <1>16, TakeTask DEF Take, Task
  <2>2. held[w] = {}
    BY <1>16 DEF Take, RefInv, OwnInv
  <2>3. Referenced' = Referenced
    BY <1>16, <2>1, <2>2 DEF Take, Hold, Referenced, Mapped
  <2>4. Refusing' = Refusing
    BY <1>16 DEF Take, Hold
  <2> QED
    BY <1>16, <2>3, <2>4 DEF Take
<1>17. ASSUME NEW w \in Worker, DropStale(w)
      PROVE  (LiveInv /\ HeldStaysOpen)'
  <2>1. Referenced' \subseteq Referenced
    BY <1>17, LetGo DEF DropStale, Return
  <2> QED
    BY <1>17, <2>1, DestructKeeps DEF DropStale, Return, Hold
<1>18. ASSUME NEW w \in Worker, Enter(w)
      PROVE  (LiveInv /\ HeldStaysOpen)'
  <2>1. Referenced' = Referenced
    BY <1>18 DEF Enter, Referenced, Queued, Mapped
  <2> QED
    BY <1>18, <2>1 DEF Enter
<1>19. ASSUME NEW w \in Worker, HandlerDone(w)
      PROVE  (LiveInv /\ HeldStaysOpen)'
  <2>1. Referenced' \subseteq Referenced
    BY <1>19, LetGo DEF HandlerDone, Return
  <2> QED
    BY <1>19, <2>1, DestructKeeps DEF HandlerDone, Return, Hold
<1>20. CASE Clear
  <2>1. Referenced' \subseteq Referenced
    BY <1>20 DEF Clear, Referenced, Queued, Mapped
  <2> QED
    BY <1>20, <2>1, DestructKeeps DEF Clear
<1>21. CASE UNCHANGED vars
  <2>1. Referenced' = Referenced
    BY <1>21 DEF vars, Referenced, Queued, Mapped
  <2> QED
    BY <1>21, <2>1 DEF vars
<1> QED
  BY <1>1, <1>2, <1>3, <1>4, <1>5, <1>6, <1>7, <1>8, <1>9, <1>10, <1>11,
     <1>12, <1>13, <1>14, <1>15, <1>16, <1>17, <1>18, <1>19, <1>20, <1>21
  DEF Next, MainStep, WorkerStep

\* The main thread stays alone with what no worker, task or entry refers to.
LEMMA AloneKept ==
    ASSUME UNCHANGED <<held[Main], sessions>>, Queued' \subseteq Queued,
           \A w \in Worker :
               held'[w] \subseteq (UNION {held[v] : v \in Worker}) \cup Queued \cup Mapped,
           NEW s, Alone(s)
    PROVE  Alone(s)'
  BY DEF Alone, Mapped

\* Its session has a number.
LEMMA AloneFd == DInv => \A s \in Session : Alone(s) => sfd[s] \in Fd /\ s \in Referenced
<1> SUFFICES ASSUME DInv, NEW s \in Session, Alone(s)
             PROVE  sfd[s] \in Fd /\ s \in Referenced
  OBVIOUS
<1>1. s \in Referenced
  BY DEF Alone, Referenced, Thread
<1> QED
  BY <1>1 DEF DInv, RefInv, OwnInv, LiveInv, TypeOK

\* What the main thread has.
LEMMA MainStays == DInv /\ [Next]_vars => MainInv'
<1> SUFFICES ASSUME DInv, [Next]_vars PROVE MainInv'
  OBVIOUS
<1> USE DescriptorAssumption DEF DescriptorAssumption, DInv, Thread, kernel, server, main, pool
<1>1. CASE EpollWait
  BY <1>1 DEF EpollWait, MainInv, Alone, TypeOK
<1>2. CASE BatchDone
  BY <1>2 DEF BatchDone, MainInv, Alone, TypeOK
<1>3. ASSUME NEW s \in Session, NEW f \in Fd, Accept(s, f)
      PROVE  MainInv'
  <2>1. s \notin Referenced /\ UNCHANGED <<Queued, Mapped>>
    BY <1>3 DEF Accept, RefInv, OwnInv, LiveInv, Queued, Mapped
  <2>2. held'[Main] = {s} /\ \A w \in Worker : held'[w] = held[w]
    BY <1>3 DEF Accept, Hold, TypeOK
  <2>3. Alone(s)'
    BY <2>1, <2>2 DEF Alone, Referenced
  <2> QED
    BY <1>3, <2>3 DEF Accept, MainInv
<1>4. ASSUME NEW s \in Session, Store(s)
      PROVE  MainInv'
  BY <1>4 DEF Store, Hold, MainInv, Alone, TypeOK
<1>5. ASSUME NEW s \in Session, AddFails(s)
      PROVE  MainInv'
  <2>1. UNCHANGED <<Queued, Mapped, held>>
    BY <1>5 DEF AddFails, Queued, Mapped
  <2>2. Alone(s) /\ sfd[s] \in Fd
    BY <1>5, AloneFd DEF AddFails, MainInv, Alone
  <2>3. Alone(s)'
    BY <2>1, <2>2 DEF Alone
  <2> QED
    BY <1>5, <2>2, <2>3 DEF AddFails, MainInv, TypeOK
<1>6. CASE Refused
  BY <1>6 DEF Refused, Hold, MainInv, Alone, TypeOK
<1>7. CASE AcceptDone
  BY <1>7 DEF AcceptDone, MainInv, Alone, TypeOK
<1>8. ASSUME NEW e \in Event, ClientEvent(e)
      PROVE  MainInv'
  <2>1. CASE sessions[e.fd] = NoSession
    BY <1>8, <2>1 DEF ClientEvent, MainInv
  <2>2. CASE sessions[e.fd] # NoSession
    <3>1. e.fd \in Fd /\ e = [fd |-> e.fd, sess |-> e.sess]
      BY DEF Event
    <3>2. sessions[e.fd] \in Session /\ sessions[e.fd] = e.sess
      BY <1>8, <2>2, <3>1 DEF ClientEvent, EventFresh, TypeOK
    <3> QED
      BY <1>8, <2>2, <3>1, <3>2 DEF ClientEvent, MainInv, Hold, TypeOK
  <2> QED
    BY <2>1, <2>2
<1>9. ASSUME NEW s \in Session, Dispatch(s)
      PROVE  MainInv'
  BY <1>9 DEF Dispatch, MainInv, Alone, TypeOK
<1>10. ASSUME NEW s \in Session, Remove(s)
      PROVE  MainInv'
  BY <1>10 DEF Remove, MainInv, Alone, TypeOK
<1>11. CASE EventDone
  BY <1>11 DEF EventDone, Hold, MainInv, Alone, TypeOK
<1>12. ASSUME NEW S \in SUBSET Mapped, Ping(S)
      PROVE  MainInv'
  BY <1>12 DEF Ping, Hold, MainInv, Alone, TypeOK
<1>13. CASE PingDone
  BY <1>13 DEF PingDone, Hold, MainInv, Alone, TypeOK
<1>14. ASSUME NEW S \in SUBSET Mapped, FarewellCopies(S)
      PROVE  MainInv'
  BY <1>14 DEF FarewellCopies, Hold, MainInv, Alone, TypeOK
<1>15. ASSUME NEW w \in Worker, NEW S \in SUBSET Mapped, WorkerCopies(w, S)
      PROVE  MainInv'
  <2>1. /\ UNCHANGED <<held[Main], sessions, mpc, sfd, batch, reading>>
        /\ Queued' \subseteq Queued
        /\ \A v \in Worker :
               held'[v] \subseteq (UNION {held[u] : u \in Worker}) \cup Queued \cup Mapped
    BY <1>15 DEF WorkerCopies, Hold, Queued, RefInv, OwnInv, TypeOK
  <2>2. \A s \in Session : sfd[s] \in Fd /\ file[sfd[s]] = NoSession => file'[sfd[s]] = NoSession
    BY <1>15, <2>1 DEF WorkerCopies, Destruct, Destroyed, HeldStaysOpen, TypeOK
  <2> QED
    BY <2>1, <2>2, AloneKept, AloneFd DEF MainInv
<1>16. ASSUME NEW w \in Worker, Take(w)
      PROVE  MainInv'
  <2>1. /\ UNCHANGED <<held[Main], sessions, mpc, sfd, batch, reading>>
        /\ Queued' \subseteq Queued
        /\ \A v \in Worker :
               held'[v] \subseteq (UNION {held[u] : u \in Worker}) \cup Queued \cup Mapped
    BY <1>16, TakeTask DEF Take, Hold, TypeOK
  <2>2. \A s \in Session : sfd[s] \in Fd /\ file[sfd[s]] = NoSession => file'[sfd[s]] = NoSession
    BY <1>16, <2>1 DEF Take
  <2> QED
    BY <2>1, <2>2, AloneKept, AloneFd DEF MainInv
<1>17. ASSUME NEW w \in Worker, DropStale(w)
      PROVE  MainInv'
  <2>1. /\ UNCHANGED <<held[Main], sessions, mpc, sfd, batch, reading>>
        /\ Queued' \subseteq Queued
        /\ \A v \in Worker :
               held'[v] \subseteq (UNION {held[u] : u \in Worker}) \cup Queued \cup Mapped
    BY <1>17 DEF DropStale, Return, Hold, Queued, TypeOK
  <2>2. \A s \in Session : sfd[s] \in Fd /\ file[sfd[s]] = NoSession => file'[sfd[s]] = NoSession
    BY <1>17, <2>1 DEF DropStale, Return, Destruct, Destroyed, TypeOK
  <2> QED
    BY <2>1, <2>2, AloneKept, AloneFd DEF MainInv
<1>18. ASSUME NEW w \in Worker, Enter(w)
      PROVE  MainInv'
  <2>1. /\ UNCHANGED <<held[Main], sessions, mpc, sfd, batch, reading>>
        /\ Queued' \subseteq Queued
        /\ \A v \in Worker :
               held'[v] \subseteq (UNION {held[u] : u \in Worker}) \cup Queued \cup Mapped
    BY <1>18 DEF Enter, Queued, TypeOK
  <2>2. \A s \in Session : sfd[s] \in Fd /\ file[sfd[s]] = NoSession => file'[sfd[s]] = NoSession
    BY <1>18, <2>1 DEF Enter
  <2> QED
    BY <2>1, <2>2, AloneKept, AloneFd DEF MainInv
<1>19. ASSUME NEW w \in Worker, HandlerDone(w)
      PROVE  MainInv'
  <2>1. /\ UNCHANGED <<held[Main], sessions, mpc, sfd, batch, reading>>
        /\ Queued' \subseteq Queued
        /\ \A v \in Worker :
               held'[v] \subseteq (UNION {held[u] : u \in Worker}) \cup Queued \cup Mapped
    BY <1>19 DEF HandlerDone, Return, Hold, Queued, TypeOK
  <2>2. \A s \in Session : sfd[s] \in Fd /\ file[sfd[s]] = NoSession => file'[sfd[s]] = NoSession
    BY <1>19, <2>1 DEF HandlerDone, Return, Destruct, Destroyed, TypeOK
  <2> QED
    BY <2>1, <2>2, AloneKept, AloneFd DEF MainInv
<1>20. CASE Clear
  BY <1>20 DEF Clear, MainInv, Alone, TypeOK
<1>21. CASE UNCHANGED vars
  BY <1>21 DEF vars, MainInv, Alone, Queued, Mapped
<1> QED
  BY <1>1, <1>2, <1>3, <1>4, <1>5, <1>6, <1>7, <1>8, <1>9, <1>10, <1>11,
     <1>12, <1>13, <1>14, <1>15, <1>16, <1>17, <1>18, <1>19, <1>20, <1>21
  DEF Next, MainStep, WorkerStep

\* Entries and lambdas.
LEMMA OwnStays == DInv /\ [Next]_vars => OwnInv'
<1> SUFFICES ASSUME DInv, [Next]_vars PROVE OwnInv'
  OBVIOUS
<1> USE DescriptorAssumption DEF DescriptorAssumption, DInv, TypeOK, Thread, kernel, server,
      main, pool, RefInv, OwnInv
<1>1. CASE EpollWait
  BY <1>1 DEF EpollWait
<1>2. CASE BatchDone
  BY <1>2 DEF BatchDone
<1>3. ASSUME NEW s \in Session, NEW f \in Fd, Accept(s, f)
      PROVE  OwnInv'
  <2>1. \A r \in Session : r \in Mapped => r # s
    BY <1>3 DEF Accept, LiveInv, Referenced
  <2> QED
    BY <1>3, <2>1 DEF Accept, Hold, Mapped
<1>4. ASSUME NEW s \in Session, Store(s)
      PROVE  OwnInv'
  <2>1. sfd[s] \in Fd
    BY <1>4 DEF Store, LiveInv, Referenced
  <2> QED
    BY <1>4, <2>1 DEF Store, Hold
<1>5. ASSUME NEW s \in Session, AddFails(s)
      PROVE  OwnInv'
  BY <1>5 DEF AddFails
<1>6. CASE Refused
  BY <1>6 DEF Refused, Hold
<1>7. CASE AcceptDone
  BY <1>7 DEF AcceptDone
<1>8. ASSUME NEW e \in Event, ClientEvent(e)
      PROVE  OwnInv'
  <2>1. UNCHANGED <<sessions, sfd, wpc, wtask>> /\ \A w \in Worker : held'[w] = held[w]
    BY <1>8 DEF ClientEvent, Hold
  <2> QED
    BY <2>1
<1>9. ASSUME NEW s \in Session, Dispatch(s)
      PROVE  OwnInv'
  BY <1>9 DEF Dispatch
<1>10. ASSUME NEW s \in Session, Remove(s)
      PROVE  OwnInv'
  BY <1>10 DEF Remove
<1>11. CASE EventDone
  BY <1>11 DEF EventDone, Hold
<1>12. ASSUME NEW S \in SUBSET Mapped, Ping(S)
      PROVE  OwnInv'
  BY <1>12 DEF Ping, Hold
<1>13. CASE PingDone
  BY <1>13 DEF PingDone, Hold
<1>14. ASSUME NEW S \in SUBSET Mapped, FarewellCopies(S)
      PROVE  OwnInv'
  BY <1>14 DEF FarewellCopies, Hold
<1>15. ASSUME NEW w \in Worker, NEW S \in SUBSET Mapped, WorkerCopies(w, S)
      PROVE  OwnInv'
  BY <1>15 DEF WorkerCopies, Hold
<1>16. ASSUME NEW w \in Worker, Take(w)
      PROVE  OwnInv'
  <2>1. Head(tasks) \in Task
    BY <1>16, TakeTask DEF Take
  <2> QED
    BY <1>16, <2>1 DEF Take, Hold
<1>17. ASSUME NEW w \in Worker, DropStale(w)
      PROVE  OwnInv'
  BY <1>17 DEF DropStale, Return, Hold
<1>18. ASSUME NEW w \in Worker, Enter(w)
      PROVE  OwnInv'
  BY <1>18 DEF Enter
<1>19. ASSUME NEW w \in Worker, HandlerDone(w)
      PROVE  OwnInv'
  BY <1>19 DEF HandlerDone, Return, Hold
<1>20. CASE Clear
  BY <1>20 DEF Clear
<1>21. CASE UNCHANGED vars
  BY <1>21 DEF vars
<1> QED
  BY <1>1, <1>2, <1>3, <1>4, <1>5, <1>6, <1>7, <1>8, <1>9, <1>10, <1>11,
     <1>12, <1>13, <1>14, <1>15, <1>16, <1>17, <1>18, <1>19, <1>20, <1>21
  DEF Next, MainStep, WorkerStep

\* What epoll watches and reports.
LEMMA EventStays == DInv /\ [Next]_vars => (WatchInv /\ EventFresh)'
<1> SUFFICES ASSUME DInv, [Next]_vars PROVE (WatchInv /\ EventFresh)'
  OBVIOUS
<1> USE DescriptorAssumption DEF DescriptorAssumption, DInv, TypeOK, Thread, kernel, server,
      main, pool, WatchInv, Event
<1>1. CASE EpollWait
  <2>1. PICK ready \in SUBSET ({[fd |-> f, sess |-> file[f]] : f \in watched} \cup {Listen}) :
            batch' = ready
    BY <1>1 DEF EpollWait
  <2> QED
    BY <1>1, <2>1 DEF EpollWait, EventFresh
<1>2. CASE BatchDone
  BY <1>2 DEF BatchDone, EventFresh
<1>3. ASSUME NEW s \in Session, NEW f \in Fd, Accept(s, f)
      PROVE  (WatchInv /\ EventFresh)'
  <2>1. f \notin watched
    BY <1>3 DEF Accept
  <2> QED
    BY <1>3, <2>1 DEF Accept, EventFresh
<1>4. ASSUME NEW s \in Session, Store(s)
      PROVE  (WatchInv /\ EventFresh)'
  <2>1. Alone(s) /\ s \in Referenced
    BY <1>4 DEF Store, MainInv, Alone, Referenced
  <2>2. sfd[s] \in Fd /\ file[sfd[s]] = s
    BY <1>4, <2>1 DEF Store, HeldStaysOpen, Refusing
  <2>3. sessions[sfd[s]] = NoSession
    BY <1>4, <2>1, LookupFromOpen DEF Store, Alone, Mapped
  <2>4. WatchInv'
    BY <1>4, <2>2 DEF Store
  <2>5. EventFresh'
    BY <1>4, <2>2, <2>3 DEF Store, EventFresh
  <2> QED
    BY <2>4, <2>5
<1>5. ASSUME NEW s \in Session, AddFails(s)
      PROVE  (WatchInv /\ EventFresh)'
  <2>1. Alone(s) /\ s \in Referenced
    BY <1>5 DEF AddFails, MainInv, Alone, Referenced
  <2>2. sfd[s] \in Fd /\ file[sfd[s]] = s
    BY <1>5, <2>1 DEF AddFails, HeldStaysOpen, Refusing
  <2>3. sfd[s] \notin watched
    BY <1>5, <2>1, <2>2 DEF AddFails, Alone, Mapped
  <2> QED
    BY <1>5, <2>2, <2>3 DEF AddFails, EventFresh
<1>6. CASE Refused
  BY <1>6 DEF Refused, Destruct, EventFresh
<1>7. CASE AcceptDone
  BY <1>7 DEF AcceptDone, EventFresh
<1>8. ASSUME NEW e \in Event, ClientEvent(e)
      PROVE  (WatchInv /\ EventFresh)'
  BY <1>8 DEF ClientEvent, EventFresh
<1>9. ASSUME NEW s \in Session, Dispatch(s)
      PROVE  (WatchInv /\ EventFresh)'
  BY <1>9 DEF Dispatch, EventFresh
<1>10. ASSUME NEW s \in Session, Remove(s)
      PROVE  (WatchInv /\ EventFresh)'
  <2>1. /\ mpc = "read" /\ s \in held[Main] /\ MainInv
    BY <1>10 DEF Remove
  <2>2. reading \in Fd /\ sessions[reading] = s /\ [fd |-> reading, sess |-> s] \notin batch
    BY ONLY <2>1 DEF MainInv
  <2>3. WatchInv'
    BY <1>10, <2>2 DEF Remove
  <2>4. ASSUME NEW e \in batch \ {Listen} PROVE e.fd # reading
    <3>1. e \in Event /\ sessions[e.fd] = e.sess
      BY <1>10 DEF Remove, EventFresh
    <3>2. e = [fd |-> e.fd, sess |-> e.sess]
      BY <3>1
    <3> QED
      BY <2>2, <3>1, <3>2
  <2>5. EventFresh'
    BY <1>10, <2>2, <2>4 DEF Remove, EventFresh
  <2> QED
    BY <2>3, <2>5
<1>11. CASE EventDone
  BY <1>11 DEF EventDone, Destruct, EventFresh
<1>12. ASSUME NEW S \in SUBSET Mapped, Ping(S)
      PROVE  (WatchInv /\ EventFresh)'
  BY <1>12 DEF Ping, EventFresh
<1>13. CASE PingDone
  BY <1>13 DEF PingDone, Destruct, EventFresh
<1>14. ASSUME NEW S \in SUBSET Mapped, FarewellCopies(S)
      PROVE  (WatchInv /\ EventFresh)'
  BY <1>14 DEF FarewellCopies, Destruct, EventFresh
<1>15. ASSUME NEW w \in Worker, NEW S \in SUBSET Mapped, WorkerCopies(w, S)
      PROVE  (WatchInv /\ EventFresh)'
  BY <1>15 DEF WorkerCopies, Destruct, EventFresh
<1>16. ASSUME NEW w \in Worker, Take(w)
      PROVE  (WatchInv /\ EventFresh)'
  BY <1>16 DEF Take, EventFresh
<1>17. ASSUME NEW w \in Worker, DropStale(w)
      PROVE  (WatchInv /\ EventFresh)'
  BY <1>17 DEF DropStale, Return, Destruct, EventFresh
<1>18. ASSUME NEW w \in Worker, Enter(w)
      PROVE  (WatchInv /\ EventFresh)'
  BY <1>18 DEF Enter, EventFresh
<1>19. ASSUME NEW w \in Worker, HandlerDone(w)
      PROVE  (WatchInv /\ EventFresh)'
  BY <1>19 DEF HandlerDone, Return, Destruct, EventFresh
<1>20. CASE Clear
  BY <1>20 DEF Clear, Destruct, EventFresh
<1>21. CASE UNCHANGED vars
  BY <1>21 DEF vars, EventFresh
<1> QED
  BY <1>1, <1>2, <1>3, <1>4, <1>5, <1>6, <1>7, <1>8, <1>9, <1>10, <1>11,
     <1>12, <1>13, <1>14, <1>15, <1>16, <1>17, <1>18, <1>19, <1>20, <1>21
  DEF Next, MainStep, WorkerStep

\* What sessions_ has under a number is what the number is open for.
LEMMA EntryOpen ==
    ASSUME DInv, NEW f \in Fd
    PROVE  sessions[f] \in {file[f], NoSession}
<1>1. ASSUME sessions[f] # NoSession PROVE file[f] = sessions[f]
  <2> DEFINE r == sessions[f]
  <2>1. r \in Mapped /\ r \in Referenced /\ sfd[r] = f
    BY <1>1 DEF DInv, RefInv, OwnInv, Mapped, Referenced
  <2>2. r \notin Refusing
    BY <2>1 DEF Refusing, DInv, MainInv, Alone
  <2> QED
    BY <2>1, <2>2 DEF DInv, HeldStaysOpen
<1> QED
  BY <1>1

\* Tasks that wait and lambdas that have not checked have their session.
LEMMA PendingType ==
    DInv => \A k \in Pending :
                /\ k \in Task /\ k.sess \in Referenced
                /\ k.sess \in Queued \cup UNION {held[w] : w \in Worker}
<1> SUFFICES ASSUME DInv, NEW k \in Pending
             PROVE  /\ k \in Task
                    /\ k.sess \in Queued \cup UNION {held[w] : w \in Worker}
  BY DEF Referenced, Thread
<1>1. CASE \E i \in DOMAIN tasks : k = tasks[i]
  BY <1>1 DEF DInv, TypeOK, Queued
<1>2. CASE \E w \in Worker : wpc[w] = "check" /\ k = wtask[w]
  <2>1. PICK w \in Worker : wpc[w] = "check" /\ k = wtask[w]
    BY <1>2
  <2>2. wtask[w] \in Task /\ wtask[w].sess \in held[w]
    BY <2>1 DEF DInv, RefInv, OwnInv
  <2> QED
    BY <2>1, <2>2
<1> QED
  BY <1>1, <1>2 DEF Pending

\* The generations.
LEMMA GenerationStays == DInv /\ [Next]_vars => (GenInv /\ GenerationExact)'
<1> SUFFICES ASSUME DInv, [Next]_vars PROVE (GenInv /\ GenerationExact)'
  OBVIOUS
<1> USE DescriptorAssumption DEF DescriptorAssumption, DInv, TypeOK, Thread, kernel, server,
      main, pool, GenInv, GenerationExact, Task
<1>1. CASE EpollWait
  <2>1. Pending' \subseteq Pending /\ UNCHANGED Mapped
    BY <1>1 DEF EpollWait, Pending, Mapped
  <2> QED
    BY <1>1, <2>1 DEF EpollWait
<1>2. CASE BatchDone
  <2>1. Pending' \subseteq Pending /\ UNCHANGED Mapped
    BY <1>2 DEF BatchDone, Pending, Mapped
  <2> QED
    BY <1>2, <2>1 DEF BatchDone
<1>3. ASSUME NEW s \in Session, NEW f \in Fd, Accept(s, f)
      PROVE  (GenInv /\ GenerationExact)'
  <2>1. UNCHANGED <<Pending, Mapped>>
    BY <1>3 DEF Accept, Pending, Mapped
  <2>2. s \notin Referenced
    BY <1>3 DEF Accept, RefInv, LiveInv
  <2>3. \A k \in Pending : k \in Task /\ k.sess # s
    BY <2>2, PendingType
  <2>4. \A r \in Session : gen'[r] = IF r = s THEN nextGen ELSE gen[r]
    BY <1>3 DEF Accept
  <2> QED
    BY <1>3, <2>1, <2>3, <2>4 DEF Accept
<1>4. ASSUME NEW s \in Session, Store(s)
      PROVE  (GenInv /\ GenerationExact)'
  <2>1. Alone(s) /\ s \in Referenced
    BY <1>4 DEF Store, MainInv, Alone, Referenced
  <2>2. sfd[s] \in Fd /\ sessions[sfd[s]] = NoSession
    BY <1>4, <2>1, LookupFromOpen DEF Store, Alone, Mapped
  <2>3. Mapped' = Mapped \cup {s}
    BY <1>4, <2>2 DEF Store, Mapped
  <2>4. Pending' = Pending
    BY <1>4 DEF Store, Pending
  <2>5. \A k \in Pending : k.sess # s
    BY <2>1, PendingType DEF Alone
  <2> QED
    BY <1>4, <2>3, <2>4, <2>5 DEF Store
<1>5. ASSUME NEW s \in Session, AddFails(s)
      PROVE  (GenInv /\ GenerationExact)'
  <2>1. Pending' \subseteq Pending /\ UNCHANGED Mapped
    BY <1>5 DEF AddFails, Pending, Mapped
  <2> QED
    BY <1>5, <2>1 DEF AddFails
<1>6. CASE Refused
  <2>1. Pending' \subseteq Pending /\ UNCHANGED Mapped
    BY <1>6 DEF Refused, Pending, Mapped
  <2> QED
    BY <1>6, <2>1 DEF Refused
<1>7. CASE AcceptDone
  <2>1. Pending' \subseteq Pending /\ UNCHANGED Mapped
    BY <1>7 DEF AcceptDone, Pending, Mapped
  <2> QED
    BY <1>7, <2>1 DEF AcceptDone
<1>8. ASSUME NEW e \in Event, ClientEvent(e)
      PROVE  (GenInv /\ GenerationExact)'
  <2>1. Pending' \subseteq Pending /\ UNCHANGED Mapped
    BY <1>8 DEF ClientEvent, Pending, Mapped
  <2> QED
    BY <1>8, <2>1 DEF ClientEvent
<1>9. ASSUME NEW s \in Session, Dispatch(s)
      PROVE  (GenInv /\ GenerationExact)'
  <2> DEFINE new == [sess |-> s, gen |-> gen[s]]
  <2>1. new \in Task
    OBVIOUS
  <2>2. Pending' = Pending \cup {new} /\ UNCHANGED Mapped
    <3>1. {tasks'[i] : i \in DOMAIN tasks'} = {tasks[i] : i \in DOMAIN tasks} \cup {new}
      BY <1>9, <2>1, AppendTask DEF Dispatch
    <3>2. UNCHANGED <<wpc, wtask, sessions>>
      BY <1>9 DEF Dispatch
    <3> QED
      BY ONLY <3>1, <3>2 DEF Pending, Mapped
  <2>3. s \in Mapped
    <3>1. mpc = "read" /\ s \in held[Main] /\ MainInv
      BY <1>9 DEF Dispatch
    <3>2. reading \in Fd /\ sessions[reading] = s
      BY ONLY <3>1 DEF MainInv
    <3> QED
      BY <3>2 DEF Mapped
  <2> QED
    BY <1>9, <2>2, <2>3 DEF Dispatch
<1>10. ASSUME NEW s \in Session, Remove(s)
      PROVE  (GenInv /\ GenerationExact)'
  <2>1. mpc = "read" /\ s \in held[Main] /\ MainInv
    BY <1>10 DEF Remove
  <2>2. reading \in Fd /\ sessions[reading] = s
    BY ONLY <2>1 DEF MainInv
  <2>3. Mapped' = Mapped \ {s}
    <3>1. \A f \in Fd : sessions[f] = s => f = reading
      BY <2>2 DEF RefInv, OwnInv
    <3> QED
      BY <1>10, <2>2, <3>1 DEF Remove, Mapped
  <2>4. Pending' = Pending
    BY <1>10 DEF Remove, Pending
  <2>5. \A k \in Pending : k \in Task
    BY PendingType
  <2>6. /\ nextGen' = nextGen + 1
        /\ \A r \in Session : gen'[r] = IF r = s THEN nextGen + 1 ELSE gen[r]
    BY <1>10 DEF Remove
  <2> QED
    BY <1>10, <2>3, <2>4, <2>5, <2>6 DEF Remove
<1>11. CASE EventDone
  <2>1. Pending' \subseteq Pending /\ UNCHANGED Mapped
    BY <1>11 DEF EventDone, Pending, Mapped
  <2> QED
    BY <1>11, <2>1 DEF EventDone
<1>12. ASSUME NEW S \in SUBSET Mapped, Ping(S)
      PROVE  (GenInv /\ GenerationExact)'
  <2>1. Pending' \subseteq Pending /\ UNCHANGED Mapped
    BY <1>12 DEF Ping, Pending, Mapped
  <2> QED
    BY <1>12, <2>1 DEF Ping
<1>13. CASE PingDone
  <2>1. Pending' \subseteq Pending /\ UNCHANGED Mapped
    BY <1>13 DEF PingDone, Pending, Mapped
  <2> QED
    BY <1>13, <2>1 DEF PingDone
<1>14. ASSUME NEW S \in SUBSET Mapped, FarewellCopies(S)
      PROVE  (GenInv /\ GenerationExact)'
  <2>1. Pending' \subseteq Pending /\ UNCHANGED Mapped
    BY <1>14 DEF FarewellCopies, Pending, Mapped
  <2> QED
    BY <1>14, <2>1 DEF FarewellCopies
<1>15. ASSUME NEW w \in Worker, NEW S \in SUBSET Mapped, WorkerCopies(w, S)
      PROVE  (GenInv /\ GenerationExact)'
  <2>1. Pending' \subseteq Pending /\ UNCHANGED Mapped
    BY <1>15 DEF WorkerCopies, Pending, Mapped
  <2> QED
    BY <1>15, <2>1 DEF WorkerCopies
<1>16. ASSUME NEW w \in Worker, Take(w)
      PROVE  (GenInv /\ GenerationExact)'
  <2>1. Pending' \subseteq Pending /\ UNCHANGED Mapped
    <3>1. {tasks[i] : i \in DOMAIN tasks}
              = {tasks'[i] : i \in DOMAIN tasks'} \cup {Head(tasks)}
      BY <1>16, TakeTask DEF Take
    <3> QED
      BY <1>16, <3>1 DEF Take, Pending, Mapped
  <2> QED
    BY <1>16, <2>1 DEF Take
<1>17. ASSUME NEW w \in Worker, DropStale(w)
      PROVE  (GenInv /\ GenerationExact)'
  <2>1. Pending' \subseteq Pending /\ UNCHANGED Mapped
    BY <1>17 DEF DropStale, Return, Pending, Mapped
  <2> QED
    BY <1>17, <2>1 DEF DropStale, Return
<1>18. ASSUME NEW w \in Worker, Enter(w)
      PROVE  (GenInv /\ GenerationExact)'
  <2>1. Pending' \subseteq Pending /\ UNCHANGED Mapped
    BY <1>18 DEF Enter, Pending, Mapped
  <2> QED
    BY <1>18, <2>1 DEF Enter
<1>19. ASSUME NEW w \in Worker, HandlerDone(w)
      PROVE  (GenInv /\ GenerationExact)'
  <2>1. Pending' \subseteq Pending /\ UNCHANGED Mapped
    BY <1>19 DEF HandlerDone, Return, Pending, Mapped
  <2> QED
    BY <1>19, <2>1 DEF HandlerDone, Return
<1>20. CASE Clear
  <2>1. Pending' = Pending
    BY <1>20 DEF Clear, Pending
  <2> QED
    BY <1>20, <2>1 DEF Clear
<1>21. CASE UNCHANGED vars
  <2>1. UNCHANGED <<Pending, Mapped>>
    BY <1>21 DEF vars, Pending, Mapped
  <2> QED
    BY <1>21, <2>1 DEF vars
<1> QED
  BY <1>1, <1>2, <1>3, <1>4, <1>5, <1>6, <1>7, <1>8, <1>9, <1>10, <1>11,
     <1>12, <1>13, <1>14, <1>15, <1>16, <1>17, <1>18, <1>19, <1>20, <1>21
  DEF Next, MainStep, WorkerStep

-----------------------------------------------------------------------------
(* The theorems.                                                           *)

LEMMA InitHolds == Init => DInv
<1> SUFFICES ASSUME Init PROVE DInv
  OBVIOUS
<1>1. Queued = {} /\ Mapped = {} /\ Referenced = {} /\ Pending = {}
  BY DEF Init, Queued, Mapped, Referenced, Thread, Pending
<1>2. TypeOK
  BY DescriptorAssumption DEF DescriptorAssumption, Init, TypeOK, Thread
<1>3. MainInv /\ WatchInv /\ EventFresh
  BY DEF Init, MainInv, WatchInv, EventFresh, Thread
<1>4. RefInv /\ HeldStaysOpen
  BY <1>1 DEF Init, RefInv, LiveInv, OwnInv, HeldStaysOpen, Thread
<1>5. GenInv /\ GenerationExact
  BY <1>1 DEF Init, GenInv, GenerationExact
<1> QED
  BY <1>2, <1>3, <1>4, <1>5 DEF DInv

\* At every moment a session lives exactly while somebody refers to it, sessions_
\* has it under its own number, and epoll watches nothing else.
THEOREM DescriptorsInvariant == Spec => []DInv
<1>1. DInv /\ [Next]_vars => DInv'
  BY TypeStep, OpenStep, MainStays, OwnStays, EventStays, GenerationStays DEF DInv, RefInv
<1> QED
  BY InitHolds, <1>1, PTL DEF Spec

\* Type correctness of the connections.
THEOREM TypeCorrect == Spec => []TypeOK
<1>1. DInv => TypeOK
  BY DEF DInv
<1> QED
  BY <1>1, DescriptorsInvariant, PTL

\* A number stays with the socket of its session while anybody has a shared_ptr.
THEOREM HeldStaysOpenHolds == Spec => []HeldStaysOpen
<1>1. DInv => HeldStaysOpen
  BY DEF DInv
<1> QED
  BY <1>1, DescriptorsInvariant, PTL

\* send_to_fd finds the session its caller has, or none.
THEOREM LookupRightHolds == Spec => []LookupRight
<1>1. ASSUME DInv, NEW t \in Thread, NEW s \in held[t]
      PROVE  sessions[sfd[s]] \in {s, NoSession}
  <2>1. s \in Referenced
    BY DEF Referenced
  <2>2. CASE s \notin Refusing
    <3>1. sfd[s] \in Fd /\ file[sfd[s]] = s
      BY <1>1, <2>1, <2>2 DEF DInv, HeldStaysOpen
    <3> QED
      BY <1>1, <3>1, EntryOpen
  <2>3. CASE s \in Refusing
    <3>1. mpc = "refused" /\ s \in held[Main]
      BY <2>3 DEF Refusing
    <3>2. Alone(s) /\ s \in Session /\ file[sfd[s]] = NoSession
      BY <1>1, <3>1 DEF DInv, MainInv, Alone
    <3>3. sfd[s] \in Fd
      BY <1>1, <3>2, AloneFd
    <3> QED
      BY <1>1, <3>2, <3>3, EntryOpen
  <2> QED
    BY <2>2, <2>3
<1>2. DInv => LookupRight
  BY <1>1 DEF LookupRight
<1> QED
  BY <1>2, DescriptorsInvariant, PTL

\* An event is looked up under the number of its own connection.
THEOREM EventFreshHolds == Spec => []EventFresh
<1>1. DInv => EventFresh
  BY DEF DInv
<1> QED
  BY <1>1, DescriptorsInvariant, PTL

\* A task is dropped exactly if its connection was removed.
THEOREM GenerationExactHolds == Spec => []GenerationExact
<1>1. DInv => GenerationExact
  BY DEF DInv
<1> QED
  BY <1>1, DescriptorsInvariant, PTL
=============================================================================
