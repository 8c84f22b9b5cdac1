---------------------------- MODULE MessagingProofs ----------------------------
(***************************************************************************)
(* Proofs about Messaging, for every number of connections, names, workers, *)
(* messages and limits: type correctness, and that private messages stay    *)
(* private, that no message of the room is missed around a login, and that  *)
(* the user lists are current.                                              *)
(***************************************************************************)
EXTENDS Messaging, SequenceTheorems, FiniteSetTheorems, TLAPS

-----------------------------------------------------------------------------
(* Type correctness.                                                       *)

\* Messages are only added, at the end.
Grows ==
    message' = message \/ \E m \in Message : message' = Append(message, m)

\* Old messages stay what they are.
LEMMA GrowsLen ==
    ASSUME message \in Seq(Message), Grows
    PROVE  /\ message' \in Seq(Message)
           /\ Len(message) \in Nat /\ Len(message') \in Nat
           /\ Len(message) <= Len(message')
           /\ 1..Len(message) \subseteq 1..Len(message')
           /\ \A i \in 1..Len(message) : message'[i] = message[i]
BY DEF Grows

\* A step of one handler keeps those of all the others.
LEMMA BecomeFits ==
    ASSUME IInv, NEW t \in Thread, NEW g \in Handler, Become(t, g), Grows,
           HandlerFits(g, Len(message'))
    PROVE  /\ h' \in [Thread -> Handler] /\ HandlersFit'
           /\ h'[t] = g
           /\ \A r \in Thread \ {t} : h'[r] = h[r]
<1>1. /\ h \in [Thread -> Handler]
      /\ message \in Seq(Message)
      /\ \A r \in Thread : HandlerFits(h[r], Len(message))
  BY DEF IInv, TypeOK, HandlersFit
<1>2. /\ h' \in [Thread -> Handler]
      /\ h'[t] = g
      /\ \A r \in Thread \ {t} : h'[r] = h[r]
  BY <1>1 DEF Become
<1>3. \A n, m \in Nat : 1..n \subseteq 1..m =>
        \A f \in Handler : HandlerFits(f, n) => HandlerFits(f, m)
  BY DEF HandlerFits
<1>4. \A r \in Thread : HandlerFits(h'[r], Len(message'))
  BY <1>1, <1>2, <1>3, GrowsLen
<1> QED
  BY <1>2, <1>4 DEF HandlersFit

\* A thread that is done has locals that fit.
LEMMA IdleFits == Idle \in Handler /\ \A n \in Nat : HandlerFits(Idle, n)
  <1>1. Idle \in Handler
    BY DEF Idle, Handler, NameOrNone
  <1>2. \A n \in Nat : HandlerFits(Idle, n)
    BY DEF Idle, HandlerFits, LoginPC
  <1> QED BY <1>1, <1>2

\* So has one that sends to any sessions.
LEMMA SendingFits ==
    ASSUME NEW t \in Thread, h[t] \in Handler,
           NEW n \in Nat, HandlerFits(h[t], n), NEW l,
           \/ h[t].pc \in {"targets", "deliver"} /\ l = "deliver"
           \/ h[t].pc \in {"listtargets", "sendlist"} /\ l = "sendlist",
           NEW S \in SUBSET Session
    PROVE  Sending(t, l, S) \in Handler /\ HandlerFits(Sending(t, l, S), n)
<1>1. CASE S = {}
  BY <1>1, IdleFits DEF Sending
<1>2. CASE S # {}
  <2>1. PICK f \in Handler : f = h[t] OBVIOUS
  <2>2. PICK g : g = [f EXCEPT !.pc = l, !.todo = S] OBVIOUS
  <2>3. g \in Handler
    BY <2>1, <2>2 DEF Handler, ChatPC, ListPC
  <2>4. HandlerFits(g, n)
    BY <2>1, <2>2 DEF Handler, HandlerFits, LoginPC
  <2> QED BY <1>2, <2>1, <2>2, <2>3, <2>4 DEF Sending
<1> QED BY <1>1, <1>2

\* Every step keeps the types, and messages are only added.
LEMMA TypeStep ==
    ASSUME IInv, [Next]_vars
    PROVE  IInv' /\ Grows
<1> USE MessagingAssumption DEF MessagingAssumption
<1>1. /\ \A t \in Thread : h[t] \in Handler /\ HandlerFits(h[t], Len(message))
      /\ Worker \subseteq Thread
      /\ \A s \in Session : username[s] \in NameOrNone
  BY DEF IInv, TypeOK, HandlersFit, Thread
<1>2. /\ live \in [Session -> BOOLEAN] /\ online \subseteq User /\ now \in Nat
      /\ message \in Seq(Message) /\ Len(message) \in Nat
  BY DEF IInv, TypeOK
<1>3. 1..Len(message) \subseteq Nat
  BY <1>2
<1>4. ASSUME NEW w \in Worker, SetUsername(w)
      PROVE  IInv' /\ Grows
  <2>1. h[w].pc = "enter" /\ h[w].sess \in Session /\ message' = message /\
     h[w].to \in User
    BY <1>4, <1>1, <1>2 DEF SetUsername, At, HandlerFits, LoginPC
  <2>3. PICK g : Become(w, g) /\ g = [h[w] EXCEPT !.pc = "online"]
    BY <1>4 DEF SetUsername, Goto
  <2>4. g \in Handler /\ HandlerFits(g, Len(message'))
    <3>1. h[w] \in Handler /\ HandlerFits(h[w], Len(message))
      BY <1>1
    <3>2. g \in Handler
      BY <1>2, <1>3, <2>1, <2>3, <3>1 DEF Handler, LoginPC
    <3>3. HandlerFits(g, Len(message'))
      BY <1>2, <2>1, <2>3, <3>1 DEF Handler, HandlerFits, LoginPC
    <3> QED
      BY <3>2, <3>3
  <2>5. Grows
    BY <2>1 DEF Grows
  <2>6. h' \in [Thread -> Handler] /\ HandlersFit' /\ message' \in Seq(Message)
    BY <1>1, <1>2, <2>3, <2>4, <2>5, BecomeFits, GrowsLen
  <2> QED
    BY <1>4, <1>1, <1>2, <2>1, <2>5, <2>6, GrowsLen DEF SetUsername, IInv,
       TypeOK, inboxes, histories, Receive, HandlerFits, NameOrNone, Handler
<1>5. ASSUME NEW w \in Worker, GoOnline(w)
      PROVE  IInv' /\ Grows
  <2>1. h[w].pc = "online" /\ h[w].sess \in Session /\ message' = message /\
     h[w].to \in User
    BY <1>5, <1>1, <1>2 DEF GoOnline, At, HandlerFits, LoginPC
  <2>3. PICK g : Become(w, g) /\ g = [h[w] EXCEPT !.pc = "readhist"]
    BY <1>5 DEF GoOnline, Goto
  <2>4. g \in Handler /\ HandlerFits(g, Len(message'))
    <3>1. h[w] \in Handler /\ HandlerFits(h[w], Len(message))
      BY <1>1
    <3>2. g \in Handler
      BY <1>2, <1>3, <2>1, <2>3, <3>1 DEF Handler, LoginPC
    <3>3. HandlerFits(g, Len(message'))
      BY <1>2, <2>1, <2>3, <3>1 DEF Handler, HandlerFits, LoginPC
    <3> QED
      BY <3>2, <3>3
  <2>5. Grows
    BY <2>1 DEF Grows
  <2>6. h' \in [Thread -> Handler] /\ HandlersFit' /\ message' \in Seq(Message)
    BY <1>1, <1>2, <2>3, <2>4, <2>5, BecomeFits, GrowsLen
  <2> QED
    BY <1>5, <1>1, <1>2, <2>1, <2>5, <2>6, GrowsLen DEF GoOnline, IInv,
       TypeOK, inboxes, histories, NameOrNone, Handler
<1>6. ASSUME NEW w \in Worker, ReadHistory(w)
      PROVE  IInv' /\ Grows
  <2>1. h[w].pc = "readhist" /\ h[w].sess \in Session /\ message' = message
    BY <1>6, <1>1, <1>2 DEF ReadHistory, At, HandlerFits
  <2>2. PICK R \in SUBSET (1..Len(message)) :
           Become(w, [h[w] EXCEPT !.pc = "sendhist", !.rows = R])
    BY <1>6, <1>1, <1>2, <2>1 DEF ReadHistory, Recent, kSubset, RowsOfRoom
  <2>3. PICK g :
           /\ Become(w, g)
           /\ g = [h[w] EXCEPT !.pc = "sendhist", !.rows = R]
    BY <2>2
  <2>4. g \in Handler /\ HandlerFits(g, Len(message'))
    <3>1. h[w] \in Handler /\ HandlerFits(h[w], Len(message))
      BY <1>1
    <3>2. g \in Handler
      BY <1>2, <1>3, <2>1, <2>3, <3>1 DEF Handler, LoginPC
    <3>3. HandlerFits(g, Len(message'))
      BY <1>2, <2>1, <2>3, <3>1 DEF Handler, HandlerFits, LoginPC
    <3> QED
      BY <3>2, <3>3
  <2>5. Grows
    BY <2>1 DEF Grows
  <2>6. h' \in [Thread -> Handler] /\ HandlersFit' /\ message' \in Seq(Message)
    BY <1>1, <1>2, <2>3, <2>4, <2>5, BecomeFits, GrowsLen
  <2> QED
    BY <1>6, <1>1, <1>2, <2>1, <2>5, <2>6, GrowsLen DEF ReadHistory, IInv,
       TypeOK, inboxes, histories
<1>7. ASSUME NEW w \in Worker, SendHistory(w)
      PROVE  IInv' /\ Grows
  <2>1. h[w].pc = "sendhist" /\ h[w].sess \in Session /\ message' = message
    BY <1>7, <1>1, <1>2 DEF SendHistory, At, HandlerFits
  <2>3. PICK g :
           /\ Become(w, g)
           /\ g = [h[w] EXCEPT !.pc = "compose", !.rows = {}]
    BY <1>7 DEF SendHistory
  <2>4. g \in Handler /\ HandlerFits(g, Len(message'))
    <3>1. h[w] \in Handler /\ HandlerFits(h[w], Len(message))
      BY <1>1
    <3>2. g \in Handler
      BY <1>2, <1>3, <2>1, <2>3, <3>1 DEF Handler, ListPC
    <3>3. HandlerFits(g, Len(message'))
      BY <1>2, <2>1, <2>3, <3>1 DEF Handler, HandlerFits, LoginPC
    <3> QED
      BY <3>2, <3>3
  <2>5. Grows
    BY <2>1 DEF Grows
  <2>6. h' \in [Thread -> Handler] /\ HandlersFit' /\ message' \in Seq(Message)
    BY <1>1, <1>2, <2>3, <2>4, <2>5, BecomeFits, GrowsLen
  <2> QED
    BY <1>7, <1>1, <1>2, <2>1, <2>5, <2>6, GrowsLen DEF SendHistory, IInv,
       TypeOK, inboxes, histories, Receive, HandlerFits, NameOrNone, Handler
<1>8. ASSUME NEW w \in Worker, FindTarget(w)
      PROVE  IInv' /\ Grows
  <2>1. h[w].pc = "find" /\ h[w].sess \in Session /\ message' = message
    BY <1>8, <1>1, <1>2 DEF FindTarget, At, HandlerFits
  <2>2. PICK p \in Session :
           \/ Become(w, Idle)
           \/ Become(w, [h[w] EXCEPT !.pc = "sender", !.peer = p])
    BY <1>8, <1>1, <1>2, <2>1 DEF FindTarget, Return, Carriers, HandlerFits
  <2>3. PICK g :
           /\ Become(w, g)
           /\ (g = Idle \/ g = [h[w] EXCEPT !.pc = "sender", !.peer = p])
    BY <2>2
  <2>4. g \in Handler /\ HandlerFits(g, Len(message'))
    <3>1. CASE g = Idle
      BY <1>2, <2>1, <3>1, IdleFits
    <3>2. CASE g = [h[w] EXCEPT !.pc = "sender", !.peer = p]
      <4>1. h[w] \in Handler /\ HandlerFits(h[w], Len(message))
        BY <1>1
      <4>2. g \in Handler
        BY <2>1, <3>2, <4>1 DEF Handler, ChatPC
      <4>3. HandlerFits(g, Len(message'))
        BY <1>2, <2>1, <3>2, <4>1 DEF Handler, HandlerFits, LoginPC
      <4> QED
        BY <4>2, <4>3
    <3> QED
      BY <2>3, <3>1, <3>2
  <2>5. Grows
    BY <2>1 DEF Grows
  <2>6. h' \in [Thread -> Handler] /\ HandlersFit' /\ message' \in Seq(Message)
    BY <1>1, <1>2, <2>3, <2>4, <2>5, BecomeFits, GrowsLen
  <2> QED
    BY <1>8, <1>1, <1>2, <2>1, <2>5, <2>6, GrowsLen DEF FindTarget, IInv,
       TypeOK, inboxes, histories
<1>9. ASSUME NEW w \in Worker, ReadSender(w)
      PROVE  IInv' /\ Grows
  <2>1. h[w].pc = "sender" /\ h[w].sess \in Session /\ message' = message
    BY <1>9, <1>1, <1>2 DEF ReadSender, At, HandlerFits
  <2>2. PICK n \in Nat, u \in NameOrNone :
           Become(w, [h[w] EXCEPT !.pc = "store", !.ts = n, !.who = u])
    <3>1. now' \in Nat
      BY <1>9, <1>2 DEF ReadSender
    <3>2. username[h[w].sess] \in NameOrNone
      BY <1>1, <2>1
    <3> QED
      BY <1>9, <3>1, <3>2 DEF ReadSender
  <2>3. PICK g :
           /\ Become(w, g)
           /\ g = [h[w] EXCEPT !.pc = "store", !.ts = n, !.who = u]
    BY <2>2
  <2>4. g \in Handler /\ HandlerFits(g, Len(message'))
    <3>1. h[w] \in Handler /\ HandlerFits(h[w], Len(message))
      BY <1>1
    <3>2. g \in Handler
      BY <1>2, <1>3, <2>1, <2>3, <3>1 DEF Handler, ChatPC
    <3>3. HandlerFits(g, Len(message'))
      BY <1>2, <2>1, <2>3, <3>1 DEF Handler, HandlerFits, LoginPC
    <3> QED
      BY <3>2, <3>3
  <2>5. Grows
    BY <2>1 DEF Grows
  <2>6. h' \in [Thread -> Handler] /\ HandlersFit' /\ message' \in Seq(Message)
    BY <1>1, <1>2, <2>3, <2>4, <2>5, BecomeFits, GrowsLen
  <2> QED
    BY <1>9, <1>1, <1>2, <2>1, <2>5, <2>6, GrowsLen DEF ReadSender, IInv,
       TypeOK, inboxes, histories
<1>10. ASSUME NEW w \in Worker, StoreMessage(w)
      PROVE  IInv' /\ Grows
  <2>1. h[w].pc = "store" /\ h[w].sess \in Session /\ Len(message') =
     Len(message) + 1
    BY <1>10, <1>1, <1>2 DEF StoreMessage, At, HandlerFits
  <2>2. PICK n \in Nat : n = Len(message) + 1
    BY <1>2
  <2>3. PICK g :
           /\ Become(w, g)
           /\ g = [h[w] EXCEPT
                     !.pc = IF h[w].to = Room THEN "targets" ELSE "target",
                     !.num = n]
    BY <1>10, <2>2 DEF StoreMessage
  <2>4. g \in Handler /\ HandlerFits(g, Len(message'))
    <3>1. CASE h[w].to = Room
      <4>1. g = [h[w] EXCEPT !.pc = "targets", !.num = n]
        BY <2>3, <3>1
      <4>2. g \in Handler
        <5>1. h[w] \in Handler
          BY <1>1
        <5> QED
          BY <2>2, <4>1, <5>1 DEF Handler, ChatPC
      <4> QED
        BY <1>1, <1>2, <2>1, <2>2, <3>1, <4>1, <4>2 DEF Handler,
           HandlerFits, LoginPC
    <3>2. CASE h[w].to # Room
      <4>1. g = [h[w] EXCEPT !.pc = "target", !.num = n]
        BY <2>3, <3>2
      <4>2. g \in Handler
        <5>1. h[w] \in Handler
          BY <1>1
        <5> QED
          BY <2>2, <4>1, <5>1 DEF Handler, ChatPC
      <4> QED
        BY <1>1, <1>2, <2>1, <2>2, <3>2, <4>1, <4>2 DEF Handler,
           HandlerFits, LoginPC
    <3> QED
      BY <3>1, <3>2
  <2>5. Grows
    BY <1>10, <1>1, <1>2, <2>1 DEF StoreMessage, Handler, Message,
       HandlerFits, Grows, NameOrNone
  <2>6. h' \in [Thread -> Handler] /\ HandlersFit' /\ message' \in Seq(Message)
    BY <1>1, <1>2, <2>3, <2>4, <2>5, BecomeFits, GrowsLen
  <2> QED
    BY <1>10, <1>1, <1>2, <2>1, <2>5, <2>6, GrowsLen DEF StoreMessage, IInv,
       TypeOK, inboxes, histories
<1>11. ASSUME NEW w \in Worker, MessageTargets(w)
      PROVE  IInv' /\ Grows
  <2>1. h[w].pc = "targets" /\ h[w].sess \in Session /\ message' = message
    BY <1>11, <1>1, <1>2 DEF MessageTargets, At, HandlerFits
  <2>3. PICK g : Become(w, g) /\ g = Sending(w, "deliver", Targets(w))
    BY <1>11 DEF MessageTargets
  <2>4. g \in Handler /\ HandlerFits(g, Len(message'))
    BY <1>1, <1>2, <2>1, <2>3, SendingFits DEF Targets, Handler
  <2>5. Grows
    BY <2>1 DEF Grows
  <2>6. h' \in [Thread -> Handler] /\ HandlersFit' /\ message' \in Seq(Message)
    BY <1>1, <1>2, <2>3, <2>4, <2>5, BecomeFits, GrowsLen
  <2> QED
    BY <1>11, <1>1, <1>2, <2>1, <2>5, <2>6, GrowsLen DEF MessageTargets,
       IInv, TypeOK, inboxes, histories
<1>12. ASSUME NEW w \in Worker, Deliver(w)
      PROVE  IInv' /\ Grows
  <2>1. h[w].pc = "deliver" /\ h[w].sess \in Session /\ message' = message
     /\ h[w].num \in 1..Len(message)
    BY <1>12, <1>1, <1>2 DEF Deliver, At, HandlerFits
  <2>2. PICK s \in h[w].todo :
           Become(w, Sending(w, "deliver", h[w].todo \ {s}))
    BY <1>12, <1>1, <1>2, <2>1 DEF Deliver
  <2>3. PICK g : Become(w, g) /\ g = Sending(w, "deliver", h[w].todo \ {s})
    BY <2>2
  <2>4. g \in Handler /\ HandlerFits(g, Len(message'))
    BY <1>1, <1>2, <2>1, <2>3, SendingFits DEF Targets, Handler
  <2>5. Grows
    BY <2>1 DEF Grows
  <2>6. h' \in [Thread -> Handler] /\ HandlersFit' /\ message' \in Seq(Message)
    BY <1>1, <1>2, <2>3, <2>4, <2>5, BecomeFits, GrowsLen
  <2> QED
    BY <1>12, <1>1, <1>2, <2>1, <2>5, <2>6, GrowsLen DEF Deliver, IInv,
       TypeOK, inboxes, histories, Receive, HandlerFits, NameOrNone, Handler
<1>13. ASSUME NEW w \in Worker, SendTarget(w)
      PROVE  IInv' /\ Grows
  <2>1. h[w].pc = "target" /\ h[w].sess \in Session /\ message' = message /\
     h[w].peer \in Session /\ h[w].num \in 1..Len(message)
    BY <1>13, <1>1, <1>2 DEF SendTarget, At, HandlerFits
  <2>3. PICK g : Become(w, g) /\ g = [h[w] EXCEPT !.pc = "echo"]
    BY <1>13 DEF SendTarget, Goto
  <2>4. g \in Handler /\ HandlerFits(g, Len(message'))
    <3>1. h[w] \in Handler /\ HandlerFits(h[w], Len(message))
      BY <1>1
    <3>2. g \in Handler
      BY <1>2, <1>3, <2>1, <2>3, <3>1 DEF Handler, ChatPC
    <3>3. HandlerFits(g, Len(message'))
      BY <1>2, <2>1, <2>3, <3>1 DEF Handler, HandlerFits, LoginPC
    <3> QED
      BY <3>2, <3>3
  <2>5. Grows
    BY <2>1 DEF Grows
  <2>6. h' \in [Thread -> Handler] /\ HandlersFit' /\ message' \in Seq(Message)
    BY <1>1, <1>2, <2>3, <2>4, <2>5, BecomeFits, GrowsLen
  <2> QED
    BY <1>13, <1>1, <1>2, <2>1, <2>5, <2>6, GrowsLen DEF SendTarget, IInv,
       TypeOK, inboxes, histories, Receive, HandlerFits, NameOrNone, Handler
<1>14. ASSUME NEW w \in Worker, SendEcho(w)
      PROVE  IInv' /\ Grows
  <2>1. h[w].pc = "echo" /\ h[w].sess \in Session /\ message' = message /\
     h[w].num \in 1..Len(message)
    BY <1>14, <1>1, <1>2 DEF SendEcho, At, HandlerFits
  <2>3. PICK g : Become(w, g) /\ g = Idle
    BY <1>14 DEF SendEcho, Return
  <2>4. g \in Handler /\ HandlerFits(g, Len(message'))
    BY <1>2, <2>1, <2>3, IdleFits
  <2>5. Grows
    BY <2>1 DEF Grows
  <2>6. h' \in [Thread -> Handler] /\ HandlersFit' /\ message' \in Seq(Message)
    BY <1>1, <1>2, <2>3, <2>4, <2>5, BecomeFits, GrowsLen
  <2> QED
    BY <1>14, <1>1, <1>2, <2>1, <2>5, <2>6, GrowsLen DEF SendEcho, IInv,
       TypeOK, inboxes, histories, Receive, HandlerFits, NameOrNone, Handler
<1>15. ASSUME NEW w \in Worker, ReadRequestor(w)
      PROVE  IInv' /\ Grows
  <2>1. h[w].pc = "reqname" /\ h[w].sess \in Session /\ message' = message
    BY <1>15, <1>1, <1>2 DEF ReadRequestor, At, HandlerFits
  <2>2. PICK u \in NameOrNone :
           Become(w, [h[w] EXCEPT !.pc = "reqread", !.who = u])
    BY <1>15, <1>1, <1>2, <2>1 DEF ReadRequestor, HandlerFits
  <2>3. PICK g :
           /\ Become(w, g)
           /\ g = [h[w] EXCEPT !.pc = "reqread", !.who = u]
    BY <2>2
  <2>4. g \in Handler /\ HandlerFits(g, Len(message'))
    <3>1. h[w] \in Handler /\ HandlerFits(h[w], Len(message))
      BY <1>1
    <3>2. g \in Handler
      BY <1>2, <1>3, <2>1, <2>3, <3>1 DEF Handler, ReqPC
    <3>3. HandlerFits(g, Len(message'))
      BY <1>2, <2>1, <2>3, <3>1 DEF Handler, HandlerFits, LoginPC
    <3> QED
      BY <3>2, <3>3
  <2>5. Grows
    BY <2>1 DEF Grows
  <2>6. h' \in [Thread -> Handler] /\ HandlersFit' /\ message' \in Seq(Message)
    BY <1>1, <1>2, <2>3, <2>4, <2>5, BecomeFits, GrowsLen
  <2> QED
    BY <1>15, <1>1, <1>2, <2>1, <2>5, <2>6, GrowsLen DEF ReadRequestor,
       IInv, TypeOK, inboxes, histories
<1>16. ASSUME NEW w \in Worker, GetHistory(w)
      PROVE  IInv' /\ Grows
  <2>1. h[w].pc = "reqread" /\ h[w].sess \in Session /\ message' = message
    BY <1>16, <1>1, <1>2 DEF GetHistory, At, HandlerFits
  <2>2. PICK R \in SUBSET (1..Len(message)) :
           Become(w, [h[w] EXCEPT !.pc = "reqsend", !.rows = R])
    BY <1>16, <1>1, <1>2, <2>1 DEF GetHistory, Recent, kSubset, RowsOfRoom,
       RowsBetween
  <2>3. PICK g :
           /\ Become(w, g)
           /\ g = [h[w] EXCEPT !.pc = "reqsend", !.rows = R]
    BY <2>2
  <2>4. g \in Handler /\ HandlerFits(g, Len(message'))
    <3>1. h[w] \in Handler /\ HandlerFits(h[w], Len(message))
      BY <1>1
    <3>2. g \in Handler
      BY <1>2, <1>3, <2>1, <2>3, <3>1 DEF Handler, ReqPC
    <3>3. HandlerFits(g, Len(message'))
      BY <1>2, <2>1, <2>3, <3>1 DEF Handler, HandlerFits, LoginPC
    <3> QED
      BY <3>2, <3>3
  <2>5. Grows
    BY <2>1 DEF Grows
  <2>6. h' \in [Thread -> Handler] /\ HandlersFit' /\ message' \in Seq(Message)
    BY <1>1, <1>2, <2>3, <2>4, <2>5, BecomeFits, GrowsLen
  <2> QED
    BY <1>16, <1>1, <1>2, <2>1, <2>5, <2>6, GrowsLen DEF GetHistory, IInv,
       TypeOK, inboxes, histories
<1>17. ASSUME NEW w \in Worker, SendResponse(w)
      PROVE  IInv' /\ Grows
  <2>1. h[w].pc = "reqsend" /\ h[w].sess \in Session /\ message' = message
    BY <1>17, <1>1, <1>2 DEF SendResponse, At, HandlerFits
  <2>3. PICK g : Become(w, g) /\ g = Idle
    BY <1>17 DEF SendResponse, Return
  <2>4. g \in Handler /\ HandlerFits(g, Len(message'))
    BY <1>2, <2>1, <2>3, IdleFits
  <2>5. Grows
    BY <2>1 DEF Grows
  <2>6. h' \in [Thread -> Handler] /\ HandlersFit' /\ message' \in Seq(Message)
    BY <1>1, <1>2, <2>3, <2>4, <2>5, BecomeFits, GrowsLen
  <2> QED
    BY <1>17, <1>1, <1>2, <2>1, <2>5, <2>6, GrowsLen DEF SendResponse, IInv,
       TypeOK, inboxes, histories, Receive, HandlerFits, NameOrNone, Handler
<1>18. ASSUME NEW t \in Thread, LogoutCheck(t)
      PROVE  IInv' /\ Grows
  <2>1. h[t].pc = "logout" /\ h[t].sess \in Session /\ message' = message
    BY <1>18, <1>1, <1>2 DEF LogoutCheck, At, HandlerFits
  <2>3. PICK g :
           /\ Become(t, g)
           /\ (g = Idle \/ g = [h[t] EXCEPT !.pc = "name"])
    BY <1>18 DEF LogoutCheck, Return, Goto
  <2>4. g \in Handler /\ HandlerFits(g, Len(message'))
    <3>1. CASE g = Idle
      BY <1>2, <2>1, <3>1, IdleFits
    <3>2. CASE g = [h[t] EXCEPT !.pc = "name"]
      <4>1. h[t] \in Handler /\ HandlerFits(h[t], Len(message))
        BY <1>1
      <4>2. g \in Handler
        BY <2>1, <3>2, <4>1 DEF Handler, LogoutPC
      <4>3. HandlerFits(g, Len(message'))
        BY <1>2, <2>1, <3>2, <4>1 DEF Handler, HandlerFits, LoginPC
      <4> QED
        BY <4>2, <4>3
    <3> QED
      BY <2>3, <3>1, <3>2
  <2>5. Grows
    BY <2>1 DEF Grows
  <2>6. h' \in [Thread -> Handler] /\ HandlersFit' /\ message' \in Seq(Message)
    BY <1>1, <1>2, <2>3, <2>4, <2>5, BecomeFits, GrowsLen
  <2> QED
    BY <1>18, <1>1, <1>2, <2>1, <2>5, <2>6, GrowsLen DEF LogoutCheck, IInv,
       TypeOK, inboxes, histories
<1>19. ASSUME NEW t \in Thread, LogoutName(t)
      PROVE  IInv' /\ Grows
  <2>1. h[t].pc = "name" /\ h[t].sess \in Session /\ message' = message
    BY <1>19, <1>1, <1>2 DEF LogoutName, At, HandlerFits
  <2>2. PICK u \in NameOrNone :
           Become(t, [h[t] EXCEPT !.pc = "offline", !.who = u])
    BY <1>19, <1>1, <1>2, <2>1 DEF LogoutName, HandlerFits
  <2>3. PICK g :
           /\ Become(t, g)
           /\ g = [h[t] EXCEPT !.pc = "offline", !.who = u]
    BY <2>2
  <2>4. g \in Handler /\ HandlerFits(g, Len(message'))
    <3>1. h[t] \in Handler /\ HandlerFits(h[t], Len(message))
      BY <1>1
    <3>2. g \in Handler
      BY <1>2, <1>3, <2>1, <2>3, <3>1 DEF Handler, LogoutPC
    <3>3. HandlerFits(g, Len(message'))
      BY <1>2, <2>1, <2>3, <3>1 DEF Handler, HandlerFits, LoginPC
    <3> QED
      BY <3>2, <3>3
  <2>5. Grows
    BY <2>1 DEF Grows
  <2>6. h' \in [Thread -> Handler] /\ HandlersFit' /\ message' \in Seq(Message)
    BY <1>1, <1>2, <2>3, <2>4, <2>5, BecomeFits, GrowsLen
  <2> QED
    BY <1>19, <1>1, <1>2, <2>1, <2>5, <2>6, GrowsLen DEF LogoutName, IInv,
       TypeOK, inboxes, histories
<1>20. ASSUME NEW t \in Thread, LogoutOffline(t)
      PROVE  IInv' /\ Grows
  <2>1. h[t].pc = "offline" /\ h[t].sess \in Session /\ message' = message
    BY <1>20, <1>1, <1>2 DEF LogoutOffline, At, HandlerFits
  <2>3. PICK g : Become(t, g) /\ g = [h[t] EXCEPT !.pc = "clearname"]
    BY <1>20 DEF LogoutOffline, Goto
  <2>4. g \in Handler /\ HandlerFits(g, Len(message'))
    <3>1. h[t] \in Handler /\ HandlerFits(h[t], Len(message))
      BY <1>1
    <3>2. g \in Handler
      BY <1>2, <1>3, <2>1, <2>3, <3>1 DEF Handler, LogoutPC
    <3>3. HandlerFits(g, Len(message'))
      BY <1>2, <2>1, <2>3, <3>1 DEF Handler, HandlerFits, LoginPC
    <3> QED
      BY <3>2, <3>3
  <2>5. Grows
    BY <2>1 DEF Grows
  <2>6. h' \in [Thread -> Handler] /\ HandlersFit' /\ message' \in Seq(Message)
    BY <1>1, <1>2, <2>3, <2>4, <2>5, BecomeFits, GrowsLen
  <2> QED
    BY <1>20, <1>1, <1>2, <2>1, <2>5, <2>6, GrowsLen DEF LogoutOffline,
       IInv, TypeOK, inboxes, histories, NameOrNone, Handler
<1>21. ASSUME NEW t \in Thread, LogoutClear(t)
      PROVE  IInv' /\ Grows
  <2>1. h[t].pc = "clearname" /\ h[t].sess \in Session /\ message' = message
    BY <1>21, <1>1, <1>2 DEF LogoutClear, At, HandlerFits
  <2>3. PICK g : Become(t, g) /\ g = [h[t] EXCEPT !.pc = "compose"]
    BY <1>21 DEF LogoutClear, Goto
  <2>4. g \in Handler /\ HandlerFits(g, Len(message'))
    <3>1. h[t] \in Handler /\ HandlerFits(h[t], Len(message))
      BY <1>1
    <3>2. g \in Handler
      BY <1>2, <1>3, <2>1, <2>3, <3>1 DEF Handler, ListPC
    <3>3. HandlerFits(g, Len(message'))
      BY <1>2, <2>1, <2>3, <3>1 DEF Handler, HandlerFits, LoginPC
    <3> QED
      BY <3>2, <3>3
  <2>5. Grows
    BY <2>1 DEF Grows
  <2>6. h' \in [Thread -> Handler] /\ HandlersFit' /\ message' \in Seq(Message)
    BY <1>1, <1>2, <2>3, <2>4, <2>5, BecomeFits, GrowsLen
  <2> QED
    BY <1>21, <1>1, <1>2, <2>1, <2>5, <2>6, GrowsLen DEF LogoutClear, IInv,
       TypeOK, inboxes, histories, NameOrNone, Handler
<1>22. ASSUME NEW t \in Thread, ComposeList(t)
      PROVE  IInv' /\ Grows
  <2>1. h[t].pc = "compose" /\ h[t].sess \in Session /\ message' = message
    BY <1>22, <1>1, <1>2 DEF ComposeList, At, HandlerFits
  <2>3. PICK g :
           /\ Become(t, g)
           /\ g = [h[t] EXCEPT !.pc = "listtargets", !.names = online]
    BY <1>22 DEF ComposeList
  <2>4. g \in Handler /\ HandlerFits(g, Len(message'))
    <3>1. h[t] \in Handler /\ HandlerFits(h[t], Len(message))
      BY <1>1
    <3>2. g \in Handler
      BY <1>2, <1>3, <2>1, <2>3, <3>1 DEF Handler, ListPC
    <3>3. HandlerFits(g, Len(message'))
      BY <1>2, <2>1, <2>3, <3>1 DEF Handler, HandlerFits, LoginPC
    <3> QED
      BY <3>2, <3>3
  <2>5. Grows
    BY <2>1 DEF Grows
  <2>6. h' \in [Thread -> Handler] /\ HandlersFit' /\ message' \in Seq(Message)
    BY <1>1, <1>2, <2>3, <2>4, <2>5, BecomeFits, GrowsLen
  <2> QED
    BY <1>22, <1>1, <1>2, <2>1, <2>5, <2>6, GrowsLen DEF ComposeList, IInv,
       TypeOK, inboxes, histories
<1>23. ASSUME NEW t \in Thread, ListTargets(t)
      PROVE  IInv' /\ Grows
  <2>1. h[t].pc = "listtargets" /\ h[t].sess \in Session /\ message' =
     message
    BY <1>23, <1>1, <1>2 DEF ListTargets, At, HandlerFits
  <2>3. PICK g : Become(t, g) /\ g = Sending(t, "sendlist", Targets(t))
    BY <1>23 DEF ListTargets
  <2>4. g \in Handler /\ HandlerFits(g, Len(message'))
    BY <1>1, <1>2, <2>1, <2>3, SendingFits DEF Targets, Handler
  <2>5. Grows
    BY <2>1 DEF Grows
  <2>6. h' \in [Thread -> Handler] /\ HandlersFit' /\ message' \in Seq(Message)
    BY <1>1, <1>2, <2>3, <2>4, <2>5, BecomeFits, GrowsLen
  <2> QED
    BY <1>23, <1>1, <1>2, <2>1, <2>5, <2>6, GrowsLen DEF ListTargets, IInv,
       TypeOK, inboxes, histories
<1>24. ASSUME NEW t \in Thread, SendList(t)
      PROVE  IInv' /\ Grows
  <2>1. h[t].pc = "sendlist" /\ h[t].sess \in Session /\ message' = message
    BY <1>24, <1>1, <1>2 DEF SendList, At, HandlerFits
  <2>2. PICK s \in h[t].todo :
           Become(t, Sending(t, "sendlist", h[t].todo \ {s}))
    BY <1>24, <1>1, <1>2, <2>1 DEF SendList
  <2>3. PICK g : Become(t, g) /\ g = Sending(t, "sendlist", h[t].todo \ {s})
    BY <2>2
  <2>4. g \in Handler /\ HandlerFits(g, Len(message'))
    BY <1>1, <1>2, <2>1, <2>3, SendingFits DEF Targets, Handler
  <2>5. Grows
    BY <2>1 DEF Grows
  <2>6. h' \in [Thread -> Handler] /\ HandlersFit' /\ message' \in Seq(Message)
    BY <1>1, <1>2, <2>3, <2>4, <2>5, BecomeFits, GrowsLen
  <2> QED
    BY <1>24, <1>1, <1>2, <2>1, <2>5, <2>6, GrowsLen DEF SendList, IInv,
       TypeOK, inboxes, histories, NameOrNone, Handler
<1>25. ASSUME NEW s \in Session, Remove(s)
       PROVE  IInv' /\ Grows
  <2>1. Main \in Thread /\ message' = message
    BY <1>25 DEF Remove, Thread
  <2>2. PICK g :
           /\ Become(Main, g)
           /\ g = [Idle EXCEPT !.pc = "logout", !.sess = s]
    BY <1>25 DEF Remove
  <2>3. g \in Handler /\ HandlerFits(g, Len(message'))
    BY <1>2, <2>1, <2>2 DEF Idle, Handler, HandlerFits, LoginPC, LogoutPC,
       NameOrNone
  <2>4. Grows
    BY <2>1 DEF Grows
  <2>5. h' \in [Thread -> Handler] /\ HandlersFit' /\ message' \in Seq(Message)
    BY <1>1, <1>2, <2>1, <2>2, <2>3, <2>4, BecomeFits, GrowsLen
  <2> QED
    BY <1>25, <1>1, <1>2, <2>1, <2>4, <2>5 DEF Remove, IInv, TypeOK, inboxes,
       histories
<1>26. ASSUME NEW w \in Worker, NEW s \in Session, BeginFrame(w, s)
       PROVE  IInv' /\ Grows
  <2>1. PICK l \in {"enter", "logout", "sender", "find", "reqname"},
             to \in NameOrNone \cup {Room} :
            /\ Begin(w, s, l, to)
            /\ l \in {"enter", "find"} => to \in User
            /\ l \in {"sender", "reqname"} => to \in User \cup {Room}
            /\ l = "sender" => to = Room
    BY <1>26 DEF BeginFrame, BeginLogin, BeginLogout, BeginBroadcast,
       BeginPrivate, BeginHistoryReq, NameOrNone
  <2>2. message' = message
    BY <2>1 DEF Begin
  <2>3. PICK g : /\ Become(w, g)
                 /\ g = [Idle EXCEPT !.pc = l, !.sess = s, !.to = to]
    BY <2>1 DEF Begin
  <2>4. g \in Handler
    BY <2>1, <2>3 DEF Idle, Handler, LoginPC, LogoutPC, ChatPC, ReqPC,
       NameOrNone
  <2>5. HandlerFits(g, Len(message'))
    BY <1>2, <2>1, <2>2, <2>3 DEF Idle, HandlerFits, LoginPC
  <2>6. Grows
    BY <2>2 DEF Grows
  <2>7. h' \in [Thread -> Handler] /\ HandlersFit' /\ message' \in Seq(Message)
    BY <1>1, <1>2, <2>3, <2>4, <2>5, <2>6, BecomeFits, GrowsLen
  <2> QED
    BY <1>2, <2>1, <2>2, <2>6, <2>7 DEF Begin, IInv, TypeOK, inboxes,
       histories
<1>27. CASE UNCHANGED vars
  BY <1>27 DEF Grows, vars, inboxes, histories, IInv, TypeOK, HandlersFit
<1> QED
  BY <1>1, <1>4, <1>5, <1>6, <1>7, <1>8, <1>9, <1>10, <1>11, <1>12, <1>13,
     <1>14, <1>15, <1>16, <1>17, <1>18, <1>19, <1>20, <1>21, <1>22, <1>23,
     <1>24, <1>25, <1>26, <1>27 DEF Next, WorkerStep, Logout, Announce, Thread

LEMMA TypeInit == Init => IInv
<1> SUFFICES ASSUME Init PROVE IInv
  OBVIOUS
<1> USE MessagingAssumption DEF MessagingAssumption
<1>1. message \in Seq(Message) /\ Len(message) = 0
  BY DEF Init
<1>2. h \in [Thread -> Handler] /\ HandlersFit
  BY <1>1, IdleFits DEF Init, HandlersFit
<1>3. got \in [Session -> SUBSET (1..Len(message))]
      /\ hist \in [Session -> SUBSET (1..Len(message))]
  BY <1>1 DEF Init
<1>4. username \in [Session -> NameOrNone] /\ online \subseteq User
  BY DEF Init, NameOrNone
<1>5. list \in [Session -> SUBSET User]
      /\ carried \in [Session -> SUBSET User]
  BY <1>4 DEF Init, NameOrNone
<1> QED
  BY <1>1, <1>2, <1>3, <1>4, <1>5 DEF Init, IInv, TypeOK

\* Every variable keeps its type: what is delivered or shown as history is a
\* message that was stored before (store_message, broadcast, get_history).
THEOREM TypeCorrect == Spec => []TypeOK
<1>1. Spec => []IInv
  BY TypeInit, TypeStep, PTL DEF Spec
<1>2. IInv => TypeOK
  BY DEF IInv
<1> QED
  BY <1>1, <1>2, PTL

\* A step of one handler leaves the others as they are.
LEMMA BecomeHandler ==
    ASSUME IInv, IInv', NEW t \in Thread, NEW g, Become(t, g)
    PROVE  /\ g \in Handler /\ HandlerFits(g, Len(message'))
           /\ h'[t] = g
           /\ \A r \in Thread : r # t => h'[r] = h[r]
BY DEF IInv, TypeOK, HandlersFit, Become

-----------------------------------------------------------------------------
(* PrivateConfined.                                                        *)

\* A handler confines its message also when there are more messages and names.
LEMMA ConfinesGrows ==
    ASSUME IInv, Grows, NEW f \in Handler, HandlerFits(f, Len(message)),
           Confines(f, message, carried),
           \A s \in Session : carried[s] \subseteq carried'[s]
    PROVE  Confines(f, message', carried')
<1>1. \A i \in 1..Len(message) : message'[i] = message[i]
  BY GrowsLen DEF IInv, TypeOK
<1>2. f.pc \in {"sender", "store", "target"} /\ f.to # Room
          => f.to \in carried'[f.peer]
  BY DEF HandlerFits, Confines
<1>3. f.pc \in {"store", "target", "echo", "reqread"}
          => f.who \in carried'[f.sess] \cup {NoUser}
  BY DEF HandlerFits, Confines
<1>4. f.pc \in {"targets", "deliver", "target", "echo"}
          => message'[f.num] = message[f.num]
  BY <1>1 DEF HandlerFits
<1>5. ASSUME f.pc \in {"sendhist", "reqsend"}, NEW i \in f.rows
      PROVE  Concerns(message'[i], carried'[f.sess])
  <2>1. f.sess \in Session /\ i \in 1..Len(message)
    BY <1>5 DEF HandlerFits
  <2>2. Concerns(message[i], carried[f.sess])
    BY <1>5 DEF Confines
  <2> QED
    BY <1>1, <2>1, <2>2 DEF Concerns
<1> QED
  BY <1>2, <1>3, <1>4, <1>5 DEF Confines

\* It suffices to look at the handler that moves and at what it delivers.
LEMMA PrivateKeep ==
    ASSUME IInv, IInv', Grows, PrivateInv,
           NEW t \in Thread, NEW g, Become(t, g),
           Confines(g, message', carried'),
           \A s \in Session : carried[s] \subseteq carried'[s],
           \A s \in Session :
               username'[s] \in {username[s], NoUser} \cup carried'[s],
           \A s \in Session : \A i \in got'[s] \cup hist'[s] :
               \/ i \in got[s] \cup hist[s]
               \/ Concerns(message[i], carried[s]) /\ i \in 1..Len(message)
    PROVE  PrivateInv'
<1>1. \A s \in Session : username'[s] \in carried'[s] \cup {NoUser}
  BY DEF PrivateInv
<1>2. ASSUME NEW r \in Thread
      PROVE  Confines(h'[r], message', carried')
  <2>1. CASE r = t
    BY <2>1, BecomeHandler
  <2>2. CASE r # t
    <3>1. h'[r] = h[r] /\ h[r] \in Handler /\ HandlerFits(h[r], Len(message))
      BY <2>2, BecomeHandler DEF IInv, TypeOK, HandlersFit
    <3>2. Confines(h[r], message, carried)
      BY DEF PrivateInv
    <3> QED
      BY <3>1, <3>2, ConfinesGrows
  <2> QED
    BY <2>1, <2>2
<1>3. ASSUME NEW s \in Session, NEW i \in got'[s] \cup hist'[s]
      PROVE  Concerns(message'[i], carried'[s])
  <2>1. i \in 1..Len(message) /\ Concerns(message[i], carried[s])
    BY <1>3 DEF PrivateInv, IInv, TypeOK
  <2>2. message'[i] = message[i]
    BY <2>1, GrowsLen DEF IInv, TypeOK
  <2> QED
    BY <2>1, <2>2 DEF Concerns
<1> QED
  BY <1>1, <1>2, <1>3 DEF PrivateInv

LEMMA PrivateStep ==
    ASSUME IInv, IInv', Grows, PrivateInv, [Next]_vars
    PROVE  PrivateInv'
<1> USE MessagingAssumption DEF MessagingAssumption, NameOrNone
<1>1. /\ \A t \in Thread :
             /\ h[t] \in Handler
             /\ HandlerFits(h[t], Len(message))
             /\ Confines(h[t], message, carried)
      /\ Worker \subseteq Thread
      /\ \A s \in Session : username[s] \in carried[s] \cup {NoUser}
      /\ message \in Seq(Message) /\ Len(message) \in Nat
      /\ carried \in [Session -> SUBSET User]
      /\ got \in [Session -> SUBSET (1..Len(message))]
      /\ hist \in [Session -> SUBSET (1..Len(message))]
      /\ username \in [Session -> NameOrNone]
  BY DEF IInv, TypeOK, HandlersFit, PrivateInv, Thread

<1>2. ASSUME NEW w \in Worker, SetUsername(w)
      PROVE  PrivateInv'
  <2>1. h[w].pc = "enter" /\ message' = message /\ h[w].sess \in Session /\
     h[w].to \in User
    BY <1>2, <1>1 DEF SetUsername, At, inboxes, histories, HandlerFits,
       LoginPC
  <2>3. PICK g : Become(w, g) /\ g = [h[w] EXCEPT !.pc = "online"]
    BY <1>2 DEF SetUsername, Goto
  <2>4. Confines(g, message', carried')
    BY <1>1, <2>1, <2>3 DEF Handler, Confines
  <2> QED
    BY <1>2, <1>1, <2>1, <2>3, <2>4, PrivateKeep DEF SetUsername, inboxes,
       histories, Thread, Receive, Confines, Concerns
<1>3. ASSUME NEW w \in Worker, GoOnline(w)
      PROVE  PrivateInv'
  <2>1. h[w].pc = "online" /\ message' = message /\ carried' = carried
    BY <1>3, <1>1 DEF GoOnline, At, inboxes, histories
  <2>3. PICK g : Become(w, g) /\ g = [h[w] EXCEPT !.pc = "readhist"]
    BY <1>3 DEF GoOnline, Goto
  <2>4. Confines(g, message', carried')
    BY <1>1, <2>1, <2>3 DEF Handler, Confines
  <2> QED
    BY <1>3, <1>1, <2>1, <2>3, <2>4, PrivateKeep DEF GoOnline, inboxes,
       histories, Thread
<1>4. ASSUME NEW w \in Worker, ReadHistory(w)
      PROVE  PrivateInv'
  <2>1. h[w].pc = "readhist" /\ message' = message /\ carried' = carried
    BY <1>4, <1>1 DEF ReadHistory, At, inboxes, histories
  <2>2. PICK R \in SUBSET (1..Len(message)) :
           /\ Become(w, [h[w] EXCEPT !.pc = "sendhist", !.rows = R])
           /\ R \subseteq RowsOfRoom
    BY <1>4, <1>1 DEF ReadHistory, Recent, kSubset, RowsOfRoom, RowsBetween
  <2>3. PICK g :
           /\ Become(w, g)
           /\ g = [h[w] EXCEPT !.pc = "sendhist", !.rows = R]
    BY <2>2
  <2>4. Confines(g, message', carried')
    BY <1>1, <2>1, <2>2, <2>3 DEF Handler, Confines, RowsOfRoom, Concerns
  <2> QED
    BY <1>4, <1>1, <2>1, <2>3, <2>4, PrivateKeep DEF ReadHistory, inboxes,
       histories, Thread
<1>5. ASSUME NEW w \in Worker, SendHistory(w)
      PROVE  PrivateInv'
  <2>1. h[w].pc = "sendhist" /\ message' = message /\ carried' = carried /\
     h[w].sess \in Session
    BY <1>5, <1>1 DEF SendHistory, At, inboxes, histories, HandlerFits
  <2>3. PICK g :
           /\ Become(w, g)
           /\ g = [h[w] EXCEPT !.pc = "compose", !.rows = {}]
    BY <1>5 DEF SendHistory
  <2>4. Confines(g, message', carried')
    BY <1>1, <2>1, <2>3 DEF Handler, Confines
  <2>6. \A i \in h[w].rows :
           i \in 1..Len(message) /\ Concerns(message[i], carried[h[w].sess])
    BY <1>1, <2>1 DEF Confines, Concerns, HandlerFits
  <2>7. \A r \in Session :
           hist'[r] \subseteq hist[r]
               \cup (IF r = h[w].sess THEN h[w].rows ELSE {})
    BY <1>5, <1>1, <2>1 DEF SendHistory, Receive
  <2> QED
    BY <1>5, <1>1, <2>1, <2>3, <2>4, <2>6, <2>7, PrivateKeep DEF
       SendHistory, inboxes, histories, Thread
<1>6. ASSUME NEW w \in Worker, FindTarget(w)
      PROVE  PrivateInv'
  <2>1. h[w].pc = "find" /\ message' = message /\ carried' = carried
    BY <1>6, <1>1 DEF FindTarget, At, inboxes, histories
  <2>3. PICK g :
           /\ Become(w, g)
           /\ (g = Idle \/ \E p \in Carriers(h[w].to) : g = [h[w] EXCEPT
                  !.pc = "sender", !.peer = p])
    BY <1>6 DEF FindTarget, Return
  <2>4. Confines(g, message', carried')
    <3>1. CASE g = Idle
      BY <3>1 DEF Idle, Confines
    <3>2. ASSUME NEW p \in Carriers(h[w].to),
                 g = [h[w] EXCEPT !.pc = "sender", !.peer = p]
          PROVE  Confines(g, message', carried')
      <4>1. p \in Session /\ username[p] = h[w].to /\ h[w].to # NoUser
        BY <1>1, <2>1 DEF Carriers, HandlerFits
      <4> QED
        BY <1>1, <2>1, <3>2, <4>1 DEF Handler, Confines
    <3> QED
      BY <2>3, <3>1, <3>2
  <2> QED
    BY <1>6, <1>1, <2>1, <2>3, <2>4, PrivateKeep DEF FindTarget, inboxes,
       histories, Thread
<1>7. ASSUME NEW w \in Worker, ReadSender(w)
      PROVE  PrivateInv'
  <2>1. h[w].pc = "sender" /\ message' = message /\ carried' = carried /\
     h[w].sess \in Session
    BY <1>7, <1>1 DEF ReadSender, At, inboxes, histories, HandlerFits
  <2>3. PICK g :
           /\ Become(w, g)
           /\ g = [h[w] EXCEPT !.pc = "store", !.ts = now', !.who =
                  username[h[w].sess]]
    BY <1>7 DEF ReadSender
  <2>4. Confines(g, message', carried')
    BY <1>1, <2>1, <2>3 DEF Handler, Confines
  <2> QED
    BY <1>7, <1>1, <2>1, <2>3, <2>4, PrivateKeep DEF ReadSender, inboxes,
       histories, Thread
<1>8. ASSUME NEW w \in Worker, StoreMessage(w)
      PROVE  PrivateInv'
  <2>1. h[w].pc = "store" /\ carried' = carried
    BY <1>8, <1>1 DEF StoreMessage, At, inboxes, histories
  <2>3. PICK g :
           /\ Become(w, g)
           /\ g = [h[w] EXCEPT !.pc = IF h[w].to = Room THEN "targets"
                  ELSE "target", !.num = Len(message) + 1]
    BY <1>8 DEF StoreMessage
  <2>4. Confines(g, message', carried')
    BY <1>1, <2>1, <2>3, <1>8 DEF Handler, Confines, StoreMessage
  <2> QED
    BY <1>8, <1>1, <2>1, <2>3, <2>4, PrivateKeep DEF StoreMessage, inboxes,
       histories, Thread
<1>9. ASSUME NEW w \in Worker, MessageTargets(w)
      PROVE  PrivateInv'
  <2>1. h[w].pc = "targets" /\ message' = message /\ carried' = carried
    BY <1>9, <1>1 DEF MessageTargets, At, inboxes, histories
  <2>3. PICK g : Become(w, g) /\ g = Sending(w, "deliver", Targets(w))
    BY <1>9 DEF MessageTargets
  <2>4. Confines(g, message', carried')
    BY <1>1, <2>1, <2>3 DEF Handler, Idle, Confines, Sending
  <2> QED
    BY <1>9, <1>1, <2>1, <2>3, <2>4, PrivateKeep DEF MessageTargets,
       inboxes, histories, Thread
<1>10. ASSUME NEW w \in Worker, Deliver(w)
      PROVE  PrivateInv'
  <2>1. h[w].pc = "deliver" /\ message' = message /\ carried' = carried /\
     h[w].num \in 1..Len(message)
    BY <1>10, <1>1 DEF Deliver, At, inboxes, histories, HandlerFits
  <2>2. PICK s \in h[w].todo :
           /\ Become(w, Sending(w, "deliver", h[w].todo \ {s}))
           /\ got' = Receive(got, s, {h[w].num})
    BY <1>10 DEF Deliver
  <2>3. PICK g : Become(w, g) /\ g = Sending(w, "deliver", h[w].todo \ {s})
    BY <2>2
  <2>4. Confines(g, message', carried')
    BY <1>1, <2>1, <2>3 DEF Handler, Idle, Confines, Sending
  <2>5. s \in Session
    BY <1>1, <2>2 DEF Handler
  <2>6. \A i \in {h[w].num} :
           i \in 1..Len(message) /\ Concerns(message[i], carried[s])
    BY <1>1, <2>1 DEF Confines, Concerns, HandlerFits
  <2>7. \A r \in Session :
           got'[r] \subseteq got[r] \cup (IF r = s THEN {h[w].num} ELSE {})
    BY <1>10, <1>1, <2>1, <2>2, <2>5 DEF Deliver, Receive
  <2> QED
    BY <1>10, <1>1, <2>1, <2>3, <2>4, <2>6, <2>7, PrivateKeep DEF Deliver,
       inboxes, histories, Thread
<1>11. ASSUME NEW w \in Worker, SendTarget(w)
      PROVE  PrivateInv'
  <2>1. h[w].pc = "target" /\ message' = message /\ carried' = carried /\
     h[w].peer \in Session /\ h[w].num \in 1..Len(message)
    BY <1>11, <1>1 DEF SendTarget, At, inboxes, histories, HandlerFits
  <2>3. PICK g : Become(w, g) /\ g = [h[w] EXCEPT !.pc = "echo"]
    BY <1>11 DEF SendTarget, Goto
  <2>4. Confines(g, message', carried')
    BY <1>1, <2>1, <2>3 DEF Handler, Confines
  <2>6. \A i \in {h[w].num} :
           i \in 1..Len(message) /\ Concerns(message[i], carried[h[w].peer])
    BY <1>1, <2>1 DEF Confines, Concerns, HandlerFits
  <2>7. \A r \in Session :
           got'[r] \subseteq got[r]
               \cup (IF r = h[w].peer THEN {h[w].num} ELSE {})
    BY <1>11, <1>1, <2>1 DEF SendTarget, Receive
  <2>8. \A r \in Session : \A i \in got'[r] \cup hist'[r] :
           \/ i \in got[r] \cup hist[r]
           \/ Concerns(message[i], carried[r]) /\ i \in 1..Len(message)
    BY <1>11, <2>6, <2>7 DEF SendTarget
  <2> QED
    BY <1>11, <1>1, <2>1, <2>3, <2>4, <2>8, PrivateKeep DEF SendTarget,
       inboxes, histories, Thread
<1>12. ASSUME NEW w \in Worker, SendEcho(w)
      PROVE  PrivateInv'
  <2>1. h[w].pc = "echo" /\ message' = message /\ carried' = carried /\
     h[w].sess \in Session /\ h[w].num \in 1..Len(message)
    BY <1>12, <1>1 DEF SendEcho, At, inboxes, histories, HandlerFits
  <2>3. PICK g : Become(w, g) /\ g = Idle
    BY <1>12 DEF SendEcho, Return
  <2>4. Confines(g, message', carried')
    BY <1>1, <2>1, <2>3 DEF Handler, Idle, Confines
  <2>6. \A i \in {h[w].num} :
           i \in 1..Len(message) /\ Concerns(message[i], carried[h[w].sess])
    BY <1>1, <2>1 DEF Confines, Concerns, HandlerFits
  <2>7. \A r \in Session :
           got'[r] \subseteq got[r]
               \cup (IF r = h[w].sess THEN {h[w].num} ELSE {})
    BY <1>12, <1>1, <2>1 DEF SendEcho, Receive
  <2>8. \A r \in Session : \A i \in got'[r] \cup hist'[r] :
           \/ i \in got[r] \cup hist[r]
           \/ Concerns(message[i], carried[r]) /\ i \in 1..Len(message)
    BY <1>12, <2>6, <2>7 DEF SendEcho
  <2> QED
    BY <1>12, <1>1, <2>1, <2>3, <2>4, <2>8, PrivateKeep DEF SendEcho,
       inboxes, histories, Thread
<1>13. ASSUME NEW w \in Worker, ReadRequestor(w)
      PROVE  PrivateInv'
  <2>1. h[w].pc = "reqname" /\ message' = message /\ carried' = carried /\
     h[w].sess \in Session
    BY <1>13, <1>1 DEF ReadRequestor, At, inboxes, histories, HandlerFits
  <2>3. PICK g :
           /\ Become(w, g)
           /\ g = [h[w] EXCEPT !.pc = "reqread", !.who =
                  username[h[w].sess]]
    BY <1>13 DEF ReadRequestor
  <2>4. Confines(g, message', carried')
    BY <1>1, <2>1, <2>3 DEF Handler, Confines
  <2> QED
    BY <1>13, <1>1, <2>1, <2>3, <2>4, PrivateKeep DEF ReadRequestor,
       inboxes, histories, Thread
<1>14. ASSUME NEW w \in Worker, GetHistory(w)
      PROVE  PrivateInv'
  <2>1. h[w].pc = "reqread" /\ message' = message /\ carried' = carried /\
     h[w].sess \in Session
    BY <1>14, <1>1 DEF GetHistory, At, inboxes, histories, HandlerFits
  <2>2. PICK R \in SUBSET (1..Len(message)) :
           /\ Become(w, [h[w] EXCEPT !.pc = "reqsend", !.rows = R])
           /\ (R \subseteq RowsOfRoom \/ R \subseteq RowsBetween(h[w].who,
                  h[w].to))
    BY <1>14, <1>1 DEF GetHistory, Recent, kSubset, RowsOfRoom, RowsBetween
  <2>3. PICK g :
           /\ Become(w, g)
           /\ g = [h[w] EXCEPT !.pc = "reqsend", !.rows = R]
    BY <2>2
  <2>4. Confines(g, message', carried')
    <3>1. g.sess = h[w].sess /\ g.rows = R /\ g.pc = "reqsend"
      BY <1>1, <2>3 DEF Handler
    <3>2. \A i \in R : Concerns(message[i], carried[h[w].sess])
      <4>1. h[w].who \in carried[h[w].sess] \cup {NoUser}
        BY <1>1, <2>1 DEF Confines
      <4>2. \A i \in R : message[i].to \in User \cup {Room}
        <5>1. \A i \in 1..Len(message) : message[i] \in Message
          BY <1>1
        <5> QED
          BY <5>1 DEF Message
      <4> QED
        BY <2>2, <4>1, <4>2 DEF Concerns, RowsOfRoom, RowsBetween
    <3> QED
      BY <2>1, <3>1, <3>2 DEF Confines
  <2> QED
    BY <1>14, <1>1, <2>1, <2>3, <2>4, PrivateKeep DEF GetHistory, inboxes,
       histories, Thread
<1>15. ASSUME NEW w \in Worker, SendResponse(w)
      PROVE  PrivateInv'
  <2>1. h[w].pc = "reqsend" /\ message' = message /\ carried' = carried /\
     h[w].sess \in Session
    BY <1>15, <1>1 DEF SendResponse, At, inboxes, histories, HandlerFits
  <2>3. PICK g : Become(w, g) /\ g = Idle
    BY <1>15 DEF SendResponse, Return
  <2>4. Confines(g, message', carried')
    BY <1>1, <2>1, <2>3 DEF Handler, Idle, Confines
  <2>6. \A i \in h[w].rows :
           i \in 1..Len(message) /\ Concerns(message[i], carried[h[w].sess])
    BY <1>1, <2>1 DEF Confines, Concerns, HandlerFits
  <2>7. \A r \in Session :
           hist'[r] \subseteq hist[r]
               \cup (IF r = h[w].sess THEN h[w].rows ELSE {})
    BY <1>15, <1>1, <2>1 DEF SendResponse, Receive
  <2> QED
    BY <1>15, <1>1, <2>1, <2>3, <2>4, <2>6, <2>7, PrivateKeep DEF
       SendResponse, inboxes, histories, Thread
<1>16. ASSUME NEW t \in Thread, LogoutCheck(t)
      PROVE  PrivateInv'
  <2>1. h[t].pc = "logout" /\ message' = message /\ carried' = carried
    BY <1>16, <1>1 DEF LogoutCheck, At, inboxes, histories
  <2>3. PICK g :
           /\ Become(t, g)
           /\ (g = Idle \/ g = [h[t] EXCEPT !.pc = "name"])
    BY <1>16 DEF LogoutCheck, Return, Goto
  <2>4. Confines(g, message', carried')
    BY <1>1, <2>1, <2>3 DEF Handler, Idle, Confines
  <2> QED
    BY <1>16, <1>1, <2>1, <2>3, <2>4, PrivateKeep DEF LogoutCheck, inboxes,
       histories, Thread
<1>17. ASSUME NEW t \in Thread, LogoutName(t)
      PROVE  PrivateInv'
  <2>1. h[t].pc = "name" /\ message' = message /\ carried' = carried /\
     h[t].sess \in Session
    BY <1>17, <1>1 DEF LogoutName, At, inboxes, histories, HandlerFits
  <2>3. PICK g :
           /\ Become(t, g)
           /\ g = [h[t] EXCEPT !.pc = "offline", !.who =
                  username[h[t].sess]]
    BY <1>17 DEF LogoutName
  <2>4. Confines(g, message', carried')
    BY <1>1, <2>1, <2>3 DEF Handler, Confines
  <2> QED
    BY <1>17, <1>1, <2>1, <2>3, <2>4, PrivateKeep DEF LogoutName, inboxes,
       histories, Thread
<1>18. ASSUME NEW t \in Thread, LogoutOffline(t)
      PROVE  PrivateInv'
  <2>1. h[t].pc = "offline" /\ message' = message /\ carried' = carried
    BY <1>18, <1>1 DEF LogoutOffline, At, inboxes, histories
  <2>3. PICK g : Become(t, g) /\ g = [h[t] EXCEPT !.pc = "clearname"]
    BY <1>18 DEF LogoutOffline, Goto
  <2>4. Confines(g, message', carried')
    BY <1>1, <2>1, <2>3 DEF Handler, Confines
  <2> QED
    BY <1>18, <1>1, <2>1, <2>3, <2>4, PrivateKeep DEF LogoutOffline,
       inboxes, histories, Thread
<1>19. ASSUME NEW t \in Thread, LogoutClear(t)
      PROVE  PrivateInv'
  <2>1. h[t].pc = "clearname" /\ message' = message /\ carried' = carried /\
     h[t].sess \in Session
    BY <1>19, <1>1 DEF LogoutClear, At, inboxes, histories, HandlerFits
  <2>3. PICK g : Become(t, g) /\ g = [h[t] EXCEPT !.pc = "compose"]
    BY <1>19 DEF LogoutClear, Goto
  <2>4. Confines(g, message', carried')
    BY <1>1, <2>1, <2>3 DEF Handler, Confines
  <2> QED
    BY <1>19, <1>1, <2>1, <2>3, <2>4, PrivateKeep DEF LogoutClear, inboxes,
       histories, Thread
<1>20. ASSUME NEW t \in Thread, ComposeList(t)
      PROVE  PrivateInv'
  <2>1. h[t].pc = "compose" /\ message' = message /\ carried' = carried
    BY <1>20, <1>1 DEF ComposeList, At, inboxes, histories
  <2>3. PICK g :
           /\ Become(t, g)
           /\ g = [h[t] EXCEPT !.pc = "listtargets", !.names = online]
    BY <1>20 DEF ComposeList
  <2>4. Confines(g, message', carried')
    BY <1>1, <2>1, <2>3 DEF Handler, Confines
  <2> QED
    BY <1>20, <1>1, <2>1, <2>3, <2>4, PrivateKeep DEF ComposeList, inboxes,
       histories, Thread
<1>21. ASSUME NEW t \in Thread, ListTargets(t)
      PROVE  PrivateInv'
  <2>1. h[t].pc = "listtargets" /\ message' = message /\ carried' = carried
    BY <1>21, <1>1 DEF ListTargets, At, inboxes, histories
  <2>3. PICK g : Become(t, g) /\ g = Sending(t, "sendlist", Targets(t))
    BY <1>21 DEF ListTargets
  <2>4. Confines(g, message', carried')
    BY <1>1, <2>1, <2>3 DEF Handler, Idle, Confines, Sending
  <2> QED
    BY <1>21, <1>1, <2>1, <2>3, <2>4, PrivateKeep DEF ListTargets, inboxes,
       histories, Thread
<1>22. ASSUME NEW t \in Thread, SendList(t)
      PROVE  PrivateInv'
  <2>1. h[t].pc = "sendlist" /\ message' = message /\ carried' = carried
    BY <1>22, <1>1 DEF SendList, At, inboxes, histories
  <2>2. PICK s \in h[t].todo : Become(t, Sending(t, "sendlist", h[t].todo \
     {s}))
    BY <1>22 DEF SendList
  <2>3. PICK g : Become(t, g) /\ g = Sending(t, "sendlist", h[t].todo \ {s})
    BY <2>2
  <2>4. Confines(g, message', carried')
    BY <1>1, <2>1, <2>3 DEF Handler, Idle, Confines, Sending
  <2> QED
    BY <1>22, <1>1, <2>1, <2>3, <2>4, PrivateKeep DEF SendList, inboxes,
       histories, Thread
<1>23. ASSUME NEW s \in Session, Remove(s)
      PROVE  PrivateInv'
  <2>1. PICK g :
           /\ Become(Main, g)
           /\ g = [Idle EXCEPT !.pc = "logout", !.sess = s]
    BY <1>23 DEF Remove
  <2>2. Confines(g, message', carried')
    BY <2>1 DEF Idle, Confines
  <2> QED
    BY <1>23, <1>1, <2>1, <2>2, PrivateKeep DEF Remove, inboxes, histories,
       Thread
<1>24. ASSUME NEW w \in Worker, NEW s \in Session, BeginFrame(w, s)
      PROVE  PrivateInv'
  <2>1. PICK l \in {"enter", "logout", "sender", "find", "reqname"},
             to \in NameOrNone \cup {Room} :
            Begin(w, s, l, to) /\ (l = "sender" => to = Room)
    BY <1>24 DEF BeginFrame, BeginLogin, BeginLogout, BeginBroadcast,
       BeginPrivate, BeginHistoryReq, NameOrNone
  <2>2. PICK g : /\ Become(w, g)
                 /\ g = [Idle EXCEPT !.pc = l, !.sess = s, !.to = to]
    BY <2>1 DEF Begin
  <2>3. Confines(g, message', carried')
    BY <2>1, <2>2 DEF Idle, Confines
  <2> QED
    BY <1>1, <2>1, <2>2, <2>3, PrivateKeep DEF Begin, inboxes, histories,
       Thread
<1>25. CASE UNCHANGED vars
  BY <1>25 DEF vars, inboxes, histories, PrivateInv
<1> QED
  BY <1>1, <1>2, <1>3, <1>4, <1>5, <1>6, <1>7, <1>8, <1>9, <1>10, <1>11,
     <1>12, <1>13, <1>14, <1>15, <1>16, <1>17, <1>18, <1>19, <1>20, <1>21,
     <1>22, <1>23, <1>24, <1>25 DEF Next, WorkerStep, Logout, Announce,
     Thread

\* Private messages come only to connections that carry or carried the name of
\* the sender or of the receiver (handle_private, handle_history_req).
THEOREM PrivateConfinedHolds == Spec => []PrivateConfined
<1>1. Init => PrivateInv
  BY MessagingAssumption DEF Init, MessagingAssumption, PrivateInv, Confines,
     Idle, NameOrNone
<1>2. Spec => [](IInv /\ PrivateInv)
  BY <1>1, TypeInit, TypeStep, PrivateStep, PTL DEF Spec
<1>3. PrivateInv => PrivateConfined
  BY DEF PrivateInv, PrivateConfined, Concerns
<1> QED
  BY <1>2, <1>3, PTL

-----------------------------------------------------------------------------
(* ListCurrent.                                                            *)

\* A thread that has to compose a list yet makes the rest of ListInv vacuous.
LEMMA ListPend ==
    ASSUME IInv, IInv', ListInv, NEW t \in Thread, NEW g, Become(t, g),
           UNCHANGED listRace,
           h[t].pc \notin {"listtargets", "sendlist"},
           g.pc \in PendingPC
    PROVE  ListInv'
<1>1. h'[t] = g /\ \A r \in Thread : r # t => h'[r] = h[r]
  BY BecomeHandler
<1>2. Announcing' = Announcing
  BY <1>1 DEF Announcing, PendingPC
<1> QED
  BY <1>1, <1>2 DEF ListInv

\* Steps that have nothing to do with the presence.
LEMMA ListKeep ==
    ASSUME IInv, IInv', ListInv, NEW t \in Thread, NEW g, Become(t, g),
           UNCHANGED <<listRace, online, list>>,
           \A s \in Session : live'[s] => live[s],
           \A s \in Session : username'[s] # NoUser => username[s] # NoUser,
           h[t].pc \notin {"listtargets", "sendlist"},
           h[t].pc \notin PendingPC,
           g.pc \notin {"listtargets", "sendlist"}
    PROVE  ListInv'
<1>1. h'[t] = g /\ \A r \in Thread : r # t => h'[r] = h[r]
  BY BecomeHandler
<1>2. Announcing' = Announcing /\ \A r \in Announcing : h'[r] = h[r]
  BY <1>1 DEF Announcing
<1>3. (\A r \in Thread : h'[r].pc \notin PendingPC)
          => \A r \in Thread : h[r].pc \notin PendingPC
  BY <1>1
<1> QED
  BY <1>2, <1>3 DEF ListInv, At

LEMMA ListStep ==
    ASSUME IInv, IInv', ListInv, [Next]_vars
    PROVE  ListInv'
<1>1. /\ Worker \subseteq Thread /\ Main \in Thread
      /\ \A t \in Thread : h[t] \in Handler
      /\ h \in [Thread -> Handler]
      /\ live \in [Session -> BOOLEAN]
      /\ username \in [Session -> NameOrNone]
      /\ list \in [Session -> SUBSET User]
  BY DEF IInv, TypeOK, Thread

<1>2. ASSUME NEW w \in Worker, SetUsername(w)
      PROVE  ListInv'
  <2>3. PICK g : Become(w, g) /\ g = [h[w] EXCEPT !.pc = "online"]
    BY <1>2 DEF SetUsername, Goto
  <2>4. /\ h[w].pc = "enter"
        /\ g.pc \notin {"listtargets", "sendlist"}
        /\ g.pc \in PendingPC
    BY <1>2, <1>1, <2>3 DEF SetUsername, At, Handler, PendingPC
  <2> QED
    BY <1>2, <1>1, <2>3, <2>4, ListPend DEF SetUsername, inboxes, histories
<1>3. ASSUME NEW w \in Worker, GoOnline(w)
      PROVE  ListInv'
  <2>3. PICK g : Become(w, g) /\ g = [h[w] EXCEPT !.pc = "readhist"]
    BY <1>3 DEF GoOnline, Goto
  <2>4. /\ h[w].pc = "online"
        /\ g.pc \notin {"listtargets", "sendlist"}
        /\ g.pc \in PendingPC
    BY <1>3, <1>1, <2>3 DEF GoOnline, At, Handler, PendingPC
  <2> QED
    BY <1>3, <1>1, <2>3, <2>4, ListPend DEF GoOnline, inboxes, histories
<1>4. ASSUME NEW w \in Worker, ReadHistory(w)
      PROVE  ListInv'
  <2>3. PICK R, g :
           /\ Become(w, g)
           /\ g = [h[w] EXCEPT !.pc = "sendhist", !.rows = R]
    BY <1>4 DEF ReadHistory
  <2>4. /\ h[w].pc = "readhist"
        /\ g.pc \notin {"listtargets", "sendlist"}
        /\ g.pc \in PendingPC
    BY <1>4, <1>1, <2>3 DEF ReadHistory, At, Handler, PendingPC
  <2> QED
    BY <1>4, <1>1, <2>3, <2>4, ListPend DEF ReadHistory, inboxes, histories
<1>5. ASSUME NEW w \in Worker, SendHistory(w)
      PROVE  ListInv'
  <2>3. PICK g :
           /\ Become(w, g)
           /\ g = [h[w] EXCEPT !.pc = "compose", !.rows = {}]
    BY <1>5 DEF SendHistory
  <2>4. /\ h[w].pc = "sendhist"
        /\ g.pc \notin {"listtargets", "sendlist"}
        /\ g.pc \in PendingPC
    BY <1>5, <1>1, <2>3 DEF SendHistory, At, Handler, PendingPC
  <2> QED
    BY <1>5, <1>1, <2>3, <2>4, ListPend DEF SendHistory, inboxes, histories
<1>6. ASSUME NEW w \in Worker, FindTarget(w)
      PROVE  ListInv'
  <2>3. PICK p, g :
           /\ Become(w, g)
           /\ (g = Idle \/ g = [h[w] EXCEPT !.pc = "sender", !.peer = p])
    BY <1>6 DEF FindTarget, Return
  <2>4. /\ h[w].pc = "find"
        /\ g.pc \notin {"listtargets", "sendlist"}
    <3>1. g.pc \in {"idle", "sender"}
      <4>1. CASE g = Idle
        BY <4>1 DEF Idle
      <4>2. CASE g = [h[w] EXCEPT !.pc = "sender", !.peer = p]
        BY <1>1, <4>2 DEF Handler
      <4> QED
        BY <2>3, <4>1, <4>2
    <3> QED
      BY <1>6, <3>1 DEF FindTarget, At
  <2> QED
    BY <1>6, <1>1, <2>3, <2>4, ListKeep DEF FindTarget, inboxes, histories,
       PendingPC
<1>7. ASSUME NEW w \in Worker, ReadSender(w)
      PROVE  ListInv'
  <2>3. PICK g :
           /\ Become(w, g)
           /\ g = [h[w] EXCEPT !.pc = "store", !.ts = now', !.who =
                  username[h[w].sess]]
    BY <1>7 DEF ReadSender
  <2>4. /\ h[w].pc = "sender"
        /\ g.pc \notin {"listtargets", "sendlist"}
    BY <1>7, <1>1, <2>3 DEF ReadSender, At, Handler
  <2> QED
    BY <1>7, <1>1, <2>3, <2>4, ListKeep DEF ReadSender, inboxes, histories,
       PendingPC
<1>8. ASSUME NEW w \in Worker, StoreMessage(w)
      PROVE  ListInv'
  <2>3. PICK g :
           /\ Become(w, g)
           /\ g = [h[w] EXCEPT !.pc = IF h[w].to = Room THEN "targets"
                  ELSE "target", !.num = Len(message) + 1]
    BY <1>8 DEF StoreMessage
  <2>4. /\ h[w].pc = "store"
        /\ g.pc \notin {"listtargets", "sendlist"}
    BY <1>8, <1>1, <2>3 DEF StoreMessage, At, Handler
  <2> QED
    BY <1>8, <1>1, <2>3, <2>4, ListKeep DEF StoreMessage, inboxes,
       histories, PendingPC
<1>9. ASSUME NEW w \in Worker, MessageTargets(w)
      PROVE  ListInv'
  <2>3. PICK g : Become(w, g) /\ g = Sending(w, "deliver", Targets(w))
    BY <1>9 DEF MessageTargets
  <2>4. /\ h[w].pc = "targets"
        /\ g.pc \notin {"listtargets", "sendlist"}
    BY <1>9, <1>1, <2>3 DEF MessageTargets, At, Handler, Idle, Sending
  <2> QED
    BY <1>9, <1>1, <2>3, <2>4, ListKeep DEF MessageTargets, inboxes,
       histories, PendingPC
<1>10. ASSUME NEW w \in Worker, Deliver(w)
      PROVE  ListInv'
  <2>3. PICK s, g :
           /\ s \in h[w].todo
           /\ Become(w, g)
           /\ g = Sending(w, "deliver", h[w].todo \ {s})
    BY <1>10 DEF Deliver
  <2>4. /\ h[w].pc = "deliver"
        /\ g.pc \notin {"listtargets", "sendlist"}
    BY <1>10, <1>1, <2>3 DEF Deliver, At, Handler, Idle, Sending
  <2> QED
    BY <1>10, <1>1, <2>3, <2>4, ListKeep DEF Deliver, inboxes, histories,
       PendingPC
<1>11. ASSUME NEW w \in Worker, SendTarget(w)
      PROVE  ListInv'
  <2>3. PICK g : Become(w, g) /\ g = [h[w] EXCEPT !.pc = "echo"]
    BY <1>11 DEF SendTarget, Goto
  <2>4. /\ h[w].pc = "target"
        /\ g.pc \notin {"listtargets", "sendlist"}
    BY <1>11, <1>1, <2>3 DEF SendTarget, At, Handler
  <2> QED
    BY <1>11, <1>1, <2>3, <2>4, ListKeep DEF SendTarget, inboxes, histories,
       PendingPC
<1>12. ASSUME NEW w \in Worker, SendEcho(w)
      PROVE  ListInv'
  <2>3. PICK g : Become(w, g) /\ g = Idle
    BY <1>12 DEF SendEcho, Return
  <2>4. /\ h[w].pc = "echo"
        /\ g.pc \notin {"listtargets", "sendlist"}
    BY <1>12, <1>1, <2>3 DEF SendEcho, At, Handler, Idle
  <2> QED
    BY <1>12, <1>1, <2>3, <2>4, ListKeep DEF SendEcho, inboxes, histories,
       PendingPC
<1>13. ASSUME NEW w \in Worker, ReadRequestor(w)
      PROVE  ListInv'
  <2>3. PICK g :
           /\ Become(w, g)
           /\ g = [h[w] EXCEPT !.pc = "reqread", !.who =
                  username[h[w].sess]]
    BY <1>13 DEF ReadRequestor
  <2>4. /\ h[w].pc = "reqname"
        /\ g.pc \notin {"listtargets", "sendlist"}
    BY <1>13, <1>1, <2>3 DEF ReadRequestor, At, Handler
  <2> QED
    BY <1>13, <1>1, <2>3, <2>4, ListKeep DEF ReadRequestor, inboxes,
       histories, PendingPC
<1>14. ASSUME NEW w \in Worker, GetHistory(w)
      PROVE  ListInv'
  <2>3. PICK R, g :
           /\ Become(w, g)
           /\ g = [h[w] EXCEPT !.pc = "reqsend", !.rows = R]
    BY <1>14 DEF GetHistory
  <2>4. /\ h[w].pc = "reqread"
        /\ g.pc \notin {"listtargets", "sendlist"}
    BY <1>14, <1>1, <2>3 DEF GetHistory, At, Handler
  <2> QED
    BY <1>14, <1>1, <2>3, <2>4, ListKeep DEF GetHistory, inboxes, histories,
       PendingPC
<1>15. ASSUME NEW w \in Worker, SendResponse(w)
      PROVE  ListInv'
  <2>3. PICK g : Become(w, g) /\ g = Idle
    BY <1>15 DEF SendResponse, Return
  <2>4. /\ h[w].pc = "reqsend"
        /\ g.pc \notin {"listtargets", "sendlist"}
    BY <1>15, <1>1, <2>3 DEF SendResponse, At, Handler, Idle
  <2> QED
    BY <1>15, <1>1, <2>3, <2>4, ListKeep DEF SendResponse, inboxes,
       histories, PendingPC
<1>16. ASSUME NEW t \in Thread, LogoutCheck(t)
      PROVE  ListInv'
  <2>3. PICK g :
           /\ Become(t, g)
           /\ (g = Idle \/ g = [h[t] EXCEPT !.pc = "name"])
    BY <1>16 DEF LogoutCheck, Return, Goto
  <2>4. /\ h[t].pc = "logout"
        /\ g.pc \notin {"listtargets", "sendlist"}
    BY <1>16, <1>1, <2>3 DEF LogoutCheck, At, Handler, Idle
  <2> QED
    BY <1>16, <1>1, <2>3, <2>4, ListKeep DEF LogoutCheck, inboxes,
       histories, PendingPC
<1>17. ASSUME NEW t \in Thread, LogoutName(t)
      PROVE  ListInv'
  <2>3. PICK g :
           /\ Become(t, g)
           /\ g = [h[t] EXCEPT !.pc = "offline", !.who =
                  username[h[t].sess]]
    BY <1>17 DEF LogoutName
  <2>4. /\ h[t].pc = "name"
        /\ g.pc \notin {"listtargets", "sendlist"}
    BY <1>17, <1>1, <2>3 DEF LogoutName, At, Handler
  <2> QED
    BY <1>17, <1>1, <2>3, <2>4, ListKeep DEF LogoutName, inboxes, histories,
       PendingPC
<1>18. ASSUME NEW t \in Thread, LogoutOffline(t)
      PROVE  ListInv'
  <2>3. PICK g : Become(t, g) /\ g = [h[t] EXCEPT !.pc = "clearname"]
    BY <1>18 DEF LogoutOffline, Goto
  <2>4. /\ h[t].pc = "offline"
        /\ g.pc \notin {"listtargets", "sendlist"}
        /\ g.pc \in PendingPC
    BY <1>18, <1>1, <2>3 DEF LogoutOffline, At, Handler, PendingPC
  <2> QED
    BY <1>18, <1>1, <2>3, <2>4, ListPend DEF LogoutOffline, inboxes,
       histories
<1>19. ASSUME NEW t \in Thread, LogoutClear(t)
      PROVE  ListInv'
  <2>3. PICK g : Become(t, g) /\ g = [h[t] EXCEPT !.pc = "compose"]
    BY <1>19 DEF LogoutClear, Goto
  <2>4. /\ h[t].pc = "clearname"
        /\ g.pc \notin {"listtargets", "sendlist"}
        /\ g.pc \in PendingPC
    BY <1>19, <1>1, <2>3 DEF LogoutClear, At, Handler, PendingPC
  <2> QED
    BY <1>19, <1>1, <2>3, <2>4, ListPend DEF LogoutClear, inboxes, histories
<1>20. ASSUME NEW s \in Session, Remove(s)
      PROVE  ListInv'
  <2>1. PICK g :
           /\ Become(Main, g)
           /\ g = [Idle EXCEPT !.pc = "logout", !.sess = s]
    BY <1>20 DEF Remove
  <2>2. /\ h[Main].pc = "idle" /\ g.pc = "logout" /\ Main \in Thread
        /\ \A r \in Session : live'[r] => live[r]
    BY <1>20, <1>1, <2>1 DEF Remove, At, Idle, Thread
  <2> QED
    BY <1>20, <1>1, <2>1, <2>2, ListKeep DEF Remove, inboxes, histories,
       PendingPC
<1>21. ASSUME NEW w \in Worker, NEW s \in Session, BeginFrame(w, s)
      PROVE  ListInv'
  <2>1. PICK l, to :
            /\ l \in {"enter", "logout", "sender", "find", "reqname"}
            /\ Begin(w, s, l, to)
    BY <1>21 DEF BeginFrame, BeginLogin, BeginLogout, BeginBroadcast,
       BeginPrivate, BeginHistoryReq
  <2>2. PICK g : /\ Become(w, g)
                 /\ g = [Idle EXCEPT !.pc = l, !.sess = s, !.to = to]
    BY <2>1 DEF Begin
  <2>3. h[w].pc = "idle" /\ g.pc = l
    BY <2>1, <2>2 DEF Begin, At, Idle
  <2> QED
    BY <1>1, <2>1, <2>2, <2>3, ListKeep DEF Begin, inboxes, histories,
       PendingPC
<1>22. ASSUME NEW t \in Thread, ComposeList(t)
      PROVE  ListInv'
  <2>1. PICK g : /\ Become(t, g)
                 /\ g = [h[t] EXCEPT !.pc = "listtargets", !.names = online]
    BY <1>22 DEF ComposeList
  <2>2. g.pc = "listtargets" /\ g.names = online
    BY <1>1, <2>1 DEF Handler
  <2>3. h'[t] = g /\ \A r \in Thread : r # t => h'[r] = h[r]
    BY <2>1, BecomeHandler
  <2>4. ~listRace' => Announcing' = {t}
    BY <1>22, <2>2, <2>3 DEF ComposeList, Announcing
  <2> QED
    BY <1>22, <2>2, <2>3, <2>4 DEF ComposeList, ListInv, At
<1>23. ASSUME NEW t \in Thread, ListTargets(t)
      PROVE  ListInv'
  <2>1. PICK g : Become(t, g) /\ g = Sending(t, "sendlist", Targets(t))
    BY <1>23 DEF ListTargets
  <2>2. /\ h[t].pc = "listtargets" /\ t \in Announcing
        /\ Targets(t) = {} => g.pc = "idle"
        /\ Targets(t) # {} => /\ g.pc = "sendlist" /\ g.todo = Targets(t)
                              /\ g.names = h[t].names
    BY <1>23, <1>1, <2>1 DEF ListTargets, At, Announcing, Sending, Handler,
       Idle
  <2>3. h'[t] = g /\ \A r \in Thread : r # t => h'[r] = h[r]
    BY <2>1, BecomeHandler
  <2>4. /\ UNCHANGED <<live, username, online, list, listRace>>
        /\ \A r \in Thread : h'[r].pc \in PendingPC <=> h[r].pc \in PendingPC
        /\ Targets(t) = {} => Announcing' = Announcing \ {t}
        /\ Targets(t) # {} => Announcing' = Announcing
    BY <1>23, <2>2, <2>3 DEF ListTargets, inboxes, histories, PendingPC,
       Announcing
  <2>5. \A s \in Session : live[s] /\ username[s] # NoUser => s \in Targets(t)
    BY DEF Targets
  <2> QED
    BY <2>2, <2>3, <2>4, <2>5 DEF ListInv, At
<1>24. ASSUME NEW t \in Thread, SendList(t)
      PROVE  ListInv'
  <2>1. PICK s, g :
            /\ s \in h[t].todo
            /\ Become(t, g)
            /\ g = Sending(t, "sendlist", h[t].todo \ {s})
            /\ list' = IF live[s] THEN [list EXCEPT ![s] = h[t].names] ELSE list
    BY <1>24 DEF SendList
  <2>2. /\ h[t].pc = "sendlist" /\ t \in Announcing /\ s \in Session
        /\ h[t].todo = {s} => g.pc = "idle"
        /\ h[t].todo # {s} => /\ g.pc = "sendlist" /\ g.todo = h[t].todo \ {s}
                              /\ g.names = h[t].names
    BY <1>24, <1>1, <2>1 DEF SendList, At, Announcing, Sending, Handler, Idle
  <2>3. h'[t] = g /\ \A r \in Thread : r # t => h'[r] = h[r]
    BY <2>1, BecomeHandler
  <2>4. /\ UNCHANGED <<live, username, online, listRace>>
        /\ \A r \in Thread : h'[r].pc \in PendingPC <=> h[r].pc \in PendingPC
        /\ h[t].todo = {s} => Announcing' = Announcing \ {t}
        /\ h[t].todo # {s} => Announcing' = Announcing
    BY <1>24, <2>2, <2>3 DEF SendList, histories, PendingPC, Announcing
  <2>5. /\ live[s] => list'[s] = h[t].names
        /\ \A r \in Session : r # s => list'[r] = list[r]
    BY <1>1, <2>1, <2>2
  <2>6. ASSUME ~listRace', \A r \in Thread : h'[r].pc \notin PendingPC
        PROVE  /\ \A r \in Announcing' : h'[r].names = online'
               /\ \A r \in Session : live'[r] /\ username'[r] # NoUser =>
                      \/ list'[r] = online'
                      \/ \E q \in Announcing' :
                             h'[q].pc = "listtargets" \/ r \in h'[q].todo
    <3>1. /\ Announcing = {t} /\ h[t].names = online
          /\ \A r \in Session : live[r] /\ username[r] # NoUser =>
                 list[r] = online \/ r \in h[t].todo
      BY <2>2, <2>4, <2>6 DEF ListInv, At
    <3> QED
      BY <2>2, <2>3, <2>4, <2>5, <3>1
  <2> QED
    BY <2>4, <2>6 DEF ListInv, At
<1>25. CASE UNCHANGED vars
  BY <1>25 DEF vars, inboxes, histories, ListInv, Announcing, At
<1> QED
  BY <1>2, <1>3, <1>4, <1>5, <1>6, <1>7, <1>8, <1>9, <1>10, <1>11, <1>12,
     <1>13, <1>14, <1>15, <1>16, <1>17, <1>18, <1>19, <1>20, <1>21, <1>22,
     <1>23, <1>24, <1>25, <1>1 DEF Next, WorkerStep, Logout, Announce

\* When no login or logout is under way, everyone who is logged in has the list
\* of who is online, lists that raced apart (broadcast_user_list).
THEOREM ListCurrentHolds == Spec => []ListCurrent
<1>1. Init => ListInv
  BY DEF Init, ListInv, Announcing, Idle
<1>2. Spec => [](IInv /\ ListInv)
  BY <1>1, TypeInit, TypeStep, ListStep, PTL DEF Spec
<1>3. ListInv => ListCurrent
  BY DEF ListInv, ListCurrent, Settled, Announcing, PendingPC, LoginPC,
     LogoutPC, ListPC
<1> QED
  BY <1>2, <1>3, PTL

-----------------------------------------------------------------------------
(* NoMessageMissed.                                                        *)

\* More rows do not bring an outdated message back.
LEMMA OutdatedMore ==
    ASSUME NEW n \in Nat, NEW rows \in SUBSET (1..n),
           NEW more \in SUBSET (1..n), rows \subseteq more,
           NEW i, Outdated(rows, i), PushLimit \in Nat
    PROVE  Outdated(more, i)
<1> DEFINE A == {j \in rows : message[j].to = Room /\ message[j].ts >= message[i].ts}
           B == {j \in more : message[j].to = Room /\ message[j].ts >= message[i].ts}
<1>1. IsFiniteSet(1..n)
  BY FS_Interval
<1>2. B \subseteq 1..n /\ A \subseteq B
  OBVIOUS
<1>3. Cardinality(A) <= Cardinality(B) /\ Cardinality(A) \in Nat /\ Cardinality(B) \in Nat
  <2>1. IsFiniteSet(B)
    BY <1>1, <1>2, FS_Subset
  <2> QED
    BY <1>2, <2>1, FS_Subset, FS_CardinalityType
<1> QED
  BY <1>3 DEF Outdated

\* A message the query leaves out is outdated by those it returns.
LEMMA RecentCovers ==
    ASSUME IInv, NEW R \in Recent(RowsOfRoom, PushLimit), NEW i \in RowsOfRoom
    PROVE  i \in R \/ Outdated(R, i)
<1> USE MessagingAssumption DEF MessagingAssumption
<1>1. /\ RowsOfRoom \subseteq 1..Len(message) /\ Len(message) \in Nat
      /\ \A j \in RowsOfRoom : message[j].to = Room
  BY DEF IInv, TypeOK, RowsOfRoom
<1>2. IsFiniteSet(RowsOfRoom) /\ Cardinality(RowsOfRoom) \in Nat
  <2>1. IsFiniteSet(1..Len(message))
    BY <1>1, FS_Interval
  <2>2. IsFiniteSet(RowsOfRoom)
    BY <1>1, <2>1, FS_Subset
  <2> QED
    BY <2>2, FS_CardinalityType
<1>3. /\ R \subseteq RowsOfRoom
      /\ \A j \in R, k \in RowsOfRoom \ R : message[j].ts >= message[k].ts
  BY DEF Recent, kSubset
<1>4. CASE Cardinality(RowsOfRoom) < PushLimit
  <2>1. Cardinality(R) = Cardinality(RowsOfRoom)
    BY <1>4 DEF Recent, kSubset
  <2> QED
    BY <1>2, <1>3, <2>1, FS_Subset
<1>5. CASE ~(Cardinality(RowsOfRoom) < PushLimit) /\ i \notin R
  <2>1. Cardinality(R) = PushLimit
    BY <1>5 DEF Recent, kSubset
  <2>2. {j \in R : message[j].to = Room /\ message[j].ts >= message[i].ts} = R
    BY <1>1, <1>3, <1>5
  <2> QED
    BY <2>1, <2>2 DEF Outdated
<1> QED
  BY <1>4, <1>5

LEMMA MissedTypes ==
    ASSUME IInv
    PROVE  /\ Worker \subseteq Thread /\ Main \in Thread
           /\ h \in [Thread -> Handler]
           /\ \A t \in Thread :
                  h[t] \in Handler /\ HandlerFits(h[t], Len(message))
           /\ live \in [Session -> BOOLEAN]
           /\ username \in [Session -> NameOrNone]
           /\ message \in Seq(Message) /\ Len(message) \in Nat
           /\ got \in [Session -> SUBSET (1..Len(message))]
           /\ hist \in [Session -> SUBSET (1..Len(message))]
           /\ due \in [Session -> SUBSET Worker]
           /\ \A s \in Session : Shown(s) \subseteq 1..Len(message)
<1>1. \A s \in Session : \A w \in due[s] : h[w].rows \subseteq 1..Len(message)
  BY DEF IInv, TypeOK, HandlersFit, HandlerFits, Thread
<1>2. \A s \in Session : Shown(s) \subseteq 1..Len(message)
  BY <1>1 DEF IInv, TypeOK, Shown
<1> QED
  BY <1>2 DEF IInv, TypeOK, HandlersFit, Thread

\* Whatever covered a message of the room goes on to do so.
LEMMA MissedKeep ==
    ASSUME IInv, IInv', Grows, MissedInv, NEW s \in Session, HistoryRead(s),
           got[s] \subseteq got'[s], Shown(s) \subseteq Shown(s)',
           \A i \in RowsOfRoom, t \in Worker : Carries(t, i, s) =>
               i \in got'[s] \/ \E r \in Worker : Carries(r, i, s)'
    PROVE  \A i \in RowsOfRoom :
               \/ i \in got'[s] \cup Shown(s)'
               \/ \E t \in Worker : Carries(t, i, s)'
               \/ Outdated(Shown(s), i)'
<1> SUFFICES ASSUME NEW i \in RowsOfRoom
             PROVE  \/ i \in got'[s] \cup Shown(s)'
                    \/ \E t \in Worker : Carries(t, i, s)'
                    \/ Outdated(Shown(s), i)'
  OBVIOUS
<1>1. i \in 1..Len(message)
  BY DEF RowsOfRoom
<1>2. \/ i \in got[s] \cup Shown(s)
      \/ \E t \in Worker : Carries(t, i, s)
      \/ Outdated(Shown(s), i)
  BY DEF MissedInv
<1>3. ASSUME Outdated(Shown(s), i)
      PROVE  Outdated(Shown(s), i)'
  <2> DEFINE A == {j \in Shown(s) : message[j].to = Room /\ message[j].ts >= message[i].ts}
             B == {j \in Shown(s)' : message'[j].to = Room /\ message'[j].ts >= message'[i].ts}
  <2>0. Len(message') \in Nat
    BY GrowsLen, MissedTypes
  <2>1. Shown(s) \subseteq 1..Len(message) /\ Shown(s)' \subseteq 1..Len(message')
    <3>1. /\ due' \in [Session -> SUBSET Worker]
          /\ hist' \in [Session -> SUBSET (1..Len(message'))]
          /\ \A t \in Thread : h'[t].rows \subseteq 1..Len(message')
      BY DEF IInv, TypeOK, HandlersFit, HandlerFits
    <3>2. Shown(s)' \subseteq 1..Len(message')
      BY <3>1 DEF Shown, Thread
    <3> QED
      BY <3>2, MissedTypes
  <2>2. \A j \in 1..Len(message) : message'[j] = message[j]
    BY GrowsLen, MissedTypes
  <2>3. A \subseteq B /\ B \subseteq 1..Len(message')
    BY <1>1, <2>1, <2>2
  <2>4. IsFiniteSet(1..Len(message'))
    BY <2>0, FS_Interval
  <2>5. IsFiniteSet(B)
    BY <2>3, <2>4, FS_Subset
  <2>6. Cardinality(A) <= Cardinality(B) /\ Cardinality(A) \in Nat
        /\ Cardinality(B) \in Nat
    BY <2>3, <2>5, FS_Subset, FS_CardinalityType
  <2>7. Cardinality(A) >= PushLimit
    BY <1>3 DEF Outdated
  <2>8. Cardinality(B) >= PushLimit
    BY <2>6, <2>7, MessagingAssumption DEF MessagingAssumption
  <2> QED
    BY <2>8 DEF Outdated
<1> QED
  BY <1>2, <1>3

\* Steps that neither read a history nor store or send a message of the room.
LEMMA MissedQuiet ==
    ASSUME IInv, IInv', MissedInv, NEW w \in Thread, NEW g, Become(w, g),
           UNCHANGED <<message, due>>,
           \A s \in Session :
               /\ got[s] \subseteq got'[s] /\ hist[s] \subseteq hist'[s]
               /\ live'[s] => live[s]
               /\ username'[s] # NoUser => username[s] # NoUser,
           h[w].pc \notin {"targets", "deliver"},
           g.pc # "sendhist",
           h[w].pc \in {"online", "readhist", "sendhist"} =>
               g.pc \in {"online", "readhist"} /\ g.sess = h[w].sess
    PROVE  MissedInv'
<1>1. h'[w] = g /\ \A r \in Thread : r # w => h'[r] = h[r]
  BY BecomeHandler
<1>2. \A s \in Session : \A v \in due'[s] :
          h'[v].sess = s /\ h'[v].pc \in {"online", "readhist", "sendhist"}
  BY <1>1, MissedTypes DEF MissedInv
<1>3. ASSUME NEW s \in Session, HistoryRead(s)'
      PROVE  \A i \in RowsOfRoom' :
                 \/ i \in got'[s] \cup Shown(s)'
                 \/ \E t \in Worker : Carries(t, i, s)'
                 \/ Outdated(Shown(s), i)'
  <2>1. \A v \in due[s] : h'[v] = h[v] /\ h[v].pc = "sendhist"
    BY <1>1, <1>3, MissedTypes DEF HistoryRead, At
  <2>2. HistoryRead(s)
    BY <1>3, <2>1 DEF HistoryRead, At
  <2>3. Shown(s) \subseteq Shown(s)'
    BY <2>1 DEF Shown
  <2>4. \A i \in RowsOfRoom, t \in Worker : Carries(t, i, s) => Carries(t, i, s)'
    BY <1>1, MissedTypes DEF Carries, At
  <2>5. RowsOfRoom' = RowsOfRoom /\ Grows
    BY DEF RowsOfRoom, Grows
  <2> QED
    BY <2>2, <2>3, <2>4, <2>5, MissedKeep
<1> QED
  BY <1>2, <1>3 DEF MissedInv

LEMMA MissedStep ==
    ASSUME IInv, IInv', Grows, MissedInv, [Next]_vars
    PROVE  MissedInv'
<1>1. /\ Worker \subseteq Thread /\ Main \in Thread
      /\ h \in [Thread -> Handler]
      /\ \A t \in Thread :
             h[t] \in Handler /\ HandlerFits(h[t], Len(message))
      /\ live \in [Session -> BOOLEAN]
      /\ username \in [Session -> NameOrNone]
      /\ message \in Seq(Message) /\ Len(message) \in Nat
      /\ got \in [Session -> SUBSET (1..Len(message))]
      /\ hist \in [Session -> SUBSET (1..Len(message))]
      /\ due \in [Session -> SUBSET Worker]
  BY MissedTypes

<1>2. ASSUME NEW w \in Worker, GoOnline(w)
      PROVE  MissedInv'
  <2>3. PICK g : Become(w, g) /\ g = [h[w] EXCEPT !.pc = "readhist"]
    BY <1>2 DEF GoOnline, Goto
  <2>4. /\ h[w].pc = "online"
        /\ g.pc # "sendhist"
        /\ g.pc = "readhist" /\ g.sess = h[w].sess
    BY <1>2, <1>1, <2>3 DEF GoOnline, At, Handler
  <2> QED
    BY <1>2, <1>1, <2>3, <2>4, MissedQuiet DEF GoOnline, inboxes, histories
<1>3. ASSUME NEW w \in Worker, FindTarget(w)
      PROVE  MissedInv'
  <2>3. PICK p, g :
           /\ Become(w, g)
           /\ (g = Idle \/ g = [h[w] EXCEPT !.pc = "sender", !.peer = p])
    BY <1>3 DEF FindTarget, Return
  <2>4. /\ h[w].pc = "find"
        /\ g.pc # "sendhist"
    <3>1. g.pc \in {"idle", "sender"}
      <4>1. CASE g = Idle
        BY <4>1 DEF Idle
      <4>2. CASE g = [h[w] EXCEPT !.pc = "sender", !.peer = p]
        BY <1>1, <4>2 DEF Handler
      <4> QED
        BY <2>3, <4>1, <4>2
    <3> QED
      BY <1>3, <3>1 DEF FindTarget, At
  <2> QED
    BY <1>3, <1>1, <2>3, <2>4, MissedQuiet DEF FindTarget, inboxes,
       histories
<1>4. ASSUME NEW w \in Worker, ReadSender(w)
      PROVE  MissedInv'
  <2>3. PICK g :
           /\ Become(w, g)
           /\ g = [h[w] EXCEPT !.pc = "store", !.ts = now', !.who =
                  username[h[w].sess]]
    BY <1>4 DEF ReadSender
  <2>4. /\ h[w].pc = "sender"
        /\ g.pc # "sendhist"
    BY <1>4, <1>1, <2>3 DEF ReadSender, At, Handler
  <2> QED
    BY <1>4, <1>1, <2>3, <2>4, MissedQuiet DEF ReadSender, inboxes,
       histories
<1>5. ASSUME NEW w \in Worker, SendTarget(w)
      PROVE  MissedInv'
  <2>3. PICK g : Become(w, g) /\ g = [h[w] EXCEPT !.pc = "echo"]
    BY <1>5 DEF SendTarget, Goto
  <2>4. /\ h[w].pc = "target"
        /\ g.pc # "sendhist"
    BY <1>5, <1>1, <2>3 DEF SendTarget, At, Handler
  <2>5. \A s \in Session : got[s] \subseteq got'[s] /\ hist[s] \subseteq hist'[s]
    BY <1>5, <1>1 DEF SendTarget, Receive
  <2> QED
    BY <1>5, <1>1, <2>3, <2>4, <2>5, MissedQuiet DEF SendTarget, inboxes,
       histories
<1>6. ASSUME NEW w \in Worker, SendEcho(w)
      PROVE  MissedInv'
  <2>3. PICK g : Become(w, g) /\ g = Idle
    BY <1>6 DEF SendEcho, Return
  <2>4. /\ h[w].pc = "echo"
        /\ g.pc # "sendhist"
    BY <1>6, <1>1, <2>3 DEF SendEcho, At, Handler, Idle
  <2>5. \A s \in Session : got[s] \subseteq got'[s] /\ hist[s] \subseteq hist'[s]
    BY <1>6, <1>1 DEF SendEcho, Receive
  <2> QED
    BY <1>6, <1>1, <2>3, <2>4, <2>5, MissedQuiet DEF SendEcho, inboxes,
       histories
<1>7. ASSUME NEW w \in Worker, ReadRequestor(w)
      PROVE  MissedInv'
  <2>3. PICK g :
           /\ Become(w, g)
           /\ g = [h[w] EXCEPT !.pc = "reqread", !.who =
                  username[h[w].sess]]
    BY <1>7 DEF ReadRequestor
  <2>4. /\ h[w].pc = "reqname"
        /\ g.pc # "sendhist"
    BY <1>7, <1>1, <2>3 DEF ReadRequestor, At, Handler
  <2> QED
    BY <1>7, <1>1, <2>3, <2>4, MissedQuiet DEF ReadRequestor, inboxes,
       histories
<1>8. ASSUME NEW w \in Worker, GetHistory(w)
      PROVE  MissedInv'
  <2>3. PICK R, g :
           /\ Become(w, g)
           /\ g = [h[w] EXCEPT !.pc = "reqsend", !.rows = R]
    BY <1>8 DEF GetHistory
  <2>4. /\ h[w].pc = "reqread"
        /\ g.pc # "sendhist"
    BY <1>8, <1>1, <2>3 DEF GetHistory, At, Handler
  <2> QED
    BY <1>8, <1>1, <2>3, <2>4, MissedQuiet DEF GetHistory, inboxes,
       histories
<1>9. ASSUME NEW w \in Worker, SendResponse(w)
      PROVE  MissedInv'
  <2>3. PICK g : Become(w, g) /\ g = Idle
    BY <1>9 DEF SendResponse, Return
  <2>4. /\ h[w].pc = "reqsend"
        /\ g.pc # "sendhist"
    BY <1>9, <1>1, <2>3 DEF SendResponse, At, Handler, Idle
  <2>5. \A s \in Session : got[s] \subseteq got'[s] /\ hist[s] \subseteq hist'[s]
    BY <1>9, <1>1 DEF SendResponse, Receive
  <2> QED
    BY <1>9, <1>1, <2>3, <2>4, <2>5, MissedQuiet DEF SendResponse, inboxes,
       histories
<1>10. ASSUME NEW t \in Thread, LogoutCheck(t)
      PROVE  MissedInv'
  <2>3. PICK g :
           /\ Become(t, g)
           /\ (g = Idle \/ g = [h[t] EXCEPT !.pc = "name"])
    BY <1>10 DEF LogoutCheck, Return, Goto
  <2>4. /\ h[t].pc = "logout"
        /\ g.pc # "sendhist"
    BY <1>10, <1>1, <2>3 DEF LogoutCheck, At, Handler, Idle
  <2> QED
    BY <1>10, <1>1, <2>3, <2>4, MissedQuiet DEF LogoutCheck, inboxes,
       histories
<1>11. ASSUME NEW t \in Thread, LogoutName(t)
      PROVE  MissedInv'
  <2>3. PICK g :
           /\ Become(t, g)
           /\ g = [h[t] EXCEPT !.pc = "offline", !.who =
                  username[h[t].sess]]
    BY <1>11 DEF LogoutName
  <2>4. /\ h[t].pc = "name"
        /\ g.pc # "sendhist"
    BY <1>11, <1>1, <2>3 DEF LogoutName, At, Handler
  <2> QED
    BY <1>11, <1>1, <2>3, <2>4, MissedQuiet DEF LogoutName, inboxes,
       histories
<1>12. ASSUME NEW t \in Thread, LogoutOffline(t)
      PROVE  MissedInv'
  <2>3. PICK g : Become(t, g) /\ g = [h[t] EXCEPT !.pc = "clearname"]
    BY <1>12 DEF LogoutOffline, Goto
  <2>4. /\ h[t].pc = "offline"
        /\ g.pc # "sendhist"
    BY <1>12, <1>1, <2>3 DEF LogoutOffline, At, Handler
  <2> QED
    BY <1>12, <1>1, <2>3, <2>4, MissedQuiet DEF LogoutOffline, inboxes,
       histories
<1>13. ASSUME NEW t \in Thread, LogoutClear(t)
      PROVE  MissedInv'
  <2>3. PICK g : Become(t, g) /\ g = [h[t] EXCEPT !.pc = "compose"]
    BY <1>13 DEF LogoutClear, Goto
  <2>4. /\ h[t].pc = "clearname"
        /\ g.pc # "sendhist"
    BY <1>13, <1>1, <2>3 DEF LogoutClear, At, Handler
  <2> QED
    BY <1>13, <1>1, <2>3, <2>4, MissedQuiet DEF LogoutClear, inboxes,
       histories
<1>14. ASSUME NEW t \in Thread, ComposeList(t)
      PROVE  MissedInv'
  <2>3. PICK g :
           /\ Become(t, g)
           /\ g = [h[t] EXCEPT !.pc = "listtargets", !.names = online]
    BY <1>14 DEF ComposeList
  <2>4. /\ h[t].pc = "compose"
        /\ g.pc # "sendhist"
    BY <1>14, <1>1, <2>3 DEF ComposeList, At, Handler
  <2> QED
    BY <1>14, <1>1, <2>3, <2>4, MissedQuiet DEF ComposeList, inboxes,
       histories
<1>15. ASSUME NEW t \in Thread, ListTargets(t)
      PROVE  MissedInv'
  <2>3. PICK g : Become(t, g) /\ g = Sending(t, "sendlist", Targets(t))
    BY <1>15 DEF ListTargets
  <2>4. /\ h[t].pc = "listtargets"
        /\ g.pc # "sendhist"
    BY <1>15, <1>1, <2>3 DEF ListTargets, At, Handler, Idle, Sending
  <2> QED
    BY <1>15, <1>1, <2>3, <2>4, MissedQuiet DEF ListTargets, inboxes,
       histories
<1>16. ASSUME NEW t \in Thread, SendList(t)
      PROVE  MissedInv'
  <2>3. PICK s, g :
           /\ s \in h[t].todo
           /\ Become(t, g)
           /\ g = Sending(t, "sendlist", h[t].todo \ {s})
    BY <1>16 DEF SendList
  <2>4. /\ h[t].pc = "sendlist"
        /\ g.pc # "sendhist"
    BY <1>16, <1>1, <2>3 DEF SendList, At, Handler, Idle, Sending
  <2> QED
    BY <1>16, <1>1, <2>3, <2>4, MissedQuiet DEF SendList, inboxes, histories
<1>17. ASSUME NEW s \in Session, Remove(s)
      PROVE  MissedInv'
  <2>1. PICK g :
           /\ Become(Main, g)
           /\ g = [Idle EXCEPT !.pc = "logout", !.sess = s]
    BY <1>17 DEF Remove
  <2>2. /\ h[Main].pc = "idle" /\ g.pc = "logout" /\ Main \in Thread
        /\ \A r \in Session : live'[r] => live[r]
    BY <1>17, <1>1, <2>1 DEF Remove, At, Idle, Thread
  <2> QED
    BY <1>17, <1>1, <2>1, <2>2, MissedQuiet DEF Remove, inboxes, histories
<1>18. ASSUME NEW w \in Worker, NEW s \in Session, BeginFrame(w, s)
      PROVE  MissedInv'
  <2>1. PICK l, to :
            /\ l \in {"enter", "logout", "sender", "find", "reqname"}
            /\ Begin(w, s, l, to)
    BY <1>18 DEF BeginFrame, BeginLogin, BeginLogout, BeginBroadcast,
       BeginPrivate, BeginHistoryReq
  <2>2. PICK g : /\ Become(w, g)
                 /\ g = [Idle EXCEPT !.pc = l, !.sess = s, !.to = to]
    BY <2>1 DEF Begin
  <2>3. h[w].pc = "idle" /\ g.pc = l
    BY <2>1, <2>2 DEF Begin, At, Idle
  <2> QED
    BY <1>1, <2>1, <2>2, <2>3, MissedQuiet DEF Begin, inboxes, histories
<1>19. ASSUME NEW w \in Worker, SetUsername(w)
      PROVE  MissedInv'
  <2> DEFINE s == h[w].sess
  <2>1. PICK g : Become(w, g) /\ g = [h[w] EXCEPT !.pc = "online"]
    BY <1>19 DEF SetUsername, Goto
  <2>2. /\ h[w].pc = "enter" /\ s \in Session
        /\ g.pc = "online" /\ g.sess = s
    BY <1>19, <1>1, <2>1 DEF SetUsername, At, Handler, HandlerFits
  <2>3. h'[w] = g /\ \A r \in Thread : r # w => h'[r] = h[r]
    BY <1>1, <2>1, BecomeHandler
  <2>4. /\ due'[s] = {w}
        /\ \A r \in Session : r # s =>
               /\ due'[r] = due[r] /\ w \notin due[r]
               /\ got'[r] = got[r] /\ hist'[r] = hist[r]
               /\ username'[r] = username[r]
    BY <1>19, <1>1, <2>2 DEF SetUsername, MissedInv
  <2>5. live' = live /\ message' = message /\ RowsOfRoom' = RowsOfRoom
    BY <1>19 DEF SetUsername, RowsOfRoom
  <2>6. \A r \in Session : \A v \in due'[r] :
            h'[v].sess = r /\ h'[v].pc \in {"online", "readhist", "sendhist"}
    BY <1>1, <2>2, <2>3, <2>4 DEF MissedInv
  <2>7. ASSUME NEW r \in Session, HistoryRead(r)'
        PROVE  \A i \in RowsOfRoom' :
                   \/ i \in got'[r] \cup Shown(r)'
                   \/ \E t \in Worker : Carries(t, i, r)'
                   \/ Outdated(Shown(r), i)'
    <3>1. r # s
      BY <2>2, <2>3, <2>4, <2>7 DEF HistoryRead, At
    <3>2. \A v \in due[r] : h'[v] = h[v]
      BY <1>1, <2>3, <2>4, <3>1
    <3>3. HistoryRead(r)
      BY <2>4, <2>5, <2>7, <3>1, <3>2 DEF HistoryRead, At
    <3>4. Shown(r)' = Shown(r)
      BY <2>4, <3>1, <3>2 DEF Shown
    <3>5. \A i \in RowsOfRoom, t \in Worker :
              Carries(t, i, r) => Carries(t, i, r)'
      BY <1>1, <2>2, <2>3 DEF Carries, At
    <3> QED
      BY <2>4, <2>5, <3>1, <3>3, <3>4, <3>5, MissedKeep
  <2> QED
    BY <2>6, <2>7 DEF MissedInv
<1>20. ASSUME NEW w \in Worker, ReadHistory(w)
      PROVE  MissedInv'
  <2>1. PICK R, g :
           /\ R \in Recent(RowsOfRoom, PushLimit)
           /\ Become(w, g)
           /\ g = [h[w] EXCEPT !.pc = "sendhist", !.rows = R]
    BY <1>20 DEF ReadHistory
  <2>2. /\ h[w].pc = "readhist"
        /\ g.pc = "sendhist" /\ g.sess = h[w].sess /\ g.rows = R
    BY <1>20, <1>1, <2>1 DEF ReadHistory, At, Handler
  <2>3. h'[w] = g /\ \A r \in Thread : r # w => h'[r] = h[r]
    BY <1>1, <2>1, BecomeHandler
  <2>4. /\ UNCHANGED <<live, username, message, got, hist, due>>
        /\ RowsOfRoom' = RowsOfRoom
    BY <1>20 DEF ReadHistory, inboxes, histories, RowsOfRoom
  <2>5. \A s \in Session : \A v \in due'[s] :
            h'[v].sess = s /\ h'[v].pc \in {"online", "readhist", "sendhist"}
    BY <1>1, <2>2, <2>3, <2>4 DEF MissedInv
  <2>6. ASSUME NEW s \in Session, HistoryRead(s)', NEW i \in RowsOfRoom
        PROVE  \/ i \in got'[s] \cup Shown(s)'
               \/ \E t \in Worker : Carries(t, i, s)'
               \/ Outdated(Shown(s), i)'
    <3>1. CASE w \in due[s]
      <4>1. R \subseteq Shown(s)'
        BY <2>2, <2>3, <2>4, <3>1 DEF Shown
      <4>2. Shown(s)' \subseteq 1..Len(message)
        <5>1. \A v \in due[s] : h'[v].rows \subseteq 1..Len(message)
          BY <1>1, <2>4 DEF IInv, TypeOK, HandlersFit, HandlerFits
        <5> QED
          BY <1>1, <2>4, <5>1 DEF Shown
      <4>3. i \in R \/ Outdated(R, i)
        BY <2>1, RecentCovers
      <4>4. ASSUME Outdated(R, i)
            PROVE  Outdated(Shown(s), i)'
        <5>1. PICK more : more = Shown(s)'
          OBVIOUS
        <5>2. Outdated(more, i)
          BY <1>1, <4>1, <4>2, <4>4, <5>1, OutdatedMore, MessagingAssumption
             DEF MessagingAssumption
        <5> QED
          BY <2>4, <5>1, <5>2 DEF Outdated
      <4> QED
        BY <4>1, <4>3, <4>4
    <3>2. CASE w \notin due[s]
      <4>1. \A v \in due[s] : h'[v] = h[v]
        BY <1>1, <2>3, <3>2
      <4>2. HistoryRead(s) /\ Shown(s)' = Shown(s)
        BY <2>4, <2>6, <4>1 DEF HistoryRead, At, Shown
      <4>3. \A j \in RowsOfRoom, t \in Worker :
                Carries(t, j, s) => Carries(t, j, s)'
        BY <1>1, <2>2, <2>3 DEF Carries, At
      <4> QED
        BY <2>4, <4>2, <4>3, MissedKeep
    <3> QED
      BY <3>1, <3>2
  <2> QED
    BY <2>4, <2>5, <2>6 DEF MissedInv
<1>21. ASSUME NEW w \in Worker, SendHistory(w)
      PROVE  MissedInv'
  <2> DEFINE s == h[w].sess
  <2>1. PICK g :
           /\ Become(w, g)
           /\ g = [h[w] EXCEPT !.pc = "compose", !.rows = {}]
    BY <1>21 DEF SendHistory
  <2>2. /\ h[w].pc = "sendhist" /\ s \in Session
        /\ g.pc = "compose"
    BY <1>21, <1>1, <2>1 DEF SendHistory, At, Handler, HandlerFits
  <2>3. h'[w] = g /\ \A r \in Thread : r # w => h'[r] = h[r]
    BY <1>1, <2>1, BecomeHandler
  <2>4. /\ UNCHANGED <<live, username, message, got>>
        /\ RowsOfRoom' = RowsOfRoom
    BY <1>21 DEF SendHistory, RowsOfRoom
  <2>5. /\ live[s] => hist'[s] = hist[s] \cup h[w].rows
        /\ due'[s] = due[s] \ {w}
        /\ \A r \in Session : r # s =>
               /\ hist'[r] = hist[r] /\ due'[r] = due[r] /\ w \notin due[r]
    BY <1>21, <1>1, <2>2 DEF SendHistory, Receive, MissedInv
  <2>6. \A r \in Session : \A v \in due'[r] :
            /\ v # w /\ v \in due[r] /\ h'[v] = h[v]
    BY <1>1, <2>3, <2>5
  <2>7. \A r \in Session : \A v \in due'[r] :
            h'[v].sess = r /\ h'[v].pc \in {"online", "readhist", "sendhist"}
    BY <2>6 DEF MissedInv
  <2>8. ASSUME NEW r \in Session, HistoryRead(r)'
        PROVE  \A i \in RowsOfRoom' :
                   \/ i \in got'[r] \cup Shown(r)'
                   \/ \E t \in Worker : Carries(t, i, r)'
                   \/ Outdated(Shown(r), i)'
    <3>1. live[r] /\ username[r] # NoUser
      BY <2>4, <2>8 DEF HistoryRead
    <3>2. \A v \in due[r] : (v = w /\ r = s) \/ v \in due'[r]
      BY <2>5
    <3>3. HistoryRead(r)
      BY <2>2, <2>6, <2>8, <3>1, <3>2 DEF HistoryRead, At
    <3>4. Shown(r) \subseteq Shown(r)'
      <4>1. hist[r] \subseteq Shown(r)'
        BY <2>5, <3>1 DEF Shown
      <4>2. ASSUME NEW v \in due[r]
            PROVE  h[v].rows \subseteq Shown(r)'
        <5>1. CASE v = w /\ r = s
          BY <2>5, <3>1, <5>1 DEF Shown
        <5>2. CASE v \in due'[r]
          BY <2>6, <5>2 DEF Shown
        <5> QED
          BY <3>2, <5>1, <5>2
      <4> QED
        BY <4>1, <4>2 DEF Shown
    <3>5. \A i \in RowsOfRoom, t \in Worker :
              Carries(t, i, r) => Carries(t, i, r)'
      BY <1>1, <2>2, <2>3 DEF Carries, At
    <3> QED
      BY <2>4, <3>3, <3>4, <3>5, MissedKeep
  <2> QED
    BY <2>7, <2>8 DEF MissedInv
<1>22. ASSUME NEW w \in Worker, StoreMessage(w)
      PROVE  MissedInv'
  <2>1. PICK g : /\ Become(w, g)
                 /\ g = [h[w] EXCEPT
                           !.pc = IF h[w].to = Room THEN "targets" ELSE "target",
                           !.num = Len(message) + 1]
    BY <1>22 DEF StoreMessage
  <2>2. /\ h[w].pc = "store"
        /\ g.pc = (IF h[w].to = Room THEN "targets" ELSE "target")
        /\ g.num = Len(message) + 1
    BY <1>22, <1>1, <2>1 DEF StoreMessage, At, Handler
  <2>3. h'[w] = g /\ \A r \in Thread : r # w => h'[r] = h[r]
    BY <1>1, <2>1, BecomeHandler
  <2>4. UNCHANGED <<live, username, got, hist, due>>
    BY <1>22 DEF StoreMessage, inboxes, histories
  <2>5. \A i \in RowsOfRoom' :
            \/ i \in RowsOfRoom
            \/ i = Len(message) + 1 /\ h[w].to = Room
    <3>1. PICK ok \in BOOLEAN :
              message' = Append(message, [from |-> h[w].who, to |-> h[w].to,
                                          ts |-> h[w].ts, stored |-> ok])
      BY <1>22 DEF StoreMessage
    <3>2. /\ Len(message') = Len(message) + 1
          /\ message'[Len(message) + 1].to = h[w].to
          /\ \A i \in 1..Len(message) : message'[i] = message[i]
      BY <1>1, <3>1
    <3> QED
      BY <1>1, <3>2 DEF RowsOfRoom
  <2>6. \A s \in Session : w \notin due[s]
    BY <2>2 DEF MissedInv
  <2>7. \A s \in Session : \A v \in due[s] : h'[v] = h[v]
    BY <1>1, <2>3, <2>6
  <2>8. \A s \in Session : \A v \in due'[s] :
            h'[v].sess = s /\ h'[v].pc \in {"online", "readhist", "sendhist"}
    BY <2>4, <2>7 DEF MissedInv
  <2>9. ASSUME NEW s \in Session, HistoryRead(s)', NEW i \in RowsOfRoom'
        PROVE  \/ i \in got'[s] \cup Shown(s)'
               \/ \E t \in Worker : Carries(t, i, s)'
               \/ Outdated(Shown(s), i)'
    <3>1. CASE i \in RowsOfRoom
      <4>1. HistoryRead(s) /\ Shown(s)' = Shown(s)
        BY <2>4, <2>7, <2>9 DEF HistoryRead, At, Shown
      <4>2. \A j \in RowsOfRoom, t \in Worker :
                Carries(t, j, s) => Carries(t, j, s)'
        BY <1>1, <2>2, <2>3 DEF Carries, At
      <4> QED
        BY <2>4, <3>1, <4>1, <4>2, MissedKeep
    <3>2. CASE i = Len(message) + 1 /\ h[w].to = Room
      BY <2>2, <2>3, <3>2 DEF Carries, At
    <3> QED
      BY <2>5, <2>9, <3>1, <3>2
  <2> QED
    BY <2>8, <2>9 DEF MissedInv
<1>23. ASSUME NEW w \in Worker, MessageTargets(w)
      PROVE  MissedInv'
  <2>1. PICK g : Become(w, g) /\ g = Sending(w, "deliver", Targets(w))
    BY <1>23 DEF MessageTargets
  <2>2. /\ h[w].pc = "targets"
        /\ Targets(w) = {} => g.pc = "idle"
        /\ Targets(w) # {} => /\ g.pc = "deliver" /\ g.todo = Targets(w)
                              /\ g.num = h[w].num
    BY <1>23, <1>1, <2>1 DEF MessageTargets, At, Sending, Handler, Idle
  <2>3. h'[w] = g /\ \A r \in Thread : r # w => h'[r] = h[r]
    BY <1>1, <2>1, BecomeHandler
  <2>4. /\ UNCHANGED <<live, username, message, got, hist, due>>
        /\ RowsOfRoom' = RowsOfRoom
    BY <1>23 DEF MessageTargets, inboxes, histories, RowsOfRoom
  <2>5. \A s \in Session : w \notin due[s]
    BY <2>2 DEF MissedInv
  <2>6. \A s \in Session : \A v \in due[s] : h'[v] = h[v]
    BY <1>1, <2>3, <2>5
  <2>7. \A s \in Session : \A v \in due'[s] :
            h'[v].sess = s /\ h'[v].pc \in {"online", "readhist", "sendhist"}
    BY <2>4, <2>6 DEF MissedInv
  <2>8. ASSUME NEW s \in Session, HistoryRead(s)'
        PROVE  \A i \in RowsOfRoom' :
                   \/ i \in got'[s] \cup Shown(s)'
                   \/ \E t \in Worker : Carries(t, i, s)'
                   \/ Outdated(Shown(s), i)'
    <3>1. HistoryRead(s) /\ Shown(s)' = Shown(s) /\ s \in Targets(w)
      BY <2>4, <2>6, <2>8 DEF HistoryRead, At, Shown, Targets
    <3>2. \A i \in RowsOfRoom, t \in Worker :
              Carries(t, i, s) => Carries(t, i, s)'
      BY <1>1, <2>2, <2>3, <3>1 DEF Carries, At
    <3> QED
      BY <2>4, <3>1, <3>2, MissedKeep
  <2> QED
    BY <2>7, <2>8 DEF MissedInv
<1>24. ASSUME NEW w \in Worker, Deliver(w)
      PROVE  MissedInv'
  <2>1. PICK r, g :
            /\ r \in h[w].todo
            /\ Become(w, g)
            /\ g = Sending(w, "deliver", h[w].todo \ {r})
            /\ got' = Receive(got, r, {h[w].num})
    BY <1>24 DEF Deliver
  <2>2. /\ h[w].pc = "deliver" /\ r \in Session
        /\ h[w].todo = {r} => g.pc = "idle"
        /\ h[w].todo # {r} => /\ g.pc = "deliver" /\ g.todo = h[w].todo \ {r}
                              /\ g.num = h[w].num
    BY <1>24, <1>1, <2>1 DEF Deliver, At, Sending, Handler, Idle
  <2>3. h'[w] = g /\ \A t \in Thread : t # w => h'[t] = h[t]
    BY <1>1, <2>1, BecomeHandler
  <2>4. /\ UNCHANGED <<live, username, message, hist, due>>
        /\ RowsOfRoom' = RowsOfRoom
    BY <1>24 DEF Deliver, histories, RowsOfRoom
  <2>5. /\ \A s \in Session : got[s] \subseteq got'[s]
        /\ live[r] => h[w].num \in got'[r]
    BY <1>1, <2>1, <2>2 DEF Receive
  <2>6. \A s \in Session : w \notin due[s]
    BY <2>2 DEF MissedInv
  <2>7. \A s \in Session : \A v \in due[s] : h'[v] = h[v]
    BY <1>1, <2>3, <2>6
  <2>8. \A s \in Session : \A v \in due'[s] :
            h'[v].sess = s /\ h'[v].pc \in {"online", "readhist", "sendhist"}
    BY <2>4, <2>7 DEF MissedInv
  <2>9. ASSUME NEW s \in Session, HistoryRead(s)'
        PROVE  \A i \in RowsOfRoom' :
                   \/ i \in got'[s] \cup Shown(s)'
                   \/ \E t \in Worker : Carries(t, i, s)'
                   \/ Outdated(Shown(s), i)'
    <3>1. HistoryRead(s) /\ Shown(s)' = Shown(s) /\ live[s]
      BY <2>4, <2>7, <2>9 DEF HistoryRead, At, Shown
    <3>2. ASSUME NEW i \in RowsOfRoom, NEW t \in Worker, Carries(t, i, s)
          PROVE  i \in got'[s] \/ Carries(t, i, s)'
      <4>1. CASE t # w
        BY <1>1, <2>3, <3>2, <4>1 DEF Carries, At
      <4>2. CASE t = w
        BY <2>2, <2>3, <2>5, <3>1, <3>2, <4>2 DEF Carries, At
      <4> QED
        BY <4>1, <4>2
    <3> QED
      BY <2>4, <2>5, <3>1, <3>2, MissedKeep
  <2> QED
    BY <2>8, <2>9 DEF MissedInv
<1>25. CASE UNCHANGED vars
  <2>1. /\ UNCHANGED <<live, username, message, got, hist, due, h>>
        /\ RowsOfRoom' = RowsOfRoom
    BY <1>25 DEF vars, inboxes, histories, RowsOfRoom
  <2>2. \A s \in Session :
            /\ HistoryRead(s)' => HistoryRead(s)
            /\ Shown(s)' = Shown(s)
            /\ \A i \in RowsOfRoom, t \in Worker :
                   Carries(t, i, s) => Carries(t, i, s)'
    BY <2>1 DEF HistoryRead, Shown, Carries, At
  <2>3. \A s \in Session : \A v \in due'[s] :
            h'[v].sess = s /\ h'[v].pc \in {"online", "readhist", "sendhist"}
    BY <2>1 DEF MissedInv
  <2>4. ASSUME NEW s \in Session, HistoryRead(s)'
        PROVE  \A i \in RowsOfRoom' :
                   \/ i \in got'[s] \cup Shown(s)'
                   \/ \E t \in Worker : Carries(t, i, s)'
                   \/ Outdated(Shown(s), i)'
    BY <2>1, <2>2, <2>4, MissedKeep
  <2> QED
    BY <2>3, <2>4 DEF MissedInv
<1> QED
  BY <1>2, <1>3, <1>4, <1>5, <1>6, <1>7, <1>8, <1>9, <1>10, <1>11, <1>12,
     <1>13, <1>14, <1>15, <1>16, <1>17, <1>18, <1>19, <1>20, <1>21, <1>22,
     <1>23, <1>24, <1>25, <1>1 DEF Next, WorkerStep, Logout, Announce

\* A client that is logged in and has its history misses no message of the
\* room, stored at whatever moment of its login (finish_login, push_history,
\* handle_broadcast).
THEOREM NoMessageMissedHolds == Spec => []NoMessageMissed
<1>1. Init => MissedInv
  BY DEF Init, MissedInv, RowsOfRoom
<1>2. Spec => [](IInv /\ MissedInv)
  BY <1>1, TypeInit, TypeStep, MissedStep, PTL DEF Spec
<1>3. MissedInv => NoMessageMissed
  BY DEF MissedInv, NoMessageMissed, HistoryRead, Shown
<1> QED
  BY <1>2, <1>3, PTL
=============================================================================
