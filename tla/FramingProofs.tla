----------------------------- MODULE FramingProofs -----------------------------
(***************************************************************************)
(* Proofs about Framing: for every stream of frames, every way the network  *)
(* cuts it and every limit, the parser never loses its place.               *)
(***************************************************************************)
EXTENDS Framing, SequenceTheorems, TLAPS

\* The messages, without their order.
Messages == {out[i] : i \in 1..Len(out)}

\* The frames before frame k that are JSON.
GoodBefore(k) ==
    {stream.start[i] : i \in {n \in 1..(k - 1) : Parseable(n)}}

Ordered == \A i, j \in 1..Len(out) : i < j => out[i] < out[j]

\* The last n frames of st before frame k are not JSON, and no more.
Strikes(st, n, k) ==
    /\ n < k
    /\ \A i \in (k - n)..(k - 1) : ~(st.kind[st.start[i]] # "malformed")
    /\ n < k - 1 => st.kind[st.start[k - 1 - n]] # "malformed"

StrikesAt(k) == Strikes(stream, fails, k)

\* The inductive invariant: both properties at the same frame.
ParserInv ==
    \E k \in 1..Len(stream.start) :
        /\ parsed = stream.start[k]
        /\ Ordered
        /\ Messages = GoodBefore(k)
        /\ StrikesAt(k)

\* The call after the last strike does not parse.
StrikesClose == fails = MaxFailures => mode = "closed"

FramingInv ==
    /\ TypeOK
    /\ ParserInv
    /\ StrikesClose
    /\ BufferBounded

-----------------------------------------------------------------------------

LEMMA FramingInit == Init => FramingInv
<1> SUFFICES ASSUME Init PROVE FramingInv
  OBVIOUS
<1>1. WellFormed(stream)
  BY FramingAssumption DEF Init, FramingAssumption
<1>2. End \in Nat /\ 0 \in 0..End
  BY <1>1 DEF WellFormed, End
<1>3. TypeOK
  <2>1. <<>> \in Seq(Nat) /\ Len(<<>>) = 0
    OBVIOUS
  <2>2. 0 \in 0..MaxFailures /\ 0 \in 0..0
    BY FramingAssumption DEF FramingAssumption
  <2>3. arrived \in 0..End /\ rcvd \in 0..arrived /\ parsed \in 0..rcvd
    BY <1>2, <2>2, Zenon DEF Init
  <2>4. out \in Seq(Nat) /\ handed \in 0..Len(out)
    BY <2>1, <2>2, Zenon DEF Init
  <2>5. taken \in 0..handed /\ handled \in 0..taken
    BY <2>2, Zenon DEF Init
  <2>6. fails \in 0..MaxFailures
    BY <2>2, Zenon DEF Init
  <2>7. eof \in BOOLEAN /\ fin \in BOOLEAN /\ auth \in BOOLEAN
    BY Zenon DEF Init
  <2> QED
    BY <1>1, <2>3, <2>4, <2>5, <2>6, <2>7, Zenon DEF Init, TypeOK
<1>4. ParserInv
  <2>1. 1 \in 1..Len(stream.start) /\ parsed = stream.start[1]
    BY <1>1 DEF Init, WellFormed
  <2>2. Ordered /\ Messages = {}
    BY DEF Init, Ordered, Messages
  <2>3. GoodBefore(1) = {}
    BY DEF GoodBefore
  <2>4. StrikesAt(1)
    BY DEF Init, StrikesAt, Strikes
  <2> QED
    BY <2>1, <2>2, <2>3, <2>4 DEF ParserInv
<1>5. fails # MaxFailures
  BY FramingAssumption DEF Init, FramingAssumption
<1>6. BufferBounded
  BY FramingAssumption DEF Init, BufferBounded, Buffered, FramingAssumption
<1> QED
  BY <1>3, <1>4, <1>5, <1>6 DEF FramingInv, StrikesClose

\* What a stream that is well formed gives the parser: a frame taken at the
\* beginning of frame k ends where frame k+1 begins.
LEMMA NextFrame ==
    ASSUME TypeOK, NEW k \in 1..Len(stream.start), parsed = stream.start[k],
           HasHeader
    PROVE  /\ k + 1 \in 1..Len(stream.start)
           /\ stream.start[k + 1] = parsed + HeaderLen + BodyLen
           /\ \A i \in 1..(k - 1) : stream.start[i] < parsed
<1>1. WellFormed(stream) /\ HeaderLen \in Nat \ {0}
  BY FramingAssumption DEF TypeOK, FramingAssumption
<1>2. Len(stream.start) \in Nat
  BY <1>1 DEF WellFormed
<1>3. parsed + 1 <= End
  <2>1. /\ parsed \in Nat /\ rcvd \in Nat /\ arrived \in Nat /\ End \in Nat
        /\ rcvd <= arrived /\ arrived <= End /\ parsed <= rcvd
    BY <1>1, SMTT(20) DEF TypeOK, WellFormed, End
  <2>2. rcvd - parsed >= HeaderLen
    BY DEF HasHeader, Buffered
  <2> QED
    BY <1>1, <2>1, <2>2
<1>4. k # Len(stream.start)
  <2>1. parsed \in Nat
    BY <1>1 DEF TypeOK, WellFormed, End
  <2> QED
    BY <1>3, <2>1 DEF End
<1>5. k + 1 \in 1..Len(stream.start) /\ k \in 1..(Len(stream.start) - 1)
  BY <1>2, <1>4
<1>6. stream.start[k + 1] = parsed + HeaderLen + BodyLen
  BY <1>1, <1>5 DEF WellFormed, BodyLen
<1>7. \A i \in 1..(k - 1) : stream.start[i] < parsed
  BY <1>1, <1>2, SMTT(20) DEF WellFormed
<1> QED
  BY <1>5, <1>6, <1>7

LEMMA TypeStep ==
    TypeOK /\ StrikesClose /\ [Next]_vars => TypeOK' /\ StrikesClose'
<1> SUFFICES ASSUME TypeOK, StrikesClose, [Next]_vars
             PROVE  TypeOK' /\ StrikesClose'
  OBVIOUS
<1>1. /\ WellFormed(stream) /\ End \in Nat
      /\ arrived \in Nat /\ rcvd \in Nat /\ parsed \in Nat /\ fails \in Nat
  BY FramingAssumption DEF TypeOK, WellFormed, End, FramingAssumption
<1>2. /\ HeaderLen \in Nat /\ Chunk \in Nat \ {0} /\ MaxFailures \in Nat \ {0}
  BY FramingAssumption DEF FramingAssumption
<1>3. HasHeader => BodyLen \in Nat
  <2>1. HasHeader => parsed \in 0..End
    BY <1>1, <1>2 DEF TypeOK
  <2> QED
    BY <1>1, <2>1 DEF WellFormed, BodyLen, End
<1> USE <1>1, <1>2 DEF network, pool, End, StrikesClose
<1>4. CASE Arrive
  BY <1>4 DEF Arrive, TypeOK
<1>5. CASE Fin
  BY <1>5 DEF Fin, TypeOK
<1>6. CASE Wakeup
  BY <1>6 DEF Wakeup, TypeOK
<1>7. CASE RecvBytes
  BY <1>7 DEF RecvBytes, TypeOK
<1>8. CASE RecvDone
  BY <1>8 DEF RecvDone, TypeOK
<1>9. CASE RecvFails
  BY <1>9 DEF RecvFails, TypeOK
<1>10. CASE DropBadLength
  BY <1>10 DEF DropBadLength, TypeOK
<1>11. CASE TakeGood
  <2>1. parsed' = parsed + HeaderLen + BodyLen /\ BodyLen \in Nat
    BY <1>3, <1>11 DEF TakeGood
  <2>2. parsed' \in 0..rcvd
    BY <1>11, <2>1 DEF TakeGood, HasFrame, Buffered
  <2>3. out' \in Seq(Nat) /\ Len(out') = Len(out) + 1
    BY <1>11 DEF TakeGood, TypeOK
  <2> QED
    BY <1>11, <2>2, <2>3 DEF TakeGood, TypeOK
<1>12. CASE TakeMalformed
  <2>1. parsed' = parsed + HeaderLen + BodyLen /\ BodyLen \in Nat
    BY <1>3, <1>12 DEF TakeMalformed
  <2>2. parsed' \in 0..rcvd
    BY <1>12, <2>1 DEF TakeMalformed, HasFrame, Buffered
  <2> QED
    BY <1>12, <2>2 DEF TakeMalformed, TypeOK
<1>13. CASE ParseDone
  BY <1>13 DEF ParseDone, TypeOK
<1>14. CASE Enqueue
  BY <1>14 DEF Enqueue, TypeOK
<1>15. CASE DiagnosticThrows
  BY <1>15 DEF DiagnosticThrows, TypeOK
<1>16. CASE DispatchDone
  BY <1>16 DEF DispatchDone, TypeOK
<1>17. CASE Handle
  BY <1>17 DEF Handle, TypeOK
<1>18. CASE Drop
  BY <1>18 DEF Drop, TypeOK
<1>19. CASE UNCHANGED vars
  BY <1>19 DEF vars, TypeOK
<1> QED
  BY <1>4, <1>5, <1>6, <1>7, <1>8, <1>9, <1>10, <1>11, <1>12, <1>13, <1>14,
     <1>15, <1>16, <1>17, <1>18, <1>19
     DEF Next, MainStep, RecvMsgs, Dispatch, WorkerStep

\* Steps that do not parse change nothing of the parser.
LEMMA ParserStutters ==
    ASSUME ParserInv, UNCHANGED <<stream, parsed, fails, out>>
    PROVE  ParserInv'
BY DEF ParserInv, Ordered, Messages, GoodBefore, StrikesAt, Parseable

LEMMA TakeGoodParser ==
    ASSUME TypeOK, ParserInv, TakeGood PROVE ParserInv'
<1>1. PICK k \in 1..Len(stream.start) :
        parsed = stream.start[k] /\ Ordered /\ Messages = GoodBefore(k)
  BY DEF ParserInv
<1>2. /\ k + 1 \in 1..Len(stream.start)
      /\ stream.start[k + 1] = parsed + HeaderLen + BodyLen
      /\ \A i \in 1..(k - 1) : stream.start[i] < parsed
  BY <1>1, NextFrame DEF TakeGood
<1>3. stream' = stream /\ parsed' = stream.start[k + 1] /\ fails' = 0
  BY <1>2 DEF TakeGood, network
<1>4. Parseable(k)
  BY <1>1 DEF TakeGood, Parseable
<1>5. /\ out \in Seq(Nat) /\ Len(out') = Len(out) + 1
      /\ out'[Len(out) + 1] = parsed
      /\ \A i \in 1..Len(out) : out'[i] = out[i]
  <2>1. out \in Seq(Nat) /\ out' = Append(out, parsed) /\ parsed \in Nat
    BY DEF TypeOK, TakeGood
  <2> QED
    BY <2>1
<1>6. Messages' = Messages \cup {parsed}
  <2>1. 1..Len(out') = 1..Len(out) \cup {Len(out) + 1} /\ Len(out) \in Nat
    BY <1>5
  <2> QED
    BY <1>5, <2>1, SMTT(20) DEF Messages
<1>7. GoodBefore(k + 1)' = GoodBefore(k) \cup {parsed}
  <2>1. k \in Nat \ {0}
    BY <1>2, FramingAssumption DEF TypeOK, WellFormed, FramingAssumption
  <2>2. 1..((k + 1) - 1) = 1..(k - 1) \cup {k}
    BY <2>1
  <2>3. {n \in 1..((k + 1) - 1) : Parseable(n)}
            = {n \in 1..(k - 1) : Parseable(n)} \cup {k}
    BY <1>4, <2>2
  <2>4. GoodBefore(k + 1) = GoodBefore(k) \cup {parsed}
    BY <1>1, <2>3 DEF GoodBefore
  <2>5. GoodBefore(k + 1)' = GoodBefore(k + 1)
    BY <1>3 DEF GoodBefore, Parseable
  <2> QED
    BY <2>4, <2>5
<1>8. Ordered'
  <2>1. \A i \in 1..Len(out) : out[i] < parsed
    <3>1. \A m \in GoodBefore(k) : m < parsed
      BY <1>2 DEF GoodBefore
    <3> QED
      BY <1>1, <3>1 DEF Messages
  <2>2. Len(out) \in Nat /\ \A i \in 1..(Len(out) + 1) :
            i \in 1..Len(out) \/ i = Len(out) + 1
    BY <1>5
  <2>3. ASSUME NEW i \in 1..Len(out'), NEW j \in 1..Len(out'), i < j
        PROVE  out'[i] < out'[j]
    <3>1. i \in 1..Len(out)
      BY <1>5, <2>2, <2>3
    <3>2. CASE j \in 1..Len(out)
      BY <1>1, <1>5, <2>3, <3>1, <3>2 DEF Ordered
    <3>3. CASE j = Len(out) + 1
      BY <1>5, <2>1, <3>1, <3>3
    <3> QED
      BY <1>5, <2>2, <3>2, <3>3
  <2> QED
    BY <2>3 DEF Ordered
<1>9. StrikesAt(k + 1)'
  <2>1. k \in Nat \ {0}
    BY <1>2, FramingAssumption DEF TypeOK, WellFormed, FramingAssumption
  <2>2. /\ 0 < k + 1 /\ (k + 1) - 1 - 0 = k
        /\ ((k + 1) - 0)..((k + 1) - 1) = {}
    BY <2>1
  <2>3. Strikes(stream, 0, k + 1)
    BY <1>4, <2>1, <2>2 DEF Strikes, Parseable
  <2> QED
    BY <1>3, <2>3 DEF StrikesAt
<1>10. k + 1 \in 1..Len(stream'.start) /\ parsed' = stream'.start[k + 1]
  BY <1>2, <1>3
<1>11. Messages' = GoodBefore(k + 1)'
  BY <1>1, <1>6, <1>7
<1> QED
  BY <1>8, <1>9, <1>10, <1>11 DEF ParserInv

LEMMA TakeMalformedParser ==
    ASSUME TypeOK, ParserInv, TakeMalformed PROVE ParserInv'
<1>1. PICK k \in 1..Len(stream.start) :
        /\ parsed = stream.start[k] /\ Ordered /\ Messages = GoodBefore(k)
        /\ StrikesAt(k)
  BY DEF ParserInv
<1>2. /\ k + 1 \in 1..Len(stream.start)
      /\ stream.start[k + 1] = parsed + HeaderLen + BodyLen
  BY <1>1, NextFrame DEF TakeMalformed
<1>3. /\ stream' = stream /\ parsed' = stream.start[k + 1] /\ out' = out
      /\ fails' = fails + 1
  BY <1>2 DEF TakeMalformed, network
<1>4. ~Parseable(k)
  BY <1>1 DEF TakeMalformed, Parseable
<1>5. k \in Nat \ {0} /\ fails \in Nat
  BY <1>2, FramingAssumption DEF TypeOK, WellFormed, FramingAssumption
<1>6. Messages' = GoodBefore(k + 1)'
  <2>1. 1..((k + 1) - 1) = 1..(k - 1) \cup {k}
    BY <1>5
  <2>2. {n \in 1..((k + 1) - 1) : Parseable(n)}
            = {n \in 1..(k - 1) : Parseable(n)}
    BY <1>4, <2>1
  <2>3. GoodBefore(k + 1) = GoodBefore(k)
    BY <2>2 DEF GoodBefore
  <2>4. GoodBefore(k + 1)' = GoodBefore(k + 1)
    BY <1>3 DEF GoodBefore, Parseable
  <2>5. Messages' = Messages
    BY <1>3 DEF Messages
  <2> QED
    BY <1>1, <2>3, <2>4, <2>5
<1>7. Ordered'
  BY <1>1, <1>3 DEF Ordered
<1>8. StrikesAt(k + 1)'
  <2>1. /\ fails < k
        /\ \A i \in (k - fails)..(k - 1) : ~Parseable(i)
        /\ fails < k - 1 => Parseable(k - 1 - fails)
    BY <1>1 DEF StrikesAt, Strikes, Parseable
  <2>2. /\ fails + 1 < k + 1
        /\ ((k + 1) - (fails + 1))..((k + 1) - 1)
              = (k - fails)..(k - 1) \cup {k}
        /\ ((k + 1) - 1) - (fails + 1) = (k - 1) - fails
        /\ fails + 1 < (k + 1) - 1 => fails < k - 1
    BY <1>5, <2>1
  <2>3. /\ \A i \in ((k + 1) - (fails + 1))..((k + 1) - 1) : ~Parseable(i)
        /\ fails + 1 < (k + 1) - 1
              => Parseable(((k + 1) - 1) - (fails + 1))
    BY <1>4, <2>1, <2>2
  <2>4. Strikes(stream, fails + 1, k + 1)
    BY <2>2, <2>3, Zenon DEF Strikes, Parseable
  <2> QED
    BY <1>3, <2>4, Zenon DEF StrikesAt
<1>9. k + 1 \in 1..Len(stream'.start) /\ parsed' = stream'.start[k + 1]
  BY <1>2, <1>3
<1> QED
  BY <1>6, <1>7, <1>8, <1>9 DEF ParserInv

LEMMA ParserStep == TypeOK /\ ParserInv /\ [Next]_vars => ParserInv'
<1> SUFFICES ASSUME TypeOK, ParserInv, [Next]_vars PROVE ParserInv'
  OBVIOUS
<1>1. CASE TakeGood
  BY <1>1, TakeGoodParser
<1>2. CASE TakeMalformed
  BY <1>2, TakeMalformedParser
<1>3. CASE UNCHANGED vars
  BY <1>3, ParserStutters DEF vars
<1>4. ASSUME Next, ~TakeGood, ~TakeMalformed
      PROVE  UNCHANGED <<stream, parsed, fails, out>>
  BY <1>4
     DEF Next, MainStep, RecvMsgs, Dispatch, WorkerStep, Arrive, Fin, Wakeup,
         RecvBytes, RecvDone, RecvFails, DropBadLength, ParseDone, Enqueue,
         DiagnosticThrows, DispatchDone, Handle, Drop, network, pool
<1> QED
  BY <1>1, <1>2, <1>3, <1>4, ParserStutters

LEMMA BufferStep == TypeOK /\ BufferBounded /\ [Next]_vars => BufferBounded'
<1> SUFFICES ASSUME TypeOK, BufferBounded, [Next]_vars PROVE BufferBounded'
  OBVIOUS
<1>1. /\ arrived \in Nat /\ rcvd \in Nat /\ parsed \in Nat /\ parsed <= rcvd
      /\ MaxBuf \in Nat /\ Chunk \in Nat \ {0} /\ HeaderLen \in Nat
  BY FramingAssumption DEF TypeOK, WellFormed, End, FramingAssumption
<1>2. rcvd - parsed < MaxBuf + Chunk
  BY DEF BufferBounded, Buffered
<1>3. CASE RecvBytes
  BY <1>1, <1>3 DEF RecvBytes, BufferFull, Buffered, BufferBounded
<1>4. CASE TakeGood \/ TakeMalformed
  <2>1. HasHeader => BodyLen \in Nat
    <3>1. HasHeader => parsed \in 0..End
      BY <1>1 DEF TypeOK, WellFormed, End
    <3> QED
      BY <3>1 DEF TypeOK, WellFormed, BodyLen, End
  <2>2. rcvd' = rcvd /\ parsed' = parsed + HeaderLen + BodyLen /\ BodyLen \in Nat
    BY <1>4, <2>1 DEF TakeGood, TakeMalformed
  <2> QED
    BY <1>1, <1>2, <2>2 DEF BufferBounded, Buffered
<1>5. ASSUME Next, ~RecvBytes, ~TakeGood, ~TakeMalformed
      PROVE  UNCHANGED <<rcvd, parsed>>
  BY <1>5
     DEF Next, MainStep, RecvMsgs, Dispatch, WorkerStep, Arrive, Fin, Wakeup,
         RecvDone, RecvFails, DropBadLength, ParseDone, Enqueue,
         DiagnosticThrows, DispatchDone, Handle, Drop, network, pool
<1>6. CASE UNCHANGED vars
  BY <1>2, <1>6 DEF vars, BufferBounded, Buffered
<1> QED
  BY <1>2, <1>3, <1>4, <1>5, <1>6 DEF BufferBounded, Buffered

-----------------------------------------------------------------------------

\* The inductive invariant of the parser, for every stream and every limit.
THEOREM FramingInvariant == Spec => []FramingInv
<1>1. Init => FramingInv
  BY FramingInit
<1>2. FramingInv /\ [Next]_vars => FramingInv'
  BY TypeStep, ParserStep, BufferStep DEF FramingInv
<1> QED
  BY <1>1, <1>2, PTL DEF Spec

\* Type correctness.  The counts stay in order, whatever a connection sends:
\* no more is parsed than was received, and no message is handled that was not
\* queued before (recv_msgs, handle_client_event, the workers).
THEOREM TypeCorrect == Spec => []TypeOK
<1>1. FramingInv => TypeOK
  BY DEF FramingInv
<1> QED
  BY <1>1, FramingInvariant, PTL

\* However the bytes arrive, recv_msgs yields exactly the frames of the
\* client, in order, without those that are no JSON.
THEOREM FramesExactHolds == Spec => []FramesExact
<1>1. FramingInv => FramesExact
  BY DEF FramingInv, ParserInv, FramesExact, Ordered, Messages, GoodBefore
<1> QED
  BY <1>1, FramingInvariant, PTL

\* consecutive_parse_failures is the number of bad frames in a row.
THEOREM StrikesExactHolds == Spec => []StrikesExact
<1>1. FramingInv => StrikesExact
  BY DEF FramingInv, ParserInv, StrikesClose, StrikesExact, StrikesAt,
         Strikes, Parseable
<1> QED
  BY <1>1, FramingInvariant, PTL

\* recv_buf stays below MAX_RECV_BUF_SIZE and one read.
THEOREM BufferBoundedHolds == Spec => []BufferBounded
<1>1. FramingInv => BufferBounded
  BY DEF FramingInv
<1> QED
  BY <1>1, FramingInvariant, PTL

-----------------------------------------------------------------------------
(* The refinement of FrameReader.                                          *)

\* The frames of a stream begin at different offsets.
LEMMA PlaceUnique ==
    ASSUME NEW st, WellFormed(st), NEW k \in 1..Len(st.start)
    PROVE  Place(st, st.start[k]) = k
<1>1. Len(st.start) \in Nat /\ \A i \in 1..Len(st.start) : st.start[i] \in Nat
  BY DEF WellFormed
<1>2. \A i \in 1..Len(st.start) : st.start[i] = st.start[k] => i = k
  <2> SUFFICES ASSUME NEW i \in 1..Len(st.start), st.start[i] = st.start[k],
                      i # k
               PROVE  FALSE
    OBVIOUS
  <2>1. i < k \/ k < i
    BY <1>1
  <2>2. st.start[i] < st.start[k] \/ st.start[k] < st.start[i]
    BY <2>1 DEF WellFormed
  <2> QED
    BY <1>1, <2>2
<1> QED
  BY <1>2, Zenon DEF Place

\* Where the parser stands, seen from the frames of the client.
LEMMA FrameAhead ==
    ASSUME TypeOK, NEW k \in 1..Len(stream.start), parsed = stream.start[k],
           HasHeader
    PROVE  /\ FramesRead = k - 1 /\ k \in Nat \ {0}
           /\ FramesRead + 1 = k /\ FramesRead < Len(Frames)
           /\ Frames[k].name = parsed /\ Frames[k].good = Parseable(k)
           /\ Parseable(k) <=> stream.kind[parsed] # "malformed"
           /\ Place(stream, parsed + HeaderLen + BodyLen) = k + 1
<1>1. WellFormed(stream) /\ Len(stream.start) \in Nat
  BY DEF TypeOK, WellFormed
<1>2. /\ k + 1 \in 1..Len(stream.start)
      /\ stream.start[k + 1] = parsed + HeaderLen + BodyLen
  BY NextFrame
<1>3. Place(stream, parsed) = k
  BY <1>1, PlaceUnique
<1>4. Place(stream, parsed + HeaderLen + BodyLen) = k + 1
  BY <1>1, <1>2, PlaceUnique
<1>5. k \in 1..(Len(stream.start) - 1) /\ k \in Nat \ {0}
  BY <1>1, <1>2
<1>6. Len(Frames) = Len(stream.start) - 1
  <2>1. Len(stream.start) - 1 \in Nat
    BY <1>1, <1>5
  <2> QED
    BY <2>1 DEF Frames
<1>7. Frames[k].name = parsed /\ Frames[k].good = Parseable(k)
  BY <1>5 DEF Frames
<1>8. FramesRead = k - 1
  BY <1>3 DEF FramesRead
<1> QED
  BY <1>4, <1>5, <1>6, <1>7, <1>8 DEF Parseable

LEMMA ReaderInit == Init => Reader!Init
<1> SUFFICES ASSUME Init PROVE Reader!Init
  OBVIOUS
<1>1. WellFormed(stream)
  BY FramingAssumption DEF Init, FramingAssumption
<1>2. /\ Len(stream.start) - 1 \in Nat /\ 1 \in 1..Len(stream.start)
      /\ \A i \in 1..Len(stream.start) : stream.start[i] \in Nat
      /\ stream.start[1] = 0
  BY <1>1 DEF WellFormed
<1>3. Frames \in Seq([name : Nat, good : BOOLEAN])
  BY <1>2 DEF Frames, Parseable
<1>4. FramesRead = 0
  <2>1. Place(stream, 0) = 1
    BY <1>1, <1>2, PlaceUnique
  <2> QED
    BY <2>1 DEF FramesRead, Init
<1> QED
  BY <1>3, <1>4 DEF Init, Reader!Init

\* A message joins the others.
LEMMA GoodRead ==
    ASSUME FramingInv, TakeGood
    PROVE  Reader!ReadGood
<1>1. PICK k \in 1..Len(stream.start) : parsed = stream.start[k]
  BY DEF FramingInv, ParserInv
<1>2. /\ stream' = stream /\ parsed' = parsed + HeaderLen + BodyLen
      /\ out' = Append(out, parsed) /\ handled' = handled
      /\ mode = "parse" /\ mode' = "parse"
      /\ HasHeader /\ stream.kind[parsed] # "malformed"
  BY DEF TakeGood, network, pool
<1>3. /\ FramesRead + 1 = k /\ FramesRead = k - 1 /\ k \in Nat \ {0}
      /\ FramesRead < Len(Frames)
      /\ Frames[k].name = parsed /\ Frames[k].good = Parseable(k)
      /\ Parseable(k)
      /\ Place(stream, parsed + HeaderLen + BodyLen) = k + 1
  BY <1>1, <1>2, FrameAhead DEF FramingInv
<1>4. Frames' = Frames
  BY <1>2 DEF Frames, Parseable
<1>5. FramesRead' = FramesRead + 1
  BY <1>2, <1>3 DEF FramesRead
<1> QED
  BY <1>2, <1>3, <1>4, <1>5 DEF Reader!ReadGood

\* A frame is skipped; the connection ends with the last of MaxFailures in a
\* row that are, the first frames of a connection included.
LEMMA BadRead ==
    ASSUME FramingInv, TakeMalformed
    PROVE  Reader!ReadBad
<1>1. PICK k \in 1..Len(stream.start) : parsed = stream.start[k] /\ StrikesAt(k)
  BY DEF FramingInv, ParserInv
<1>2. /\ stream' = stream /\ parsed' = parsed + HeaderLen + BodyLen
      /\ out' = out /\ handled' = handled /\ mode = "parse"
      /\ mode' = IF fails + 1 >= MaxFailures THEN "closed" ELSE "parse"
      /\ HasHeader /\ stream.kind[parsed] = "malformed"
  BY DEF TakeMalformed, network, pool
<1>3. /\ FramesRead + 1 = k /\ FramesRead = k - 1 /\ k \in Nat \ {0}
      /\ FramesRead < Len(Frames)
      /\ Frames[k].good = Parseable(k) /\ ~Parseable(k)
      /\ Place(stream, parsed + HeaderLen + BodyLen) = k + 1
  BY <1>1, <1>2, FrameAhead DEF FramingInv
<1>4. Frames' = Frames
  BY <1>2 DEF Frames, Parseable
<1>5. FramesRead' = FramesRead + 1
  BY <1>2, <1>3 DEF FramesRead
<1>6. /\ fails \in Nat /\ MaxFailures \in Nat \ {0} /\ fails < k
      /\ \A i \in (k - fails)..(k - 1) : ~Parseable(i)
      /\ fails < k - 1 => Parseable(k - 1 - fails)
  BY <1>1, FramingAssumption
  DEF FramingInv, TypeOK, StrikesAt, Strikes, Parseable, FramingAssumption
<1>7. \A i \in 1..k : Frames[i].good = Parseable(i)
  <2>1. k \in 1..(Len(stream.start) - 1)
    BY <1>3, <1>1 DEF FramingInv, TypeOK, WellFormed, Frames
  <2> QED
    BY <1>3, <2>1 DEF Frames
<1>8. fails + 1 >= MaxFailures => Reader!StruckOut(k)
  <2> HAVE fails + 1 >= MaxFailures
  <2>1. k >= MaxFailures /\ (k - MaxFailures + 1)..k \subseteq 1..k
    BY <1>3, <1>6
  <2>2. \A i \in (k - MaxFailures + 1)..k : i \in (k - fails)..(k - 1) \/ i = k
    BY <1>3, <1>6
  <2>3. \A i \in (k - MaxFailures + 1)..k : ~Frames[i].good
    BY <1>3, <1>6, <1>7, <2>1, <2>2
  <2> QED
    BY <2>1, <2>3 DEF Reader!StruckOut
<1>9. Reader!StruckOut(k) => fails + 1 >= MaxFailures
  <2> SUFFICES ASSUME Reader!StruckOut(k), fails + 1 < MaxFailures
               PROVE  FALSE
    BY <1>6
  <2>1. k >= MaxFailures /\ \A i \in (k - MaxFailures + 1)..k : ~Frames[i].good
    BY DEF Reader!StruckOut
  <2>2. fails < k - 1 /\ k - 1 - fails \in (k - MaxFailures + 1)..k
          /\ k - 1 - fails \in 1..k
    BY <1>3, <1>6, <2>1
  <2>3. Frames[k - 1 - fails].good
    BY <1>6, <1>7, <2>2
  <2> QED
    BY <2>1, <2>2, <2>3
<1>10. (mode' = "closed") = Reader!StruckOut(FramesRead + 1)
  <2>1. Reader!StruckOut(k) <=> mode' = "closed"
    BY <1>2, <1>8, <1>9
  <2>2. Reader!StruckOut(k) \in BOOLEAN
    BY DEF Reader!StruckOut
  <2> QED
    BY <1>3, <2>1, <2>2
<1>11. ~(mode = "closed") /\ FramesRead < Len(Frames)
         /\ ~Frames[FramesRead + 1].good
  BY <1>2, <1>3
<1> QED
  BY <1>2, <1>4, <1>5, <1>10, <1>11 DEF Reader!ReadBad

LEMMA ReaderStep ==
    ASSUME FramingInv, [Next]_vars
    PROVE  [Reader!Next]_(Reader!vars)
<1>1. ASSUME UNCHANGED <<stream, parsed, out, handled>>, mode' = mode
      PROVE  UNCHANGED Reader!vars
  BY <1>1 DEF Frames, Parseable, FramesRead, Reader!vars
<1>2. ASSUME UNCHANGED <<stream, parsed, out, handled>>, mode' = "closed"
      PROVE  Reader!Close
  BY <1>2 DEF Frames, Parseable, FramesRead, Reader!Close
<1>3. ASSUME UNCHANGED <<stream, parsed, out, handled>>, mode # "closed",
             mode' # "closed"
      PROVE  UNCHANGED Reader!vars
  BY <1>3 DEF Frames, Parseable, FramesRead, Reader!vars
<1>4. CASE Arrive \/ Fin \/ RecvBytes \/ Enqueue \/ Drop \/ UNCHANGED vars
  BY <1>1, <1>4
  DEF Arrive, Fin, RecvBytes, Enqueue, Drop, vars, network, pool
<1>5. CASE Wakeup \/ RecvDone \/ DiagnosticThrows \/ DispatchDone
  BY <1>3, <1>5
  DEF Wakeup, RecvDone, DiagnosticThrows, DispatchDone, network, pool
<1>6. CASE RecvFails \/ DropBadLength
  BY <1>2, <1>6 DEF RecvFails, DropBadLength, network, pool, Reader!Next
<1>7. CASE ParseDone
  <2>1. /\ UNCHANGED <<stream, parsed, out, handled>>
        /\ mode = "parse" /\ mode' \in {"closed", "dispatch"}
    BY <1>7 DEF ParseDone, network, pool
  <2> QED
    BY <1>2, <1>3, <2>1 DEF Reader!Next
<1>8. CASE Handle
  <2>1. /\ UNCHANGED <<stream, parsed, out, mode>> /\ mode # "closed"
        /\ taken < handed /\ handled' = handled + 1
    BY <1>8 DEF Handle, network
  <2>2. handled < Len(out)
    <3>1. /\ Len(out) \in Nat /\ handed \in 0..Len(out) /\ taken \in 0..handed
          /\ handled \in 0..taken
      BY DEF FramingInv, TypeOK
    <3> QED
      BY <2>1, <3>1
  <2>3. Frames' = Frames /\ FramesRead' = FramesRead
    BY <2>1 DEF Frames, Parseable, FramesRead
  <2> QED
    BY <2>1, <2>2, <2>3 DEF Reader!HandleNext, Reader!Next
<1> QED
  BY <1>4, <1>5, <1>6, <1>7, <1>8, GoodRead, BadRead
  DEF Next, MainStep, RecvMsgs, Dispatch, WorkerStep, Reader!Next

\* Framing implements FrameReader: recv_msgs, the hand-over to the pool and the
\* generation test together give the handlers the client's frames.
THEOREM FramingImplementsReader == Spec => ImplementsFrameReader
<1>1. Init => Reader!Init
  BY ReaderInit
<1>2. FramingInv /\ [Next]_vars => [Reader!Next]_(Reader!vars)
  BY ReaderStep
<1> QED
  BY <1>1, <1>2, FramingInvariant, PTL
  DEF Spec, ImplementsFrameReader, Reader!Spec
================================================================================
