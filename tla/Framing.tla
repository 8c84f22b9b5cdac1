------------------------------- MODULE Framing -------------------------------
(***************************************************************************)
(* From the bytes of one connection to the handlers: recv_msgs drains the   *)
(* socket into recv_buf and cuts it into frames (a length prefix and a JSON *)
(* body), handle_client_event hands them to the pool, a worker drops or     *)
(* runs them.  The network delivers the bytes in pieces of any size, also   *)
(* between two calls of recv.                                               *)
(*                                                                          *)
(* Bytes are named by their offset in the stream the client writes:         *)
(* recv_buf holds the offsets parsed .. rcvd-1.  What the code learns from  *)
(* the bytes is the number that four of them spell and whether a body is    *)
(* JSON; both are given for every offset, so that a parser that has lost    *)
(* its place would read something.  Where the frames of the client begin is *)
(* known to the properties only.                                            *)
(***************************************************************************)
EXTENDS Naturals, Sequences

CONSTANTS
    Stream,        \* the streams a client may write
    MaxFrames,     \* bound: frames in a stream
    HeaderLen,     \* bytes of the length prefix (4)
    MaxBody,       \* MAX_BODY_LEN
    MaxBuf,        \* MAX_RECV_BUF_SIZE
    Chunk,         \* sizeof tmp in recv_msgs (4096)
    MaxFailures    \* parse failures in a row that end a connection (3)

\* A body is an object with a "type" string, or other JSON, or no JSON.
BodyKind == {"object", "value", "malformed"}

\* st.start[i] is the offset of the client's i-th frame, its last element the
\* end of the stream; st.length[o] and st.kind[o] are what the bytes from
\* offset o on say, read as the prefix of a frame and as its body.
WellFormed(st) ==
    LET end == st.start[Len(st.start)] IN
    /\ st.start \in Seq(Nat)
    /\ Len(st.start) \in 1..(MaxFrames + 1)
    /\ st.length \in [0..end -> Nat]
    /\ st.kind \in [0..end -> BodyKind]
    /\ st.start[1] = 0
    /\ \A i \in 1..(Len(st.start) - 1) :
           st.start[i + 1] = st.start[i] + HeaderLen + st.length[st.start[i]]
    /\ \A i, j \in 1..Len(st.start) : i < j => st.start[i] < st.start[j]

ASSUME FramingAssumption ==
    /\ MaxFrames \in Nat
    /\ HeaderLen \in Nat \ {0}
    /\ MaxBody \in Nat /\ MaxBuf \in Nat
    /\ Chunk \in Nat \ {0}
    /\ MaxFailures \in Nat \ {0}
    /\ \A st \in Stream : WellFormed(st)

VARIABLES
    stream,    \* what the client writes, chosen once
    arrived,   \* bytes that have reached the server's socket
    eof,       \* the client's FIN has, too
    rcvd,      \* bytes recv has moved into recv_buf
    parsed,    \* bytes taken out of recv_buf
    fails,     \* consecutive_parse_failures
    mode,      \* the main thread: "wait" in epoll_wait, "recv" and "parse" in
               \* recv_msgs, "dispatch"; "closed" after remove_client,
               \* "crashed" once an exception has left run
    fin,       \* peer_closed of the running recv_msgs
    out,       \* the messages parsed so far, each named by its offset
    handed,    \* how many of them were given to the pool
    taken,     \* how many of these a worker has taken
    handled,   \* and how many of those reached the handler
    auth       \* the session is authenticated

vars == <<stream, arrived, eof, rcvd, parsed, fails, mode, fin, out, handed,
          taken, handled, auth>>

network == <<stream, arrived, eof>>
pool == <<taken, handled, auth>>

End == stream.start[Len(stream.start)]
Buffered == rcvd - parsed   \* recv_buf.size()

TypeOK ==
    /\ WellFormed(stream)
    /\ arrived \in 0..End
    /\ eof \in BOOLEAN
    /\ rcvd \in 0..arrived
    /\ parsed \in 0..rcvd
    /\ fails \in 0..MaxFailures
    /\ mode \in {"wait", "recv", "parse", "dispatch", "closed", "crashed"}
    /\ fin \in BOOLEAN
    /\ out \in Seq(Nat)
    /\ handed \in 0..Len(out)
    /\ taken \in 0..handed
    /\ handled \in 0..taken
    /\ auth \in BOOLEAN

Init ==
    /\ stream \in Stream
    /\ arrived = 0
    /\ eof = FALSE
    /\ rcvd = 0
    /\ parsed = 0
    /\ fails = 0
    /\ mode = "wait"
    /\ fin = FALSE
    /\ out = <<>>
    /\ handed = 0
    /\ taken = 0
    /\ handled = 0
    /\ auth = FALSE

-----------------------------------------------------------------------------
(* The client and the network.                                             *)

Arrive ==
    /\ ~eof
    /\ arrived < End
    /\ \E n \in 1..(End - arrived) : arrived' = arrived + n
    /\ UNCHANGED <<stream, eof, rcvd, parsed, fails, mode, fin, out, handed,
                   pool>>

\* The client may close anywhere, also inside a frame.
Fin ==
    /\ ~eof
    /\ eof' = TRUE
    /\ UNCHANGED <<stream, arrived, rcvd, parsed, fails, mode, fin, out,
                   handed, pool>>

-----------------------------------------------------------------------------
(* recv_msgs, first part: drain the socket.                                *)

\* Mutant of Readable: edge-triggered, only new bytes wake the server.
ReadableByBytes == arrived > rcvd

\* Level-triggered epoll: bytes or an end of file that were not read yet.
Readable == arrived > rcvd \/ eof

Wakeup ==
    /\ mode = "wait"
    /\ Readable
    /\ mode' = "recv"
    /\ fin' = FALSE
    /\ UNCHANGED <<network, rcvd, parsed, fails, out, handed, pool>>

\* Mutant of BufferFull: one byte too late.
BufferOverfull == Buffered > MaxBuf

\* The test before each recv.
BufferFull == Buffered >= MaxBuf

RecvBytes ==
    /\ mode = "recv"
    /\ ~BufferFull
    /\ arrived > rcvd
    /\ rcvd' = IF arrived - rcvd > Chunk THEN rcvd + Chunk ELSE arrived
    /\ UNCHANGED <<network, parsed, fails, mode, fin, out, handed, pool>>

\* recv returns 0 or EAGAIN: go on with what there is.
RecvDone ==
    /\ mode = "recv"
    /\ ~BufferFull
    /\ arrived = rcvd
    /\ fin' = eof
    /\ mode' = "parse"
    /\ UNCHANGED <<network, rcvd, parsed, fails, out, handed, pool>>

\* The buffer is full, or recv fails (a reset may come at any time): nullopt,
\* and handle_client_event removes the client.
RecvFails ==
    /\ mode = "recv"
    /\ mode' = "closed"
    /\ UNCHANGED <<network, rcvd, parsed, fails, fin, out, handed, pool>>

-----------------------------------------------------------------------------
(* recv_msgs, second part: one iteration of the loop over the buffer.      *)

BodyLen == stream.length[parsed]   \* ntohl of the first bytes in the buffer

HasHeader == Buffered >= HeaderLen

BadLength == BodyLen = 0 \/ BodyLen > MaxBody

\* Mutant of HasFrame: the length of the prefix is not counted.
HasBodyBytes == Buffered >= BodyLen

HasFrame == Buffered >= HeaderLen + BodyLen

\* Zero or oversized: nullopt.
DropBadLength ==
    /\ mode = "parse"
    /\ HasHeader
    /\ BadLength
    /\ mode' = "closed"
    /\ UNCHANGED <<network, rcvd, parsed, fails, fin, out, handed, pool>>

\* Mutant of TakeGood: the count of failures is not reset.
TakeGoodKeepsFails ==
    /\ mode = "parse"
    /\ HasHeader
    /\ ~BadLength
    /\ HasFrame
    /\ stream.kind[parsed] # "malformed"
    /\ out' = Append(out, parsed)
    /\ parsed' = parsed + HeaderLen + BodyLen
    /\ UNCHANGED <<network, rcvd, fails, mode, fin, handed, pool>>

\* Mutant of TakeGood: one frame per call, the rest waits for more bytes.
TakeGoodOnly ==
    /\ mode = "parse"
    /\ HasHeader
    /\ ~BadLength
    /\ HasFrame
    /\ stream.kind[parsed] # "malformed"
    /\ out' = Append(out, parsed)
    /\ parsed' = parsed + HeaderLen + BodyLen
    /\ fails' = 0
    /\ mode' = "dispatch"
    /\ UNCHANGED <<network, rcvd, fin, handed, pool>>

\* A frame whose body parses joins the messages of this call.
TakeGood ==
    /\ mode = "parse"
    /\ HasHeader
    /\ ~BadLength
    /\ HasFrame
    /\ stream.kind[parsed] # "malformed"
    /\ out' = Append(out, parsed)
    /\ parsed' = parsed + HeaderLen + BodyLen
    /\ fails' = 0
    /\ UNCHANGED <<network, rcvd, mode, fin, handed, pool>>

\* Mutant of TakeMalformed: only the body is erased from the buffer.
TakeMalformedBody ==
    /\ mode = "parse"
    /\ HasHeader
    /\ ~BadLength
    /\ HasFrame
    /\ stream.kind[parsed] = "malformed"
    /\ parsed' = parsed + BodyLen
    /\ fails' = fails + 1
    /\ mode' = IF fails + 1 >= MaxFailures THEN "closed" ELSE "parse"
    /\ UNCHANGED <<network, rcvd, fin, out, handed, pool>>

\* A frame that does not parse is skipped; one too many in a row: nullopt,
\* and the messages of this call are lost with it.
TakeMalformed ==
    /\ mode = "parse"
    /\ HasHeader
    /\ ~BadLength
    /\ HasFrame
    /\ stream.kind[parsed] = "malformed"
    /\ parsed' = parsed + HeaderLen + BodyLen
    /\ fails' = fails + 1
    /\ mode' = IF fails + 1 >= MaxFailures THEN "closed" ELSE "parse"
    /\ UNCHANGED <<network, rcvd, fin, out, handed, pool>>

\* No whole frame is left.  After a FIN the call returns nullopt unless it has
\* messages; the FIN is then met again by the next call.
ParseDone ==
    /\ mode = "parse"
    /\ ~HasHeader \/ (~BadLength /\ ~HasFrame)
    /\ mode' = IF fin /\ handed = Len(out) THEN "closed" ELSE "dispatch"
    /\ UNCHANGED <<network, rcvd, parsed, fails, fin, out, handed, pool>>

-----------------------------------------------------------------------------
(* handle_client_event after recv_msgs; the workers.                       *)

Enqueue ==
    /\ mode = "dispatch"
    /\ handed < Len(out)
    /\ auth \/ stream.kind[out[handed + 1]] = "object"
    /\ handed' = handed + 1
    /\ UNCHANGED <<network, rcvd, parsed, fails, mode, fin, out, pool>>

\* For a session that is not authenticated the diagnostic reads the "type" of
\* the message first; on JSON that is no object with a string there, value()
\* throws, and nothing in run catches it.
DiagnosticThrows ==
    /\ mode = "dispatch"
    /\ handed < Len(out)
    /\ ~auth
    /\ stream.kind[out[handed + 1]] # "object"
    /\ mode' = "crashed"
    /\ UNCHANGED <<network, rcvd, parsed, fails, fin, out, handed, pool>>

DispatchDone ==
    /\ mode = "dispatch"
    /\ handed = Len(out)
    /\ mode' = "wait"
    /\ UNCHANGED <<network, rcvd, parsed, fails, fin, out, handed, pool>>

\* Mutant of Handle: the generation is not compared.
HandleAnyGeneration ==
    /\ taken < handed
    /\ taken' = taken + 1
    /\ handled' = handled + 1
    /\ auth' \in BOOLEAN
    /\ UNCHANGED <<network, rcvd, parsed, fails, mode, fin, out, handed>>

\* A worker takes the next task and finds the generation unchanged; the
\* handler may log the session in or out.
Handle ==
    /\ taken < handed
    /\ mode # "closed"
    /\ taken' = taken + 1
    /\ handled' = handled + 1
    /\ auth' \in BOOLEAN
    /\ UNCHANGED <<network, rcvd, parsed, fails, mode, fin, out, handed>>

\* remove_client has changed the generation: the task is dropped.
Drop ==
    /\ taken < handed
    /\ mode = "closed"
    /\ taken' = taken + 1
    /\ UNCHANGED <<network, rcvd, parsed, fails, mode, fin, out, handed,
                   handled, auth>>

-----------------------------------------------------------------------------

RecvMsgs == RecvBytes \/ RecvDone \/ DropBadLength \/ TakeGood
                \/ TakeMalformed \/ ParseDone
Dispatch == Enqueue \/ DiagnosticThrows \/ DispatchDone
MainStep == Wakeup \/ RecvMsgs \/ Dispatch \/ (BufferFull /\ RecvFails)
WorkerStep == Handle \/ Drop

Next == Arrive \/ Fin \/ MainStep \/ RecvFails \/ WorkerStep

Spec == Init /\ [][Next]_vars

\* The main thread and the workers go on; clients and the network owe nothing.
Fairness == WF_vars(MainStep) /\ WF_vars(WorkerStep)

FairSpec == Spec /\ Fairness

-----------------------------------------------------------------------------
(* Properties.                                                             *)

Parseable(i) == stream.kind[stream.start[i]] # "malformed"

\* The frames of the client that are JSON and have arrived to the last byte,
\* and those that were handled.
ArrivedGood ==
    {i \in 1..(Len(stream.start) - 1) :
        Parseable(i) /\ arrived >= stream.start[i + 1]}
Handled ==
    {i \in 1..(Len(stream.start) - 1) :
        \E j \in 1..handled : out[j] = stream.start[i]}

\* However the stream was cut, the parser stands at the beginning of a frame
\* of the client, and its messages are the frames before it, in order, each
\* once, without those that are no JSON (recv_msgs; the sticky and half
\* packets of test_protocol.cpp at every cut).
FramesExact ==
    \E k \in 1..Len(stream.start) :
        /\ parsed = stream.start[k]
        /\ \A i, j \in 1..Len(out) : i < j => out[i] < out[j]
        /\ {out[i] : i \in 1..Len(out)}
               = {stream.start[i] : i \in {n \in 1..(k - 1) : Parseable(n)}}

\* consecutive_parse_failures counts the frames in a row that did not parse,
\* over any number of reads, and no more frames are read once there are
\* MaxFailures of them.
StrikesExact ==
    /\ fails = MaxFailures => mode = "closed"
    /\ \E k \in 1..Len(stream.start) :
           /\ parsed = stream.start[k]
           /\ fails < k
           /\ \A i \in (k - fails)..(k - 1) : ~Parseable(i)
           /\ fails < k - 1 => Parseable(k - 1 - fails)

\* recv_buf never holds more than the limit and one read.
BufferBounded == Buffered < MaxBuf + Chunk

\* A frame that has arrived whole is handled in the end, or the connection is
\* gone, whatever else comes with it.
EveryFrameHandled ==
    \A i \in 1..MaxFrames :
        i \in ArrivedGood ~> i \in Handled \/ mode \in {"closed", "crashed"}

\* A client that has closed its side is removed in the end, also when frames
\* came with its FIN.
ClosedAfterFin == eof ~> mode \in {"closed", "crashed"}

\* The client's frames by their offsets, and how many the parser has passed.
Frames ==
    [i \in 1..(Len(stream.start) - 1) |->
        [name |-> stream.start[i], good |-> Parseable(i)]]
Place(st, offset) == CHOOSE k \in 1..Len(st.start) : st.start[k] = offset
FramesRead == Place(stream, parsed) - 1

Reader == INSTANCE FrameReader
            WITH frames <- Frames, read <- FramesRead, messages <- out,
                 closed <- (mode = "closed")

\* Whatever pieces the bytes come in, the handlers see the reader of FrameReader:
\* every frame once and in order, an end after MaxFailures bad ones in a row and
\* not before, and nothing once the client is removed (recv_msgs, the generation
\* that handle_client_event captures with each task).
ImplementsFrameReader == Reader!Spec
=============================================================================
