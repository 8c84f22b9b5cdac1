---------------------------- MODULE FrameChannel ----------------------------
(***************************************************************************)
(* What the threads that write frames to connections are promised: of each  *)
(* line one of them is the writer at a time, puts its frame on it piece by   *)
(* piece, and leaves with the frame whole, or a line that carries nothing    *)
(* any more.                                                                 *)
(***************************************************************************)
EXTENDS Naturals

CONSTANTS
    Conn,       \* the lines
    Thread,     \* the writers
    NoThread,   \* the line is free
    FrameLen    \* length of a frame

VARIABLES
    writer,     \* writer[c]: who has line c
    part,       \* part[c][t]: bytes on c of a frame of t that is not whole
    open        \* open[c]: the line still takes bytes

vars == <<writer, part, open>>

Init ==
    /\ writer = [c \in Conn |-> NoThread]
    /\ part = [c \in Conn |-> [t \in Thread |-> 0]]
    /\ open = [c \in Conn |-> TRUE]

TakeLine(c, t) ==
    /\ writer[c] = NoThread
    /\ writer' = [writer EXCEPT ![c] = t]
    /\ UNCHANGED <<part, open>>

\* A frame that has become whole counts no more.
Put(c, t, n) ==
    /\ writer[c] = t
    /\ open[c]
    /\ part[c][t] < n
    /\ part' = [part EXCEPT ![c][t] = IF n = FrameLen THEN 0 ELSE n]
    /\ UNCHANGED <<writer, open>>

LeaveLine(c, t) ==
    /\ writer[c] = t
    /\ part[c][t] = 0 \/ ~open[c]
    /\ writer' = [writer EXCEPT ![c] = NoThread]
    /\ UNCHANGED <<part, open>>

\* By anyone, at any time.
Close(c) ==
    /\ open' = [open EXCEPT ![c] = FALSE]
    /\ UNCHANGED <<writer, part>>

Next ==
    \E c \in Conn :
        \/ \E t \in Thread : TakeLine(c, t) \/ LeaveLine(c, t)
        \/ \E t \in Thread, n \in 1..FrameLen : Put(c, t, n)
        \/ Close(c)

Spec == Init /\ [][Next]_vars
=============================================================================
