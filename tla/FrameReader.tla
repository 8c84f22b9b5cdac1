----------------------------- MODULE FrameReader -----------------------------
(***************************************************************************)
(* What framing promises the handlers of one connection, whatever the       *)
(* network does to its bytes: the client's frames are read in the order it  *)
(* wrote them, each once; those that are no JSON are skipped, and too many  *)
(* of them in a row end the connection; handlers take the others in that    *)
(* order, each once, and none when the connection is gone.                  *)
(***************************************************************************)
EXTENDS Naturals, Sequences

CONSTANT MaxFailures   \* frames in a row that are no JSON and end it

VARIABLES
    frames,    \* the client's: their names, and whether they are JSON
    read,      \* how many of them have been read
    messages,  \* the names of those that are JSON
    handled,   \* how many of these a handler has taken
    closed     \* the connection is gone

vars == <<frames, read, messages, handled, closed>>

Init ==
    /\ frames \in Seq([name : Nat, good : BOOLEAN])
    /\ read = 0
    /\ messages = <<>>
    /\ handled = 0
    /\ closed = FALSE

\* Of the frames up to the n-th the last are no JSON, and they are too many.
StruckOut(n) ==
    /\ n >= MaxFailures
    /\ \A i \in (n - MaxFailures + 1)..n : ~frames[i].good

ReadGood ==
    /\ ~closed
    /\ read < Len(frames)
    /\ frames[read + 1].good
    /\ read' = read + 1
    /\ messages' = Append(messages, frames[read + 1].name)
    /\ UNCHANGED <<frames, handled, closed>>

ReadBad ==
    /\ ~closed
    /\ read < Len(frames)
    /\ ~frames[read + 1].good
    /\ read' = read + 1
    /\ closed' = StruckOut(read + 1)
    /\ UNCHANGED <<frames, messages, handled>>

HandleNext ==
    /\ ~closed
    /\ handled < Len(messages)
    /\ handled' = handled + 1
    /\ UNCHANGED <<frames, read, messages, closed>>

\* For any reason: the end of the stream, a reset, a length that is refused.
Close ==
    /\ closed' = TRUE
    /\ UNCHANGED <<frames, read, messages, handled>>

Next == ReadGood \/ ReadBad \/ HandleNext \/ Close

Spec == Init /\ [][Next]_vars
=============================================================================
