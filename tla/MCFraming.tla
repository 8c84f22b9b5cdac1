------------------------------ MODULE MCFraming ------------------------------
(* Instances of Framing for TLC: streams built from a few kinds of frames.   *)
EXTENDS Framing, FiniteSets, SequencesExt, TLC

\* The frames a client may write, as <<length, kind>>: a short and a long good
\* one, JSON that is no object, no JSON, and two lengths that are refused.
MCFrames ==
    {<<1, "object">>, <<3, "object">>, <<1, "value">>, <<1, "malformed">>,
     <<0, "object">>, <<4, "object">>}

\* The stream of a sequence of frames.  Off the frames' beginnings the bytes
\* read as a frame of length 1 that parses: a parser that got lost would go on.
StreamOf(frames) ==
    LET start[i \in 1..(Len(frames) + 1)] ==
            IF i = 1 THEN 0 ELSE start[i - 1] + HeaderLen + frames[i - 1][1]
        end == start[Len(frames) + 1]
        At(o) == {i \in 1..Len(frames) : start[i] = o}
    IN  [start |-> start,
         length |-> [o \in 0..end |->
             IF At(o) = {} THEN 1 ELSE frames[CHOOSE i \in At(o) : TRUE][1]],
         kind |-> [o \in 0..end |->
             IF At(o) = {} THEN "object"
                           ELSE frames[CHOOSE i \in At(o) : TRUE][2]]]

\* Every pair of frames, and rows of frames that do not parse with a good one
\* at every place.
MCStream ==
    LET bad == <<1, "malformed">>
        good == <<1, "object">>
    IN  {StreamOf(f) : f \in [1..2 -> MCFrames]}
            \cup {StreamOf(f) : f \in [1..4 -> {bad, good}]}
=============================================================================
