------------------------------ MODULE Framing ------------------------------
(***************************************************************************)
(* What cutting a stream into overlapping frames promises, whatever the    *)
(* sizes of the chunks in which the stream arrives.                        *)
(*                                                                         *)
(* A sample is identified by its position in the stream: 1, 2, 3, ...      *)
(* Frame number k, counted from 0, holds the SIZE samples that start       *)
(* k * INCREMENT samples after the point where the stream was (re)started. *)
(* A frame is delivered once, in order, and never before its last sample   *)
(* was received.                                                           *)
(***************************************************************************)
EXTENDS Integers

CONSTANTS
    SIZE,        \* samples per frame
    INCREMENT    \* samples from the start of a frame to that of the next

VARIABLES
    base,        \* stream position after which the current stream starts
    received,    \* samples received so far
    delivered,   \* frames delivered since base
    frame        \* the last frame delivered; << >> before the first one

vars == <<base, received, delivered, frame>>

\* Frame number k of a stream that starts after position b.
Window(b, k) == [i \in 0 .. SIZE - 1 |-> b + k * INCREMENT + i + 1]

Init ==
    /\ base = 0
    /\ received = 0
    /\ delivered = 0
    /\ frame = <<>>

\* Some more of the stream arrives.
Receive ==
    /\ received' \in Nat /\ received' >= received
    /\ UNCHANGED <<base, delivered, frame>>

\* The next frame is delivered as soon as it is complete.
Deliver ==
    /\ base + delivered * INCREMENT + SIZE <= received
    /\ delivered' = delivered + 1
    /\ frame' = Window(base, delivered)
    /\ UNCHANGED <<base, received>>

\* A new stream starts; samples that did not fill a frame are forgotten.
Restart ==
    /\ base' = received
    /\ delivered' = 0
    /\ UNCHANGED <<received, frame>>

Next ==
    \/ Receive
    \/ Deliver
    \/ Restart

Spec == Init /\ [][Next]_vars /\ WF_vars(Deliver)
=============================================================================
