---------------------------- MODULE ChromaFilter ----------------------------
(***************************************************************************)
(* src/src/chroma_filter.cpp: ChromaFilter replaces each vector of         *)
(* features by a weighted sum of the last LENGTH ones, which it keeps in a *)
(* ring of RING.                                                           *)
(*                                                                         *)
(* A vector is its number in the stream, a sum the sequence of the vectors *)
(* in the order of their coefficients; 0 is a vector never stored.         *)
(***************************************************************************)
EXTENDS Integers, Sequences

CONSTANTS
    RING,        \* 8
    LENGTH,      \* m_length
    MaxStream    \* bound: vectors of all streams

ASSUME FilterAssumption == RING \in Nat \ {0} /\ LENGTH \in 1 .. RING

VARIABLES
    buffer,           \* m_buffer
    buffer_offset,    \* m_buffer_offset
    buffer_size,      \* m_buffer_size, one more than the vectors kept
    consumed,         \* history: vectors consumed, of all streams
    base,             \* history: how many of them before the last Reset
    result,           \* history: the last sum given to the consumer
    results           \* history: sums given to it since the last Reset

vars == <<buffer, buffer_offset, buffer_size, consumed, base, result, results>>

Init ==
    /\ buffer = [i \in 0 .. RING - 1 |-> 0]
    /\ buffer_offset = 0
    /\ buffer_size = 1
    /\ consumed = 0 /\ base = 0 /\ results = 0
    /\ result = <<>>

\* The vectors of the last stream stay in the ring.
ResetOffsetOnly ==
    /\ buffer_offset' = 0
    /\ base' = consumed /\ results' = 0
    /\ UNCHANGED <<buffer, buffer_size, consumed, result>>
Reset ==
    /\ buffer_size' = 1
    /\ buffer_offset' = 0
    /\ base' = consumed /\ results' = 0
    /\ UNCHANGED <<buffer, consumed, result>>

\* The slot of the oldest vector of the sum, when `next` is the next slot.
OldestOffByOne(next) == (next + RING - LENGTH + 1) % RING
Oldest(next) == (next + RING - LENGTH) % RING

Consume ==
    /\ consumed < MaxStream
    /\ consumed' = consumed + 1
    /\ buffer' = [buffer EXCEPT ![buffer_offset] = consumed + 1]
    /\ buffer_offset' = (buffer_offset + 1) % RING
    /\ \/ /\ buffer_size >= LENGTH
          /\ result' = [j \in 1 .. LENGTH |-> buffer'[(Oldest(buffer_offset') + j - 1) % RING]]
          /\ results' = results + 1
          /\ UNCHANGED buffer_size
       \/ /\ buffer_size < LENGTH
          /\ buffer_size' = buffer_size + 1
          /\ UNCHANGED <<result, results>>
    /\ UNCHANGED base

Next == Reset \/ Consume

Spec == Init /\ [][Next]_vars

-----------------------------------------------------------------------------
TypeOK ==
    /\ buffer \in [0 .. RING - 1 -> Nat]
    /\ buffer_offset \in 0 .. RING - 1
    /\ buffer_size \in 1 .. LENGTH
    /\ consumed \in Nat /\ base \in 0 .. consumed /\ results \in Nat

\* Each sum is over the last LENGTH vectors of the current stream, oldest
\* first: none is from before the last Reset although the ring still holds
\* those, and none was overwritten.
EachSumIsLastWindow ==
    [][results' = results + 1 =>
        /\ consumed' - LENGTH >= base
        /\ result' = [j \in 1 .. LENGTH |-> consumed' - LENGTH + j]]_vars

\* The first sum comes with the LENGTH-th vector of a stream, then each
\* vector gives one: the delay that the fingerprint's configuration states.
OneSumPerVector ==
    results = IF consumed - base < LENGTH THEN 0 ELSE consumed - base - LENGTH + 1

\* What makes EachSumIsLastWindow inductive: the slots before the next one
\* hold the last vectors of the stream, as many as buffer_size counts.
RingHoldsLast ==
    \A i \in 1 .. buffer_size - 1 :
        buffer[(buffer_offset + RING - i) % RING] = consumed - i + 1

\* buffer_size counts the vectors of the stream, up to LENGTH.
SizeCounts ==
    buffer_size = IF consumed - base < LENGTH THEN consumed - base + 1 ELSE LENGTH

IInv == TypeOK /\ OneSumPerVector /\ RingHoldsLast /\ SizeCounts
=============================================================================
