---------------------------- MODULE AudioSlicer ----------------------------
(***************************************************************************)
(* src/src/audio/audio_slicer.h: AudioSlicer, the buffer that cuts the     *)
(* chunks given to Process into frames of SIZE samples that start          *)
(* INCREMENT samples apart; FFT::Consume and FFT::Reset (fft.cpp) only     *)
(* forward to it.                                                          *)
(*                                                                         *)
(* The value of a sample is its position in the stream, so that a frame    *)
(* shows which samples it was cut from and in which order.  A call of      *)
(* Process is several steps, one per frame handed to the consumer; the     *)
(* part of the caller's chunk that was not passed yet is the positions     *)
(* inBegin + 1 .. inEnd.                                                   *)
(***************************************************************************)
EXTENDS Integers

CONSTANTS
    SIZE,        \* m_size
    INCREMENT,   \* m_increment
    MaxFeed,     \* bound: samples in one call of Process
    MaxStream    \* bound: samples over all calls

\* The constructor asserts size >= increment; with an increment of zero the
\* same samples would be sliced for ever.
ASSUME SizeAssumption == SIZE \in Nat \ {0}
ASSUME IncrementAssumption == INCREMENT \in 1 .. SIZE
ASSUME BoundAssumption == MaxFeed \in Nat /\ MaxStream \in Nat

VARIABLES
    pc,          \* "idle", or "slicing" inside Process
    buf,         \* m_buffer, 2 * SIZE samples; 0 where nothing was stored
    begin,       \* m_buffer_begin, as an index of buf
    end,         \* m_buffer_end
    inBegin,     \* samples of the stream before the rest of the chunk
    inEnd,       \* samples of the stream received, to the end of the chunk
    base,        \* history: samples received before the last Reset
    emitted,     \* history: frames handed to the consumer since then
    slice        \* history: the last frame the consumer saw

vars == <<pc, buf, begin, end, inBegin, inEnd, base, emitted, slice>>

-----------------------------------------------------------------------------
\* buffer_size and size of Process.
BufferSize == end - begin
InputSize == inEnd - inBegin

\* The condition of both loops of Process: there is a whole frame to slice.
FrameCompleteStrict == BufferSize + InputSize > SIZE
FrameComplete == BufferSize + InputSize >= SIZE

\* What the consumer reads: the buffer, then the first `fresh` input samples.
Slice(fresh) ==
    [i \in 0 .. BufferSize + fresh - 1 |->
        IF i < BufferSize THEN buf[begin + i]
                          ELSE inBegin + (i - BufferSize) + 1]

Emit(fresh) ==
    /\ slice' = Slice(fresh)
    /\ emitted' = emitted + 1

\* std::copy of the samples [first, last) of the buffer to its front.
CopyStaleToFront(first, last) ==
    [i \in 0 .. 2 * SIZE - 1 |->
        IF i < last - first THEN buf[begin + i] ELSE buf[i]]
CopyToFront(first, last) ==
    [i \in 0 .. 2 * SIZE - 1 |->
        IF i < last - first THEN buf[first + i] ELSE buf[i]]

\* std::advance(begin, m_increment - buffer_size) when the buffer is dropped.
SkippedAll == INCREMENT
Skipped == INCREMENT - BufferSize

\* No room for the rest of a frame behind `kept` buffered samples.
MustCompactLate(kept, e) == 2 * SIZE - e < INCREMENT
MustCompact(kept, e) == kept + (2 * SIZE - e) < SIZE

Init ==
    /\ pc = "idle"
    /\ buf = [i \in 0 .. 2 * SIZE - 1 |-> 0]
    /\ begin = 0 /\ end = 0
    /\ inBegin = 0 /\ inEnd = 0
    /\ base = 0
    /\ emitted = 0
    /\ slice = <<>>

ResetKeepsBuffer ==
    /\ pc = "idle"
    /\ base' = inEnd
    /\ emitted' = 0
    /\ UNCHANGED <<pc, buf, begin, end, inBegin, inEnd, slice>>

Reset ==
    /\ pc = "idle"
    /\ begin' = 0 /\ end' = 0
    /\ base' = inEnd
    /\ emitted' = 0
    /\ UNCHANGED <<pc, buf, inBegin, inEnd, slice>>

\* The caller hands over the next n samples of the stream.
Process(n) ==
    /\ pc = "idle"
    /\ inEnd + n <= MaxStream
    /\ pc' = "slicing"
    /\ inEnd' = inEnd + n
    /\ UNCHANGED <<buf, begin, end, inBegin, base, emitted, slice>>

\* A frame that starts in the buffer, when the next one does too.
SliceKeep ==
    /\ pc = "slicing"
    /\ BufferSize >= INCREMENT /\ FrameComplete
    /\ Emit(SIZE - BufferSize)
    /\ LET kept == BufferSize - INCREMENT
           first == begin + INCREMENT
       IN IF MustCompact(kept, end)
            THEN buf' = CopyToFront(first, end) /\ begin' = 0 /\ end' = kept
            ELSE begin' = first /\ UNCHANGED <<buf, end>>
    /\ UNCHANGED <<pc, inBegin, inEnd, base>>

\* A frame that starts in the buffer, when the next one starts in the input.
SliceDrop ==
    /\ pc = "slicing"
    /\ BufferSize \in 1 .. INCREMENT - 1 /\ FrameComplete
    /\ Emit(SIZE - BufferSize)
    /\ begin' = 0 /\ end' = 0
    /\ inBegin' = inBegin + Skipped
    /\ UNCHANGED <<pc, buf, inEnd, base>>

\* A frame that lies in the input altogether.
SliceDirect ==
    /\ pc = "slicing"
    /\ BufferSize = 0 /\ FrameComplete
    /\ Emit(SIZE)
    /\ inBegin' = inBegin + INCREMENT
    /\ UNCHANGED <<pc, buf, begin, end, inEnd, base>>

\* What is left of the input waits in the buffer for the next call.
Store ==
    /\ pc = "slicing"
    /\ ~FrameComplete
    /\ buf' = [i \in 0 .. 2 * SIZE - 1 |->
                  IF i \in end .. end + InputSize - 1
                    THEN inBegin + (i - end) + 1 ELSE buf[i]]
    /\ end' = end + InputSize
    /\ inBegin' = inEnd
    /\ pc' = "idle"
    /\ UNCHANGED <<begin, inEnd, base, emitted, slice>>

Slicing == SliceKeep \/ SliceDrop \/ SliceDirect \/ Store

Next ==
    \/ Reset
    \/ \E n \in 0 .. MaxFeed : Process(n)
    \/ SliceKeep
    \/ SliceDrop
    \/ SliceDirect
    \/ Store

\* A call of Process runs until it returns; nobody has to make one.
Spec == Init /\ [][Next]_vars /\ WF_vars(Slicing)

-----------------------------------------------------------------------------
TypeOK ==
    /\ pc \in {"idle", "slicing"}
    /\ buf \in [0 .. 2 * SIZE - 1 -> Nat]
    /\ begin \in 0 .. 2 * SIZE /\ end \in 0 .. 2 * SIZE
    /\ inBegin \in Nat /\ inEnd \in Nat
    /\ base \in Nat
    /\ emitted \in Nat
    /\ slice = <<>> \/ slice \in [0 .. SIZE - 1 -> Nat]

\* m_buffer_end never passes m_buffer.end(): the copies of Process have no
\* check of their own, only the compaction keeps room for the rest of a frame.
NoOverrun ==
    /\ begin <= end
    /\ end - begin < SIZE
    /\ end + (SIZE - (end - begin)) <= 2 * SIZE

\* The next frame starts exactly INCREMENT samples after the last one: the
\* first buffered sample, or the first one left in the input, is its first,
\* through every mix of the two loops, compactions and stores.
StartsOnGrid == inBegin - (end - begin) = base + emitted * INCREMENT

\* The buffered samples are those just before the rest of the input.
BufferIsContiguous ==
    \A i \in 0 .. (end - begin) - 1 :
        buf[begin + i] = inBegin - (end - begin) + i + 1

\* When Process has returned, every complete frame of the stream was handed
\* over, and none that is not complete: how the stream was cut into chunks
\* makes no difference.
IsFrameCount(k, n) ==
    /\ n < k * INCREMENT + SIZE
    /\ k > 0 => (k - 1) * INCREMENT + SIZE <= n

ChunkInvariance == pc = "idle" => IsFrameCount(emitted, inEnd - base)

\* What makes the properties above inductive: the rest of the chunk is used
\* up when Process returns, and the last frame ended within the stream.
InputIsUsedUp == inBegin <= inEnd /\ (pc = "idle" => inBegin = inEnd)

LastFrameWasComplete ==
    emitted > 0 => base + (emitted - 1) * INCREMENT + SIZE <= inEnd

\* The inductive invariant of the proofs.
IInv ==
    /\ TypeOK
    /\ NoOverrun
    /\ StartsOnGrid
    /\ BufferIsContiguous
    /\ InputIsUsedUp
    /\ LastFrameWasComplete

F == INSTANCE Framing WITH received <- inEnd, delivered <- emitted, frame <- slice

\* Each frame the consumer gets is the next window of the stream, sample by
\* sample, whichever of the three branches of Process made it.
EachSliceIsNextWindow ==
    [][emitted' = emitted + 1 => slice' = F!Window(base, emitted)]_vars

\* The slicer implements the abstract framing, liveness included.
Framing == F!Spec
=============================================================================
