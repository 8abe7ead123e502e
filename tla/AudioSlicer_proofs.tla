------------------------- MODULE AudioSlicer_proofs -------------------------
(***************************************************************************)
(* Proofs about AudioSlicer, for every SIZE, every INCREMENT up to SIZE    *)
(* and every sequence of chunks.  The one product of the model is          *)
(* emitted * INCREMENT; the lemmas on it come first, so that each later    *)
(* step is linear.                                                         *)
(***************************************************************************)
EXTENDS AudioSlicer, TLAPS

USE DEF BufferSize, InputSize, FrameComplete, Emit, Skipped, MustCompact

\* The products the invariant is about are natural numbers, and one more
\* frame is one more increment.
LEMMA NextOffset ==
    ASSUME NEW k \in Nat
    PROVE  /\ k * INCREMENT \in Nat
           /\ (k + 1) * INCREMENT = k * INCREMENT + INCREMENT
BY IncrementAssumption, SizeAssumption

\* Nothing is buffered, received or emitted in the initial state.
LEMMA InitIInv == Init => IInv
<1>. SUFFICES ASSUME Init PROVE IInv
  OBVIOUS
<1>. USE SizeAssumption, IncrementAssumption DEF Init
<1>1. TypeOK
  BY DEF TypeOK
<1>2. NoOverrun /\ BufferIsContiguous /\ InputIsUsedUp /\ LastFrameWasComplete
  BY DEF NoOverrun, BufferIsContiguous, InputIsUsedUp, LastFrameWasComplete
<1>3. StartsOnGrid
  BY DEF StartsOnGrid
<1>. QED  BY <1>1, <1>2, <1>3 DEF IInv

\* What the steps that hand a frame to the consumer have in common: the frame
\* starts at the grid point of frame number `emitted` and is complete.
LEMMA FrameIsNextWindow ==
    ASSUME IInv, FrameComplete
    PROVE  /\ Slice(SIZE - BufferSize) = F!Window(base, emitted)
           /\ Slice(SIZE - BufferSize) \in [0 .. SIZE - 1 -> Nat]
           /\ base + emitted * INCREMENT + SIZE <= inEnd
<1>. USE SizeAssumption, IncrementAssumption
<1>1. /\ begin \in Nat /\ end \in Nat /\ inBegin \in Nat /\ inEnd \in Nat
      /\ base \in Nat /\ emitted \in Nat
      /\ begin <= end /\ end - begin < SIZE
      /\ inBegin - (end - begin) = base + emitted * INCREMENT
  BY DEF IInv, TypeOK, NoOverrun, StartsOnGrid
<1>2. emitted * INCREMENT \in Nat
  BY <1>1, NextOffset
<1>3. base + emitted * INCREMENT + SIZE <= inEnd
  BY <1>1, <1>2
<1>4. ASSUME NEW i \in 0 .. SIZE - 1
      PROVE  Slice(SIZE - BufferSize)[i] = base + emitted * INCREMENT + i + 1
  <2>1. CASE i < end - begin
    <3>1. buf[begin + i] = inBegin - (end - begin) + i + 1
      BY <1>1, <2>1 DEF IInv, BufferIsContiguous
    <3>. QED  BY <1>1, <1>2, <2>1, <3>1 DEF Slice
  <2>2. CASE ~(i < end - begin)
    BY <1>1, <1>2, <2>2 DEF Slice
  <2>. QED  BY <2>1, <2>2
<1>5. Slice(SIZE - BufferSize) = [i \in 0 .. SIZE - 1 |-> Slice(SIZE - BufferSize)[i]]
  <2>1. 0 .. BufferSize + (SIZE - BufferSize) - 1 = 0 .. SIZE - 1
    BY <1>1
  <2>. QED  BY <2>1, Zenon DEF Slice
<1>6. Slice(SIZE - BufferSize) = F!Window(base, emitted)
  BY <1>4, <1>5, Zenon DEF F!Window
<1>7. \A i \in 0 .. SIZE - 1 : base + emitted * INCREMENT + i + 1 \in Nat
  BY <1>1, <1>2
<1>8. Slice(SIZE - BufferSize) \in [0 .. SIZE - 1 -> Nat]
  BY <1>6, <1>7, Zenon DEF F!Window
<1>. QED  BY <1>3, <1>6, <1>8

\* A step that emits frame number `emitted` and moves the grid point on by
\* INCREMENT keeps what relates frames to positions.
LEMMA EmitKeepsGrid ==
    ASSUME IInv, FrameComplete,
           emitted' = emitted + 1, base' = base, inEnd' = inEnd,
           inBegin' - (end' - begin') = inBegin - (end - begin) + INCREMENT
    PROVE  StartsOnGrid' /\ LastFrameWasComplete'
<1>. USE SizeAssumption, IncrementAssumption
<1>1. /\ base \in Nat /\ emitted \in Nat /\ inEnd \in Nat
      /\ inBegin - (end - begin) = base + emitted * INCREMENT
  BY DEF IInv, TypeOK, StartsOnGrid
<1>2. emitted * INCREMENT \in Nat /\ (emitted + 1) * INCREMENT = emitted * INCREMENT + INCREMENT
  BY <1>1, NextOffset
<1>3. StartsOnGrid'
  BY <1>1, <1>2 DEF StartsOnGrid
<1>4. base + emitted * INCREMENT + SIZE <= inEnd
  BY FrameIsNextWindow
<1>5. LastFrameWasComplete'
  BY <1>1, <1>4 DEF LastFrameWasComplete
<1>. QED  BY <1>3, <1>5

\* Every step keeps the inductive invariant.
LEMMA StepIInv == IInv /\ [Next]_vars => IInv'
<1>. SUFFICES ASSUME IInv, [Next]_vars PROVE IInv'
  OBVIOUS
<1>. USE SizeAssumption, IncrementAssumption
<1>0. /\ begin \in Nat /\ end \in Nat /\ inBegin \in Nat /\ inEnd \in Nat
      /\ base \in Nat /\ emitted \in Nat
      /\ begin <= end /\ end - begin < SIZE /\ begin <= SIZE
      /\ inBegin <= inEnd
      /\ buf \in [0 .. 2 * SIZE - 1 -> Nat]
  BY DEF IInv, TypeOK, NoOverrun, InputIsUsedUp
<1>1. CASE Reset
  <2>1. TypeOK' /\ NoOverrun' /\ InputIsUsedUp' /\ BufferIsContiguous' /\ LastFrameWasComplete'
    BY <1>1, <1>0 DEF Reset, IInv, TypeOK, NoOverrun, InputIsUsedUp, BufferIsContiguous,
                      LastFrameWasComplete
  <2>2. StartsOnGrid'
    BY <1>1, <1>0 DEF Reset, IInv, InputIsUsedUp, StartsOnGrid
  <2>. QED  BY <2>1, <2>2 DEF IInv
<1>2. ASSUME NEW n \in 0 .. MaxFeed, Process(n) PROVE IInv'
  <2>1. n \in Nat
    BY BoundAssumption
  <2>2. TypeOK' /\ NoOverrun' /\ StartsOnGrid' /\ BufferIsContiguous' /\ InputIsUsedUp'
    BY <1>2, <1>0, <2>1 DEF Process, IInv, TypeOK, NoOverrun, StartsOnGrid,
                            BufferIsContiguous, InputIsUsedUp
  <2>3. LastFrameWasComplete'
    <3>1. (emitted > 0 => (emitted - 1) * INCREMENT \in Nat)
      BY <1>0, NextOffset
    <3>. QED  BY <1>2, <1>0, <2>1, <3>1 DEF Process, IInv, LastFrameWasComplete
  <2>. QED  BY <2>2, <2>3 DEF IInv
<1>3. CASE SliceKeep
  <2>. DEFINE kept == BufferSize - INCREMENT
              first == begin + INCREMENT
  <2>0. /\ pc = "slicing" /\ BufferSize >= INCREMENT /\ FrameComplete
        /\ slice' = Slice(SIZE - BufferSize) /\ emitted' = emitted + 1
        /\ pc' = pc /\ inBegin' = inBegin /\ inEnd' = inEnd /\ base' = base
    BY <1>3 DEF SliceKeep
  <2>1. \/ /\ MustCompact(kept, end)
           /\ buf' = CopyToFront(first, end) /\ begin' = 0 /\ end' = kept
        \/ /\ ~MustCompact(kept, end)
           /\ begin' = first /\ buf' = buf /\ end' = end
    BY <1>3 DEF SliceKeep
  <2>2. NoOverrun' /\ InputIsUsedUp' /\ end' - begin' = kept
    BY <1>0, <2>0, <2>1 DEF NoOverrun, InputIsUsedUp
  <2>3. StartsOnGrid' /\ LastFrameWasComplete'
    <3>1. inBegin' - (end' - begin') = inBegin - (end - begin) + INCREMENT
      BY <1>0, <2>0, <2>2
    <3>. QED  BY <2>0, <3>1, EmitKeepsGrid
  <2>4. buf' \in [0 .. 2 * SIZE - 1 -> Nat] /\ BufferIsContiguous'
    <3>1. CASE MustCompact(kept, end)
      <4>1. buf' = CopyToFront(first, end) /\ begin' = 0 /\ end' = kept
        BY <2>1, <3>1
      <4>2. buf' \in [0 .. 2 * SIZE - 1 -> Nat]
        BY <1>0, <2>0, <4>1 DEF CopyToFront, IInv, NoOverrun
      <4>3. ASSUME NEW i \in 0 .. kept - 1
            PROVE  buf'[i] = inBegin - kept + i + 1
        <5>1. i + INCREMENT \in 0 .. (end - begin) - 1
          BY <1>0, <2>0
        <5>2. buf[begin + (i + INCREMENT)] = inBegin - (end - begin) + (i + INCREMENT) + 1
          BY <5>1 DEF IInv, BufferIsContiguous
        <5>3. buf'[i] = buf[first + i]
          BY <1>0, <2>0, <4>1 DEF CopyToFront
        <5>. QED  BY <1>0, <2>0, <5>2, <5>3
      <4>. QED  BY <1>0, <2>0, <4>1, <4>2, <4>3 DEF BufferIsContiguous
    <3>2. CASE ~MustCompact(kept, end)
      <4>1. begin' = first /\ buf' = buf /\ end' = end
        BY <2>1, <3>2
      <4>2. ASSUME NEW i \in 0 .. kept - 1
            PROVE  buf[first + i] = inBegin - kept + i + 1
        <5>1. i + INCREMENT \in 0 .. (end - begin) - 1
          BY <1>0, <2>0
        <5>2. buf[begin + (i + INCREMENT)] = inBegin - (end - begin) + (i + INCREMENT) + 1
          BY <5>1 DEF IInv, BufferIsContiguous
        <5>. QED  BY <1>0, <2>0, <5>2
      <4>. QED  BY <1>0, <2>0, <2>2, <4>1, <4>2 DEF BufferIsContiguous
    <3>. QED  BY <3>1, <3>2
  <2>5. slice' \in [0 .. SIZE - 1 -> Nat]
    BY <2>0, FrameIsNextWindow, Zenon
  <2>6. TypeOK'
    <3>1. begin' \in 0 .. 2 * SIZE /\ end' \in 0 .. 2 * SIZE
      BY <1>0, <2>0, <2>1 DEF IInv, TypeOK
    <3>2. /\ pc' \in {"idle", "slicing"} /\ inBegin' \in Nat /\ inEnd' \in Nat
          /\ base' \in Nat /\ emitted' \in Nat
      BY <1>0, <2>0
    <3>. QED  BY <2>4, <2>5, <3>1, <3>2, Zenon DEF TypeOK
  <2>. QED  BY <2>2, <2>3, <2>4, <2>6 DEF IInv
<1>4. CASE SliceDrop
  <2>0. /\ pc = "slicing" /\ BufferSize \in 1 .. INCREMENT - 1 /\ FrameComplete
        /\ slice' = Slice(SIZE - BufferSize) /\ emitted' = emitted + 1
        /\ begin' = 0 /\ end' = 0
        /\ inBegin' = inBegin + (INCREMENT - BufferSize)
        /\ pc' = pc /\ buf' = buf /\ inEnd' = inEnd /\ base' = base
    BY <1>4 DEF SliceDrop
  <2>1. NoOverrun' /\ InputIsUsedUp' /\ BufferIsContiguous'
    BY <1>0, <2>0 DEF NoOverrun, InputIsUsedUp, BufferIsContiguous
  <2>2. StartsOnGrid' /\ LastFrameWasComplete'
    <3>1. inBegin' - (end' - begin') = inBegin - (end - begin) + INCREMENT
      BY <1>0, <2>0
    <3>. QED  BY <2>0, <3>1, EmitKeepsGrid
  <2>3. slice' \in [0 .. SIZE - 1 -> Nat]
    BY <2>0, FrameIsNextWindow, Zenon
  <2>4. TypeOK'
    <3>1. /\ pc' \in {"idle", "slicing"} /\ inBegin' \in Nat /\ inEnd' \in Nat
          /\ base' \in Nat /\ emitted' \in Nat
          /\ begin' \in 0 .. 2 * SIZE /\ end' \in 0 .. 2 * SIZE
          /\ buf' \in [0 .. 2 * SIZE - 1 -> Nat]
      BY <1>0, <2>0 DEF IInv, TypeOK
    <3>. QED  BY <2>3, <3>1, Zenon DEF TypeOK
  <2>. QED  BY <2>1, <2>2, <2>4 DEF IInv
<1>5. CASE SliceDirect
  <2>0. /\ pc = "slicing" /\ BufferSize = 0 /\ FrameComplete
        /\ slice' = Slice(SIZE - BufferSize) /\ emitted' = emitted + 1
        /\ inBegin' = inBegin + INCREMENT
        /\ pc' = pc /\ buf' = buf /\ begin' = begin /\ end' = end
        /\ inEnd' = inEnd /\ base' = base
    <3>1. SIZE = SIZE - 0
      OBVIOUS
    <3>. QED  BY <1>5, <3>1 DEF SliceDirect
  <2>1. NoOverrun' /\ InputIsUsedUp' /\ BufferIsContiguous'
    BY <1>0, <2>0 DEF IInv, NoOverrun, InputIsUsedUp, BufferIsContiguous
  <2>2. StartsOnGrid' /\ LastFrameWasComplete'
    <3>1. inBegin' - (end' - begin') = inBegin - (end - begin) + INCREMENT
      BY <1>0, <2>0
    <3>. QED  BY <2>0, <3>1, EmitKeepsGrid
  <2>3. slice' \in [0 .. SIZE - 1 -> Nat]
    BY <2>0, FrameIsNextWindow, Zenon
  <2>4. TypeOK'
    <3>1. /\ pc' \in {"idle", "slicing"} /\ inBegin' \in Nat /\ inEnd' \in Nat
          /\ base' \in Nat /\ emitted' \in Nat
          /\ begin' \in 0 .. 2 * SIZE /\ end' \in 0 .. 2 * SIZE
          /\ buf' \in [0 .. 2 * SIZE - 1 -> Nat]
      BY <1>0, <2>0 DEF IInv, TypeOK
    <3>. QED  BY <2>3, <3>1, Zenon DEF TypeOK
  <2>. QED  BY <2>1, <2>2, <2>4 DEF IInv
<1>6. CASE Store
  <2>0. /\ pc = "slicing" /\ ~FrameComplete /\ pc' = "idle"
        /\ buf' = [i \in 0 .. 2 * SIZE - 1 |->
                      IF i \in end .. end + InputSize - 1
                        THEN inBegin + (i - end) + 1 ELSE buf[i]]
        /\ end' = end + InputSize /\ inBegin' = inEnd
        /\ begin' = begin /\ inEnd' = inEnd /\ base' = base
        /\ emitted' = emitted /\ slice' = slice
    BY <1>6 DEF Store
  <2>1. NoOverrun' /\ InputIsUsedUp' /\ LastFrameWasComplete'
    BY <1>0, <2>0 DEF IInv, NoOverrun, InputIsUsedUp, LastFrameWasComplete
  <2>2. StartsOnGrid'
    BY <1>0, <2>0 DEF IInv, StartsOnGrid
  <2>3. buf' \in [0 .. 2 * SIZE - 1 -> Nat]
    BY <1>0, <2>0
  <2>4. ASSUME NEW i \in 0 .. (end' - begin') - 1
        PROVE  buf'[begin + i] = inEnd - (end' - begin') + i + 1
    <3>1. begin + i \in 0 .. 2 * SIZE - 1
      BY <1>0, <2>0
    <3>2. CASE begin + i < end
      <4>1. i \in 0 .. (end - begin) - 1
        BY <1>0, <2>0, <3>2
      <4>2. buf[begin + i] = inBegin - (end - begin) + i + 1
        BY <4>1 DEF IInv, BufferIsContiguous
      <4>3. buf'[begin + i] = buf[begin + i]
        BY <1>0, <2>0, <3>1, <3>2
      <4>. QED  BY <1>0, <2>0, <4>2, <4>3
    <3>3. CASE ~(begin + i < end)
      <4>1. buf'[begin + i] = inBegin + (begin + i - end) + 1
        BY <1>0, <2>0, <3>1, <3>3
      <4>. QED  BY <1>0, <2>0, <4>1
    <3>. QED  BY <3>2, <3>3
  <2>5. BufferIsContiguous'
    BY <2>0, <2>4 DEF BufferIsContiguous
  <2>6. TypeOK'
    BY <1>0, <2>0, <2>3 DEF IInv, TypeOK
  <2>. QED  BY <2>1, <2>2, <2>5, <2>6 DEF IInv
<1>7. CASE UNCHANGED vars
  BY <1>7 DEF vars, IInv, TypeOK, NoOverrun, StartsOnGrid, BufferIsContiguous,
              InputIsUsedUp, LastFrameWasComplete
<1>. QED  BY <1>1, <1>2, <1>3, <1>4, <1>5, <1>6, <1>7 DEF Next

\* The invariants the runs check, for every SIZE and INCREMENT.
\* No copy of Process passes the end of m_buffer, and frames start INCREMENT
\* samples apart (audio_slicer.h, Process).
THEOREM Invariance == Spec => []IInv
<1>1. Init => IInv
  BY InitIInv
<1>2. IInv /\ [Next]_vars => IInv'
  BY StepIInv
<1>. QED  BY <1>1, <1>2, PTL DEF Spec

\* Type correctness of AudioSlicer.
THEOREM TypeCorrect == Spec => []TypeOK
<1>1. IInv => TypeOK
  BY DEF IInv
<1>. QED  BY <1>1, Invariance, PTL

\* The copies of Process stay within the 2 * SIZE samples of m_buffer.
THEOREM BufferSafe == Spec => []NoOverrun
<1>1. IInv => NoOverrun
  BY DEF IInv
<1>. QED  BY <1>1, Invariance, PTL

\* However the stream was cut into chunks, all its complete frames and no
\* others were handed over when Process returns.
THEOREM ChunksDoNotMatter == Spec => []ChunkInvariance
<1>1. IInv => ChunkInvariance
  <2>. SUFFICES ASSUME IInv, pc = "idle" PROVE IsFrameCount(emitted, inEnd - base)
    BY DEF ChunkInvariance
  <2>. USE SizeAssumption, IncrementAssumption
  <2>1. /\ begin \in Nat /\ end \in Nat /\ inEnd \in Nat /\ base \in Nat /\ emitted \in Nat
        /\ end - begin < SIZE /\ inBegin = inEnd
        /\ inBegin - (end - begin) = base + emitted * INCREMENT
    BY DEF IInv, TypeOK, NoOverrun, StartsOnGrid, InputIsUsedUp
  <2>2. emitted * INCREMENT \in Nat
    BY <2>1, NextOffset
  <2>3. emitted > 0 => /\ base + (emitted - 1) * INCREMENT + SIZE <= inEnd
                       /\ (emitted - 1) * INCREMENT \in Nat
    BY <2>1, NextOffset DEF IInv, LastFrameWasComplete
  <2>. QED  BY <2>1, <2>2, <2>3 DEF IsFrameCount
<1>. QED  BY <1>1, Invariance, PTL

\* Every frame is, sample by sample, the next window of the stream, in all
\* three branches of Process.
THEOREM FramesAreWindows == Spec => EachSliceIsNextWindow
<1>1. IInv /\ [Next]_vars => [emitted' = emitted + 1 => slice' = F!Window(base, emitted)]_vars
  <2>. SUFFICES ASSUME IInv, Next, emitted' = emitted + 1
                PROVE  slice' = F!Window(base, emitted)
    OBVIOUS
  <2>0. emitted \in Nat
    BY DEF IInv, TypeOK
  <2>1. CASE SliceKeep
    BY <2>1, FrameIsNextWindow DEF SliceKeep
  <2>2. CASE SliceDrop
    BY <2>2, FrameIsNextWindow DEF SliceDrop
  <2>3. CASE SliceDirect
    <3>1. BufferSize = 0 /\ FrameComplete /\ slice' = Slice(SIZE)
      BY <2>3 DEF SliceDirect
    <3>2. SIZE = SIZE - BufferSize
      BY <3>1, SizeAssumption
    <3>. QED  BY <3>1, <3>2, FrameIsNextWindow
  <2>4. ~Reset /\ ~Store /\ \A n \in 0 .. MaxFeed : ~Process(n)
    BY <2>0 DEF Reset, Store, Process
  <2>. QED  BY <2>1, <2>2, <2>3, <2>4 DEF Next
<1>. QED  BY <1>1, Invariance, PTL DEF Spec, EachSliceIsNextWindow

\* AudioSlicer implements the safety part of Framing: each of its steps is a
\* step of Framing or changes nothing that Framing sees.
THEOREM ImplementsFraming == Spec => F!Init /\ [][F!Next]_(F!vars)
<1>1. Init => F!Init
  BY DEF Init, F!Init
<1>2. IInv /\ [Next]_vars => [F!Next]_(F!vars)
  <2>. SUFFICES ASSUME IInv, [Next]_vars PROVE [F!Next]_(F!vars)
    OBVIOUS
  <2>. USE DEF F!vars
  <2>0. inBegin \in Nat /\ inEnd \in Nat /\ base \in Nat /\ emitted \in Nat
    BY DEF IInv, TypeOK
  <2>1. CASE Reset
    BY <2>1 DEF Reset, F!Restart, F!Next
  <2>2. ASSUME NEW n \in 0 .. MaxFeed, Process(n) PROVE F!Next
    BY <2>0, <2>2, BoundAssumption DEF Process, F!Receive, F!Next
  <2>3. CASE SliceKeep
    BY <2>3, FrameIsNextWindow DEF SliceKeep, F!Deliver, F!Next
  <2>4. CASE SliceDrop
    BY <2>4, FrameIsNextWindow DEF SliceDrop, F!Deliver, F!Next
  <2>5. CASE SliceDirect
    <3>1. BufferSize = 0 /\ FrameComplete /\ slice' = Slice(SIZE)
      BY <2>5 DEF SliceDirect
    <3>2. SIZE = SIZE - BufferSize
      BY <3>1, SizeAssumption
    <3>. QED  BY <2>5, <3>1, <3>2, FrameIsNextWindow DEF SliceDirect, F!Deliver, F!Next
  <2>6. CASE Store
    BY <2>6 DEF Store
  <2>7. CASE UNCHANGED vars
    BY <2>7 DEF vars
  <2>. QED  BY <2>1, <2>2, <2>3, <2>4, <2>5, <2>6, <2>7 DEF Next
<1>. QED  BY <1>1, <1>2, Invariance, PTL DEF Spec
=============================================================================
