------------------------ MODULE FeaturePipeline_proofs ------------------------
(***************************************************************************)
(* Proofs about ChromaFilter and about FeaturePipeline, of which it is a   *)
(* part: how many rows and items a stream gives, of which vectors the rows *)
(* are made, and that the rolling image makes of the rows the items that   *)
(* the rows themselves would, for every ring, number of coefficients,      *)
(* image and set of classifiers.                                           *)
(***************************************************************************)
EXTENDS FeaturePipeline, WellFoundedInduction, FiniteSetTheorems, TLAPS

-----------------------------------------------------------------------------
(* The chroma filter.                                                      *)

\* The slots of the ring: going round once.
LEMMA GoRound ==
    ASSUME NEW x \in 0 .. 2 * RING - 1
    PROVE  x % RING = IF x < RING THEN x ELSE x - RING
<1>1. RING \in Nat \ {0}
  BY FilterAssumption
<1>2. CASE x < RING
  BY <1>1, <1>2
<1>3. CASE x >= RING
  <2>1. x = RING * 1 + (x - RING) /\ x - RING \in 0 .. RING - 1
    BY <1>1, <1>3
  <2>. QED  BY <1>1, <1>3, <2>1
<1>. QED  BY <1>1, <1>2, <1>3

\* One slot on, and i slots back.
LEMMA OneOn ==
    ASSUME NEW o \in 0 .. RING - 1
    PROVE  (o + 1) % RING = IF o + 1 < RING THEN o + 1 ELSE 0
<1>1. o + 1 \in 0 .. 2 * RING - 1
  BY FilterAssumption
<1>. QED  BY <1>1, GoRound, FilterAssumption

LEMMA Back ==
    ASSUME NEW o \in 0 .. RING - 1, NEW i \in 1 .. RING
    PROVE  (o + RING - i) % RING = IF o >= i THEN o - i ELSE o - i + RING
<1>1. o + RING - i \in 0 .. 2 * RING - 1
  BY FilterAssumption
<1>. QED  BY <1>1, GoRound, FilterAssumption

\* Storing at slot o and going back i slots from the next one is going back
\* i - 1 slots from o.
LEMMA BackFromNext ==
    ASSUME NEW o \in 0 .. RING - 1, NEW next, next = (o + 1) % RING, NEW i \in 1 .. RING
    PROVE  /\ next \in 0 .. RING - 1
           /\ i = 1 => (next + RING - i) % RING = o
           /\ i > 1 => /\ (next + RING - i) % RING = (o + RING - (i - 1)) % RING
                      /\ (next + RING - i) % RING # o
                      /\ (next + RING - i) % RING \in 0 .. RING - 1
<1>1. RING \in Nat \ {0} /\ next = IF o + 1 < RING THEN o + 1 ELSE 0
  BY OneOn, FilterAssumption
<1>2. next \in 0 .. RING - 1
  BY <1>1
<1>3. (next + RING - i) % RING = IF next >= i THEN next - i ELSE next - i + RING
  BY <1>2, Back
<1>4. i > 1 => (o + RING - (i - 1)) % RING =
                  IF o >= i - 1 THEN o - (i - 1) ELSE o - (i - 1) + RING
  <2>1. i > 1 => i - 1 \in 1 .. RING
    BY <1>1
  <2>. QED  BY <2>1, Back
<1>. QED  BY <1>1, <1>2, <1>3, <1>4

\* The j-th vector of the sum is LENGTH - j + 1 slots before the next one.
LEMMA OldestOn ==
    ASSUME NEW next \in 0 .. RING - 1, NEW j \in 1 .. LENGTH
    PROVE  (Oldest(next) + j - 1) % RING = (next + RING - (LENGTH - j + 1)) % RING
<1>1. RING \in Nat \ {0} /\ LENGTH \in 1 .. RING
  BY FilterAssumption
<1>. DEFINE oldest == Oldest(next)
<1>2. oldest = IF next >= LENGTH THEN next - LENGTH ELSE next - LENGTH + RING
  BY <1>1, Back DEF Oldest
<1>3. (next + RING - (LENGTH - j + 1)) % RING =
          IF next >= LENGTH - j + 1 THEN next - (LENGTH - j + 1)
                                    ELSE next - (LENGTH - j + 1) + RING
  <2>1. LENGTH - j + 1 \in 1 .. RING
    BY <1>1
  <2>. QED  BY <2>1, Back
<1>. HIDE DEF oldest
<1>4. PICK x : x = oldest + j - 1
  OBVIOUS
<1>5. x \in 0 .. 2 * RING - 1
  BY <1>1, <1>2, <1>4
<1>6. x % RING = IF x < RING THEN x ELSE x - RING
  BY <1>5, GoRound
<1>7. x % RING = (next + RING - (LENGTH - j + 1)) % RING
  BY <1>1, <1>2, <1>3, <1>4, <1>6
<1>. QED  BY <1>4, <1>7, Zenon DEF oldest

LEMMA InitIInv == Init => IInv
<1>. SUFFICES ASSUME Init PROVE IInv
  OBVIOUS
<1>. QED  BY FilterAssumption DEF Init, IInv, TypeOK, OneSumPerVector, RingHoldsLast, SizeCounts

\* After a vector was stored, the slots before the next one hold the last
\* buffer_size vectors of the stream.
LEMMA StoredIsLast ==
    ASSUME IInv, Consume
    PROVE  \A i \in 1 .. buffer_size :
              buffer'[(buffer_offset' + RING - i) % RING] = consumed' - i + 1
<1>. USE FilterAssumption
<1>1. /\ buffer \in [0 .. RING - 1 -> Nat] /\ buffer_offset \in 0 .. RING - 1
      /\ buffer_size \in 1 .. LENGTH /\ consumed \in Nat
      /\ RING \in Nat \ {0} /\ LENGTH \in 1 .. RING
  BY DEF IInv, TypeOK
<1>2. /\ consumed' = consumed + 1
      /\ buffer' = [buffer EXCEPT ![buffer_offset] = consumed + 1]
      /\ buffer_offset' = (buffer_offset + 1) % RING
  BY DEF Consume
<1>3. PICK next : next = buffer_offset'
  OBVIOUS
<1>4. SUFFICES ASSUME NEW i \in 1 .. buffer_size
               PROVE  buffer'[(next + RING - i) % RING] = consumed' - i + 1
  BY <1>3, Zenon
<1>5. /\ i \in 1 .. RING
      /\ i = 1 => (next + RING - i) % RING = buffer_offset
      /\ i > 1 => /\ (next + RING - i) % RING = (buffer_offset + RING - (i - 1)) % RING
                 /\ (next + RING - i) % RING # buffer_offset
                 /\ (next + RING - i) % RING \in 0 .. RING - 1
  <2>1. i \in 1 .. RING
    BY <1>1
  <2>. QED  BY <1>1, <1>2, <1>3, <2>1, BackFromNext
<1>6. CASE i = 1
  BY <1>1, <1>2, <1>5, <1>6
<1>7. CASE i > 1
  <2>1. i - 1 \in 1 .. buffer_size - 1
    BY <1>1, <1>7
  <2>2. buffer[(buffer_offset + RING - (i - 1)) % RING] = consumed - (i - 1) + 1
    BY <2>1 DEF IInv, RingHoldsLast
  <2>3. buffer'[(next + RING - i) % RING] = buffer[(next + RING - i) % RING]
    BY <1>1, <1>2, <1>5, <1>7
  <2>. QED  BY <1>1, <1>2, <1>5, <1>7, <2>2, <2>3
<1>. QED  BY <1>1, <1>6, <1>7

LEMMA StepIInv == IInv /\ [Next]_vars => IInv'
<1>. SUFFICES ASSUME IInv, [Next]_vars PROVE IInv'
  OBVIOUS
<1>. USE FilterAssumption
<1>1. CASE Reset
  BY <1>1 DEF Reset, IInv, TypeOK, OneSumPerVector, RingHoldsLast, SizeCounts
<1>2. CASE Consume
  <2>1. /\ buffer \in [0 .. RING - 1 -> Nat] /\ buffer_offset \in 0 .. RING - 1
        /\ buffer_size \in 1 .. LENGTH /\ consumed \in Nat /\ base \in 0 .. consumed
        /\ results \in Nat
        /\ RING \in Nat \ {0} /\ LENGTH \in 1 .. RING
    BY DEF IInv, TypeOK
  <2>2. /\ consumed' = consumed + 1 /\ base' = base
        /\ buffer' = [buffer EXCEPT ![buffer_offset] = consumed + 1]
        /\ buffer_offset' = (buffer_offset + 1) % RING
        /\ \/ buffer_size >= LENGTH /\ results' = results + 1 /\ buffer_size' = buffer_size
           \/ buffer_size < LENGTH /\ results' = results /\ buffer_size' = buffer_size + 1
    BY <1>2 DEF Consume
  <2>3. buffer_offset' \in 0 .. RING - 1
    BY <2>1, <2>2, OneOn
  <2>4. TypeOK'
    <3>1. buffer' \in [0 .. RING - 1 -> Nat]
      <4>1. consumed + 1 \in Nat
        BY <2>1
      <4>. QED  BY <2>1, <2>2, <4>1, Zenon
    <3>2. buffer_size' \in 1 .. LENGTH
      BY <2>1, <2>2
    <3>3. consumed' \in Nat /\ base' \in 0 .. consumed' /\ results' \in Nat
      BY <2>1, <2>2
    <3>. QED  BY <2>3, <3>1, <3>2, <3>3, Zenon DEF TypeOK
  <2>5. SizeCounts' /\ OneSumPerVector'
    BY <2>1, <2>2 DEF IInv, SizeCounts, OneSumPerVector
  <2>6. RingHoldsLast'
    <3>1. \A i \in 1 .. buffer_size :
              buffer'[(buffer_offset' + RING - i) % RING] = consumed' - i + 1
      BY <1>2, StoredIsLast
    <3>2. \A i \in 1 .. buffer_size' - 1 : i \in 1 .. buffer_size
      BY <2>1, <2>2
    <3>. QED  BY <3>1, <3>2, Zenon DEF RingHoldsLast
  <2>. QED  BY <2>4, <2>5, <2>6 DEF IInv
<1>3. CASE UNCHANGED vars
  BY <1>3 DEF vars, IInv, TypeOK, OneSumPerVector, RingHoldsLast, SizeCounts
<1>. QED  BY <1>1, <1>2, <1>3 DEF Next

\* The ring always holds the last vectors of the stream, as many as
\* m_buffer_size counts (chroma_filter.cpp, Consume and Reset).
THEOREM Invariance == Spec => []IInv
BY InitIInv, StepIInv, PTL DEF Spec

\* A stream of n vectors gives max(0, n - LENGTH + 1) sums.
THEOREM SumCount == Spec => []OneSumPerVector
<1>1. IInv => OneSumPerVector
  BY DEF IInv
<1>. QED  BY <1>1, Invariance, PTL

\* Each sum is over the last LENGTH vectors of its stream, oldest first.
THEOREM SumsAreWindows == Spec => EachSumIsLastWindow
<1>. USE FilterAssumption
<1>1. ASSUME IInv, Next, results' = results + 1
      PROVE  /\ consumed' - LENGTH >= base
             /\ result' = [j \in 1 .. LENGTH |-> consumed' - LENGTH + j]
  <2>1. results \in Nat /\ consumed \in Nat /\ base \in 0 .. consumed
        /\ buffer_size \in 1 .. LENGTH /\ buffer_offset \in 0 .. RING - 1
        /\ RING \in Nat \ {0} /\ LENGTH \in 1 .. RING
    BY <1>1 DEF IInv, TypeOK
  <2>2. Consume
    BY <1>1, <2>1 DEF Next, Reset
  <2>3. /\ buffer_size = LENGTH /\ consumed' = consumed + 1
        /\ buffer_offset' = (buffer_offset + 1) % RING
        /\ result' = [j \in 1 .. LENGTH |-> buffer'[(Oldest(buffer_offset') + j - 1) % RING]]
    BY <1>1, <2>1, <2>2 DEF Consume
  <2>4. buffer_offset' \in 0 .. RING - 1
    BY <2>1, <2>3, OneOn
  <2>5. consumed' - LENGTH >= base
    BY <1>1, <2>1, <2>3 DEF IInv, SizeCounts
  <2>6. ASSUME NEW j \in 1 .. LENGTH
        PROVE  buffer'[(Oldest(buffer_offset') + j - 1) % RING] = consumed' - LENGTH + j
    <3>. DEFINE i == LENGTH - j + 1
    <3>1. i \in 1 .. buffer_size
      BY <2>1, <2>3
    <3>2. buffer'[(buffer_offset' + RING - i) % RING] = consumed' - i + 1
      BY <1>1, <2>2, <3>1, StoredIsLast
    <3>3. (Oldest(buffer_offset') + j - 1) % RING = (buffer_offset' + RING - i) % RING
      BY <2>4, OldestOn
    <3>4. consumed' - i + 1 = consumed' - LENGTH + j
      BY <2>1, <2>3
    <3>. QED  BY <3>2, <3>3, <3>4, Zenon
  <2>. QED  BY <2>3, <2>5, <2>6
<1>2. IInv /\ [Next]_vars =>
        [results' = results + 1 =>
            /\ consumed' - LENGTH >= base
            /\ result' = [j \in 1 .. LENGTH |-> consumed' - LENGTH + j]]_vars
  BY <1>1
<1>. QED  BY <1>2, Invariance, PTL DEF Spec, EachSumIsLastWindow

-----------------------------------------------------------------------------
(* The filter and the calculator.                                          *)

\* The steps of the pipeline are steps of the chroma filter or leave it alone,
\* so that what is proved about the filter holds in the pipeline.
LEMMA PipelineIsFilter == PipelineSpec => Spec
<1>1. PipelineInit => Init
  BY DEF PipelineInit
<1>2. [PipelineNext]_pipeline => [Next]_vars
  BY DEF PipelineNext, Start, ConsumeVector, ClearFingerprint, Next, pipeline
<1>. QED  BY <1>1, <1>2, PTL DEF PipelineSpec, Spec

\* Appending to a sequence of anything.
LEMMA Appended ==
    ASSUME NEW S, NEW s \in Seq(S), NEW x
    PROVE  /\ Append(s, x) \in Seq(S \cup {x})
           /\ Len(Append(s, x)) = Len(s) + 1
           /\ \A i \in 1 .. Len(s) : Append(s, x)[i] = s[i]
           /\ Append(s, x)[Len(s) + 1] = x
<1>1. s \in Seq(S \cup {x}) /\ x \in S \cup {x}
  OBVIOUS
<1>. QED  BY <1>1

\* The vectors that row k of a stream is made of.
Window(k) == [j \in 1 .. LENGTH |-> base + k - 1 + j]

\* The sequences, whatever their elements are.
RowsKept == \E S : rows \in Seq(S)
ItemsKept == \E S : cleared \in Seq(S) /\ fingerprint \in Seq(S)

\* Each sum gave a row, each row from the MaxFilterWidth-th on an item.
RowsCounted ==
    /\ Len(rows) = results
    /\ image.num_rows = results
    /\ Len(cleared) + Len(fingerprint) =
          IF results < Calculator!MaxFilterWidth THEN 0
          ELSE results - Calculator!MaxFilterWidth + 1

RowsAreWindows == \A k \in 1 .. results : rows[k] = Weighted(Window(k))

PInv == RowsKept /\ ItemsKept /\ RowsCounted /\ RowsAreWindows

\* The widest filter, as the constructor's assertions bound it.
LEMMA WidthType == Calculator!MaxFilterWidth \in Nat \ {0}
<1>1. MAX_ROWS \in Nat
  BY CalculatorAssumption DEF Calculator!ImageAssumption
<1>. QED  BY <1>1, CalculatorAssumption DEF Calculator!WidthAssumption

\* A stream without rows.
LEMMA NoRows ==
    ASSUME rows = <<>>, cleared = <<>>, fingerprint = <<>>, image.num_rows = 0, results = 0
    PROVE  PInv
<1>1. RowsKept /\ ItemsKept
  <2>1. rows \in Seq({}) /\ cleared \in Seq({}) /\ fingerprint \in Seq({})
    OBVIOUS
  <2>. QED  BY <2>1 DEF RowsKept, ItemsKept
<1>2. RowsCounted
  BY WidthType DEF RowsCounted
<1>3. RowsAreWindows
  BY DEF RowsAreWindows
<1>. QED  BY <1>1, <1>2, <1>3 DEF PInv

LEMMA InitPInv == PipelineInit => PInv
<1>. SUFFICES ASSUME PipelineInit PROVE PInv
  OBVIOUS
<1>1. /\ rows = <<>> /\ cleared = <<>> /\ fingerprint = <<>> /\ results = 0
      /\ image = Calculator!NewImage
  BY DEF PipelineInit, Init, Calculator!Init
<1>2. image.num_rows = 0
  BY <1>1 DEF Calculator!NewImage
<1>. QED  BY <1>1, <1>2, NoRows

\* A start empties the calculator and starts the count of the sums again.
LEMMA StartPInv == ASSUME Start PROVE PInv'
<1>1. /\ rows' = <<>> /\ cleared' = <<>> /\ fingerprint' = <<>> /\ results' = 0
      /\ image' = Calculator!NewImage
  BY DEF Start, Reset, Calculator!Reset
<1>2. image'.num_rows = 0
  BY <1>1 DEF Calculator!NewImage
<1>3. RowsKept' /\ ItemsKept'
  <2>1. rows' \in Seq({}) /\ cleared' \in Seq({}) /\ fingerprint' \in Seq({})
    BY <1>1
  <2>. QED  BY <2>1 DEF RowsKept, ItemsKept
<1>4. RowsCounted'
  BY <1>1, <1>2, WidthType DEF RowsCounted
<1>5. RowsAreWindows'
  BY <1>1 DEF RowsAreWindows
<1>. QED  BY <1>3, <1>4, <1>5 DEF PInv

\* Clearing moves the items from one sequence to the other.
LEMMA ClearPInv == ASSUME PInv, ClearFingerprint PROVE PInv'
<1>1. /\ fingerprint' = <<>> /\ cleared' = cleared \o fingerprint
      /\ image' = image /\ rows' = rows /\ results' = results /\ base' = base
  BY DEF ClearFingerprint, Calculator!ClearFingerprint, vars
<1>2. PICK S : cleared \in Seq(S) /\ fingerprint \in Seq(S)
  BY DEF PInv, ItemsKept
<1>3. /\ cleared' \in Seq(S) /\ fingerprint' \in Seq(S)
      /\ Len(cleared') + Len(fingerprint') = Len(cleared) + Len(fingerprint)
  BY <1>1, <1>2
<1>4. ItemsKept'
  BY <1>3 DEF ItemsKept
<1>5. RowsKept' /\ RowsCounted' /\ RowsAreWindows'
  BY <1>1, <1>3 DEF PInv, RowsKept, RowsCounted, RowsAreWindows, Window
<1>. QED  BY <1>4, <1>5 DEF PInv

\* A vector that completes a sum: the filter's invariant and the sum that it
\* hands over are those of ChromaFilter.
LEMMA ConsumePInv ==
    ASSUME IInv, IInv', PInv, ConsumeVector,
           results' = results + 1 =>
              result' = [j \in 1 .. LENGTH |-> consumed' - LENGTH + j]
    PROVE  PInv'
<1>1. /\ results \in Nat /\ consumed \in Nat /\ base \in 0 .. consumed
      /\ LENGTH \in Nat \ {0} /\ RING \in Nat \ {0}
  BY FilterAssumption DEF IInv, TypeOK
<1>2. base' = base /\ consumed' = consumed + 1 /\ results' \in {results, results + 1}
  BY <1>1 DEF ConsumeVector, Consume
<1>3. CASE results' = results
  <2>1. rows' = rows /\ image' = image /\ cleared' = cleared /\ fingerprint' = fingerprint
    BY <1>1, <1>3 DEF ConsumeVector, calculator
  <2>. QED
    BY <1>2, <1>3, <2>1
    DEF PInv, RowsKept, ItemsKept, RowsCounted, RowsAreWindows, Window
<1>4. CASE results' = results + 1
  <2>1. Calculator!Consume(Weighted(result'))
    BY <1>1, <1>4 DEF ConsumeVector
  <2>2. /\ rows' = Append(rows, Weighted(result')) /\ cleared' = cleared
        /\ image' = Calculator!AddRow(image, Weighted(result'))
    BY <2>1 DEF Calculator!Consume
  <2>3. image'.num_rows = results + 1
    BY <2>2 DEF Calculator!AddRow, PInv, RowsCounted
  <2>4. PICK item :
          fingerprint' = IF image'.num_rows >= Calculator!MaxFilterWidth
                           THEN Append(fingerprint, item) ELSE fingerprint
    BY <2>1 DEF Calculator!Consume
  <2>5. PICK S : rows \in Seq(S)
    BY DEF PInv, RowsKept
  <2>6. /\ rows' \in Seq(S \cup {Weighted(result')})
        /\ Len(rows') = Len(rows) + 1
        /\ \A k \in 1 .. Len(rows) : rows'[k] = rows[k]
        /\ rows'[Len(rows) + 1] = Weighted(result')
    BY <2>2, <2>5, Appended
  <2>7. PICK T : cleared \in Seq(T) /\ fingerprint \in Seq(T)
    BY DEF PInv, ItemsKept
  <2>8. /\ Append(fingerprint, item) \in Seq(T \cup {item})
        /\ Len(Append(fingerprint, item)) = Len(fingerprint) + 1
    BY <2>7, Appended
  <2>9. cleared' \in Seq(T \cup {item}) /\ fingerprint' \in Seq(T \cup {item})
    BY <2>2, <2>4, <2>7, <2>8
  <2>10. RowsKept' /\ ItemsKept'
    BY <2>6, <2>9 DEF RowsKept, ItemsKept
  <2>11. RowsCounted'
    <3>1. /\ Len(rows) = results
          /\ Len(cleared) + Len(fingerprint) =
                IF results < Calculator!MaxFilterWidth THEN 0
                ELSE results - Calculator!MaxFilterWidth + 1
      BY DEF PInv, RowsCounted
    <3>2. Len(cleared) \in Nat /\ Len(fingerprint) \in Nat
      BY <2>7
    <3>3. Len(fingerprint') = IF results + 1 >= Calculator!MaxFilterWidth
                                THEN Len(fingerprint) + 1 ELSE Len(fingerprint)
      BY <2>3, <2>4, <2>8
    <3>. QED
      BY <1>1, <1>4, <2>2, <2>3, <2>6, <3>1, <3>2, <3>3, WidthType DEF RowsCounted
  <2>12. RowsAreWindows'
    <3>1. consumed' - LENGTH = base + results
      BY <1>1, <1>2, <1>4 DEF IInv, OneSumPerVector
    <3>2. result' = Window(results + 1)
      BY <1>1, <1>4, <3>1 DEF Window
    <3>3. Len(rows) = results /\ \A k \in 1 .. results : rows[k] = Weighted(Window(k))
      BY DEF PInv, RowsCounted, RowsAreWindows
    <3>4. \A k : Window(k)' = Window(k)
      BY <1>2 DEF Window
    <3>5. \A k \in 1 .. results + 1 : rows'[k] = Weighted(Window(k))
      BY <1>1, <2>6, <3>2, <3>3
    <3>. QED  BY <1>2, <1>4, <3>5 DEF RowsAreWindows, Window
  <2>. QED  BY <2>10, <2>11, <2>12 DEF PInv
<1>. QED  BY <1>2, <1>3, <1>4

\* Every step of the pipeline, given what SumsAreWindows says of the sums.
LEMMA StepPInv ==
    ASSUME IInv, IInv', PInv, [PipelineNext]_pipeline,
           results' = results + 1 =>
              result' = [j \in 1 .. LENGTH |-> consumed' - LENGTH + j]
    PROVE  PInv'
<1>1. CASE Start
  BY <1>1, StartPInv
<1>2. CASE ConsumeVector
  BY <1>2, ConsumePInv
<1>3. CASE ClearFingerprint
  BY <1>3, ClearPInv
<1>4. CASE UNCHANGED pipeline
  BY <1>4 DEF pipeline, vars, calculator, PInv, RowsKept, ItemsKept, RowsCounted,
              RowsAreWindows, Window
<1>. QED  BY <1>1, <1>2, <1>3, <1>4 DEF PipelineNext

\* The numbers of sums and of items, put together, are the delay that the
\* configuration states.
LEMMA RowsAndItems == IInv /\ PInv => RowsOfStream
<1>. SUFFICES ASSUME IInv, PInv PROVE RowsOfStream
  OBVIOUS
<1>. DEFINE W == Calculator!MaxFilterWidth
            vectors == consumed - base
            held == LENGTH - 1 + W - 1
<1>1. /\ results \in Nat /\ vectors \in Nat /\ LENGTH \in Nat \ {0}
      /\ results = IF vectors < LENGTH THEN 0 ELSE vectors - LENGTH + 1
  BY FilterAssumption DEF IInv, TypeOK, OneSumPerVector
<1>2. W \in Nat \ {0}
  BY WidthType
<1>3. /\ Len(rows) = results
      /\ Len(cleared) + Len(fingerprint) = IF results < W THEN 0 ELSE results - W + 1
  BY DEF PInv, RowsCounted
<1>4. PICK T : cleared \in Seq(T) /\ fingerprint \in Seq(T)
  BY DEF PInv, ItemsKept
<1>5. Len(cleared \o fingerprint) = Len(cleared) + Len(fingerprint)
  BY <1>4
<1>. HIDE DEF W, vectors
<1>6. Len(cleared \o fingerprint) = IF vectors < held THEN 0 ELSE vectors - held
  BY <1>1, <1>2, <1>3, <1>5
<1>7. rows = [k \in 1 .. results |-> Weighted([j \in 1 .. LENGTH |-> base + k - 1 + j])]
  <2>1. PICK S : rows \in Seq(S)
    BY DEF PInv, RowsKept
  <2>2. rows = [k \in 1 .. results |-> rows[k]]
    BY <1>1, <1>3, <2>1
  <2>3. \A k \in 1 .. results : rows[k] = Weighted([j \in 1 .. LENGTH |-> base + k - 1 + j])
    BY DEF PInv, RowsAreWindows, Window
  <2>. QED  BY <2>2, <2>3
<1>. QED  BY <1>6, <1>7, Zenon DEF RowsOfStream, W, vectors

\* The counts, the rows and what the filter keeps, through every start,
\* vector and clearing of the pipeline.
THEOREM PipelineInvariance == PipelineSpec => [](IInv /\ PInv)
<1>. DEFINE SumIsWindow ==
        results' = results + 1 =>
            /\ consumed' - LENGTH >= base
            /\ result' = [j \in 1 .. LENGTH |-> consumed' - LENGTH + j]
<1>1. PipelineSpec => []IInv
  BY PipelineIsFilter, Invariance, PTL
<1>2. PipelineSpec => [][SumIsWindow]_vars
  BY PipelineIsFilter, SumsAreWindows, PTL DEF EachSumIsLastWindow
<1>3. ASSUME IInv, IInv', PInv, [PipelineNext]_pipeline, [SumIsWindow]_vars
      PROVE  PInv'
  <2>1. results' = results + 1 => result' = [j \in 1 .. LENGTH |-> consumed' - LENGTH + j]
    BY <1>3 DEF vars, IInv, TypeOK
  <2>. QED  BY <1>3, <2>1, StepPInv
<1>4. PipelineSpec => []PInv
  BY <1>1, <1>2, <1>3, InitPInv, PTL DEF PipelineSpec
<1>. QED  BY <1>1, <1>4, PTL

\* Row k of a stream is made of its LENGTH vectors from the k-th on, and the
\* k-th item comes with the last vector of row k + MaxFilterWidth - 1,
\* through clearing and restarts (chroma_filter.cpp, fingerprint_calculator.cpp,
\* and delay() of fingerprinter_configuration.h).
THEOREM RowsAreOfStream == PipelineSpec => []RowsOfStream
BY PipelineInvariance, RowsAndItems, PTL

-----------------------------------------------------------------------------
(* The assertions of the integral image.                                   *)

\* A set of numbers has a least one.
LEMMA Least ==
    ASSUME NEW B \in SUBSET Nat, NEW n \in B
    PROVE  \E m \in B : \A k \in B : m <= k
<1>1. PICK m \in B : \A k \in B : ~ (<<k, m>> \in OpToRel(<, Nat))
  <2>1. n \in B /\ B \subseteq Nat
    OBVIOUS
  <2>. QED  BY <2>1, WFMin, NatLessThanWellFounded
<1>2. ASSUME NEW k \in B, k < m PROVE FALSE
  <2>1. <<k, m>> \in OpToRel(<, Nat)
    BY <1>2 DEF OpToRel
  <2>. QED  BY <1>1, <2>1
<1>. QED  BY <1>2

Width(i) == Classifiers[i].width

\* The widest filter is as wide as any.  The maximum exists because the
\* widths have a least bound and one of them is that bound.
LEMMA WidthBounds ==
    ASSUME NEW k \in DOMAIN Classifiers
    PROVE  Width(k) <= Calculator!MaxFilterWidth
<1>. DEFINE Widths == {Width(i) : i \in DOMAIN Classifiers}
            Bounds == {b \in Nat : \A w \in Widths : w <= b}
<1>1. MAX_ROWS \in Nat /\ \A w \in Widths : w \in Nat /\ w <= MAX_ROWS
  BY CalculatorAssumption
     DEF Calculator!ImageAssumption, Calculator!ClassifiersAssumption, Width
<1>2. Width(k) \in Widths
  OBVIOUS
<1>. HIDE DEF Widths
<1>3. PICK b \in Bounds : \A a \in Bounds : b <= a
  <2>1. MAX_ROWS \in Bounds /\ Bounds \in SUBSET Nat
    BY <1>1
  <2>. HIDE DEF Bounds
  <2>. QED  BY <2>1, Least
<1>4. \A a \in Bounds : b <= a
  BY <1>3
<1>5. b \in Nat /\ \A w \in Widths : w <= b
  OBVIOUS
<1>6. b \in Widths
  <2>. SUFFICES ASSUME b \notin Widths PROVE FALSE
    OBVIOUS
  <2>1. \A w \in Widths : w <= b - 1
    BY <1>1, <1>5
  <2>2. b - 1 \in Nat
    BY <1>1, <1>2, <1>5, <2>1
  <2>3. b - 1 \in Bounds
    BY <2>1, <2>2
  <2>. QED  BY <1>4, <1>5, <2>3
<1>7. Calculator!MaxFilterWidth = CHOOSE x \in Widths : \A w \in Widths : x >= w
  BY DEF Calculator!MaxFilterWidth, Calculator!Max, Widths, Width
<1>8. \E x \in Widths : \A w \in Widths : x >= w
  BY <1>1, <1>5, <1>6
<1>9. /\ Calculator!MaxFilterWidth \in Widths
      /\ \A w \in Widths : Calculator!MaxFilterWidth >= w
  BY <1>7, <1>8, Zenon
<1>. QED  BY <1>1, <1>2, <1>9

\* A rectangle that lies in another one and is not turned inside out.
Within(r, x, y, w, h) ==
    /\ r[1] \in Nat /\ r[2] \in Nat /\ r[3] \in Nat /\ r[4] \in Nat
    /\ x <= r[1] /\ r[1] <= r[3] /\ r[3] <= x + w
    /\ y <= r[2] /\ r[2] <= r[4] /\ r[4] <= y + h

\* The halves and thirds of a side.
LEMMA Halves ==
    ASSUME NEW n \in Nat
    PROVE  n \div 2 \in Nat /\ n \div 2 <= n /\ n \div 3 \in Nat /\ 2 * (n \div 3) <= n
OBVIOUS

\* The rectangles of a filter lie in the one it is placed on.
LEMMA FilterStaysWithin ==
    ASSUME NEW type \in 0 .. 5, NEW x \in Nat, NEW y \in Nat, NEW w \in Nat, NEW h \in Nat,
           NEW p \in {1, 2}, NEW r \in Calculator!Rectangles(type, x, y, w, h)[p]
    PROVE  Within(r, x, y, w, h)
<1>. DEFINE w2 == w \div 2
            h2 == h \div 2
            w3 == w \div 3
            h3 == h \div 3
            R == Calculator!Rectangles(type, x, y, w, h)
<1>1. /\ w2 \in Nat /\ w2 <= w /\ w3 \in Nat /\ 2 * w3 <= w
      /\ h2 \in Nat /\ h2 <= h /\ h3 \in Nat /\ 2 * h3 <= h
  BY Halves
<1>2. /\ type = 0 => R = << {<<x, y, x + w, y + h>>}, {} >>
      /\ type = 1 => R = << {<<x, y + h2, x + w, y + h>>}, {<<x, y, x + w, y + h2>>} >>
      /\ type = 2 => R = << {<<x + w2, y, x + w, y + h>>}, {<<x, y, x + w2, y + h>>} >>
      /\ type = 3 =>
            R = << {<<x, y + h2, x + w2, y + h>>, <<x + w2, y, x + w, y + h2>>},
                   {<<x, y, x + w2, y + h2>>, <<x + w2, y + h2, x + w, y + h>>} >>
      /\ type = 4 =>
            R = << {<<x, y + h3, x + w, y + 2 * h3>>},
                   {<<x, y, x + w, y + h3>>, <<x, y + 2 * h3, x + w, y + h>>} >>
      /\ type = 5 =>
            R = << {<<x + w3, y, x + 2 * w3, y + h>>},
                   {<<x, y, x + w3, y + h>>, <<x + 2 * w3, y, x + w, y + h>>} >>
  BY DEF Calculator!Rectangles, Calculator!Third
<1>3. r \in R[p]
  OBVIOUS
<1>. HIDE DEF w2, h2, w3, h3, R
<1>4. CASE type = 0
  BY <1>1, <1>2, <1>3, <1>4 DEF Within
<1>5. CASE type = 1
  BY <1>1, <1>2, <1>3, <1>5 DEF Within
<1>6. CASE type = 2
  BY <1>1, <1>2, <1>3, <1>6 DEF Within
<1>7. CASE type = 3
  BY <1>1, <1>2, <1>3, <1>7 DEF Within
<1>8. CASE type = 4
  BY <1>1, <1>2, <1>3, <1>8 DEF Within
<1>9. CASE type = 5
  BY <1>1, <1>2, <1>3, <1>9 DEF Within
<1>. QED  BY <1>4, <1>5, <1>6, <1>7, <1>8, <1>9

\* The window that the last row completes begins after every row that the
\* image has overwritten, so a rectangle within it may be asked for.
LEMMA WindowIsKept ==
    ASSUME NEW img, img.num_rows \in Nat, img.num_rows >= Calculator!MaxFilterWidth,
           NEW i \in DOMAIN Classifiers, NEW r,
           Within(r, Calculator!LastOffset(img), Classifiers[i].y,
                  Classifiers[i].width, Classifiers[i].height)
    PROVE  Calculator!AreaAllowed(img, r[1], r[2], r[3], r[4])
<1>. DEFINE W == Calculator!MaxFilterWidth
            n == img.num_rows
<1>1. /\ MAX_ROWS \in Nat /\ COLUMNS \in Nat /\ W \in 1 .. MAX_ROWS - 1
      /\ Classifiers[i].y \in Nat /\ Classifiers[i].height \in Nat
      /\ Classifiers[i].y + Classifiers[i].height <= COLUMNS
      /\ Width(i) \in Nat
  BY CalculatorAssumption DEF Calculator!ImageAssumption, Calculator!WidthAssumption,
     Calculator!ClassifiersAssumption, Width
<1>2. Width(i) <= W
  BY WidthBounds
<1>3. /\ r[1] \in Nat /\ r[2] \in Nat /\ r[3] \in Nat /\ r[4] \in Nat
      /\ n - W <= r[1] /\ r[1] <= r[3] /\ r[3] <= n - W + Width(i)
      /\ r[2] <= r[4] /\ r[4] <= Classifiers[i].y + Classifiers[i].height
  BY DEF Within, Width, Calculator!LastOffset
<1>4. r[3] <= n /\ r[1] >= n - W /\ r[4] <= COLUMNS /\ r[2] <= COLUMNS
  <2>. HIDE DEF W, n
  <2>1. n \in Nat
    BY DEF n
  <2>. QED  BY <1>1, <1>2, <1>3, <2>1
<1>5. Calculator!Slots = MAX_ROWS + 1
  BY DEF Calculator!Slots
<1>6. Calculator!BoundaryKept(img, r[1]) /\ Calculator!BoundaryKept(img, r[3])
  BY <1>1, <1>3, <1>4, <1>5 DEF Calculator!BoundaryKept
<1>7. (r[1] # r[3] => r[1] < r[3]) /\ (r[2] # r[4] => r[2] < r[4])
  BY <1>3
<1>. QED  BY <1>4, <1>6, <1>7, Zenon DEF Calculator!AreaAllowed

\* No area that an item is computed of fails an assertion of Area
\* (rolling_integral_image.h:39-55), which a release build leaves out: with
\* filters no wider than the constructor allows, the image keeps every row of
\* the window, however long the stream.
THEOREM AreasAreAllowed == PipelineSpec => []AssertionsHold
<1>1. PInv /\ IInv => AssertionsHold
  <2>. SUFFICES ASSUME PInv, IInv, image.num_rows >= Calculator!MaxFilterWidth,
                       NEW i \in DOMAIN Classifiers, NEW p \in {1, 2},
                       NEW r \in Calculator!Parts(i, Calculator!LastOffset(image))[p]
                PROVE  Calculator!AreaAllowed(image, r[1], r[2], r[3], r[4])
    BY DEF AssertionsHold, Calculator!AssertionsHold
  <2>1. image.num_rows \in Nat
    BY DEF PInv, RowsCounted, IInv, TypeOK
  <2>2. Calculator!LastOffset(image) \in Nat
    BY <2>1, WidthType DEF Calculator!LastOffset
  <2>3. /\ Classifiers[i].type \in 0 .. 5 /\ Classifiers[i].width \in Nat
        /\ Classifiers[i].y \in Nat /\ Classifiers[i].height \in Nat
    BY CalculatorAssumption DEF Calculator!ImageAssumption, Calculator!ClassifiersAssumption
  <2>4. Within(r, Calculator!LastOffset(image), Classifiers[i].y,
               Classifiers[i].width, Classifiers[i].height)
    BY <2>2, <2>3, FilterStaysWithin DEF Calculator!Parts
  <2>. QED  BY <2>1, <2>4, WindowIsKept
<1>. QED  BY <1>1, PipelineInvariance, PTL

-----------------------------------------------------------------------------
(* Sums of weights over finite sets, as MapThenSumSet computes them: a     *)
(* recursive function takes out one element after the other.               *)

\* What holds of a set when it holds of all that have one element less holds
\* of all finite sets.
LEMMA FiniteInduct ==
    ASSUME NEW S, IsFiniteSet(S), NEW T,
           \A s \in SUBSET S : (\A x \in s : s \ {x} \in T) => s \in T
    PROVE  \A s \in SUBSET S : s \in T
<1>. DEFINE B == {s \in SUBSET S : s \notin T}
            N == {Cardinality(s) : s \in B}
<1>1. \A s \in SUBSET S : IsFiniteSet(s) /\ Cardinality(s) \in Nat
  BY FS_Subset, FS_CardinalityType
<1>. SUFFICES ASSUME NEW t \in B PROVE FALSE
  OBVIOUS
<1>2. N \in SUBSET Nat /\ Cardinality(t) \in N
  BY <1>1
<1>3. PICK s \in B : \A u \in B : Cardinality(s) <= Cardinality(u)
  <2>. HIDE DEF N
  <2>1. PICK m \in N : \A k \in N : m <= k
    BY <1>2, Least
  <2>. QED  BY <2>1 DEF N
<1>4. ASSUME NEW x \in s PROVE s \ {x} \in T
  <2>1. Cardinality(s \ {x}) = Cardinality(s) - 1
    BY <1>1, FS_RemoveElement
  <2>2. s \ {x} \in SUBSET S
    OBVIOUS
  <2>. QED  BY <1>1, <1>3, <2>1, <2>2
<1>. QED  BY <1>4

Chosen(s) == CHOOSE x \in s : TRUE

\* g is the function that MapThenSumSet computes for the weights w, on the
\* sets of D.
Sums(g, w, D) ==
    g = [s \in D |-> IF s = {} THEN 0 ELSE w[Chosen(s)] + g[s \ {Chosen(s)}]]

Total(w, S) == (CHOOSE g : Sums(g, w, SUBSET S))[S]

\* D is closed under leaving out an element.
SumAt(g, w, s) == g[s] = IF s = {} THEN 0 ELSE w[Chosen(s)] + g[s \ {Chosen(s)}]

LEMMA SumsAt ==
    ASSUME NEW g, NEW w, NEW D, Sums(g, w, D), NEW s \in D
    PROVE  SumAt(g, w, s)
<1>. DEFINE e(u) == IF u = {} THEN 0 ELSE w[Chosen(u)] + g[u \ {Chosen(u)}]
<1>1. g = [u \in D |-> e(u)]
  BY DEF Sums
<1>2. g[s] = e(s)
  <2>. HIDE DEF e
  <2>. QED  BY <1>1
<1>. QED  BY <1>2 DEF SumAt

Small(S, n) == {s \in SUBSET S : Cardinality(s) <= n}

LEMMA SmallerWithout ==
    ASSUME NEW S, IsFiniteSet(S), NEW s \in SUBSET S
    PROVE  /\ IsFiniteSet(s) /\ Cardinality(s) \in Nat
           /\ s # {} => /\ Chosen(s) \in s
                        /\ Cardinality(s \ {Chosen(s)}) = Cardinality(s) - 1
<1>1. IsFiniteSet(s) /\ Cardinality(s) \in Nat
  BY FS_Subset, FS_CardinalityType
<1>2. s # {} => Chosen(s) \in s
  BY DEF Chosen
<1>. QED  BY <1>1, <1>2, FS_RemoveElement

LEMMA SumsExtend ==
    ASSUME NEW w, NEW S, IsFiniteSet(S), NEW n \in Nat, NEW g, Sums(g, w, Small(S, n))
    PROVE  \E f : Sums(f, w, Small(S, n + 1))
<1>. DEFINE c(u) == Chosen(u)
            f == [s \in Small(S, n + 1) |-> IF s = {} THEN 0 ELSE w[c(s)] + g[s \ {c(s)}]]
<1>1. ASSUME NEW s \in Small(S, n) PROVE s \in Small(S, n + 1)
  <2>1. s \in SUBSET S /\ Cardinality(s) <= n
    BY DEF Small
  <2>2. Cardinality(s) \in Nat
    BY <2>1, SmallerWithout
  <2>. QED  BY <2>1, <2>2 DEF Small
<1>2. ASSUME NEW s \in Small(S, n) PROVE f[s] = g[s]
  <2>1. SumAt(g, w, s)
    BY <1>2, SumsAt
  <2>. QED  BY <1>1, <2>1 DEF SumAt
<1>3. ASSUME NEW s \in Small(S, n + 1), s # {} PROVE s \ {c(s)} \in Small(S, n)
  <2>1. s \in SUBSET S /\ Cardinality(s) <= n + 1
    BY DEF Small
  <2>2. Cardinality(s) \in Nat /\ Cardinality(s \ {c(s)}) = Cardinality(s) - 1
    BY <1>3, <2>1, SmallerWithout
  <2>. HIDE DEF c
  <2>. QED  BY <2>1, <2>2 DEF Small
<1>4. \A s \in Small(S, n + 1) :
         (IF s = {} THEN 0 ELSE w[c(s)] + g[s \ {c(s)}])
            = IF s = {} THEN 0 ELSE w[c(s)] + f[s \ {c(s)}]
  <2>. HIDE DEF f, c
  <2>. QED  BY <1>2, <1>3
<1>5. Sums(f, w, Small(S, n + 1))
  <2>1. f = [s \in Small(S, n + 1) |-> IF s = {} THEN 0 ELSE w[c(s)] + f[s \ {c(s)}]]
    <3>. DEFINE d(s) == IF s = {} THEN 0 ELSE w[c(s)] + g[s \ {c(s)}]
                e(s) == IF s = {} THEN 0 ELSE w[c(s)] + f[s \ {c(s)}]
                D == Small(S, n + 1)
    <3>1. f = [s \in D |-> d(s)] /\ \A s \in D : d(s) = e(s)
      BY <1>4
    <3>. HIDE DEF f, d, e, D
    <3>2. f = [s \in D |-> e(s)]
      BY <3>1
    <3>. QED  BY <3>2 DEF e, D
  <2>. QED  BY <2>1 DEF Sums
<1>. QED  BY <1>5

LEMMA SumsExist ==
    ASSUME NEW w, NEW S, IsFiniteSet(S)
    PROVE  \E g : Sums(g, w, SUBSET S)
<1>. DEFINE N == {n \in Nat : ~ \E g : Sums(g, w, Small(S, n))}
<1>1. N = {}
  <2>. SUFFICES ASSUME NEW n \in N PROVE FALSE
    OBVIOUS
  <2>1. PICK m \in N : \A k \in N : m <= k
    <3>1. N \in SUBSET Nat
      OBVIOUS
    <3>. HIDE DEF N
    <3>. QED  BY <3>1, Least
  <2>2. CASE m = 0
    <3>1. ASSUME NEW s \in Small(S, 0) PROVE s = {}
      <4>1. s \in SUBSET S /\ Cardinality(s) <= 0
        BY DEF Small
      <4>2. IsFiniteSet(s) /\ Cardinality(s) \in Nat
        BY <4>1, SmallerWithout
      <4>3. Cardinality(s) = 0
        BY <4>1, <4>2
      <4>. QED  BY <4>2, <4>3, FS_EmptySet
    <3>. DEFINE g == [s \in Small(S, 0) |-> IF s = {} THEN 0 ELSE w[Chosen(s)] + w[s]]
    <3>2. Sums(g, w, Small(S, 0))
      <4>1. g = [s \in Small(S, 0) |-> IF s = {} THEN 0 ELSE w[Chosen(s)] + g[s \ {Chosen(s)}]]
        BY <3>1
      <4>. QED  BY <4>1 DEF Sums
    <3>. QED  BY <2>2, <3>2
  <2>3. CASE m # 0
    <3>1. m - 1 \in Nat /\ m - 1 \notin N /\ (m - 1) + 1 = m
      BY <2>1, <2>3
    <3>2. PICK g : Sums(g, w, Small(S, m - 1))
      BY <3>1
    <3>3. \E f : Sums(f, w, Small(S, (m - 1) + 1))
      BY <3>1, <3>2, SumsExtend
    <3>. QED  BY <3>1, <3>3
  <2>. QED  BY <2>2, <2>3
<1>2. Cardinality(S) \in Nat
  BY FS_CardinalityType
<1>3. Small(S, Cardinality(S)) = SUBSET S
  BY FS_Subset DEF Small
<1>4. \A n \in Nat : \E g : Sums(g, w, Small(S, n))
  BY <1>1
<1>5. \E g : Sums(g, w, Small(S, Cardinality(S)))
  BY <1>2, <1>4
<1>. QED  BY <1>3, <1>5

LEMMA SumsUnique ==
    ASSUME NEW w, NEW S, IsFiniteSet(S), NEW g, NEW h,
           NEW U \in SUBSET S, NEW V \in SUBSET S,
           Sums(g, w, SUBSET U), Sums(h, w, SUBSET V)
    PROVE  \A s \in SUBSET (U \cap V) : g[s] = h[s]
<1>. DEFINE T == {s \in SUBSET (U \cap V) : g[s] = h[s]}
<1>1. IsFiniteSet(U \cap V)
  BY FS_Subset
<1>2. ASSUME NEW s \in SUBSET (U \cap V), \A x \in s : s \ {x} \in T
      PROVE  s \in T
  <2>1. SumAt(g, w, s) /\ SumAt(h, w, s)
    <3>1. s \in SUBSET U /\ s \in SUBSET V
      OBVIOUS
    <3>. QED  BY <3>1, SumsAt
  <2>2. s # {} => Chosen(s) \in s
    BY DEF Chosen
  <2>. QED  BY <1>2, <2>1, <2>2 DEF SumAt
<1>3. \A s \in SUBSET (U \cap V) : s \in T
  <2>. HIDE DEF T
  <2>. QED  BY <1>1, <1>2, FiniteInduct
<1>. QED  BY <1>3

\* The total of a set and, for each of its subsets, of the others.
LEMMA TotalIs ==
    ASSUME NEW w, NEW S, IsFiniteSet(S)
    PROVE  /\ S = {} => Total(w, S) = 0
           /\ S # {} => /\ Chosen(S) \in S
                        /\ Total(w, S) = w[Chosen(S)] + Total(w, S \ {Chosen(S)})
<1>. DEFINE g == CHOOSE f : Sums(f, w, SUBSET S)
            U == S \ {Chosen(S)}
            h == CHOOSE f : Sums(f, w, SUBSET U)
<1>1. Sums(g, w, SUBSET S)
  BY SumsExist
<1>2. Sums(h, w, SUBSET U)
  <2>1. IsFiniteSet(U)
    BY FS_Subset
  <2>. HIDE DEF U
  <2>. QED  BY <2>1, SumsExist
<1>3. g[U] = h[U]
  <2>1. S \in SUBSET S /\ U \in SUBSET S /\ U \in SUBSET (S \cap U)
    OBVIOUS
  <2>. HIDE DEF g, h, U
  <2>2. \A s \in SUBSET (S \cap U) : g[s] = h[s]
    BY <1>1, <1>2, <2>1, SumsUnique
  <2>. QED  BY <2>1, <2>2, Zenon
<1>4. SumAt(g, w, S)
  <2>. HIDE DEF g
  <2>. QED  BY <1>1, SumsAt
<1>5. Total(w, S) = g[S] /\ Total(w, U) = h[U]
  BY DEF Total
<1>. HIDE DEF g, h
<1>6. S # {} => Chosen(S) \in S
  BY DEF Chosen
<1>. QED  BY <1>3, <1>4, <1>5, <1>6 DEF SumAt

LEMMA TotalType ==
    ASSUME NEW S, IsFiniteSet(S), NEW w, \A x \in S : w[x] \in Int
    PROVE  \A s \in SUBSET S : Total(w, s) \in Int
<1>. DEFINE T == {s \in SUBSET S : Total(w, s) \in Int}
<1>1. ASSUME NEW s \in SUBSET S, \A x \in s : s \ {x} \in T
      PROVE  s \in T
  <2>1. IsFiniteSet(s)
    BY FS_Subset
  <2>2. CASE s = {}
    <3>1. Total(w, s) = 0
      BY <2>1, <2>2, TotalIs
    <3>. QED  BY <3>1
  <2>3. CASE s # {}
    <3>1. Chosen(s) \in s /\ Total(w, s) = w[Chosen(s)] + Total(w, s \ {Chosen(s)})
      BY <2>1, <2>3, TotalIs
    <3>. QED  BY <1>1, <3>1
  <2>. QED  BY <2>2, <2>3
<1>2. \A s \in SUBSET S : s \in T
  <2>. HIDE DEF T
  <2>. QED  BY <1>1, FiniteInduct
<1>. QED  BY <1>2

\* The sum does not depend on which element is taken first.
LEMMA TakeOut ==
    ASSUME NEW S, IsFiniteSet(S), NEW w, \A x \in S : w[x] \in Int
    PROVE  \A s \in SUBSET S : \A x \in s : Total(w, s) = w[x] + Total(w, s \ {x})
<1>. DEFINE T == {s \in SUBSET S : \A x \in s : Total(w, s) = w[x] + Total(w, s \ {x})}
<1>1. ASSUME NEW s \in SUBSET S, \A x \in s : s \ {x} \in T
      PROVE  s \in T
  <2>. SUFFICES ASSUME NEW x \in s PROVE Total(w, s) = w[x] + Total(w, s \ {x})
    OBVIOUS
  <2>. DEFINE c == Chosen(s)
              u == s \ {x}
              v == s \ {c}
              t == s \ {x, c}
  <2>1. IsFiniteSet(s)
    BY FS_Subset
  <2>2. c \in s /\ Total(w, s) = w[c] + Total(w, v)
    BY <2>1, TotalIs
  <2>3. CASE c = x
    BY <2>2, <2>3
  <2>4. CASE c # x
    <3>1. /\ v \in T /\ x \in v /\ v \ {x} = t
          /\ u \in T /\ c \in u /\ u \ {c} = t
      BY <1>1, <2>2, <2>4
    <3>2. Total(w, v) = w[x] + Total(w, t) /\ Total(w, u) = w[c] + Total(w, t)
      <4>. HIDE DEF u, v, t, c
      <4>. QED  BY <3>1
    <3>3. w[x] \in Int /\ w[c] \in Int /\ Total(w, t) \in Int
      <4>1. t \in SUBSET S /\ x \in S /\ c \in S
        BY <2>2
      <4>. HIDE DEF t, c
      <4>. QED  BY <4>1, TotalType
    <3>. HIDE DEF u, v, t, c
    <3>4. Total(w, s) = w[x] + Total(w, u)
      BY <2>2, <3>2, <3>3
    <3>. QED  BY <3>4 DEF u
  <2>. QED  BY <2>3, <2>4
<1>2. \A s \in SUBSET S : s \in T
  <2>. HIDE DEF T
  <2>. QED  BY <1>1, FiniteInduct
<1>. QED  BY <1>2

LEMMA TotalOfTwo ==
    ASSUME NEW S, IsFiniteSet(S), NEW w, \A x \in S : w[x] \in Int,
           NEW A \in SUBSET S, NEW B \in SUBSET S, A \cap B = {}
    PROVE  Total(w, A \cup B) = Total(w, A) + Total(w, B)
<1>. DEFINE T == {s \in SUBSET B : Total(w, A \cup s) = Total(w, A) + Total(w, s)}
<1>1. ASSUME NEW s \in SUBSET B, \A x \in s : s \ {x} \in T
      PROVE  s \in T
  <2>1. CASE s = {}
    <3>1. A \cup s = A /\ Total(w, s) = 0 /\ Total(w, A) \in Int
      BY <2>1, TotalIs, TotalType, FS_EmptySet
    <3>. QED  BY <3>1
  <2>2. CASE s # {}
    <3>1. PICK x : x \in s
      BY <2>2
    <3>. DEFINE u == s \ {x}
    <3>2. /\ Total(w, s) = w[x] + Total(w, u)
          /\ Total(w, A \cup s) = w[x] + Total(w, (A \cup s) \ {x})
      <4>1. s \in SUBSET S /\ A \cup s \in SUBSET S /\ x \in A \cup s
        BY <3>1
      <4>. QED  BY <3>1, <4>1, TakeOut
    <3>3. (A \cup s) \ {x} = A \cup u
      BY <3>1
    <3>4. Total(w, A \cup u) = Total(w, A) + Total(w, u)
      BY <1>1, <3>1
    <3>5. w[x] \in Int /\ Total(w, A) \in Int /\ Total(w, u) \in Int
      <4>1. u \in SUBSET S /\ x \in S
        BY <3>1
      <4>. HIDE DEF u
      <4>. QED  BY <4>1, TotalType
    <3>. HIDE DEF u
    <3>6. Total(w, A \cup s) = Total(w, A) + Total(w, s)
      <4>1. Total(w, A \cup s) = w[x] + (Total(w, A) + Total(w, u))
        BY <3>2, <3>3, <3>4, Zenon
      <4>2. Total(w, s) = w[x] + Total(w, u)
        BY <3>2
      <4>. QED  BY <3>5, <4>1, <4>2
    <3>. QED  BY <3>6
  <2>. QED  BY <2>1, <2>2
<1>2. \A s \in SUBSET B : s \in T
  <2>1. IsFiniteSet(B)
    BY FS_Subset
  <2>. HIDE DEF T
  <2>. QED  BY <1>1, <2>1, FiniteInduct
<1>. QED  BY <1>2

\* The total depends on the weights of the elements only.
LEMMA SameTotal ==
    ASSUME NEW S, IsFiniteSet(S), NEW v, NEW w, \A x \in S : v[x] = w[x]
    PROVE  \A s \in SUBSET S : Total(v, s) = Total(w, s)
<1>. DEFINE T == {s \in SUBSET S : Total(v, s) = Total(w, s)}
<1>1. ASSUME NEW s \in SUBSET S, \A x \in s : s \ {x} \in T
      PROVE  s \in T
  <2>1. IsFiniteSet(s)
    BY FS_Subset
  <2>2. CASE s = {}
    BY <2>1, <2>2, TotalIs
  <2>3. CASE s # {}
    <3>1. /\ Chosen(s) \in s /\ Total(w, s) = w[Chosen(s)] + Total(w, s \ {Chosen(s)})
          /\ Total(v, s) = v[Chosen(s)] + Total(v, s \ {Chosen(s)})
      BY <2>1, <2>3, TotalIs
    <3>. QED  BY <1>1, <3>1
  <2>. QED  BY <2>2, <2>3
<1>2. \A s \in SUBSET S : s \in T
  <2>. HIDE DEF T
  <2>. QED  BY <1>1, FiniteInduct
<1>. QED  BY <1>2

-----------------------------------------------------------------------------
(* The summed-area table: sums over the cells of rectangles.               *)

\* The cells of rows r1 .. r2 - 1 and columns c1 .. c2 - 1.
Box(r1, c1, r2, c2) == (r1 .. r2 - 1) \X (c1 .. c2 - 1)

\* The sum of the rows before r in the columns before c.
Table(w, r, c) == Total(w, Box(0, 0, r, c))

\* What the weights of m rows of n columns are.
Weighs(w, m, n) == \A x \in Box(0, 0, m, n) : w[x] \in Int

LEMMA BoxType ==
    ASSUME NEW m \in Nat, NEW n \in Nat, NEW w, Weighs(w, m, n),
           NEW r1 \in Nat, NEW c1 \in Nat, NEW r2 \in 0 .. m, NEW c2 \in 0 .. n
    PROVE  /\ IsFiniteSet(Box(0, 0, m, n)) /\ Box(r1, c1, r2, c2) \in SUBSET Box(0, 0, m, n)
           /\ Total(w, Box(r1, c1, r2, c2)) \in Int
<1>1. IsFiniteSet(Box(0, 0, m, n))
  <2>1. IsFiniteSet(0 .. m - 1) /\ IsFiniteSet(0 .. n - 1)
    BY FS_Interval
  <2>. QED  BY <2>1, FS_Product DEF Box
<1>2. Box(r1, c1, r2, c2) \in SUBSET Box(0, 0, m, n)
  <2>1. r1 .. r2 - 1 \subseteq 0 .. m - 1 /\ c1 .. c2 - 1 \subseteq 0 .. n - 1
    OBVIOUS
  <2>. QED  BY <2>1, Zenon DEF Box
<1>3. Total(w, Box(r1, c1, r2, c2)) \in Int
  BY <1>1, <1>2, TotalType DEF Weighs
<1>. QED  BY <1>1, <1>2, <1>3

LEMMA RowSplit ==
    ASSUME NEW m \in Nat, NEW n \in Nat, NEW w, Weighs(w, m, n),
           NEW r1 \in Nat, NEW c1 \in Nat, NEW r2 \in 0 .. m, NEW c2 \in 0 .. n,
           NEW r \in Nat, r1 <= r, r <= r2
    PROVE  Total(w, Box(r1, c1, r2, c2))
              = Total(w, Box(r1, c1, r, c2)) + Total(w, Box(r, c1, r2, c2))
<1>1. r \in 0 .. m
  OBVIOUS
<1>2. /\ IsFiniteSet(Box(0, 0, m, n))
      /\ Box(r1, c1, r, c2) \in SUBSET Box(0, 0, m, n)
      /\ Box(r, c1, r2, c2) \in SUBSET Box(0, 0, m, n)
  BY <1>1, BoxType
<1>3. Box(r1, c1, r2, c2) = Box(r1, c1, r, c2) \cup Box(r, c1, r2, c2)
  <2>1. r1 .. r2 - 1 = (r1 .. r - 1) \cup (r .. r2 - 1)
    OBVIOUS
  <2>. QED  BY <2>1, Zenon DEF Box
<1>4. Box(r1, c1, r, c2) \cap Box(r, c1, r2, c2) = {}
  <2>1. (r1 .. r - 1) \cap (r .. r2 - 1) = {}
    OBVIOUS
  <2>. QED  BY <2>1, Zenon DEF Box
<1>. QED  BY <1>2, <1>3, <1>4, TotalOfTwo DEF Weighs

LEMMA ColumnSplit ==
    ASSUME NEW m \in Nat, NEW n \in Nat, NEW w, Weighs(w, m, n),
           NEW r1 \in Nat, NEW c1 \in Nat, NEW r2 \in 0 .. m, NEW c2 \in 0 .. n,
           NEW c \in Nat, c1 <= c, c <= c2
    PROVE  Total(w, Box(r1, c1, r2, c2))
              = Total(w, Box(r1, c1, r2, c)) + Total(w, Box(r1, c, r2, c2))
<1>1. c \in 0 .. n
  OBVIOUS
<1>2. /\ IsFiniteSet(Box(0, 0, m, n))
      /\ Box(r1, c1, r2, c) \in SUBSET Box(0, 0, m, n)
      /\ Box(r1, c, r2, c2) \in SUBSET Box(0, 0, m, n)
  BY <1>1, BoxType
<1>3. Box(r1, c1, r2, c2) = Box(r1, c1, r2, c) \cup Box(r1, c, r2, c2)
  <2>1. c1 .. c2 - 1 = (c1 .. c - 1) \cup (c .. c2 - 1)
    OBVIOUS
  <2>. QED  BY <2>1, Zenon DEF Box
<1>4. Box(r1, c1, r2, c) \cap Box(r1, c, r2, c2) = {}
  <2>1. (c1 .. c - 1) \cap (c .. c2 - 1) = {}
    OBVIOUS
  <2>. QED  BY <2>1, Zenon DEF Box
<1>. QED  BY <1>2, <1>3, <1>4, TotalOfTwo DEF Weighs

LEMMA EmptyBox ==
    ASSUME NEW w, NEW r1 \in Int, NEW c1 \in Int, NEW r2 \in Int, NEW c2 \in Int,
           r2 <= r1 \/ c2 <= c1
    PROVE  Box(r1, c1, r2, c2) = {} /\ Total(w, Box(r1, c1, r2, c2)) = 0
<1>1. r1 .. r2 - 1 = {} \/ c1 .. c2 - 1 = {}
  OBVIOUS
<1>2. Box(r1, c1, r2, c2) = {}
  BY <1>1, Zenon DEF Box
<1>. QED  BY <1>2, TotalIs, FS_EmptySet

LEMMA OneCell ==
    ASSUME NEW x, NEW w, w[x] \in Int
    PROVE  Total(w, {x}) = w[x]
<1>1. IsFiniteSet({x}) /\ {x} \ {x} = {} /\ x \in {x} /\ {x} \in SUBSET {x}
  BY FS_Singleton
<1>2. Total(w, {}) = 0
  BY TotalIs, FS_EmptySet
<1>3. Total(w, {x}) = w[x] + Total(w, {x} \ {x})
  BY <1>1, TakeOut
<1>. QED  BY <1>1, <1>2, <1>3

\* The four corners of a rectangle give its sum.
LEMMA FourCorners ==
    ASSUME NEW m \in Nat, NEW n \in Nat, NEW w, Weighs(w, m, n),
           NEW r1 \in Nat, NEW c1 \in Nat, NEW r2 \in 0 .. m, NEW c2 \in 0 .. n,
           r1 <= r2, c1 <= c2
    PROVE  Total(w, Box(r1, c1, r2, c2))
              = ((Table(w, r2, c2) - Table(w, r1, c2)) - Table(w, r2, c1)) + Table(w, r1, c1)
<1>. DEFINE A == Total(w, Box(r1, 0, r2, c2))
            B == Total(w, Box(r1, 0, r2, c1))
            X == Total(w, Box(r1, c1, r2, c2))
<1>1. r1 \in 0 .. m /\ c1 \in 0 .. n /\ 0 \in Nat /\ 0 <= r1 /\ 0 <= c1
  OBVIOUS
<1>2. Table(w, r2, c2) = Table(w, r1, c2) + A
  BY <1>1, RowSplit DEF Table
<1>3. Table(w, r2, c1) = Table(w, r1, c1) + B
  BY <1>1, RowSplit DEF Table
<1>4. A = B + X
  BY <1>1, ColumnSplit
<1>5. /\ A \in Int /\ B \in Int /\ X \in Int
      /\ Table(w, r1, c2) \in Int /\ Table(w, r1, c1) \in Int
  BY <1>1, BoxType DEF Table
<1>. HIDE DEF A, B, X
<1>6. X = ((Table(w, r2, c2) - Table(w, r1, c2)) - Table(w, r2, c1)) + Table(w, r1, c1)
  BY <1>2, <1>3, <1>4, <1>5
<1>. QED  BY <1>6 DEF X

\* A row of the table, from the one before and the sums along the row.
LEMMA NextInRow ==
    ASSUME NEW m \in Nat, NEW n \in Nat, NEW w, Weighs(w, m, n),
           NEW r \in 0 .. m - 1, NEW c \in 0 .. n - 1
    PROVE  Total(w, Box(r, 0, r + 1, c + 1)) = Total(w, Box(r, 0, r + 1, c)) + w[<<r, c>>]
<1>1. /\ r \in Nat /\ c \in Nat /\ r + 1 \in 0 .. m /\ c + 1 \in 0 .. n /\ 0 <= c /\ c <= c + 1
      /\ 0 \in Nat
  OBVIOUS
<1>2. Total(w, Box(r, 0, r + 1, c + 1))
        = Total(w, Box(r, 0, r + 1, c)) + Total(w, Box(r, c, r + 1, c + 1))
  BY <1>1, ColumnSplit
<1>3. Box(r, c, r + 1, c + 1) = {<<r, c>>}
  <2>1. r .. (r + 1) - 1 = {r} /\ c .. (c + 1) - 1 = {c}
    OBVIOUS
  <2>2. \A a, b : {a} \X {b} = {<<a, b>>}
    OBVIOUS
  <2>. QED  BY <2>1, <2>2, Zenon DEF Box
<1>4. w[<<r, c>>] \in Int
  <2>1. r \in 0 .. m - 1 /\ c \in 0 .. n - 1
    OBVIOUS
  <2>2. <<r, c>> \in Box(0, 0, m, n)
    BY <2>1, Zenon DEF Box
  <2>. QED  BY <2>2 DEF Weighs
<1>. QED  BY <1>2, <1>3, <1>4, OneCell

-----------------------------------------------------------------------------
(* The rolling image.                                                      *)

Row == [0 .. COLUMNS - 1 -> Int]

\* The cells of the rows t, as weights.
Weights(t) == [x \in Box(0, 0, Len(t), COLUMNS) |-> t[x[1] + 1][x[2]]]

LEMMA ImageSizes ==
    /\ COLUMNS \in Nat \ {0} /\ MAX_ROWS \in Nat
    /\ Calculator!Slots = MAX_ROWS + 1 /\ Calculator!Slots \in Nat \ {0}
BY CalculatorAssumption DEF Calculator!ImageAssumption, Calculator!Slots

LEMMA WeightsWeigh ==
    ASSUME NEW t \in Seq(Row)
    PROVE  /\ Len(t) \in Nat /\ Weighs(Weights(t), Len(t), COLUMNS)
           /\ \A r \in 0 .. Len(t) - 1, c \in 0 .. COLUMNS - 1 :
                 Weights(t)[<<r, c>>] = t[r + 1][c]
<1>1. Len(t) \in Nat
  OBVIOUS
<1>2. ASSUME NEW r \in 0 .. Len(t) - 1, NEW c \in 0 .. COLUMNS - 1
      PROVE  /\ Weights(t)[<<r, c>>] = t[r + 1][c] /\ t[r + 1][c] \in Int
  <2>1. <<r, c>> \in Box(0, 0, Len(t), COLUMNS)
    BY Zenon DEF Box
  <2>2. Weights(t)[<<r, c>>] = t[r + 1][c]
    BY <2>1 DEF Weights
  <2>3. t[r + 1] \in Row
    <3>1. r + 1 \in 1 .. Len(t)
      BY <1>1
    <3>. HIDE DEF Row
    <3>. QED  BY <3>1
  <2>. QED  BY <2>2, <2>3 DEF Row
<1>3. ASSUME NEW x \in Box(0, 0, Len(t), COLUMNS) PROVE Weights(t)[x] \in Int
  <2>1. PICK r \in 0 .. Len(t) - 1, c \in 0 .. COLUMNS - 1 : x = <<r, c>>
    BY DEF Box
  <2>. QED  BY <1>2, <2>1
<1>. QED  BY <1>1, <1>2, <1>3 DEF Weighs

\* One row more does not change the sums over those before.
LEMMA WeightsGrow ==
    ASSUME NEW t \in Seq(Row), NEW f \in Row
    PROVE  /\ Append(t, f) \in Seq(Row) /\ Len(Append(t, f)) = Len(t) + 1
           /\ \A s \in SUBSET Box(0, 0, Len(t), COLUMNS) :
                 Total(Weights(Append(t, f)), s) = Total(Weights(t), s)
<1>. DEFINE u == Append(t, f)
            n == Len(t)
<1>1. u \in Seq(Row) /\ Len(u) = n + 1 /\ n \in Nat /\ \A i \in 1 .. n : u[i] = t[i]
  <2>. HIDE DEF Row
  <2>. QED  OBVIOUS
<1>. HIDE DEF u, n
<1>2. ASSUME NEW r \in 0 .. n - 1, NEW c \in 0 .. COLUMNS - 1
      PROVE  Weights(u)[<<r, c>>] = Weights(t)[<<r, c>>]
  <2>1. r \in 0 .. Len(u) - 1 /\ r + 1 \in 1 .. n
    BY <1>1
  <2>2. Weights(u)[<<r, c>>] = u[r + 1][c]
    <3>. HIDE DEF Row
    <3>. QED  BY <1>1, <2>1, WeightsWeigh, Zenon
  <2>3. Weights(t)[<<r, c>>] = t[r + 1][c]
    <3>. HIDE DEF Row
    <3>. QED  BY WeightsWeigh, Zenon DEF n
  <2>. QED  BY <1>1, <2>1, <2>2, <2>3
<1>3. ASSUME NEW x \in Box(0, 0, n, COLUMNS) PROVE Weights(u)[x] = Weights(t)[x]
  <2>1. PICK r \in 0 .. n - 1, c \in 0 .. COLUMNS - 1 : x = <<r, c>>
    BY DEF Box
  <2>. QED  BY <1>2, <2>1
<1>4. IsFiniteSet(Box(0, 0, n, COLUMNS))
  <2>1. n - 1 \in Int /\ COLUMNS - 1 \in Int /\ 0 \in Int
    BY <1>1, ImageSizes
  <2>2. IsFiniteSet(0 .. n - 1) /\ IsFiniteSet(0 .. COLUMNS - 1)
    BY <2>1, FS_Interval
  <2>. QED  BY <2>2, FS_Product DEF Box
<1>5. \A s \in SUBSET Box(0, 0, n, COLUMNS) : Total(Weights(u), s) = Total(Weights(t), s)
  BY <1>3, <1>4, SameTotal
<1>. QED  BY <1>1, <1>5 DEF u, n

\* std::partial_sum: the sums along a row.
LEMMA PartialSumIs ==
    ASSUME NEW m \in Nat, NEW w, Weighs(w, m, COLUMNS), NEW r \in 0 .. m - 1, NEW row,
           \A c \in 0 .. COLUMNS - 1 : row[c] = w[<<r, c>>]
    PROVE  \A c \in 0 .. COLUMNS - 1 :
              Calculator!PartialSum(row)[c] = Total(w, Box(r, 0, r + 1, c + 1))
<1>. DEFINE C == 0 .. COLUMNS - 1
            g == [c \in C |-> Total(w, Box(r, 0, r + 1, c + 1))]
            Sum(h) == h = [c \in C |-> row[c] + (IF c = 0 THEN 0 ELSE h[c - 1])]
            h == CHOOSE k : Sum(k)
<1>1. ASSUME NEW c \in C
      PROVE  /\ Total(w, Box(r, 0, r + 1, c + 1)) = Total(w, Box(r, 0, r + 1, c)) + row[c]
             /\ row[c] \in Int /\ Total(w, Box(r, 0, r + 1, c)) \in Int
             /\ c = 0 => Total(w, Box(r, 0, r + 1, c)) = 0
             /\ c # 0 => c - 1 \in C /\ (c - 1) + 1 = c
  <2>1. row[c] = w[<<r, c>>] /\ <<r, c>> \in Box(0, 0, m, COLUMNS)
    BY Zenon DEF Box
  <2>2. row[c] \in Int
    BY <2>1 DEF Weighs
  <2>3. Total(w, Box(r, 0, r + 1, c + 1)) = Total(w, Box(r, 0, r + 1, c)) + row[c]
    BY <2>1, ImageSizes, NextInRow
  <2>4. /\ r \in Nat /\ 0 \in Nat /\ r + 1 \in 0 .. m /\ c \in 0 .. COLUMNS
        /\ c \in Int /\ r \in Int /\ 0 \in Int /\ r + 1 \in Int
    BY ImageSizes
  <2>5. Total(w, Box(r, 0, r + 1, c)) \in Int
    BY <2>4, ImageSizes, BoxType
  <2>6. c = 0 => Total(w, Box(r, 0, r + 1, c)) = 0
    <3>1. ASSUME c <= 0 PROVE Total(w, Box(r, 0, r + 1, c)) = 0
      BY <2>4, <3>1, EmptyBox, Zenon
    <3>2. c = 0 => c <= 0
      OBVIOUS
    <3>. QED  BY <3>1, <3>2, Zenon
  <2>7. c # 0 => c - 1 \in C /\ (c - 1) + 1 = c
    BY ImageSizes
  <2>. QED  BY <2>2, <2>3, <2>5, <2>6, <2>7
<1>2. Sum(g)
  <2>1. ASSUME NEW c \in C
        PROVE  g[c] = row[c] + (IF c = 0 THEN 0 ELSE g[c - 1])
    <3>1. g[c] = Total(w, Box(r, 0, r + 1, c)) + row[c]
      BY <1>1
    <3>2. c # 0 => g[c - 1] = Total(w, Box(r, 0, r + 1, c))
      BY <1>1
    <3>. HIDE DEF g, C
    <3>. QED  BY <1>1, <3>1, <3>2
  <2>. QED  BY <2>1
<1>3. Sum(h)
  <2>. HIDE DEF g, Sum
  <2>. QED  BY <1>2
<1>4. Calculator!PartialSum(row) = h
  BY DEF Calculator!PartialSum
<1>. HIDE DEF h
<1>5. ASSUME NEW c \in C
      PROVE  h[c] = row[c] + (IF c = 0 THEN 0 ELSE h[c - 1])
  <2>. DEFINE e(x) == row[x] + (IF x = 0 THEN 0 ELSE h[x - 1])
  <2>1. h = [x \in C |-> e(x)]
    BY <1>3
  <2>2. h[c] = e(c)
    <3>. HIDE DEF e, C
    <3>. QED  BY <2>1
  <2>. QED  BY <2>2
<1>. DEFINE Bad == {c \in C : h[c] # g[c]}
<1>6. Bad = {}
  <2>. SUFFICES ASSUME NEW b \in Bad PROVE FALSE
    OBVIOUS
  <2>1. PICK c \in Bad : \A k \in Bad : c <= k
    <3>1. Bad \in SUBSET Nat
      BY ImageSizes
    <3>. HIDE DEF Bad
    <3>. QED  BY <3>1, Least
  <2>2. c \in C /\ h[c] # g[c]
    OBVIOUS
  <2>3. CASE c = 0
    <3>1. h[c] = row[c] + 0 /\ g[c] = row[c] + 0
      BY <1>2, <1>5, <2>2, <2>3
    <3>. QED  BY <2>2, <3>1
  <2>4. CASE c # 0
    <3>1. c - 1 \in C /\ c - 1 \notin Bad
      BY <1>1, <2>1, <2>2, <2>4
    <3>2. h[c - 1] = g[c - 1]
      BY <3>1
    <3>3. h[c] = row[c] + h[c - 1] /\ g[c] = row[c] + g[c - 1]
      BY <1>2, <1>5, <2>2, <2>4
    <3>. QED  BY <2>2, <3>2, <3>3
  <2>. QED  BY <2>3, <2>4
<1>. QED  BY <1>4, <1>6

\* Two numbers less than m apart have different slots.
LEMMA OtherSlot ==
    ASSUME NEW m \in Nat \ {0}, NEW a \in Nat, NEW b \in Nat, a < b, b - a < m
    PROVE  a % m # b % m
<1>. SUFFICES ASSUME a % m = b % m PROVE FALSE
  OBVIOUS
<1>1. PICK q \in Int, r \in Int : a = m * q + r /\ b % m = r
  <2>1. a = (m * (a \div m)) + (a % m) /\ a \div m \in Int /\ a % m \in Int
    OBVIOUS
  <2>. QED  BY <2>1
<1>2. PICK p \in Int : b = m * p + r
  <2>1. b = (m * (b \div m)) + (b % m) /\ b \div m \in Int
    OBVIOUS
  <2>. QED  BY <1>1, <2>1
<1>. DEFINE d == p - q
<1>3. d \in Int /\ p = q + d
  OBVIOUS
<1>. HIDE DEF d
<1>4. m * d \in Int /\ b - a = m * d
  <2>1. m * q \in Int /\ m * d \in Int /\ m * p = m * q + m * d
    BY <1>3
  <2>. QED  BY <1>1, <1>2, <2>1
<1>5. CASE d >= 1
  <2>1. d - 1 \in Nat /\ d = (d - 1) + 1
    BY <1>3, <1>5
  <2>. DEFINE e == d - 1
  <2>2. e \in Nat /\ d = e + 1
    BY <2>1
  <2>. HIDE DEF e
  <2>3. m * d = m * e + m /\ m * e \in Nat
    BY <2>2
  <2>. QED  BY <1>4, <2>3
<1>6. CASE d <= 0
  <2>1. PICK e \in Nat : e + d = 0
    <3>1. 0 - d \in Nat /\ (0 - d) + d = 0
      BY <1>3, <1>6
    <3>. QED  BY <3>1
  <2>2. m * e + m * d = 0 /\ m * e \in Nat
    <3>1. m * (e + d) = m * e + m * d /\ m * 0 = 0 /\ m * e \in Nat
      BY <1>3
    <3>. QED  BY <2>1, <3>1
  <2>. QED  BY <1>4, <2>2
<1>. QED  BY <1>3, <1>5, <1>6

\* The image img holds the last rows of the table over the rows t.
Holds(img, t) ==
    /\ img \in [data : [0 .. Calculator!Slots - 1 -> Row], num_rows : Nat]
    /\ img.num_rows = Len(t)
    /\ \A r \in 0 .. Len(t) - 1 :
          r >= Len(t) - Calculator!Slots =>
             \A c \in 0 .. COLUMNS - 1 :
                Calculator!GetRow(img, r)[c] = Table(Weights(t), r + 1, c + 1)

LEMMA NewHolds == Holds(Calculator!NewImage, <<>>)
<1>1. Calculator!NewImage \in [data : [0 .. Calculator!Slots - 1 -> Row], num_rows : Nat]
  BY DEF Calculator!NewImage, Calculator!NoRow, Row
<1>2. Calculator!NewImage.num_rows = 0 /\ Len(<<>>) = 0 /\ 0 .. 0 - 1 = {}
  BY DEF Calculator!NewImage
<1>. QED  BY <1>1, <1>2 DEF Holds

LEMMA AddedHolds ==
    ASSUME NEW t \in Seq(Row), NEW img, Holds(img, t), NEW f \in Row
    PROVE  Holds(Calculator!AddRow(img, f), Append(t, f))
<1>. DEFINE n == Len(t)
            u == Append(t, f)
            w == Weights(u)
            last == IF img.num_rows > 0
                      THEN Calculator!GetRow(img, img.num_rows - 1) ELSE Calculator!NoRow
            sums == Calculator!PartialSum(f)
            new == [c \in 0 .. COLUMNS - 1 |-> sums[c] + last[c]]
            add == Calculator!AddRow(img, f)
            K == Calculator!Slots
<1>1. /\ u \in Seq(Row) /\ Len(u) = n + 1 /\ n \in Nat /\ u[n + 1] = f
      /\ \A s \in SUBSET Box(0, 0, n, COLUMNS) : Total(w, s) = Total(Weights(t), s)
  <2>1. n \in Nat /\ u[n + 1] = f
    <3>. HIDE DEF Row
    <3>. QED  OBVIOUS
  <2>. HIDE DEF Row
  <2>. QED  BY <2>1, WeightsGrow
<1>2. /\ COLUMNS \in Nat \ {0} /\ K \in Nat \ {0}
      /\ img.num_rows = n /\ img.data \in [0 .. K - 1 -> Row]
  BY ImageSizes DEF Holds
<1>3. n % K \in 0 .. K - 1
  BY <1>1, <1>2
<1>4. /\ add.num_rows = n + 1
      /\ add.data = [img.data EXCEPT ![n % K] = new]
  BY <1>2 DEF Calculator!AddRow
<1>5. Weighs(w, n + 1, COLUMNS) /\ \A c \in 0 .. COLUMNS - 1 : w[<<n, c>>] = f[c]
  <2>1. n \in 0 .. Len(u) - 1
    BY <1>1
  <2>. HIDE DEF u, n, Row
  <2>. QED  BY <1>1, <2>1, WeightsWeigh
<1>6. ASSUME NEW c \in 0 .. COLUMNS - 1
      PROVE  /\ sums[c] = Total(w, Box(n, 0, n + 1, c + 1)) /\ sums[c] \in Int
             /\ last[c] = Table(w, n, c + 1) /\ last[c] \in Int
             /\ Table(w, n + 1, c + 1) = Table(w, n, c + 1) + Total(w, Box(n, 0, n + 1, c + 1))
  <2>1. /\ n + 1 \in Nat /\ n \in 0 .. (n + 1) - 1 /\ n + 1 \in 0 .. n + 1 /\ n \in 0 .. n + 1
        /\ c + 1 \in 0 .. COLUMNS /\ 0 \in Nat /\ 0 <= n /\ n <= n + 1 /\ COLUMNS \in Nat
        /\ n \in 0 .. n
    BY <1>1, <1>2
  <2>2. sums[c] = Total(w, Box(n, 0, n + 1, c + 1))
    <3>. HIDE DEF n, w
    <3>. QED  BY ZenonT(60), <1>5, <2>1, PartialSumIs
  <2>3. Table(w, n + 1, c + 1) = Table(w, n, c + 1) + Total(w, Box(n, 0, n + 1, c + 1))
    <3>. HIDE DEF n, w
    <3>. QED  BY <1>1, <1>5, <2>1, RowSplit DEF Table
  <2>4. Total(w, Box(n, 0, n + 1, c + 1)) \in Int /\ Table(w, n, c + 1) \in Int
    <3>. HIDE DEF n, w
    <3>. QED  BY <1>1, <1>5, <2>1, BoxType DEF Table
  <2>5. last[c] = Table(w, n, c + 1)
    <3>1. CASE n = 0
      <4>1. last[c] = 0
        BY <1>2, <3>1 DEF Calculator!NoRow
      <4>2. 0 \in Int /\ c + 1 \in Int /\ 0 <= 0
        OBVIOUS
      <4>3. Table(w, 0, c + 1) = 0
        BY <4>2, EmptyBox DEF Table
      <4>. QED  BY <3>1, <4>1, <4>3
    <3>2. CASE n # 0
      <4>1. /\ last = Calculator!GetRow(img, n - 1)
            /\ n - 1 \in 0 .. n - 1 /\ n - 1 >= n - K /\ (n - 1) + 1 = n
        BY <1>1, <1>2, <3>2
      <4>2. last[c] = Table(Weights(t), n, c + 1)
        <5>. HIDE DEF last, K
        <5>. QED  BY <4>1 DEF Holds, K
      <4>3. Box(0, 0, n, c + 1) \in SUBSET Box(0, 0, n, COLUMNS)
        <5>1. Weighs(Weights(t), n, COLUMNS)
          BY WeightsWeigh
        <5>. HIDE DEF n
        <5>. QED  BY <1>1, <2>1, <5>1, BoxType
      <4>. QED  BY <1>1, <4>2, <4>3 DEF Table
    <3>. QED  BY <3>1, <3>2
  <2>. HIDE DEF sums, last, w, n
  <2>. QED  BY <2>2, <2>3, <2>4, <2>5
<1>. HIDE DEF sums, last
<1>7. new \in Row /\ \A c \in 0 .. COLUMNS - 1 : new[c] = Table(w, n + 1, c + 1)
  <2>. HIDE DEF w, n
  <2>1. ASSUME NEW c \in 0 .. COLUMNS - 1
        PROVE  /\ new[c] = sums[c] + last[c] /\ sums[c] + last[c] \in Int
               /\ new[c] = Table(w, n + 1, c + 1)
    BY <1>6
  <2>. QED  BY <2>1 DEF Row
<1>. HIDE DEF new
<1>8. add \in [data : [0 .. K - 1 -> Row], num_rows : Nat]
  <2>1. add = [data |-> add.data, num_rows |-> add.num_rows]
    BY DEF Calculator!AddRow
  <2>. HIDE DEF add, K, n, Row
  <2>2. add.data \in [0 .. K - 1 -> Row] /\ add.num_rows \in Nat
    BY <1>1, <1>2, <1>3, <1>4, <1>7
  <2>. QED  BY <2>1, <2>2
<1>9. ASSUME NEW r \in 0 .. (n + 1) - 1, r >= (n + 1) - K, NEW c \in 0 .. COLUMNS - 1
      PROVE  Calculator!GetRow(add, r)[c] = Table(w, r + 1, c + 1)
  <2>1. Calculator!GetRow(add, r) = add.data[r % K]
    BY DEF Calculator!GetRow
  <2>2. CASE r = n
    <3>1. add.data[n % K] = new
      BY <1>2, <1>3, <1>4
    <3>. HIDE DEF add, w, n
    <3>. QED  BY <1>7, <2>1, <2>2, <3>1
  <2>3. CASE r # n
    <3>1. r \in 0 .. n - 1 /\ r \in Nat /\ r < n /\ n - r < K /\ r >= n - K
      BY <1>1, <1>2, <1>9, <2>3
    <3>2. r % K # n % K
      <4>. HIDE DEF n, K
      <4>. QED  BY <1>1, <1>2, <3>1, OtherSlot
    <3>3. add.data[r % K] = img.data[r % K]
      <4>1. r % K \in 0 .. K - 1
        BY <1>2, <3>1
      <4>. HIDE DEF add, n, K, Row
      <4>. QED  BY <1>2, <1>4, <3>2, <4>1
    <3>4. img.data[r % K][c] = Table(Weights(t), r + 1, c + 1)
      <4>1. Calculator!GetRow(img, r) = img.data[r % K]
        BY DEF Calculator!GetRow
      <4>2. Calculator!GetRow(img, r)[c] = Table(Weights(t), r + 1, c + 1)
        BY <3>1 DEF Holds
      <4>. QED  BY <4>1, <4>2
    <3>5. Box(0, 0, r + 1, c + 1) \in SUBSET Box(0, 0, n, COLUMNS)
      <4>1. Weighs(Weights(t), n, COLUMNS)
        BY WeightsWeigh
      <4>2. r + 1 \in 0 .. n /\ c + 1 \in 0 .. COLUMNS /\ 0 \in Nat /\ COLUMNS \in Nat
        BY <1>1, <1>2, <3>1
      <4>. HIDE DEF n
      <4>. QED  BY <1>1, <4>1, <4>2, BoxType
    <3>. QED  BY <1>1, <2>1, <3>3, <3>4, <3>5 DEF Table
  <2>. QED  BY <2>2, <2>3
<1>. QED  BY <1>1, <1>4, <1>8, <1>9 DEF Holds

\* A corner that was not overwritten is the sum up to it.
LEMMA CornerIs ==
    ASSUME NEW t \in Seq(Row), NEW img, Holds(img, t),
           NEW r \in 0 .. Len(t), NEW c \in 0 .. COLUMNS, Calculator!BoundaryKept(img, r)
    PROVE  Calculator!Corner(img, r, c) = Table(Weights(t), r, c)
<1>. DEFINE n == Len(t)
            K == Calculator!Slots
<1>1. /\ n \in Nat /\ COLUMNS \in Nat \ {0} /\ K \in Nat \ {0} /\ img.num_rows = n
      /\ r \in Nat /\ c \in Nat
  <2>1. n \in Nat
    <3>. HIDE DEF Row
    <3>. QED  OBVIOUS
  <2>. QED  BY <2>1, ImageSizes DEF Holds
<1>2. n > K => r > n - K
  BY <1>1 DEF Calculator!BoundaryKept
<1>3. CASE r = 0 \/ c = 0
  <2>1. Calculator!Corner(img, r, c) = 0
    BY <1>3 DEF Calculator!Corner
  <2>2. r \in Int /\ c \in Int /\ 0 \in Int /\ (r <= 0 \/ c <= 0)
    BY <1>1, <1>3
  <2>3. Table(Weights(t), r, c) = 0
    BY <2>2, EmptyBox DEF Table
  <2>. QED  BY <2>1, <2>3
<1>4. CASE r # 0 /\ c # 0
  <2>1. Calculator!Corner(img, r, c) = Calculator!GetRow(img, r - 1)[c - 1]
    BY <1>4 DEF Calculator!Corner
  <2>2. /\ r - 1 \in 0 .. n - 1 /\ c - 1 \in 0 .. COLUMNS - 1
        /\ (r - 1) + 1 = r /\ (c - 1) + 1 = c
    BY <1>1, <1>4
  <2>3. r - 1 >= n - K
    BY <1>1, <1>2, <2>2
  <2>. HIDE DEF K
  <2>4. Calculator!GetRow(img, r - 1)[c - 1] = Table(Weights(t), (r - 1) + 1, (c - 1) + 1)
    BY <2>2, <2>3 DEF Holds, K
  <2>. QED  BY <2>1, <2>2, <2>4
<1>. QED  BY <1>3, <1>4

\* An area that the assertions allow is the sum of its cells.
LEMMA AreaIs ==
    ASSUME NEW t \in Seq(Row), NEW img, Holds(img, t),
           NEW r1 \in Nat, NEW c1 \in Nat, NEW r2 \in Nat, NEW c2 \in Nat,
           Calculator!AreaAllowed(img, r1, c1, r2, c2)
    PROVE  Calculator!Area(img, r1, c1, r2, c2) = Total(Weights(t), Box(r1, c1, r2, c2))
<1>1. /\ Len(t) \in Nat /\ COLUMNS \in Nat /\ img.num_rows = Len(t)
  BY ImageSizes, WeightsWeigh DEF Holds
<1>2. /\ r1 \in 0 .. Len(t) /\ r2 \in 0 .. Len(t) /\ c1 \in 0 .. COLUMNS /\ c2 \in 0 .. COLUMNS
      /\ Calculator!BoundaryKept(img, r1) /\ Calculator!BoundaryKept(img, r2)
      /\ (r1 # r2 /\ c1 # c2) => (r1 < r2 /\ c1 < c2)
  BY <1>1 DEF Calculator!AreaAllowed, Calculator!BoundaryKept
<1>3. CASE r1 = r2 \/ c1 = c2
  <2>1. Calculator!Area(img, r1, c1, r2, c2) = 0
    BY <1>3 DEF Calculator!Area
  <2>2. /\ r1 \in Int /\ r2 \in Int /\ c1 \in Int /\ c2 \in Int
        /\ (r2 <= r1 \/ c2 <= c1)
    BY <1>3
  <2>3. Total(Weights(t), Box(r1, c1, r2, c2)) = 0
    BY <2>2, EmptyBox
  <2>. QED  BY <2>1, <2>3
<1>4. CASE r1 # r2 /\ c1 # c2
  <2>1. r1 <= r2 /\ c1 <= c2
    BY <1>2, <1>4
  <2>2. Calculator!Area(img, r1, c1, r2, c2)
           = ((Calculator!Corner(img, r2, c2) - Calculator!Corner(img, r1, c2))
                - Calculator!Corner(img, r2, c1)) + Calculator!Corner(img, r1, c1)
    BY <1>4 DEF Calculator!Area
  <2>3. /\ Calculator!Corner(img, r2, c2) = Table(Weights(t), r2, c2)
        /\ Calculator!Corner(img, r1, c2) = Table(Weights(t), r1, c2)
        /\ Calculator!Corner(img, r2, c1) = Table(Weights(t), r2, c1)
        /\ Calculator!Corner(img, r1, c1) = Table(Weights(t), r1, c1)
    <3>. HIDE DEF Row
    <3>. QED  BY <1>2, CornerIs
  <2>4. Weighs(Weights(t), Len(t), COLUMNS)
    BY WeightsWeigh
  <2>5. Total(Weights(t), Box(r1, c1, r2, c2))
           = ((Table(Weights(t), r2, c2) - Table(Weights(t), r1, c2))
                - Table(Weights(t), r2, c1)) + Table(Weights(t), r1, c1)
    BY <1>1, <1>2, <2>1, <2>4, FourCorners
  <2>. QED  BY <2>2, <2>3, <2>5
<1>. QED  BY <1>3, <1>4

-----------------------------------------------------------------------------
(* MapThenSumSet, by which the calculator and its properties sum.          *)

LEMMA SumsAreTotal ==
    ASSUME NEW U, IsFiniteSet(U), NEW w, NEW k, Sums(k, w, SUBSET U)
    PROVE  k[U] = Total(w, U)
<1>. DEFINE h == CHOOSE g : Sums(g, w, SUBSET U)
<1>1. Sums(h, w, SUBSET U)
  BY SumsExist
<1>2. U \in SUBSET U /\ U \in SUBSET (U \cap U)
  OBVIOUS
<1>3. k[U] = h[U]
  <2>. HIDE DEF h
  <2>1. \A s \in SUBSET (U \cap U) : k[s] = h[s]
    BY <1>1, <1>2, SumsUnique
  <2>. QED  BY <1>2, <2>1, Zenon
<1>. QED  BY <1>3 DEF Total

\* The sum of the cells of some rectangles.
LEMMA CellSumIs ==
    ASSUME NEW R, NEW U, U = UNION {Calculator!Cells(r) : r \in R}, IsFiniteSet(U),
           NEW w, \A x \in U : w[x] = rows[x[1] + 1][x[2]]
    PROVE  Calculator!CellSum(R) = Total(w, U)
<1>. DEFINE v(x) == rows[x[1] + 1][x[2]]
            SumsV(g) ==
               g = [s \in SUBSET U |->
                      IF s = {} THEN 0 ELSE v(Chosen(s)) + g[s \ {Chosen(s)}]]
            k == CHOOSE g : SumsV(g)
<1>1. \A x \in U : v(x) = w[x]
  OBVIOUS
<1>2. Calculator!CellSum(R) = k[U]
  BY DEF Calculator!CellSum, Calculator!MapThenSumSet, Calculator!MapThenFoldSet, Chosen
<1>. HIDE DEF v
<1>3. ASSUME NEW g PROVE SumsV(g) <=> Sums(g, w, SUBSET U)
  <2>. DEFINE d(s) == IF s = {} THEN 0 ELSE v(Chosen(s)) + g[s \ {Chosen(s)}]
              e(s) == IF s = {} THEN 0 ELSE w[Chosen(s)] + g[s \ {Chosen(s)}]
  <2>1. ASSUME NEW s \in SUBSET U PROVE d(s) = e(s)
    <3>1. s # {} => Chosen(s) \in U
      BY DEF Chosen
    <3>. QED  BY <1>1, <3>1
  <2>2. SumsV(g) <=> g = [s \in SUBSET U |-> d(s)]
    OBVIOUS
  <2>3. Sums(g, w, SUBSET U) <=> g = [s \in SUBSET U |-> e(s)]
    BY DEF Sums
  <2>. HIDE DEF SumsV, d, e
  <2>4. [s \in SUBSET U |-> d(s)] = [s \in SUBSET U |-> e(s)]
    BY <2>1
  <2>. QED  BY <2>2, <2>3, <2>4
<1>4. \E g : Sums(g, w, SUBSET U)
  BY SumsExist
<1>5. SumsV(k)
  <2>. HIDE DEF SumsV
  <2>. QED  BY <1>3, <1>4
<1>6. Sums(k, w, SUBSET U)
  <2>. HIDE DEF SumsV, k
  <2>. QED  BY <1>3, <1>5
<1>7. k[U] = Total(w, U)
  <2>. HIDE DEF k
  <2>. QED  BY <1>6, SumsAreTotal
<1>. QED  BY <1>2, <1>7

\* The sum of the areas of some rectangles.
LEMMA SumAreasIs ==
    ASSUME NEW img, NEW U, IsFiniteSet(U),
           NEW w, \A r \in U : w[r] = Calculator!Area(img, r[1], r[2], r[3], r[4])
    PROVE  Calculator!SumAreas(img, U) = Total(w, U)
<1>. DEFINE v(x) == Calculator!Area(img, x[1], x[2], x[3], x[4])
            SumsV(g) ==
               g = [s \in SUBSET U |->
                      IF s = {} THEN 0 ELSE v(Chosen(s)) + g[s \ {Chosen(s)}]]
            k == CHOOSE g : SumsV(g)
<1>1. \A x \in U : v(x) = w[x]
  OBVIOUS
<1>2. Calculator!SumAreas(img, U) = k[U]
  BY DEF Calculator!SumAreas, Calculator!MapThenSumSet, Calculator!MapThenFoldSet, Chosen
<1>. HIDE DEF v
<1>3. ASSUME NEW g PROVE SumsV(g) <=> Sums(g, w, SUBSET U)
  <2>. DEFINE d(s) == IF s = {} THEN 0 ELSE v(Chosen(s)) + g[s \ {Chosen(s)}]
              e(s) == IF s = {} THEN 0 ELSE w[Chosen(s)] + g[s \ {Chosen(s)}]
  <2>1. ASSUME NEW s \in SUBSET U PROVE d(s) = e(s)
    <3>1. s # {} => Chosen(s) \in U
      BY DEF Chosen
    <3>. QED  BY <1>1, <3>1
  <2>2. SumsV(g) <=> g = [s \in SUBSET U |-> d(s)]
    OBVIOUS
  <2>3. Sums(g, w, SUBSET U) <=> g = [s \in SUBSET U |-> e(s)]
    BY DEF Sums
  <2>. HIDE DEF SumsV, d, e
  <2>4. [s \in SUBSET U |-> d(s)] = [s \in SUBSET U |-> e(s)]
    BY <2>1
  <2>. QED  BY <2>2, <2>3, <2>4
<1>4. \E g : Sums(g, w, SUBSET U)
  BY SumsExist
<1>5. SumsV(k)
  <2>. HIDE DEF SumsV
  <2>. QED  BY <1>3, <1>4
<1>6. Sums(k, w, SUBSET U)
  <2>. HIDE DEF SumsV, k
  <2>. QED  BY <1>3, <1>5
<1>7. k[U] = Total(w, U)
  <2>. HIDE DEF k
  <2>. QED  BY <1>6, SumsAreTotal
<1>. QED  BY <1>2, <1>7

-----------------------------------------------------------------------------
(* The image of the pipeline.                                              *)

\* The image holds the table over the rows of the stream.
ImageKept == rows \in Seq(Row) /\ Holds(image, rows)

LEMMA InitImage == PipelineInit => ImageKept
<1>. SUFFICES ASSUME PipelineInit PROVE ImageKept
  OBVIOUS
<1>1. rows = <<>> /\ image = Calculator!NewImage
  BY DEF PipelineInit, Calculator!Init
<1>. HIDE DEF Row
<1>2. rows \in Seq(Row)
  BY <1>1
<1>. QED  BY <1>1, <1>2, NewHolds DEF ImageKept

\* What comes of a sum is a row.
LEMMA RowOfSum ==
    ASSUME results \in Nat, consumed \in Nat, base \in 0 .. consumed, LENGTH \in Nat,
           consumed < MaxStream, consumed' = consumed + 1,
           results' \in {results, results + 1}, results' > results,
           results' = results + 1 =>
              /\ consumed' - LENGTH >= base
              /\ result' = [j \in 1 .. LENGTH |-> consumed' - LENGTH + j]
    PROVE  Weighted(result') \in Row
<1>. DEFINE v == consumed' - LENGTH
<1>1. v \in 0 .. MaxStream
  BY RowAssumption
<1>2. result' = [j \in 1 .. LENGTH |-> v + j]
  OBVIOUS
<1>. HIDE DEF v
<1>3. Weighted([j \in 1 .. LENGTH |-> v + j]) \in [0 .. COLUMNS - 1 -> Int]
  BY <1>1, RowAssumption
<1>. QED  BY <1>2, <1>3, Zenon DEF Row

\* Each step, given what SumsAreWindows says of the sums.
LEMMA StepImage ==
    ASSUME IInv, ImageKept, [PipelineNext]_pipeline,
           results' = results + 1 =>
              /\ consumed' - LENGTH >= base
              /\ result' = [j \in 1 .. LENGTH |-> consumed' - LENGTH + j]
    PROVE  ImageKept'
<1>1. CASE Start
  <2>1. rows' = <<>> /\ image' = Calculator!NewImage
    BY <1>1 DEF Start, Calculator!Reset
  <2>. HIDE DEF Row
  <2>2. rows' \in Seq(Row)
    BY <2>1
  <2>3. Holds(Calculator!NewImage, <<>>)
    BY NewHolds
  <2>4. Holds(image', rows')
    BY <2>1, <2>3, Zenon
  <2>. QED  BY <2>2, <2>4, Zenon DEF ImageKept, Holds
<1>2. CASE ConsumeVector /\ results' > results
  <2>1. /\ results \in Nat /\ consumed \in Nat /\ base \in 0 .. consumed
        /\ LENGTH \in Nat \ {0} /\ consumed < MaxStream /\ consumed' = consumed + 1
        /\ results' \in {results, results + 1}
    BY <1>2, FilterAssumption DEF IInv, TypeOK, ConsumeVector, Consume
  <2>. DEFINE f == Weighted(result')
  <2>2. f \in Row
    BY <1>2, <2>1, RowOfSum
  <2>3. /\ image' = Calculator!AddRow(image, f)
        /\ rows' = Append(rows, f)
    BY <1>2 DEF ConsumeVector, Calculator!Consume
  <2>. HIDE DEF f, Row
  <2>4. rows' \in Seq(Row)
    BY <2>2, <2>3 DEF ImageKept
  <2>5. Holds(Calculator!AddRow(image, f), Append(rows, f))
    BY <2>2, AddedHolds DEF ImageKept
  <2>6. Holds(image', rows')
    BY <2>3, <2>5, Zenon
  <2>. QED  BY <2>4, <2>6 DEF ImageKept
<1>3. CASE \/ ConsumeVector /\ ~ (results' > results)
           \/ ClearFingerprint \/ UNCHANGED pipeline
  <2>1. rows' = rows /\ image' = image
    BY <1>3 DEF ConsumeVector, ClearFingerprint, Calculator!ClearFingerprint, pipeline,
                calculator
  <2>. QED  BY <2>1 DEF ImageKept
<1>. QED  BY <1>1, <1>2, <1>3 DEF PipelineNext

THEOREM ImageInvariance == PipelineSpec => []ImageKept
<1>. DEFINE SumIsWindow ==
        results' = results + 1 =>
            /\ consumed' - LENGTH >= base
            /\ result' = [j \in 1 .. LENGTH |-> consumed' - LENGTH + j]
<1>1. PipelineSpec => []IInv
  BY PipelineIsFilter, Invariance, PTL
<1>2. PipelineSpec => [][SumIsWindow]_vars
  BY PipelineIsFilter, SumsAreWindows, PTL DEF EachSumIsLastWindow
<1>3. ASSUME IInv, IInv', ImageKept, [PipelineNext]_pipeline, [SumIsWindow]_vars
      PROVE  ImageKept'
  <2>1. SumIsWindow
    BY <1>3 DEF vars, IInv, TypeOK
  <2>. QED  BY <1>3, <2>1, StepImage
<1>. QED  BY <1>1, <1>2, <1>3, InitImage, PTL DEF PipelineSpec

\* The sum of the cells of rectangles that lie within the rows.
LEMMA CellsWeighed ==
    ASSUME rows \in Seq(Row), NEW R, NEW U, U = UNION {Calculator!Cells(r) : r \in R},
           U \subseteq Box(0, 0, Len(rows), COLUMNS)
    PROVE  Calculator!CellSum(R) = Total(Weights(rows), U)
<1>1. IsFiniteSet(Box(0, 0, Len(rows), COLUMNS))
  <2>1. Weighs(Weights(rows), Len(rows), COLUMNS) /\ Len(rows) \in Nat
    BY WeightsWeigh
  <2>2. 0 \in Nat /\ 0 \in 0 .. Len(rows) /\ 0 \in 0 .. COLUMNS
    BY <2>1, ImageSizes
  <2>. QED  BY <2>1, <2>2, ImageSizes, BoxType
<1>2. IsFiniteSet(U)
  BY <1>1, FS_Subset
<1>3. \A x \in U : Weights(rows)[x] = rows[x[1] + 1][x[2]]
  BY DEF Weights
<1>. QED  BY <1>2, <1>3, CellSumIs

\* Between its assertions, Area gives the sum of the cells that it is asked
\* for, as long as both of its boundaries are in the image, however many rows
\* were overwritten (rolling_integral_image.h, Area).
THEOREM AreasAreSums == PipelineSpec => []AreaIsSum
<1>1. ASSUME ImageKept PROVE AreaIsSum
  <2>. SUFFICES ASSUME NEW r1 \in 0 .. image.num_rows, NEW r2 \in 0 .. image.num_rows,
                       NEW c1 \in 0 .. COLUMNS, NEW c2 \in 0 .. COLUMNS,
                       Calculator!AreaAllowed(image, r1, c1, r2, c2)
                PROVE  Calculator!Area(image, r1, c1, r2, c2)
                          = Calculator!CellSum({<<r1, c1, r2, c2>>})
    BY DEF AreaIsSum, Calculator!AreaIsSum
  <2>1. /\ rows \in Seq(Row) /\ Holds(image, rows) /\ image.num_rows = Len(rows)
        /\ Len(rows) \in Nat /\ COLUMNS \in Nat
    BY <1>1, ImageSizes, WeightsWeigh DEF ImageKept, Holds
  <2>2. /\ r1 \in Nat /\ r2 \in Nat /\ c1 \in Nat /\ c2 \in Nat
        /\ r2 \in 0 .. Len(rows) /\ c2 \in 0 .. COLUMNS
    BY <2>1
  <2>3. Calculator!Area(image, r1, c1, r2, c2)
           = Total(Weights(rows), Box(r1, c1, r2, c2))
    BY <2>1, <2>2, AreaIs
  <2>4. Box(r1, c1, r2, c2)
           = UNION {Calculator!Cells(r) : r \in {<<r1, c1, r2, c2>>}}
    BY DEF Box, Calculator!Cells
  <2>5. Box(r1, c1, r2, c2) \in SUBSET Box(0, 0, Len(rows), COLUMNS)
    <3>1. Weighs(Weights(rows), Len(rows), COLUMNS)
      BY <2>1, WeightsWeigh
    <3>. QED  BY <2>1, <2>2, <3>1, BoxType
  <2>6. Calculator!CellSum({<<r1, c1, r2, c2>>})
           = Total(Weights(rows), Box(r1, c1, r2, c2))
    <3>. HIDE DEF Row
    <3>. QED  BY <2>1, <2>4, <2>5, CellsWeighed
  <2>. QED  BY <2>3, <2>6
<1>. QED  BY <1>1, ImageInvariance, PTL

-----------------------------------------------------------------------------
(* The items.                                                              *)

CellsOf(R) == UNION {Calculator!Cells(r) : r \in R}

\* One rectangle, or two of which one ends before the other begins.
OneOrTwo(P) == \E a, b : P = {a, b} /\ (a = b \/ a[3] <= b[1] \/ a[4] <= b[2])

\* A part of a filter is empty, one rectangle, or two that do not overlap.
LEMMA FewRectangles ==
    ASSUME NEW type \in 0 .. 5, NEW x \in Nat, NEW y \in Nat, NEW w \in Nat, NEW h \in Nat,
           NEW p \in {1, 2}, Calculator!Rectangles(type, x, y, w, h)[p] # {}
    PROVE  OneOrTwo(Calculator!Rectangles(type, x, y, w, h)[p])
<1>. DEFINE w2 == w \div 2
            h2 == h \div 2
            w3 == w \div 3
            h3 == h \div 3
            R == Calculator!Rectangles(type, x, y, w, h)
            P == R[p]
<1>1. /\ w2 \in Nat /\ w2 <= w /\ w3 \in Nat /\ 2 * w3 <= w
      /\ h2 \in Nat /\ h2 <= h /\ h3 \in Nat /\ 2 * h3 <= h
  BY Halves
<1>2. /\ type = 0 => R = << {<<x, y, x + w, y + h>>}, {} >>
      /\ type = 1 => R = << {<<x, y + h2, x + w, y + h>>}, {<<x, y, x + w, y + h2>>} >>
      /\ type = 2 => R = << {<<x + w2, y, x + w, y + h>>}, {<<x, y, x + w2, y + h>>} >>
      /\ type = 3 =>
            R = << {<<x, y + h2, x + w2, y + h>>, <<x + w2, y, x + w, y + h2>>},
                   {<<x, y, x + w2, y + h2>>, <<x + w2, y + h2, x + w, y + h>>} >>
      /\ type = 4 =>
            R = << {<<x, y + h3, x + w, y + 2 * h3>>},
                   {<<x, y, x + w, y + h3>>, <<x, y + 2 * h3, x + w, y + h>>} >>
      /\ type = 5 =>
            R = << {<<x + w3, y, x + 2 * w3, y + h>>},
                   {<<x, y, x + w3, y + h>>, <<x + 2 * w3, y, x + w, y + h>>} >>
  BY DEF Calculator!Rectangles, Calculator!Third
<1>3. P = R[p] /\ P # {}
  OBVIOUS
<1>. SUFFICES OneOrTwo(P)
  OBVIOUS
<1>. HIDE DEF w2, h2, w3, h3, P, R
<1>4. CASE type \in {0, 1, 2}
  <2>1. \E a : P = {a}
    BY <1>2, <1>3, <1>4
  <2>. QED  BY <2>1 DEF OneOrTwo
<1>5. CASE type \in {3, 4, 5} /\ p = 1
  <2>1. CASE type = 3
    <3>. DEFINE a == <<x, y + h2, x + w2, y + h>>
                b == <<x + w2, y, x + w, y + h2>>
    <3>1. P = {a, b} /\ a[3] <= b[1]
      BY <1>1, <1>2, <1>3, <1>5, <2>1
    <3>. HIDE DEF a, b
    <3>. QED  BY <3>1 DEF OneOrTwo
  <2>2. CASE type # 3
    <3>1. \/ P = {<<x, y + h3, x + w, y + 2 * h3>>}
          \/ P = {<<x + w3, y, x + 2 * w3, y + h>>}
      <4>1. CASE type = 4
        BY <1>2, <1>3, <1>5, <4>1
      <4>2. CASE type = 5
        BY <1>2, <1>3, <1>5, <4>2
      <4>. QED  BY <1>5, <2>2, <4>1, <4>2
    <3>2. \E a : P = {a}
      BY <3>1
    <3>. QED  BY <3>2 DEF OneOrTwo
  <2>. QED  BY <2>1, <2>2
<1>6. CASE type = 3 /\ p = 2
  <2>. DEFINE a == <<x, y, x + w2, y + h2>>
              b == <<x + w2, y + h2, x + w, y + h>>
  <2>1. P = {a, b} /\ a[3] <= b[1]
    BY <1>1, <1>2, <1>3, <1>6
  <2>. HIDE DEF a, b
  <2>. QED  BY <2>1 DEF OneOrTwo
<1>7. CASE type = 4 /\ p = 2
  <2>. DEFINE a == <<x, y, x + w, y + h3>>
              b == <<x, y + 2 * h3, x + w, y + h>>
  <2>1. P = {a, b} /\ a[4] <= b[2]
    BY <1>1, <1>2, <1>3, <1>7
  <2>. HIDE DEF a, b
  <2>. QED  BY <2>1 DEF OneOrTwo
<1>8. CASE type = 5 /\ p = 2
  <2>. DEFINE a == <<x, y, x + w3, y + h>>
              b == <<x + 2 * w3, y, x + w, y + h>>
  <2>1. P = {a, b} /\ a[3] <= b[1]
    BY <1>1, <1>2, <1>3, <1>8
  <2>. HIDE DEF a, b
  <2>. QED  BY <2>1 DEF OneOrTwo
<1>. QED  BY <1>4, <1>5, <1>6, <1>7, <1>8

LEMMA FewParts ==
    ASSUME NEW i \in DOMAIN Classifiers, NEW x \in Nat, NEW p \in {1, 2}
    PROVE  Calculator!Parts(i, x)[p] # {} => OneOrTwo(Calculator!Parts(i, x)[p])
<1>1. /\ Classifiers[i].type \in 0 .. 5 /\ Classifiers[i].width \in Nat
      /\ Classifiers[i].y \in Nat /\ Classifiers[i].height \in Nat
  BY CalculatorAssumption DEF Calculator!ImageAssumption, Calculator!ClassifiersAssumption
<1>. QED  BY <1>1, FewRectangles DEF Calculator!Parts

LEMMA Apart ==
    ASSUME NEW a, NEW b,
           a[1] \in Nat, a[2] \in Nat, a[3] \in Nat, a[4] \in Nat,
           b[1] \in Nat, b[2] \in Nat, b[3] \in Nat, b[4] \in Nat,
           a[3] <= b[1] \/ a[4] <= b[2]
    PROVE  Calculator!Cells(a) \cap Calculator!Cells(b) = {}
<1>1. \/ (a[1] .. a[3] - 1) \cap (b[1] .. b[3] - 1) = {}
      \/ (a[2] .. a[4] - 1) \cap (b[2] .. b[4] - 1) = {}
  OBVIOUS
<1>. QED  BY <1>1, Zenon DEF Calculator!Cells

\* The rectangles of a classifier, where its filter is placed on rows of the
\* stream.
LEMMA PartsWithin ==
    ASSUME NEW i \in DOMAIN Classifiers, NEW x \in Nat, NEW p \in {1, 2},
           NEW n \in Nat, x + Width(i) <= n
    PROVE  /\ \A r \in Calculator!Parts(i, x)[p] :
                 /\ Within(r, x, Classifiers[i].y, Classifiers[i].width,
                           Classifiers[i].height)
                 /\ r[1] \in Nat /\ r[2] \in Nat /\ r[3] \in 0 .. n /\ r[4] \in 0 .. COLUMNS
           /\ CellsOf(Calculator!Parts(i, x)[p]) \subseteq Box(0, 0, n, COLUMNS)
<1>1. /\ Classifiers[i].type \in 0 .. 5 /\ Classifiers[i].width \in Nat
      /\ Classifiers[i].y \in Nat /\ Classifiers[i].height \in Nat
      /\ Classifiers[i].y + Classifiers[i].height <= COLUMNS
      /\ COLUMNS \in Nat
  BY CalculatorAssumption DEF Calculator!ImageAssumption, Calculator!ClassifiersAssumption
<1>2. ASSUME NEW r \in Calculator!Parts(i, x)[p]
      PROVE  /\ Within(r, x, Classifiers[i].y, Classifiers[i].width, Classifiers[i].height)
             /\ r[1] \in Nat /\ r[2] \in Nat /\ r[3] \in 0 .. n /\ r[4] \in 0 .. COLUMNS
             /\ Calculator!Cells(r) \subseteq Box(0, 0, n, COLUMNS)
  <2>1. Within(r, x, Classifiers[i].y, Classifiers[i].width, Classifiers[i].height)
    BY <1>1, FilterStaysWithin DEF Calculator!Parts
  <2>2. r[1] \in Nat /\ r[2] \in Nat /\ r[3] \in 0 .. n /\ r[4] \in 0 .. COLUMNS
    BY <1>1, <2>1 DEF Within, Width
  <2>3. /\ (r[1] .. r[3] - 1) \subseteq (0 .. n - 1)
        /\ (r[2] .. r[4] - 1) \subseteq (0 .. COLUMNS - 1)
    BY <1>1, <2>2
  <2>4. Calculator!Cells(r) \subseteq Box(0, 0, n, COLUMNS)
    BY <2>3, Zenon DEF Box, Calculator!Cells
  <2>. QED  BY <2>1, <2>2, <2>4
<1>3. CellsOf(Calculator!Parts(i, x)[p]) \subseteq Box(0, 0, n, COLUMNS)
  BY <1>2, Zenon DEF CellsOf
<1>. QED  BY <1>2, <1>3

LEMMA TotalOfPair ==
    ASSUME NEW w, NEW a, NEW b, a # b, w[a] \in Int, w[b] \in Int
    PROVE  Total(w, {a, b}) = w[a] + w[b]
<1>1. IsFiniteSet({a} \cup {b})
  <2>1. IsFiniteSet({a}) /\ IsFiniteSet({b})
    BY FS_Singleton
  <2>. QED  BY <2>1, FS_Union
<1>2. {a} \cup {b} = {a, b} /\ {a, b} \ {a} = {b} /\ \A x \in {a, b} : w[x] \in Int
  OBVIOUS
<1>3. Total(w, {a, b}) = w[a] + Total(w, {a, b} \ {a})
  <2>. DEFINE S == {a, b}
  <2>1. IsFiniteSet(S) /\ S \in SUBSET S /\ a \in S /\ \A x \in S : w[x] \in Int
    BY <1>1, <1>2
  <2>. HIDE DEF S
  <2>2. Total(w, S) = w[a] + Total(w, S \ {a})
    BY <2>1, TakeOut
  <2>. QED  BY <2>2 DEF S
<1>. QED  BY <1>2, <1>3, OneCell

\* Sums over the cells of some rows.
LEMMA RowTotals ==
    ASSUME NEW t \in Seq(Row)
    PROVE  LET All == Box(0, 0, Len(t), COLUMNS)
           IN /\ \A r1, c1 \in Nat, r2 \in 0 .. Len(t), c2 \in 0 .. COLUMNS :
                    /\ Total(Weights(t), Box(r1, c1, r2, c2)) \in Int
                    /\ Box(r1, c1, r2, c2) \in SUBSET All
              /\ \A A, B \in SUBSET All : A \cap B = {} =>
                    Total(Weights(t), A \cup B) = Total(Weights(t), A) + Total(Weights(t), B)
<1>. DEFINE All == Box(0, 0, Len(t), COLUMNS)
            w == Weights(t)
<1>1. Weighs(w, Len(t), COLUMNS) /\ Len(t) \in Nat /\ COLUMNS \in Nat
  BY WeightsWeigh, ImageSizes
<1>2. IsFiniteSet(All) /\ \A x \in All : w[x] \in Int
  <2>1. 0 \in Nat /\ 0 \in 0 .. Len(t) /\ 0 \in 0 .. COLUMNS
    BY <1>1
  <2>. QED  BY <1>1, <2>1, BoxType DEF Weighs
<1>. HIDE DEF w
<1>3. ASSUME NEW r1 \in Nat, NEW c1 \in Nat, NEW r2 \in 0 .. Len(t), NEW c2 \in 0 .. COLUMNS
      PROVE  Total(w, Box(r1, c1, r2, c2)) \in Int /\ Box(r1, c1, r2, c2) \in SUBSET All
  BY <1>1, BoxType
<1>4. ASSUME NEW A \in SUBSET All, NEW B \in SUBSET All, A \cap B = {}
      PROVE  Total(w, A \cup B) = Total(w, A) + Total(w, B)
  <2>. HIDE DEF All
  <2>. QED  BY <1>2, <1>4, TotalOfTwo
<1>. QED  BY <1>3, <1>4 DEF w

\* The areas of a part of a filter add up to the sum of its cells.
LEMMA PartSum ==
    ASSUME NEW t \in Seq(Row), NEW img, Holds(img, t), NEW P,
           P # {} => OneOrTwo(P),
           \A r \in P : /\ r[1] \in Nat /\ r[2] \in Nat /\ r[3] \in 0 .. Len(t)
                        /\ r[4] \in 0 .. COLUMNS
                        /\ Calculator!AreaAllowed(img, r[1], r[2], r[3], r[4])
    PROVE  Calculator!SumAreas(img, P) = Total(Weights(t), CellsOf(P))
<1>. DEFINE w == Weights(t)
            area == [r \in P |-> Calculator!Area(img, r[1], r[2], r[3], r[4])]
            All == Box(0, 0, Len(t), COLUMNS)
<1>1. Len(t) \in Nat /\ COLUMNS \in Nat
  BY WeightsWeigh, ImageSizes
<1>2. IsFiniteSet(P)
  <2>1. CASE P = {}
    BY <2>1, FS_EmptySet
  <2>2. CASE P # {}
    <3>1. PICK a, b \in P : P = {a, b}
      BY <2>2 DEF OneOrTwo
    <3>2. P = {a} \cup {b}
      BY <3>1
    <3>3. IsFiniteSet({a}) /\ IsFiniteSet({b})
      BY FS_Singleton
    <3>4. IsFiniteSet({a} \cup {b})
      BY <3>3, FS_Union
    <3>. QED  BY <3>2, <3>4, Zenon
  <2>. QED  BY <2>1, <2>2
<1>3. Calculator!SumAreas(img, P) = Total(area, P)
  <2>1. \A r \in P : area[r] = Calculator!Area(img, r[1], r[2], r[3], r[4])
    OBVIOUS
  <2>. HIDE DEF area
  <2>. QED  BY <1>2, <2>1, SumAreasIs
<1>4. ASSUME NEW r \in P
      PROVE  /\ area[r] = Total(w, Calculator!Cells(r)) /\ area[r] \in Int
             /\ Calculator!Cells(r) \in SUBSET All
  <2>1. Calculator!Cells(r) = Box(r[1], r[2], r[3], r[4])
    BY DEF Calculator!Cells, Box
  <2>2. area[r] = Total(w, Box(r[1], r[2], r[3], r[4]))
    <3>1. r[1] \in Nat /\ r[2] \in Nat /\ r[3] \in Nat /\ r[4] \in Nat
      BY <1>1
    <3>2. area[r] = Calculator!Area(img, r[1], r[2], r[3], r[4])
      OBVIOUS
    <3>. HIDE DEF area, Row
    <3>. QED  BY <3>1, <3>2, AreaIs
  <2>3. /\ Total(w, Box(r[1], r[2], r[3], r[4])) \in Int
        /\ Box(r[1], r[2], r[3], r[4]) \in SUBSET All
    <3>1. r[1] \in Nat /\ r[2] \in Nat /\ r[3] \in 0 .. Len(t) /\ r[4] \in 0 .. COLUMNS
      OBVIOUS
    <3>. QED  BY <3>1, RowTotals, Zenon
  <2>. QED  BY <2>1, <2>2, <2>3
<1>. HIDE DEF area
<1>5. CASE P = {}
  <2>1. CellsOf(P) = {}
    BY <1>5 DEF CellsOf
  <2>2. Total(area, P) = 0 /\ Total(w, {}) = 0
    BY <1>5, TotalIs, FS_EmptySet
  <2>. QED  BY <1>3, <2>1, <2>2
<1>6. CASE P # {}
  <2>1. PICK a, b \in P : P = {a, b} /\ (a = b \/ a[3] <= b[1] \/ a[4] <= b[2])
    BY <1>6 DEF OneOrTwo
  <2>2. CASE a = b
    <3>1. P = {a} /\ CellsOf(P) = Calculator!Cells(a)
      BY <2>1, <2>2 DEF CellsOf
    <3>2. Total(area, {a}) = area[a]
      BY <1>4, OneCell
    <3>. QED  BY <1>3, <1>4, <3>1, <3>2
  <2>3. CASE a # b
    <3>1. CellsOf(P) = Calculator!Cells(a) \cup Calculator!Cells(b)
      BY <2>1 DEF CellsOf
    <3>2. Calculator!Cells(a) \cap Calculator!Cells(b) = {}
      <4>1. /\ a[1] \in Nat /\ a[2] \in Nat /\ a[3] \in Nat /\ a[4] \in Nat
            /\ b[1] \in Nat /\ b[2] \in Nat /\ b[3] \in Nat /\ b[4] \in Nat
        BY <1>1
      <4>. QED  BY <2>1, <2>3, <4>1, Apart
    <3>3. Total(w, Calculator!Cells(a) \cup Calculator!Cells(b))
             = Total(w, Calculator!Cells(a)) + Total(w, Calculator!Cells(b))
      <4>1. Calculator!Cells(a) \in SUBSET All /\ Calculator!Cells(b) \in SUBSET All
        BY <1>4
      <4>. QED  BY <3>2, <4>1, RowTotals, Zenon
    <3>4. Total(area, P) = area[a] + area[b]
      <4>1. area[a] \in Int /\ area[b] \in Int
        BY <1>4
      <4>2. Total(area, {a, b}) = area[a] + area[b]
        BY <2>3, <4>1, TotalOfPair, Zenon
      <4>. QED  BY <2>1, <4>2, Zenon
    <3>5. area[a] = Total(w, Calculator!Cells(a)) /\ area[b] = Total(w, Calculator!Cells(b))
      BY <1>4
    <3>. QED  BY <1>3, <3>1, <3>3, <3>4, <3>5, Zenon
  <2>. QED  BY <2>2, <2>3
<1>. QED  BY <1>5, <1>6

CellTotal(t, R) == Total(Weights(t), CellsOf(R))

\* Item k of a stream, from its rows.
ItemAt(t, k) ==
    [i \in DOMAIN Classifiers |->
        <<CellTotal(t, Calculator!Parts(i, k - 1)[1]),
          CellTotal(t, Calculator!Parts(i, k - 1)[2])>>]

\* The item that the last row completes.
LEMMA NewItem ==
    ASSUME NEW t \in Seq(Row), NEW img, Holds(img, t), Len(t) >= Calculator!MaxFilterWidth
    PROVE  Calculator!CalculateSubfingerprint(img, Calculator!LastOffset(img))
              = ItemAt(t, Len(t) - Calculator!MaxFilterWidth + 1)
<1>. DEFINE W == Calculator!MaxFilterWidth
            x == Calculator!LastOffset(img)
            k == Len(t) - W + 1
<1>1. Len(t) \in Nat /\ img.num_rows = Len(t) /\ W \in Nat \ {0}
  BY WeightsWeigh, WidthType DEF Holds
<1>2. x = k - 1 /\ x \in Nat /\ x + W = Len(t)
  <2>1. x = Len(t) - W
    BY <1>1 DEF Calculator!LastOffset
  <2>. HIDE DEF W, x
  <2>. QED  BY <1>1, <2>1 DEF W
<1>3. ASSUME NEW i \in DOMAIN Classifiers, NEW p \in {1, 2}
      PROVE  Calculator!SumAreas(img, Calculator!Parts(i, x)[p])
                = CellTotal(t, Calculator!Parts(i, x)[p])
  <2>. DEFINE P == Calculator!Parts(i, x)[p]
  <2>1. /\ Classifiers[i].type \in 0 .. 5 /\ Classifiers[i].width \in Nat
        /\ Classifiers[i].y \in Nat /\ Classifiers[i].height \in Nat
    BY CalculatorAssumption DEF Calculator!ImageAssumption, Calculator!ClassifiersAssumption
  <2>2. x + Width(i) <= Len(t)
    <3>1. Width(i) <= W /\ Width(i) \in Nat
      BY <2>1, WidthBounds DEF Width
    <3>. HIDE DEF W, x
    <3>. QED  BY <1>1, <1>2, <3>1
  <2>3. P # {} => OneOrTwo(P)
    <3>. HIDE DEF P, x
    <3>. QED  BY <1>2, FewParts, Zenon DEF P
  <2>4. \A r \in P : /\ Within(r, x, Classifiers[i].y, Classifiers[i].width,
                               Classifiers[i].height)
                     /\ r[1] \in Nat /\ r[2] \in Nat /\ r[3] \in 0 .. Len(t)
                     /\ r[4] \in 0 .. COLUMNS
    <3>. HIDE DEF x
    <3>. QED  BY <1>1, <1>2, <2>2, PartsWithin, Zenon
  <2>5. \A r \in P : Calculator!AreaAllowed(img, r[1], r[2], r[3], r[4])
    <3>1. img.num_rows \in Nat /\ img.num_rows >= W
      BY <1>1
    <3>. QED  BY <2>4, <3>1, WindowIsKept, Zenon
  <2>6. Calculator!SumAreas(img, P) = Total(Weights(t), CellsOf(P))
    <3>. HIDE DEF P, Row
    <3>. QED  BY <2>3, <2>4, <2>5, PartSum, Zenon
  <2>. QED  BY <2>6 DEF CellTotal
<1>4. Calculator!CalculateSubfingerprint(img, x)
         = [i \in DOMAIN Classifiers |->
               <<Calculator!SumAreas(img, Calculator!Parts(i, x)[1]),
                 Calculator!SumAreas(img, Calculator!Parts(i, x)[2])>>]
  BY DEF Calculator!CalculateSubfingerprint
<1>5. ItemAt(t, k)
         = [i \in DOMAIN Classifiers |->
               <<CellTotal(t, Calculator!Parts(i, x)[1]),
                 CellTotal(t, Calculator!Parts(i, x)[2])>>]
  BY <1>2, Zenon DEF ItemAt
<1>6. \A i \in DOMAIN Classifiers :
         /\ Calculator!SumAreas(img, Calculator!Parts(i, x)[1])
               = CellTotal(t, Calculator!Parts(i, x)[1])
         /\ Calculator!SumAreas(img, Calculator!Parts(i, x)[2])
               = CellTotal(t, Calculator!Parts(i, x)[2])
  <2>. HIDE DEF x
  <2>. QED  BY <1>3
<1>. HIDE DEF x, k
<1>7. Calculator!CalculateSubfingerprint(img, x) = ItemAt(t, k)
  BY <1>4, <1>5, <1>6
<1>. QED  BY <1>7 DEF x, k

\* A further row does not change the items before its own.
LEMMA ItemStays ==
    ASSUME NEW t \in Seq(Row), NEW f \in Row, NEW k \in Nat \ {0},
           k - 1 + Calculator!MaxFilterWidth <= Len(t)
    PROVE  ItemAt(Append(t, f), k) = ItemAt(t, k)
<1>. DEFINE u == Append(t, f)
<1>1. k - 1 \in Nat /\ Len(t) \in Nat /\ Calculator!MaxFilterWidth \in Nat
  BY WidthType, WeightsWeigh
<1>2. ASSUME NEW i \in DOMAIN Classifiers, NEW p \in {1, 2}
      PROVE  CellTotal(u, Calculator!Parts(i, k - 1)[p])
                = CellTotal(t, Calculator!Parts(i, k - 1)[p])
  <2>1. Width(i) \in Nat /\ Width(i) <= Calculator!MaxFilterWidth
    BY WidthBounds, CalculatorAssumption DEF Width, Calculator!ImageAssumption,
       Calculator!ClassifiersAssumption
  <2>2. k - 1 + Width(i) <= Len(t)
    BY <1>1, <2>1
  <2>3. CellsOf(Calculator!Parts(i, k - 1)[p]) \subseteq Box(0, 0, Len(t), COLUMNS)
    BY <1>1, <2>2, PartsWithin
  <2>. HIDE DEF Row
  <2>. QED  BY <2>3, WeightsGrow DEF CellTotal
<1>. HIDE DEF u
<1>3. ItemAt(u, k) = ItemAt(t, k)
  BY <1>2 DEF ItemAt
<1>. QED  BY <1>3 DEF u

\* Each item, cleared or not, is the one of its rows.
ItemsRight ==
    /\ \A k \in 1 .. Len(cleared) : cleared[k] = ItemAt(rows, k)
    /\ \A k \in 1 .. Len(fingerprint) : fingerprint[k] = ItemAt(rows, Len(cleared) + k)

LEMMA NoItems == ASSUME cleared = <<>>, fingerprint = <<>> PROVE ItemsRight
<1>1. 1 .. Len(cleared) = {} /\ 1 .. Len(fingerprint) = {}
  OBVIOUS
<1>. QED  BY <1>1 DEF ItemsRight

\* Clearing moves the items on.
LEMMA ClearItems ==
    ASSUME PInv, ItemsRight, ClearFingerprint
    PROVE  ItemsRight'
<1>1. cleared' = cleared \o fingerprint /\ fingerprint' = <<>> /\ rows' = rows
  BY DEF ClearFingerprint, Calculator!ClearFingerprint
<1>2. PICK S : cleared \in Seq(S) /\ fingerprint \in Seq(S)
  BY DEF PInv, ItemsKept
<1>. DEFINE m == Len(cleared)
            n == Len(fingerprint)
<1>3. /\ m \in Nat /\ n \in Nat /\ Len(cleared') = m + n
      /\ \A k \in 1 .. m : cleared'[k] = cleared[k]
      /\ \A k \in m + 1 .. m + n : cleared'[k] = fingerprint[k - m]
  BY <1>1, <1>2
<1>4. ASSUME NEW k \in 1 .. Len(cleared') PROVE cleared'[k] = ItemAt(rows, k)
  <2>1. CASE k <= m
    <3>1. k \in 1 .. m
      BY <1>3, <2>1
    <3>. QED  BY <1>3, <3>1 DEF ItemsRight
  <2>2. CASE ~ (k <= m)
    <3>1. k \in m + 1 .. m + n /\ k - m \in 1 .. n /\ m + (k - m) = k
      BY <1>3, <2>2
    <3>2. fingerprint[k - m] = ItemAt(rows, m + (k - m))
      BY <3>1 DEF ItemsRight
    <3>. QED  BY <1>3, <3>1, <3>2
  <2>. QED  BY <2>1, <2>2
<1>5. 1 .. Len(fingerprint') = {}
  BY <1>1
<1>6. \A k : ItemAt(rows, k)' = ItemAt(rows, k)
  BY <1>1 DEF ItemAt, CellTotal, Weights
<1>. QED  BY <1>4, <1>5, <1>6 DEF ItemsRight

\* A row leaves the items before as they are and may add the one that it
\* completes.
LEMMA RowItems ==
    ASSUME PInv, ImageKept, ImageKept', ItemsRight, NEW f \in Row, Calculator!Consume(f),
           results \in Nat
    PROVE  ItemsRight'
<1>. DEFINE W == Calculator!MaxFilterWidth
            m == Len(cleared)
            n == Len(fingerprint)
            item == Calculator!CalculateSubfingerprint(image', Calculator!LastOffset(image'))
<1>1. /\ rows' = Append(rows, f) /\ cleared' = cleared
      /\ fingerprint' = IF image'.num_rows >= W THEN Append(fingerprint, item)
                                                ELSE fingerprint
  BY DEF Calculator!Consume
<1>2. /\ W \in Nat \ {0} /\ Len(rows) = results
      /\ m + n = IF results < W THEN 0 ELSE results - W + 1
  BY WidthType DEF PInv, RowsCounted
<1>3. PICK S : cleared \in Seq(S) /\ fingerprint \in Seq(S)
  BY DEF PInv, ItemsKept
<1>4. m \in Nat /\ n \in Nat
  BY <1>3
<1>5. rows \in Seq(Row) /\ rows' \in Seq(Row) /\ Holds(image', rows')
  BY DEF ImageKept, Holds
<1>6. Len(rows') = results + 1 /\ image'.num_rows = results + 1
  <2>1. Len(rows') = Len(rows) + 1
    BY <1>1, <1>5, WeightsGrow
  <2>2. image'.num_rows = Len(rows')
    BY <1>5 DEF Holds
  <2>. QED  BY <1>2, <2>1, <2>2
<1>7. ASSUME NEW k \in 1 .. m + n PROVE ItemAt(rows', k) = ItemAt(rows, k)
  <2>1. k \in Nat \ {0} /\ k - 1 + W <= Len(rows)
    <3>. HIDE DEF W, m, n
    <3>. QED  BY <1>2, <1>4
  <2>2. ItemAt(Append(rows, f), k) = ItemAt(rows, k)
    <3>. HIDE DEF Row
    <3>. QED  BY <1>5, <2>1, ItemStays
  <2>. QED  BY <1>1, <2>2, Zenon
<1>8. ASSUME NEW k \in 1 .. m PROVE cleared[k] = ItemAt(rows', k)
  <2>1. k \in 1 .. m + n
    BY <1>4
  <2>. QED  BY <1>7, <2>1 DEF ItemsRight
<1>9. ASSUME NEW k \in 1 .. n PROVE fingerprint[k] = ItemAt(rows', m + k)
  <2>1. m + k \in 1 .. m + n
    BY <1>4
  <2>. QED  BY <1>7, <2>1 DEF ItemsRight
<1>10. ASSUME results + 1 >= W PROVE item = ItemAt(rows', m + n + 1)
  <2>1. item = ItemAt(rows', Len(rows') - W + 1)
    <3>1. Len(rows') >= W
      BY <1>6, <1>10
    <3>. HIDE DEF Row
    <3>. QED  BY <1>5, <3>1, NewItem
  <2>2. Len(rows') - W + 1 = m + n + 1
    <3>. HIDE DEF W, m, n
    <3>. QED  BY <1>2, <1>4, <1>6, <1>10
  <2>. QED  BY <2>1, <2>2, Zenon
<1>11. ASSUME NEW k \in 1 .. Len(fingerprint')
       PROVE  fingerprint'[k] = ItemAt(rows', m + k)
  <2>1. CASE results + 1 >= W
    <3>. HIDE DEF item
    <3>1. fingerprint' = Append(fingerprint, item)
      BY <1>1, <1>6, <2>1
    <3>2. /\ Len(fingerprint') = n + 1 /\ fingerprint'[n + 1] = item
          /\ \A j \in 1 .. n : fingerprint'[j] = fingerprint[j]
      BY <1>3, <3>1, Appended
    <3>3. CASE k = n + 1
      <4>1. m + k = m + n + 1
        BY <1>4, <3>3
      <4>. QED  BY <1>10, <2>1, <3>2, <3>3, <4>1
    <3>4. CASE k # n + 1
      <4>1. k \in 1 .. n
        BY <1>4, <3>2, <3>4
      <4>. QED  BY <1>9, <3>2, <4>1
    <3>. QED  BY <3>3, <3>4
  <2>2. CASE ~ (results + 1 >= W)
    <3>1. fingerprint' = fingerprint
      BY <1>1, <1>6, <2>2
    <3>. QED  BY <1>9, <3>1
  <2>. QED  BY <2>1, <2>2
<1>12. \A k : ItemAt(rows, k)' = ItemAt(rows', k)
  BY DEF ItemAt, CellTotal, Weights
<1>. QED  BY <1>1, <1>8, <1>11, <1>12 DEF ItemsRight

LEMMA StepItems ==
    ASSUME IInv, PInv, ImageKept, ImageKept', ItemsRight, [PipelineNext]_pipeline,
           results' = results + 1 =>
              /\ consumed' - LENGTH >= base
              /\ result' = [j \in 1 .. LENGTH |-> consumed' - LENGTH + j]
    PROVE  ItemsRight'
<1>1. CASE Start
  <2>1. cleared' = <<>> /\ fingerprint' = <<>>
    BY <1>1 DEF Start, Calculator!Reset
  <2>2. 1 .. Len(cleared') = {} /\ 1 .. Len(fingerprint') = {}
    BY <2>1
  <2>. QED  BY <2>2 DEF ItemsRight
<1>2. CASE ConsumeVector /\ results' > results
  <2>1. /\ results \in Nat /\ consumed \in Nat /\ base \in 0 .. consumed
        /\ LENGTH \in Nat \ {0} /\ consumed < MaxStream /\ consumed' = consumed + 1
        /\ results' \in {results, results + 1}
    BY <1>2, FilterAssumption DEF IInv, TypeOK, ConsumeVector, Consume
  <2>2. Weighted(result') \in Row
    BY <1>2, <2>1, RowOfSum
  <2>3. Calculator!Consume(Weighted(result'))
    BY <1>2 DEF ConsumeVector
  <2>. DEFINE f == Weighted(result')
  <2>. HIDE DEF f
  <2>4. f \in Row /\ Calculator!Consume(f)
    BY <2>2, <2>3 DEF f
  <2>. QED  BY <2>1, <2>4, RowItems
<1>3. CASE ClearFingerprint
  BY <1>3, ClearItems
<1>4. CASE (ConsumeVector /\ ~ (results' > results)) \/ UNCHANGED pipeline
  <2>1. rows' = rows /\ cleared' = cleared /\ fingerprint' = fingerprint
    BY <1>4 DEF ConsumeVector, pipeline, calculator
  <2>. QED  BY <2>1 DEF ItemsRight, ItemAt, CellTotal, Weights
<1>. QED  BY <1>1, <1>2, <1>3, <1>4 DEF PipelineNext

LEMMA Joined ==
    ASSUME NEW S, NEW s \in Seq(S), NEW t \in Seq(S)
    PROVE  /\ Len(s) \in Nat /\ Len(t) \in Nat /\ Len(s \o t) = Len(s) + Len(t)
           /\ s \o t = [k \in 1 .. Len(s \o t) |-> (s \o t)[k]]
           /\ \A k \in 1 .. Len(s) : (s \o t)[k] = s[k]
           /\ \A k \in Len(s) + 1 .. Len(s \o t) : (s \o t)[k] = t[k - Len(s)]
<1>1. Len(s) \in Nat /\ Len(t) \in Nat /\ Len(s \o t) = Len(s) + Len(t)
  OBVIOUS
<1>2. s \o t \in Seq(S)
  OBVIOUS
<1>3. s \o t = [k \in 1 .. Len(s \o t) |-> (s \o t)[k]]
  <2>1. ASSUME NEW q \in Seq(S) PROVE q = [k \in 1 .. Len(q) |-> q[k]]
    OBVIOUS
  <2>. QED  BY <1>2, <2>1, Zenon
<1>4. \A k \in 1 .. Len(s) : (s \o t)[k] = s[k]
  OBVIOUS
<1>5. \A k \in Len(s) + 1 .. Len(s \o t) : (s \o t)[k] = t[k - Len(s)]
  OBVIOUS
<1>. QED  BY <1>1, <1>3, <1>4, <1>5

THEOREM ItemsInvariance == PipelineSpec => []ItemsRight
<1>. DEFINE SumIsWindow ==
        results' = results + 1 =>
            /\ consumed' - LENGTH >= base
            /\ result' = [j \in 1 .. LENGTH |-> consumed' - LENGTH + j]
<1>1. PipelineSpec => [](IInv /\ PInv) /\ []ImageKept
  BY PipelineInvariance, ImageInvariance, PTL
<1>2. PipelineSpec => [][SumIsWindow]_vars
  BY PipelineIsFilter, SumsAreWindows, PTL DEF EachSumIsLastWindow
<1>3. PipelineInit => ItemsRight
  BY NoItems DEF PipelineInit, Calculator!Init
<1>4. ASSUME IInv /\ PInv, ImageKept, ImageKept', ItemsRight, [PipelineNext]_pipeline,
             [SumIsWindow]_vars
      PROVE  ItemsRight'
  <2>1. SumIsWindow
    BY <1>4 DEF vars, IInv, TypeOK
  <2>. QED  BY <1>4, <2>1, StepItems
<1>. QED  BY <1>1, <1>2, <1>3, <1>4, PTL DEF PipelineSpec

\* The items are those of the whole stream, computed from the rows
\* themselves, whenever the fingerprint was cleared and however many rows the
\* image has overwritten (fingerprint_calculator.cpp, Consume and
\* ClearFingerprint; rolling_integral_image.h).
THEOREM ItemsAreOfRows == PipelineSpec => []ItemsOfWholeStream
<1>. DEFINE all == cleared \o fingerprint
            count == Len(rows) - Calculator!MaxFilterWidth + 1
            n == Calculator!Max({0, count})
            Sum(i, k, p) == Calculator!CellSum(Calculator!Parts(i, k - 1)[p])
            Item(k) == [i \in DOMAIN Classifiers |-> <<Sum(i, k, 1), Sum(i, k, 2)>>]
<1>1. ASSUME IInv, PInv, ImageKept, ItemsRight PROVE ItemsOfWholeStream
  <2>1. /\ Len(rows) \in Nat /\ Len(rows) = results /\ rows \in Seq(Row)
        /\ Calculator!MaxFilterWidth \in Nat \ {0}
    BY <1>1, WidthType, WeightsWeigh DEF ImageKept, PInv, RowsCounted
  <2>2. n = IF count <= 0 THEN 0 ELSE count
    <3>1. count \in Int
      BY <2>1
    <3>2. n = CHOOSE x \in {0, count} : \A y \in {0, count} : x >= y
      BY DEF Calculator!Max
    <3>. HIDE DEF count, n
    <3>3. \E x \in {0, count} : \A y \in {0, count} : x >= y
      BY <3>1
    <3>4. n \in {0, count} /\ \A y \in {0, count} : n >= y
      BY <3>2, <3>3, Zenon
    <3>. QED  BY <3>1, <3>4
  <2>3. PICK S : cleared \in Seq(S) /\ fingerprint \in Seq(S)
    BY <1>1 DEF PInv, ItemsKept
  <2>4. /\ Len(cleared) \in Nat /\ Len(fingerprint) \in Nat
        /\ Len(all) = Len(cleared) + Len(fingerprint)
        /\ all = [k \in 1 .. Len(all) |-> all[k]]
        /\ \A k \in 1 .. Len(cleared) : all[k] = cleared[k]
        /\ \A k \in Len(cleared) + 1 .. Len(all) : all[k] = fingerprint[k - Len(cleared)]
    BY <2>3, Joined
  <2>5. Len(all) = n
    <3>1. Len(cleared) + Len(fingerprint) =
             IF results < Calculator!MaxFilterWidth THEN 0
             ELSE results - Calculator!MaxFilterWidth + 1
      BY <1>1 DEF PInv, RowsCounted
    <3>. HIDE DEF n, all
    <3>. QED  BY <2>1, <2>2, <2>4, <3>1
  <2>. HIDE DEF all, n
  <2>6. ASSUME NEW k \in 1 .. n PROVE all[k] = ItemAt(rows, k)
    <3>1. CASE k <= Len(cleared)
      <4>1. k \in 1 .. Len(cleared)
        BY <2>4, <3>1
      <4>. QED  BY <1>1, <2>4, <4>1 DEF ItemsRight
    <3>2. CASE ~ (k <= Len(cleared))
      <4>1. /\ k \in Len(cleared) + 1 .. Len(all)
            /\ k - Len(cleared) \in 1 .. Len(fingerprint)
            /\ Len(cleared) + (k - Len(cleared)) = k
        BY <2>4, <2>5, <3>2
      <4>2. fingerprint[k - Len(cleared)] = ItemAt(rows, Len(cleared) + (k - Len(cleared)))
        BY <1>1, <4>1 DEF ItemsRight
      <4>. QED  BY <2>4, <4>1, <4>2
    <3>. QED  BY <3>1, <3>2
  <2>7. ASSUME NEW k \in 1 .. n, NEW i \in DOMAIN Classifiers, NEW p \in {1, 2}
        PROVE  Sum(i, k, p) = CellTotal(rows, Calculator!Parts(i, k - 1)[p])
    <3>1. Width(i) \in Nat /\ Width(i) <= Calculator!MaxFilterWidth
      BY WidthBounds, CalculatorAssumption DEF Width, Calculator!ImageAssumption,
         Calculator!ClassifiersAssumption
    <3>2. k - 1 \in Nat /\ k - 1 + Width(i) <= Len(rows)
      BY <2>1, <2>2, <3>1
    <3>3. CellsOf(Calculator!Parts(i, k - 1)[p]) \subseteq Box(0, 0, Len(rows), COLUMNS)
      BY <2>1, <3>2, PartsWithin
    <3>. HIDE DEF Row
    <3>. QED  BY <2>1, <3>3, CellsWeighed DEF CellTotal, CellsOf
  <2>. HIDE DEF Sum
  <2>8. ASSUME NEW k \in 1 .. n PROVE ItemAt(rows, k) = Item(k)
    BY <2>7 DEF ItemAt
  <2>. HIDE DEF Item
  <2>9. all = [k \in 1 .. n |-> Item(k)]
    BY <2>4, <2>5, <2>6, <2>8
  <2>. QED
    BY <2>9, Zenon
    DEF ItemsOfWholeStream, Calculator!ItemsOfWholeStream, all, n, Item, Sum
<1>. QED  BY <1>1, PipelineInvariance, ImageInvariance, ItemsInvariance, PTL
=============================================================================
