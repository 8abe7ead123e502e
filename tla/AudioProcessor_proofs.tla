------------------------ MODULE AudioProcessor_proofs ------------------------
(***************************************************************************)
(* Proofs about AudioProcessor: the position that the resampler carries    *)
(* from call to call does not drift, a full buffer always gives frames up, *)
(* and each sample is made of the frames of the stream that it should be,  *)
(* for every rate, filter, buffer and cutting of the stream.               *)
(***************************************************************************)
EXTENDS AudioProcessor, SequenceTheorems, WellFoundedInduction, TLAPS

-----------------------------------------------------------------------------
(* Arithmetic.                                                             *)

LEMMA Division ==
    ASSUME NEW x \in Int, NEW d \in Nat \ {0}
    PROVE  /\ x \div d \in Int /\ x % d \in 0 .. d - 1
           /\ x = d * (x \div d) + (x % d)
OBVIOUS

LEMMA DivisionUnique ==
    ASSUME NEW q \in Int, NEW d \in Nat \ {0}, NEW r \in 0 .. d - 1
    PROVE  (d * q + r) \div d = q /\ (d * q + r) % d = r
OBVIOUS

\* What is added to a remainder counts as if added to the whole.
LEMMA DivisionSum ==
    ASSUME NEW x \in Nat, NEW y \in Nat, NEW d \in Nat \ {0}
    PROVE  /\ x \div d + ((x % d) + y) \div d = (x + y) \div d
           /\ ((x % d) + y) % d = (x + y) % d
<1>. DEFINE q == x \div d
            r == x % d
            e == (r + y) \div d
            s == (r + y) % d
<1>1. q \in Int /\ r \in 0 .. d - 1 /\ x = d * q + r
  BY Division
<1>2. e \in Int /\ s \in 0 .. d - 1 /\ r + y = d * e + s
  <2>1. r + y \in Int
    BY <1>1
  <2>. HIDE DEF r
  <2>. QED  BY <2>1, Division
<1>3. x + y = d * (q + e) + s /\ q + e \in Int
  <2>. HIDE DEF q, r, e, s
  <2>1. x + y = d * q + (d * e + s)
    BY <1>1, <1>2
  <2>2. d * q + (d * e + s) = d * (q + e) + s
    BY <1>1, <1>2
  <2>. QED  BY <1>1, <1>2, <2>1, <2>2
<1>4. (x + y) \div d = q + e /\ (x + y) % d = s
  <2>. DEFINE a == q + e
  <2>1. a \in Int /\ s \in 0 .. d - 1 /\ x + y = d * a + s
    BY <1>2, <1>3
  <2>. HIDE DEF a, s
  <2>2. (d * a + s) \div d = a /\ (d * a + s) % d = s
    BY <2>1, DivisionUnique
  <2>. QED  BY <2>1, <2>2 DEF a
<1>. QED  BY <1>4

\* A quotient is at least what the divisor goes into the number.
LEMMA DivisionBounds ==
    ASSUME NEW x \in Int, NEW k \in Int, NEW d \in Nat \ {0}
    PROVE  /\ d * k <= x => k <= x \div d
           /\ x < d * k => x \div d < k
<1>. DEFINE q == x \div d
<1>1. q \in Int /\ x >= d * q /\ x < d * (q + 1)
  BY Division
<1>2. ASSUME d * k <= x, q < k PROVE FALSE
  <2>. HIDE DEF q
  <2>1. q + 1 <= k
    BY <1>1, <1>2
  <2>2. d * (q + 1) <= d * k
    BY <1>1, <2>1
  <2>. QED  BY <1>1, <1>2, <2>2
<1>3. ASSUME x < d * k, k <= q PROVE FALSE
  <2>. HIDE DEF q
  <2>1. d * k <= d * q
    BY <1>1, <1>3
  <2>. QED  BY <1>1, <1>3, <2>1
<1>. QED  BY <1>1, <1>2, <1>3

LEMMA SmallQuotient ==
    ASSUME NEW d \in Nat \ {0}, NEW f \in 0 .. d - 1
    PROVE  f \div d = 0 /\ f % d = f
<1>1. d * 0 = 0 /\ 0 \in Int
  OBVIOUS
<1>. QED  BY <1>1, DivisionUnique

LEMMA Distribute ==
    ASSUME NEW p \in Int, NEW a \in Int, NEW b \in Int
    PROVE  p * (a + 1 + b) = p * a + p + p * b
OBVIOUS

LEMMA MinOfTwo ==
    ASSUME NEW a \in Int, NEW b \in Int
    PROVE  Min({a, b}) \in {a, b} /\ Min({a, b}) <= a /\ Min({a, b}) <= b
<1>1. \E x \in {a, b} : \A y \in {a, b} : x <= y
  OBVIOUS
<1>. QED  BY <1>1 DEF Min

LEMMA MinOfSet ==
    ASSUME NEW T \in SUBSET Nat, T # {}
    PROVE  Min(T) \in T /\ \A y \in T : Min(T) <= y
<1>1. PICK x \in T : \A y \in T : ~ (<<y, x>> \in OpToRel(<, Nat))
  BY WFMin, NatLessThanWellFounded
<1>2. \A y \in T : x <= y
  <2>1. ASSUME NEW y \in T, y < x PROVE FALSE
    <3>1. <<y, x>> \in OpToRel(<, Nat)
      BY <2>1 DEF OpToRel
    <3>. QED  BY <1>1, <3>1
  <2>. QED  BY <2>1
<1>. QED  BY <1>2 DEF Min

-----------------------------------------------------------------------------
(* One call of av_resample.                                                *)

Half(taps) == (taps - 1) \div 2

Context == [index : Int, frac : 0 .. TARGET - 1, incr : Nat, taps : Nat]

\* A context that Reset made for a rate, whatever calls came after.
ContextOf(c, rate) ==
    /\ c \in Context
    /\ c.incr = rate * PHASES /\ c.taps = FilterLength(rate)
    /\ -PHASES * Half(c.taps) <= c.index /\ c.index < PHASES

UsableRate(rate) == rate \in Rates /\ rate > MIN_RATE

LEMMA FilterFits ==
    ASSUME NEW rate, UsableRate(rate)
    PROVE  /\ rate \in Nat \ {0}
           /\ FilterLength(rate) \in Nat \ {0}
           /\ Half(FilterLength(rate)) \in Nat
           /\ FilterLength(rate) <= BUFFER
           /\ TARGET * (Half(FilterLength(rate)) + 1) <= BUFFER * rate
           /\ rate <= TARGET * FilterLength(rate)
<1>. DEFINE taps == FilterLength(rate)
<1>1. /\ rate \in Nat \ {0}
      /\ taps <= BUFFER /\ TARGET * (Half(taps) + 1) <= BUFFER * rate
  BY RatesAssumption DEF UsableRate, Half
<1>2. TARGET \in Nat \ {0} /\ FILTER_SIZE \in Nat \ {0}
  BY ResamplerAssumption
<1>3. taps \in Nat \ {0} /\ rate <= TARGET * taps
  <2>1. CASE 4 * TARGET >= 5 * rate
    <3>1. taps = FILTER_SIZE
      BY <2>1 DEF FilterLength
    <3>2. TARGET * 1 <= TARGET * FILTER_SIZE
      BY <1>2
    <3>. QED  BY <1>1, <1>2, <2>1, <3>1, <3>2
  <2>2. CASE ~(4 * TARGET >= 5 * rate)
    <3>. DEFINE x == 5 * rate * FILTER_SIZE
                d == 4 * TARGET
                y == x + d - 1
    <3>1. /\ x \in Nat /\ d \in Nat \ {0} /\ y \in Int
          /\ 5 * rate <= x /\ d < 5 * rate
      <4>1. 5 * rate * 1 <= 5 * rate * FILTER_SIZE
        BY <1>1, <1>2
      <4>. QED  BY <1>1, <1>2, <2>2, <4>1
    <3>2. taps = y \div d
      <4>1. x + 4 * TARGET - 1 = y
        BY <3>1
      <4>. QED  BY <2>2, <4>1 DEF FilterLength
    <3>3. y \div d \in Int /\ y % d \in 0 .. d - 1 /\ y = d * (y \div d) + (y % d)
      <4>. HIDE DEF y, d, x
      <4>. QED  BY <3>1, Division
    <3>4. taps \in Int /\ x <= d * taps
      <4>. HIDE DEF x, d
      <4>. QED  BY <3>1, <3>2, <3>3
    <3>5. d * taps = 4 * (TARGET * taps) /\ TARGET * taps \in Int
      <4>. HIDE DEF taps
      <4>. QED  BY <1>2, <3>4
    <3>6. rate <= TARGET * taps
      <4>. HIDE DEF taps, x, d
      <4>. QED  BY <1>1, <3>1, <3>4, <3>5
    <3>7. taps > 0
      <4>. HIDE DEF taps, x, d
      <4>1. taps <= 0 => TARGET * taps <= 0
        BY <1>2, <3>4
      <4>. QED  BY <1>1, <1>2, <3>4, <3>6, <4>1
    <3>. QED  BY <3>4, <3>6, <3>7
  <2>. QED  BY <2>1, <2>2
<1>4. Half(taps) \in Nat
  <2>. HIDE DEF taps
  <2>1. taps - 1 \in Nat
    BY <1>3
  <2>. QED  BY <2>1 DEF Half
<1>. QED  BY <1>1, <1>3, <1>4

\* The context after k iterations.
LEMMA AfterFields ==
    ASSUME NEW rate, UsableRate(rate), NEW c, ContextOf(c, rate), NEW k \in Nat
    PROVE  /\ After(c, k) \in Context
           /\ After(c, k).index = c.index + (c.frac + k * c.incr) \div TARGET
           /\ After(c, k).frac = (c.frac + k * c.incr) % TARGET
           /\ After(c, k).incr = c.incr /\ After(c, k).taps = c.taps
           /\ c.incr \in Nat /\ c.taps \in Nat \ {0}
           /\ c.frac + k * c.incr \in Nat
           /\ (c.frac + k * c.incr) \div TARGET \in Nat
<1>1. /\ rate \in Nat /\ PHASES \in Nat /\ TARGET \in Nat \ {0}
      /\ FilterLength(rate) \in Nat \ {0}
  BY FilterFits, ResamplerAssumption
<1>2. /\ c \in Context /\ c.taps \in Nat \ {0}
      /\ c.incr \in Nat /\ c.frac \in Nat /\ c.index \in Int
  BY <1>1 DEF ContextOf, Context
<1>3. c.frac + k * c.incr \in Nat
  BY <1>2
<1>4. /\ (c.frac + k * c.incr) \div TARGET \in Nat
      /\ (c.frac + k * c.incr) % TARGET \in 0 .. TARGET - 1
  <2>. DEFINE x == c.frac + k * c.incr
  <2>. HIDE DEF x
  <2>1. x \in Nat => x \div TARGET \in Nat /\ x % TARGET \in 0 .. TARGET - 1
    BY <1>1
  <2>. QED  BY <1>3, <2>1 DEF x
<1>. DEFINE q == c.index + (c.frac + k * c.incr) \div TARGET
            r == (c.frac + k * c.incr) % TARGET
<1>5. After(c, k) = [c EXCEPT !.index = q, !.frac = r]
  BY DEF After
<1>6. q \in Int /\ r \in 0 .. TARGET - 1
  BY <1>2, <1>4
<1>7. /\ After(c, k) \in Context
      /\ After(c, k).index = q /\ After(c, k).frac = r
      /\ After(c, k).incr = c.incr /\ After(c, k).taps = c.taps
  <2>. HIDE DEF q, r
  <2>. QED  BY <1>2, <1>5, <1>6 DEF Context
<1>. QED  BY <1>2, <1>3, <1>4, <1>7

\* av_resample stops at a full output buffer or at the first sample whose
\* filter would read past the source.
LEMMA WhereItStops ==
    ASSUME NEW c, NEW size
    PROVE  LET n == OutputSize(c, size, BUFFER)
           IN /\ n \in 0 .. BUFFER
              /\ n < BUFFER => OutOfSource(After(c, n), size)
              /\ \A k \in 0 .. n - 1 : ~OutOfSource(After(c, k), size)
<1>. DEFINE T == {BUFFER} \cup {k \in 0 .. BUFFER - 1 : OutOfSource(After(c, k), size)}
            n == Min(T)
<1>1. BUFFER \in Nat \ {0}
  BY BufferAssumption
<1>2. T \in SUBSET Nat /\ T # {} /\ T \subseteq 0 .. BUFFER /\ BUFFER \in T
  BY <1>1
<1>3. n \in T /\ \A k \in T : n <= k
  <2>. HIDE DEF T
  <2>. QED  BY <1>2, MinOfSet
<1>4. n \in 0 .. BUFFER /\ (n < BUFFER => OutOfSource(After(c, n), size))
  <2>. HIDE DEF n
  <2>. QED  BY <1>1, <1>3
<1>5. ASSUME NEW k \in 0 .. n - 1, OutOfSource(After(c, k), size)
      PROVE  FALSE
  <2>1. k \in Nat /\ k < n /\ n <= BUFFER /\ n \in Nat
    <3>. HIDE DEF n
    <3>. QED  BY <1>1, <1>4
  <2>2. k \in T
    <3>. HIDE DEF n
    <3>. QED  BY <1>1, <1>5, <2>1
  <2>. QED  BY <1>3, <2>1, <2>2
<1>6. OutputSize(c, size, BUFFER) = n
  BY DEF OutputSize
<1>. QED  BY <1>4, <1>5, <1>6

\* The first frame of a filter, and the frames that a call consumes.
LEMMA PhaseOf ==
    ASSUME NEW x \in Int
    PROVE  /\ SampleIndex(x) \in Int /\ x % PHASES \in 0 .. PHASES - 1
           /\ x = PHASES * SampleIndex(x) + (x % PHASES)
           /\ \A k \in Int : /\ PHASES * k <= x => k <= SampleIndex(x)
                             /\ x < PHASES * k => SampleIndex(x) < k
<1>1. PHASES \in Nat \ {0}
  BY ResamplerAssumption
<1>. QED  BY <1>1, Division, DivisionBounds DEF SampleIndex

LEMMA PhaseSigns ==
    ASSUME NEW x \in Int
    PROVE  /\ SampleIndex(x) \in Int
           /\ x >= 0 => SampleIndex(x) >= 0
           /\ x < PHASES => SampleIndex(x) < 1
<1>. DEFINE s == SampleIndex(x)
            r == x % PHASES
<1>1. PHASES \in Nat \ {0} /\ s \in Int /\ r \in 0 .. PHASES - 1 /\ x = PHASES * s + r
  BY PhaseOf, ResamplerAssumption
<1>. HIDE DEF s, r
<1>2. ASSUME x >= 0, s < 0 PROVE FALSE
  <2>1. PHASES * s <= PHASES * (-1)
    BY <1>1, <1>2
  <2>. QED  BY <1>1, <1>2, <2>1
<1>3. ASSUME x < PHASES, s >= 1 PROVE FALSE
  <2>1. PHASES * 1 <= PHASES * s
    BY <1>1, <1>3
  <2>. QED  BY <1>1, <1>3, <2>1
<1>4. s \in Int /\ (x >= 0 => s >= 0) /\ (x < PHASES => s < 1)
  BY <1>1, <1>2, <1>3
<1>. QED  BY <1>4 DEF s

\* The samples that fill an output buffer move the filter past the frames
\* before the first one.
LEMMA FullOutputIsPast ==
    ASSUME NEW rate, UsableRate(rate), NEW c, ContextOf(c, rate)
    PROVE  SampleIndex(After(c, BUFFER).index) >= 1
<1>. DEFINE h == Half(c.taps)
            x == c.frac + BUFFER * c.incr
            i == After(c, BUFFER).index
<1>1. /\ TARGET \in Nat \ {0} /\ PHASES \in Nat \ {0} /\ BUFFER \in Nat \ {0}
      /\ rate \in Nat /\ h \in Nat
      /\ TARGET * (h + 1) <= BUFFER * rate
  BY FilterFits, ResamplerAssumption, BufferAssumption DEF ContextOf
<1>2. /\ i = c.index + x \div TARGET /\ x \in Nat /\ i \in Int
      /\ c.index \in Int /\ c.frac \in Nat /\ c.incr = rate * PHASES
      /\ -PHASES * h <= c.index
  <2>1. /\ c.index \in Int /\ c.frac \in Nat /\ c.incr = rate * PHASES
        /\ -PHASES * h <= c.index
    BY <1>1 DEF ContextOf, Context
  <2>2. BUFFER \in Nat
    BY <1>1
  <2>3. i = c.index + x \div TARGET /\ x \in Nat /\ x \div TARGET \in Nat
    BY <2>2, AfterFields
  <2>4. i \in Int
    <3>. HIDE DEF x, i
    <3>. QED  BY <2>1, <2>3
  <2>. QED  BY <2>1, <2>3, <2>4
<1>3. TARGET * (PHASES * (h + 1)) <= x
  <2>. HIDE DEF h
  <2>1. PHASES * (TARGET * (h + 1)) <= PHASES * (BUFFER * rate)
    <3>. DEFINE a == TARGET * (h + 1)  b == BUFFER * rate
    <3>1. a \in Nat /\ b \in Nat /\ a <= b
      BY <1>1
    <3>. HIDE DEF a, b
    <3>2. PHASES * a <= PHASES * b
      BY <1>1, <3>1
    <3>. QED  BY <3>2 DEF a, b
  <2>2. /\ PHASES * (TARGET * (h + 1)) = TARGET * (PHASES * (h + 1))
        /\ PHASES * (BUFFER * rate) = BUFFER * c.incr
    BY <1>1, <1>2
  <2>3. BUFFER * c.incr <= x
    BY <1>1, <1>2
  <2>4. BUFFER * c.incr \in Int /\ TARGET * (PHASES * (h + 1)) \in Int
    BY <1>1, <1>2
  <2>. HIDE DEF x
  <2>. QED  BY <1>2, <2>1, <2>2, <2>3, <2>4
<1>4. PHASES * (h + 1) <= x \div TARGET
  <2>. DEFINE k == PHASES * (h + 1)
  <2>1. k \in Int /\ TARGET * k <= x /\ x \in Int /\ TARGET \in Nat \ {0}
    <3>. HIDE DEF h, x
    <3>. QED  BY <1>1, <1>2, <1>3
  <2>. HIDE DEF k, x
  <2>2. k <= x \div TARGET
    BY <2>1, DivisionBounds
  <2>. QED  BY <2>2 DEF k
<1>5. PHASES * 1 <= i
  <2>1. x \div TARGET \in Int
    <3>. HIDE DEF x
    <3>. QED  BY <1>1, <1>2
  <2>2. PHASES * (h + 1) = PHASES * h + PHASES /\ PHASES * h \in Int /\ -PHASES * h = -(PHASES * h)
    <3>. HIDE DEF h
    <3>. QED  BY <1>1
  <2>. HIDE DEF h, x, i
  <2>. QED  BY <1>1, <1>2, <1>4, <2>1, <2>2
<1>6. 1 <= SampleIndex(i)
  <2>. HIDE DEF i
  <2>. QED  BY <1>2, <1>5, PhaseOf
<1>7. SampleIndex(i) \in Int
  BY <1>2, PhaseOf
<1>. QED  BY <1>6, <1>7

\* From one sample to the next the filter does not move past its own length.
LEMMA StepIsShort ==
    ASSUME NEW rate, UsableRate(rate), NEW c, ContextOf(c, rate), NEW n \in Nat
    PROVE  SampleIndex(After(c, n + 1).index) <= SampleIndex(After(c, n).index) + c.taps
<1>. DEFINE x == c.frac + n * c.incr
            y == c.frac + (n + 1) * c.incr
            i == After(c, n).index
            j == After(c, n + 1).index
            q == x \div TARGET
            r == y \div TARGET
            m == PHASES * c.taps
<1>1. /\ TARGET \in Nat \ {0} /\ PHASES \in Nat \ {0}
      /\ rate \in Nat /\ c.taps \in Nat /\ rate <= TARGET * c.taps
      /\ c.index \in Int /\ c.frac \in Nat /\ c.incr = rate * PHASES
  BY FilterFits, ResamplerAssumption DEF ContextOf, Context
<1>2. i = c.index + q /\ x \in Nat /\ q \in Nat
  BY AfterFields
<1>3. j = c.index + r /\ y \in Nat /\ r \in Nat
  <2>1. n + 1 \in Nat
    OBVIOUS
  <2>. QED  BY <2>1, AfterFields
<1>4. y <= x + TARGET * m /\ m \in Nat
  <2>1. PHASES * rate <= PHASES * (TARGET * c.taps)
    <3>. DEFINE a == TARGET * c.taps
    <3>1. a \in Nat /\ rate <= a
      BY <1>1
    <3>. HIDE DEF a
    <3>2. PHASES * rate <= PHASES * a
      BY <1>1, <3>1
    <3>. QED  BY <3>2 DEF a
  <2>2. PHASES * (TARGET * c.taps) = TARGET * m /\ m \in Nat /\ PHASES * rate = c.incr
    BY <1>1
  <2>3. y = x + c.incr
    BY <1>1
  <2>. HIDE DEF x, y, m
  <2>. QED  BY <1>1, <1>2, <1>3, <2>1, <2>2, <2>3
<1>5. r <= q + m
  <2>1. x < TARGET * (q + 1)
    <3>1. q < q + 1 /\ q + 1 \in Int
      <4>. HIDE DEF q
      <4>. QED  BY <1>2
    <3>2. ASSUME TARGET * (q + 1) <= x PROVE FALSE
      <4>1. q + 1 <= q
        <5>. DEFINE k == q + 1
        <5>1. k \in Int /\ TARGET * k <= x /\ x \in Int /\ TARGET \in Nat \ {0}
          <6>. HIDE DEF x, q
          <6>. QED  BY <1>1, <1>2, <3>1, <3>2
        <5>. HIDE DEF x, k
        <5>2. k <= x \div TARGET
          BY <5>1, DivisionBounds
        <5>. QED  BY <5>2 DEF k
      <4>. HIDE DEF q
      <4>. QED  BY <1>2, <4>1
    <3>. HIDE DEF x, q
    <3>. QED  BY <1>1, <1>2, <3>2
  <2>2. y < TARGET * (q + 1 + m) /\ q + 1 + m \in Int
    <3>. HIDE DEF x, y, q, m
    <3>1. TARGET * (q + 1 + m) = TARGET * (q + 1) + TARGET * m
      BY <1>1, <1>2, <1>4
    <3>. QED  BY <1>1, <1>2, <1>3, <1>4, <2>1, <3>1
  <2>3. r < q + 1 + m
    <3>. DEFINE k == q + 1 + m
    <3>. HIDE DEF y, k
    <3>1. y < TARGET * k /\ k \in Int /\ y \in Int
      BY <1>3, <2>2 DEF k
    <3>2. y \div TARGET < k
      BY <1>1, <3>1, DivisionBounds
    <3>. QED  BY <3>2 DEF k
  <2>. HIDE DEF q, r, m
  <2>. QED  BY <1>2, <1>3, <1>4, <2>3
<1>6. j <= i + m /\ i \in Int /\ j \in Int
  <2>. HIDE DEF q, r, m, i, j
  <2>. QED  BY <1>1, <1>2, <1>3, <1>4, <1>5
<1>7. SampleIndex(j) <= SampleIndex(i) + c.taps
  <2>. DEFINE s == SampleIndex(i)
              k == s + 1 + c.taps
  <2>. HIDE DEF i, j
  <2>1. s \in Int /\ i = PHASES * s + (i % PHASES) /\ i % PHASES \in 0 .. PHASES - 1
    BY <1>6, PhaseOf
  <2>2. k \in Int
    <3>. HIDE DEF s
    <3>. QED  BY <1>1, <2>1
  <2>3. j < PHASES * k
    <3>. HIDE DEF s
    <3>1. PHASES * k = PHASES * s + PHASES + m
      <4>1. PHASES \in Int /\ s \in Int /\ c.taps \in Int
        BY <1>1, <2>1
      <4>. QED  BY <4>1, Distribute
    <3>2. PHASES * k \in Int /\ PHASES * s \in Int
      BY <1>1, <2>1, <2>2
    <3>. HIDE DEF k, m
    <3>. QED  BY <1>1, <1>4, <1>6, <2>1, <3>1, <3>2
  <2>4. SampleIndex(j) < k /\ SampleIndex(j) \in Int
    <3>. HIDE DEF k, s
    <3>. QED  BY <1>6, <2>2, <2>3, PhaseOf
  <2>5. SampleIndex(j) <= s + c.taps
    <3>. HIDE DEF s
    <3>. QED  BY <1>1, <2>1, <2>4
  <2>. QED  BY <2>5
<1>. QED  BY <1>7

\* One call of av_resample: how much it consumes, and where it leaves off.
LEMMA OneCall ==
    ASSUME NEW rate, UsableRate(rate), NEW c, ContextOf(c, rate), NEW b, Len(b) \in Nat
    PROVE  LET r == AvResample(c, b, BUFFER)
               n == OutputSize(c, Len(b), BUFFER)
               x == c.frac + n * c.incr
           IN /\ n \in Nat /\ Len(r.out) = n
              /\ ContextOf(r.ctx, rate) /\ r.ctx.index >= 0
              /\ r.consumed \in Nat
              /\ r.consumed * PHASES + r.ctx.index = c.index + x \div TARGET
              /\ r.ctx.frac = x % TARGET
              /\ c.index >= 0 \/ Len(b) >= c.taps => r.consumed <= Len(b)
              /\ Len(b) = BUFFER => r.consumed >= 1
<1>. DEFINE r == AvResample(c, b, BUFFER)
            n == OutputSize(c, Len(b), BUFFER)
            x == c.frac + n * c.incr
            last == After(c, n)
            at == SampleIndex(last.index)
<1>1. /\ TARGET \in Nat \ {0} /\ PHASES \in Nat \ {0} /\ BUFFER \in Nat \ {0}
      /\ c.taps \in Nat \ {0} /\ c.taps <= BUFFER
      /\ c.index \in Int /\ c.index < PHASES /\ c.taps = FilterLength(rate)
      /\ -PHASES * Half(c.taps) <= c.index /\ Half(c.taps) \in Nat
  BY FilterFits, ResamplerAssumption, BufferAssumption DEF ContextOf, Context
<1>2. /\ n \in 0 .. BUFFER
      /\ n < BUFFER => OutOfSource(last, Len(b))
      /\ \A k \in 0 .. n - 1 : ~OutOfSource(After(c, k), Len(b))
  BY WhereItStops
<1>3. n \in Nat
  <2>. HIDE DEF n
  <2>. QED  BY <1>1, <1>2
<1>4. /\ last \in Context /\ last.index = c.index + x \div TARGET
      /\ last.frac = x % TARGET /\ last.incr = c.incr /\ last.taps = c.taps
      /\ x \in Nat /\ x \div TARGET \in Nat
  <2>. HIDE DEF n
  <2>. QED  BY <1>3, AfterFields
<1>5. at >= 0 /\ at \in Int /\ last.index \in Int
  <2>1. CASE n < BUFFER
    BY <1>2, <1>4, <2>1, PhaseOf DEF OutOfSource, Context
  <2>2. CASE n = BUFFER
    <3>1. at >= 1 /\ last.index \in Int
      BY <1>4, <2>2, FullOutputIsPast DEF Context
    <3>2. at \in Int
      BY <3>1, PhaseOf
    <3>. QED  BY <3>1, <3>2
  <2>. HIDE DEF n
  <2>. QED  BY <1>1, <1>2, <2>1, <2>2
<1>6. /\ last.index = PHASES * at + (last.index % PHASES)
      /\ last.index % PHASES \in 0 .. PHASES - 1
      /\ last.index >= 0
  <2>. DEFINE i == last.index
  <2>1. /\ i = PHASES * SampleIndex(i) + (i % PHASES)
        /\ i % PHASES \in 0 .. PHASES - 1
    <3>. HIDE DEF i
    <3>. QED  BY <1>5, PhaseOf DEF i
  <2>2. PHASES * at >= 0
    <3>. HIDE DEF at
    <3>. QED  BY <1>1, <1>5
  <2>3. SampleIndex(i) = at
    OBVIOUS
  <2>4. i = PHASES * at + (i % PHASES) /\ i % PHASES \in 0 .. PHASES - 1 /\ i >= 0
    <3>. HIDE DEF i, at
    <3>1. PHASES * at \in Int
      BY <1>1, <1>5
    <3>. QED  BY <1>1, <2>1, <2>2, <2>3, <3>1
  <2>. QED  BY <2>4
<1>7. r.consumed = at
  <2>1. (IF last.index > 0 THEN last.index ELSE 0) = last.index
    <3>. HIDE DEF last
    <3>. QED  BY <1>5, <1>6
  <2>. QED  BY <2>1 DEF AvResample
<1>8. Len(r.out) = n
  <2>1. r.out = [k \in 1 .. n |-> Output(After(c, k - 1), b)]
    BY DEF AvResample
  <2>. HIDE DEF n
  <2>2. n \in Nat
    BY <1>3
  <2>. QED  BY <2>1, <2>2
<1>9. r.ctx = [last EXCEPT !.index = last.index % PHASES]
  <2>1. r.ctx = [last EXCEPT !.index = IF last.index >= 0 THEN last.index % PHASES ELSE last.index]
    BY DEF AvResample
  <2>2. (IF last.index >= 0 THEN last.index % PHASES ELSE last.index) = last.index % PHASES
    <3>. HIDE DEF last
    <3>. QED  BY <1>5, <1>6
  <2>. QED  BY <2>1, <2>2
<1>10. /\ r.ctx \in Context /\ r.ctx.index = last.index % PHASES
       /\ r.ctx.frac = last.frac /\ r.ctx.incr = c.incr /\ r.ctx.taps = c.taps
  <2>. DEFINE e == last.index % PHASES
              l == last
  <2>. HIDE DEF e, l, r, last
  <2>1. e \in Int /\ l \in Context /\ r.ctx = [l EXCEPT !.index = e]
        /\ l.incr = c.incr /\ l.taps = c.taps
    BY <1>1, <1>4, <1>6, <1>9 DEF e, l
  <2>2. /\ r.ctx \in Context /\ r.ctx.index = e /\ r.ctx.frac = l.frac
        /\ r.ctx.incr = c.incr /\ r.ctx.taps = c.taps
    BY <2>1 DEF Context
  <2>. QED  BY <2>2 DEF e, l
<1>11. ContextOf(r.ctx, rate) /\ r.ctx.index >= 0
  <2>. DEFINE h == Half(c.taps)
  <2>1. -PHASES * h <= 0
    <3>1. h \in Nat
      BY <1>1
    <3>. HIDE DEF h
    <3>. QED  BY <1>1, <3>1
  <2>2. r.ctx.index \in 0 .. PHASES - 1
    BY <1>6, <1>10
  <2>. DEFINE p == -PHASES * h
  <2>3. p \in Int
    <3>1. h \in Nat
      BY <1>1
    <3>. HIDE DEF h
    <3>. QED  BY <1>1, <3>1
  <2>4. p <= r.ctx.index /\ r.ctx.index < PHASES /\ r.ctx.index >= 0
    <3>. HIDE DEF p, r
    <3>1. p <= 0
      BY <2>1 DEF p
    <3>. QED  BY <1>1, <2>2, <2>3, <3>1
  <2>. QED  BY <1>10, <2>4 DEF ContextOf
<1>12. r.consumed * PHASES + r.ctx.index = c.index + x \div TARGET /\ r.consumed \in Nat
  <2>1. r.consumed * PHASES + r.ctx.index = last.index
    <3>. HIDE DEF r, last, at
    <3>1. at * PHASES = PHASES * at /\ PHASES * at \in Int
      BY <1>1, <1>5
    <3>. QED  BY <1>5, <1>6, <1>7, <1>10, <3>1
  <2>2. r.consumed \in Nat
    <3>. HIDE DEF r, at
    <3>. QED  BY <1>5, <1>7
  <2>. QED  BY <1>4, <2>1, <2>2
<1>13. ASSUME c.index >= 0 \/ Len(b) >= c.taps
       PROVE  r.consumed <= Len(b)
  <2>1. CASE n = 0
    <3>1. last.index < PHASES
      <4>1. c.frac + 0 * c.incr = c.frac /\ c.frac \in 0 .. TARGET - 1
        BY <1>1 DEF ContextOf, Context
      <4>2. c.frac \div TARGET = 0
        <5>. DEFINE f == c.frac
        <5>. HIDE DEF f
        <5>1. f \in 0 .. TARGET - 1 => f \div TARGET = 0
          BY <1>1, SmallQuotient
        <5>. QED  BY <4>1, <5>1 DEF f
      <4>3. x \div TARGET = 0
        BY <2>1, <4>1, <4>2
      <4>. HIDE DEF last, x
      <4>. QED  BY <1>1, <1>4, <4>3
    <3>2. at < 1
      <4>. DEFINE i == last.index
      <4>1. i \in Int /\ i < PHASES
        BY <1>5, <3>1
      <4>. HIDE DEF i
      <4>2. SampleIndex(i) < 1
        BY <4>1, PhaseSigns
      <4>. QED  BY <4>2 DEF i
    <3>. HIDE DEF r, at
    <3>. QED  BY <1>5, <1>7, <3>2
  <2>2. CASE n > 0
    <3>. DEFINE m == n - 1
                from == SampleIndex(After(c, m).index)
    <3>1. m \in Nat /\ n = m + 1 /\ m \in 0 .. n - 1
      <4>. HIDE DEF n
      <4>. QED  BY <1>3, <2>2
    <3>2. ~OutOfSource(After(c, m), Len(b))
      BY <1>2, <3>1
    <3>3. at <= from + c.taps /\ After(c, m).taps = c.taps
      <4>. HIDE DEF m
      <4>1. at <= from + c.taps
        BY <3>1, StepIsShort
      <4>. QED  BY <3>1, <4>1, AfterFields
    <3>4. from \in Int /\ (c.index >= 0 => from >= 0)
      <4>. HIDE DEF m
      <4>. DEFINE i == After(c, m).index
      <4>1. i \in Int /\ c.index <= i
        <5>1. After(c, m) \in Context /\ i = c.index + (c.frac + m * c.incr) \div TARGET
              /\ (c.frac + m * c.incr) \div TARGET \in Nat
          BY <3>1, AfterFields
        <5>. DEFINE d == (c.frac + m * c.incr) \div TARGET
        <5>2. i = c.index + d /\ d \in Nat
          BY <5>1
        <5>. HIDE DEF d, i
        <5>. QED  BY <1>1, <5>2
      <4>. HIDE DEF i
      <4>2. SampleIndex(i) \in Int /\ (i >= 0 => SampleIndex(i) >= 0)
        BY <4>1, PhaseSigns
      <4>3. c.index >= 0 => SampleIndex(i) >= 0
        BY <1>1, <4>1, <4>2
      <4>. QED  BY <4>2, <4>3 DEF i
    <3>5. CASE from >= 0
      <4>1. from + c.taps <= Len(b)
        BY <1>1, <3>2, <3>3, <3>4, <3>5 DEF OutOfSource
      <4>. HIDE DEF r, at, from
      <4>. QED  BY <1>1, <1>5, <1>7, <3>3, <3>4, <4>1
    <3>6. CASE from < 0
      <4>. HIDE DEF r, at, from
      <4>. QED  BY <1>1, <1>5, <1>7, <1>13, <3>3, <3>4, <3>6
    <3>. HIDE DEF from
    <3>. QED  BY <3>4, <3>5, <3>6
  <2>. HIDE DEF n
  <2>. QED  BY <1>3, <2>1, <2>2
<1>14. ASSUME Len(b) = BUFFER
       PROVE  r.consumed >= 1
  <2>1. CASE n < BUFFER
    <3>1. at + c.taps > BUFFER
      BY <1>2, <1>4, <1>14, <2>1 DEF OutOfSource
    <3>. HIDE DEF r, at
    <3>. QED  BY <1>1, <1>5, <1>7, <3>1
  <2>2. CASE n = BUFFER
    <3>1. at >= 1
      BY <2>2, FullOutputIsPast
    <3>. QED  BY <1>7, <3>1
  <2>. HIDE DEF n
  <2>. QED  BY <1>1, <1>2, <2>1, <2>2
<1>. QED  BY <1>3, <1>4, <1>8, <1>10, <1>11, <1>12, <1>13, <1>14

-----------------------------------------------------------------------------
(* Sequences, whatever their elements.                                     *)

IsSeq(s) == \E S : s \in Seq(S)

LEMMA Joined ==
    ASSUME NEW s, NEW t, IsSeq(s), IsSeq(t)
    PROVE  IsSeq(s \o t) /\ Len(s \o t) = Len(s) + Len(t) /\ Len(s) \in Nat /\ Len(t) \in Nat
<1>1. PICK S : s \in Seq(S)
  BY DEF IsSeq
<1>2. PICK T : t \in Seq(T)
  BY DEF IsSeq
<1>3. s \in Seq(S \cup T) /\ t \in Seq(S \cup T)
  BY <1>1, <1>2
<1>4. s \o t \in Seq(S \cup T)
  BY <1>3
<1>5. Len(s \o t) = Len(s) + Len(t) /\ Len(s) \in Nat /\ Len(t) \in Nat
  BY <1>3
<1>. QED  BY <1>4, <1>5 DEF IsSeq

LEMMA Part ==
    ASSUME NEW s, NEW m \in Int, NEW n \in Int
    PROVE  /\ IsSeq(SubSeq(s, m, n))
           /\ Len(SubSeq(s, m, n)) = IF m <= n THEN n - m + 1 ELSE 0
<1>. DEFINE S == {s[i] : i \in m .. n}
<1>1. \A i \in m .. n : s[i] \in S
  OBVIOUS
<1>2. SubSeq(s, m, n) \in Seq(S) /\ Len(SubSeq(s, m, n)) = IF m <= n THEN n - m + 1 ELSE 0
  <2>. HIDE DEF S
  <2>. QED  BY <1>1, SubSeqProperties
<1>. QED  BY <1>2 DEF IsSeq

LEMMA FunctionIsSeq ==
    ASSUME NEW f, NEW n \in Int, DOMAIN f = 1 .. n, f = [i \in 1 .. n |-> f[i]]
    PROVE  IsSeq(f)
<1>. DEFINE S == {f[i] : i \in 1 .. n}
            k == IF n >= 0 THEN n ELSE 0
<1>1. k \in Nat /\ 1 .. k = 1 .. n
  OBVIOUS
<1>2. f \in [1 .. k -> S]
  BY <1>1
<1>3. f \in Seq(S)
  <2>. HIDE DEF S, k
  <2>. QED  BY <1>1, <1>2
<1>. QED  BY <1>3 DEF IsSeq

LEMMA OneElement ==
    ASSUME NEW e
    PROVE  IsSeq(<<e>>) /\ IsSeq(<< >>) /\ Len(<< >>) = 0
<1>1. <<e>> \in Seq({e}) /\ << >> \in Seq({e}) /\ Len(<< >>) = 0
  OBVIOUS
<1>. QED  BY <1>1 DEF IsSeq

-----------------------------------------------------------------------------
(* The invariant.                                                          *)

Typed ==
    /\ IsSeq(buffer) /\ IsSeq(leftover) /\ IsSeq(work) /\ IsSeq(tail)
    /\ passed \in Nat /\ produced \in Nat
    /\ channels \in Nat /\ (pc # "idle" => channels > 0)

\* The context belongs to a rate that Reset accepted, and once a sample was
\* made the filter is past the mirrored frames.
ContextFits ==
    ctx # NoContext =>
        \E rate : /\ UsableRate(rate) /\ ContextOf(ctx, rate)
                  /\ produced > 0 => ctx.index >= 0

IInv == Typed /\ ContextFits /\ NoDrift /\ NothingDropped

LEMMA InitIInv == Init => IInv
<1>. SUFFICES ASSUME Init PROVE IInv
  OBVIOUS
<1>1. Typed
  BY OneElement DEF Init, Typed
<1>2. ContextFits /\ NoDrift /\ NothingDropped
  BY DEF Init, ContextFits, NoDrift, NothingDropped
<1>. QED  BY <1>1, <1>2 DEF IInv

\* The context of a new stream is at the position of its sample number 0.
LEMMA NewContext ==
    ASSUME NEW rate, UsableRate(rate)
    PROVE  LET c == ResampleInit(rate)
           IN /\ ContextOf(c, rate)
              /\ c.index = -PHASES * ((c.taps - 1) \div 2) + (0 * c.incr) \div TARGET
              /\ c.frac = (0 * c.incr) % TARGET
<1>. DEFINE c == ResampleInit(rate)
            taps == FilterLength(rate)
            first == -PHASES * Half(taps)
<1>1. /\ TARGET \in Nat \ {0} /\ PHASES \in Nat \ {0}
      /\ rate \in Nat /\ taps \in Nat \ {0} /\ Half(taps) \in Nat
  BY FilterFits, ResamplerAssumption
<1>2. c = [index |-> first, frac |-> 0, incr |-> rate * PHASES, taps |-> taps]
  BY DEF ResampleInit, Half
<1>3. first \in Int /\ first <= 0 /\ rate * PHASES \in Nat /\ 0 \in 0 .. TARGET - 1
  <2>. DEFINE h == Half(taps)
  <2>1. h \in Nat
    BY <1>1
  <2>. HIDE DEF h, taps
  <2>. QED  BY <1>1, <2>1
<1>4. /\ c.index = first /\ c.frac = 0 /\ c.incr = rate * PHASES /\ c.taps = taps
      /\ c \in Context
  <2>. HIDE DEF first, taps
  <2>. QED  BY <1>1, <1>2, <1>3 DEF Context
<1>5. ContextOf(c, rate)
  <2>1. first < PHASES
    <3>. HIDE DEF first
    <3>. QED  BY <1>1, <1>3
  <2>2. -PHASES * Half(c.taps) <= c.index
    <3>1. first = -PHASES * Half(c.taps)
      BY <1>4
    <3>. HIDE DEF first, c
    <3>. QED  BY <1>3, <1>4, <3>1
  <2>. HIDE DEF c, first
  <2>. QED  BY <1>4, <2>1, <2>2 DEF ContextOf
<1>6. 0 * c.incr = 0 /\ 0 \div TARGET = 0 /\ 0 % TARGET = 0
  <2>1. 0 * c.incr = 0
    <3>. HIDE DEF c
    <3>. QED  BY <1>1, <1>3, <1>4
  <2>. QED  BY <1>1, <1>3, <2>1, SmallQuotient
<1>7. c.index = -PHASES * ((c.taps - 1) \div 2) + 0
  <2>1. first = -PHASES * ((c.taps - 1) \div 2)
    BY <1>4 DEF Half
  <2>. HIDE DEF first, c
  <2>. QED  BY <1>3, <1>4, <2>1
<1>. QED  BY <1>4, <1>5, <1>6, <1>7

\* A call of av_resample keeps the position; what it takes out of the buffer
\* is never cut off at the buffer's end, once the filter was filled.
LEMMA ResampleIInv ==
    ASSUME IInv, NEW b, IsSeq(b), Resample(b)
    PROVE  /\ IsSeq(buffer') /\ passed' \in Nat /\ produced' \in Nat
           /\ ContextFits' /\ NoDrift'
           /\ Len(b) = BUFFER => Len(buffer') # BUFFER
<1>. DEFINE r == Resampled(b)
            taken == Min({r.consumed, Len(b)})
            size == Len(b)
<1>1. size \in Nat /\ BUFFER \in Nat \ {0} /\ passed \in Nat /\ produced \in Nat
  BY BufferAssumption, OneElement, Joined DEF IInv, Typed
<1>2. /\ buffer' = SubSeq(b, taken + 1, size) /\ ctx' = r.ctx
      /\ passed' = passed + taken /\ produced' = produced + Len(r.out)
      /\ shortStart' = (shortStart \/ (ctx # NoContext /\ produced = 0 /\ size < ctx.taps))
  BY DEF Resample, Remaining, Taken
<1>3. ASSUME taken \in 0 .. size, size = BUFFER => taken >= 1
      PROVE  /\ IsSeq(buffer') /\ passed' \in Nat
             /\ Len(b) = BUFFER => Len(buffer') # BUFFER
  <2>1. taken + 1 \in Int /\ size \in Int
    <3>. HIDE DEF taken, size
    <3>. QED  BY <1>1, <1>3
  <2>2. /\ IsSeq(buffer')
        /\ Len(buffer') = IF taken + 1 <= size THEN size - (taken + 1) + 1 ELSE 0
    <3>. HIDE DEF taken, size
    <3>. QED  BY <1>2, <2>1, Part
  <2>. HIDE DEF taken
  <2>. QED  BY <1>1, <1>2, <1>3, <2>2
<1>4. CASE ctx = NoContext
  <2>1. r = [out |-> b, consumed |-> size, ctx |-> ctx]
    BY <1>4 DEF Resampled
  <2>2. r.out = b /\ r.consumed = size /\ r.ctx = ctx
    BY <2>1
  <2>3. taken = size
    <3>1. taken = Min({size, size})
      BY <2>2
    <3>2. Min({size, size}) \in {size, size}
      <4>. HIDE DEF size
      <4>1. size \in Int
        BY <1>1
      <4>. QED  BY <4>1, MinOfTwo
    <3>. QED  BY <3>1, <3>2
  <2>4. taken \in 0 .. size /\ (size = BUFFER => taken >= 1)
    <3>. HIDE DEF taken, size
    <3>. QED  BY <1>1, <2>3
  <2>5. produced' \in Nat
    BY <1>1, <1>2, <2>2
  <2>6. ctx' = NoContext
    BY <1>2, <1>4, <2>2
  <2>7. ContextFits' /\ NoDrift'
    BY <2>6 DEF ContextFits, NoDrift, NoContext
  <2>. QED  BY <1>3, <2>4, <2>5, <2>7
<1>5. CASE ctx # NoContext
  <2>1. PICK rate : /\ UsableRate(rate) /\ ContextOf(ctx, rate)
                    /\ produced > 0 => ctx.index >= 0
    BY <1>5 DEF IInv, ContextFits
  <2>. DEFINE n == OutputSize(ctx, size, BUFFER)
              x == ctx.frac + n * ctx.incr
  <2>2. r = AvResample(ctx, b, BUFFER)
    BY <1>5 DEF Resampled
  <2>3. /\ n \in Nat /\ Len(r.out) = n
        /\ ContextOf(r.ctx, rate) /\ r.ctx.index >= 0
        /\ r.consumed \in Nat
        /\ r.consumed * PHASES + r.ctx.index = ctx.index + x \div TARGET
        /\ r.ctx.frac = x % TARGET
        /\ ctx.index >= 0 \/ size >= ctx.taps => r.consumed <= size
        /\ size = BUFFER => r.consumed >= 1
    BY <1>1, <2>1, <2>2, OneCall
  <2>4. /\ taken \in 0 .. size /\ (size = BUFFER => taken >= 1)
        /\ r.consumed <= size => taken = r.consumed
    <3>. DEFINE e == r.consumed
    <3>1. e \in Nat /\ (size = BUFFER => e >= 1) /\ taken = Min({e, size})
      BY <2>3
    <3>. HIDE DEF e, size, taken
    <3>2. taken \in {e, size} /\ taken <= e /\ taken <= size
      BY <1>1, <3>1, MinOfTwo
    <3>3. taken \in 0 .. size /\ (size = BUFFER => taken >= 1) /\ (e <= size => taken = e)
      BY <1>1, <3>1, <3>2
    <3>. QED  BY <3>3 DEF e
  <2>5. produced' = produced + n /\ produced' \in Nat
    <3>. HIDE DEF n, r
    <3>. QED  BY <1>1, <1>2, <2>3
  <2>6. ContextFits'
    <3>. HIDE DEF r
    <3>. QED  BY <1>2, <2>1, <2>3 DEF ContextFits
  <2>7. ASSUME ~shortStart'
        PROVE  /\ passed' * PHASES + ctx'.index
                    = -PHASES * ((ctx'.taps - 1) \div 2) + (produced' * ctx'.incr) \div TARGET
               /\ ctx'.frac = (produced' * ctx'.incr) % TARGET
    <3>. DEFINE y == produced * ctx.incr
                z == n * ctx.incr
                base == -PHASES * ((ctx.taps - 1) \div 2)
    <3>1. /\ ~shortStart /\ (produced = 0 => ~(size < ctx.taps))
      BY <1>2, <1>5, <2>7
    <3>2. /\ TARGET \in Nat \ {0} /\ PHASES \in Nat \ {0}
          /\ ctx.incr \in Nat /\ ctx.taps \in Nat \ {0} /\ ctx.index \in Int
          /\ ctx'.incr = ctx.incr /\ ctx'.taps = ctx.taps
          /\ ctx'.index \in Int
      BY <1>2, <2>1, <2>3, FilterFits, ResamplerAssumption DEF ContextOf, Context
    <3>3. taken = r.consumed
      <4>1. produced > 0 \/ produced = 0
        BY <1>1
      <4>. HIDE DEF r, taken, size
      <4>. QED  BY <1>1, <2>1, <2>3, <2>4, <3>1, <3>2, <4>1
    <3>4. /\ passed * PHASES + ctx.index = base + y \div TARGET
          /\ ctx.frac = y % TARGET
      BY <1>5, <3>1 DEF IInv, NoDrift, Position
    <3>5. y \in Nat /\ z \in Nat /\ produced' * ctx'.incr = y + z
      <4>1. produced' * ctx'.incr = (produced + n) * ctx.incr
        BY <2>5, <3>2
      <4>. DEFINE i == ctx.incr
      <4>. HIDE DEF n, i
      <4>2. produced \in Nat /\ n \in Nat /\ i \in Nat
        BY <1>1, <2>3, <3>2 DEF i
      <4>3. (produced + n) * i = produced * i + n * i /\ produced * i \in Nat /\ n * i \in Nat
        BY <4>2
      <4>. QED  BY <4>1, <4>3 DEF i
    <3>6. x = (y % TARGET) + z
      BY <3>4
    <3>7. y \div TARGET + x \div TARGET = (y + z) \div TARGET /\ x % TARGET = (y + z) % TARGET
      <4>. HIDE DEF y, z, x
      <4>. QED  BY ZenonT(60), <3>2, <3>5, <3>6, DivisionSum
    <3>8. base \in Int
      BY <3>2
    <3>9. y \div TARGET \in Int /\ x \div TARGET \in Int
      <4>1. y \in Int /\ x \in Int
        <5>. HIDE DEF y, z, x
        <5>. QED  BY <3>2, <3>5, <3>6, Division
      <4>. HIDE DEF y, x
      <4>. QED  BY <3>2, <4>1, Division
    <3>10. passed' * PHASES + ctx'.index = base + (y + z) \div TARGET
      <4>1. passed' * PHASES = passed * PHASES + r.consumed * PHASES
        <5>. HIDE DEF r, taken
        <5>. QED  BY SMTT(30), <1>1, <1>2, <2>3, <3>2, <3>3
      <4>2. ctx'.index = r.ctx.index
        BY <1>2
      <4>. DEFINE a == passed * PHASES  e == r.consumed * PHASES
      <4>3. a \in Int /\ e \in Int
        <5>. HIDE DEF r
        <5>. QED  BY <1>1, <2>3, <3>2
      <4>4. /\ passed' * PHASES = a + e /\ a + ctx.index = base + y \div TARGET
            /\ e + ctx'.index = ctx.index + x \div TARGET
        BY <2>3, <3>4, <4>1, <4>2
      <4>. HIDE DEF a, e, x, y, z, base
      <4>. QED  BY <3>2, <3>7, <3>8, <3>9, <4>3, <4>4
    <3>11. ctx'.frac = (y + z) % TARGET
      BY <1>2, <2>3, <3>7
    <3>. HIDE DEF y, z
    <3>. QED  BY <3>2, <3>5, <3>10, <3>11
  <2>8. NoDrift'
    BY <2>7 DEF NoDrift, Position
  <2>. QED  BY <1>3, <2>4, <2>5, <2>6, <2>8
<1>. QED  BY <1>4, <1>5

\* Actions that leave what the resampler holds alone keep the position.
LEMMA SameResampler ==
    ASSUME IInv, UNCHANGED <<ctx, passed, produced, shortStart, dropped>>
    PROVE  ContextFits' /\ NoDrift' /\ NothingDropped'
BY DEF IInv, ContextFits, NoDrift, NothingDropped, Position

LEMMA ResetIInv ==
    ASSUME IInv, NEW rate \in Rates, NEW n \in Channels, Reset(rate, n)
    PROVE  IInv'
<1>1. /\ UsableRate(rate) /\ n \in Nat /\ pc = "idle" /\ pc' = pc
      /\ work' = work /\ tail' = tail
  BY RatesAssumption DEF Reset, UsableRate
<1>2. PICK context :
        /\ NewStream(context) /\ (context = NoContext \/ context = ResampleInit(rate))
        /\ channels' \in {channels, n}
  BY DEF Reset
<1>3. /\ buffer' = <<>> /\ leftover' = <<>> /\ ctx' = context
      /\ passed' = 0 /\ produced' = 0 /\ dropped' = FALSE
  BY <1>2 DEF NewStream
<1>4. Typed'
  BY <1>1, <1>2, <1>3, OneElement DEF IInv, Typed
<1>5. ContextFits' /\ NoDrift'
  <2>1. CASE context = NoContext
    BY <1>3, <2>1 DEF ContextFits, NoDrift, NoContext
  <2>2. CASE context = ResampleInit(rate)
    <3>1. /\ ContextOf(ctx', rate)
          /\ ctx'.index = -PHASES * ((ctx'.taps - 1) \div 2) + (0 * ctx'.incr) \div TARGET
          /\ ctx'.frac = (0 * ctx'.incr) % TARGET
      BY <1>1, <1>3, <2>2, NewContext
    <3>2. ContextFits'
      BY <1>1, <1>3, <3>1 DEF ContextFits
    <3>3. 0 * PHASES + ctx'.index = ctx'.index
      BY <3>1, ResamplerAssumption DEF ContextOf, Context
    <3>4. /\ passed' * PHASES + ctx'.index
               = -PHASES * ((ctx'.taps - 1) \div 2) + (produced' * ctx'.incr) \div TARGET
          /\ ctx'.frac = (produced' * ctx'.incr) % TARGET
      BY <1>3, <3>1, <3>3, Zenon
    <3>. QED  BY <3>2, <3>4 DEF NoDrift, Position
  <2>. QED  BY <1>2, <2>1, <2>2
<1>. QED  BY <1>3, <1>4, <1>5 DEF IInv, NothingDropped

\* The complete frames of a sequence, and what is after them.
LEMMA CutIntoFrames ==
    ASSUME NEW s, IsSeq(s), channels \in Nat \ {0}
    PROVE  IsSeq(Frames(s)) /\ IsSeq(Rest(s))
<1>1. Len(s) \in Nat
  BY DEF IsSeq
<1>. DEFINE k == Len(s) \div channels
            m == Len(s) % channels
<1>2. k \in Int /\ m \in Int
  BY <1>1, Division
<1>3. IsSeq(Frames(s))
  <2>1. Frames(s) = [f \in 1 .. k |-> SubSeq(s, (f - 1) * channels + 1, f * channels)]
    BY DEF Frames
  <2>. HIDE DEF k
  <2>. QED  BY <1>2, <2>1, FunctionIsSeq
<1>4. IsSeq(Rest(s))
  <2>1. Rest(s) = SubSeq(s, (Len(s) - m) + 1, Len(s))
    BY DEF Rest
  <2>2. (Len(s) - m) + 1 \in Int /\ Len(s) \in Int
    <3>. HIDE DEF m
    <3>. QED  BY <1>1, <1>2
  <2>. HIDE DEF m
  <2>. QED  BY <2>1, <2>2, Part
<1>. QED  BY <1>3, <1>4

LEMMA ConsumeIInv ==
    ASSUME IInv, NEW n \in Feeds, Consume(n)
    PROVE  IInv'
<1>. DEFINE input == [i \in 1 .. n |-> received + i]
            taken == Min({n, channels - Len(leftover)})
            first == leftover \o SubSeq(input, 1, taken)
<1>1. /\ n \in Nat /\ channels \in Nat \ {0} /\ channels' = channels
      /\ IsSeq(leftover) /\ Len(leftover) \in Nat
      /\ UNCHANGED <<buffer, ctx, passed, produced, shortStart, dropped>>
  BY RatesAssumption, Joined DEF IInv, Typed, Consume
<1>2. IsSeq(input)
  BY <1>1, FunctionIsSeq
<1>3. taken \in Int
  <2>. DEFINE l == channels - Len(leftover)
  <2>1. l \in Int /\ n \in Int
    BY <1>1
  <2>. HIDE DEF l
  <2>2. Min({n, l}) \in {n, l}
    BY <2>1, MinOfTwo
  <2>3. Min({n, l}) \in Int
    BY <2>1, <2>2
  <2>. QED  BY <2>3 DEF l
<1>4. IsSeq(first) /\ IsSeq(SubSeq(input, taken + 1, n))
  <2>. HIDE DEF input, taken
  <2>1. IsSeq(SubSeq(input, 1, taken)) /\ IsSeq(SubSeq(input, taken + 1, n))
    BY <1>1, <1>3, Part
  <2>. QED  BY <1>1, <2>1, Joined
<1>5. \/ StartBody(input) /\ UNCHANGED leftover
      \/ leftover' = first /\ UNCHANGED <<pc, work, tail>>
      \/ work' = <<first>> /\ tail' = SubSeq(input, taken + 1, n) /\ UNCHANGED leftover
  BY DEF Consume
<1>6. IsSeq(leftover') /\ IsSeq(work') /\ IsSeq(tail')
  <2>1. CASE StartBody(input) /\ UNCHANGED leftover
    <3>. HIDE DEF input
    <3>. QED  BY <1>1, <1>2, <2>1, CutIntoFrames DEF StartBody
  <2>2. CASE leftover' = first /\ UNCHANGED <<pc, work, tail>>
    <3>. HIDE DEF first
    <3>. QED  BY <1>4, <2>2 DEF IInv, Typed
  <2>3. CASE work' = <<first>> /\ tail' = SubSeq(input, taken + 1, n) /\ UNCHANGED leftover
    <3>. HIDE DEF first, input, taken
    <3>. QED  BY <1>1, <1>4, <2>3, OneElement
  <2>. QED  BY <1>5, <2>1, <2>2, <2>3
<1>7. Typed'
  BY <1>1, <1>6 DEF IInv, Typed
<1>. QED  BY <1>1, <1>7, SameResampler DEF IInv

LEMMA LoadFramesIInv ==
    ASSUME IInv, LoadFrames
    PROVE  IInv'
<1>. DEFINE n == Min({Len(work), Room})
            loaded == buffer \o SubSeq(work, 1, n)
            left == SubSeq(work, n + 1, Len(work))
<1>1. /\ IsSeq(buffer) /\ IsSeq(work) /\ Len(buffer) \in Nat /\ Len(work) \in Nat
      /\ BUFFER \in Nat \ {0}
  BY Joined, BufferAssumption DEF IInv, Typed
<1>2. n \in Int
  <2>1. Room \in Int
    BY <1>1 DEF Room
  <2>2. n \in {Len(work), Room}
    <3>1. Len(work) \in Int
      BY <1>1
    <3>. QED  BY <2>1, <3>1, MinOfTwo
  <2>. QED  BY <1>1, <2>1, <2>2
<1>3. IsSeq(loaded) /\ IsSeq(left)
  <2>. HIDE DEF n
  <2>1. IsSeq(SubSeq(work, 1, n)) /\ IsSeq(SubSeq(work, n + 1, Len(work)))
    BY <1>1, <1>2, Part
  <2>. QED  BY <1>1, <2>1, Joined
<1>4. /\ UNCHANGED <<pc, leftover, channels, tail>>
      /\ \/ /\ buffer' = loaded /\ work' = left
            /\ UNCHANGED <<ctx, passed, produced, shortStart, dropped>>
         \/ /\ Len(loaded) = BUFFER /\ Resample(loaded)
            /\ work' = IF Len(buffer') = BUFFER THEN <<>> ELSE left
            /\ dropped' = (dropped \/ (work' # left))
  BY DEF LoadFrames
<1>5. CASE /\ buffer' = loaded /\ work' = left
           /\ UNCHANGED <<ctx, passed, produced, shortStart, dropped>>
  <2>1. Typed'
    <3>. HIDE DEF loaded, left
    <3>. QED  BY <1>3, <1>4, <1>5 DEF IInv, Typed
  <2>. QED  BY <1>5, <2>1, SameResampler DEF IInv
<1>6. CASE /\ Len(loaded) = BUFFER /\ Resample(loaded)
           /\ work' = IF Len(buffer') = BUFFER THEN <<>> ELSE left
           /\ dropped' = (dropped \/ (work' # left))
  <2>. HIDE DEF loaded, left
  <2>1. /\ IsSeq(buffer') /\ passed' \in Nat /\ produced' \in Nat
        /\ ContextFits' /\ NoDrift' /\ Len(buffer') # BUFFER
    BY <1>3, <1>6, ResampleIInv
  <2>2. work' = left
    BY <1>6, <2>1
  <2>3. Typed'
    BY <1>3, <1>4, <2>1, <2>2 DEF IInv, Typed
  <2>4. NothingDropped'
    BY <1>6, <2>2 DEF IInv, NothingDropped
  <2>. QED  BY <2>1, <2>3, <2>4 DEF IInv
<1>. QED  BY <1>4, <1>5, <1>6

LEMMA StepIInv == IInv /\ [Next]_vars => IInv'
<1>. SUFFICES ASSUME IInv, [Next]_vars PROVE IInv'
  OBVIOUS
<1>1. ASSUME NEW rate \in Rates, NEW n \in Channels, Reset(rate, n)
      PROVE  IInv'
  BY <1>1, ResetIInv
<1>2. CASE UNCHANGED vars
  <2>1. Typed'
    BY <1>2 DEF vars, IInv, Typed
  <2>. QED  BY <1>2, <2>1, SameResampler DEF vars, IInv
<1>3. ASSUME NEW rate \in Rates, NEW n \in Channels, Rejected(rate, n)
      PROVE  IInv'
  BY <1>2, <1>3 DEF Rejected
<1>4. ASSUME NEW n \in Feeds, Consume(n)
      PROVE  IInv'
  BY <1>4, ConsumeIInv
<1>5. CASE LoadFrames
  BY <1>5, LoadFramesIInv
<1>6. CASE CarryDone
  <2>1. channels \in Nat \ {0} /\ IsSeq(tail) /\ StartBody(tail) /\ leftover' = <<>>
        /\ UNCHANGED <<buffer, channels, ctx, passed, produced, shortStart, dropped>>
    BY <1>6 DEF CarryDone, IInv, Typed
  <2>2. Typed'
    <3>1. IsSeq(work') /\ IsSeq(tail')
      BY <2>1, CutIntoFrames DEF StartBody
    <3>2. IsSeq(leftover') /\ IsSeq(buffer')
      BY <2>1, OneElement DEF IInv, Typed
    <3>. QED  BY <2>1, <3>1, <3>2 DEF IInv, Typed
  <2>. QED  BY <2>1, <2>2, SameResampler DEF IInv
<1>7. CASE BodyDone
  <2>1. Typed'
    BY <1>7, OneElement DEF BodyDone, IInv, Typed
  <2>. QED  BY <1>7, <2>1, SameResampler DEF BodyDone, IInv
<1>8. CASE Flush
  <2>1. /\ IsSeq(buffer) /\ Resample(buffer)
        /\ UNCHANGED <<pc, leftover, channels, work, tail, dropped>>
    BY <1>8 DEF Flush, IInv, Typed
  <2>2. /\ IsSeq(buffer') /\ passed' \in Nat /\ produced' \in Nat
        /\ ContextFits' /\ NoDrift'
    BY <2>1, ResampleIInv
  <2>3. Typed' /\ NothingDropped'
    BY <2>1, <2>2 DEF IInv, Typed, NothingDropped
  <2>. QED  BY <2>2, <2>3 DEF IInv
<1>. QED  BY <1>1, <1>2, <1>3, <1>4, <1>5, <1>6, <1>7, <1>8 DEF Next

\* audio_processor.cpp, Resample: sample number n is centred on frame
\* n * rate / TARGET of the stream, whatever calls it was made in: the
\* position carried from call to call does not drift, for every rate.
THEOREM PositionIsKept == Spec => []NoDrift
<1>1. IInv => NoDrift
  BY DEF IInv
<1>. QED  BY InitIInv, StepIInv, <1>1, PTL DEF Spec

\* audio_processor.cpp:199: "Resampling failed?" never comes true: of a full
\* buffer the resampler always takes a frame, so no input is given up.
THEOREM NoInputGivenUp == Spec => []NothingDropped
<1>1. IInv => NothingDropped
  BY DEF IInv
<1>. QED  BY InitIInv, StepIInv, <1>1, PTL DEF Spec

-----------------------------------------------------------------------------
(* The loop of av_resample.  The closed form that Resampler uses for its   *)
(* position is the loop: no iteration starts from a different position or  *)
(* fraction than the formula says.                                         *)

\* Division with remainder: adding a number below the divisor, and carrying,
\* is the quotient and the remainder of the sum.
LEMMA DivMod ==
    ASSUME NEW x \in Nat
    PROVE  /\ x \div TARGET \in Nat /\ x % TARGET \in 0 .. TARGET - 1
           /\ x = TARGET * (x \div TARGET) + (x % TARGET)
BY ResamplerAssumption

LEMMA DivModUnique ==
    ASSUME NEW q \in Nat, NEW r \in 0 .. TARGET - 1
    PROVE  /\ (TARGET * q + r) \div TARGET = q
           /\ (TARGET * q + r) % TARGET = r
BY ResamplerAssumption

LEMMA DivModSum ==
    ASSUME NEW x \in Nat, NEW y \in Nat
    PROVE  LET frac == (x % TARGET) + (y % TARGET)
               carry == IF frac >= TARGET THEN 1 ELSE 0
           IN /\ (x + y) \div TARGET = x \div TARGET + y \div TARGET + carry
              /\ (x + y) % TARGET = frac - carry * TARGET
<1>. DEFINE q == x \div TARGET + y \div TARGET
            r == (x % TARGET) + (y % TARGET)
<1>1. /\ TARGET \in Nat \ {0} /\ q \in Nat /\ r \in 0 .. 2 * TARGET - 2
      /\ x + y = TARGET * q + r
  <2>1. /\ x \div TARGET \in Nat /\ x % TARGET \in 0 .. TARGET - 1
        /\ y \div TARGET \in Nat /\ y % TARGET \in 0 .. TARGET - 1
        /\ x = TARGET * (x \div TARGET) + (x % TARGET)
        /\ y = TARGET * (y \div TARGET) + (y % TARGET)
    BY DivMod
  <2>2. TARGET \in Nat \ {0}
    BY ResamplerAssumption
  <2>. QED  BY <2>1, <2>2
<1>2. /\ (x + y) \div TARGET = IF r < TARGET THEN q ELSE q + 1
      /\ (x + y) % TARGET = IF r < TARGET THEN r ELSE r - TARGET
  <2>. HIDE DEF q, r
  <2>1. CASE r < TARGET
    <3>1. r \in 0 .. TARGET - 1
      BY <1>1, <2>1
    <3>. QED  BY <1>1, <2>1, <3>1, DivModUnique
  <2>2. CASE r >= TARGET
    <3>1. r - TARGET \in 0 .. TARGET - 1 /\ q + 1 \in Nat
      BY <1>1, <2>2
    <3>2. x + y = TARGET * (q + 1) + (r - TARGET)
      BY <1>1
    <3>3. (x + y) \div TARGET = q + 1 /\ (x + y) % TARGET = r - TARGET
      BY <3>1, <3>2, DivModUnique
    <3>. QED  BY <1>1, <2>2, <3>3
  <2>. QED  BY <1>1, <2>1, <2>2
<1>. QED  BY <1>1, <1>2

\* resample2.c, av_resample: an iteration that starts from the closed form for
\* k iterations ends in the closed form for k + 1, frac and carry included.
THEOREM LoopStep ==
    ASSUME NEW c \in Context, NEW k \in Nat
    PROVE  Advance(After(c, k)) = After(c, k + 1)
<1>. DEFINE x == c.frac + k * c.incr
<1>1. /\ c.index \in Int /\ c.incr \in Nat /\ c.frac \in 0 .. TARGET - 1
      /\ TARGET \in Nat \ {0}
  BY ResamplerAssumption DEF Context
<1>2. x \in Nat /\ c.frac + (k + 1) * c.incr = x + c.incr
  BY <1>1
<1>. DEFINE a == After(c, k)
            frac == (x % TARGET) + (c.incr % TARGET)
            carry == IF frac >= TARGET THEN 1 ELSE 0
<1>3. /\ (x + c.incr) \div TARGET = x \div TARGET + c.incr \div TARGET + carry
      /\ (x + c.incr) % TARGET = frac - carry * TARGET
      /\ x \div TARGET \in Nat /\ c.incr \div TARGET \in Nat
  BY <1>1, <1>2, DivMod, DivModSum
<1>4. /\ a = [c EXCEPT !.index = c.index + x \div TARGET, !.frac = x % TARGET]
      /\ a.index = c.index + x \div TARGET /\ a.frac = x % TARGET /\ a.incr = c.incr
  BY DEF After, Context
<1>5. Advance(a) = [a EXCEPT !.index = a.index + c.incr \div TARGET + carry,
                             !.frac = frac - carry * TARGET]
  BY <1>4 DEF Advance
<1>6. After(c, k + 1) = [c EXCEPT !.index = c.index + (x + c.incr) \div TARGET,
                                  !.frac = (x + c.incr) % TARGET]
  BY <1>2 DEF After
<1>7. a.index + c.incr \div TARGET + carry = c.index + (x + c.incr) \div TARGET
  <2>. HIDE DEF carry
  <2>1. carry \in Int
    BY DEF carry
  <2>. QED  BY <1>1, <1>3, <1>4, <2>1
<1>8. Advance(a) = After(c, k + 1)
  <2>. HIDE DEF a, x, carry, frac
  <2>. QED  BY <1>3, <1>4, <1>5, <1>6, <1>7 DEF Context
<1>. QED  BY <1>8

\* resample2.c, av_resample: before the first iteration the closed form is the
\* context itself.
THEOREM LoopStart ==
    ASSUME NEW c \in Context
    PROVE  After(c, 0) = c
<1>1. /\ c.index \in Int /\ c.incr \in Nat /\ c.frac \in 0 .. TARGET - 1
      /\ TARGET \in Nat \ {0}
  BY ResamplerAssumption DEF Context
<1>2. c.frac + 0 * c.incr = c.frac /\ c.frac = TARGET * 0 + c.frac
  BY <1>1
<1>3. c.frac \div TARGET = 0 /\ c.frac % TARGET = c.frac
  BY <1>1, <1>2, DivModUnique
<1>4. After(c, 0) = [c EXCEPT !.index = c.index, !.frac = c.frac]
  <2>1. c.index + (c.frac + 0 * c.incr) \div TARGET = c.index
    <3>1. (c.frac + 0 * c.incr) \div TARGET = 0
      BY <1>2, <1>3, Zenon
    <3>. DEFINE q == (c.frac + 0 * c.incr) \div TARGET
    <3>. HIDE DEF q
    <3>2. q = 0 => c.index + q = c.index
      BY <1>1
    <3>. QED  BY <3>1, <3>2 DEF q
  <2>2. (c.frac + 0 * c.incr) % TARGET = c.frac
    BY <1>2, <1>3
  <2>. QED  BY <2>1, <2>2, Zenon DEF After
<1>. QED  BY <1>4 DEF Context

-----------------------------------------------------------------------------
(* The frames of the stream that each sample is made of.                   *)

\* Position, with the context as a parameter.
PositionIn(c, n) == -PHASES * ((c.taps - 1) \div 2) + (n * c.incr) \div TARGET

\* A sample made with that phase of the filter, of the frames around that
\* position, those before the first one mirrored.
CentredOn(sample, taps, chan, pos) ==
    /\ sample.phase = pos % PHASES
    /\ sample.taps = [i \in 0 .. taps - 1 |-> FrameOf(chan, Abs(SampleIndex(pos) + i))]

-----------------------------------------------------------------------------
(* One sample.                                                             *)

LEMMA ShiftByFrames ==
    ASSUME NEW x \in Int, NEW p \in Int
    PROVE  /\ SampleIndex(p * PHASES + x) = p + SampleIndex(x)
           /\ (p * PHASES + x) % PHASES = x % PHASES
<1>. DEFINE s == SampleIndex(x)
            r == x % PHASES
            a == p + s
<1>1. PHASES \in Nat \ {0} /\ s \in Int /\ r \in 0 .. PHASES - 1 /\ x = PHASES * s + r
  BY PhaseOf, ResamplerAssumption
<1>2. p * PHASES + x = PHASES * a + r /\ a \in Int
  <2>. HIDE DEF s, r
  <2>1. PHASES * (p + s) = p * PHASES + PHASES * s /\ p * PHASES \in Int /\ PHASES * s \in Int
    BY <1>1
  <2>. QED  BY <1>1, <2>1
<1>3. (PHASES * a + r) \div PHASES = a /\ (PHASES * a + r) % PHASES = r
  <2>. HIDE DEF a, r
  <2>. QED  BY <1>1, <1>2, DivisionUnique
<1>4. SampleIndex(p * PHASES + x) = a /\ (p * PHASES + x) % PHASES = r
  <2>. HIDE DEF a, r
  <2>. QED  BY <1>2, <1>3 DEF SampleIndex
<1>. QED  BY <1>4

\* Within a call, sample number k is at the position of its number in the
\* stream.
LEMMA PositionOfOutput ==
    ASSUME NEW rate, UsableRate(rate), NEW c, ContextOf(c, rate),
           NEW p \in Nat, NEW m \in Nat, NEW k \in Nat,
           p * PHASES + c.index = PositionIn(c, m), c.frac = (m * c.incr) % TARGET
    PROVE  /\ After(c, k).index \in Int /\ c.index <= After(c, k).index
           /\ PositionIn(c, m + k) = p * PHASES + After(c, k).index
<1>. DEFINE a == After(c, k).index
            base == -PHASES * ((c.taps - 1) \div 2)
            y == m * c.incr
            z == k * c.incr
<1>1. /\ TARGET \in Nat \ {0} /\ PHASES \in Nat \ {0}
      /\ c.incr \in Nat /\ c.taps \in Nat \ {0} /\ c.index \in Int
  BY AfterFields, ResamplerAssumption DEF ContextOf, Context
<1>2. /\ a = c.index + (c.frac + z) \div TARGET
      /\ (c.frac + z) \div TARGET \in Nat
  BY AfterFields
<1>3. y \in Nat /\ z \in Nat /\ (m + k) * c.incr = y + z
  <2>. DEFINE i == c.incr
  <2>1. i \in Nat
    BY <1>1
  <2>. HIDE DEF i
  <2>2. m * i \in Nat /\ k * i \in Nat /\ (m + k) * i = m * i + k * i
    BY <2>1
  <2>. QED  BY <2>2 DEF i
<1>4. y \div TARGET + (c.frac + z) \div TARGET = (y + z) \div TARGET
  <2>1. c.frac = y % TARGET
    OBVIOUS
  <2>2. y \div TARGET + ((y % TARGET) + z) \div TARGET = (y + z) \div TARGET
    <3>1. TARGET \in Nat \ {0} /\ y \in Nat /\ z \in Nat
      BY <1>1, <1>3, Zenon
    <3>. HIDE DEF y, z
    <3>. QED  BY <3>1, DivisionSum, Zenon
  <2>. QED  BY <2>1, <2>2, Zenon
<1>5. /\ p * PHASES + c.index = base + y \div TARGET
      /\ PositionIn(c, m + k) = base + (y + z) \div TARGET
  BY <1>3 DEF PositionIn
<1>6. base \in Int /\ y \div TARGET \in Int /\ p * PHASES \in Int
  <2>1. base \in Int /\ p * PHASES \in Int
    BY <1>1
  <2>2. y \div TARGET \in Int
    <3>1. y \in Int
      <4>. HIDE DEF y
      <4>. QED  BY <1>3
    <3>. HIDE DEF y
    <3>. QED  BY <1>1, <3>1, Division
  <2>. QED  BY <2>1, <2>2
<1>7. a \in Int /\ c.index <= a
  <2>. DEFINE d == (c.frac + z) \div TARGET
  <2>1. a = c.index + d /\ d \in Nat
    BY <1>2
  <2>. HIDE DEF a, d
  <2>. QED  BY <1>1, <2>1
<1>8. PositionIn(c, m + k) = p * PHASES + a
  <2>. DEFINE d == (c.frac + z) \div TARGET
              e == y \div TARGET
              g == (y + z) \div TARGET
              v == p * PHASES
  <2>1. /\ a = c.index + d /\ d \in Nat /\ e + d = g /\ v + c.index = base + e
        /\ PositionIn(c, m + k) = base + g /\ e \in Int /\ v \in Int /\ base \in Int
        /\ c.index \in Int
    BY <1>1, <1>2, <1>4, <1>5, <1>6
  <2>. HIDE DEF a, d, e, g, v, base
  <2>2. base + g = v + a
    BY <2>1
  <2>3. PositionIn(c, m + k) = v + a
    BY <2>1, <2>2
  <2>. QED  BY <2>3 DEF v
<1>. QED  BY <1>7, <1>8

\* A sample whose filter does not read past the source is made of the frames
\* around its position in the stream.
\* The frames of b are those of the stream from number p on.
FramesFrom(b, chan, p) == \A f \in 1 .. Len(b) : b[f] = FrameOf(chan, p + f - 1)

LEMMA OneOutput ==
    ASSUME NEW rate, UsableRate(rate), NEW c, ContextOf(c, rate),
           NEW p \in Nat, NEW m \in Nat, NEW k \in Nat,
           p * PHASES + c.index = PositionIn(c, m), c.frac = (m * c.incr) % TARGET,
           NEW b, Len(b) \in Nat, NEW chan,
           FramesFrom(b, chan, p),
           m > 0 => c.index >= 0, m = 0 => Len(b) >= c.taps,
           ~OutOfSource(After(c, k), Len(b))
    PROVE  CentredOn(Output(After(c, k), b), c.taps, chan, PositionIn(c, m + k))
<1>. DEFINE a == After(c, k).index
            s == SampleIndex(a)
            pos == PositionIn(c, m + k)
            h == Half(c.taps)
            size == Len(b)
            from(i) == 1 + IF s < 0 THEN Abs(s + i) % Len(b) ELSE s + i
<1>1. /\ TARGET \in Nat \ {0} /\ PHASES \in Nat \ {0}
      /\ c.taps \in Nat \ {0} /\ c.index \in Int
      /\ h \in Nat /\ -PHASES * h <= c.index /\ size \in Nat
  BY AfterFields, FilterFits, ResamplerAssumption DEF ContextOf, Context
<1>2. a \in Int /\ c.index <= a /\ pos = p * PHASES + a
  BY PositionOfOutput
<1>3. SampleIndex(pos) = p + s /\ pos % PHASES = a % PHASES /\ s \in Int
  <2>. HIDE DEF a, pos
  <2>. QED  BY <1>2, ShiftByFrames, PhaseOf
<1>4. /\ Output(After(c, k), b).phase = a % PHASES
      /\ Output(After(c, k), b).taps = [i \in 0 .. c.taps - 1 |-> b[from(i)]]
  <2>1. After(c, k).taps = c.taps
    BY AfterFields
  <2>. QED  BY <2>1 DEF Output
<1>5. ASSUME NEW i \in 0 .. c.taps - 1
      PROVE  b[from(i)] = FrameOf(chan, Abs(SampleIndex(pos) + i))
  <2>1. CASE s >= 0
    <3>1. s + c.taps <= size
      <4>1. After(c, k).taps = c.taps
        BY AfterFields
      <4>2. ~(s + c.taps > size)
        BY <2>1, <4>1, Zenon DEF OutOfSource
      <4>. DEFINE t == c.taps
      <4>3. s \in Int /\ t \in Int /\ size \in Int /\ ~(s + t > size)
        BY <1>1, <1>3, <4>2
      <4>. HIDE DEF s, t, size
      <4>4. s + t <= size
        BY <4>3
      <4>. QED  BY <4>4 DEF t
    <3>2. from(i) = 1 + (s + i)
      <4>. HIDE DEF s
      <4>. QED  BY <1>3, <2>1
    <3>3. /\ 1 + (s + i) \in 1 .. size /\ p + (1 + (s + i)) - 1 = p + s + i
          /\ p + s + i >= 0 /\ p + s + i \in Int
      <4>. DEFINE t == c.taps
      <4>1. s \in Int /\ s >= 0 /\ size \in Int /\ t \in Int /\ s + t <= size /\ i \in 0 .. t - 1
        BY <1>1, <1>3, <2>1, <3>1
      <4>. HIDE DEF s, size, t
      <4>2. i \in Int /\ 0 <= i /\ i <= t - 1
        BY <4>1
      <4>. QED  BY <4>1, <4>2
    <3>4. b[1 + (s + i)] = FrameOf(chan, p + s + i)
      <4>. DEFINE f == 1 + (s + i)
      <4>1. f \in 1 .. size /\ p + f - 1 = p + s + i
        BY <3>3
      <4>2. b[f] = FrameOf(chan, p + f - 1)
        <5>. HIDE DEF f
        <5>. QED  BY <4>1 DEF FramesFrom
      <4>. QED  BY <4>1, <4>2
    <3>5. Abs(SampleIndex(pos) + i) = p + s + i
      <4>1. SampleIndex(pos) + i = p + s + i
        BY <1>3
      <4>2. ~(p + s + i < 0)
        <5>. DEFINE v == p + s + i
        <5>1. v >= 0 /\ v \in Int
          BY <3>3
        <5>. HIDE DEF v
        <5>2. ~(v < 0)
          BY <5>1
        <5>. QED  BY <5>2 DEF v
      <4>. QED  BY <4>1, <4>2, Zenon DEF Abs
    <3>. QED  BY <3>2, <3>4, <3>5
  <2>2. CASE s < 0
    <3>1. c.index < 0 /\ m = 0 /\ size >= c.taps
      <4>1. a < 0
        <5>. HIDE DEF a
        <5>. QED  BY <1>2, <2>2, PhaseSigns
      <4>2. c.index < 0
        <5>. DEFINE x == c.index
        <5>1. x \in Int /\ a \in Int /\ x <= a
          BY <1>1, <1>2
        <5>. HIDE DEF a, x
        <5>2. x < 0
          BY <4>1, <5>1
        <5>. QED  BY <5>2 DEF x
      <4>3. m = 0
        <5>. DEFINE x == c.index
        <5>1. x \in Int /\ x < 0 /\ (m > 0 => x >= 0)
          BY <1>1, <4>2
        <5>. HIDE DEF x
        <5>. QED  BY <5>1
      <4>. QED  BY <4>2, <4>3, Zenon
    <3>2. p = 0
      <4>1. PositionIn(c, 0) = -PHASES * h
        <5>1. 0 * c.incr = 0 /\ 0 \div TARGET = 0
          <6>1. c.incr \in Nat /\ \A x \in Nat : 0 * x = 0
            BY AfterFields
          <6>2. TARGET \in Nat \ {0} /\ 0 \in 0 .. TARGET - 1
            BY <1>1
          <6>3. 0 \div TARGET = 0
            BY <6>2, SmallQuotient
          <6>. QED  BY <6>1, <6>3, Zenon
        <5>2. PositionIn(c, 0) = -PHASES * h + 0
          BY <5>1 DEF PositionIn, Half
        <5>3. -PHASES * h \in Int
          <6>. HIDE DEF h
          <6>. QED  BY <1>1
        <5>. DEFINE v == -PHASES * h
        <5>. HIDE DEF v
        <5>4. v \in Int => v + 0 = v
          OBVIOUS
        <5>. QED  BY <5>2, <5>3, <5>4 DEF v
      <4>2. p * PHASES + c.index <= c.index
        BY <1>1, <3>1, <4>1
      <4>. DEFINE v == p * PHASES
      <4>3. v \in Int /\ (p > 0 => v >= PHASES)
        BY <1>1
      <4>4. v + c.index <= c.index
        BY <4>2
      <4>. HIDE DEF v, h
      <4>5. v <= 0
        BY <1>1, <4>3, <4>4
      <4>. QED  BY <1>1, <4>3, <4>5
    <3>3. -h <= s
      <4>1. PHASES * (-h) <= a /\ -h \in Int
        <5>1. PHASES * (-h) = -PHASES * h /\ -h \in Int /\ -PHASES * h \in Int
          <6>. HIDE DEF h
          <6>. QED  BY <1>1
        <5>. DEFINE v == -PHASES * h
        <5>2. v <= c.index /\ v \in Int
          BY <1>1, <5>1
        <5>. HIDE DEF v, a
        <5>3. v <= a
          BY <1>1, <1>2, <5>2
        <5>. QED  BY <5>1, <5>3 DEF v
      <4>. HIDE DEF a, h
      <4>. QED  BY <1>2, <4>1, PhaseOf
    <3>4. h <= c.taps - 1
      <4>. DEFINE t == c.taps - 1
      <4>1. t \in Nat
        BY <1>1
      <4>. HIDE DEF t
      <4>2. t \div 2 <= t
        BY <4>1
      <4>. QED  BY <4>2 DEF Half, t
    <3>5. Abs(s + i) \in 0 .. size - 1 /\ size \in Nat \ {0}
      <4>. HIDE DEF s, h, size
      <4>. QED  BY <1>1, <1>3, <2>2, <3>1, <3>3, <3>4 DEF Abs
    <3>6. from(i) = 1 + Abs(s + i)
      <4>1. from(i) = 1 + (Abs(s + i) % size)
        BY <2>2
      <4>2. Abs(s + i) % size = Abs(s + i)
        <5>. DEFINE v == Abs(s + i)
        <5>. HIDE DEF v, size
        <5>1. v % size = v
          BY <3>5, SmallQuotient DEF v
        <5>. QED  BY <5>1 DEF v
      <4>. QED  BY <4>1, <4>2
    <3>7. b[1 + Abs(s + i)] = FrameOf(chan, Abs(s + i))
      <4>. DEFINE v == Abs(s + i)
                  f == 1 + v
      <4>1. f \in 1 .. size /\ p + f - 1 = v
        <5>1. v \in 0 .. size - 1 /\ size \in Nat
          BY <3>5
        <5>. HIDE DEF v, size
        <5>. QED  BY <3>2, <5>1
      <4>2. b[f] = FrameOf(chan, p + f - 1)
        <5>. HIDE DEF f
        <5>. QED  BY <4>1 DEF FramesFrom
      <4>. QED  BY <4>1, <4>2
    <3>8. SampleIndex(pos) = s
      <4>. HIDE DEF s, pos
      <4>. QED  BY <1>3, <3>2
    <3>. QED  BY <3>6, <3>7, <3>8
  <2>. HIDE DEF s
  <2>. QED  BY <1>3, <2>1, <2>2
<1>6. [i \in 0 .. c.taps - 1 |-> b[from(i)]]
        = [i \in 0 .. c.taps - 1 |-> FrameOf(chan, Abs(SampleIndex(pos) + i))]
  <2>. HIDE DEF from, pos
  <2>. QED  BY <1>5
<1>. QED  BY <1>3, <1>4, <1>6 DEF CentredOn

-----------------------------------------------------------------------------
(* What the processor holds, and what it gave last.                        *)

Phases ==
    /\ pc \in {"idle", "carry", "body"}
    /\ pc = "idle" => work = <<>>
    /\ pc = "body" => leftover = <<>>
    /\ pc # "carry" => Held = <<>> \/ Len(Held) < channels
    /\ Len(buffer) < BUFFER
    /\ leftover = <<>> \/ Len(leftover) < channels
    /\ channels \in Channels \cup {0}

\* Sample number n, made in the context c of frames of chan samples.
IsIdeal(sample, c, chan, n) ==
    IF c = NoContext
      THEN sample = FrameOf(chan, n)
      ELSE CentredOn(sample, c.taps, chan, PositionIn(c, n))

BatchInv ==
    /\ ctx = NoContext => produced = passed
    /\ ~shortStart =>
         \A j \in 1 .. Len(batch) :
            IsIdeal(batch[j], ctx, channels, produced - Len(batch) + j - 1)

FInv == IInv /\ BufferIsNext /\ WorkIsNext /\ HeldIsNext /\ Phases /\ BatchInv

LEMMA FInvIsIdeal == BatchInv => BatchIsIdeal
BY DEF BatchInv, BatchIsIdeal, IsIdeal, CentredOn, PositionIn, Position

LEMMA InitFInv == Init => FInv
<1>. SUFFICES ASSUME Init PROVE FInv
  OBVIOUS
<1>1. /\ buffer = <<>> /\ leftover = <<>> /\ work = <<>> /\ batch = <<>> /\ Len(<<>>) = 0
      /\ pc = "idle" /\ channels = 0 /\ ctx = NoContext
      /\ passed = 0 /\ produced = 0 /\ received = 0
      /\ BUFFER \in Nat \ {0}
  BY BufferAssumption DEF Init
<1>2. Held = <<>> /\ Complete = 0
  BY <1>1 DEF Held, Complete
<1>3. BufferIsNext /\ WorkIsNext /\ HeldIsNext
  BY <1>1, <1>2 DEF BufferIsNext, WorkIsNext, HeldIsNext
<1>4. Phases
  BY <1>1, <1>2 DEF Phases
<1>5. BatchInv
  BY <1>1 DEF BatchInv
<1>. QED  BY <1>3, <1>4, <1>5, InitIInv DEF FInv

\* A call of Resample: the frames that remain are the next ones of the stream,
\* and the samples it gave are the ideal ones.
LEMMA ResampleFInv ==
    ASSUME IInv, BatchInv, NEW b, IsSeq(b),
           \A f \in 1 .. Len(b) : b[f] = FrameOf(channels, passed + f - 1),
           Resample(b), channels' = channels
    PROVE  /\ passed' + Len(buffer') = passed + Len(b)
           /\ Len(buffer') \in Nat /\ Len(buffer') <= Len(b)
           /\ BufferIsNext' /\ BatchInv'
<1>. DEFINE r == Resampled(b)
            taken == Min({r.consumed, Len(b)})
            size == Len(b)
<1>1. /\ size \in Nat /\ BUFFER \in Nat \ {0} /\ passed \in Nat /\ produced \in Nat
  BY BufferAssumption, OneElement, Joined DEF IInv, Typed
<1>2. /\ buffer' = SubSeq(b, taken + 1, size) /\ ctx' = r.ctx /\ batch' = r.out
      /\ passed' = passed + taken /\ produced' = produced + Len(r.out)
      /\ shortStart' = (shortStart \/ (ctx # NoContext /\ produced = 0 /\ size < ctx.taps))
  BY DEF Resample, Remaining, Taken
<1>3. ASSUME taken \in 0 .. size
      PROVE  /\ passed' + Len(buffer') = passed + Len(b)
             /\ Len(buffer') \in Nat /\ Len(buffer') <= Len(b)
             /\ BufferIsNext'
  <2>. DEFINE S == {b[i] : i \in taken + 1 .. size}
  <2>1. taken + 1 \in Int /\ size \in Int /\ taken \in Nat
    <3>. HIDE DEF taken, size
    <3>. QED  BY <1>1, <1>3
  <2>2. \A i \in taken + 1 .. size : b[i] \in S
    OBVIOUS
  <2>3. /\ Len(buffer') = IF taken + 1 <= size THEN size - (taken + 1) + 1 ELSE 0
        /\ \A f \in 1 .. size - (taken + 1) + 1 : buffer'[f] = b[(taken + 1) + f - 1]
    <3>. HIDE DEF taken, size, S
    <3>. QED  BY <1>2, <2>1, <2>2, SubSeqProperties
  <2>4. Len(buffer') = size - taken
    <3>. HIDE DEF taken, size
    <3>. QED  BY <1>1, <1>3, <2>1, <2>3
  <2>5. ASSUME NEW f \in 1 .. Len(buffer')
        PROVE  buffer'[f] = FrameOf(channels', passed' + f - 1)
    <3>. DEFINE g == taken + f
    <3>1. /\ f \in 1 .. size - (taken + 1) + 1 /\ (taken + 1) + f - 1 = g
          /\ g \in 1 .. size /\ passed' + f - 1 = passed + g - 1
      <4>. HIDE DEF taken, size
      <4>. QED  BY <1>1, <1>2, <1>3, <2>1, <2>4
    <3>2. buffer'[f] = b[g]
      <4>. HIDE DEF taken, size
      <4>. QED  BY <2>3, <3>1
    <3>3. b[g] = FrameOf(channels, passed + g - 1)
      <4>. HIDE DEF g
      <4>. QED  BY <3>1
    <3>. QED  BY <3>1, <3>2, <3>3
  <2>6. /\ passed' + Len(buffer') = passed + size
        /\ Len(buffer') \in Nat /\ Len(buffer') <= size
    <3>. HIDE DEF taken, size
    <3>. QED  BY <1>1, <1>2, <1>3, <2>1, <2>4
  <2>. QED  BY <2>5, <2>6 DEF BufferIsNext
<1>4. CASE ctx = NoContext
  <2>1. r.out = b /\ r.consumed = size /\ r.ctx = ctx
    BY <1>4 DEF Resampled
  <2>2. taken = size
    <3>1. taken = Min({size, size})
      BY <2>1
    <3>2. Min({size, size}) \in {size, size}
      <4>. HIDE DEF size
      <4>1. size \in Int
        BY <1>1
      <4>. QED  BY <4>1, MinOfTwo
    <3>. QED  BY <3>1, <3>2
  <2>3. taken \in 0 .. size
    <3>. HIDE DEF taken, size
    <3>. QED  BY <1>1, <2>2
  <2>4. ctx' = NoContext /\ produced' = passed' /\ produced = passed
    BY <1>2, <1>4, <2>1, <2>2 DEF BatchInv
  <2>5. ASSUME NEW j \in 1 .. Len(batch')
        PROVE  IsIdeal(batch'[j], ctx', channels', produced' - Len(batch') + j - 1)
    <3>1. batch' = b /\ produced' = passed + size
      BY <1>2, <2>1, <2>4
    <3>2. produced' - Len(batch') + j - 1 = passed + j - 1
      BY <1>1, <3>1
    <3>3. b[j] = FrameOf(channels, passed + j - 1)
      BY <3>1
    <3>. QED  BY <2>4, <3>1, <3>2, <3>3 DEF IsIdeal
  <2>6. BatchInv'
    BY <2>4, <2>5 DEF BatchInv
  <2>. QED  BY <1>3, <2>3, <2>6
<1>5. CASE ctx # NoContext
  <2>1. PICK rate : /\ UsableRate(rate) /\ ContextOf(ctx, rate)
                    /\ produced > 0 => ctx.index >= 0
    BY <1>5 DEF IInv, ContextFits
  <2>. DEFINE n == OutputSize(ctx, size, BUFFER)
  <2>2. r = AvResample(ctx, b, BUFFER)
    BY <1>5 DEF Resampled
  <2>3. /\ n \in Nat /\ Len(r.out) = n /\ ContextOf(r.ctx, rate) /\ r.consumed \in Nat
    BY <1>1, <2>1, <2>2, OneCall
  <2>4. taken \in 0 .. size
    <3>. DEFINE e == r.consumed
    <3>1. e \in Nat /\ taken = Min({e, size})
      BY <2>3
    <3>. HIDE DEF e, size, taken
    <3>2. taken \in {e, size} /\ taken <= size
      <4>1. e \in Int /\ size \in Int
        BY <1>1, <3>1
      <4>. QED  BY <3>1, <4>1, MinOfTwo
    <3>. QED  BY <1>1, <3>1, <3>2
  <2>5. ctx' # NoContext /\ ctx'.taps = ctx.taps /\ ctx'.incr = ctx.incr
    <3>1. ContextOf(ctx', rate)
      BY <1>2, <2>3
    <3>2. ctx'.taps # 0
      BY <2>1, <3>1, FilterFits DEF ContextOf
    <3>. QED  BY <2>1, <3>1, <3>2 DEF ContextOf, NoContext
  <2>6. ASSUME ~shortStart', NEW j \in 1 .. n
        PROVE  CentredOn(batch'[j], ctx.taps, channels, PositionIn(ctx, produced + (j - 1)))
    <3>. DEFINE k == j - 1
    <3>1. ~shortStart /\ (produced = 0 => ~(size < ctx.taps))
      BY <1>2, <1>5, <2>6
    <3>2. /\ passed * PHASES + ctx.index = PositionIn(ctx, produced)
          /\ ctx.frac = (produced * ctx.incr) % TARGET
      BY <1>5, <3>1 DEF IInv, NoDrift, Position, PositionIn
    <3>3. k \in Nat /\ k \in 0 .. n - 1
      <4>. HIDE DEF n
      <4>. QED  BY <2>3
    <3>4. ~OutOfSource(After(ctx, k), size)
      <4>. HIDE DEF k
      <4>. QED  BY <3>3, WhereItStops
    <3>5. batch'[j] = Output(After(ctx, k), b)
      <4>1. r.out = [i \in 1 .. n |-> Output(After(ctx, i - 1), b)]
        BY <2>2 DEF AvResample
      <4>. HIDE DEF r, n
      <4>. QED  BY <1>2, <4>1
    <3>6. produced = 0 => size >= ctx.taps
      <4>1. ctx.taps \in Nat
        BY <2>1 DEF ContextOf, Context
      <4>. HIDE DEF size
      <4>. QED  BY <1>1, <3>1, <4>1
    <3>. HIDE DEF k
    <3>7. CentredOn(Output(After(ctx, k), b), ctx.taps, channels, PositionIn(ctx, produced + k))
      <4>1. /\ passed \in Nat /\ produced \in Nat /\ k \in Nat /\ Len(b) \in Nat
            /\ UsableRate(rate) /\ ContextOf(ctx, rate)
            /\ produced > 0 => ctx.index >= 0
            /\ produced = 0 => Len(b) >= ctx.taps
            /\ ~OutOfSource(After(ctx, k), Len(b))
        BY <1>1, <2>1, <3>3, <3>4, <3>6
      <4>2. FramesFrom(b, channels, passed)
        BY DEF FramesFrom
      <4>. QED  BY <3>2, <4>1, <4>2, OneOutput
    <3>. QED  BY <3>5, <3>7 DEF k
  <2>7. ASSUME ~shortStart', NEW j \in 1 .. Len(batch')
        PROVE  IsIdeal(batch'[j], ctx', channels', produced' - Len(batch') + j - 1)
    <3>1. Len(batch') = n /\ produced' = produced + n
      BY <1>2, <2>3
    <3>2. j \in 1 .. n /\ produced' - Len(batch') + j - 1 = produced + (j - 1)
      <4>. HIDE DEF n
      <4>. QED  BY <1>1, <2>3, <3>1
    <3>3. PositionIn(ctx', produced + (j - 1)) = PositionIn(ctx, produced + (j - 1))
      BY <2>5 DEF PositionIn
    <3>4. CentredOn(batch'[j], ctx.taps, channels, PositionIn(ctx, produced + (j - 1)))
      <4>. HIDE DEF n
      <4>. QED  BY <2>6, <2>7, <3>2
    <3>. HIDE DEF n
    <3>. QED  BY <2>5, <3>2, <3>3, <3>4 DEF IsIdeal
  <2>8. BatchInv'
    BY <2>5, <2>7 DEF BatchInv
  <2>. QED  BY <1>3, <2>4, <2>8
<1>. QED  BY <1>4, <1>5

-----------------------------------------------------------------------------
(* The actions.                                                            *)

\* Samples cut into frames from frame number b of the stream on.
LEMMA CutContents ==
    ASSUME channels \in Nat \ {0}, NEW s, IsSeq(s), NEW b \in Nat,
           \A i \in 1 .. Len(s) : s[i] = b * channels + i
    PROVE  /\ IsSeq(Frames(s)) /\ IsSeq(Rest(s))
           /\ Len(Frames(s)) \in Nat /\ Len(Rest(s)) \in Nat
           /\ \A f \in 1 .. Len(Frames(s)) : Frames(s)[f] = FrameOf(channels, b + f - 1)
           /\ \A i \in 1 .. Len(Rest(s)) : Rest(s)[i] = (b + Len(Frames(s))) * channels + i
           /\ (b + Len(Frames(s))) * channels + Len(Rest(s)) = b * channels + Len(s)
           /\ Len(Rest(s)) < channels
<1>. DEFINE size == Len(s)
            k == size \div channels
            m == size % channels
<1>1. size \in Nat
  BY DEF IsSeq
<1>2. k \in Int /\ m \in 0 .. channels - 1 /\ size = channels * k + m
  <2>. HIDE DEF size
  <2>. QED  BY <1>1, Division
<1>3. k \in Nat
  <2>1. k < 0 => channels * k <= channels * (-1)
    <3>. HIDE DEF k
    <3>. QED  BY <1>2
  <2>2. channels * k \in Int /\ channels * (-1) = -channels
    <3>. HIDE DEF k
    <3>. QED  BY <1>2
  <2>. DEFINE v == channels * k
  <2>. HIDE DEF k, m, size, v
  <2>3. size = v + m /\ v \in Int /\ (k < 0 => v <= -channels)
    BY <1>2, <2>1, <2>2 DEF v
  <2>. QED  BY <1>1, <1>2, <2>3
<1>4. IsSeq(Frames(s)) /\ IsSeq(Rest(s))
  BY CutIntoFrames
<1>5. Frames(s) = [f \in 1 .. k |-> SubSeq(s, (f - 1) * channels + 1, f * channels)]
  BY DEF Frames
<1>6. Len(Frames(s)) = k
  <2>. HIDE DEF k
  <2>. QED  BY <1>3, <1>5
<1>7. ASSUME NEW f \in 1 .. k
      PROVE  Frames(s)[f] = FrameOf(channels, b + f - 1)
  <2>. DEFINE from == (f - 1) * channels
              frame == SubSeq(s, from + 1, f * channels)
              S == {s[i] : i \in from + 1 .. f * channels}
  <2>1. f \in Nat /\ f >= 1 /\ f <= k
    <3>. HIDE DEF k
    <3>. QED  BY <1>3, <1>7
  <2>2. /\ from \in Nat /\ f * channels = from + channels
        /\ from + channels <= size
    <3>1. from \in Nat /\ f * channels = from + channels
      BY <2>1
    <3>2. f * channels <= k * channels /\ k * channels = channels * k
      <4>. HIDE DEF k
      <4>. QED  BY <1>3, <2>1
    <3>3. channels * k \in Int /\ f * channels \in Int
      <4>. HIDE DEF k
      <4>. QED  BY <1>3, <2>1
    <3>. DEFINE v == channels * k
    <3>. HIDE DEF k, m, size, v, from
    <3>4. f * channels <= v /\ size = v + m /\ v \in Int
      BY <1>2, <3>2, <3>3 DEF v
    <3>5. f * channels <= size
      BY <1>1, <1>2, <3>3, <3>4
    <3>. QED  BY <3>1, <3>5
  <2>3. \A i \in from + 1 .. f * channels : s[i] \in S
    OBVIOUS
  <2>4. /\ frame \in Seq(S) /\ Len(frame) = channels
        /\ \A i \in 1 .. channels : frame[i] = s[from + i]
    <3>1. from + 1 \in Int /\ f * channels \in Int /\ (f * channels) - (from + 1) + 1 = channels
      <4>. HIDE DEF from
      <4>. QED  BY <2>2
    <3>. DEFINE to == f * channels
    <3>. HIDE DEF S, to, from
    <3>2. /\ SubSeq(s, from + 1, to) \in Seq(S)
          /\ Len(SubSeq(s, from + 1, to)) = IF from + 1 <= to THEN to - (from + 1) + 1 ELSE 0
          /\ \A i \in 1 .. to - (from + 1) + 1 : SubSeq(s, from + 1, to)[i] = s[(from + 1) + i - 1]
      BY <2>3, <3>1, SubSeqProperties DEF to
    <3>3. to = from + channels /\ from \in Nat /\ to \in Int
      BY <2>2 DEF to
    <3>4. Len(SubSeq(s, from + 1, to)) = channels
      BY <3>2, <3>3
    <3>5. ASSUME NEW i \in 1 .. channels PROVE SubSeq(s, from + 1, to)[i] = s[from + i]
      <4>1. (from + 1) + i - 1 = from + i /\ i \in 1 .. to - (from + 1) + 1
        BY <3>3
      <4>. QED  BY <3>2, <4>1
    <3>. QED  BY <3>2, <3>4, <3>5 DEF to
  <2>5. ASSUME NEW i \in 1 .. channels
        PROVE  frame[i] = (b + f - 1) * channels + i
    <3>1. from + i \in 1 .. size
      <4>. HIDE DEF from, size
      <4>. QED  BY <1>1, <2>2
    <3>2. s[from + i] = b * channels + (from + i)
      <4>. HIDE DEF from
      <4>. QED  BY <3>1
    <3>3. b * channels + (from + i) = (b + f - 1) * channels + i
      <4>1. (b + f - 1) * channels = b * channels + (f - 1) * channels
        BY <2>1
      <4>2. b * channels \in Int /\ from \in Int
        BY <2>2
      <4>. DEFINE v == b * channels
      <4>3. (b + f - 1) * channels = v + from /\ v \in Int
        BY <4>1, <4>2
      <4>. HIDE DEF v, from
      <4>4. v + (from + i) = v + from + i
        BY <4>2, <4>3
      <4>. QED  BY <4>3, <4>4 DEF v
    <3>. QED  BY <2>4, <3>2, <3>3
  <2>6. frame = [i \in 1 .. channels |-> frame[i]]
    <3>. HIDE DEF frame, S
    <3>. QED  BY <2>4
  <2>7. Frames(s)[f] = frame
    BY <1>5
  <2>8. frame = FrameOf(channels, b + f - 1)
    <3>. HIDE DEF frame
    <3>. QED  BY <2>5, <2>6 DEF FrameOf
  <2>. QED  BY <2>7, <2>8
<1>8. /\ Len(Rest(s)) = m
      /\ \A i \in 1 .. m : Rest(s)[i] = (b + k) * channels + i
      /\ (b + k) * channels + m = b * channels + size
  <2>. DEFINE from == size - m
              S == {s[i] : i \in from + 1 .. size}
              v == channels * k
  <2>1. Rest(s) = SubSeq(s, from + 1, size)
    BY DEF Rest
  <2>2. from = v /\ v \in Int /\ from + 1 \in Int /\ size \in Int /\ from \in Nat
    <3>1. v \in Nat
      <4>. HIDE DEF k
      <4>. QED  BY <1>3
    <3>. HIDE DEF k, m, size
    <3>2. size = v + m
      BY <1>2
    <3>. HIDE DEF v
    <3>. QED  BY <1>1, <1>2, <3>1, <3>2
  <2>3. \A i \in from + 1 .. size : s[i] \in S
    OBVIOUS
  <2>4. /\ Len(Rest(s)) = IF from + 1 <= size THEN size - (from + 1) + 1 ELSE 0
        /\ \A i \in 1 .. size - (from + 1) + 1 : Rest(s)[i] = s[(from + 1) + i - 1]
    <3>. HIDE DEF S, from, size
    <3>. QED  BY <2>1, <2>2, <2>3, SubSeqProperties
  <2>5. (b + k) * channels = b * channels + v /\ b * channels \in Int
    <3>. HIDE DEF k
    <3>. QED  BY <1>3
  <2>6. ASSUME NEW i \in 1 .. m
        PROVE  Rest(s)[i] = (b + k) * channels + i
    <3>1. /\ i \in 1 .. size - (from + 1) + 1 /\ (from + 1) + i - 1 = from + i
          /\ from + i \in 1 .. size
      <4>. HIDE DEF m, size
      <4>. QED  BY <1>1, <1>2, <2>2
    <3>2. Rest(s)[i] = s[from + i]
      <4>. HIDE DEF from, size
      <4>. QED  BY <2>4, <3>1
    <3>3. s[from + i] = b * channels + (from + i)
      <4>. HIDE DEF from
      <4>. QED  BY <3>1
    <3>4. b * channels + (from + i) = (b + k) * channels + i
      <4>. DEFINE w == b * channels
                  u == (b + k) * channels
      <4>1. u = w + v /\ w \in Int /\ i \in Int
        BY <2>5
      <4>. HIDE DEF w, u, from, v
      <4>2. w + (from + i) = u + i
        BY <2>2, <4>1
      <4>. QED  BY <4>2 DEF w, u
    <3>. QED  BY <3>2, <3>3, <3>4
  <2>7. Len(Rest(s)) = m
    <3>. HIDE DEF m, size
    <3>. QED  BY <1>1, <1>2, <2>2, <2>4
  <2>8. (b + k) * channels + m = b * channels + size
    <3>. DEFINE w == b * channels
                u == (b + k) * channels
    <3>1. u = w + v /\ w \in Int /\ v \in Int
      BY <2>2, <2>5
    <3>2. size = v + m
      BY <1>2
    <3>. HIDE DEF w, u, v, m, size
    <3>3. u + m = w + size
      BY <1>1, <1>2, <3>1, <3>2
    <3>. QED  BY <3>3 DEF w, u
  <2>. QED  BY <2>6, <2>7, <2>8
<1>. HIDE DEF k, m
<1>. QED  BY <1>2, <1>3, <1>4, <1>6, <1>7, <1>8

\* u is s and the first k elements of t, v the ones that are left.
Moves(s, t, k, u, v) ==
    /\ IsSeq(u) /\ Len(u) = Len(s) + k
    /\ u = [i \in 1 .. Len(u) |-> u[i]]
    /\ \A i \in 1 .. Len(s) : u[i] = s[i]
    /\ \A i \in 1 .. k : u[Len(s) + i] = t[i]
    /\ IsSeq(v) /\ Len(v) = Len(t) - k
    /\ \A i \in 1 .. Len(v) : v[i] = t[k + i]

LEMMA Moved ==
    ASSUME NEW s, NEW t, IsSeq(s), IsSeq(t), NEW k \in 0 .. Len(t)
    PROVE  Moves(s, t, k, s \o SubSeq(t, 1, k), SubSeq(t, k + 1, Len(t)))
<1>1. PICK S : s \in Seq(S)
  BY DEF IsSeq
<1>2. PICK T : t \in Seq(T)
  BY DEF IsSeq
<1>. DEFINE A == S \cup T
            u1 == SubSeq(t, 1, k)
            u == s \o u1
            v == SubSeq(t, k + 1, Len(t))
<1>3. s \in Seq(A) /\ t \in Seq(A) /\ Len(s) \in Nat /\ Len(t) \in Nat /\ k \in Nat
  BY <1>1, <1>2
<1>4. \A i \in 1 .. Len(t) : t[i] \in A
  <2>. HIDE DEF A
  <2>. QED  BY <1>3
<1>5. /\ u1 \in Seq(A) /\ Len(u1) = k /\ \A i \in 1 .. k : u1[i] = t[i]
  <2>. HIDE DEF A
  <2>1. \A i \in 1 .. k : t[i] \in A
    BY <1>3, <1>4
  <2>2. /\ SubSeq(t, 1, k) \in Seq(A)
        /\ Len(SubSeq(t, 1, k)) = IF 1 <= k THEN k - 1 + 1 ELSE 0
        /\ \A i \in 1 .. k - 1 + 1 : SubSeq(t, 1, k)[i] = t[1 + i - 1]
    <3>1. 1 \in Int /\ k \in Int
      BY <1>3
    <3>. QED  BY <2>1, <3>1, SubSeqProperties
  <2>. QED  BY <1>3, <2>2
<1>6. /\ v \in Seq(A) /\ Len(v) = Len(t) - k /\ \A i \in 1 .. Len(t) - k : v[i] = t[k + i]
  <2>. HIDE DEF A
  <2>. DEFINE from == k + 1  to == Len(t)
  <2>1. from \in Int /\ to \in Int /\ \A i \in from .. to : t[i] \in A
    BY <1>3, <1>4
  <2>. HIDE DEF from, to
  <2>2. /\ SubSeq(t, from, to) \in Seq(A)
        /\ Len(SubSeq(t, from, to)) = IF from <= to THEN to - from + 1 ELSE 0
        /\ \A i \in 1 .. to - from + 1 : SubSeq(t, from, to)[i] = t[from + i - 1]
    BY <2>1, SubSeqProperties
  <2>. QED  BY <1>3, <2>2 DEF from, to
<1>7. /\ u \in Seq(A) /\ Len(u) = Len(s) + k
      /\ \A i \in 1 .. Len(s) : u[i] = s[i]
      /\ \A i \in 1 .. k : u[Len(s) + i] = u1[i]
  <2>. HIDE DEF A, u1
  <2>. QED  BY <1>3, <1>5
<1>8. u = [i \in 1 .. Len(u) |-> u[i]]
  <2>. HIDE DEF A, u
  <2>. QED  BY <1>7
<1>9. Moves(s, t, k, u, v)
  <2>. HIDE DEF A, u, v, u1
  <2>. QED  BY <1>5, <1>6, <1>7, <1>8 DEF IsSeq, Moves
<1>. QED  BY <1>9

LEMMA TypedFacts ==
    ASSUME FInv
    PROVE  /\ IsSeq(buffer) /\ IsSeq(leftover) /\ IsSeq(work) /\ IsSeq(tail)
           /\ Len(buffer) \in Nat /\ Len(leftover) \in Nat /\ Len(work) \in Nat /\ Len(tail) \in Nat
           /\ passed \in Nat /\ channels \in Nat /\ (pc # "idle" => channels > 0)
           /\ BUFFER \in Nat \ {0}
BY Joined, BufferAssumption DEF FInv, IInv, Typed

\* Actions that leave alone what Resample changes.
LEMMA SameBatch ==
    ASSUME BatchInv, UNCHANGED <<channels, ctx, passed, produced, batch, shortStart>>
    PROVE  BatchInv'
BY DEF BatchInv

LEMMA ResetFInv ==
    ASSUME FInv, NEW rate \in Rates, NEW n \in Channels, Reset(rate, n)
    PROVE  FInv'
<1>1. IInv'
  BY ResetIInv DEF FInv
<1>2. pc = "idle" /\ pc' = pc /\ work = <<>> /\ work' = work /\ channels' \in Nat
  <2>1. channels' \in Nat
    BY <1>1 DEF IInv, Typed
  <2>. QED  BY <2>1 DEF Reset, FInv, Phases
<1>3. /\ buffer' = <<>> /\ leftover' = <<>> /\ batch' = <<>>
      /\ received' = 0 /\ passed' = 0 /\ produced' = 0
  BY DEF Reset, NewStream
<1>4. Held' = <<>> /\ Complete' = 0 /\ Len(<<>>) = 0 /\ BUFFER \in Nat \ {0}
  BY <1>2, <1>3, BufferAssumption DEF Held, Complete
<1>5. BufferIsNext' /\ WorkIsNext' /\ BatchInv'
  BY <1>2, <1>3, <1>4 DEF BufferIsNext, WorkIsNext, BatchInv
<1>6. HeldIsNext'
  <2>1. \A c \in Nat : 0 * c + 0 = 0
    OBVIOUS
  <2>2. received' = Complete' * channels' + Len(Held')
    BY <1>2, <1>3, <1>4, <2>1, Zenon
  <2>. QED  BY <1>4, <2>2 DEF HeldIsNext
<1>7. Phases'
  <2>1. channels' \in Channels \cup {0}
    BY DEF Reset, FInv, Phases
  <2>. QED  BY <1>2, <1>3, <1>4, <2>1 DEF Phases
<1>. QED  BY <1>1, <1>5, <1>6, <1>7 DEF FInv

\* The complete frames of what comes next become the work, the rest is held.
LEMMA StartBodyFInv ==
    ASSUME FInv, channels > 0, work = <<>>, NEW s, IsSeq(s),
           \A i \in 1 .. Len(s) : s[i] = Complete * channels + i,
           received' = Complete * channels + Len(s),
           StartBody(s), leftover' = <<>>,
           UNCHANGED <<buffer, channels, passed>>
    PROVE  BufferIsNext' /\ WorkIsNext' /\ HeldIsNext' /\ Phases'
<1>1. /\ channels \in Nat \ {0} /\ passed \in Nat /\ Len(buffer) \in Nat
      /\ Len(work) = 0 /\ Len(<<>>) = 0
  BY TypedFacts
<1>. DEFINE b == passed + Len(buffer)
<1>2. Complete = b /\ b \in Nat
  BY <1>1 DEF Complete
<1>3. /\ Len(Frames(s)) \in Nat /\ Len(Rest(s)) \in Nat
      /\ \A f \in 1 .. Len(Frames(s)) : Frames(s)[f] = FrameOf(channels, b + f - 1)
      /\ \A i \in 1 .. Len(Rest(s)) : Rest(s)[i] = (b + Len(Frames(s))) * channels + i
      /\ (b + Len(Frames(s))) * channels + Len(Rest(s)) = b * channels + Len(s)
      /\ Len(Rest(s)) < channels
  <2>1. \A i \in 1 .. Len(s) : s[i] = b * channels + i
    BY <1>2
  <2>. HIDE DEF b
  <2>. QED  BY <1>1, <1>2, <2>1, CutContents
<1>4. work' = Frames(s) /\ tail' = Rest(s) /\ pc' = "body" /\ Held' = Rest(s)
  BY DEF StartBody, Held
<1>5. Complete' = b + Len(Frames(s))
  BY <1>4 DEF Complete
<1>6. BufferIsNext' /\ WorkIsNext'
  BY <1>3, <1>4 DEF FInv, BufferIsNext, WorkIsNext
<1>7. HeldIsNext'
  <2>1. received' = b * channels + Len(s)
    BY <1>2
  <2>. HIDE DEF b
  <2>. QED  BY <1>3, <1>4, <1>5, <2>1 DEF HeldIsNext
<1>8. Phases'
  BY <1>3, <1>4 DEF FInv, Phases
<1>. QED  BY <1>6, <1>7, <1>8

LEMMA CarryDoneFInv ==
    ASSUME FInv, CarryDone
    PROVE  BufferIsNext' /\ WorkIsNext' /\ HeldIsNext' /\ Phases' /\ BatchInv'
<1>1. /\ pc = "carry" /\ work = <<>> /\ StartBody(tail) /\ leftover' = <<>>
      /\ UNCHANGED <<buffer, channels, ctx, received, passed, produced, batch, shortStart>>
  BY DEF CarryDone
<1>2. channels > 0 /\ IsSeq(tail) /\ Held = tail
  BY <1>1, TypedFacts DEF Held
<1>3. /\ \A i \in 1 .. Len(tail) : tail[i] = Complete * channels + i
      /\ received' = Complete * channels + Len(tail)
  BY <1>1, <1>2 DEF FInv, HeldIsNext
<1>4. BufferIsNext' /\ WorkIsNext' /\ HeldIsNext' /\ Phases'
  BY <1>1, <1>2, <1>3, StartBodyFInv
<1>. QED  BY <1>1, <1>4, SameBatch DEF FInv

LEMMA BodyDoneFInv ==
    ASSUME FInv, BodyDone
    PROVE  BufferIsNext' /\ WorkIsNext' /\ HeldIsNext' /\ Phases' /\ BatchInv'
<1>1. /\ pc = "body" /\ work = <<>> /\ pc' = "idle" /\ tail' = <<>>
      /\ leftover' = IF tail # <<>> THEN tail ELSE leftover
      /\ UNCHANGED <<buffer, channels, ctx, work, received, passed, produced, batch, shortStart>>
  BY DEF BodyDone
<1>2. leftover = <<>> /\ Held = tail
  BY <1>1 DEF FInv, Phases, Held
<1>3. Held' = Held /\ Complete' = Complete
  BY <1>1, <1>2 DEF Held, Complete
<1>4. BufferIsNext' /\ WorkIsNext' /\ HeldIsNext'
  BY <1>1, <1>3 DEF FInv, BufferIsNext, WorkIsNext, HeldIsNext
<1>5. Phases'
  <2>1. Held = <<>> \/ Len(Held) < channels
    BY <1>1 DEF FInv, Phases
  <2>2. leftover' = Held /\ Held' = Held /\ channels' = channels
    BY <1>1, <1>2, <1>3
  <2>3. leftover' = <<>> \/ Len(leftover') < channels'
    BY <2>1, <2>2, Zenon
  <2>4. Held' = <<>> \/ Len(Held') < channels'
    BY <2>1, <2>2, Zenon
  <2>. QED  BY <1>1, <2>3, <2>4 DEF FInv, Phases
<1>. QED  BY <1>1, <1>4, <1>5, SameBatch DEF FInv

LEMMA FlushFInv ==
    ASSUME FInv, Flush
    PROVE  BufferIsNext' /\ WorkIsNext' /\ HeldIsNext' /\ Phases' /\ BatchInv'
<1>1. /\ Resample(buffer) /\ pc = "idle"
      /\ UNCHANGED <<pc, leftover, channels, work, tail, received>>
  BY DEF Flush
<1>2. work = <<>> /\ Len(<<>>) = 0 /\ Len(buffer) < BUFFER
  BY <1>1 DEF FInv, Phases
<1>3. /\ passed' + Len(buffer') = passed + Len(buffer)
      /\ Len(buffer') \in Nat /\ Len(buffer') <= Len(buffer)
      /\ BufferIsNext' /\ BatchInv'
  <2>1. \A f \in 1 .. Len(buffer) : buffer[f] = FrameOf(channels, passed + f - 1)
    BY DEF FInv, BufferIsNext
  <2>2. IInv /\ BatchInv /\ IsSeq(buffer)
    BY TypedFacts DEF FInv
  <2>. QED  BY <1>1, <2>1, <2>2, ResampleFInv
<1>4. Held' = Held /\ Complete' = Complete
  BY <1>1, <1>3 DEF Held, Complete
<1>5. HeldIsNext'
  BY <1>1, <1>4 DEF FInv, HeldIsNext
<1>6. WorkIsNext'
  BY <1>1, <1>2 DEF WorkIsNext
<1>7. Phases'
  <2>1. Len(buffer') < BUFFER
    BY <1>2, <1>3, TypedFacts
  <2>. QED  BY <1>1, <1>4, <2>1 DEF FInv, Phases
<1>. QED  BY <1>3, <1>5, <1>6, <1>7

LEMMA ConsumeFInv ==
    ASSUME FInv, NEW n \in Feeds, Consume(n)
    PROVE  BufferIsNext' /\ WorkIsNext' /\ HeldIsNext' /\ Phases' /\ BatchInv'
<1>. DEFINE input == [i \in 1 .. n |-> received + i]
            size == Len(leftover)
            l == channels - size
            taken == Min({n, l})
            first == leftover \o SubSeq(input, 1, taken)
            base == Complete * channels
<1>1. /\ pc = "idle" /\ work = <<>> /\ channels > 0 /\ received' = received + n
      /\ UNCHANGED <<buffer, channels, ctx, passed, produced, batch, shortStart>>
  BY DEF Consume, FInv, Phases
<1>2. \/ leftover = <<>> /\ StartBody(input) /\ UNCHANGED leftover
      \/ Len(first) < channels /\ leftover' = first /\ UNCHANGED <<pc, work, tail>>
      \/ /\ Len(first) = channels /\ work' = <<first>>
         /\ tail' = SubSeq(input, taken + 1, n) /\ pc' = "carry" /\ UNCHANGED leftover
  BY DEF Consume
<1>3. /\ n \in Nat /\ channels \in Nat \ {0} /\ IsSeq(leftover) /\ size \in Nat
      /\ Complete = passed + Len(buffer) /\ Complete \in Nat /\ Len(work) = 0
      /\ Held = leftover
  <2>1. /\ n \in Nat /\ channels \in Nat /\ IsSeq(leftover) /\ size \in Nat
        /\ passed \in Nat /\ Len(buffer) \in Nat /\ Len(work) \in Nat
    BY RatesAssumption, TypedFacts
  <2>2. Len(work) = 0 /\ Held = leftover
    BY <1>1 DEF Held
  <2>. QED  BY <1>1, <2>1, <2>2 DEF Complete
<1>4. base \in Nat /\ received = base + size /\ \A i \in 1 .. size : leftover[i] = base + i
  <2>1. base \in Nat
    BY <1>3
  <2>. QED  BY <1>3, <2>1 DEF FInv, HeldIsNext
<1>5. /\ IsSeq(input) /\ Len(input) = n
      /\ \A i \in 1 .. n : input[i] = base + size + i
  <2>1. IsSeq(input) /\ Len(input) = n
    BY <1>3, FunctionIsSeq
  <2>. HIDE DEF base, size
  <2>. QED  BY <1>4, <2>1
<1>6. BatchInv'
  BY <1>1, SameBatch DEF FInv
<1>7. CASE leftover = <<>> /\ StartBody(input) /\ UNCHANGED leftover
  <2>1. size = 0
    BY <1>7
  <2>2. \A i \in 1 .. Len(input) : input[i] = base + i
    <3>. HIDE DEF input, base, size
    <3>. QED  BY <1>4, <1>5, <2>1
  <2>3. received' = base + Len(input)
    <3>. HIDE DEF input, base, size
    <3>. QED  BY <1>1, <1>3, <1>4, <1>5, <2>1
  <2>4. leftover' = <<>>
    BY <1>7
  <2>. HIDE DEF input
  <2>. QED  BY <1>1, <1>5, <1>6, <1>7, <2>2, <2>3, <2>4, StartBodyFInv
<1>8. ASSUME ~(leftover = <<>> /\ StartBody(input) /\ UNCHANGED leftover)
      PROVE  BufferIsNext' /\ WorkIsNext' /\ HeldIsNext' /\ Phases'
  <2>1. size < channels /\ l \in Nat \ {0}
    <3>1. leftover = <<>> \/ size < channels
      BY <1>1, <1>3 DEF FInv, Phases
    <3>2. leftover = <<>> => size = 0
      OBVIOUS
    <3>. HIDE DEF size
    <3>. QED  BY <1>3, <3>1, <3>2
  <2>2. taken \in 0 .. n /\ taken \in {n, l} /\ taken <= l
    <3>. HIDE DEF l
    <3>1. n \in Int /\ l \in Int
      BY <1>3, <2>1
    <3>2. taken \in {n, l} /\ taken <= n /\ taken <= l
      BY <3>1, MinOfTwo
    <3>. HIDE DEF taken
    <3>. QED  BY <1>3, <2>1, <3>2
  <2>. DEFINE v == SubSeq(input, taken + 1, n)
  <2>3. /\ IsSeq(first) /\ Len(first) = size + taken
        /\ first = [i \in 1 .. Len(first) |-> first[i]]
        /\ \A i \in 1 .. size : first[i] = leftover[i]
        /\ \A i \in 1 .. taken : first[size + i] = input[i]
        /\ IsSeq(v) /\ Len(v) = n - taken
        /\ \A i \in 1 .. Len(v) : v[i] = input[taken + i]
    <3>1. Moves(leftover, input, taken, first, SubSeq(input, taken + 1, Len(input)))
      <4>. HIDE DEF input, taken
      <4>. QED  BY <1>3, <1>5, <2>2, Moved
    <3>2. Moves(leftover, input, taken, first, v)
      <4>. HIDE DEF input, taken, first
      <4>. QED  BY <1>5, <3>1
    <3>. HIDE DEF input, taken, first, v
    <3>. QED  BY <1>5, <3>2 DEF Moves
  <2>4. \A i \in 1 .. Len(first) : first[i] = base + i
    <3>. SUFFICES ASSUME NEW i \in 1 .. size + taken PROVE first[i] = base + i
      <4>. HIDE DEF first, base, size, taken
      <4>. QED  BY <2>3
    <3>1. CASE i <= size
      <4>. HIDE DEF first, base, size, taken
      <4>. QED  BY <1>3, <1>4, <2>2, <2>3, <3>1
    <3>2. CASE ~(i <= size)
      <4>. DEFINE k == i - size
      <4>1. k \in 1 .. taken /\ k \in 1 .. n /\ size + k = i /\ base + size + k = base + i
        <5>. HIDE DEF base, size, taken
        <5>. QED  BY <1>3, <1>4, <2>2, <3>2
      <4>. HIDE DEF first, base, size, taken, k, input
      <4>. QED  BY <1>5, <2>3, <4>1
    <3>. QED  BY <3>1, <3>2
  <2>5. BufferIsNext'
    BY <1>1 DEF FInv, BufferIsNext
  <2>6. CASE Len(first) < channels /\ leftover' = first /\ UNCHANGED <<pc, work, tail>>
    <3>1. taken = n
      <4>. HIDE DEF first, size, taken
      <4>. QED  BY <1>3, <2>2, <2>3, <2>6
    <3>2. Held' = first /\ Complete' = Complete
      BY <1>1, <2>6 DEF Held, Complete
    <3>3. WorkIsNext'
      BY <1>1, <1>3, <2>6 DEF WorkIsNext
    <3>4. received' = base + Len(first)
      <4>. HIDE DEF first, base, size, taken
      <4>. QED  BY <1>1, <1>3, <1>4, <2>3, <3>1
    <3>5. Complete' * channels' = base
      BY <1>1, <3>2
    <3>. HIDE DEF first, base
    <3>6. HeldIsNext'
      BY <2>4, <3>2, <3>4, <3>5 DEF HeldIsNext
    <3>7. Phases'
      BY <1>1, <1>3, <2>6, <3>2 DEF FInv, Phases
    <3>. QED  BY <2>5, <3>3, <3>6, <3>7
  <2>7. CASE /\ Len(first) = channels /\ work' = <<first>>
             /\ tail' = v /\ pc' = "carry" /\ UNCHANGED leftover
    <3>. DEFINE next == (Complete + 1) * channels
    <3>1. Len(work') = 1 /\ work'[1] = first /\ Held' = v /\ Complete' = Complete + 1
      <4>1. Len(work') = 1 /\ work'[1] = first
        <5>. HIDE DEF first
        <5>. QED  BY <2>7
      <4>2. Held' = v
        BY <2>7 DEF Held
      <4>3. Complete' = Complete + 1
        BY <1>1, <1>3, <4>1 DEF Complete
      <4>. QED  BY <4>1, <4>2, <4>3
    <3>2. first = FrameOf(channels, Complete)
      <4>. HIDE DEF first
      <4>. QED  BY <2>3, <2>4, <2>7 DEF FrameOf
    <3>3. WorkIsNext'
      <4>1. passed + Len(buffer) + 1 - 1 = Complete
        <5>. DEFINE u == passed + Len(buffer)
        <5>1. u = Complete
          BY <1>3
        <5>. HIDE DEF u
        <5>2. u + 1 - 1 = Complete
          BY <1>3, <5>1
        <5>. QED  BY <5>2 DEF u
      <4>2. \A f \in 1 .. 1 : f = 1
        OBVIOUS
      <4>. HIDE DEF first
      <4>. QED  BY <1>1, <3>1, <3>2, <4>1, <4>2 DEF WorkIsNext
    <3>4. next = base + channels /\ next \in Nat /\ size + taken = channels
      <4>1. next = base + channels
        BY <1>3
      <4>2. size + taken = channels
        <5>. HIDE DEF first, size, taken
        <5>. QED  BY <2>3, <2>7
      <4>. HIDE DEF base, next
      <4>. QED  BY <1>3, <1>4, <4>1, <4>2
    <3>5. \A i \in 1 .. Len(v) : v[i] = next + i
      <4>. SUFFICES ASSUME NEW i \in 1 .. Len(v) PROVE v[i] = next + i
        OBVIOUS
      <4>. DEFINE k == taken + i
      <4>1. k \in 1 .. n /\ base + size + k = next + i
        <5>. HIDE DEF v, size, taken, base, next
        <5>. QED  BY <1>3, <1>4, <2>2, <2>3, <3>4
      <4>2. v[i] = input[k]
        <5>. HIDE DEF v, input, taken
        <5>. QED  BY <2>3
      <4>3. input[k] = base + size + k
        <5>. HIDE DEF input, k, base, size
        <5>. QED  BY <1>5, <4>1
      <4>. QED  BY <4>1, <4>2, <4>3, Zenon
    <3>6. received' = next + Len(v)
      <4>. HIDE DEF v, size, taken, base, next
      <4>. QED  BY <1>1, <1>3, <1>4, <2>2, <2>3, <3>4
    <3>7. Complete' * channels' = next
      BY <1>1, <3>1
    <3>. HIDE DEF v, next, first
    <3>8. HeldIsNext'
      BY <3>1, <3>5, <3>6, <3>7 DEF HeldIsNext
    <3>9. Phases'
      BY <1>1, <2>7 DEF FInv, Phases
    <3>. QED  BY <2>5, <3>3, <3>8, <3>9
  <2>. QED  BY <1>2, <1>8, <2>6, <2>7
<1>. QED  BY <1>6, <1>7, <1>8

LEMMA LoadFramesFInv ==
    ASSUME FInv, LoadFrames
    PROVE  BufferIsNext' /\ WorkIsNext' /\ HeldIsNext' /\ Phases' /\ BatchInv'
<1>. DEFINE size == Len(work)
            n == Min({size, Room})
            loaded == buffer \o SubSeq(work, 1, n)
            left == SubSeq(work, n + 1, size)
<1>1. /\ IsSeq(buffer) /\ IsSeq(work) /\ Len(buffer) \in Nat /\ size \in Nat
      /\ passed \in Nat /\ BUFFER \in Nat /\ Len(buffer) < BUFFER
  BY TypedFacts DEF FInv, Phases
<1>2. /\ pc \in {"carry", "body"} /\ UNCHANGED <<pc, leftover, channels, tail, received>>
      /\ \/ /\ Len(loaded) < BUFFER /\ buffer' = loaded /\ work' = left
            /\ UNCHANGED <<ctx, passed, produced, batch, shortStart>>
         \/ /\ Len(loaded) = BUFFER /\ Resample(loaded)
            /\ work' = IF Len(buffer') = BUFFER THEN <<>> ELSE left
  BY DEF LoadFrames
<1>3. n \in 0 .. size
  <2>1. Room \in Nat /\ size \in Nat
    BY <1>1 DEF Room
  <2>2. Room \in Int /\ size \in Int
    BY <2>1
  <2>. HIDE DEF size
  <2>3. n \in {size, Room} /\ n <= size
    BY <2>2, MinOfTwo
  <2>. HIDE DEF n
  <2>. QED  BY <2>1, <2>3
<1>4. /\ IsSeq(loaded) /\ Len(loaded) = Len(buffer) + n
      /\ \A i \in 1 .. Len(buffer) : loaded[i] = buffer[i]
      /\ \A i \in 1 .. n : loaded[Len(buffer) + i] = work[i]
      /\ IsSeq(left) /\ Len(left) = size - n
      /\ \A i \in 1 .. Len(left) : left[i] = work[n + i]
  <2>1. Moves(buffer, work, n, loaded, left)
    <3>. HIDE DEF n
    <3>. QED  BY <1>1, <1>3, Moved
  <2>. HIDE DEF n, loaded, left
  <2>. QED  BY <2>1 DEF Moves
<1>5. \A f \in 1 .. Len(loaded) : loaded[f] = FrameOf(channels, passed + f - 1)
  <2>. SUFFICES ASSUME NEW f \in 1 .. Len(buffer) + n
                PROVE  loaded[f] = FrameOf(channels, passed + f - 1)
    BY <1>4
  <2>1. CASE f <= Len(buffer)
    <3>1. f \in 1 .. Len(buffer)
      <4>. HIDE DEF n, size
      <4>. QED  BY <1>1, <1>3, <2>1
    <3>. HIDE DEF loaded
    <3>. QED  BY <1>4, <3>1 DEF FInv, BufferIsNext
  <2>2. CASE ~(f <= Len(buffer))
    <3>. DEFINE k == f - Len(buffer)
    <3>1. /\ k \in 1 .. n /\ k \in 1 .. size /\ Len(buffer) + k = f
          /\ passed + Len(buffer) + k - 1 = passed + f - 1
      <4>. HIDE DEF n, size
      <4>. QED  BY <1>1, <1>3, <2>2
    <3>2. work[k] = FrameOf(channels, passed + Len(buffer) + k - 1)
      <4>. HIDE DEF k
      <4>. QED  BY <3>1 DEF FInv, WorkIsNext
    <3>3. loaded[Len(buffer) + k] = work[k]
      <4>. HIDE DEF k, loaded, n
      <4>. QED  BY <1>4, <3>1
    <3>. HIDE DEF k, loaded
    <3>. QED  BY <3>1, <3>2, <3>3
  <2>. QED  BY <2>1, <2>2
<1>6. ASSUME work' = left, passed' + Len(buffer') = passed + Len(loaded),
             passed' \in Nat, Len(buffer') \in Nat, Len(buffer') < BUFFER
      PROVE  WorkIsNext' /\ HeldIsNext' /\ Phases'
  <2>1. /\ Len(left) = size - n /\ n \in 0 .. size
        /\ passed' + Len(buffer') = passed + Len(buffer) + n
    <3>. HIDE DEF n, size, loaded, left
    <3>. QED  BY <1>1, <1>3, <1>4, <1>6
  <2>2. WorkIsNext'
    <3>. SUFFICES ASSUME NEW f \in 1 .. Len(left)
                  PROVE  left[f] = FrameOf(channels, passed' + Len(buffer') + f - 1)
      BY <1>2, <1>6 DEF WorkIsNext
    <3>. DEFINE k == n + f
    <3>1. /\ k \in 1 .. size
          /\ passed + Len(buffer) + k - 1 = passed' + Len(buffer') + f - 1
      <4>. HIDE DEF n, size, left
      <4>. QED  BY <1>1, <1>6, <2>1
    <3>2. left[f] = work[k]
      <4>. HIDE DEF n, left
      <4>. QED  BY <1>4
    <3>3. work[k] = FrameOf(channels, passed + Len(buffer) + k - 1)
      <4>. HIDE DEF k
      <4>. QED  BY <3>1 DEF FInv, WorkIsNext
    <3>. HIDE DEF k, left
    <3>. QED  BY <3>1, <3>2, <3>3
  <2>3. Complete' = Complete /\ Held' = Held
    <3>1. passed' + Len(buffer') + Len(left) = passed + Len(buffer) + size
      <4>. HIDE DEF n, size, left
      <4>. QED  BY <1>1, <1>6, <2>1
    <3>2. Complete' = Complete
      <4>. HIDE DEF left
      <4>. QED  BY <1>6, <3>1 DEF Complete
    <3>. QED  BY <1>2, <3>2 DEF Held
  <2>4. HeldIsNext'
    BY <1>2, <2>3 DEF FInv, HeldIsNext
  <2>5. Phases'
    BY <1>2, <1>6, <2>3 DEF FInv, Phases
  <2>. QED  BY <2>2, <2>4, <2>5
<1>7. CASE /\ Len(loaded) < BUFFER /\ buffer' = loaded /\ work' = left
           /\ UNCHANGED <<ctx, passed, produced, batch, shortStart>>
  <2>1. Len(loaded) \in Nat
    <3>. HIDE DEF loaded, n, size
    <3>. QED  BY <1>1, <1>3, <1>4
  <2>2. WorkIsNext' /\ HeldIsNext' /\ Phases'
    <3>. HIDE DEF loaded, left
    <3>. QED  BY <1>1, <1>6, <1>7, <2>1
  <2>3. BufferIsNext'
    <3>. HIDE DEF loaded
    <3>. QED  BY <1>2, <1>5, <1>7 DEF BufferIsNext
  <2>4. BatchInv'
    BY <1>2, <1>7, SameBatch DEF FInv
  <2>. QED  BY <2>2, <2>3, <2>4
<1>8. CASE /\ Len(loaded) = BUFFER /\ Resample(loaded)
           /\ work' = IF Len(buffer') = BUFFER THEN <<>> ELSE left
  <2>. HIDE DEF loaded, left
  <2>1. /\ passed' + Len(buffer') = passed + Len(loaded)
        /\ Len(buffer') \in Nat /\ Len(buffer') <= Len(loaded)
        /\ BufferIsNext' /\ BatchInv'
    <3>1. IInv /\ BatchInv /\ channels' = channels
      BY <1>2 DEF FInv
    <3>. QED  BY <1>4, <1>5, <1>8, <3>1, ResampleFInv
  <2>2. Len(buffer') # BUFFER /\ passed' \in Nat
    BY <1>4, <1>8, ResampleIInv DEF FInv
  <2>3. work' = left /\ Len(buffer') < BUFFER
    BY <1>1, <1>8, <2>1, <2>2
  <2>. QED  BY <1>6, <2>1, <2>2, <2>3
<1>. QED  BY <1>2, <1>7, <1>8

LEMMA StepFInv == FInv /\ [Next]_vars => FInv'
<1>. SUFFICES ASSUME FInv, [Next]_vars PROVE FInv'
  OBVIOUS
<1>1. IInv'
  BY StepIInv DEF FInv
<1>2. ASSUME NEW rate \in Rates, NEW n \in Channels, Reset(rate, n)
      PROVE  FInv'
  BY <1>2, ResetFInv
<1>3. CASE UNCHANGED vars
  <2>1. Held' = Held /\ Complete' = Complete
    BY <1>3 DEF vars, Held, Complete
  <2>2. BufferIsNext' /\ WorkIsNext' /\ HeldIsNext' /\ Phases'
    BY <1>3, <2>1 DEF vars, FInv, BufferIsNext, WorkIsNext, HeldIsNext, Phases
  <2>3. BatchInv'
    BY <1>3, SameBatch DEF vars, FInv
  <2>. QED  BY <1>1, <2>2, <2>3 DEF FInv
<1>4. ASSUME NEW rate \in Rates, NEW n \in Channels, Rejected(rate, n)
      PROVE  FInv'
  BY <1>3, <1>4 DEF Rejected
<1>5. ASSUME NEW n \in Feeds, Consume(n)
      PROVE  FInv'
  BY <1>1, <1>5, ConsumeFInv DEF FInv
<1>6. CASE LoadFrames
  BY <1>1, <1>6, LoadFramesFInv DEF FInv
<1>7. CASE CarryDone
  BY <1>1, <1>7, CarryDoneFInv DEF FInv
<1>8. CASE BodyDone
  BY <1>1, <1>8, BodyDoneFInv DEF FInv
<1>9. CASE Flush
  BY <1>1, <1>9, FlushFInv DEF FInv
<1>. QED  BY <1>2, <1>3, <1>4, <1>5, <1>6, <1>7, <1>8, <1>9 DEF Next

\* audio_processor.cpp, Load, ConsumeAligned and Consume: wherever the caller
\* cut the stream, the frames passed on are followed by those in the buffer,
\* those by the ones still to be loaded, and those by the samples left over,
\* none lost, repeated or in another channel.
THEOREM SamplesAreKept == Spec => []NothingMisplaced
<1>1. FInv => NothingMisplaced
  BY DEF FInv, NothingMisplaced
<1>. QED  BY InitFInv, StepFInv, <1>1, PTL DEF Spec

\* audio_processor.cpp, Resample: sample number n given to the consumer is
\* made, in the phase of its position, of exactly the frames of the stream
\* under the filter, however the stream was cut and whenever it was flushed.
THEOREM SamplesAreIdeal == Spec => []BatchIsIdeal
<1>1. FInv => BatchIsIdeal
  BY FInvIsIdeal DEF FInv
<1>. QED  BY InitFInv, StepFInv, <1>1, PTL DEF Spec

\* The variables of audio_processor.cpp keep their types: a call leaves room in
\* the buffer and less than a frame of samples over, and the position of the
\* resampler is within a frame.
THEOREM TypeCorrect == Spec => []TypeOK
<1>1. FInv => TypeOK
  <2>. SUFFICES ASSUME FInv PROVE TypeOK
    OBVIOUS
  <2>1. ASSUME ctx # NoContext
        PROVE  ctx.frac \in 0 .. TARGET - 1 /\ ctx.index < PHASES
    BY <2>1 DEF FInv, IInv, ContextFits, ContextOf, Context
  <2>. QED  BY <2>1 DEF FInv, Phases, TypeOK
<1>. QED  BY InitFInv, StepFInv, <1>1, PTL DEF Spec
-----------------------------------------------------------------------------
(* What Flush leaves in the buffer.                                        *)

\* At the target rate or above it, one sample less than an output buffer
\* moves the filter to the end of the input buffer.
LEMMA LastFilterIsPast ==
    ASSUME NEW rate, UsableRate(rate), NEW c, ContextOf(c, rate), TARGET <= rate
    PROVE  LET at == SampleIndex(After(c, BUFFER - 1).index)
           IN at \in Nat /\ BUFFER <= at + c.taps
<1>. DEFINE h == Half(c.taps)
            k == BUFFER - 1
            x == c.frac + k * c.incr
            i == After(c, k).index
<1>1. /\ TARGET \in Nat \ {0} /\ PHASES \in Nat \ {0} /\ BUFFER \in Nat \ {0}
      /\ rate \in Nat /\ h \in Nat /\ c.taps \in Nat \ {0} /\ c.taps <= BUFFER
  BY FilterFits, ResamplerAssumption, BufferAssumption DEF ContextOf
<1>2. /\ c.index \in Int /\ c.frac \in Nat /\ c.incr = rate * PHASES
      /\ -PHASES * h <= c.index
  BY <1>1 DEF ContextOf, Context
<1>3. k \in Nat
  BY <1>1
<1>4. i = c.index + x \div TARGET /\ x \in Nat /\ x \div TARGET \in Nat
  <2>. HIDE DEF k
  <2>. QED  BY <1>3, AfterFields
<1>5. i \in Int
  <2>. HIDE DEF i, x
  <2>. QED  BY <1>2, <1>4
<1>6. TARGET * (PHASES * k) <= x
  <2>. HIDE DEF k
  <2>1. (PHASES * k) * TARGET <= (PHASES * k) * rate
    <3>. DEFINE a == PHASES * k
    <3>1. a \in Nat
      BY <1>1, <1>3
    <3>. HIDE DEF a
    <3>2. a * TARGET <= a * rate
      BY <1>1, <3>1
    <3>. QED  BY <3>2 DEF a
  <2>2. /\ (PHASES * k) * TARGET = TARGET * (PHASES * k)
        /\ (PHASES * k) * rate = k * c.incr /\ k * c.incr \in Int
        /\ TARGET * (PHASES * k) \in Int
    BY <1>1, <1>2, <1>3
  <2>3. k * c.incr <= x
    BY <1>2, <2>2
  <2>. HIDE DEF x
  <2>. QED  BY <1>4, <2>1, <2>2, <2>3
<1>7. PHASES * k <= x \div TARGET
  <2>. DEFINE p == PHASES * k
  <2>1. p \in Int /\ TARGET * p <= x
    <3>. HIDE DEF k, x
    <3>. QED  BY <1>1, <1>3, <1>6
  <2>. HIDE DEF p, x
  <2>2. p <= x \div TARGET
    BY <1>1, <1>4, <2>1, DivisionBounds
  <2>. QED  BY <2>2 DEF p
<1>8. PHASES * (k - h) <= i
  <2>. HIDE DEF h, k, x, i
  <2>1. /\ PHASES * (k - h) = PHASES * k - PHASES * h /\ -PHASES * h = -(PHASES * h)
        /\ PHASES * k \in Int /\ PHASES * h \in Int
    BY <1>1, <1>3
  <2>. QED  BY <1>2, <1>4, <1>5, <1>7, <2>1
<1>9. k - h <= SampleIndex(i) /\ SampleIndex(i) \in Int
  <2>. HIDE DEF h, k, i
  <2>1. k - h \in Int
    BY <1>1, <1>3
  <2>. QED  BY <1>5, <1>8, <2>1, PhaseOf
<1>10. 2 * h <= c.taps - 1
  <2>. DEFINE t == c.taps
  <2>1. t \in Nat \ {0} /\ h = (t - 1) \div 2
    BY <1>1 DEF Half
  <2>. HIDE DEF t, h
  <2>2. 2 * h <= t - 1
    BY <2>1
  <2>. QED  BY <2>2 DEF t
<1>. DEFINE at == SampleIndex(i)
            t == c.taps
<1>11. k - h <= at /\ at \in Int /\ 2 * h <= t - 1 /\ t \in Nat \ {0} /\ t <= BUFFER
  BY <1>1, <1>9, <1>10
<1>. HIDE DEF at, t, h
<1>12. at \in Nat /\ BUFFER <= at + t
  BY <1>1, <1>11
<1>. QED  BY <1>12 DEF at, t

\* What a call leaves is less than a filter, unless it filled the output.
LEMMA NoWindowStays ==
    ASSUME NEW rate, UsableRate(rate), NEW c, ContextOf(c, rate), NEW b, Len(b) \in Nat,
           NEW taken, OutputSize(c, Len(b), BUFFER) # BUFFER,
           taken \in {AvResample(c, b, BUFFER).consumed, Len(b)}
    PROVE  OutOfSource(AvResample(c, b, BUFFER).ctx, Len(b) - taken)
<1>. DEFINE n == OutputSize(c, Len(b), BUFFER)
            r == AvResample(c, b, BUFFER)
            last == After(c, n)
            at == SampleIndex(last.index)
<1>1. PHASES \in Nat \ {0} /\ BUFFER \in Nat \ {0}
  BY ResamplerAssumption, BufferAssumption
<1>2. n \in Nat /\ n < BUFFER /\ OutOfSource(last, Len(b))
  <2>1. n \in 0 .. BUFFER /\ (n < BUFFER => OutOfSource(last, Len(b)))
    BY WhereItStops
  <2>2. n # BUFFER
    OBVIOUS
  <2>. HIDE DEF n
  <2>. QED  BY <1>1, <2>1, <2>2
<1>3. /\ last \in Context /\ last.taps = c.taps /\ c.taps \in Nat \ {0}
      /\ last.index \in Int
  <2>. HIDE DEF n
  <2>1. last \in Context /\ last.taps = c.taps /\ c.taps \in Nat \ {0}
    BY <1>2, AfterFields
  <2>. QED  BY <2>1 DEF Context
<1>4. at \in Int /\ at >= 0 /\ at + c.taps > Len(b)
  <2>. HIDE DEF last
  <2>. QED  BY <1>2, <1>3, PhaseOf DEF OutOfSource
<1>5. last.index >= 0
  <2>. DEFINE i == last.index
  <2>1. i \in Int /\ SampleIndex(i) >= 0
    BY <1>3, <1>4
  <2>. HIDE DEF i
  <2>2. ~(i < PHASES * 0)
    BY <2>1, PhaseOf
  <2>3. i >= 0
    BY <1>1, <2>1, <2>2
  <2>. QED  BY <2>3 DEF i
<1>6. r.consumed = at
  <2>1. (IF last.index > 0 THEN last.index ELSE 0) = last.index
    <3>. HIDE DEF last
    <3>. QED  BY <1>3, <1>5
  <2>. QED  BY <2>1 DEF AvResample
<1>7. r.ctx.taps = c.taps /\ r.ctx.index = last.index % PHASES
  <2>1. r.ctx = [last EXCEPT !.index = IF last.index >= 0 THEN last.index % PHASES ELSE last.index]
    BY DEF AvResample
  <2>. HIDE DEF r, last
  <2>. QED  BY <1>3, <1>5, <2>1 DEF Context
<1>8. SampleIndex(last.index % PHASES) = 0
  <2>. DEFINE e == last.index % PHASES
  <2>1. e \in 0 .. PHASES - 1
    <3>. DEFINE i == last.index
    <3>. HIDE DEF i
    <3>. QED  BY <1>1, <1>3 DEF i
  <2>. HIDE DEF e
  <2>2. e \div PHASES = 0
    BY <1>1, <2>1, SmallQuotient
  <2>. QED  BY <2>2 DEF SampleIndex, e
<1>9. OutOfSource(r.ctx, Len(b) - taken) <=> c.taps > Len(b) - taken
  <2>1. 0 >= 0 /\ (0 + c.taps = c.taps)
    BY <1>3
  <2>. HIDE DEF r
  <2>. QED  BY <1>7, <1>8, <2>1 DEF OutOfSource
<1>. DEFINE t == c.taps
            l == Len(b)
<1>10. taken \in {at, l} /\ at \in Int /\ at + t > l /\ t \in Nat \ {0} /\ l \in Nat
  BY <1>3, <1>4, <1>6
<1>. HIDE DEF t, l, at, r
<1>11. t > l - taken
  BY <1>10
<1>. QED  BY <1>9, <1>11 DEF t, l, r

\* A call of Resample on a buffer that is not full.
LEMMA ResampleLeaves ==
    ASSUME IInv, Len(buffer) < BUFFER, Resample(buffer)
    PROVE  ~WindowLeft' \/ (Len(batch') = BUFFER /\ ctx.incr < TARGET * PHASES)
<1>. DEFINE r == Resampled(buffer)
            size == Len(buffer)
            taken == Min({r.consumed, size})
<1>1. size \in Nat /\ BUFFER \in Nat \ {0} /\ size < BUFFER
  BY BufferAssumption, OneElement, Joined DEF IInv, Typed
<1>2. buffer' = SubSeq(buffer, taken + 1, size) /\ ctx' = r.ctx /\ batch' = r.out
  BY DEF Resample, Remaining, Taken
<1>3. ASSUME taken \in 0 .. size
      PROVE  Len(buffer') = size - taken
  <2>. HIDE DEF taken, size
  <2>1. taken + 1 \in Int /\ size \in Int
    BY <1>1, <1>3
  <2>2. Len(buffer') = IF taken + 1 <= size THEN size - (taken + 1) + 1 ELSE 0
    BY <1>2, <2>1, Part
  <2>. QED  BY <1>1, <1>3, <2>2
<1>4. CASE ctx = NoContext
  <2>1. r = [out |-> buffer, consumed |-> size, ctx |-> ctx]
    BY <1>4 DEF Resampled
  <2>2. r.consumed = size /\ r.ctx = ctx
    BY <2>1
  <2>3. taken = size
    <3>1. taken = Min({size, size})
      BY <2>2
    <3>2. Min({size, size}) \in {size, size}
      <4>. HIDE DEF size
      <4>1. size \in Int
        BY <1>1
      <4>. QED  BY <4>1, MinOfTwo
    <3>. QED  BY <3>1, <3>2
  <2>4. Len(buffer') = 0 /\ IsSeq(buffer')
    <3>1. taken \in 0 .. size /\ size - taken = 0
      <4>. HIDE DEF taken, size
      <4>. QED  BY <1>1, <2>3
    <3>2. taken + 1 \in Int /\ size \in Int
      <4>. HIDE DEF taken, size
      <4>. QED  BY <1>1, <2>3
    <3>. HIDE DEF taken, size
    <3>. QED  BY <1>2, <1>3, <3>1, <3>2, Part
  <2>5. buffer' = <<>>
    <3>1. PICK S : buffer' \in Seq(S)
      BY <2>4 DEF IsSeq
    <3>. QED  BY <2>4, <3>1
  <2>6. ctx' = NoContext
    BY <1>2, <1>4, <2>2
  <2>. QED  BY <2>5, <2>6 DEF WindowLeft, NoContext
<1>5. CASE ctx # NoContext
  <2>. DEFINE n == OutputSize(ctx, size, BUFFER)
  <2>1. PICK rate : UsableRate(rate) /\ ContextOf(ctx, rate)
    BY <1>5 DEF IInv, ContextFits
  <2>2. r = AvResample(ctx, buffer, BUFFER)
    BY <1>5 DEF Resampled
  <2>3. Len(r.out) = n /\ r.consumed \in Nat /\ ContextOf(r.ctx, rate)
    BY <1>1, <2>1, <2>2, OneCall
  <2>4. taken \in 0 .. size /\ taken \in {r.consumed, size}
    <3>. DEFINE e == r.consumed
    <3>1. e \in Nat /\ taken = Min({e, size})
      BY <2>3
    <3>. HIDE DEF e, size, taken
    <3>2. taken \in {e, size} /\ taken <= e /\ taken <= size
      <4>1. e \in Int /\ size \in Int
        BY <1>1, <3>1
      <4>2. Min({e, size}) \in {e, size} /\ Min({e, size}) <= e /\ Min({e, size}) <= size
        BY <4>1, MinOfTwo
      <4>. QED  BY <3>1, <4>2
    <3>3. taken \in 0 .. size
      BY <1>1, <3>1, <3>2
    <3>. QED  BY <3>2, <3>3 DEF e
  <2>5. CASE n # BUFFER
    <3>1. OutOfSource(r.ctx, size - taken)
      <4>. HIDE DEF taken, r
      <4>. QED  BY <1>1, <2>1, <2>2, <2>4, <2>5, NoWindowStays
    <3>2. ctx' # NoContext
      <4>1. r.ctx.taps = FilterLength(rate) /\ FilterLength(rate) # 0
        BY <2>1, <2>3, FilterFits DEF ContextOf
      <4>. HIDE DEF r
      <4>. QED  BY <1>2, <4>1 DEF NoContext
    <3>3. Len(buffer') = size - taken
      <4>. HIDE DEF taken, size
      <4>. QED  BY <1>3, <2>4
    <3>4. OutOfSource(ctx', Len(buffer'))
      <4>. HIDE DEF taken, size, r
      <4>. QED  BY <1>2, <3>1, <3>3
    <3>. QED  BY <3>2, <3>4 DEF WindowLeft
  <2>6. CASE n = BUFFER
    <3>1. rate \in Nat /\ TARGET \in Nat \ {0} /\ PHASES \in Nat \ {0} /\ ctx.incr = rate * PHASES
      BY <2>1, FilterFits, ResamplerAssumption DEF ContextOf
    <3>2. ASSUME TARGET <= rate PROVE FALSE
      <4>1. LET at == SampleIndex(After(ctx, BUFFER - 1).index)
            IN at \in Nat /\ BUFFER <= at + ctx.taps
        BY <2>1, <3>2, LastFilterIsPast
      <4>2. BUFFER - 1 \in 0 .. n - 1
        <5>. HIDE DEF n
        <5>. QED  BY <1>1, <2>6
      <4>3. ~OutOfSource(After(ctx, BUFFER - 1), size)
        <5>1. \A k \in 0 .. n - 1 : ~OutOfSource(After(ctx, k), size)
          BY WhereItStops
        <5>. HIDE DEF n, size
        <5>. QED  BY <4>2, <5>1
      <4>4. After(ctx, BUFFER - 1).taps = ctx.taps /\ ctx.taps \in Nat
        <5>1. BUFFER - 1 \in Nat
          BY <1>1
        <5>. QED  BY <2>1, <5>1, AfterFields
      <4>. QED  BY <1>1, <4>1, <4>3, <4>4 DEF OutOfSource
    <3>3. rate < TARGET
      BY <3>1, <3>2
    <3>4. rate * PHASES < TARGET * PHASES
      <4>1. (rate + 1) * PHASES <= TARGET * PHASES
        BY <3>1, <3>3
      <4>. QED  BY <3>1, <4>1
    <3>5. Len(batch') = BUFFER
      <4>. HIDE DEF r, n
      <4>. QED  BY <1>2, <2>3, <2>6
    <3>. QED  BY <3>1, <3>4, <3>5
  <2>. QED  BY <2>5, <2>6
<1>. QED  BY <1>4, <1>5

\* audio_processor.cpp, Flush: what stays in the buffer is less than a filter,
\* unless the output buffer was filled, and it is only for rates below the
\* target (for those it can be: audio_processor.h promises otherwise).
THEOREM FlushLeavesLittle == Spec => FlushStopsAtFullOutput
<1>1. TypeOK => Len(buffer) < BUFFER
  BY DEF TypeOK
<1>2. IInv /\ TypeOK /\ [Next]_vars =>
        [Flush => ~WindowLeft' \/ (Len(batch') = BUFFER /\ ctx.incr < TARGET * PHASES)]_vars
  <2>. SUFFICES ASSUME IInv, TypeOK, Flush
                PROVE  ~WindowLeft' \/ (Len(batch') = BUFFER /\ ctx.incr < TARGET * PHASES)
    OBVIOUS
  <2>1. Resample(buffer)
    BY DEF Flush
  <2>. QED  BY <1>1, <2>1, ResampleLeaves
<1>. QED  BY InitIInv, StepIInv, TypeCorrect, <1>2, PTL DEF Spec, FlushStopsAtFullOutput
=============================================================================
