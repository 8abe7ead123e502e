------------------------- MODULE Fingerprinter_proofs -------------------------
(***************************************************************************)
(* Proofs about Fingerprinter: however the stream is cut into calls and    *)
(* whatever was fed before the last Start, the items are the windows of    *)
(* the stream, for every frame size, overlap, filter and buffer.           *)
(***************************************************************************)
EXTENDS Fingerprinter, SequenceTheorems, TLAPS

-----------------------------------------------------------------------------
(* Arithmetic.                                                             *)

LEMMA Division ==
    ASSUME NEW x \in Int, NEW d \in Nat \ {0}
    PROVE  /\ x \div d \in Int /\ x % d \in 0 .. d - 1
           /\ x = d * (x \div d) + (x % d)
OBVIOUS

LEMMA DivisionUnique ==
    ASSUME NEW q \in Int, NEW d \in Nat \ {0}, NEW r \in 0 .. d - 1
    PROVE  (d * q + r) \div d = q
OBVIOUS

LEMMA AtLeast == ASSUME NEW a \in Nat, NEW b \in Nat PROVE a <= a + b
OBVIOUS

LEMMA Counted == ASSUME NEW a \in Nat, NEW b \in Nat, b <= a PROVE a - b + 1 \in Nat
OBVIOUS

\* Multiples of the divisor come out of a quotient.
LEMMA DivisionShift ==
    ASSUME NEW x \in Int, NEW c \in Int, NEW d \in Nat \ {0}
    PROVE  (x + c * d) \div d = x \div d + c
<1>. DEFINE q == x \div d
            r == x % d
            a == q + c
<1>1. q \in Int /\ r \in 0 .. d - 1 /\ x = d * q + r
  BY Division
<1>2. a \in Int /\ x + c * d = d * a + r
  <2>. HIDE DEF q, r
  <2>1. d * (q + c) = d * q + c * d
    BY <1>1
  <2>. QED  BY <1>1, <2>1
<1>3. (d * a + r) \div d = a
  <2>. HIDE DEF a, r
  <2>. QED  BY <1>1, <1>2, DivisionUnique
<1>. QED  BY <1>2, <1>3

-----------------------------------------------------------------------------
(* How many windows there are.                                             *)

\* What Count is: the next window is not complete, the last one is.
LEMMA CountIs ==
    ASSUME NEW n \in Nat, NEW size \in Nat \ {0}, NEW step \in 1 .. size
    PROVE  /\ Count(n, size, step) \in Nat
           /\ Count(n, size, step) * step \in Nat
           /\ Count(n, size, step) * step <= n
           /\ n < Count(n, size, step) * step + size
           /\ \A k \in 1 .. Count(n, size, step) :
                 (k - 1) * step \in Nat /\ (k - 1) * step + size <= n
<1>. step \in Nat \ {0}
  OBVIOUS
<1>1. CASE n < size
  <2>1. Count(n, size, step) = 0
    BY <1>1 DEF Count
  <2>. QED  BY <1>1, <2>1
<1>2. CASE n >= size
  <2>. DEFINE q == (n - size) \div step
              u == step * q
              r == (n - size) % step
  <2>1. q \in Int /\ r \in 0 .. step - 1 /\ n - size = u + r
    <3>1. n - size \in Int
      OBVIOUS
    <3>. QED  BY <3>1, Division
  <2>2. q \in Nat
    BY <1>2
  <2>3. Count(n, size, step) = q + 1
    BY <1>2 DEF Count
  <2>4. (q + 1) * step = u + step /\ u \in Nat
    <3>. HIDE DEF q
    <3>. QED  BY <2>2
  <2>5. ASSUME NEW k \in 1 .. q + 1
        PROVE  (k - 1) * step \in Nat /\ (k - 1) * step <= u
    <3>. HIDE DEF q
    <3>. QED  BY <2>2
  <2>. HIDE DEF q, u, r
  <2>6. /\ (q + 1) * step \in Nat /\ (q + 1) * step <= n
        /\ n < (q + 1) * step + size
    BY <2>1, <2>2, <2>4, <1>2
  <2>7. \A k \in 1 .. q + 1 : (k - 1) * step \in Nat /\ (k - 1) * step + size <= n
    BY <2>1, <2>5, <2>4
  <2>8. q + 1 \in Nat
    BY <2>2
  <2>. QED  BY <2>3, <2>6, <2>7, <2>8
<1>. QED  BY <1>1, <1>2

\* The windows of a stream are those that were complete and those of what was
\* kept and what came.
LEMMA CountSum ==
    ASSUME NEW n \in Nat, NEW d \in Nat, NEW size \in Nat \ {0}, NEW step \in 1 .. size
    PROVE  Count(n + d, size, step)
             = Count(n, size, step) + Count(n + d - Count(n, size, step) * step, size, step)
<1>. DEFINE c == Count(n, size, step)
            u == c * step
            m == n + d - u
<1>. step \in Nat \ {0}
  OBVIOUS
<1>1. c \in Nat /\ u \in Nat /\ u <= n /\ n < u + size
  BY CountIs
<1>2. c > 0 => u - step + size <= n
  <2>1. c > 0 => (c - 1) * step + size <= n
    BY <1>1, CountIs, SMTT(30)
  <2>2. (c - 1) * step = u - step
    <3>. HIDE DEF c
    <3>. QED  BY <1>1
  <2>. QED  BY <2>1, <2>2
<1>3. CASE m < size
  <2>1. Count(m, size, step) = 0
    BY <1>3 DEF Count
  <2>2. Count(n + d, size, step) = c
    <3>1. CASE c = 0
      <4>1. u = 0
        BY <3>1
      <4>2. n + d < size
        <5>. HIDE DEF u
        <5>. QED  BY <1>3, <4>1
      <4>. QED  BY <3>1, <4>2 DEF Count
    <3>2. CASE c > 0
      <4>. DEFINE r == n + d - size - (u - step)
                  q == c - 1
      <4>1. r \in 0 .. step - 1 /\ n + d - size = step * q + r /\ n + d >= size
        <5>1. step * q = u - step
          <6>. HIDE DEF c
          <6>. QED  BY <1>1
        <5>2. n + d >= u - step + size /\ u - step >= 0
          <6>1. u - step \in Nat
            BY <1>1, <3>2, <5>1
          <6>. HIDE DEF u, c
          <6>. QED  BY <1>1, <1>2, <3>2, <6>1
        <5>. HIDE DEF u, c, q
        <5>. QED  BY <1>1, <1>3, <5>1, <5>2
      <4>2. q \in Int
        BY <1>1
      <4>3. (step * q + r) \div step = q
        <5>. HIDE DEF q, r
        <5>. QED  BY <4>1, <4>2, DivisionUnique
      <4>4. (n + d - size) \div step = q
        BY <4>1, <4>3
      <4>. QED  BY <4>1, <4>4, <1>1 DEF Count
    <3>. QED  BY <3>1, <3>2, <1>1
  <2>. QED  BY <2>1, <2>2, <1>1
<1>4. CASE m >= size
  <2>. DEFINE x == m - size
  <2>1. x \in Int /\ n + d - size = x + c * step /\ n + d >= size
    <3>. HIDE DEF c
    <3>. QED  BY <1>1, <1>4
  <2>2. (x + c * step) \div step = x \div step + c
    <3>1. c \in Int
      BY <1>1
    <3>. HIDE DEF x, c
    <3>. QED  BY <2>1, <3>1, DivisionShift
  <2>3. Count(n + d, size, step) = x \div step + c + 1
    BY <2>1, <2>2 DEF Count
  <2>4. Count(m, size, step) = x \div step + 1
    BY <1>4 DEF Count
  <2>5. x \div step \in Int
    BY <2>1, Division
  <2>. QED
    <3>. HIDE DEF x, m, c
    <3>. QED  BY <2>3, <2>4, <2>5, <1>1 DEF m, c
<1>. QED
  <2>1. m \in Int
    BY <1>1
  <2>. HIDE DEF m, c
  <2>. QED  BY <1>3, <1>4, <2>1

-----------------------------------------------------------------------------
(* Streams.  A stream is a function on Nat; a stage has seen its first n   *)
(* elements and keeps those from the next window on.                       *)

\* The n elements of a stream from g[a] on.
Part(g, a, n) == [i \in 1 .. n |-> g[a + i - 1]]

\* The windows of a stream, itself a stream.
Windows(g, size, step) == [k \in Nat |-> Part(g, k * step, size)]

\* What a stage keeps that has seen n elements.
Kept(g, n, size, step) ==
    Part(g, Count(n, size, step) * step, n - Count(n, size, step) * step)

Values(g) == {g[i] : i \in Nat}

LEMMA PartIsSeq ==
    ASSUME NEW g, NEW a \in Nat, NEW n \in Nat
    PROVE  /\ Part(g, a, n) \in Seq(Values(g)) /\ Len(Part(g, a, n)) = n
           /\ DOMAIN Part(g, a, n) = 1 .. n
<1>1. Part(g, a, n) \in [1 .. n -> Values(g)]
  <2>1. \A i \in 1 .. n : a + i - 1 \in Nat
    OBVIOUS
  <2>. QED  BY <2>1 DEF Part, Values
<1>2. Part(g, a, n) \in Seq(Values(g)) /\ DOMAIN Part(g, a, n) = 1 .. n
  BY <1>1, IsASeq
<1>. QED  BY <1>2, LenProperties DEF Part

LEMMA PartAt ==
    ASSUME NEW g, NEW a, NEW n, NEW i \in 1 .. n
    PROVE  Part(g, a, n)[i] = g[a + i - 1]
BY DEF Part

LEMMA PartOfNone == ASSUME NEW g, NEW a PROVE Part(g, a, 0) = <<>>
BY DEF Part

LEMMA PartsJoined ==
    ASSUME NEW g, NEW a \in Nat, NEW m \in Nat, NEW n \in Nat
    PROVE  Part(g, a, m) \o Part(g, a + m, n) = Part(g, a, m + n)
<1>. DEFINE s == Part(g, a, m)
            t == Part(g, a + m, n)
            b == Part(g, a, m + n)
<1>1. s \in Seq(Values(g)) /\ Len(s) = m
  BY PartIsSeq
<1>2. t \in Seq(Values(g)) /\ Len(t) = n
  <2>1. a + m \in Nat
    OBVIOUS
  <2>. QED  BY <2>1, PartIsSeq
<1>3. b \in Seq(Values(g)) /\ Len(b) = m + n
  <2>1. m + n \in Nat
    OBVIOUS
  <2>. QED  BY <2>1, PartIsSeq
<1>. HIDE DEF s, t, b
<1>4. s \o t \in Seq(Values(g)) /\ Len(s \o t) = m + n
  BY <1>1, <1>2, ConcatProperties
<1>5. ASSUME NEW i \in 1 .. m + n
      PROVE  (s \o t)[i] = b[i]
  <2>1. b[i] = g[a + i - 1]
    BY PartAt DEF b
  <2>2. CASE i <= m
    <3>1. (s \o t)[i] = s[i]
      BY <2>2, <1>1, <1>2, ConcatProperties
    <3>2. i \in 1 .. m
      BY <2>2
    <3>3. s[i] = g[a + i - 1]
      BY <3>2, PartAt DEF s
    <3>. QED  BY <2>1, <3>1, <3>3
  <2>3. CASE i > m
    <3>. DEFINE k == i - m
    <3>1. (s \o t)[i] = t[k]
      <4>1. i \in 1 .. Len(s) + Len(t) /\ ~(i <= Len(s))
        BY <2>3, <1>1, <1>2
      <4>2. (s \o t)[i] = t[i - Len(s)]
        BY <4>1, <1>1, <1>2, ConcatProperties
      <4>. QED  BY <4>2, <1>1
    <3>2. k \in 1 .. n /\ a + m + k - 1 = a + i - 1
      BY <2>3
    <3>. HIDE DEF k
    <3>3. t[k] = g[a + m + k - 1]
      BY <3>2, PartAt DEF t
    <3>4. t[k] = g[a + i - 1]
      BY <3>2, <3>3, Zenon
    <3>. QED  BY <2>1, <3>1, <3>4, Zenon
  <2>4. i <= m \/ i > m
    OBVIOUS
  <2>. QED  BY <2>2, <2>3, <2>4, Zenon
<1>. QED  BY <1>3, <1>4, <1>5, SeqEqual DEF s, t, b

LEMMA PartOfPart ==
    ASSUME NEW g, NEW a \in Nat, NEW n \in Nat,
           NEW i \in 0 .. n, NEW j \in i .. n
    PROVE  SubSeq(Part(g, a, n), i + 1, j) = Part(g, a + i, j - i)
<1>. DEFINE s == Part(g, a, n)
            t == SubSeq(s, i + 1, j)
            b == Part(g, a + i, j - i)
<1>1. s \in Seq(Values(g)) /\ Len(s) = n
  BY PartIsSeq
<1>2. b \in Seq(Values(g)) /\ Len(b) = j - i
  <2>1. a + i \in Nat /\ j - i \in Nat
    OBVIOUS
  <2>. QED  BY <2>1, PartIsSeq
<1>. HIDE DEF s, b
<1>3. /\ t \in Seq(Values(g)) /\ Len(t) = j - i
      /\ \A k \in 1 .. j - i : t[k] = s[i + k]
  <2>1. i + 1 \in 1 .. n + 1 /\ j \in i .. n
    OBVIOUS
  <2>. QED  BY <2>1, <1>1, SubSeqProperties
<1>. HIDE DEF t
<1>4. ASSUME NEW k \in 1 .. j - i
      PROVE  t[k] = b[k]
  <2>. DEFINE l == i + k
  <2>1. l \in 1 .. n /\ a + l - 1 = a + i + k - 1
    OBVIOUS
  <2>. HIDE DEF l
  <2>2. s[l] = g[a + l - 1]
    BY <2>1, PartAt DEF s
  <2>3. b[k] = g[a + i + k - 1]
    BY PartAt DEF b
  <2>. QED  BY <2>1, <2>2, <2>3, <1>3 DEF l
<1>. QED  BY <1>2, <1>3, <1>4, SeqEqual DEF t, s, b

\* What a stage does with the next d elements: it makes the windows that are
\* complete now and were not before, and keeps the elements from then on.
LEMMA SlideOfStream ==
    ASSUME NEW g, NEW size \in Nat \ {0}, NEW step \in 1 .. size,
           NEW n \in Nat, NEW d \in Nat
    PROVE  /\ Slide(Kept(g, n, size, step) \o Part(g, n, d), size, step).rest
                = Kept(g, n + d, size, step)
           /\ Slide(Kept(g, n, size, step) \o Part(g, n, d), size, step).out
                = Part(Windows(g, size, step), Count(n, size, step),
                       Count(n + d, size, step) - Count(n, size, step))
<1>. DEFINE c == Count(n, size, step)
            u == c * step
            m == n + d - u
            e == Count(m, size, step)
            v == e * step
            input == Part(g, u, m)
            W == Windows(g, size, step)
<1>1. c \in Nat /\ u \in Nat /\ u <= n /\ m \in Nat
  BY CountIs
<1>2. /\ e \in Nat /\ v \in Nat /\ v <= m
      /\ \A k \in 1 .. e : (k - 1) * step \in Nat /\ (k - 1) * step + size <= m
  <2>. HIDE DEF m
  <2>. QED  BY <1>1, CountIs
<1>3. Count(n + d, size, step) = c + e
  BY CountSum
<1>4. Kept(g, n, size, step) \o Part(g, n, d) = input
  <2>. DEFINE k == n - u
  <2>1. k \in Nat /\ u + k = n /\ k + d = m
    <3>. HIDE DEF u
    <3>. QED  BY <1>1
  <2>2. Part(g, u, k) \o Part(g, u + k, d) = Part(g, u, k + d)
    <3>1. u \in Nat /\ k \in Nat
      BY <1>1, <2>1
    <3>. HIDE DEF k, u
    <3>. QED  BY <3>1, PartsJoined, ZenonT(60)
  <2>3. Kept(g, n, size, step) = Part(g, u, k)
    BY DEF Kept
  <2>. HIDE DEF k, u, m
  <2>. QED  BY <2>1, <2>2, <2>3
<1>5. Len(input) = m
  <2>. HIDE DEF u, m
  <2>. QED  BY <1>1, PartIsSeq
<1>6. /\ Slide(input, size, step).rest = SubSeq(input, v + 1, m)
      /\ Slide(input, size, step).out =
            [k \in 1 .. e |-> SubSeq(input, (k - 1) * step + 1, (k - 1) * step + size)]
  <2>. HIDE DEF input, m
  <2>. QED  BY <1>5 DEF Slide
<1>7. SubSeq(input, v + 1, m) = Kept(g, n + d, size, step)
  <2>1. SubSeq(Part(g, u, m), v + 1, m) = Part(g, u + v, m - v)
    <3>1. v \in 0 .. m /\ m \in v .. m
      <4>. HIDE DEF m, v
      <4>. QED  BY <1>1, <1>2
    <3>. HIDE DEF u, m, v
    <3>. QED  BY <1>1, <3>1, PartOfPart
  <2>2. (c + e) * step = u + v
    <3>. HIDE DEF c, e
    <3>. QED  BY <1>1, <1>2
  <2>3. (n + d) - (u + v) = m - v
    <3>. HIDE DEF u, v
    <3>. QED  BY <1>1, <1>2
  <2>4. Count(n + d, size, step) * step = u + v
    BY <1>3, <2>2, Zenon
  <2>5. Kept(g, n + d, size, step) = Part(g, u + v, m - v)
    <3>. HIDE DEF c, e, u, v, m
    <3>. DEFINE w == Count(n + d, size, step) * step
    <3>1. (n + d) - w = m - v
      BY <2>3, <2>4
    <3>2. Kept(g, n + d, size, step) = Part(g, w, (n + d) - w)
      BY DEF Kept
    <3>. QED  BY <2>4, <3>1, <3>2
  <2>. QED  BY <2>1, <2>5, Zenon
<1>8. ASSUME NEW k \in 1 .. e
      PROVE  SubSeq(input, (k - 1) * step + 1, (k - 1) * step + size) = W[c + k - 1]
  <2>. DEFINE i == (k - 1) * step
              j == i + size
  <2>1. i \in 0 .. m /\ j \in i .. m
    <3>1. i \in Nat /\ i + size <= m
      BY <1>2
    <3>. HIDE DEF i, m
    <3>. QED  BY <3>1, <1>1
  <2>2. SubSeq(Part(g, u, m), i + 1, j) = Part(g, u + i, j - i)
    <3>. HIDE DEF i, j, u, m
    <3>. QED  BY <1>1, <2>1, PartOfPart
  <2>3. j - i = size
    <3>. HIDE DEF i, m
    <3>. QED  BY <2>1
  <2>4. u + i = (c + k - 1) * step
    <3>. HIDE DEF c
    <3>. QED  BY <1>1
  <2>5. c + k - 1 \in Nat
    BY <1>1
  <2>. HIDE DEF i, j, u, m, c
  <2>. QED  BY <2>2, <2>3, <2>4, <2>5 DEF Windows, input, i, j
<1>9. [k \in 1 .. e |-> SubSeq(input, (k - 1) * step + 1, (k - 1) * step + size)]
        = Part(W, c, Count(n + d, size, step) - c)
  <2>1. Count(n + d, size, step) - c = e
    <3>. HIDE DEF c, e
    <3>. QED  BY <1>1, <1>2, <1>3
  <2>. HIDE DEF W, c, e, input
  <2>. QED  BY <1>8, <2>1 DEF Part
<1>. HIDE DEF input, W
<1>. QED  BY <1>4, <1>6, <1>7, <1>9 DEF W, e, v, m, u, c

-----------------------------------------------------------------------------
(* What the stages make of a stream of samples from s on.                  *)

Samples(s) == [i \in Nat |-> s + i]
Block(s, length) ==
    [i \in Nat |-> s + i * item_duration .. s + i * item_duration + (length - 1)]

LEMMA ItemType == item_duration \in 1 .. FRAME /\ OVERLAP \in Nat
BY ConfigurationAssumption DEF item_duration

LEMMA SetOfPart ==
    ASSUME NEW s \in Nat, NEW a \in Nat, NEW n \in Nat
    PROVE  ToSet(Part(Samples(s), a, n)) = s + a .. s + a + (n - 1)
<1>. DEFINE p == Part(Samples(s), a, n)
<1>1. DOMAIN p = 1 .. n /\ \A i \in 1 .. n : p[i] = s + a + (i - 1)
  <2>1. \A i \in 1 .. n : a + i - 1 \in Nat
    OBVIOUS
  <2>. QED  BY <2>1 DEF Part, Samples
<1>2. ToSet(p) = {p[i] : i \in 1 .. n}
  BY <1>1 DEF ToSet
<1>. HIDE DEF p
<1>3. ASSUME NEW x \in s + a .. s + a + (n - 1)
      PROVE  x \in {p[i] : i \in 1 .. n}
  <2>1. x - s - a + 1 \in 1 .. n /\ s + a + ((x - s - a + 1) - 1) = x
    OBVIOUS
  <2>. QED  BY <2>1, <1>1
<1>4. ASSUME NEW i \in 1 .. n
      PROVE  p[i] \in s + a .. s + a + (n - 1)
  BY <1>1
<1>. QED  BY <1>2, <1>3, <1>4 DEF p

\* Blocks that overlap or touch merge into one.
LEMMA MergedBlocks ==
    ASSUME NEW s \in Nat, NEW length \in Nat, item_duration <= length,
           NEW k \in Nat, NEW n \in Nat \ {0}
    PROVE  Merged(Part(Block(s, length), k, n))
             = Block(s, length + (n - 1) * item_duration)[k]
<1>. DEFINE d == item_duration
            p == Part(Block(s, length), k, n)
            a == s + k * d
            e == (n - 1) * d
<1>0. d \in Nat \ {0}
  BY ItemType
<1>1. a \in Nat /\ e \in Nat
  <2>. HIDE DEF d
  <2>. QED  BY <1>0
<1>2. DOMAIN p = 1 .. n
  BY DEF Part
<1>3. ASSUME NEW i \in 1 .. n
      PROVE  p[i] = a + (i - 1) * d .. a + (i - 1) * d + (length - 1)
  <2>1. p[i] = Block(s, length)[k + i - 1]
    BY DEF Part
  <2>2. k + i - 1 \in Nat
    OBVIOUS
  <2>3. (k + i - 1) * d = k * d + (i - 1) * d
    <3>. HIDE DEF d
    <3>. QED  BY <1>0
  <2>4. s + (k + i - 1) * d = a + (i - 1) * d
    <3>. DEFINE u == k * d
                v == (i - 1) * d
    <3>1. u \in Int /\ v \in Int
      <4>. HIDE DEF d
      <4>. QED  BY <1>0
    <3>2. s + (u + v) = s + u + v
      <4>. HIDE DEF u, v
      <4>. QED  BY <3>1
    <3>. QED  BY <2>3, <3>2
  <2>5. Block(s, length)[k + i - 1]
          = s + (k + i - 1) * d .. s + (k + i - 1) * d + (length - 1)
    BY <2>2 DEF Block
  <2>. QED  BY <2>1, <2>4, <2>5
<1>4. Merged(p) = UNION {p[i] : i \in 1 .. n}
  BY <1>2 DEF Merged, ToSet
<1>5. Block(s, length + e)[k] = a .. a + ((length + e) - 1)
  BY DEF Block
<1>6. ASSUME NEW i \in 1 .. n, NEW x \in a + (i - 1) * d .. a + (i - 1) * d + (length - 1)
      PROVE  x \in a .. a + ((length + e) - 1)
  <2>. DEFINE v == (i - 1) * d
  <2>1. v \in 0 .. e
    <3>1. i - 1 \in Nat /\ (n - 1) - (i - 1) \in Nat
      OBVIOUS
    <3>2. v \in Nat /\ ((n - 1) - (i - 1)) * d \in Nat
      <4>. HIDE DEF d
      <4>. QED  BY <1>0, <3>1
    <3>3. ((n - 1) - (i - 1)) * d = e - v
      <4>. HIDE DEF d
      <4>. QED  BY <1>0, <3>1
    <3>. HIDE DEF v, e
    <3>. QED  BY <1>1, <3>2, <3>3
  <2>2. x \in a + v .. a + v + (length - 1)
    OBVIOUS
  <2>. HIDE DEF v, e, a
  <2>. QED  BY <1>1, <2>1, <2>2
<1>7. ASSUME NEW x \in a .. a + ((length + e) - 1)
      PROVE  \E i \in 1 .. n : x \in a + (i - 1) * d .. a + (i - 1) * d + (length - 1)
  <2>. DEFINE y == x - a
              q == y \div d
              u == d * q
  <2>0. y \in Nat /\ y <= length + e - 1
    <3>. HIDE DEF a, e
    <3>. QED  BY <1>1
  <2>1. q \in Int /\ u \in Int /\ u <= y /\ y < u + d
    <3>1. q \in Int /\ y % d \in 0 .. d - 1 /\ y = u + (y % d)
      <4>. HIDE DEF y, d
      <4>. QED  BY <1>0, <2>0, Division
    <3>2. u \in Int
      <4>. HIDE DEF q, d
      <4>. QED  BY <1>0, <3>1
    <3>. HIDE DEF u, q, y, d
    <3>. QED  BY <1>0, <2>0, <3>1, <3>2
  <2>2. q \in Nat
    <3>1. q <= -1 => u <= -d
      <4>. HIDE DEF q, d
      <4>. QED  BY <1>0, <2>1
    <3>. HIDE DEF u, q, y, d
    <3>. QED  BY <1>0, <2>0, <2>1, <3>1
  <2>3. CASE q <= n - 1
    <3>. DEFINE i == q + 1
    <3>1. i \in 1 .. n
      BY <2>2, <2>3
    <3>2. (i - 1) * d = u
      <4>. HIDE DEF q, d
      <4>. QED  BY <1>0, <2>2
    <3>3. x \in a + u .. a + u + (length - 1)
      <4>1. x = a + y
        <5>. HIDE DEF a
        <5>. QED  BY <1>1
      <4>2. d <= length
        OBVIOUS
      <4>. HIDE DEF a, u, y, q, d
      <4>. QED  BY <1>0, <1>1, <2>0, <2>1, <4>1, <4>2
    <3>. HIDE DEF i, u, a
    <3>. QED  BY <3>1, <3>2, <3>3
  <2>4. CASE q >= n
    <3>1. e <= y
      <4>1. n * d <= u
        <5>. HIDE DEF q, d
        <5>1. q - n \in Nat
          BY <2>2, <2>4
        <5>2. (q - n) * d \in Nat
          BY <5>1, <1>0
        <5>3. (q - n) * d = u - n * d
          BY <1>0, <2>2
        <5>. QED  BY <5>2, <5>3, <1>0, <2>2
      <4>2. n * d = e + d /\ n * d \in Nat
        <5>. HIDE DEF d
        <5>. QED  BY <1>0
      <4>. DEFINE w == n * d
      <4>. HIDE DEF w, u, e, y, d
      <4>. QED  BY <1>0, <1>1, <2>0, <2>1, <4>1, <4>2 DEF w
    <3>2. x \in a + e .. a + e + (length - 1)
      <4>1. x = a + y
        <5>. HIDE DEF a
        <5>. QED  BY <1>1
      <4>. HIDE DEF a, e, y
      <4>. QED  BY <1>1, <2>0, <3>1, <4>1
    <3>3. n \in 1 .. n /\ (n - 1) * d = e
      OBVIOUS
    <3>. HIDE DEF a, e
    <3>. QED  BY <3>2, <3>3
  <2>5. q <= n - 1 \/ q >= n
    <3>. HIDE DEF q
    <3>. QED  BY <2>2
  <2>. QED  BY <2>3, <2>4, <2>5
<1>8. UNION {p[i] : i \in 1 .. n} = a .. a + ((length + e) - 1)
  <2>. HIDE DEF p, a, e, d
  <2>. QED  BY <1>3, <1>6, <1>7
<1>. QED
  <2>. HIDE DEF p, a
  <2>. QED  BY <1>4, <1>5, <1>8 DEF p

\* How many frames, sums and items there are of n samples.
Cuts(n) == Count(n, FRAME, item_duration)
Sums(n) == Count(Cuts(n), COEFFICIENTS, 1)
Items(n) == Count(Sums(n), WIDTH, 1)

SumLength == FRAME + (COEFFICIENTS - 1) * item_duration
ItemLength == SumLength + (WIDTH - 1) * item_duration

LEMMA Lengths ==
    /\ SumLength \in Nat /\ item_duration <= SumLength
    /\ ItemLength = delay + item_duration /\ delay \in Nat
<1>. DEFINE d == item_duration
            u == (COEFFICIENTS - 1) * d
            v == (WIDTH - 1) * d
<1>1. d \in Nat /\ d <= FRAME /\ FRAME \in Nat /\ OVERLAP \in Nat /\ FRAME = d + OVERLAP
  BY ConfigurationAssumption DEF item_duration
<1>2. COEFFICIENTS - 1 \in Nat /\ WIDTH - 1 \in Nat
  BY ConfigurationAssumption
<1>3. u \in Nat /\ v \in Nat
  <2>. HIDE DEF d
  <2>. QED  BY <1>1, <1>2
<1>4. ((COEFFICIENTS - 1) + (WIDTH - 1)) * d = u + v
  <2>. HIDE DEF d
  <2>. QED  BY <1>1, <1>2
<1>5. SumLength = FRAME + u /\ ItemLength = (FRAME + u) + v /\ delay = (u + v) + OVERLAP
  BY <1>4 DEF SumLength, ItemLength, delay
<1>. HIDE DEF u, v
<1>. QED  BY <1>1, <1>3, <1>5

LEMMA CountTypes ==
    ASSUME NEW n \in Nat
    PROVE  Cuts(n) \in Nat /\ Sums(n) \in Nat /\ Items(n) \in Nat
<1>1. Cuts(n) \in Nat
  BY ConfigurationAssumption, ItemType, CountIs DEF Cuts
<1>2. Sums(n) \in Nat
  BY <1>1, ConfigurationAssumption, CountIs DEF Sums
<1>3. Items(n) \in Nat
  BY <1>2, ConfigurationAssumption, CountIs DEF Items
<1>. QED  BY <1>1, <1>2, <1>3

\* More samples never give less.
LEMMA CountGrows ==
    ASSUME NEW n \in Nat, NEW h \in Nat
    PROVE  /\ Cuts(n + h) - Cuts(n) \in Nat
           /\ Sums(n + h) - Sums(n) \in Nat
           /\ Items(n + h) - Items(n) \in Nat
<1>1. ASSUME NEW m \in Nat, NEW d \in Nat, NEW size \in Nat \ {0}, NEW step \in 1 .. size
      PROVE  Count(m + d, size, step) - Count(m, size, step) \in Nat
  <2>. DEFINE c == Count(m, size, step)
              u == c * step
              l == (m + d) - u
              e == Count(l, size, step)
  <2>1. c \in Nat /\ u \in Nat /\ u <= m
    BY CountIs
  <2>2. l \in Nat
    <3>. HIDE DEF u
    <3>. QED  BY <2>1
  <2>3. e \in Nat
    <3>. HIDE DEF l
    <3>. QED  BY <2>2, CountIs
  <2>4. l = m + d - u
    <3>. HIDE DEF u
    <3>. QED  BY <2>1
  <2>5. Count(m + d, size, step) = c + e
    <3>1. Count(m + d, size, step) = c + Count(m + d - u, size, step)
      BY CountSum
    <3>. HIDE DEF l, u, c
    <3>. QED  BY <3>1, <2>4 DEF e
  <2>. HIDE DEF c, e
  <2>. QED  BY <2>1, <2>3, <2>5 DEF c
<1>2. Cuts(n + h) - Cuts(n) \in Nat
  BY <1>1, ConfigurationAssumption, ItemType DEF Cuts
<1>3. ASSUME NEW a \in Nat, NEW b \in Nat, NEW size \in Nat \ {0}, a - b \in Nat
      PROVE  Count(a, size, 1) - Count(b, size, 1) \in Nat
  <2>1. a - b \in Nat /\ b + (a - b) = a /\ 1 \in 1 .. size
    BY <1>3
  <2>2. Count(b + (a - b), size, 1) - Count(b, size, 1) \in Nat
    BY <2>1, <1>1
  <2>. QED  BY <2>1, <2>2
<1>4. n + h \in Nat
  OBVIOUS
<1>5. /\ Cuts(n) \in Nat /\ Cuts(n + h) \in Nat
      /\ Sums(n) \in Nat /\ Sums(n + h) \in Nat
  BY <1>4, CountTypes
<1>6. Sums(n + h) - Sums(n) \in Nat
  BY <1>2, <1>3, <1>5, ConfigurationAssumption DEF Sums
<1>7. Items(n + h) - Items(n) \in Nat
  BY <1>6, <1>3, <1>5, ConfigurationAssumption DEF Items
<1>. QED  BY <1>2, <1>6, <1>7

\* The frames and the merged sets of a stream, as streams.
LEMMA FramesOfStream ==
    ASSUME NEW s \in Nat, NEW a \in Nat, NEW n \in Nat
    PROVE  Map(Part(Windows(Samples(s), FRAME, item_duration), a, n), ToSet)
             = Part(Block(s, FRAME), a, n)
<1>. DEFINE d == item_duration
            p == Part(Windows(Samples(s), FRAME, d), a, n)
<1>1. d \in Nat /\ FRAME \in Nat
  BY ItemType, ConfigurationAssumption
<1>2. DOMAIN p = 1 .. n
  BY DEF Part
<1>3. ASSUME NEW i \in 1 .. n
      PROVE  ToSet(p[i]) = Block(s, FRAME)[a + i - 1]
  <2>. DEFINE k == a + i - 1
  <2>1. k \in Nat
    OBVIOUS
  <2>2. k * d \in Nat
    <3>. HIDE DEF k, d
    <3>. QED  BY <2>1, <1>1
  <2>3. p[i] = Part(Samples(s), k * d, FRAME)
    BY <2>1 DEF Part, Windows
  <2>4. ToSet(Part(Samples(s), k * d, FRAME)) = s + k * d .. s + k * d + (FRAME - 1)
    <3>. HIDE DEF k, d
    <3>. QED  BY <1>1, <2>2, SetOfPart
  <2>5. Block(s, FRAME)[k] = s + k * d .. s + k * d + (FRAME - 1)
    BY <2>1 DEF Block
  <2>. HIDE DEF k, d, p
  <2>. QED  BY <2>3, <2>4, <2>5 DEF k
<1>4. Map(p, ToSet) = [i \in 1 .. n |-> Block(s, FRAME)[a + i - 1]]
  <2>. HIDE DEF p
  <2>. QED  BY <1>2, <1>3 DEF Map
<1>. QED  BY <1>4 DEF Part

LEMMA MergedOfStream ==
    ASSUME NEW s \in Nat, NEW length \in Nat, item_duration <= length,
           NEW size \in Nat \ {0}, NEW a \in Nat, NEW n \in Nat
    PROVE  Map(Part(Windows(Block(s, length), size, 1), a, n), Merged)
             = Part(Block(s, length + (size - 1) * item_duration), a, n)
<1>. DEFINE b == Block(s, length + (size - 1) * item_duration)
            p == Part(Windows(Block(s, length), size, 1), a, n)
<1>1. DOMAIN p = 1 .. n
  BY DEF Part
<1>2. ASSUME NEW i \in 1 .. n
      PROVE  Merged(p[i]) = b[a + i - 1]
  <2>. DEFINE k == a + i - 1
  <2>1. k \in Nat /\ k * 1 = k
    OBVIOUS
  <2>2. p[i] = Part(Block(s, length), k, size)
    BY <2>1 DEF Part, Windows
  <2>3. Merged(Part(Block(s, length), k, size)) = b[k]
    <3>. HIDE DEF k
    <3>. QED  BY <2>1, MergedBlocks
  <2>. HIDE DEF k, p, b
  <2>. QED  BY <2>2, <2>3 DEF k
<1>3. Map(p, Merged) = [i \in 1 .. n |-> b[a + i - 1]]
  <2>. HIDE DEF p, b
  <2>. QED  BY <1>1, <1>2 DEF Map
<1>. QED  BY <1>3 DEF Part

\* What the stages keep and make when h more samples come to the n before.
CutOf(w, heard) == Slide(w \o heard, FRAME, item_duration)
SumOf(f, cut) == Slide(f \o Map(cut.out, ToSet), COEFFICIENTS, 1)
RowOf(r, sum) == Slide(r \o Map(sum.out, Merged), WIDTH, 1)

KeptWindow(s, n) == Kept(Samples(s), n, FRAME, item_duration)
KeptFrames(s, n) == Kept(Block(s, FRAME), Cuts(n), COEFFICIENTS, 1)
KeptRows(s, n) == Kept(Block(s, SumLength), Sums(n), WIDTH, 1)
ItemsMade(s, n, h) == Part(Block(s, ItemLength), Items(n), Items(n + h) - Items(n))

StagesMoved(cut, sum, row, s, n, h) ==
    /\ cut.rest = KeptWindow(s, n + h)
    /\ sum.rest = KeptFrames(s, n + h)
    /\ row.rest = KeptRows(s, n + h)
    /\ Map(row.out, Merged) = ItemsMade(s, n, h)

LEMMA StagesMove ==
    ASSUME NEW s \in Nat, NEW n \in Nat, NEW h \in Nat,
           NEW cut, cut = CutOf(KeptWindow(s, n), Part(Samples(s), n, h)),
           NEW sum, sum = SumOf(KeptFrames(s, n), cut),
           NEW row, row = RowOf(KeptRows(s, n), sum)
    PROVE  StagesMoved(cut, sum, row, s, n, h)
<1>0. /\ FRAME \in Nat \ {0} /\ item_duration \in 1 .. FRAME
      /\ COEFFICIENTS \in Nat \ {0} /\ WIDTH \in Nat \ {0}
      /\ 1 \in 1 .. COEFFICIENTS /\ 1 \in 1 .. WIDTH /\ n + h \in Nat
  BY ConfigurationAssumption, ItemType
<1>1. /\ Cuts(n) \in Nat /\ Cuts(n + h) - Cuts(n) \in Nat
      /\ Sums(n) \in Nat /\ Sums(n + h) - Sums(n) \in Nat
      /\ Items(n) \in Nat /\ Items(n + h) - Items(n) \in Nat
      /\ Cuts(n) + (Cuts(n + h) - Cuts(n)) = Cuts(n + h)
      /\ Sums(n) + (Sums(n + h) - Sums(n)) = Sums(n + h)
  <2>1. Cuts(n + h) \in Nat /\ Sums(n + h) \in Nat
    BY <1>0, CountTypes
  <2>2. Cuts(n) \in Nat /\ Sums(n) \in Nat /\ Items(n) \in Nat
    BY CountTypes
  <2>3. /\ Cuts(n + h) - Cuts(n) \in Nat
        /\ Sums(n + h) - Sums(n) \in Nat
        /\ Items(n + h) - Items(n) \in Nat
    BY CountGrows
  <2>4. /\ Cuts(n) + (Cuts(n + h) - Cuts(n)) = Cuts(n + h)
        /\ Sums(n) + (Sums(n + h) - Sums(n)) = Sums(n + h)
    BY <2>1, <2>2
  <2>. QED  BY <2>2, <2>3, <2>4
<1>2. /\ cut.rest = KeptWindow(s, n + h)
      /\ cut.out = Part(Windows(Samples(s), FRAME, item_duration),
                        Cuts(n), Cuts(n + h) - Cuts(n))
  BY <1>0, SlideOfStream DEF CutOf, KeptWindow, Cuts
<1>3. Map(cut.out, ToSet) = Part(Block(s, FRAME), Cuts(n), Cuts(n + h) - Cuts(n))
  BY <1>1, <1>2, FramesOfStream
<1>4. /\ sum.rest = KeptFrames(s, n + h)
      /\ sum.out = Part(Windows(Block(s, FRAME), COEFFICIENTS, 1),
                        Sums(n), Sums(n + h) - Sums(n))
  <2>. DEFINE d == Cuts(n + h) - Cuts(n)
  <2>1. /\ sum.rest = Kept(Block(s, FRAME), Cuts(n) + d, COEFFICIENTS, 1)
        /\ sum.out = Part(Windows(Block(s, FRAME), COEFFICIENTS, 1),
                          Count(Cuts(n), COEFFICIENTS, 1),
                          Count(Cuts(n) + d, COEFFICIENTS, 1)
                             - Count(Cuts(n), COEFFICIENTS, 1))
    BY <1>0, <1>1, <1>3, SlideOfStream DEF SumOf, KeptFrames
  <2>. QED  BY <1>1, <2>1 DEF KeptFrames, Sums
<1>5. Map(sum.out, Merged) = Part(Block(s, SumLength), Sums(n), Sums(n + h) - Sums(n))
  <2>1. item_duration <= FRAME
    BY <1>0
  <2>. QED  BY <1>0, <1>1, <1>4, <2>1, MergedOfStream DEF SumLength
<1>6. /\ row.rest = KeptRows(s, n + h)
      /\ row.out = Part(Windows(Block(s, SumLength), WIDTH, 1),
                        Items(n), Items(n + h) - Items(n))
  <2>. DEFINE d == Sums(n + h) - Sums(n)
  <2>1. /\ row.rest = Kept(Block(s, SumLength), Sums(n) + d, WIDTH, 1)
        /\ row.out = Part(Windows(Block(s, SumLength), WIDTH, 1),
                          Count(Sums(n), WIDTH, 1),
                          Count(Sums(n) + d, WIDTH, 1) - Count(Sums(n), WIDTH, 1))
    BY <1>0, <1>1, <1>5, SlideOfStream DEF RowOf, KeptRows
  <2>. QED  BY <1>1, <2>1 DEF KeptRows, Items
<1>7. Map(row.out, Merged) = ItemsMade(s, n, h)
  BY <1>0, <1>1, <1>6, Lengths, MergedOfStream DEF ItemsMade, ItemLength
<1>. QED  BY <1>2, <1>4, <1>6, <1>7 DEF StagesMoved

\* Nothing is kept of nothing.
LEMMA NothingOfNothing ==
    ASSUME NEW s
    PROVE  /\ KeptWindow(s, 0) = <<>> /\ KeptFrames(s, 0) = <<>> /\ KeptRows(s, 0) = <<>>
           /\ Items(0) = 0
<1>1. ASSUME NEW size \in Nat \ {0}, NEW step \in Nat, NEW g
      PROVE  Count(0, size, step) = 0 /\ Kept(g, 0, size, step) = <<>>
  <2>1. Count(0, size, step) = 0
    BY DEF Count
  <2>2. 0 * step = 0 /\ 0 - 0 * step = 0
    OBVIOUS
  <2>. QED  BY <2>1, <2>2, PartOfNone DEF Kept
<1>2. item_duration \in Nat
  BY ItemType
<1>3. Cuts(0) = 0 /\ KeptWindow(s, 0) = <<>>
  BY <1>1, <1>2, ConfigurationAssumption DEF Cuts, KeptWindow
<1>4. Sums(0) = 0 /\ KeptFrames(s, 0) = <<>>
  BY <1>1, <1>3, ConfigurationAssumption DEF Sums, KeptFrames
<1>5. Items(0) = 0 /\ KeptRows(s, 0) = <<>>
  BY <1>1, <1>4, ConfigurationAssumption DEF Items, KeptRows
<1>. QED  BY <1>3, <1>4, <1>5

-----------------------------------------------------------------------------
(* The silence remover.                                                    *)

\* The samples from s on are a part of all samples.
LEMMA Renumbered ==
    ASSUME NEW s \in Nat \ {0}, NEW n \in Nat, NEW h \in Nat
    PROVE  Part(Samples(1), (s - 1) + n, h) = Part(Samples(s), n, h)
<1>1. ASSUME NEW i \in 1 .. h
      PROVE  Samples(1)[(s - 1) + n + i - 1] = Samples(s)[n + i - 1]
  <2>1. (s - 1) + n + i - 1 \in Nat /\ n + i - 1 \in Nat
    OBVIOUS
  <2>. QED  BY <2>1 DEF Samples
<1>. QED  BY <1>1 DEF Part

LEMMA MinIs ==
    ASSUME NEW T \in SUBSET Int, NEW x \in T, \A y \in T : x <= y
    PROVE  Min(T) = x
<1>1. \E z \in T : \A y \in T : z <= y
  OBVIOUS
<1>2. Min(T) \in T /\ \A y \in T : Min(T) <= y
  BY <1>1 DEF Min
<1>3. Min(T) <= x /\ x <= Min(T) /\ Min(T) \in Int
  BY <1>2
<1>. QED  BY <1>3

\* It lets through all after the first `loud` samples.
LEMMA LoudPart ==
    ASSUME NEW a \in Nat, NEW d \in Nat, NEW loud \in Nat, a <= loud, loud = base + quiet
    PROVE  SinceFirst(Part(Samples(1), a, d),
                      {i \in DOMAIN Part(Samples(1), a, d) : Loud(Part(Samples(1), a, d)[i])})
             = Part(Samples(1), loud, IF a + d > loud THEN (a + d) - loud ELSE 0)
<1>. DEFINE p == Part(Samples(1), a, d)
            T == {i \in DOMAIN p : Loud(p[i])}
            m == loud - a + 1
<1>1. DOMAIN p = 1 .. d /\ Len(p) = d
  BY PartIsSeq
<1>2. ASSUME NEW i \in 1 .. d
      PROVE  p[i] = a + i
  <2>1. a + i - 1 \in Nat
    OBVIOUS
  <2>. QED  BY <2>1 DEF Part, Samples
<1>3. T = {i \in 1 .. d : i >= m}
  <2>. HIDE DEF p
  <2>. QED  BY <1>1, <1>2 DEF Loud
<1>. HIDE DEF T
<1>4. CASE a + d > loud
  <2>1. m \in T /\ T \in SUBSET Int /\ \A y \in T : m <= y
    BY <1>3, <1>4
  <2>2. Min(T) = m
    <3>. HIDE DEF m
    <3>. QED  BY <2>1, MinIs
  <2>3. SinceFirst(p, T) = SubSeq(p, m, d)
    <3>. HIDE DEF p, m
    <3>. QED  BY <1>1, <2>1, <2>2 DEF SinceFirst
  <2>. DEFINE i == loud - a
  <2>4. SubSeq(p, i + 1, d) = Part(Samples(1), a + i, d - i)
    <3>1. i \in 0 .. d /\ d \in i .. d
      BY <1>4
    <3>. HIDE DEF i
    <3>. QED  BY <3>1, PartOfPart
  <2>5. a + i = loud /\ d - i = (a + d) - loud /\ i + 1 = m
    OBVIOUS
  <2>. HIDE DEF p, i, m
  <2>. QED  BY <1>4, <2>3, <2>4, <2>5 DEF p, T
<1>5. CASE ~(a + d > loud)
  <2>1. T = {}
    BY <1>3, <1>5
  <2>2. SinceFirst(p, T) = <<>>
    BY <2>1 DEF SinceFirst
  <2>. HIDE DEF p
  <2>. QED  BY <1>5, <2>2, PartOfNone DEF p, T
<1>. QED  BY <1>4, <1>5

-----------------------------------------------------------------------------
(* The inductive invariant.                                                *)

\* The samples that the processor has passed on, and those of this stream
\* that the silence remover has let through.
Passed == fed - Len(buffer)
Through == IF from = 0 THEN 0 ELSE Passed - from + 1

\* The buffer holds the last samples fed.
BufferInv ==
    /\ fed \in Nat /\ base \in 0 .. fed
    /\ Len(buffer) \in 0 .. BUFFER - 1 /\ Passed >= base
    /\ buffer = Part(Samples(1), Passed, Len(buffer))

\* The samples passed on are let through from one on that comes no later than
\* the first loud one, or are all quiet yet.
SilenceInv ==
    /\ quiet \in Nat /\ from \in Nat /\ silent \in BOOLEAN
    /\ silent => REMOVE_SILENCE /\ from = 0
    /\ from # 0 => base < from /\ from <= base + quiet + 1 /\ from <= Passed
    /\ from = 0 /\ silent => Passed <= base + quiet
    /\ from = 0 /\ ~silent => Passed = base
    /\ REMOVE_SILENCE /\ ~silent => fed > 0 /\ (base = 0 => from = quiet + 1)

\* Each stage keeps of the samples let through what it is to keep, and the
\* items are those of all of them.
StagesInv ==
    /\ window = KeptWindow(from, Through)
    /\ frames = KeptFrames(from, Through)
    /\ rows = KeptRows(from, Through)
    /\ cleared \in Seq(SUBSET Int) /\ fingerprint \in Seq(SUBSET Int)
    /\ cleared \o fingerprint = Part(Block(from, ItemLength), 0, Items(Through))

IInv == BufferInv /\ SilenceInv /\ StagesInv

LEMMA InitIInv == Init => IInv
<1>. SUFFICES ASSUME Init PROVE IInv
  OBVIOUS
<1>1. Len(buffer) = 0 /\ Passed = 0 /\ Through = 0
  <2>1. Len(buffer) = 0 /\ fed = 0 /\ from = 0
    BY DEF Init
  <2>. QED  BY <2>1 DEF Passed, Through
<1>2. BufferInv
  BY <1>1, ConfigurationAssumption, PartOfNone DEF Init, BufferInv
<1>3. SilenceInv
  BY <1>1, ConfigurationAssumption, BoundsAssumption DEF Init, SilenceInv
<1>4. cleared \o fingerprint = <<>> /\ <<>> \in Seq(SUBSET Int)
  BY DEF Init
<1>5. StagesInv
  BY <1>1, <1>4, NothingOfNothing, PartOfNone DEF Init, StagesInv
<1>. QED  BY <1>2, <1>3, <1>5 DEF IInv

\* After a Start the first state of a stream holds again.
LEMMA StartIInv == ASSUME IInv, Start PROVE IInv'
<1>1. Len(buffer') = 0 /\ Passed' = fed /\ Through' = 0 /\ fed \in Nat
  BY DEF IInv, BufferInv, Start, Passed, Through
<1>2. BufferInv'
  BY <1>1, ConfigurationAssumption, PartOfNone DEF Start, BufferInv
<1>3. SilenceInv'
  <2>1. quiet' \in Nat
    BY BoundsAssumption DEF Start
  <2>2. silent' = silent /\ fed' = fed /\ base' = fed /\ from' = 0
    BY DEF Start
  <2>3. /\ silent \in BOOLEAN /\ (silent => REMOVE_SILENCE)
        /\ (REMOVE_SILENCE /\ ~silent => fed > 0)
    BY DEF IInv, SilenceInv
  <2>4. Passed' = base' /\ from' = 0 /\ 0 \in Nat
    BY <1>1, <2>2, Zenon
  <2>5. fed > 0 => fed' > 0 /\ base' # 0
    BY <1>1, <2>2
  <2>6. base' <= base' + quiet'
    <3>1. base' \in Nat
      BY <1>1, <2>2
    <3>. QED  BY <2>1, <3>1, AtLeast
  <2>. QED  BY <2>1, <2>2, <2>3, <2>4, <2>5, <2>6, Zenon DEF SilenceInv
<1>4. cleared' \o fingerprint' = <<>> /\ <<>> \in Seq(SUBSET Int)
  BY DEF Start
<1>5. StagesInv'
  BY <1>1, <1>4, NothingOfNothing, PartOfNone DEF Start, NothingKept, StagesInv
<1>. QED  BY <1>2, <1>3, <1>5 DEF IInv

LEMMA ClearIInv == ASSUME IInv, ClearFingerprint PROVE IInv'
<1>1. Passed' = Passed /\ Through' = Through
  BY DEF ClearFingerprint, Passed, Through
<1>2. BufferInv' /\ SilenceInv'
  BY <1>1 DEF ClearFingerprint, IInv, BufferInv, SilenceInv
<1>3. cleared' \o fingerprint' = cleared \o fingerprint
  BY DEF ClearFingerprint, IInv, StagesInv
<1>4. cleared' \in Seq(SUBSET Int) /\ fingerprint' \in Seq(SUBSET Int)
  <2>1. cleared \o fingerprint \in Seq(SUBSET Int)
    BY ConcatProperties DEF IInv, StagesInv
  <2>. QED  BY <2>1 DEF ClearFingerprint
<1>5. StagesInv'
  BY <1>1, <1>3, <1>4 DEF ClearFingerprint, IInv, StagesInv
<1>. QED  BY <1>2, <1>5 DEF IInv

LEMMA SetOptionIInv == ASSUME IInv, SetOption PROVE IInv'
<1>1. Passed' = Passed /\ Through' = Through
  BY DEF SetOption, stages, Passed, Through
<1>2. quiet' \in Nat /\ Passed <= base + quiet'
  BY BoundsAssumption DEF SetOption, IInv, BufferInv, Passed
<1>3. BufferInv' /\ SilenceInv'
  BY <1>1, <1>2 DEF SetOption, stages, IInv, BufferInv, SilenceInv
<1>4. StagesInv'
  BY <1>1 DEF SetOption, stages, IInv, StagesInv
<1>. QED  BY <1>3, <1>4 DEF IInv

\* What the silence remover lets through of the next d samples, in terms of
\* the stream it lets through: s is its first sample, n were let through before.
LEMMA HeardOfStream ==
    ASSUME BufferInv, SilenceInv, NEW d \in Nat,
           NEW heard, heard = LetThrough(Part(Samples(1), Passed, d)),
           silent' = (silent /\ heard = <<>>),
           from' = IF from = 0 /\ heard # <<>> THEN heard[1] ELSE from,
           UNCHANGED <<base, quiet>>, fed' \in Nat, fed' >= fed,
           Passed' = Passed + d, Passed' <= fed'
    PROVE  \E h \in Nat :
              /\ Through \in Nat /\ from' \in Nat
              /\ Through' = Through + h
              /\ Through = 0 \/ from' = from
              /\ heard = Part(Samples(from'), Through, h)
              /\ SilenceInv'
<1>0. /\ fed \in Nat /\ base \in Nat /\ base <= fed
      /\ Passed \in Nat /\ Passed >= base /\ Passed <= fed
  BY DEF BufferInv, Passed
<1>1. quiet \in Nat /\ from \in Nat /\ base' = base /\ quiet' = quiet
  BY DEF SilenceInv
\* The samples are loud from `loud` + 1 on.
<1>. DEFINE loud == base + quiet
            p == Part(Samples(1), Passed, d)
<1>2. loud \in Nat
  BY <1>0, <1>1
\* What is let through starts with sample s, if that is among the d.
<1>3. ASSUME NEW s \in Nat \ {0}, NEW h \in Nat \ {0}, from = 0,
             heard = Part(Samples(1), s - 1, h), s + h = Passed + d + 1,
             base < s, s <= base + quiet + 1,
             REMOVE_SILENCE /\ silent => s = quiet + base + 1,
             REMOVE_SILENCE /\ ~silent => fed > 0 /\ base # 0
      PROVE  /\ from' = s /\ Through = 0 /\ Through' = h
             /\ heard = Part(Samples(from'), 0, h)
             /\ SilenceInv'
  <2>1. Part(Samples(1), (s - 1) + 0, h) = Part(Samples(s), 0, h)
    BY Renumbered
  <2>2. (s - 1) + 0 = s - 1 /\ 1 \in 1 .. h
    OBVIOUS
  <2>3. heard = Part(Samples(s), 0, h)
    BY <1>3, <2>1, <2>2
  <2>4. heard # <<>> /\ heard[1] = s
    <3>1. Len(heard) = h
      <4>1. 0 \in Nat /\ h \in Nat
        OBVIOUS
      <4>2. Len(Part(Samples(s), 0, h)) = h
        BY <4>1, PartIsSeq
      <4>. QED  BY <2>3, <4>2, Zenon
    <3>2. heard[1] = Samples(s)[0 + 1 - 1]
      BY <2>2, <2>3, PartAt
    <3>3. Samples(s)[0 + 1 - 1] = s
      BY DEF Samples
    <3>. QED  BY <3>1, <3>2, <3>3
  <2>5. from' = s /\ silent' = FALSE
    BY <1>3, <2>4
  <2>6. Through = 0 /\ Through' = h
    BY <1>0, <1>3, <2>5 DEF Through
  <2>7. s <= Passed'
    BY <1>0, <1>3
  <2>8. REMOVE_SILENCE => fed' > 0 /\ (base' = 0 => from' = quiet' + 1)
    <3>1. fed' > 0
      <4>1. fed' >= s
        BY <1>0, <1>3, <2>7
      <4>. QED  BY <4>1
    <3>2. s = quiet + base + 1 /\ base' = 0 => s = quiet' + 1
      BY <1>0, <1>1
    <3>3. base # 0 => base' # 0
      BY <1>1
    <3>. QED  BY <1>3, <2>5, <3>1, <3>2, <3>3, Zenon
  <2>9. base' < from' /\ from' <= base' + quiet' + 1 /\ from' <= Passed' /\ from' # 0
    BY <1>1, <1>3, <2>5, <2>7
  <2>10. quiet' \in Nat /\ from' \in Nat
    BY <1>1, <2>5
  <2>11. SilenceInv'
    BY <2>5, <2>8, <2>9, <2>10, Zenon DEF SilenceInv
  <2>. QED  BY <2>3, <2>5, <2>6, <2>11
<1>4. CASE silent
  <2>1. from = 0 /\ Passed <= loud /\ REMOVE_SILENCE
    BY <1>4 DEF SilenceInv
  <2>2. heard = Part(Samples(1), loud, IF Passed + d > loud THEN (Passed + d) - loud ELSE 0)
    <3>1. heard = SinceFirst(p, {i \in DOMAIN p : Loud(p[i])})
      BY <1>4 DEF LetThrough
    <3>. HIDE DEF loud
    <3>. QED  BY <1>0, <1>2, <2>1, <3>1, LoudPart DEF loud
  <2>3. CASE Passed + d > loud
    <3>. DEFINE h == (Passed + d) - loud
                s == loud + 1
    <3>1. h \in Nat \ {0} /\ s \in Nat \ {0} /\ s - 1 = loud
      BY <1>0, <1>2, <2>3
    <3>2. heard = Part(Samples(1), s - 1, h)
      <4>. HIDE DEF h, s, loud
      <4>. QED  BY <2>2, <2>3, <3>1 DEF h
    <3>3. /\ s + h = Passed + d + 1
          /\ base < s /\ s <= base + quiet + 1 /\ s = quiet + base + 1
      BY <1>0, <1>1
    <3>4. /\ from' = s /\ Through = 0 /\ Through' = h
          /\ heard = Part(Samples(from'), 0, h)
          /\ SilenceInv'
      <4>. HIDE DEF h, s
      <4>. QED  BY <1>3, <1>4, <2>1, <3>1, <3>2, <3>3
    <3>. HIDE DEF h, s
    <3>. QED  BY <3>1, <3>4
  <2>4. CASE ~(Passed + d > loud)
    <3>1. heard = <<>>
      BY <2>2, <2>4, PartOfNone
    <3>2. from' = 0 /\ silent' = silent
      BY <1>4, <2>1, <3>1
    <3>3. Through = 0 /\ Through' = 0
      BY <2>1, <3>2 DEF Through
    <3>4. heard = Part(Samples(from'), 0, 0)
      BY <3>1, PartOfNone
    <3>5. Passed' <= base' + quiet'
      BY <1>0, <1>1, <2>4
    <3>6. SilenceInv'
      <4>1. quiet' \in Nat /\ 0 \in Nat /\ silent' /\ silent' \in BOOLEAN
        BY <1>1, <1>4, <3>1
      <4>. QED  BY <2>1, <3>2, <3>5, <4>1, Zenon DEF SilenceInv
    <3>. QED  BY <3>2, <3>3, <3>4, <3>6
  <2>. QED  BY <1>0, <1>2, <2>3, <2>4
<1>5. CASE ~silent
  <2>1. heard = Part(Samples(1), Passed, d)
    BY <1>5 DEF LetThrough
  <2>2. CASE from # 0
    <3>1. base < from /\ from <= base + quiet + 1 /\ from <= Passed
      BY <2>2 DEF SilenceInv
    <3>2. from' = from /\ silent' = FALSE
      BY <1>5, <2>2
    <3>3. Through = Passed - from + 1 /\ Through' = Through + d /\ Through \in Nat
      BY <1>0, <1>1, <2>2, <3>1, <3>2 DEF Through
    <3>4. heard = Part(Samples(from), Through, d)
      <4>1. (from - 1) + Through = Passed
        BY <1>0, <1>1, <3>3
      <4>. QED  BY <1>1, <2>1, <2>2, <3>3, <4>1, Renumbered
    <3>5. base' < from' /\ from' <= base' + quiet' + 1 /\ from' <= Passed' /\ from' # 0
      BY <1>0, <1>1, <2>2, <3>1, <3>2
    <3>6. REMOVE_SILENCE => fed' > 0 /\ (base' = 0 => from' = quiet' + 1)
      BY <1>0, <1>1, <1>5, <3>2 DEF SilenceInv
    <3>7. quiet' \in Nat /\ from' \in Nat
      BY <1>1, <3>2
    <3>8. SilenceInv'
      <4>1. silent' = FALSE
        BY <3>2
      <4>2. ~silent' /\ silent' \in BOOLEAN
        BY <4>1, Zenon
      <4>. QED  BY <3>5, <3>6, <3>7, <4>2, Zenon DEF SilenceInv
    <3>. QED  BY <1>1, <3>2, <3>3, <3>4, <3>8
  <2>3. CASE from = 0
    <3>1. Passed = base /\ (REMOVE_SILENCE => fed > 0 /\ base # 0)
      BY <1>5, <1>1, <2>3 DEF SilenceInv
    <3>2. CASE d = 0
      <4>1. heard = <<>>
        BY <2>1, <3>2, PartOfNone
      <4>2. from' = 0 /\ silent' = FALSE
        BY <1>5, <2>3, <4>1
      <4>3. Through = 0 /\ Through' = 0
        BY <2>3, <4>2 DEF Through
      <4>4. heard = Part(Samples(from'), 0, 0)
        BY <4>1, PartOfNone
      <4>5. Passed' = base'
        BY <1>0, <1>1, <3>1, <3>2
      <4>6. REMOVE_SILENCE => fed' > 0 /\ base' # 0
        BY <1>0, <1>1, <3>1
      <4>7. SilenceInv'
        BY <1>1, <1>5, <4>2, <4>5, <4>6 DEF SilenceInv
      <4>. QED  BY <4>2, <4>3, <4>4, <4>7
    <3>3. CASE d # 0
      <4>. DEFINE s == Passed + 1
      <4>1. d \in Nat \ {0} /\ s \in Nat \ {0} /\ s - 1 = Passed
        BY <1>0, <3>3
      <4>2. s + d = Passed + d + 1 /\ base < s /\ s <= base + quiet + 1
        BY <1>0, <1>1, <3>1
      <4>3. heard = Part(Samples(1), s - 1, d)
        BY <2>1, <4>1
      <4>4. /\ from' = s /\ Through = 0 /\ Through' = d
            /\ heard = Part(Samples(from'), 0, d)
            /\ SilenceInv'
        <5>. HIDE DEF s
        <5>. QED  BY <1>3, <1>5, <2>3, <3>1, <4>1, <4>2, <4>3
      <4>. HIDE DEF s
      <4>. QED  BY <4>1, <4>4
    <3>. QED  BY <3>2, <3>3
  <2>. QED  BY <2>2, <2>3
<1>. QED  BY <1>4, <1>5

\* Process takes the next d samples through the stages.
LEMMA ProcessKeeps ==
    ASSUME IInv, NEW d \in Nat, Process(Part(Samples(1), Passed, d)),
           UNCHANGED <<base, quiet, cleared>>, fed' \in Nat, fed' >= fed,
           Passed' = Passed + d, Passed' <= fed'
    PROVE  SilenceInv' /\ StagesInv'
<1>1. PICK heard \in {LetThrough(Part(Samples(1), Passed, d))} :
        \E cut \in {CutOf(window, heard)} :
        \E sum \in {SumOf(frames, cut)} :
        \E row \in {RowOf(rows, sum)} :
           /\ silent' = (silent /\ heard = <<>>)
           /\ from' = IF from = 0 /\ heard # <<>> THEN heard[1] ELSE from
           /\ window' = cut.rest
           /\ frames' = sum.rest
           /\ rows' = row.rest
           /\ fingerprint' = fingerprint \o Map(row.out, Merged)
  BY DEF Process, CutOf, SumOf, RowOf
<1>2. PICK cut, sum, row :
        /\ cut = CutOf(window, heard) /\ sum = SumOf(frames, cut) /\ row = RowOf(rows, sum)
        /\ silent' = (silent /\ heard = <<>>)
        /\ from' = IF from = 0 /\ heard # <<>> THEN heard[1] ELSE from
        /\ window' = cut.rest
        /\ frames' = sum.rest
        /\ rows' = row.rest
        /\ fingerprint' = fingerprint \o Map(row.out, Merged)
  BY <1>1
<1>3. heard = LetThrough(Part(Samples(1), Passed, d)) /\ BufferInv /\ SilenceInv
  BY <1>1 DEF IInv
<1>4. PICK h \in Nat :
        /\ Through \in Nat /\ from' \in Nat
        /\ Through' = Through + h
        /\ Through = 0 \/ from' = from
        /\ heard = Part(Samples(from'), Through, h)
        /\ SilenceInv'
  BY <1>2, <1>3, HeardOfStream
<1>5. /\ window = KeptWindow(from', Through)
      /\ frames = KeptFrames(from', Through)
      /\ rows = KeptRows(from', Through)
      /\ cleared \o fingerprint = Part(Block(from', ItemLength), 0, Items(Through))
  <2>1. CASE Through = 0
    BY <2>1, NothingOfNothing, PartOfNone DEF IInv, StagesInv
  <2>2. CASE from' = from
    BY <2>2 DEF IInv, StagesInv
  <2>. QED  BY <1>4, <2>1, <2>2
<1>6. /\ cut.rest = KeptWindow(from', Through + h)
      /\ sum.rest = KeptFrames(from', Through + h)
      /\ row.rest = KeptRows(from', Through + h)
      /\ Map(row.out, Merged) = ItemsMade(from', Through, h)
  <2>1. /\ cut = CutOf(KeptWindow(from', Through), Part(Samples(from'), Through, h))
        /\ sum = SumOf(KeptFrames(from', Through), cut)
        /\ row = RowOf(KeptRows(from', Through), sum)
    BY <1>2, <1>4, <1>5
  <2>2. from' \in Nat /\ Through \in Nat
    BY <1>4
  <2>3. PICK s \in Nat, n \in Nat : s = from' /\ n = Through
    BY <2>2
  <2>4. /\ cut = CutOf(KeptWindow(s, n), Part(Samples(s), n, h))
        /\ sum = SumOf(KeptFrames(s, n), cut)
        /\ row = RowOf(KeptRows(s, n), sum)
    BY <2>1, <2>3, Zenon
  <2>5. StagesMoved(cut, sum, row, s, n, h)
    BY <2>4, StagesMove
  <2>. QED  BY <2>3, <2>5, Zenon DEF StagesMoved
<1>7. /\ Items(Through) \in Nat /\ Items(Through + h) \in Nat
      /\ Items(Through + h) - Items(Through) \in Nat
      /\ 0 + Items(Through) = Items(Through)
      /\ Items(Through) + (Items(Through + h) - Items(Through)) = Items(Through + h)
  <2>1. Through + h \in Nat
    BY <1>4
  <2>2. Items(Through) \in Nat /\ Items(Through + h) \in Nat
    BY <1>4, <2>1, CountTypes
  <2>3. Items(Through + h) - Items(Through) \in Nat
    BY <1>4, CountGrows
  <2>. QED  BY <2>2, <2>3
<1>8. ItemsMade(from', Through, h) \in Seq(SUBSET Int)
  <2>. DEFINE n == Items(Through + h) - Items(Through)
              b == Block(from', ItemLength)
  <2>1. ItemsMade(from', Through, h) = Part(b, Items(Through), n)
    BY DEF ItemsMade
  <2>2. Values(b) \subseteq SUBSET Int
    <3>1. item_duration \in Int
      BY ItemType
    <3>2. \A i \in Nat : b[i] \subseteq Int
      BY DEF Block
    <3>. HIDE DEF b
    <3>. QED  BY <3>2 DEF Values
  <2>3. Part(b, Items(Through), n) \in Seq(Values(b))
    <3>. HIDE DEF b, n
    <3>. QED  BY <1>7, PartIsSeq DEF n
  <2>. HIDE DEF b, n
  <2>. QED  BY <2>1, <2>2, <2>3
<1>9. /\ cleared' \in Seq(SUBSET Int) /\ fingerprint' \in Seq(SUBSET Int)
      /\ cleared' \o fingerprint' = Part(Block(from', ItemLength), 0, Items(Through + h))
  <2>. DEFINE t == ItemsMade(from', Through, h)
  <2>1. cleared \in Seq(SUBSET Int) /\ fingerprint \in Seq(SUBSET Int)
    BY DEF IInv, StagesInv
  <2>2. fingerprint' = fingerprint \o t /\ cleared' = cleared
    BY <1>2, <1>6
  <2>3. fingerprint \o t \in Seq(SUBSET Int)
    BY <1>8, <2>1, ConcatProperties
  <2>4. cleared \o (fingerprint \o t) = (cleared \o fingerprint) \o t
    <3>. HIDE DEF t
    <3>. QED  BY SMTT(30), <1>8, <2>1 DEF t
  <2>5. (cleared \o fingerprint) \o t = Part(Block(from', ItemLength), 0, Items(Through + h))
    <3>. DEFINE m == Items(Through)
                n == Items(Through + h) - Items(Through)
                b == Block(from', ItemLength)
    <3>1. Part(b, 0, m) \o Part(b, 0 + m, n) = Part(b, 0, m + n)
      <4>1. m \in Nat /\ n \in Nat /\ 0 \in Nat
        BY <1>7
      <4>. HIDE DEF m, n, b
      <4>. QED  BY <4>1, PartsJoined, ZenonT(60)
    <3>. QED  BY <1>5, <1>7, <3>1 DEF ItemsMade
  <2>. QED  BY <2>1, <2>2, <2>3, <2>4, <2>5
<1>10. StagesInv'
  BY <1>2, <1>4, <1>6, <1>9 DEF StagesInv
<1>. QED  BY <1>4, <1>10

\* The samples that ConsumeAligned passes on leave less than a full buffer.
LEMMA PassedOnIs ==
    ASSUME NEW n \in Nat
    PROVE  PassedOn(n) \in 0 .. n /\ n - PassedOn(n) \in 0 .. BUFFER - 1
<1>. DEFINE q == n \div BUFFER
            u == BUFFER * q
<1>0. BUFFER \in Nat \ {0} /\ n \in Int
  BY ConfigurationAssumption
<1>1. q \in Int /\ n % BUFFER \in 0 .. BUFFER - 1 /\ n = u + (n % BUFFER)
  BY <1>0, Division
<1>2. q \in Nat
  BY <1>0
<1>3. u \in Nat
  <2>. HIDE DEF q
  <2>. QED  BY <1>0, <1>2
<1>4. PassedOn(n) = u
  BY DEF PassedOn
<1>. DEFINE r == n % BUFFER
<1>. HIDE DEF u, r
<1>. QED  BY <1>0, <1>1, <1>3, <1>4 DEF r

\* A call of Consume passes the next d samples on, in order, and keeps the end.
LEMMA ConsumeProcesses ==
    ASSUME IInv, NEW n \in Nat, Consume(n)
    PROVE  \E d \in Nat :
              /\ Process(Part(Samples(1), Passed, d))
              /\ UNCHANGED <<base, quiet, cleared>>
              /\ fed' \in Nat /\ fed' >= fed
              /\ Passed' = Passed + d /\ Passed' <= fed'
              /\ BufferInv'
<1>. DEFINE l == Len(buffer)
            input == buffer \o [i \in 1 .. n |-> fed + i]
            d == PassedOn(l + n)
            rest == (l + n) - d
<1>0. /\ fed \in Nat /\ base \in Nat /\ base <= fed /\ l \in Nat /\ Passed \in Nat
      /\ Passed >= base /\ Passed + l = fed /\ buffer = Part(Samples(1), Passed, l)
  BY ConfigurationAssumption DEF IInv, BufferInv, Passed
<1>1. l + n \in Nat /\ d \in 0 .. l + n /\ rest \in 0 .. BUFFER - 1
  <2>1. l + n \in Nat
    BY <1>0
  <2>. HIDE DEF l
  <2>. QED  BY <2>1, PassedOnIs
<1>a. PICK a \in Nat, k \in Nat : a = Passed /\ k = l
  BY <1>0
<1>2. input = Part(Samples(1), a, k + n)
  <2>1. ASSUME NEW i \in 1 .. n
        PROVE  Samples(1)[fed + i - 1] = fed + i
    <3>1. fed + i - 1 \in Nat
      BY <1>0
    <3>. QED  BY <1>0, <3>1 DEF Samples
  <2>2. [i \in 1 .. n |-> fed + i] = Part(Samples(1), fed, n)
    BY <2>1 DEF Part
  <2>3. Part(Samples(1), a, k) \o Part(Samples(1), a + k, n) = Part(Samples(1), a, k + n)
    BY PartsJoined
  <2>4. buffer = Part(Samples(1), a, k) /\ fed = a + k
    BY <1>0, <1>a
  <2>. HIDE DEF l
  <2>. QED  BY <2>2, <2>3, <2>4
<1>3. Len(input) = l + n
  <2>1. k + n \in Nat
    OBVIOUS
  <2>2. Len(Part(Samples(1), a, k + n)) = k + n
    BY <2>1, PartIsSeq
  <2>. HIDE DEF input, l
  <2>. QED  BY <1>a, <1>2, <2>2
<1>4. /\ Process(SubSeq(input, 1, d)) /\ buffer' = SubSeq(input, d + 1, l + n)
      /\ fed' = fed + n /\ UNCHANGED <<base, quiet, cleared>>
  BY <1>3 DEF Consume
<1>5. /\ SubSeq(input, 1, d) = Part(Samples(1), Passed, d)
      /\ SubSeq(input, d + 1, l + n) = Part(Samples(1), Passed + d, rest)
      /\ Len(Part(Samples(1), Passed + d, rest)) = rest
  <2>1. PICK m \in Nat, e \in Nat : m = l + n /\ e = d /\ e <= m
    BY <1>1
  <2>2. SubSeq(Part(Samples(1), a, m), 0 + 1, e) = Part(Samples(1), a + 0, e - 0)
    <3>1. 0 \in 0 .. m /\ e \in 0 .. m
      BY <2>1
    <3>. QED  BY <3>1, PartOfPart
  <2>3. SubSeq(Part(Samples(1), a, m), e + 1, m) = Part(Samples(1), a + e, m - e)
    <3>1. e \in 0 .. m /\ m \in e .. m
      BY <2>1
    <3>. QED  BY <3>1, PartOfPart
  <2>4. a + 0 = a /\ e - 0 = e /\ 0 + 1 = 1 /\ a + e \in Nat /\ m - e \in Nat
    BY <2>1
  <2>5. Len(Part(Samples(1), a + e, m - e)) = m - e
    BY <2>4, PartIsSeq
  <2>6. input = Part(Samples(1), a, m)
    BY <1>2, <1>a, <2>1
  <2>7. rest = m - e
    BY <2>1
  <2>. HIDE DEF input, rest, d, l
  <2>. QED  BY <1>a, <2>1, <2>2, <2>3, <2>4, <2>5, <2>6, <2>7
<1>. HIDE DEF input
<1>6. Len(buffer') = rest
  BY <1>4, <1>5
<1>7. fed' \in Nat /\ fed' >= fed /\ Passed' = Passed + d /\ Passed' <= fed'
  <2>1. fed' = (Passed + l) + n
    BY <1>0, <1>4
  <2>2. Passed' = fed' - rest
    BY <1>6 DEF Passed
  <2>3. /\ (fed + n) \in Nat /\ fed + n >= fed
        /\ (fed + n) - rest = Passed + d /\ Passed + d <= fed + n
    <3>. HIDE DEF l, d
    <3>. QED  BY <1>0, <1>1 DEF rest
  <2>. HIDE DEF rest, d, l
  <2>. QED  BY <1>4, <2>2, <2>3
<1>8. BufferInv'
  <2>1. Passed + d >= base /\ base' \in 0 .. fed'
    BY <1>0, <1>1, <1>4, <1>7
  <2>. HIDE DEF rest, d, l
  <2>. QED  BY <1>1, <1>4, <1>5, <1>6, <1>7, <2>1 DEF BufferInv
<1>9. d \in Nat
  BY <1>1
<1>. HIDE DEF d
<1>. QED  BY <1>4, <1>5, <1>7, <1>8, <1>9

LEMMA ConsumeIInv ==
    ASSUME IInv, NEW n \in Nat, Consume(n)
    PROVE  IInv'
<1>1. PICK d \in Nat :
        /\ Process(Part(Samples(1), Passed, d))
        /\ UNCHANGED <<base, quiet, cleared>>
        /\ fed' \in Nat /\ fed' >= fed
        /\ Passed' = Passed + d /\ Passed' <= fed'
        /\ BufferInv'
  BY ConsumeProcesses
<1>2. SilenceInv' /\ StagesInv'
  BY <1>1, ProcessKeeps
<1>. QED  BY <1>1, <1>2 DEF IInv

LEMMA FinishIInv ==
    ASSUME IInv, Finish
    PROVE  IInv' /\ Passed' = fed'
<1>. DEFINE l == Len(buffer)
<1>0. /\ fed \in Nat /\ base \in Nat /\ base <= fed /\ l \in Nat /\ Passed \in Nat
      /\ Passed >= base /\ Passed + l = fed /\ buffer = Part(Samples(1), Passed, l)
  BY ConfigurationAssumption DEF IInv, BufferInv, Passed
<1>1. /\ Process(Part(Samples(1), Passed, l)) /\ buffer' = <<>> /\ fed' = fed
      /\ UNCHANGED <<base, quiet, cleared>>
  BY <1>0 DEF Finish
<1>2. Passed' = fed' /\ Len(buffer') = 0
  <2>1. Len(buffer') = 0
    BY <1>1
  <2>2. fed' - 0 = fed'
    BY <1>0, <1>1
  <2>. QED  BY <2>1, <2>2 DEF Passed
<1>3. fed' \in Nat /\ fed' >= fed /\ Passed' = Passed + l /\ Passed' <= fed'
  BY <1>0, <1>1, <1>2
<1>4. BufferInv'
  <2>1. 0 \in 0 .. BUFFER - 1 /\ base' \in 0 .. fed' /\ Passed' >= base'
    BY ConfigurationAssumption, <1>0, <1>1, <1>2
  <2>. QED  BY <1>1, <1>2, <1>3, <2>1, PartOfNone DEF BufferInv
<1>5. SilenceInv' /\ StagesInv'
  <2>. HIDE DEF l
  <2>. QED  BY <1>0, <1>1, <1>3, ProcessKeeps
<1>. QED  BY <1>2, <1>4, <1>5 DEF IInv

\* The first sample of a stream that is let through is one that is passed on
\* in the same step; without a silence remover it is the first of these.
FirstFound ==
    \/ from' = from
    \/ /\ from = 0 /\ from' \in Nat /\ from' > Passed
       /\ ~REMOVE_SILENCE => from' = Passed + 1

LEMMA ProcessFinds ==
    ASSUME IInv, NEW d \in Nat, Process(Part(Samples(1), Passed, d))
    PROVE  FirstFound
<1>1. PICK heard \in {LetThrough(Part(Samples(1), Passed, d))} :
        from' = IF from = 0 /\ heard # <<>> THEN heard[1] ELSE from
  BY DEF Process
<1>2. CASE ~(from = 0 /\ heard # <<>>)
  BY <1>1, <1>2 DEF FirstFound
<1>3. CASE from = 0 /\ heard # <<>>
  <2>0. Passed \in Nat
    BY DEF IInv, BufferInv, Passed
  <2>1. from' = heard[1] /\ heard = LetThrough(Part(Samples(1), Passed, d))
    BY <1>1, <1>3
  <2>2. PICK a \in Nat, k \in Nat :
          heard = Part(Samples(1), a, k) /\ a >= Passed /\ (~silent => a = Passed)
    <3>1. CASE silent
      <4>1. base + quiet \in Nat /\ Passed <= base + quiet
        BY <1>3, <3>1 DEF IInv, BufferInv, SilenceInv
      <4>. DEFINE loud == base + quiet
                  k == IF Passed + d > loud THEN (Passed + d) - loud ELSE 0
      <4>2. heard = Part(Samples(1), loud, k)
        BY <2>0, <2>1, <3>1, <4>1, LoudPart DEF LetThrough
      <4>3. k \in Nat
        BY <2>0, <4>1
      <4>. QED  BY <2>0, <3>1, <4>1, <4>2, <4>3
    <3>2. CASE ~silent
      BY <2>0, <2>1, <3>2 DEF LetThrough
    <3>. QED  BY <3>1, <3>2
  <2>3. k # 0
    BY <1>3, <2>2, PartOfNone
  <2>4. heard[1] = Samples(1)[a + 1 - 1]
    <3>1. 1 \in 1 .. k
      BY <2>3
    <3>. QED  BY <2>2, <3>1, PartAt
  <2>5. heard[1] = a + 1
    <3>1. a + 1 - 1 = a
      OBVIOUS
    <3>. QED  BY <2>4, <3>1 DEF Samples
  <2>6. silent => REMOVE_SILENCE
    BY DEF IInv, SilenceInv
  <2>7. from' \in Nat /\ from' > Passed
    BY <2>0, <2>1, <2>2, <2>5
  <2>8. ~REMOVE_SILENCE => from' = Passed + 1
    BY <2>1, <2>2, <2>5, <2>6
  <2>. QED  BY <1>3, <2>7, <2>8 DEF FirstFound
<1>. QED  BY <1>2, <1>3

LEMMA ConsumeFinds ==
    ASSUME IInv, NEW n \in Nat, Consume(n)
    PROVE  FirstFound /\ Passed' >= Passed
<1>1. PICK d \in Nat : Process(Part(Samples(1), Passed, d)) /\ Passed' = Passed + d
  BY ConsumeProcesses
<1>2. Passed \in Nat
  BY DEF IInv, BufferInv, Passed
<1>. QED  BY <1>1, <1>2, ProcessFinds

LEMMA FinishFinds == ASSUME IInv, Finish PROVE FirstFound
<1>1. buffer = Part(Samples(1), Passed, Len(buffer)) /\ Len(buffer) \in Nat
  BY ConfigurationAssumption DEF IInv, BufferInv
<1>2. Process(Part(Samples(1), Passed, Len(buffer)))
  BY <1>1 DEF Finish
<1>. QED  BY <1>1, <1>2, ProcessFinds

LEMMA StepIInv == IInv /\ [Next]_vars => IInv'
<1>. SUFFICES ASSUME IInv, [Next]_vars PROVE IInv'
  OBVIOUS
<1>1. ASSUME NEW n \in 0 .. MaxFeed, Consume(n) PROVE IInv'
  <2>1. n \in Nat
    BY BoundsAssumption
  <2>. QED  BY <1>1, <2>1, ConsumeIInv
<1>2. CASE UNCHANGED vars
  BY <1>2 DEF vars, stages, history, IInv, BufferInv, SilenceInv, StagesInv, Passed, Through
<1>. QED
  BY <1>1, <1>2, StartIInv, FinishIInv, ClearIInv, SetOptionIInv DEF Next

\* fingerprinter.cpp, Start to ClearFingerprint: in every state what a stage
\* keeps is the end of what it was given, and what it has passed on are the
\* windows of that.
THEOREM Invariance == Spec => []IInv
BY InitIInv, StepIInv, PTL DEF Spec

-----------------------------------------------------------------------------
(* What follows from it.                                                   *)

\* With a step of 1 all windows but the first ones count.
LEMMA CountByOne ==
    ASSUME NEW n \in Nat, NEW size \in Nat \ {0}
    PROVE  Count(n, size, 1) = IF n < size THEN 0 ELSE n - (size - 1)
<1>1. CASE n >= size
  <2>. DEFINE q == n - size
  <2>1. q \in Int /\ 0 \in 0 .. 1 - 1 /\ 1 * q + 0 = q /\ 1 \in Nat \ {0}
    OBVIOUS
  <2>2. (1 * q + 0) \div 1 = q
    <3>. HIDE DEF q
    <3>. QED  BY <2>1, DivisionUnique
  <2>3. q \div 1 = q
    BY <2>1, <2>2
  <2>4. Count(n, size, 1) = q \div 1 + 1
    BY <1>1 DEF Count
  <2>. QED  BY <1>1, <2>1, <2>3, <2>4
<1>. QED  BY <1>1 DEF Count

\* The closed form of the number of items.
LEMMA ItemsAreCount == ASSUME NEW n \in Nat PROVE Items(n) = ItemCount(n)
<1>. DEFINE d == item_duration
            c == COEFFICIENTS - 1
            w == WIDTH - 1
            t == c + w
            u == t * d
            q == (n - OVERLAP) \div d
            r == (n - OVERLAP) % d
            v == d * q
<1>1. /\ d \in Nat \ {0} /\ OVERLAP \in Nat /\ FRAME = d + OVERLAP /\ FRAME \in Nat \ {0}
      /\ c \in Nat /\ w \in Nat /\ t \in Nat /\ COEFFICIENTS = c + 1 /\ WIDTH = w + 1
      /\ COEFFICIENTS \in Nat \ {0} /\ WIDTH \in Nat \ {0}
  BY ConfigurationAssumption DEF item_duration
<1>2. u \in Nat /\ delay = u + OVERLAP
  <2>1. u \in Nat
    <3>. HIDE DEF t, d
    <3>. QED  BY <1>1
  <2>. QED  BY <2>1 DEF delay
<1>3. q \in Int /\ r \in 0 .. d - 1 /\ n - OVERLAP = v + r /\ n - OVERLAP \in Int
  <2>1. n - OVERLAP \in Int
    BY <1>1
  <2>. DEFINE x == n - OVERLAP
  <2>2. x \div d \in Int /\ x % d \in 0 .. d - 1 /\ x = d * (x \div d) + (x % d)
    <3>. HIDE DEF x, d
    <3>. QED  BY <1>1, <2>1, Division DEF x
  <2>. QED  BY <2>1, <2>2
<1>4. v \in Int
  <2>. HIDE DEF q, d
  <2>. QED  BY <1>1, <1>3
\* Which of two multiples of d is the greater.
<1>5. (q < t => v + d <= u) /\ (q >= t => v >= u)
  <2>1. q < t => (t - q - 1) * d \in Nat
    <3>1. q < t => t - q - 1 \in Nat
      <4>. HIDE DEF q, t
      <4>. QED  BY <1>1, <1>3
    <3>. HIDE DEF q, t, d
    <3>. QED  BY <1>1, <3>1
  <2>2. (t - q - 1) * d = u - v - d
    <3>. HIDE DEF q, t, d
    <3>. QED  BY <1>1, <1>3
  <2>3. q >= t => (q - t) * d \in Nat
    <3>1. q >= t => q - t \in Nat
      <4>. HIDE DEF q, t
      <4>. QED  BY <1>1, <1>3
    <3>. HIDE DEF q, t, d
    <3>. QED  BY <1>1, <3>1
  <2>4. (q - t) * d = v - u
    <3>. HIDE DEF q, t, d
    <3>. QED  BY <1>1, <1>3
  <2>. HIDE DEF q, t, d, u, v
  <2>. QED  BY <1>1, <1>2, <1>3, <1>4, <2>1, <2>2, <2>3, <2>4
<1>6. Items(n) = IF q <= t THEN 0 ELSE q - t
  <2>1. Cuts(n) = IF n < FRAME THEN 0 ELSE q
    <3>1. CASE n < FRAME
      BY <3>1 DEF Cuts, Count
    <3>2. CASE n >= FRAME
      <4>1. n - FRAME \in Int /\ (n - FRAME) + 1 * d = n - OVERLAP
        <5>. HIDE DEF d
        <5>. QED  BY <1>1
      <4>2. ((n - FRAME) + 1 * d) \div d = (n - FRAME) \div d + 1
        <5>1. 1 \in Int
          OBVIOUS
        <5>. DEFINE x == n - FRAME
        <5>. HIDE DEF d, x
        <5>2. (x + 1 * d) \div d = x \div d + 1
          BY <1>1, <4>1, <5>1, DivisionShift DEF x
        <5>. QED  BY <5>2 DEF x
      <4>3. Cuts(n) = (n - FRAME) \div d + 1
        <5>1. ~(n < FRAME)
          BY <1>1, <3>2
        <5>. QED  BY <5>1, Zenon DEF Cuts, Count
      <4>4. q = (n - FRAME) \div d + 1
        BY <4>1, <4>2, Zenon
      <4>5. ~(n < FRAME)
        BY <1>1, <3>2
      <4>. HIDE DEF q, d
      <4>. QED  BY <4>3, <4>4, <4>5, Zenon
    <3>. QED  BY <1>1, <3>1, <3>2
  <2>2. n < FRAME => q <= 0
    <3>1. q > 0 => v >= d
      <4>. HIDE DEF q, d
      <4>. QED  BY <1>1, <1>3
    <3>. HIDE DEF q, d, v, r
    <3>. QED  BY <1>1, <1>3, <1>4, <3>1
  <2>3. n >= FRAME => q \in Nat
    <3>1. q < 0 => v <= -d
      <4>. HIDE DEF q, d
      <4>. QED  BY <1>1, <1>3
    <3>. HIDE DEF q, d, v, r
    <3>. QED  BY <1>1, <1>3, <1>4, <3>1
  <2>4. Cuts(n) \in Nat /\ Sums(n) \in Nat
    BY CountTypes
  <2>5. Sums(n) = IF Cuts(n) < COEFFICIENTS THEN 0 ELSE Cuts(n) - c
    BY <1>1, <2>4, CountByOne DEF Sums
  <2>6. Items(n) = IF Sums(n) < WIDTH THEN 0 ELSE Sums(n) - w
    BY <1>1, <2>4, CountByOne DEF Items
  <2>. HIDE DEF q, c, w
  <2>. QED  BY <1>1, <1>3, <2>1, <2>2, <2>3, <2>4, <2>5, <2>6
<1>7. CASE n < delay
  <2>1. q <= t
    <3>. HIDE DEF q, t, d, u, v, r
    <3>. QED  BY <1>1, <1>2, <1>3, <1>4, <1>5, <1>7
  <2>. QED  BY <1>6, <1>7, <2>1 DEF ItemCount
<1>8. CASE n >= delay
  <2>1. q >= t
    <3>. HIDE DEF q, t, d, u, v, r
    <3>. QED  BY <1>1, <1>2, <1>3, <1>4, <1>5, <1>8
  <2>2. (n - delay) \div d = q - t
    <3>. DEFINE x == n - OVERLAP
                m == -t
    <3>1. x \in Int /\ m \in Int
      BY <1>1, <1>3
    <3>2. (x + m * d) \div d = x \div d + m
      <4>. HIDE DEF x, m, d
      <4>. QED  BY <1>1, <3>1, DivisionShift
    <3>3. m * d = -u
      <4>. HIDE DEF t, d
      <4>. QED  BY <1>1
    <3>4. x + -u = n - delay
      <4>. HIDE DEF u
      <4>. QED  BY <1>1, <1>2
    <3>5. q + m = q - t
      <4>. HIDE DEF q, t
      <4>. QED  BY <1>1, <1>3
    <3>6. (x + m * d) \div d = (n - delay) \div d
      <4>. HIDE DEF x, m, u
      <4>. QED  BY <3>3, <3>4
    <3>. QED  BY <3>2, <3>5, <3>6
  <2>3. ItemCount(n) = q - t
    BY <1>8, <2>2, <1>1, <1>2 DEF ItemCount
  <2>. HIDE DEF q, t
  <2>. QED  BY <1>1, <1>3, <1>6, <2>1, <2>3
<1>. QED  BY <1>1, <1>2, <1>7, <1>8

LEMMA PartIsItems ==
    ASSUME NEW s \in Nat, NEW n \in Nat
    PROVE  Part(Block(s, ItemLength), 0, n) = [k \in 1 .. n |-> ItemSamples(s, k)]
<1>. DEFINE d == item_duration
<1>0. d \in Nat /\ delay \in Nat /\ ItemLength = delay + d
  BY ItemType, Lengths
<1>1. ASSUME NEW k \in 1 .. n
      PROVE  Block(s, ItemLength)[0 + k - 1] = ItemSamples(s, k)
  <2>. DEFINE u == (k - 1) * d
  <2>1. 0 + k - 1 = k - 1 /\ k - 1 \in Nat
    OBVIOUS
  <2>2. u \in Nat /\ k * d = u + d
    <3>. HIDE DEF d
    <3>. QED  BY <1>0
  <2>3. Block(s, ItemLength)[k - 1] = s + u .. s + u + (ItemLength - 1)
    BY <2>1 DEF Block
  <2>4. ItemSamples(s, k) = s + u .. s + (u + d) + (delay - 1)
    BY <2>2 DEF ItemSamples
  <2>5. s + u + (ItemLength - 1) = s + (u + d) + (delay - 1)
    <3>. HIDE DEF u, d
    <3>. QED  BY <1>0, <2>2
  <2>. QED  BY <2>1, <2>3, <2>4, <2>5
<1>. QED  BY <1>1 DEF Part

LEMMA IInvIsStream == IInv => FingerprintOfStream
<1>. SUFFICES ASSUME IInv PROVE FingerprintOfStream
  OBVIOUS
<1>1. from \in Nat /\ Through \in Nat
  <2>1. fed - Len(buffer) \in Int /\ from \in Nat /\ (from # 0 => from <= fed - Len(buffer))
    BY DEF IInv, BufferInv, SilenceInv, Passed
  <2>. QED  BY <2>1 DEF Through, Passed
<1>2. cleared \o fingerprint = Part(Block(from, ItemLength), 0, Items(Through))
  BY DEF IInv, StagesInv
<1>3. Items(Through) \in Nat /\ Items(Through) = ItemCount(Through)
  BY <1>1, CountTypes, ItemsAreCount
<1>4. cleared \o fingerprint = [k \in 1 .. ItemCount(Through) |-> ItemSamples(from, k)]
  BY <1>1, <1>2, <1>3, PartIsItems
<1>. QED  BY <1>4 DEF FingerprintOfStream, Through, Passed

\* However the stream is cut into calls of Consume, and whenever the
\* fingerprint is finished or cleared in between, the items are the windows of
\* the samples let through since Start (fingerprinter.cpp, Consume to Clear).
THEOREM ItemsAreOfStream == Spec => []FingerprintOfStream
BY Invariance, IInvIsStream, PTL

\* The silence remover takes nothing but leading silence, and all of it from
\* the first stream (silence_remover.cpp:31).
THEOREM SilenceOnly == Spec => []OnlySilenceRemoved
<1>1. IInv => OnlySilenceRemoved
  <2>. SUFFICES ASSUME IInv PROVE OnlySilenceRemoved
    OBVIOUS
  <2>1. REMOVE_SILENCE /\ base = 0 /\ from # 0 => from = quiet + 1
    BY Zenon DEF IInv, SilenceInv
  <2>2. from # 0 => base < from /\ from <= base + quiet + 1
    BY Zenon DEF IInv, SilenceInv
  <2>3. base \in Nat /\ from \in Nat
    BY DEF IInv, BufferInv, SilenceInv
  <2>4. base < from => from > base
    BY <2>3
  <2>. QED  BY <2>1, <2>2, <2>4, Zenon DEF OnlySilenceRemoved
<1>. QED  BY <1>1, Invariance, PTL

\* After a Finish all items that the samples fed so far can give are there
\* (chromaprint.h:238).
THEOREM FinishLeavesNothing == Spec => FinishProcessesAll
<1>1. IInv /\ Finish /\ from' # 0 =>
        Len(cleared' \o fingerprint') = ItemCount(fed' - from' + 1)
  <2>. SUFFICES ASSUME IInv, Finish, from' # 0
                PROVE  Len(cleared' \o fingerprint') = ItemCount(fed' - from' + 1)
    OBVIOUS
  <2>1. IInv' /\ Passed' = fed'
    BY FinishIInv
  <2>2. Through' = fed' - from' + 1
    BY <2>1 DEF Through
  <2>3. Through' \in Nat
    <3>1. /\ fed' \in Nat /\ from' \in Nat /\ from' <= Passed'
      BY <2>1, Zenon DEF IInv, BufferInv, SilenceInv
    <3>2. from' <= fed'
      BY <2>1, <3>1
    <3>. QED  BY <2>2, <3>1, <3>2, Counted
  <2>4. cleared' \o fingerprint' = Part(Block(from', ItemLength), 0, Items(Through'))
    BY <2>1 DEF IInv, StagesInv
  <2>5. 0 \in Nat /\ Items(Through') \in Nat /\ Items(Through') = ItemCount(Through')
    BY <2>3, CountTypes, ItemsAreCount
  <2>6. Len(Part(Block(from', ItemLength), 0, Items(Through'))) = Items(Through')
    BY <2>5, PartIsSeq
  <2>. QED  BY <2>2, <2>4, <2>5, <2>6
<1>2. IInv /\ [Next]_vars =>
        [Finish /\ from' # 0 =>
            Len(cleared' \o fingerprint') = ItemCount(fed' - from' + 1)]_vars
  BY <1>1
<1>. QED  BY <1>2, Invariance, PTL DEF Spec, FinishProcessesAll

\* No stage keeps as much as one of its windows, and the processor never a
\* full buffer.
THEOREM TypeCorrect == Spec => []TypeOK
<1>1. IInv => TypeOK
  <2>. SUFFICES ASSUME IInv PROVE TypeOK
    OBVIOUS
  <2>1. ASSUME NEW g, NEW n \in Nat, NEW size \in Nat \ {0}, NEW step \in 1 .. size
        PROVE  Len(Kept(g, n, size, step)) < size
    <3>. DEFINE u == Count(n, size, step) * step
    <3>1. u \in Nat /\ u <= n /\ n < u + size
      BY CountIs
    <3>2. n - u \in Nat /\ n - u < size
      <4>. HIDE DEF u
      <4>. QED  BY <3>1
    <3>3. Len(Part(g, u, n - u)) = n - u
      <4>. DEFINE m == n - u
      <4>. HIDE DEF u, m
      <4>1. Len(Part(g, u, m)) = m
        BY <3>1, <3>2, PartIsSeq DEF m
      <4>. QED  BY <4>1 DEF m
    <3>. QED  BY <3>2, <3>3 DEF Kept
  <2>2. /\ FRAME \in Nat \ {0} /\ item_duration \in 1 .. FRAME
        /\ COEFFICIENTS \in Nat \ {0} /\ WIDTH \in Nat \ {0}
        /\ 1 \in 1 .. COEFFICIENTS /\ 1 \in 1 .. WIDTH
    BY ConfigurationAssumption, ItemType
  <2>3. Through \in Nat
    <3>1. fed - Len(buffer) \in Int /\ from \in Nat /\ (from # 0 => from <= fed - Len(buffer))
      BY DEF IInv, BufferInv, SilenceInv, Passed
    <3>. QED  BY <3>1 DEF Through, Passed
  <2>4. PICK n \in Nat, s \in Nat : n = Through /\ s = from
    BY <2>3 DEF IInv, SilenceInv
  <2>5. Cuts(n) \in Nat /\ Sums(n) \in Nat
    BY CountTypes
  <2>6. /\ Len(KeptWindow(s, n)) < FRAME
        /\ Len(KeptFrames(s, n)) < COEFFICIENTS
        /\ Len(KeptRows(s, n)) < WIDTH
    BY <2>1, <2>2, <2>5 DEF KeptWindow, KeptFrames, KeptRows
  <2>7. Len(buffer) < BUFFER
    BY ConfigurationAssumption DEF IInv, BufferInv
  <2>8. silent => REMOVE_SILENCE /\ from = 0
    BY Zenon DEF IInv, SilenceInv
  <2>9. window = KeptWindow(s, n) /\ frames = KeptFrames(s, n) /\ rows = KeptRows(s, n)
    BY <2>4 DEF IInv, StagesInv
  <2>. QED  BY <2>6, <2>7, <2>8, <2>9, Zenon DEF TypeOK
<1>. QED  BY <1>1, Invariance, PTL
=============================================================================
