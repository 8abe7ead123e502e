------------------------ MODULE SilenceRemover_proofs ------------------------
(***************************************************************************)
(* Proofs about SilenceRemover: what it removes is a prefix of the stream, *)
(* for every window, threshold, set of samples and cutting into chunks;    *)
(* and in the first stream exactly what the mean of the last magnitudes    *)
(* says, as the ring and its running sum give that mean.                   *)
(***************************************************************************)
EXTENDS SilenceRemover, WellFoundedInduction, TLAPS

\* The sequences are sequences of samples.
Typed ==
    /\ input \in Seq(Samples) /\ seen \in Seq(Samples) /\ given \in Seq(Samples)
    /\ streamAt \in 0 .. Len(seen)

\* What the consumer got is the end of what was dealt with, and begins after
\* the last reset.
GivenIsEnd ==
    /\ Len(given) <= Len(seen) - streamAt
    /\ \A i \in 1 .. Len(given) : given[i] = seen[Len(seen) - Len(given) + i]

NothingGivenYet == start => given = <<>>

IInv == Typed /\ GivenIsEnd /\ NothingGivenYet

LEMMA InitIInv == Init => IInv
<1>. SUFFICES ASSUME Init PROVE IInv
  OBVIOUS
<1>1. input = <<>> /\ seen = <<>> /\ given = <<>> /\ streamAt = 0
  BY DEF Init
<1>2. Typed
  <2>1. <<>> \in Seq(Samples) /\ Len(<<>>) = 0
    OBVIOUS
  <2>. QED  BY <1>1, <2>1 DEF Typed
<1>. QED  BY <1>1, <1>2 DEF IInv, GivenIsEnd, NothingGivenYet

\* A new stream begins where the last one ended, with nothing given.
LEMMA ResetIInv ==
    ASSUME IInv, NEW n, Reset(n)
    PROVE  IInv'
<1>1. CASE UNCHANGED vars
  BY <1>1 DEF vars, IInv, Typed, GivenIsEnd, NothingGivenYet
<1>2. CASE /\ streamAt' = Len(seen) /\ given' = <<>>
           /\ UNCHANGED <<threshold, average, input, seen>>
  <2>1. <<>> \in Seq(Samples) /\ Len(<<>>) = 0
    OBVIOUS
  <2>2. Typed'
    BY <1>2, <2>1 DEF IInv, Typed
  <2>3. GivenIsEnd' /\ NothingGivenYet'
    BY <1>2, <2>1 DEF IInv, Typed, GivenIsEnd, NothingGivenYet
  <2>. QED  BY <2>2, <2>3 DEF IInv
<1>. QED  BY <1>1, <1>2 DEF Reset

LEMMA ConsumeIInv ==
    ASSUME IInv, NEW chunk \in Chunks, Consume(chunk)
    PROVE  IInv'
<1>1. chunk \in Seq(Samples)
  BY DEF Chunks
<1>. QED  BY <1>1 DEF Consume, IInv, Typed, GivenIsEnd, NothingGivenYet

\* A sample that is held back was not given, and none was before it.
LEMMA ListenIInv ==
    ASSUME IInv, Listen
    PROVE  IInv'
<1>1. given = <<>> /\ given' = given /\ streamAt' = streamAt
  BY DEF Listen, IInv, NothingGivenYet
<1>2. CASE input' = input /\ seen' = seen
  BY <1>1, <1>2 DEF IInv, Typed, GivenIsEnd, NothingGivenYet
<1>3. CASE input' = Tail(input) /\ seen' = Append(seen, Head(input))
  <2>1. input # <<>>
    BY DEF Listen, Idle
  <2>2. /\ input' \in Seq(Samples) /\ seen' \in Seq(Samples)
        /\ Len(seen') = Len(seen) + 1
    BY <1>3, <2>1 DEF IInv, Typed
  <2>3. Typed'
    BY <1>1, <2>2 DEF IInv, Typed
  <2>4. GivenIsEnd' /\ NothingGivenYet'
    BY <1>1, <2>2 DEF IInv, Typed, GivenIsEnd, NothingGivenYet
  <2>. QED  BY <2>3, <2>4 DEF IInv
<1>. QED  BY <1>2, <1>3 DEF Listen

\* The rest of the chunk is dealt with and given at once.
LEMMA PassOnIInv ==
    ASSUME IInv, PassOn
    PROVE  IInv'
<1>1. /\ given' = given \o input /\ seen' = seen \o input /\ input' = <<>>
      /\ start = FALSE /\ start' = start /\ streamAt' = streamAt
  BY DEF PassOn
<1>2. /\ input \in Seq(Samples) /\ seen \in Seq(Samples) /\ given \in Seq(Samples)
      /\ streamAt \in 0 .. Len(seen)
  BY DEF IInv, Typed
<1>3. /\ given' \in Seq(Samples) /\ seen' \in Seq(Samples) /\ input' \in Seq(Samples)
      /\ Len(given') = Len(given) + Len(input) /\ Len(seen') = Len(seen) + Len(input)
  BY <1>1, <1>2
<1>4. Typed'
  BY <1>1, <1>2, <1>3 DEF Typed
<1>5. ASSUME NEW i \in 1 .. Len(given')
      PROVE  given'[i] = seen'[Len(seen') - Len(given') + i]
  <2>1. Len(given) <= Len(seen) - streamAt
        /\ \A j \in 1 .. Len(given) : given[j] = seen[Len(seen) - Len(given) + j]
    BY DEF IInv, GivenIsEnd
  <2>2. CASE i <= Len(given)
    BY <1>1, <1>2, <1>3, <2>1, <2>2
  <2>3. CASE i > Len(given)
    BY <1>1, <1>2, <1>3, <2>1, <2>3
  <2>. QED  BY <1>2, <1>3, <2>2, <2>3
<1>6. GivenIsEnd'
  BY <1>1, <1>2, <1>3, <1>5 DEF IInv, GivenIsEnd
<1>. QED  BY <1>1, <1>4, <1>6 DEF IInv, NothingGivenYet

LEMMA StepIInv == IInv /\ [Next]_vars => IInv'
<1>. SUFFICES ASSUME IInv, [Next]_vars PROVE IInv'
  OBVIOUS
<1>1. ASSUME NEW value \in Thresholds, set_threshold(value) PROVE IInv'
  BY <1>1 DEF set_threshold, IInv, Typed, GivenIsEnd, NothingGivenYet
<1>2. CASE UNCHANGED vars
  BY <1>2 DEF vars, IInv, Typed, GivenIsEnd, NothingGivenYet
<1>. QED
  BY <1>1, <1>2, ResetIInv, ConsumeIInv, ListenIInv, PassOnIInv DEF Next

\* The samples of the stream are those that were held back, then those given.
LEMMA EndIsGiven == IInv => OnlyLeadingRemoved
<1>. SUFFICES ASSUME IInv PROVE OnlyLeadingRemoved
  OBVIOUS
<1>1. /\ seen \in Seq(Samples) /\ given \in Seq(Samples) /\ streamAt \in 0 .. Len(seen)
      /\ Len(given) <= Len(seen) - streamAt
      /\ \A i \in 1 .. Len(given) : given[i] = seen[Len(seen) - Len(given) + i]
  BY DEF IInv, Typed, GivenIsEnd
<1>. DEFINE stream == SubSeq(seen, streamAt + 1, Len(seen))
<1>2. /\ stream \in Seq(Samples) /\ Len(stream) = Len(seen) - streamAt
      /\ \A i \in 1 .. Len(stream) : stream[i] = seen[streamAt + i]
  BY <1>1
<1>3. /\ Quiet \in Seq(Samples) /\ Len(Quiet) = Len(seen) - Len(given) - streamAt
      /\ \A i \in 1 .. Len(Quiet) : Quiet[i] = seen[streamAt + i]
  BY SMTT(30), <1>1 DEF Quiet
<1>4. Quiet \o given \in Seq(Samples) /\ Len(Quiet \o given) = Len(stream)
  BY <1>1, <1>2, <1>3
<1>. HIDE DEF stream
<1>5. ASSUME NEW i \in 1 .. Len(stream)
      PROVE  (Quiet \o given)[i] = stream[i]
  <2>1. /\ i \in Nat \ {0} /\ i <= Len(Quiet) + Len(given)
        /\ Len(Quiet) \in Nat /\ Len(given) \in Nat /\ Len(seen) \in Nat
    BY <1>1, <1>2, <1>3
  <2>2. CASE i <= Len(Quiet)
    BY <1>1, <1>2, <1>3, <2>1, <2>2
  <2>3. CASE i > Len(Quiet)
    <3>. DEFINE j == i - Len(Quiet)
    <3>1. j \in 1 .. Len(given)
      BY <2>1, <2>3
    <3>2. (Quiet \o given)[i] = given[j]
      BY <1>1, <1>3, <2>1, <2>3
    <3>3. Len(seen) - Len(given) + j = streamAt + i
      BY <1>1, <1>3, <2>1
    <3>. HIDE DEF j
    <3>4. given[j] = seen[streamAt + i]
      BY <1>1, <3>1, <3>3
    <3>. QED  BY <1>2, <3>2, <3>4
  <2>. QED  BY <2>1, <2>2, <2>3
<1>6. stream = Quiet \o given
  BY <1>2, <1>4, <1>5
<1>. QED  BY <1>6 DEF OnlyLeadingRemoved, IInv, NothingGivenYet, stream

\* From the first sample that a stream lets through on nothing is removed,
\* wherever the chunks end and whatever the average makes of the samples
\* (silence_remover.cpp, Consume and Reset).
THEOREM RemovedIsPrefix == Spec => []OnlyLeadingRemoved
BY InitIInv, StepIInv, EndIsGiven, PTL DEF Spec

-----------------------------------------------------------------------------
(* Sums of magnitudes.                                                     *)

\* Induction on the natural numbers.
LEMMA NatInduct ==
    ASSUME NEW T \in SUBSET Nat, 0 \in T, \A n \in T : n + 1 \in T
    PROVE  Nat \subseteq T
<1>. SUFFICES ASSUME NEW m \in Nat, m \notin T PROVE FALSE
  OBVIOUS
<1>1. PICK x \in Nat \ T : \A y \in Nat \ T : ~ (<<y, x>> \in OpToRel(<, Nat))
  BY WFMin, NatLessThanWellFounded
<1>2. x - 1 \in Nat /\ x - 1 < x /\ (x - 1) + 1 = x
  OBVIOUS
<1>3. x - 1 \in T
  <2>1. <<x - 1, x>> \in OpToRel(<, Nat)
    BY <1>2 DEF OpToRel
  <2>. QED  BY <1>1, <1>2, <2>1
<1>. QED  BY <1>2, <1>3

\* f is the function that AbsSum computes for the first n elements.
Summed(f, s, n) ==
    f = [i \in 0 .. n |-> IF i = 0 THEN 0 ELSE f[i - 1] + Abs(s[i])]

SumAt(f, s, i) == f[i] = IF i = 0 THEN 0 ELSE f[i - 1] + Abs(s[i])

LEMMA SummedAt ==
    ASSUME NEW f, NEW s, NEW n, Summed(f, s, n), NEW i \in 0 .. n
    PROVE  SumAt(f, s, i)
<1>. DEFINE e(j) == IF j = 0 THEN 0 ELSE f[j - 1] + Abs(s[j])
<1>1. f = [j \in 0 .. n |-> e(j)]
  BY DEF Summed
<1>2. f[i] = e(i)
  <2>. HIDE DEF e
  <2>. QED  BY <1>1
<1>. QED  BY <1>2 DEF SumAt

LEMMA SummedExists ==
    ASSUME NEW s, NEW n \in Nat
    PROVE  \E f : Summed(f, s, n)
<1>. DEFINE T == {m \in Nat : \E f : Summed(f, s, m)}
<1>1. 0 \in T
  <2>. DEFINE f == [i \in 0 .. 0 |-> 0]
  <2>1. f = [i \in 0 .. 0 |-> IF i = 0 THEN 0 ELSE f[i - 1] + Abs(s[i])]
    OBVIOUS
  <2>2. Summed(f, s, 0)
    BY <2>1 DEF Summed
  <2>. QED  BY <2>2
<1>2. ASSUME NEW m \in T PROVE m + 1 \in T
  <2>1. PICK f : Summed(f, s, m)
    OBVIOUS
  <2>. DEFINE d(i) == IF i = 0 THEN 0 ELSE f[i - 1] + Abs(s[i])
              g == [i \in 0 .. m + 1 |-> d(i)]
              e(i) == IF i = 0 THEN 0 ELSE g[i - 1] + Abs(s[i])
  <2>2. ASSUME NEW i \in 0 .. m PROVE g[i] = f[i]
    <3>1. SumAt(f, s, i)
      BY <2>1, SummedAt
    <3>. QED  BY <3>1 DEF SumAt
  <2>3. ASSUME NEW i \in 0 .. m + 1 PROVE d(i) = e(i)
    <3>1. i # 0 => i - 1 \in 0 .. m
      OBVIOUS
    <3>. HIDE DEF g
    <3>. QED  BY <2>2, <3>1
  <2>4. g = [i \in 0 .. m + 1 |-> e(i)]
    <3>1. g = [i \in 0 .. m + 1 |-> d(i)]
      OBVIOUS
    <3>. HIDE DEF d, e, g
    <3>. QED  BY <2>3, <3>1
  <2>5. Summed(g, s, m + 1)
    <3>. HIDE DEF g
    <3>. QED  BY <2>4 DEF Summed
  <2>. QED  BY <2>5
<1>3. n \in T
  <2>1. T \in SUBSET Nat
    OBVIOUS
  <2>. HIDE DEF T
  <2>. QED  BY <1>1, <1>2, <2>1, NatInduct
<1>. QED  BY <1>3

LEMMA AbsSumIs ==
    ASSUME NEW s, Len(s) \in Nat
    PROVE  \E f : Summed(f, s, Len(s)) /\ AbsSum(s) = f[Len(s)]
<1>. DEFINE f == CHOOSE g : Summed(g, s, Len(s))
<1>1. Summed(f, s, Len(s))
  BY SummedExists
<1>2. AbsSum(s) = f[Len(s)]
  BY DEF AbsSum, Summed
<1>. HIDE DEF f
<1>. QED  BY <1>1, <1>2

\* Sequences of integers with magnitudes up to b.
Bounded(s, b) == s \in Seq(-b .. b)

LEMMA AbsType == \A b \in Nat : \A x \in -b .. b : Abs(x) \in 0 .. b
BY DEF Abs

\* The sum is at most b for each element.
LEMMA AbsSumBound ==
    ASSUME NEW b \in Nat, NEW s, Bounded(s, b)
    PROVE  AbsSum(s) \in Nat /\ AbsSum(s) <= Len(s) * b
<1>1. Len(s) \in Nat /\ \A i \in 1 .. Len(s) : Abs(s[i]) \in 0 .. b
  <2>. DEFINE S == -b .. b
  <2>1. s \in Seq(S)
    BY DEF Bounded
  <2>2. \A x \in S : Abs(x) \in 0 .. b
    BY AbsType
  <2>. HIDE DEF S
  <2>3. Len(s) \in Nat /\ \A i \in 1 .. Len(s) : s[i] \in S
    BY <2>1
  <2>. QED  BY <2>2, <2>3
<1>2. PICK f : Summed(f, s, Len(s)) /\ AbsSum(s) = f[Len(s)]
  BY <1>1, AbsSumIs
<1>. DEFINE n == Len(s)
            T == {k \in Nat : k <= n => f[k] \in Nat /\ f[k] <= k * b}
<1>3. 0 \in T
  <2>1. SumAt(f, s, 0)
    BY <1>1, <1>2, SummedAt
  <2>. QED  BY <2>1 DEF SumAt
<1>4. ASSUME NEW k \in T PROVE k + 1 \in T
  <2>. SUFFICES ASSUME k + 1 <= n PROVE f[k + 1] \in Nat /\ f[k + 1] <= (k + 1) * b
    OBVIOUS
  <2>1. k + 1 \in 0 .. n /\ k + 1 \in 1 .. n /\ (k + 1) - 1 = k
    BY <1>1
  <2>2. f[k + 1] = f[k] + Abs(s[k + 1])
    <3>1. SumAt(f, s, k + 1)
      BY <1>2, <2>1, SummedAt
    <3>. QED  BY <2>1, <3>1 DEF SumAt
  <2>3. Abs(s[k + 1]) \in 0 .. b /\ f[k] \in Nat /\ f[k] <= k * b
    BY <1>1, <2>1
  <2>. DEFINE p == k * b
  <2>4. p \in Nat /\ (k + 1) * b = p + b
    OBVIOUS
  <2>. HIDE DEF p
  <2>5. f[k] <= p
    BY <2>3 DEF p
  <2>. QED  BY <2>2, <2>3, <2>4, <2>5
<1>5. n \in T
  <2>1. T \in SUBSET Nat
    OBVIOUS
  <2>. HIDE DEF T
  <2>. QED  BY <1>1, <1>3, <1>4, <2>1, NatInduct
<1>. QED  BY <1>2, <1>5

\* One element more at the end.
LEMMA AbsSumAppend ==
    ASSUME NEW b \in Nat, NEW s, Bounded(s, b), NEW x \in -b .. b
    PROVE  AbsSum(Append(s, x)) = AbsSum(s) + Abs(x)
<1>. DEFINE t == Append(s, x)
            n == Len(s)
<1>1. n \in Nat /\ Len(t) = n + 1 /\ t[n + 1] = x /\ \A i \in 1 .. n : t[i] = s[i]
  BY DEF Bounded
<1>. HIDE DEF t
<1>2. PICK f : Summed(f, s, n) /\ AbsSum(s) = f[n]
  BY <1>1, AbsSumIs
<1>3. PICK g : Summed(g, t, n + 1) /\ AbsSum(t) = g[n + 1]
  <2>1. Len(t) \in Nat
    BY <1>1
  <2>. QED  BY <1>1, <2>1, AbsSumIs
<1>. DEFINE T == {k \in Nat : k <= n => f[k] = g[k]}
<1>4. 0 \in T
  <2>1. SumAt(f, s, 0) /\ SumAt(g, t, 0)
    BY <1>1, <1>2, <1>3, SummedAt
  <2>. QED  BY <2>1 DEF SumAt
<1>5. ASSUME NEW k \in T PROVE k + 1 \in T
  <2>. SUFFICES ASSUME k + 1 <= n PROVE f[k + 1] = g[k + 1]
    OBVIOUS
  <2>1. /\ k + 1 \in 0 .. n /\ k + 1 \in 0 .. n + 1 /\ k + 1 \in 1 .. n
        /\ (k + 1) - 1 = k /\ k + 1 # 0 /\ f[k] = g[k]
    BY <1>1
  <2>2. SumAt(f, s, k + 1) /\ SumAt(g, t, k + 1)
    BY <1>2, <1>3, <2>1, SummedAt
  <2>. QED  BY <1>1, <2>1, <2>2 DEF SumAt
<1>6. f[n] = g[n]
  <2>1. T \in SUBSET Nat
    OBVIOUS
  <2>2. n \in T
    <3>. HIDE DEF T
    <3>. QED  BY <1>1, <1>4, <1>5, <2>1, NatInduct
  <2>. QED  BY <1>1, <2>2
<1>7. g[n + 1] = g[n] + Abs(x)
  <2>1. n + 1 \in 0 .. n + 1 /\ n + 1 # 0 /\ (n + 1) - 1 = n
    BY <1>1
  <2>2. SumAt(g, t, n + 1)
    BY <1>3, <2>1, SummedAt
  <2>. QED  BY <1>1, <2>1, <2>2 DEF SumAt
<1>. QED  BY <1>2, <1>3, <1>6, <1>7 DEF t

\* One element less at the begin.
LEMMA AbsSumTail ==
    ASSUME NEW b \in Nat, NEW s, Bounded(s, b), s # <<>>
    PROVE  AbsSum(s) = Abs(Head(s)) + AbsSum(Tail(s))
<1>. DEFINE t == Tail(s)
            n == Len(s) - 1
<1>1. /\ n \in Nat /\ Len(s) = n + 1 /\ Len(t) = n /\ s[1] = Head(s)
      /\ \A i \in 1 .. n : t[i] = s[i + 1]
      /\ Bounded(t, b)
  BY DEF Bounded
<1>2. /\ Abs(s[1]) \in Int
      /\ \A i \in 1 .. n : Abs(t[i]) \in Int
  BY SMTT(30), <1>1, AbsType DEF Bounded
<1>. HIDE DEF t, n
<1>3. PICK f : Summed(f, s, n + 1) /\ AbsSum(s) = f[n + 1]
  <2>1. Len(s) \in Nat
    BY <1>1
  <2>. QED  BY <1>1, <2>1, AbsSumIs
<1>4. PICK g : Summed(g, t, n) /\ AbsSum(t) = g[n]
  BY <1>1, AbsSumIs
<1>. DEFINE T == {k \in Nat : k <= n => /\ g[k] \in Int /\ f[k + 1] = Abs(s[1]) + g[k]}
<1>5. 0 \in T
  <2>1. SumAt(f, s, 0) /\ SumAt(f, s, 1) /\ SumAt(g, t, 0)
    <3>1. 0 \in 0 .. n + 1 /\ 1 \in 0 .. n + 1 /\ 0 \in 0 .. n
      BY <1>1
    <3>. QED  BY <1>3, <1>4, <3>1, SummedAt
  <2>2. f[0] = 0 /\ g[0] = 0 /\ f[1] = f[0] + Abs(s[1])
    BY <2>1 DEF SumAt
  <2>. QED  BY <1>2, <2>2
<1>6. ASSUME NEW k \in T PROVE k + 1 \in T
  <2>. SUFFICES ASSUME k + 1 <= n
                PROVE  g[k + 1] \in Int /\ f[(k + 1) + 1] = Abs(s[1]) + g[k + 1]
    OBVIOUS
  <2>1. /\ k + 1 \in 0 .. n /\ (k + 1) + 1 \in 0 .. n + 1 /\ k + 1 \in 1 .. n
        /\ (k + 1) - 1 = k /\ ((k + 1) + 1) - 1 = k + 1 /\ k + 1 # 0 /\ (k + 1) + 1 # 0
        /\ g[k] \in Int /\ f[k + 1] = Abs(s[1]) + g[k]
    BY <1>1
  <2>2. SumAt(f, s, (k + 1) + 1) /\ SumAt(g, t, k + 1)
    BY <1>3, <1>4, <2>1, SummedAt
  <2>3. f[(k + 1) + 1] = f[k + 1] + Abs(s[(k + 1) + 1]) /\ g[k + 1] = g[k] + Abs(t[k + 1])
    BY <2>1, <2>2 DEF SumAt
  <2>4. t[k + 1] = s[(k + 1) + 1] /\ Abs(t[k + 1]) \in Int
    BY <1>1, <1>2, <2>1
  <2>. QED  BY <1>2, <2>1, <2>3, <2>4
<1>7. f[n + 1] = Abs(s[1]) + g[n]
  <2>1. T \in SUBSET Nat
    OBVIOUS
  <2>2. n \in T
    <3>. HIDE DEF T
    <3>. QED  BY <1>1, <1>5, <1>6, <2>1, NatInduct
  <2>. QED  BY <1>1, <2>2
<1>. QED  BY <1>1, <1>3, <1>4, <1>7 DEF t

-----------------------------------------------------------------------------
(* The ring of the moving average and its running sum.                     *)

\* The slot of the value that is j values old.
Slot(offset, j) == IF j <= offset THEN offset - j ELSE offset - j + WINDOW

Shaped(m) ==
    m \in [ring : [0 .. WINDOW - 1 -> Int], offset : 0 .. WINDOW - 1,
           sum : Int, count : 0 .. WINDOW]

\* Until the ring is full, its slots are taken in order.
Filling(m, s) ==
    IF Len(s) < WINDOW
      THEN /\ m.offset = Len(s) /\ m.count = Len(s)
           /\ \A i \in Len(s) .. WINDOW - 1 : m.ring[i] = 0
      ELSE m.count = WINDOW

Holds(m, s) ==
    \A j \in 1 .. m.count : m.ring[Slot(m.offset, j)] = Abs(s[Len(s) - j + 1])

\* m is what the magnitudes of s make of a new average.
Fed(m, s) == Shaped(m) /\ Filling(m, s) /\ Holds(m, s) /\ m.sum = AbsSum(Last(s))

LEMMA NextSlotIs ==
    ASSUME NEW o \in 0 .. WINDOW - 1
    PROVE  NextSlot(o) = IF o + 1 = WINDOW THEN 0 ELSE o + 1
BY WindowAssumption DEF NextSlot

\* A value is one older after the next one, which takes the slot of another.
LEMMA SlotLater ==
    ASSUME NEW o \in 0 .. WINDOW - 1, NEW i \in Nat \ {0}, i < WINDOW
    PROVE  /\ Slot(NextSlot(o), i + 1) = Slot(o, i)
           /\ Slot(o, i) \in 0 .. WINDOW - 1 /\ Slot(o, i) # o
<1>1. WINDOW \in Nat \ {0} /\ NextSlot(o) = IF o + 1 = WINDOW THEN 0 ELSE o + 1
  BY WindowAssumption, NextSlotIs
<1>2. Slot(o, i) \in 0 .. WINDOW - 1 /\ Slot(o, i) # o
  BY <1>1 DEF Slot
<1>3. CASE o + 1 = WINDOW
  BY <1>1, <1>3 DEF Slot
<1>4. CASE o + 1 # WINDOW
  BY <1>1, <1>4 DEF Slot
<1>. QED  BY <1>2, <1>3, <1>4

LEMMA AbsSumEmpty == AbsSum(<<>>) = 0
<1>1. Len(<<>>) = 0
  OBVIOUS
<1>2. PICK f : Summed(f, <<>>, 0) /\ AbsSum(<<>>) = f[0]
  BY <1>1, AbsSumIs
<1>3. SumAt(f, <<>>, 0)
  BY <1>2, SummedAt
<1>. QED  BY <1>2, <1>3 DEF SumAt

\* The last samples, one sample later.
LEMMA LastIs ==
    ASSUME NEW S, NEW s \in Seq(S), NEW x \in S
    PROVE  /\ Last(s) \in Seq(S)
           /\ Len(s) < WINDOW => Last(s) = s /\ Last(Append(s, x)) = Append(s, x)
           /\ Len(s) >= WINDOW =>
                /\ Last(s) # <<>> /\ Head(Last(s)) = s[Len(s) - WINDOW + 1]
                /\ Last(Append(s, x)) = Append(Tail(Last(s)), x)
<1>. DEFINE n == Len(s)
            t == Append(s, x)
<1>1. /\ n \in Nat /\ WINDOW \in Nat \ {0} /\ t \in Seq(S) /\ Len(t) = n + 1
      /\ t[n + 1] = x /\ \A i \in 1 .. n : t[i] = s[i]
  BY WindowAssumption
<1>. HIDE DEF t
<1>2. CASE n < WINDOW
  <2>1. Last(s) = SubSeq(s, 1, n) /\ Last(t) = SubSeq(t, 1, n + 1)
    <3>1. ~ (Len(s) > WINDOW) /\ ~ (Len(t) > WINDOW)
      BY <1>1, <1>2
    <3>. QED  BY <1>1, <3>1, Zenon DEF Last
  <2>2. SubSeq(s, 1, n) = s /\ SubSeq(t, 1, n + 1) = t
    BY <1>1
  <2>. QED  BY <1>1, <1>2, <2>1, <2>2 DEF t
<1>3. CASE n >= WINDOW
  <2>. DEFINE d == n - WINDOW
  <2>1. d \in Nat /\ n = d + WINDOW
    BY <1>1, <1>3
  <2>. HIDE DEF d, n
  <2>2. Last(s) = SubSeq(s, d + 1, n)
    BY SMTT(30), <1>1, <2>1 DEF Last, n
  <2>3. /\ Last(s) \in Seq(S) /\ Len(Last(s)) = WINDOW
        /\ \A i \in 1 .. WINDOW : Last(s)[i] = s[d + i]
    BY <1>1, <2>1, <2>2 DEF n
  <2>4. Last(t) = SubSeq(t, d + 2, n + 1)
    BY <1>1, <2>1 DEF Last
  <2>5. /\ Last(t) \in Seq(S) /\ Len(Last(t)) = WINDOW
        /\ \A i \in 1 .. WINDOW : Last(t)[i] = t[(d + 1) + i]
    BY <1>1, <2>1, <2>4
  <2>. DEFINE l == Last(s)
              r == Append(Tail(l), x)
  <2>6. l # <<>> /\ Head(l) = s[d + 1]
    BY <1>1, <2>3
  <2>. HIDE DEF l
  <2>7. /\ Tail(l) \in Seq(S) /\ Len(Tail(l)) = WINDOW - 1
        /\ \A i \in 1 .. WINDOW - 1 : Tail(l)[i] = s[d + (i + 1)]
    BY <1>1, <2>3, <2>6 DEF l
  <2>8. /\ r \in Seq(S) /\ Len(r) = WINDOW /\ r[WINDOW] = x
        /\ \A i \in 1 .. WINDOW - 1 : r[i] = s[d + (i + 1)]
    <3>. DEFINE q == Tail(l)
                k == WINDOW - 1
    <3>1. /\ q \in Seq(S) /\ Len(q) = k /\ k \in Nat /\ WINDOW = k + 1
          /\ \A i \in 1 .. k : q[i] = s[d + (i + 1)]
      BY <1>1, <2>7
    <3>. HIDE DEF q, k
    <3>2. /\ Append(q, x) \in Seq(S) /\ Len(Append(q, x)) = k + 1
          /\ Append(q, x)[k + 1] = x /\ \A i \in 1 .. k : Append(q, x)[i] = q[i]
      BY <3>1
    <3>3. r = Append(q, x) /\ WINDOW - 1 = k
      BY <3>1 DEF q
    <3>. HIDE DEF r
    <3>. QED  BY <3>1, <3>2, <3>3
  <2>. HIDE DEF r
  <2>9. ASSUME NEW i \in 1 .. WINDOW PROVE Last(t)[i] = r[i]
    <3>1. CASE i = WINDOW
      BY <1>1, <2>1, <2>5, <2>8, <3>1
    <3>2. CASE i # WINDOW
      <4>1. i \in 1 .. WINDOW - 1 /\ (d + 1) + i \in 1 .. n /\ d + (i + 1) = (d + 1) + i
        BY <1>1, <2>1, <3>2
      <4>. QED  BY <1>1, <2>5, <2>8, <4>1
    <3>. QED  BY <3>1, <3>2
  <2>10. Last(t) = r
    BY <2>5, <2>8, <2>9
  <2>. QED  BY <1>1, <2>1, <2>3, <2>6, <2>10 DEF l, r, t, n
<1>. QED  BY <1>1, <1>2, <1>3

LEMMA FedNew == Fed(NewAverage, <<>>)
<1>1. WINDOW \in Nat /\ WINDOW > 0 /\ Len(<<>>) = 0
  BY WindowAssumption
<1>2. /\ NewAverage.offset = 0 /\ NewAverage.count = 0 /\ NewAverage.sum = 0
      /\ \A i \in 0 .. WINDOW - 1 : NewAverage.ring[i] = 0
  BY DEF NewAverage
<1>3. Shaped(NewAverage)
  BY <1>1 DEF Shaped, NewAverage
<1>4. Filling(NewAverage, <<>>) /\ Holds(NewAverage, <<>>)
  BY <1>1, <1>2 DEF Filling, Holds
<1>5. Last(<<>>) = <<>>
  BY <1>1 DEF Last
<1>. QED  BY <1>2, <1>3, <1>4, <1>5, AbsSumEmpty DEF Fed

\* What AddValue does to the parts, with the magnitude a of a sample.
LEMMA AddShaped ==
    ASSUME NEW m, Shaped(m), NEW a \in Int
    PROVE  Shaped(AddValue(m, a))
<1>1. /\ m.ring \in [0 .. WINDOW - 1 -> Int] /\ m.offset \in 0 .. WINDOW - 1
      /\ m.sum \in Int /\ m.count \in 0 .. WINDOW /\ WINDOW \in Nat
  BY WindowAssumption DEF Shaped
<1>2. NextSlot(m.offset) \in 0 .. WINDOW - 1
  BY <1>1, NextSlotIs
<1>3. [m.ring EXCEPT ![m.offset] = a] \in [0 .. WINDOW - 1 -> Int]
  BY <1>1
<1>4. NewSum(m, a) \in Int
  BY <1>1 DEF NewSum
<1>5. (IF m.count < WINDOW THEN m.count + 1 ELSE m.count) \in 0 .. WINDOW
  BY <1>1
<1>. QED  BY <1>2, <1>3, <1>4, <1>5 DEF Shaped, AddValue

LEMMA FedAdd ==
    ASSUME NEW b \in Nat, NEW m, NEW s, Bounded(s, b), Fed(m, s), NEW x \in -b .. b
    PROVE  Fed(AddValue(m, Abs(x)), Append(s, x))
<1>. DEFINE a == Abs(x)
            k == AddValue(m, a)
            t == Append(s, x)
            n == Len(s)
            o == m.offset
<1>1. /\ n \in Nat /\ Len(t) = n + 1 /\ t[n + 1] = x /\ \A i \in 1 .. n : t[i] = s[i]
      /\ a \in Int /\ WINDOW \in Nat \ {0}
  BY WindowAssumption, AbsType DEF Bounded
<1>2. /\ o \in 0 .. WINDOW - 1 /\ m.ring \in [0 .. WINDOW - 1 -> Int]
      /\ m.count \in 0 .. WINDOW /\ m.sum \in Int /\ m.sum = AbsSum(Last(s))
  BY DEF Fed, Shaped
<1>3. /\ k.ring = [m.ring EXCEPT ![o] = a] /\ k.offset = NextSlot(o)
      /\ k.sum = m.sum + a - m.ring[o]
      /\ k.count = IF m.count < WINDOW THEN m.count + 1 ELSE m.count
  BY DEF AddValue, NewSum
<1>4. Shaped(k)
  BY <1>1, AddShaped DEF Fed
<1>5. NextSlot(o) = IF o + 1 = WINDOW THEN 0 ELSE o + 1
  BY <1>2, NextSlotIs
<1>6. k.ring[o] = a /\ \A i \in 0 .. WINDOW - 1 : i # o => k.ring[i] = m.ring[i]
  BY <1>2, <1>3
<1>7. /\ Filling(m, s) /\ Holds(m, s)
      /\ m.count = IF n < WINDOW THEN n ELSE WINDOW
  BY DEF Fed, Filling
<1>. HIDE DEF k, t, a
<1>8. Filling(k, t)
  <2>1. CASE n + 1 < WINDOW
    <3>1. o = n /\ m.count = n /\ \A i \in n .. WINDOW - 1 : m.ring[i] = 0
      BY <1>1, <1>7, <2>1 DEF Filling
    <3>2. k.offset = n + 1 /\ k.count = n + 1
      BY <1>1, <1>3, <1>5, <2>1, <3>1
    <3>3. \A i \in n + 1 .. WINDOW - 1 : k.ring[i] = 0
      BY <1>1, <1>6, <3>1
    <3>. QED  BY <1>1, <2>1, <3>2, <3>3 DEF Filling
  <2>2. CASE n + 1 >= WINDOW
    <3>1. k.count = WINDOW
      BY <1>1, <1>3, <1>7, <2>2
    <3>. QED  BY <1>1, <2>2, <3>1 DEF Filling
  <2>. QED  BY <1>1, <2>1, <2>2
<1>9. Holds(k, t)
  <2>. SUFFICES ASSUME NEW j \in 1 .. k.count
                PROVE  k.ring[Slot(k.offset, j)] = Abs(t[Len(t) - j + 1])
    BY DEF Holds
  <2>1. k.count \in Nat /\ k.count <= WINDOW /\ k.count <= m.count + 1
    <3>. DEFINE c == m.count
    <3>1. c \in Nat /\ c <= WINDOW /\ WINDOW \in Nat
      BY <1>1, <1>2
    <3>2. k.count = IF c < WINDOW THEN c + 1 ELSE c
      BY <1>3
    <3>. HIDE DEF c
    <3>3. k.count \in Nat /\ k.count <= WINDOW /\ k.count <= c + 1
      BY <3>1, <3>2
    <3>. QED  BY <3>3 DEF c
  <2>2. CASE j = 1
    <3>1. Slot(k.offset, j) = o
      BY SMTT(30), <1>1, <1>2, <1>3, <1>5, <2>2 DEF Slot
    <3>2. Len(t) - j + 1 = n + 1
      BY <1>1, <2>2
    <3>. QED  BY <1>1, <1>6, <3>1, <3>2 DEF a
  <2>3. CASE j # 1
    <3>. DEFINE i == j - 1
    <3>1. i \in 1 .. m.count /\ i < WINDOW /\ j = i + 1 /\ i \in 1 .. n
      BY <1>1, <1>2, <1>7, <2>1, <2>3
    <3>. HIDE DEF i
    <3>2. i \in Nat \ {0}
      BY <1>1, <3>1
    <3>3. /\ Slot(k.offset, j) = Slot(o, i)
          /\ Slot(o, i) \in 0 .. WINDOW - 1 /\ Slot(o, i) # o
      BY <1>2, <1>3, <3>1, <3>2, SlotLater
    <3>4. m.ring[Slot(o, i)] = Abs(s[Len(s) - i + 1])
      BY <1>7, <3>1 DEF Holds
    <3>5. Len(t) - j + 1 = Len(s) - i + 1 /\ Len(s) - i + 1 \in 1 .. n
      BY <1>1, <3>1
    <3>6. t[Len(t) - j + 1] = s[Len(s) - i + 1]
      BY <1>1, <3>5
    <3>. QED  BY <1>6, <3>3, <3>4, <3>6
  <2>. QED  BY <2>2, <2>3
<1>10. k.sum = AbsSum(Last(t))
  <2>. DEFINE l == Last(s)
  <2>1. /\ Bounded(l, b)
        /\ n < WINDOW => l = s /\ Last(t) = t
        /\ n >= WINDOW => /\ l # <<>> /\ Head(l) = s[n - WINDOW + 1]
                          /\ Last(t) = Append(Tail(l), x)
    <3>. DEFINE S == -b .. b
    <3>1. s \in Seq(S) /\ x \in S
      BY DEF Bounded
    <3>. HIDE DEF S
    <3>2. /\ l \in Seq(S)
          /\ n < WINDOW => l = s /\ Last(t) = t
          /\ n >= WINDOW => /\ l # <<>> /\ Head(l) = s[n - WINDOW + 1]
                            /\ Last(t) = Append(Tail(l), x)
      BY <3>1, LastIs DEF t
    <3>. QED  BY <3>2 DEF Bounded, S
  <2>. HIDE DEF l
  <2>2. CASE n < WINDOW
    <3>1. m.ring[o] = 0
      BY <1>1, <1>2, <1>7, <2>2 DEF Filling
    <3>2. AbsSum(t) = AbsSum(s) + a
      BY AbsSumAppend DEF t, a
    <3>3. AbsSum(s) = m.sum /\ AbsSum(Last(t)) = AbsSum(t)
      BY <1>2, <2>1, <2>2 DEF l
    <3>. QED  BY <1>1, <1>2, <1>3, <3>1, <3>2, <3>3
  <2>3. CASE n >= WINDOW
    <3>1. m.count = WINDOW /\ WINDOW \in 1 .. m.count
      BY <1>1, <1>7, <2>3
    <3>2. Slot(o, WINDOW) = o
      BY <1>1, <1>2 DEF Slot
    <3>3. m.ring[o] = Abs(Head(l))
      BY <1>7, <2>1, <2>3, <3>1, <3>2 DEF Holds
    <3>4. AbsSum(l) = Abs(Head(l)) + AbsSum(Tail(l))
      BY <2>1, <2>3, AbsSumTail
    <3>5. Bounded(Tail(l), b)
      <4>. DEFINE S == -b .. b
      <4>1. l \in Seq(S) /\ l # <<>>
        BY <2>1, <2>3 DEF Bounded
      <4>. HIDE DEF S
      <4>2. Tail(l) \in Seq(S)
        BY <4>1
      <4>. QED  BY <4>2 DEF Bounded, S
    <3>6. AbsSum(Last(t)) = AbsSum(Tail(l)) + a
      BY <2>1, <2>3, <3>5, AbsSumAppend DEF a
    <3>7. AbsSum(Tail(l)) \in Int /\ m.ring[o] \in Int /\ AbsSum(l) = m.sum
      <4>1. AbsSum(Tail(l)) \in Nat
        BY <3>5, AbsSumBound, Zenon
      <4>2. m.ring[o] \in Int
        BY <1>2
      <4>. QED  BY <1>2, <4>1, <4>2 DEF l
    <3>. QED  BY <1>1, <1>2, <1>3, <3>3, <3>4, <3>6, <3>7
  <2>. QED  BY <1>1, <2>2, <2>3
<1>. QED  BY <1>4, <1>8, <1>9, <1>10 DEF Fed, k, t, a

LEMMA LastLen ==
    ASSUME NEW S, NEW s \in Seq(S)
    PROVE  Last(s) \in Seq(S) /\ Len(Last(s)) = IF Len(s) < WINDOW THEN Len(s) ELSE WINDOW
<1>1. Len(s) \in Nat /\ WINDOW \in Nat \ {0}
  BY WindowAssumption
<1>2. CASE Len(s) <= WINDOW
  <2>1. ~ (Len(s) > WINDOW)
    BY <1>1, <1>2
  <2>2. Last(s) = SubSeq(s, 1, Len(s))
    BY <2>1, Zenon DEF Last
  <2>. QED  BY <1>1, <1>2, <2>2
<1>3. CASE Len(s) > WINDOW
  <2>. DEFINE d == Len(s) - WINDOW
  <2>1. d \in Nat /\ Len(s) = d + WINDOW
    BY <1>1, <1>3
  <2>2. Last(s) = SubSeq(s, d + 1, Len(s))
    BY <1>3 DEF Last
  <2>. HIDE DEF d
  <2>. QED  BY <1>1, <2>1, <2>2
<1>. QED  BY <1>1, <1>2, <1>3

\* A mean is not above the largest value.
LEMMA MeanBound ==
    ASSUME NEW b \in Nat, NEW c \in Nat \ {0}, NEW x \in Nat, x <= c * b
    PROVE  x \div c \in 0 .. b
<1>. DEFINE q == x \div c
            r == x % c
<1>1. q \in Int /\ r \in Nat /\ x = (c * q) + r
  OBVIOUS
<1>2. x = (c * q) + r /\ r < c
  OBVIOUS
<1>. HIDE DEF q, r
<1>3. q >= 0
  <2>. SUFFICES ASSUME q <= -1 PROVE FALSE
    BY <1>1
  <2>1. c * q <= -c
    BY <1>1
  <2>. DEFINE p == c * q
  <2>2. p \in Int
    BY <1>1
  <2>. HIDE DEF p
  <2>. QED  BY <1>1, <1>2, <2>1, <2>2 DEF p
<1>4. q <= b
  <2>. SUFFICES ASSUME q >= b + 1 PROVE FALSE
    BY <1>1
  <2>1. c * q >= (c * b) + c
    BY <1>1
  <2>. QED  BY <1>1, <2>1
<1>. QED  BY <1>1, <1>3, <1>4 DEF q

\* A value of the type stays what it is.
LEMMA WrapIs ==
    ASSUME NEW x \in -HALF .. HALF - 1
    PROVE  Wrap(x) = x
<1>. DEFINE y == x + HALF
            w == 2 * HALF
<1>1. y \in Nat /\ w \in Nat \ {0} /\ y < w
  BY WindowAssumption
<1>2. \A u \in Nat, v \in Nat \ {0} : u < v => u % v = u
  OBVIOUS
<1>. HIDE DEF y, w
<1>3. y % w = y
  BY <1>1, <1>2
<1>. QED  BY <1>3, WindowAssumption DEF Wrap, y, w

\* The magnitude of a sample other than the lowest value fits the type.
LEMMA MagnitudeIs ==
    ASSUME NEW x \in -(HALF - 1) .. HALF - 1
    PROVE  Magnitude(x) = Abs(x)
<1>1. Abs(x) \in -HALF .. HALF - 1 /\ Abs(x) = IF x < 0 THEN -x ELSE x
  BY WindowAssumption DEF Abs
<1>2. Wrap(Abs(x)) = Abs(x)
  BY <1>1, WrapIs
<1>. QED  BY <1>1, <1>2 DEF Magnitude

\* The average of the ring is the mean of the last samples.
LEMMA AverageIs ==
    ASSUME NEW m, NEW s, Bounded(s, HALF - 1), Fed(m, s), s # <<>>
    PROVE  GetAverage(m) = MeanOfLast(s)
<1>. DEFINE b == HALF - 1
            S == -b .. b
            l == Last(s)
            c == m.count
<1>1. b \in Nat /\ s \in Seq(S)
  BY WindowAssumption DEF Bounded
<1>. HIDE DEF S
<1>2. /\ l \in Seq(S) /\ Len(s) \in Nat \ {0}
      /\ Len(l) = IF Len(s) < WINDOW THEN Len(s) ELSE WINDOW
  BY <1>1, LastLen
<1>3. Len(l) = c /\ c \in Nat \ {0}
  BY <1>2, WindowAssumption DEF Fed, Filling
<1>4. AbsSum(l) \in Nat /\ AbsSum(l) <= Len(l) * b
  <2>1. Bounded(l, b)
    BY <1>2 DEF Bounded, S
  <2>. QED  BY <1>1, <2>1, AbsSumBound, Zenon
<1>5. m.sum = AbsSum(l)
  BY DEF Fed
<1>. HIDE DEF l, c
<1>6. AbsSum(l) \div c \in 0 .. b
  BY <1>1, <1>3, <1>4, MeanBound
<1>7. CDiv(m.sum, c) = AbsSum(l) \div c
  BY <1>4, <1>5 DEF CDiv
<1>8. Wrap(AbsSum(l) \div c) = AbsSum(l) \div c
  <2>1. AbsSum(l) \div c \in -HALF .. HALF - 1
    BY <1>6, WindowAssumption
  <2>. QED  BY <2>1, WrapIs
<1>9. c # 0 /\ GetAverage(m) = IF c = 0 THEN 0 ELSE Wrap(CDiv(m.sum, c))
  BY <1>3 DEF GetAverage, c
<1>. QED  BY <1>3, <1>7, <1>8, <1>9 DEF MeanOfLast, l

-----------------------------------------------------------------------------
(* The first stream.                                                       *)

NotLowest == Samples \subseteq -(HALF - 1) .. HALF - 1

\* Until the first Reset the average was fed what was held back, and a stream
\* that lets samples through has some.
Hears ==
    /\ start \in BOOLEAN
    /\ streamAt = 0 /\ start => Fed(average, seen)
    /\ ~start => seen # <<>> \/ input # <<>>

LEMMA InitHears == Init => Hears
BY FedNew DEF Init, Hears

LEMMA FedNext ==
    ASSUME NotLowest, IInv, ~Idle, Fed(average, seen)
    PROVE  LET x == Head(input)
               m == AddValue(average, Magnitude(x))
           IN Fed(m, Append(seen, x)) /\ GetAverage(m) = MeanOfLast(Append(seen, x))
<1>. DEFINE b == HALF - 1
            S == -b .. b
            x == Head(input)
            t == Append(seen, x)
<1>1. b \in Nat /\ Samples \subseteq S
  BY WindowAssumption DEF NotLowest
<1>2. input \in Seq(Samples) /\ seen \in Seq(Samples) /\ input # <<>>
  BY DEF IInv, Typed, Idle
<1>. HIDE DEF S
<1>3. x \in Samples
  BY <1>2
<1>4. x \in S /\ seen \in Seq(S)
  BY <1>1, <1>2, <1>3
<1>. HIDE DEF x
<1>5. t \in Seq(S) /\ t # <<>>
  <2>1. t \in Seq(S) /\ Len(t) = Len(seen) + 1 /\ Len(seen) \in Nat
    BY <1>4
  <2>2. t # <<>>
    <3>. HIDE DEF t
    <3>. QED  BY <2>1
  <2>. QED  BY <2>1, <2>2
<1>6. Bounded(seen, b) /\ Bounded(t, b)
  BY <1>4, <1>5 DEF Bounded, S
<1>7. Magnitude(x) = Abs(x) /\ x \in -b .. b
  BY <1>4, MagnitudeIs DEF S
<1>8. Fed(AddValue(average, Abs(x)), t)
  BY <1>1, <1>6, <1>7, FedAdd
<1>9. GetAverage(AddValue(average, Abs(x))) = MeanOfLast(t)
  BY <1>5, <1>6, <1>8, AverageIs
<1>. QED  BY <1>7, <1>8, <1>9 DEF x

LEMMA StepHears == NotLowest /\ IInv /\ Hears /\ [Next]_vars => Hears'
<1>. SUFFICES ASSUME NotLowest, IInv, Hears, [Next]_vars PROVE Hears'
  OBVIOUS
<1>0. input \in Seq(Samples) /\ seen \in Seq(Samples) /\ streamAt \in 0 .. Len(seen)
  BY DEF IInv, Typed
<1>1. ASSUME NEW value \in Thresholds, set_threshold(value) PROVE Hears'
  BY <1>1 DEF set_threshold, Hears
<1>2. ASSUME NEW n \in {1, 2}, Reset(n) PROVE Hears'
  <2>1. CASE UNCHANGED vars
    BY <2>1 DEF vars, Hears
  <2>2. CASE /\ start' = TRUE /\ streamAt' = Len(seen)
             /\ UNCHANGED <<average, input, seen>>
    <3>1. CASE seen = <<>>
      <4>1. streamAt = 0 /\ start
        BY <1>0, <1>2, <3>1 DEF Reset, Idle, Hears
      <4>. QED  BY <2>2, <4>1 DEF Hears
    <3>2. CASE seen # <<>>
      <4>1. Len(seen) # 0
        BY <1>0, <3>2
      <4>. QED  BY <2>2, <4>1 DEF Hears
    <3>. QED  BY <3>1, <3>2
  <2>. QED  BY <1>2, <2>1, <2>2 DEF Reset
<1>3. ASSUME NEW chunk \in Chunks, Consume(chunk) PROVE Hears'
  BY <1>3 DEF Consume, Hears, Idle
<1>4. CASE Listen
  <2>1. ~Idle /\ start /\ streamAt' = streamAt
    BY <1>4 DEF Listen
  <2>2. CASE start' = FALSE /\ input' = input
    BY <2>1, <2>2 DEF Hears, Idle
  <2>3. CASE seen' = Append(seen, Head(input)) /\ start' = start
    <3>1. average' = AddValue(average, Magnitude(Head(input)))
      BY <1>4 DEF Listen
    <3>2. streamAt = 0 => Fed(average', seen')
      BY <2>1, <2>3, <3>1, FedNext DEF Hears
    <3>. QED  BY <2>1, <2>3, <3>2 DEF Hears
  <2>. QED  BY <1>4, <2>2, <2>3 DEF Listen
<1>5. CASE PassOn
  <2>1. /\ ~start /\ start' = start /\ seen' = seen \o input /\ input # <<>>
    BY <1>5 DEF PassOn, Idle
  <2>2. seen' # <<>>
    BY <1>0, <2>1
  <2>. QED  BY <2>1, <2>2 DEF Hears
<1>6. CASE UNCHANGED vars
  BY <1>6 DEF vars, Hears
<1>. QED  BY <1>1, <1>2, <1>3, <1>4, <1>5, <1>6 DEF Next

\* Until the first Reset a sample is held back exactly if the mean of the
\* last WINDOW magnitudes of the stream, its own included, is not above the
\* threshold: neither the ring, nor the running sum, nor the conversions to
\* the sample's type change that (moving_average.h and Consume), provided
\* that no sample is the lowest value of the type, whose magnitude has none.
THEOREM FirstStreamIsTrimmed ==
    Samples \subseteq -(HALF - 1) .. HALF - 1 => (Spec => FirstStreamTrimmed)
<1>. SUFFICES ASSUME NotLowest PROVE Spec => FirstStreamTrimmed
  BY DEF NotLowest
<1>1. IInv /\ Hears /\ [Next]_vars => IInv' /\ Hears'
  BY StepIInv, StepHears
<1>2. IInv /\ Hears /\ [Next]_vars =>
        [streamAt = 0 /\ ~Idle /\ start =>
          LET loud == MeanOfLast(Append(seen, Head(input))) > threshold
          IN IF loud THEN start' = FALSE /\ input' = input
                     ELSE start' = TRUE /\ input' = Tail(input)]_vars
  <2>. SUFFICES ASSUME IInv, Hears, Next, streamAt = 0, ~Idle, start
                PROVE  IF MeanOfLast(Append(seen, Head(input))) > threshold
                         THEN start' = FALSE /\ input' = input
                         ELSE start' = TRUE /\ input' = Tail(input)
    OBVIOUS
  <2>1. Listen
    BY DEF Next, set_threshold, Reset, Consume, PassOn
  <2>2. GetAverage(average') = MeanOfLast(Append(seen, Head(input)))
    BY <2>1, FedNext DEF Listen, Hears
  <2>3. IF GetAverage(average') > threshold
          THEN start' = FALSE /\ input' = input
          ELSE start' = start /\ input' = Tail(input)
    BY <2>1 DEF Listen, LouderThan
  <2>4. start = TRUE
    BY DEF Hears
  <2>. QED  BY <2>2, <2>3, <2>4
<1>. QED  BY InitIInv, InitHears, <1>1, <1>2, PTL DEF Spec, FirstStreamTrimmed
=============================================================================
