---------------------------- MODULE GaussianFilter ----------------------------
(***************************************************************************)
(* src/src/utils/gaussian_filter.h and gradient.h: smoothing by repeated   *)
(* box filters, whose window is reflected at both ends of the data, and    *)
(* the gradient.                                                           *)
(*                                                                         *)
(* The data are integers; a division that the code does in floats is left  *)
(* out, so that a filter returns the numerators: BoxFilter the sum of each *)
(* window, Gradient the doubled differences.                               *)
(***************************************************************************)
EXTENDS Integers, Sequences, SequencesExt

\* ReflectIterator, on data of `size` values: the position, counted from 0,
\* and the direction.  At an end it turns without moving.
Begin == [pos |-> 0, forward |-> TRUE]

Moved(it, by) == [pos |-> it.pos + by, forward |-> it.forward]
Turned(it) == [pos |-> it.pos, forward |-> IF it.forward THEN FALSE ELSE TRUE]

MoveForward(size, it) ==
    CASE it.forward /\ it.pos + 1 = size -> Turned(it)
      [] it.forward /\ it.pos + 1 # size -> Moved(it, 1)
      [] ~it.forward /\ it.pos = 0       -> Turned(it)
      [] ~it.forward /\ it.pos # 0       -> Moved(it, -1)

MoveBack(size, it) ==
    CASE it.forward /\ it.pos = 0         -> Turned(it)
      [] it.forward /\ it.pos # 0         -> Moved(it, -1)
      [] ~it.forward /\ it.pos + 1 = size -> Turned(it)
      [] ~it.forward /\ it.pos + 1 # size -> Moved(it, 1)

\* The output values that the middle loop computes: it moves both iterators
\* by pos++ alone, the loops before and after it let them turn.
PlainTooEarly(size, w, i) == size > w /\ i < size - w - 1
Plain(size, w, i) == size > w /\ i \in w \div 2 .. (w \div 2) + size - w - 2

StepsBack(size, n) ==
    LET it[i \in 0 .. n] == IF i = 0 THEN Begin ELSE MoveBack(size, it[i - 1])
    IN it[n]

\* The iterators start w \div 2 steps before the data.
BackRoundedUp(size, w) == StepsBack(size, (w + 1) \div 2)
Back(size, w) == StepsBack(size, w \div 2)

BoxFilter(input, w) ==
    LET size == Len(input)
        first[k \in 0 .. w] ==     \* after k values of the first window
            IF k = 0 THEN [sum |-> 0, it |-> Back(size, w)]
            ELSE LET s == first[k - 1]
                 IN [sum |-> s.sum + input[s.it.pos + 1], it |-> MoveForward(size, s.it)]
        Move(i, it) == IF Plain(size, w, i) THEN Moved(it, 1) ELSE MoveForward(size, it)
        turn[i \in 0 .. size] ==   \* after i output values
            IF i = 0 THEN [out |-> <<>>, sum |-> first[w].sum,
                           it1 |-> Back(size, w), it2 |-> first[w].it]
            ELSE LET s == turn[i - 1]
                 IN [ out |-> Append(s.out, s.sum),
                      sum |-> s.sum + input[s.it2.pos + 1] - input[s.it1.pos + 1],
                      it1 |-> Move(i - 1, s.it1),
                      it2 |-> Move(i - 1, s.it2) ]
    IN IF w = 0 \/ size = 0
         THEN [i \in 1 .. size |-> 0]    \* what resize leaves
         ELSE turn[size].out

\* The widths of the passes that come nearest to a Gaussian: m of wl, then
\* n - m of wl + 2; `variance` is the square of sigma.
Width(variance, n) == CHOOSE w \in 1 .. 12 * variance + n :
    n * w * w <= 12 * variance + n /\ n * (w + 1) * (w + 1) > 12 * variance + n
NarrowWidth(variance, n) ==
    LET w == Width(variance, n)
    IN IF w % 2 = 0 THEN w - 1 ELSE w

\* round(p / q) for positive integers
RoundDown(p, q) == p \div q
Round(p, q) == (2 * p + q) \div (2 * q)

NarrowPasses(variance, n) ==
    LET wl == NarrowWidth(variance, n)
    IN Round(n * wl * wl + 4 * n * wl + 3 * n - 12 * variance, 4 * wl + 4)

Widths(variance, n) ==
    LET wl == NarrowWidth(variance, n)
    IN [i \in 1 .. n |-> IF i <= NarrowPasses(variance, n) THEN wl ELSE wl + 2]

\* The passes swap the two vectors, so that the input is overwritten; the
\* result is in the output either way.
GaussianFilter(input, variance, n) == FoldLeft(BoxFilter, input, Widths(variance, n))

\* Each value is the difference of its neighbours, twice the one to its only
\* neighbour at an end.
Gradient(input) ==
    LET n == Len(input)
    IN [i \in 1 .. n |->
          CASE n = 1           -> 0
            [] n > 1 /\ i = 1  -> 2 * (input[2] - input[1])
            [] n > 1 /\ i = n  -> 2 * (input[n] - input[n - 1])
            [] i > 1 /\ i < n  -> input[i + 1] - input[i - 1]]

-----------------------------------------------------------------------------
\* What the iterator stands for: step k, before the data for negative k, of a
\* walk back and forth over it that takes 2 * size steps.
At(size, k) ==
    LET r == k % (2 * size)
    IN IF r < size THEN [pos |-> r, forward |-> TRUE]
                   ELSE [pos |-> 2 * size - 1 - r, forward |-> FALSE]

\* BoxFilter is linear, so the data with a single one at each place in turn
\* say what it computes: the sum of the w values around each value, the data
\* continued by its mirror image, also where the window is wider than the
\* data and reflects more than once.
SumsReflected(size, w) ==
    \A one \in 1 .. size :
        BoxFilter([i \in 1 .. size |-> IF i = one THEN 1 ELSE 0], w) =
            [i \in 1 .. size |->
                LET from == i - 1 - (w \div 2)
                IN Cardinality({k \in from .. from + w - 1 : At(size, k).pos + 1 = one})]

\* Twelve times the variance of passes of these widths.
VarianceOf(widths) ==
    LET sum[i \in 0 .. Len(widths)] ==
            IF i = 0 THEN 0 ELSE sum[i - 1] + widths[i] * widths[i] - 1
    IN sum[Len(widths)]

\* No other number of narrow passes among the n comes nearer to the variance.
NearestVariance(variance, n) ==
    LET Off(widths) == IF VarianceOf(widths) >= 12 * variance
                         THEN VarianceOf(widths) - 12 * variance
                         ELSE 12 * variance - VarianceOf(widths)
        wl == NarrowWidth(variance, n)
    IN \A m \in 0 .. n :
          Off(Widths(variance, n)) <= Off([i \in 1 .. n |-> IF i <= m THEN wl ELSE wl + 2])
=============================================================================
