-------------------------- MODULE MCFunctions_proofs --------------------------
(***************************************************************************)
(* Proofs about the pure functions of the library, for arguments of every  *)
(* size.                                                                   *)
(*                                                                         *)
(* The box filter: ReflectIterator, one branch per direction and end, walks *)
(* back and forth over the data as the closed form At says; the loop that  *)
(* does without its turns may do so; and the running sum of the loops is   *)
(* that of each window, on data of every size and for windows of every     *)
(* width.                                                                  *)
(*                                                                         *)
(* The widths of the passes: the choice is the best.                       *)
(*                                                                         *)
(* The six filters: their parts tile the rectangle.                        *)
(*                                                                         *)
(* The matcher: the scan of the sorted offsets counts the pairs of items   *)
(* at each shift; the best peak is the best shift; and the segments lie on *)
(* its diagonal, in order, and cover an overlap of near items.             *)
(*                                                                         *)
(* The codec: the unrolled loops and the tails of the bit arrays put every *)
(* bit where it belongs; the codes of the items, packed, unpacked and      *)
(* added up, are the items again; what is missing at the end is noticed,   *)
(* what follows is not read.  The hash: the majority of the items.         *)
(***************************************************************************)
EXTENDS MCFunctions, WellFoundedInduction, FiniteSetTheorems, TLAPS

\* Division with remainder.
LEMMA Remainder ==
    ASSUME NEW n \in Nat \ {0}, NEW k \in Int
    PROVE  k % n \in 0 .. n - 1 /\ k \div n \in Int /\ k = n * (k \div n) + (k % n)
OBVIOUS

LEMMA RemainderUnique ==
    ASSUME NEW n \in Nat \ {0}, NEW q \in Int, NEW r \in 0 .. n - 1
    PROVE  (n * q + r) % n = r
OBVIOUS

\* The next number has the next remainder.
LEMMA NextRemainder ==
    ASSUME NEW n \in Nat \ {0}, NEW k \in Int
    PROVE  (k + 1) % n = IF (k % n) + 1 < n THEN (k % n) + 1 ELSE 0
<1>1. PICK q \in Int, r \in 0 .. n - 1 : k = n * q + r /\ k % n = r
  BY Remainder
<1>2. CASE r + 1 < n
  <2>1. r + 1 \in 0 .. n - 1 /\ k + 1 = n * q + (r + 1)
    BY <1>1, <1>2
  <2>2. (n * q + (r + 1)) % n = r + 1
    BY <2>1, RemainderUnique
  <2>. QED  BY <1>1, <1>2, <2>1, <2>2
<1>3. CASE r + 1 = n
  <2>1. q + 1 \in Int /\ 0 \in 0 .. n - 1 /\ k + 1 = n * (q + 1) + 0
    BY <1>1, <1>3
  <2>2. (n * (q + 1) + 0) % n = 0
    BY <2>1, RemainderUnique
  <2>. QED  BY <1>1, <1>3, <2>1, <2>2
<1>. QED  BY <1>1, <1>2, <1>3

\* At, from the remainder of the step.
LEMMA AtRemainder ==
    ASSUME NEW size \in Nat \ {0}, NEW k \in Int, NEW r, r = k % (2 * size)
    PROVE  /\ r < size => At(size, k) = [pos |-> r, forward |-> TRUE]
           /\ ~(r < size) => At(size, k) = [pos |-> 2 * size - 1 - r, forward |-> FALSE]
BY DEF At

\* One step on: the turn at the end, the turn at the begin, or a move.
LEMMA NextAt ==
    ASSUME NEW size \in Nat \ {0}, NEW k \in Int
    PROVE  \E p \in 0 .. size - 1 :
              \/ /\ At(size, k) = [pos |-> p, forward |-> TRUE]
                 /\ At(size, k + 1) = IF p + 1 = size THEN [pos |-> p, forward |-> FALSE]
                                                      ELSE [pos |-> p + 1, forward |-> TRUE]
              \/ /\ At(size, k) = [pos |-> p, forward |-> FALSE]
                 /\ At(size, k + 1) = IF p = 0 THEN [pos |-> p, forward |-> TRUE]
                                               ELSE [pos |-> p - 1, forward |-> FALSE]
<1>1. PICK n \in Nat \ {0} : n = 2 * size
  OBVIOUS
<1>2. PICK r \in 0 .. n - 1 : r = k % n
  BY Remainder
<1>3. PICK next : next = (k + 1) % n /\ next = IF r + 1 < n THEN r + 1 ELSE 0
  BY <1>2, NextRemainder
<1>4. /\ r < size => At(size, k) = [pos |-> r, forward |-> TRUE]
      /\ ~(r < size) => At(size, k) = [pos |-> 2 * size - 1 - r, forward |-> FALSE]
  BY <1>1, <1>2, AtRemainder
<1>5. /\ next < size => At(size, k + 1) = [pos |-> next, forward |-> TRUE]
      /\ ~(next < size) => At(size, k + 1) = [pos |-> 2 * size - 1 - next, forward |-> FALSE]
  <2>1. k + 1 \in Int
    OBVIOUS
  <2>. QED  BY <1>1, <1>3, <2>1, AtRemainder
<1>6. CASE r < size
  <2>1. r \in 0 .. size - 1 /\ next = r + 1
    BY <1>1, <1>2, <1>3, <1>6
  <2>2. At(size, k) = [pos |-> r, forward |-> TRUE]
    BY <1>4, <1>6
  <2>3. r + 1 = size => At(size, k + 1) = [pos |-> r, forward |-> FALSE]
    <3>1. r + 1 = size => ~(next < size) /\ 2 * size - 1 - next = r
      BY <2>1
    <3>. QED  BY <1>5, <3>1
  <2>4. r + 1 # size => At(size, k + 1) = [pos |-> r + 1, forward |-> TRUE]
    <3>1. r + 1 # size => next < size
      BY <2>1
    <3>. QED  BY <1>5, <2>1, <3>1
  <2>. QED  BY <2>1, <2>2, <2>3, <2>4
<1>7. CASE ~(r < size)
  <2>. DEFINE p == 2 * size - 1 - r
  <2>1. p \in 0 .. size - 1 /\ next = IF p = 0 THEN 0 ELSE r + 1
    BY <1>1, <1>2, <1>3, <1>7
  <2>2. At(size, k) = [pos |-> p, forward |-> FALSE]
    BY <1>4, <1>7
  <2>3. p = 0 => At(size, k + 1) = [pos |-> 0, forward |-> TRUE]
    <3>1. p = 0 => next = 0 /\ next < size
      BY <2>1
    <3>. QED  BY <1>5, <3>1
  <2>4. p # 0 => At(size, k + 1) = [pos |-> p - 1, forward |-> FALSE]
    <3>1. p # 0 => ~(next < size) /\ 2 * size - 1 - next = p - 1
      BY <1>2, <1>7, <2>1
    <3>. QED  BY <1>5, <3>1
  <2>. HIDE DEF p
  <2>. QED  BY <2>1, <2>2, <2>3, <2>4
<1>. QED  BY <1>6, <1>7

\* At stays on the data.
THEOREM AtOnData ==
    ASSUME NEW size \in Nat \ {0}, NEW k \in Int
    PROVE  At(size, k).pos \in 0 .. size - 1
<1>1. PICK p \in 0 .. size - 1 : \/ At(size, k) = [pos |-> p, forward |-> TRUE]
                                 \/ At(size, k) = [pos |-> p, forward |-> FALSE]
  BY NextAt
<1>. QED  BY <1>1

\* ReflectIterator::MoveForward is one step on.
THEOREM ForwardStep ==
    ASSUME NEW size \in Nat \ {0}, NEW k \in Int
    PROVE  MoveForward(size, At(size, k)) = At(size, k + 1)
<1>1. PICK p \in 0 .. size - 1 :
          \/ /\ At(size, k) = [pos |-> p, forward |-> TRUE]
             /\ At(size, k + 1) = IF p + 1 = size THEN [pos |-> p, forward |-> FALSE]
                                                  ELSE [pos |-> p + 1, forward |-> TRUE]
          \/ /\ At(size, k) = [pos |-> p, forward |-> FALSE]
             /\ At(size, k + 1) = IF p = 0 THEN [pos |-> p, forward |-> TRUE]
                                           ELSE [pos |-> p - 1, forward |-> FALSE]
  BY NextAt
<1>2. CASE At(size, k) = [pos |-> p, forward |-> TRUE]
  <2>1. At(size, k).forward = TRUE /\ At(size, k).pos = p
    BY <1>2
  <2>2. At(size, k + 1) = IF p + 1 = size THEN [pos |-> p, forward |-> FALSE]
                                          ELSE [pos |-> p + 1, forward |-> TRUE]
    <3>1. [pos |-> p, forward |-> TRUE] # [pos |-> p, forward |-> FALSE]
      OBVIOUS
    <3>. QED  BY <1>1, <1>2, <3>1
  <2>. QED  BY <2>1, <2>2 DEF MoveForward, Moved, Turned
<1>3. CASE At(size, k) = [pos |-> p, forward |-> FALSE]
  <2>1. At(size, k).forward = FALSE /\ At(size, k).pos = p
    BY <1>3
  <2>2. At(size, k + 1) = IF p = 0 THEN [pos |-> p, forward |-> TRUE]
                                   ELSE [pos |-> p - 1, forward |-> FALSE]
    <3>1. [pos |-> p, forward |-> TRUE] # [pos |-> p, forward |-> FALSE]
      OBVIOUS
    <3>. QED  BY <1>1, <1>3, <3>1
  <2>. QED  BY <2>1, <2>2 DEF MoveForward, Moved, Turned
<1>. QED  BY <1>1, <1>2, <1>3

\* ReflectIterator::MoveBack is one step back.
THEOREM BackStep ==
    ASSUME NEW size \in Nat \ {0}, NEW k \in Int
    PROVE  MoveBack(size, At(size, k)) = At(size, k - 1)
<1>1. k - 1 \in Int /\ (k - 1) + 1 = k
  OBVIOUS
<1>2. PICK p \in 0 .. size - 1 :
          \/ /\ At(size, k - 1) = [pos |-> p, forward |-> TRUE]
             /\ At(size, k) = IF p + 1 = size THEN [pos |-> p, forward |-> FALSE]
                                              ELSE [pos |-> p + 1, forward |-> TRUE]
          \/ /\ At(size, k - 1) = [pos |-> p, forward |-> FALSE]
             /\ At(size, k) = IF p = 0 THEN [pos |-> p, forward |-> TRUE]
                                       ELSE [pos |-> p - 1, forward |-> FALSE]
  BY <1>1, NextAt
<1>3. CASE At(size, k - 1) = [pos |-> p, forward |-> TRUE]
  <2>1. At(size, k) = IF p + 1 = size THEN [pos |-> p, forward |-> FALSE]
                                      ELSE [pos |-> p + 1, forward |-> TRUE]
    <3>1. [pos |-> p, forward |-> TRUE] # [pos |-> p, forward |-> FALSE]
      OBVIOUS
    <3>. QED  BY <1>2, <1>3, <3>1
  <2>2. CASE p + 1 = size
    <3>1. At(size, k).forward = FALSE /\ At(size, k).pos = p
      BY <2>1, <2>2
    <3>. QED  BY <1>3, <2>2, <3>1 DEF MoveBack, Moved, Turned
  <2>3. CASE p + 1 # size
    <3>1. At(size, k).forward = TRUE /\ At(size, k).pos = p + 1
      BY <2>1, <2>3
    <3>2. p + 1 # 0 /\ (p + 1) + (-1) = p
      OBVIOUS
    <3>3. MoveBack(size, At(size, k)) = Moved(At(size, k), -1)
      BY <3>1, <3>2 DEF MoveBack
    <3>4. Moved(At(size, k), -1) = [pos |-> p, forward |-> TRUE]
      BY <3>1, <3>2 DEF Moved
    <3>. QED  BY <1>3, <3>3, <3>4
  <2>. QED  BY <2>2, <2>3
<1>4. CASE At(size, k - 1) = [pos |-> p, forward |-> FALSE]
  <2>1. At(size, k) = IF p = 0 THEN [pos |-> p, forward |-> TRUE]
                               ELSE [pos |-> p - 1, forward |-> FALSE]
    <3>1. [pos |-> p, forward |-> TRUE] # [pos |-> p, forward |-> FALSE]
      OBVIOUS
    <3>. QED  BY <1>2, <1>4, <3>1
  <2>2. CASE p = 0
    <3>1. At(size, k).forward = TRUE /\ At(size, k).pos = p
      BY <2>1, <2>2
    <3>. QED  BY <1>4, <2>2, <3>1 DEF MoveBack, Moved, Turned
  <2>3. CASE p # 0
    <3>1. At(size, k).forward = FALSE /\ At(size, k).pos = p - 1
      BY <2>1, <2>3
    <3>2. (p - 1) + 1 # size /\ (p - 1) + 1 = p
      OBVIOUS
    <3>3. MoveBack(size, At(size, k)) = Moved(At(size, k), 1)
      BY <3>1, <3>2 DEF MoveBack
    <3>4. Moved(At(size, k), 1) = [pos |-> p, forward |-> FALSE]
      BY <3>1, <3>2 DEF Moved
    <3>. QED  BY <1>4, <3>3, <3>4
  <2>. QED  BY <2>2, <2>3
<1>. QED  BY <1>2, <1>3, <1>4

\* The middle loop of BoxFilter moves both ends of the window by pos++: where
\* it does, pos++ is what MoveForward would have done, and stays on the data.
THEOREM PlainTurnsAreSafe ==
    ASSUME NEW size \in Nat \ {0}, NEW w \in Nat \ {0}, NEW i \in 0 .. size - 1,
           Plain(size, w, i),
           NEW k \in {i - (w \div 2), i - (w \div 2) + w}
    PROVE  /\ At(size, k).pos + 1 < size
           /\ MoveForward(size, At(size, k)) = Moved(At(size, k), 1)
<1>1. PICK h \in Nat : h = w \div 2 /\ h <= w
  OBVIOUS
<1>2. k \in 0 .. size - 2
  BY <1>1 DEF Plain
<1>3. k % (2 * size) = k
  <2>1. 2 * size \in Nat \ {0} /\ 0 \in Int /\ k \in 0 .. (2 * size) - 1
    BY <1>2
  <2>2. ((2 * size) * 0 + k) % (2 * size) = k
    BY <2>1, RemainderUnique
  <2>3. (2 * size) * 0 + k = k
    BY <2>1
  <2>. QED  BY <2>2, <2>3
<1>4. At(size, k) = [pos |-> k, forward |-> TRUE]
  <2>1. k \in Int /\ k < size
    BY <1>2
  <2>. QED  BY <1>3, <2>1, AtRemainder
<1>. QED  BY <1>2, <1>4 DEF MoveForward, Moved

-----------------------------------------------------------------------------
(* The box filter.                                                         *)

\* Induction on the natural numbers.
LEMMA NatInduct ==
    ASSUME NEW T \in SUBSET Nat, 0 \in T, \A n \in T : n + 1 \in T
    PROVE  Nat \subseteq T
<1>. SUFFICES ASSUME NEW m \in Nat, m \notin T PROVE FALSE
  OBVIOUS
<1>1. PICK x \in Nat \ T : \A y \in Nat \ T : ~ (<<y, x>> \in OpToRel(<, Nat))
  BY WFMin, NatLessThanWellFounded
<1>2. x - 1 \in Nat /\ x - 1 < x /\ (x - 1) + 1 = x
  OBVIOUS
<1>3. x - 1 \in T
  <2>1. <<x - 1, x>> \in OpToRel(<, Nat)
    BY <1>2 DEF OpToRel
  <2>. QED  BY <1>1, <1>2, <2>1
<1>. QED  BY <1>2, <1>3

\* What two recursive functions share from one value to the next, they share.
LEMMA SameValues ==
    ASSUME NEW n \in Nat, NEW f, NEW g, f[0] = g[0],
           \A i \in 1 .. n : f[i - 1] = g[i - 1] => f[i] = g[i]
    PROVE  \A i \in 0 .. n : f[i] = g[i]
<1>. DEFINE T == {k \in Nat : k <= n => f[k] = g[k]}
<1>1. 0 \in T
  OBVIOUS
<1>2. ASSUME NEW k \in T PROVE k + 1 \in T
  <2>1. k + 1 <= n => k + 1 \in 1 .. n /\ (k + 1) - 1 = k /\ f[k] = g[k]
    OBVIOUS
  <2>. QED  BY <2>1
<1>3. T \in SUBSET Nat
  OBVIOUS
<1>. HIDE DEF T
<1>4. Nat \subseteq T
  BY <1>1, <1>2, <1>3, NatInduct
<1>. QED  BY <1>4 DEF T

\* The iterator, n steps before the data.
GoesBack(f, size, n) ==
    f = [i \in 0 .. n |-> IF i = 0 THEN Begin ELSE MoveBack(size, f[i - 1])]

GoesBackAt(f, size, i) == f[i] = IF i = 0 THEN Begin ELSE MoveBack(size, f[i - 1])

LEMMA GoesBackIs ==
    ASSUME NEW f, NEW size, NEW n, GoesBack(f, size, n), NEW i \in 0 .. n
    PROVE  GoesBackAt(f, size, i)
<1>. DEFINE e(j) == IF j = 0 THEN Begin ELSE MoveBack(size, f[j - 1])
<1>1. f = [j \in 0 .. n |-> e(j)]
  BY DEF GoesBack
<1>2. f[i] = e(i)
  <2>. HIDE DEF e
  <2>. QED  BY <1>1
<1>. QED  BY <1>2 DEF GoesBackAt

LEMMA AtBegin ==
    ASSUME NEW size \in Nat \ {0}
    PROVE  At(size, 0) = Begin
<1>1. 0 % (2 * size) = 0
  OBVIOUS
<1>2. 0 \in Int /\ 0 < size
  OBVIOUS
<1>. QED  BY <1>1, <1>2, AtRemainder DEF Begin

LEMMA StepsBackIs ==
    ASSUME NEW size \in Nat \ {0}, NEW n \in Nat
    PROVE  StepsBack(size, n) = At(size, -n)
<1>. DEFINE c(i) == At(size, -i)
            g == [i \in 0 .. n |-> c(i)]
            e(i) == IF i = 0 THEN Begin ELSE MoveBack(size, g[i - 1])
<1>1. c(0) = Begin
  BY AtBegin
<1>2. ASSUME NEW i \in 1 .. n PROVE c(i) = MoveBack(size, c(i - 1))
  <2>1. -(i - 1) \in Int /\ (-(i - 1)) - 1 = -i
    OBVIOUS
  <2>. QED  BY <2>1, BackStep
<1>. HIDE DEF c
<1>3. ASSUME NEW i \in 0 .. n PROVE c(i) = e(i)
  <2>1. i # 0 => i \in 1 .. n /\ i - 1 \in 0 .. n
    OBVIOUS
  <2>. QED  BY <1>1, <1>2, <2>1
<1>4. g = [i \in 0 .. n |-> e(i)]
  <2>1. g = [i \in 0 .. n |-> c(i)]
    OBVIOUS
  <2>. HIDE DEF g, e
  <2>. QED  BY <1>3, <2>1
<1>5. GoesBack(g, size, n)
  <2>. HIDE DEF g
  <2>. QED  BY <1>4 DEF GoesBack
<1>. DEFINE f == CHOOSE h : GoesBack(h, size, n)
<1>6. GoesBack(f, size, n)
  <2>. HIDE DEF g
  <2>. QED  BY <1>5
<1>7. StepsBack(size, n) = f[n]
  BY DEF StepsBack, GoesBack
<1>. HIDE DEF f, g
<1>8. \A i \in 0 .. n : f[i] = g[i]
  <2>1. f[0] = g[0]
    <3>1. 0 \in 0 .. n
      OBVIOUS
    <3>. QED  BY <1>5, <1>6, <3>1, GoesBackIs DEF GoesBackAt
  <2>2. ASSUME NEW i \in 1 .. n, f[i - 1] = g[i - 1] PROVE f[i] = g[i]
    <3>1. i \in 0 .. n /\ i # 0
      OBVIOUS
    <3>2. GoesBackAt(f, size, i) /\ GoesBackAt(g, size, i)
      BY <1>5, <1>6, <3>1, GoesBackIs
    <3>. QED  BY <2>2, <3>1, <3>2 DEF GoesBackAt
  <2>. QED  BY <2>1, <2>2, SameValues
<1>. QED  BY <1>7, <1>8 DEF g, c

\* The steps from `from` on, n of them, that are at the value `one`.
AtOne(size, one, k) == At(size, k).pos + 1 = one

Hits(size, one, from, n) ==
    Cardinality({k \in from .. from + n - 1 : AtOne(size, one, k)})

Hit(size, one, k) == IF AtOne(size, one, k) THEN 1 ELSE 0

LEMMA HitsFinite ==
    ASSUME NEW size, NEW one, NEW from \in Int, NEW n \in Nat
    PROVE  /\ IsFiniteSet({k \in from .. from + n - 1 : AtOne(size, one, k)})
           /\ Hits(size, one, from, n) \in Nat
<1>1. IsFiniteSet(from .. from + n - 1)
  BY FS_Interval
<1>2. {k \in from .. from + n - 1 : AtOne(size, one, k)} \subseteq from .. from + n - 1
  OBVIOUS
<1>. QED  BY <1>1, <1>2, FS_Subset, FS_CardinalityType DEF Hits

LEMMA HitsNone ==
    ASSUME NEW size, NEW one, NEW from \in Int
    PROVE  Hits(size, one, from, 0) = 0
<1>1. {k \in from .. from + 0 - 1 : AtOne(size, one, k)} = {}
  OBVIOUS
<1>. QED  BY <1>1, FS_EmptySet DEF Hits

\* One step more at the end.
LEMMA HitsMore ==
    ASSUME NEW size, NEW one, NEW from \in Int, NEW n \in Nat
    PROVE  Hits(size, one, from, n + 1) = Hits(size, one, from, n) + Hit(size, one, from + n)
<1>. DEFINE A == {k \in from .. from + n - 1 : AtOne(size, one, k)}
            B == {k \in from .. from + (n + 1) - 1 : AtOne(size, one, k)}
            last == from + n
<1>1. IsFiniteSet(A) /\ Cardinality(A) \in Nat
  BY HitsFinite, FS_CardinalityType
<1>2. last \notin A /\ last \in Int
  OBVIOUS
<1>3. B = IF AtOne(size, one, last) THEN A \cup {last} ELSE A
  <2>1. \A k \in Int : k \in from .. from + (n + 1) - 1 <=>
                          k \in from .. from + n - 1 \/ k = last
    OBVIOUS
  <2>. DEFINE I == from .. from + n - 1
              J == from .. from + (n + 1) - 1
  <2>2. I \subseteq Int /\ J \subseteq Int
    OBVIOUS
  <2>. HIDE DEF I, J, last
  <2>3. \A k \in Int : k \in J <=> k \in I \/ k = last
    BY <2>1 DEF I, J
  <2>4. A = {k \in I : AtOne(size, one, k)} /\ B = {k \in J : AtOne(size, one, k)}
    BY DEF I, J
  <2>. HIDE DEF A, B
  <2>. QED  BY <1>2, <2>2, <2>3, <2>4
<1>. HIDE DEF A, B
<1>4. CASE AtOne(size, one, last)
  <2>1. Cardinality(B) = Cardinality(A) + 1
    BY <1>1, <1>2, <1>3, <1>4, FS_AddElement
  <2>. QED  BY <1>4, <2>1 DEF Hits, Hit, A, B
<1>5. CASE ~AtOne(size, one, last)
  <2>1. Cardinality(B) = Cardinality(A) + 0
    BY <1>1, <1>3, <1>5
  <2>. QED  BY <1>5, <2>1 DEF Hits, Hit, A, B
<1>. QED  BY <1>4, <1>5

\* One step less at the begin.
LEMMA HitsLess ==
    ASSUME NEW size, NEW one, NEW from \in Int, NEW n \in Nat
    PROVE  Hits(size, one, from, n + 1) = Hit(size, one, from) + Hits(size, one, from + 1, n)
<1>. DEFINE A == {k \in from + 1 .. (from + 1) + n - 1 : AtOne(size, one, k)}
            B == {k \in from .. from + (n + 1) - 1 : AtOne(size, one, k)}
<1>1. IsFiniteSet(A) /\ Cardinality(A) \in Nat
  <2>1. from + 1 \in Int
    OBVIOUS
  <2>. QED  BY <2>1, HitsFinite, FS_CardinalityType
<1>2. from \notin A
  OBVIOUS
<1>3. B = IF AtOne(size, one, from) THEN A \cup {from} ELSE A
  <2>. DEFINE I == from + 1 .. (from + 1) + n - 1
              J == from .. from + (n + 1) - 1
  <2>1. \A k \in Int : k \in J <=> k \in I \/ k = from
    OBVIOUS
  <2>2. I \subseteq Int /\ J \subseteq Int
    OBVIOUS
  <2>. HIDE DEF I, J
  <2>3. A = {k \in I : AtOne(size, one, k)} /\ B = {k \in J : AtOne(size, one, k)}
    BY DEF I, J
  <2>. HIDE DEF A, B
  <2>. QED  BY <1>2, <2>1, <2>2, <2>3
<1>. HIDE DEF A, B
<1>4. CASE AtOne(size, one, from)
  <2>1. Cardinality(B) = Cardinality(A) + 1
    BY <1>1, <1>2, <1>3, <1>4, FS_AddElement
  <2>2. Cardinality(B) = 1 + Cardinality(A)
    BY <1>1, <2>1
  <2>. QED  BY <1>4, <2>2 DEF Hits, Hit, A, B
<1>5. CASE ~AtOne(size, one, from)
  <2>1. Cardinality(B) = 0 + Cardinality(A)
    BY <1>1, <1>3, <1>5
  <2>. QED  BY <1>5, <2>1 DEF Hits, Hit, A, B
<1>. QED  BY <1>4, <1>5

\* The data with a single one.
Single(size, one) == [i \in 1 .. size |-> IF i = one THEN 1 ELSE 0]

LEMMA SingleAt ==
    ASSUME NEW size \in Nat \ {0}, NEW one, NEW k \in Int
    PROVE  Single(size, one)[At(size, k).pos + 1] = Hit(size, one, k)
<1>. DEFINE p == At(size, k).pos
<1>1. p \in 0 .. size - 1
  BY AtOnData
<1>2. p + 1 \in 1 .. size
  BY <1>1
<1>. QED  BY <1>2 DEF Single, Hit, AtOne

\* What an iteration of the first loop makes of the sum and the iterator.
Fill(size, input, s) ==
    [sum |-> s.sum + input[s.it.pos + 1], it |-> MoveForward(size, s.it)]

Filled(f, size, input, w) ==
    f = [k \in 0 .. w |->
            IF k = 0 THEN [sum |-> 0, it |-> Back(size, w)] ELSE Fill(size, input, f[k - 1])]

FilledAt(f, size, input, w, k) ==
    f[k] = IF k = 0 THEN [sum |-> 0, it |-> Back(size, w)] ELSE Fill(size, input, f[k - 1])

LEMMA FilledIs ==
    ASSUME NEW f, NEW size, NEW input, NEW w, Filled(f, size, input, w), NEW i \in 0 .. w
    PROVE  FilledAt(f, size, input, w, i)
<1>. DEFINE e(k) == IF k = 0 THEN [sum |-> 0, it |-> Back(size, w)]
                             ELSE Fill(size, input, f[k - 1])
<1>1. f = [k \in 0 .. w |-> e(k)]
  BY DEF Filled
<1>2. f[i] = e(i)
  <2>. HIDE DEF e
  <2>. QED  BY <1>1
<1>. QED  BY <1>2 DEF FilledAt

\* The first window: the first loop has its sum and ends behind it.
FirstWindow(size, one, w, k) ==
    [sum |-> Hits(size, one, -(w \div 2), k), it |-> At(size, -(w \div 2) + k)]

LEMMA FillStep ==
    ASSUME NEW size \in Nat \ {0}, NEW one, NEW w \in Nat, NEW k \in Nat
    PROVE  FirstWindow(size, one, w, k + 1)
              = Fill(size, Single(size, one), FirstWindow(size, one, w, k))
<1>. DEFINE from == -(w \div 2)
            input == Single(size, one)
            s == FirstWindow(size, one, w, k)
<1>1. from \in Int /\ from + k \in Int /\ from + (k + 1) = (from + k) + 1
  OBVIOUS
<1>. HIDE DEF from
<1>2. s.sum = Hits(size, one, from, k) /\ s.it = At(size, from + k)
  BY DEF FirstWindow, from
<1>. HIDE DEF s
<1>3. Hits(size, one, from, k + 1) = s.sum + input[s.it.pos + 1]
  <2>1. input[s.it.pos + 1] = Hit(size, one, from + k)
    BY <1>1, <1>2, SingleAt
  <2>. HIDE DEF input
  <2>. QED  BY <1>1, <1>2, <2>1, HitsMore
<1>4. At(size, from + (k + 1)) = MoveForward(size, s.it)
  BY <1>1, <1>2, ForwardStep
<1>5. FirstWindow(size, one, w, k + 1)
        = [sum |-> Hits(size, one, from, k + 1), it |-> At(size, from + (k + 1))]
  BY DEF FirstWindow, from
<1>. HIDE DEF input
<1>. QED  BY <1>3, <1>4, <1>5 DEF Fill, s, input

LEMMA FillBegin ==
    ASSUME NEW size \in Nat \ {0}, NEW one, NEW w \in Nat
    PROVE  FirstWindow(size, one, w, 0) = [sum |-> 0, it |-> Back(size, w)]
<1>. DEFINE h == w \div 2
<1>1. h \in Nat /\ -h \in Int /\ -h + 0 = -h
  OBVIOUS
<1>. HIDE DEF h
<1>2. Back(size, w) = At(size, -h)
  BY <1>1, StepsBackIs DEF Back, h
<1>3. Hits(size, one, -h, 0) = 0
  BY <1>1, HitsNone
<1>. QED  BY <1>1, <1>2, <1>3 DEF FirstWindow, h

LEMMA FilledExists ==
    ASSUME NEW size \in Nat \ {0}, NEW one, NEW w \in Nat
    PROVE  \E f : Filled(f, size, Single(size, one), w)
<1>. DEFINE input == Single(size, one)
            c(k) == FirstWindow(size, one, w, k)
            g == [k \in 0 .. w |-> c(k)]
            e(k) == IF k = 0 THEN [sum |-> 0, it |-> Back(size, w)]
                             ELSE Fill(size, input, g[k - 1])
<1>1. c(0) = [sum |-> 0, it |-> Back(size, w)]
  BY FillBegin
<1>2. ASSUME NEW k \in 1 .. w PROVE c(k) = Fill(size, input, c(k - 1))
  <2>1. k - 1 \in Nat /\ (k - 1) + 1 = k
    OBVIOUS
  <2>. HIDE DEF input
  <2>. QED  BY <2>1, FillStep DEF input
<1>. HIDE DEF c, input
<1>3. ASSUME NEW k \in 0 .. w PROVE c(k) = e(k)
  <2>1. k # 0 => k \in 1 .. w /\ k - 1 \in 0 .. w
    OBVIOUS
  <2>. QED  BY <1>1, <1>2, <2>1
<1>4. g = [k \in 0 .. w |-> e(k)]
  <2>1. g = [k \in 0 .. w |-> c(k)]
    OBVIOUS
  <2>. HIDE DEF g, e
  <2>. QED  BY <1>3, <2>1
<1>5. Filled(g, size, input, w)
  <2>. HIDE DEF g
  <2>. QED  BY <1>4 DEF Filled
<1>. HIDE DEF g
<1>. QED  BY <1>5 DEF input

LEMMA FilledValue ==
    ASSUME NEW size \in Nat \ {0}, NEW one, NEW w \in Nat, NEW f,
           Filled(f, size, Single(size, one), w)
    PROVE  f[w] = FirstWindow(size, one, w, w)
<1>. DEFINE input == Single(size, one)
            c(k) == FirstWindow(size, one, w, k)
            g == [k \in 0 .. w |-> c(k)]
<1>. HIDE DEF input
<1>1. f[0] = g[0]
  <2>1. 0 \in 0 .. w
    OBVIOUS
  <2>2. FilledAt(f, size, input, w, 0)
    BY <2>1, FilledIs DEF input
  <2>. QED  BY <2>1, <2>2, FillBegin DEF FilledAt
<1>2. ASSUME NEW k \in 1 .. w, f[k - 1] = g[k - 1] PROVE f[k] = g[k]
  <2>1. k \in 0 .. w /\ k - 1 \in 0 .. w /\ k - 1 \in Nat /\ (k - 1) + 1 = k /\ k # 0
    OBVIOUS
  <2>2. FilledAt(f, size, input, w, k)
    BY <2>1, FilledIs DEF input
  <2>3. f[k] = Fill(size, input, f[k - 1])
    BY <2>1, <2>2 DEF FilledAt
  <2>4. c(k) = Fill(size, input, c(k - 1))
    BY <2>1, FillStep DEF input
  <2>. HIDE DEF c
  <2>. QED  BY <1>2, <2>1, <2>3, <2>4
<1>3. w \in 0 .. w
  OBVIOUS
<1>4. g[w] = c(w)
  BY <1>3
<1>. HIDE DEF g
<1>. QED  BY <1>1, <1>2, <1>3, <1>4, SameValues

\* The next output value: what an iteration of the other loops does.
Moves(size, w, i, it) == IF Plain(size, w, i) THEN Moved(it, 1) ELSE MoveForward(size, it)

Slide(size, input, w, i, s) ==
    [ out |-> Append(s.out, s.sum),
      sum |-> s.sum + input[s.it2.pos + 1] - input[s.it1.pos + 1],
      it1 |-> Moves(size, w, i, s.it1),
      it2 |-> Moves(size, w, i, s.it2) ]

SlideFrom(size, w, first) ==
    [out |-> <<>>, sum |-> first.sum, it1 |-> Back(size, w), it2 |-> first.it]

Slid(f, size, input, w, first) ==
    f = [i \in 0 .. size |->
            IF i = 0 THEN SlideFrom(size, w, first) ELSE Slide(size, input, w, i - 1, f[i - 1])]

SlidAt(f, size, input, w, first, i) ==
    f[i] = IF i = 0 THEN SlideFrom(size, w, first) ELSE Slide(size, input, w, i - 1, f[i - 1])

LEMMA SlidIs ==
    ASSUME NEW f, NEW size, NEW input, NEW w, NEW first, Slid(f, size, input, w, first),
           NEW i \in 0 .. size
    PROVE  SlidAt(f, size, input, w, first, i)
<1>. DEFINE e(k) == IF k = 0 THEN SlideFrom(size, w, first)
                             ELSE Slide(size, input, w, k - 1, f[k - 1])
<1>1. f = [k \in 0 .. size |-> e(k)]
  BY DEF Slid
<1>2. f[i] = e(i)
  <2>. HIDE DEF e
  <2>. QED  BY <1>1
<1>. QED  BY <1>2 DEF SlidAt

\* After i output values: the sum of window i, and its ends.
Window(size, one, w, i) == Hits(size, one, i - (w \div 2), w)

AfterTurns(size, one, w, i) ==
    [ out |-> [j \in 1 .. i |-> Window(size, one, w, j - 1)],
      sum |-> Window(size, one, w, i),
      it1 |-> At(size, i - (w \div 2)),
      it2 |-> At(size, (i - (w \div 2)) + w) ]

LEMMA SlideBegin ==
    ASSUME NEW size \in Nat \ {0}, NEW one, NEW w \in Nat
    PROVE  AfterTurns(size, one, w, 0) = SlideFrom(size, w, FirstWindow(size, one, w, w))
<1>. DEFINE h == w \div 2
<1>1. h \in Nat /\ -h \in Int /\ 0 - h = -h
  OBVIOUS
<1>. HIDE DEF h
<1>2. Back(size, w) = At(size, -h)
  BY <1>1, StepsBackIs DEF Back, h
<1>3. [j \in 1 .. 0 |-> Window(size, one, w, j - 1)] = <<>>
  OBVIOUS
<1>. QED  BY <1>1, <1>2, <1>3 DEF AfterTurns, SlideFrom, FirstWindow, Window, h

LEMMA MovesOn ==
    ASSUME NEW size \in Nat \ {0}, NEW w \in Nat \ {0}, NEW i \in 0 .. size - 1,
           NEW k \in {i - (w \div 2), (i - (w \div 2)) + w}
    PROVE  Moves(size, w, i, At(size, k)) = At(size, k + 1)
<1>1. k \in Int
  OBVIOUS
<1>2. MoveForward(size, At(size, k)) = At(size, k + 1)
  BY <1>1, ForwardStep
<1>3. Plain(size, w, i) => MoveForward(size, At(size, k)) = Moved(At(size, k), 1)
  <2>1. k \in {i - (w \div 2), i - (w \div 2) + w}
    OBVIOUS
  <2>. QED  BY <2>1, PlainTurnsAreSafe
<1>. QED  BY <1>2, <1>3 DEF Moves

LEMMA SlideStep ==
    ASSUME NEW size \in Nat \ {0}, NEW one, NEW w \in Nat \ {0}, NEW i \in 0 .. size - 1
    PROVE  AfterTurns(size, one, w, i + 1)
              = Slide(size, Single(size, one), w, i, AfterTurns(size, one, w, i))
<1>. DEFINE from == i - (w \div 2)
            input == Single(size, one)
            s == AfterTurns(size, one, w, i)
            F(j) == Window(size, one, w, j - 1)
<1>1. /\ from \in Int /\ from + w \in Int /\ (i + 1) - (w \div 2) = from + 1
      /\ (from + 1) + w = (from + w) + 1 /\ i \in Nat /\ w \in Nat
  OBVIOUS
<1>2. /\ s.out = [j \in 1 .. i |-> F(j)] /\ s.sum = Window(size, one, w, i)
      /\ s.it1 = At(size, from) /\ s.it2 = At(size, from + w)
  BY DEF AfterTurns
<1>3. Window(size, one, w, i) = Hits(size, one, from, w)
      /\ Window(size, one, w, i + 1) = Hits(size, one, from + 1, w)
  BY <1>1 DEF Window
<1>4. Moves(size, w, i, At(size, from)) = At(size, from + 1)
      /\ Moves(size, w, i, At(size, from + w)) = At(size, (from + w) + 1)
  BY MovesOn
<1>. HIDE DEF from, s
<1>5. Window(size, one, w, i + 1) = s.sum + input[s.it2.pos + 1] - input[s.it1.pos + 1]
  <2>1. input[s.it2.pos + 1] = Hit(size, one, from + w)
        /\ input[s.it1.pos + 1] = Hit(size, one, from)
    BY <1>1, <1>2, SingleAt
  <2>. HIDE DEF input
  <2>2. Hits(size, one, from, w + 1) = Hits(size, one, from, w) + Hit(size, one, from + w)
    BY <1>1, HitsMore
  <2>3. Hits(size, one, from, w + 1) = Hit(size, one, from) + Hits(size, one, from + 1, w)
    BY <1>1, HitsLess
  <2>4. /\ Hits(size, one, from, w) \in Nat /\ Hits(size, one, from + 1, w) \in Nat
        /\ Hit(size, one, from) \in Nat /\ Hit(size, one, from + w) \in Nat
    <3>1. from + 1 \in Int
      BY <1>1
    <3>. QED  BY <1>1, <3>1, HitsFinite DEF Hit
  <2>. DEFINE A == Hits(size, one, from, w)
              B == Hits(size, one, from + 1, w)
              x == Hit(size, one, from)
              y == Hit(size, one, from + w)
  <2>5. A \in Nat /\ B \in Nat /\ x \in Nat /\ y \in Nat /\ A + y = x + B
    BY <2>2, <2>3, <2>4
  <2>6. Window(size, one, w, i + 1) = B /\ s.sum = A
    BY <1>2, <1>3
  <2>7. input[s.it2.pos + 1] = y /\ input[s.it1.pos + 1] = x
    BY <2>1
  <2>. HIDE DEF A, B, x, y
  <2>8. B = A + y - x
    BY <2>5
  <2>. QED  BY <2>6, <2>7, <2>8
<1>6. [j \in 1 .. i + 1 |-> F(j)] = Append(s.out, s.sum)
  <2>1. F(i + 1) = Window(size, one, w, i)
    BY <1>1
  <2>. HIDE DEF F
  <2>2. Append([j \in 1 .. i |-> F(j)], F(i + 1)) = [j \in 1 .. i + 1 |-> F(j)]
    BY <1>1
  <2>. QED  BY <1>2, <2>1, <2>2
<1>7. At(size, from + 1) = Moves(size, w, i, s.it1)
      /\ At(size, (from + 1) + w) = Moves(size, w, i, s.it2)
  BY <1>1, <1>2, <1>4
<1>8. AfterTurns(size, one, w, i + 1) =
         [ out |-> [j \in 1 .. i + 1 |-> F(j)],
           sum |-> Window(size, one, w, i + 1),
           it1 |-> At(size, from + 1),
           it2 |-> At(size, (from + 1) + w) ]
  BY <1>1 DEF AfterTurns
<1>. HIDE DEF input, F
<1>. QED  BY <1>5, <1>6, <1>7, <1>8 DEF Slide, s, input

LEMMA SlidExists ==
    ASSUME NEW size \in Nat \ {0}, NEW one, NEW w \in Nat \ {0}, NEW first,
           first = FirstWindow(size, one, w, w)
    PROVE  \E f : Slid(f, size, Single(size, one), w, first)
<1>. DEFINE input == Single(size, one)
            c(i) == AfterTurns(size, one, w, i)
            g == [i \in 0 .. size |-> c(i)]
            e(i) == IF i = 0 THEN SlideFrom(size, w, first)
                             ELSE Slide(size, input, w, i - 1, g[i - 1])
<1>1. c(0) = SlideFrom(size, w, first)
  BY SlideBegin
<1>2. ASSUME NEW i \in 1 .. size PROVE c(i) = Slide(size, input, w, i - 1, c(i - 1))
  <2>1. i - 1 \in 0 .. size - 1 /\ (i - 1) + 1 = i
    OBVIOUS
  <2>. HIDE DEF input
  <2>. QED  BY <2>1, SlideStep DEF input
<1>. HIDE DEF c, input
<1>3. ASSUME NEW i \in 0 .. size PROVE c(i) = e(i)
  <2>1. i # 0 => i \in 1 .. size /\ i - 1 \in 0 .. size
    OBVIOUS
  <2>. QED  BY <1>1, <1>2, <2>1
<1>4. g = [i \in 0 .. size |-> e(i)]
  <2>1. g = [i \in 0 .. size |-> c(i)]
    OBVIOUS
  <2>. HIDE DEF g, e
  <2>. QED  BY <1>3, <2>1
<1>5. Slid(g, size, input, w, first)
  <2>. HIDE DEF g
  <2>. QED  BY <1>4 DEF Slid
<1>. HIDE DEF g
<1>. QED  BY <1>5 DEF input

LEMMA SlidValue ==
    ASSUME NEW size \in Nat \ {0}, NEW one, NEW w \in Nat \ {0}, NEW first,
           first = FirstWindow(size, one, w, w), NEW f,
           Slid(f, size, Single(size, one), w, first)
    PROVE  f[size] = AfterTurns(size, one, w, size)
<1>. DEFINE input == Single(size, one)
            c(k) == AfterTurns(size, one, w, k)
            g == [k \in 0 .. size |-> c(k)]
<1>. HIDE DEF input
<1>1. f[0] = g[0]
  <2>1. 0 \in 0 .. size
    OBVIOUS
  <2>2. SlidAt(f, size, input, w, first, 0)
    BY <2>1, SlidIs DEF input
  <2>3. c(0) = SlideFrom(size, w, first)
    BY SlideBegin
  <2>. HIDE DEF c
  <2>. QED  BY <2>1, <2>2, <2>3 DEF SlidAt
<1>2. ASSUME NEW k \in 1 .. size, f[k - 1] = g[k - 1] PROVE f[k] = g[k]
  <2>1. k \in 0 .. size /\ k - 1 \in 0 .. size - 1 /\ k - 1 \in 0 .. size
        /\ (k - 1) + 1 = k /\ k # 0
    OBVIOUS
  <2>2. SlidAt(f, size, input, w, first, k)
    BY <2>1, SlidIs DEF input
  <2>3. f[k] = Slide(size, input, w, k - 1, f[k - 1])
    BY <2>1, <2>2 DEF SlidAt
  <2>4. c(k) = Slide(size, input, w, k - 1, c(k - 1))
    BY <2>1, SlideStep DEF input
  <2>. HIDE DEF c
  <2>. QED  BY <1>2, <2>1, <2>3, <2>4
<1>3. size \in 0 .. size
  OBVIOUS
<1>4. g[size] = c(size)
  BY <1>3
<1>. HIDE DEF g
<1>. QED  BY <1>1, <1>2, <1>3, <1>4, SameValues

\* BoxFilter runs the two loops.
LEMMA BoxFilterIs ==
    ASSUME NEW input, NEW w, w # 0, Len(input) # 0
    PROVE  LET first == CHOOSE f : Filled(f, Len(input), input, w)
               turn  == CHOOSE f : Slid(f, Len(input), input, w, first[w])
           IN BoxFilter(input, w) = turn[Len(input)].out
BY Zenon DEF BoxFilter, Filled, Slid, Fill, Slide, SlideFrom, Moves

\* What BoxFilter makes of a single one at any place is how often each window
\* is at it, the data continued by its mirror image at both ends, as often as
\* it takes: one value is added and one subtracted per turn, with iterators
\* that turn at the ends, and in the middle loop without turns, and nothing
\* is lost or counted twice, for data of every size and windows of every
\* width (gaussian_filter.h, BoxFilter).
THEOREM BoxSumsAreReflected ==
    \A size \in Nat \ {0}, w \in Nat : SumsReflected(size, w)
<1>. SUFFICES ASSUME NEW size \in Nat \ {0}, NEW w \in Nat, NEW one \in 1 .. size
              PROVE  BoxFilter(Single(size, one), w) =
                        [i \in 1 .. size |-> Window(size, one, w, i - 1)]
  BY DEF SumsReflected, Single, Window, Hits, AtOne
<1>. DEFINE input == Single(size, one)
<1>1. input \in [1 .. size -> Nat] /\ Len(input) = size
  BY DEF Single
<1>. HIDE DEF input
<1>2. CASE w = 0
  <2>1. BoxFilter(input, w) = [i \in 1 .. size |-> 0]
    BY <1>1, <1>2 DEF BoxFilter
  <2>2. ASSUME NEW i \in 1 .. size PROVE Window(size, one, w, i - 1) = 0
    <3>1. (i - 1) - (w \div 2) \in Int
      OBVIOUS
    <3>. QED  BY <1>2, <3>1, HitsNone DEF Window
  <2>. QED  BY <2>1, <2>2 DEF input
<1>3. CASE w # 0
  <2>. DEFINE first == CHOOSE f : Filled(f, size, input, w)
              turn  == CHOOSE f : Slid(f, size, input, w, first[w])
  <2>0. Len(input) # 0
    BY <1>1
  <2>1. BoxFilter(input, w) = turn[size].out
    BY <1>1, <1>3, <2>0, BoxFilterIs
  <2>2. Filled(first, size, input, w)
    BY FilledExists DEF input
  <2>. HIDE DEF first
  <2>3. first[w] = FirstWindow(size, one, w, w)
    BY <2>2, FilledValue DEF input
  <2>4. w \in Nat \ {0}
    BY <1>3
  <2>5. Slid(turn, size, input, w, first[w])
    BY <2>3, <2>4, SlidExists DEF input
  <2>. HIDE DEF turn
  <2>6. turn[size] = AfterTurns(size, one, w, size)
    BY <2>3, <2>4, <2>5, SlidValue DEF input
  <2>7. turn[size].out = [i \in 1 .. size |-> Window(size, one, w, i - 1)]
    BY <2>6 DEF AfterTurns
  <2>. QED  BY <2>1, <2>7 DEF input
<1>. QED  BY <1>2, <1>3

-----------------------------------------------------------------------------
(* The widths of the passes.                                               *)

Summed(f, widths) ==
    f = [i \in 0 .. Len(widths) |->
            IF i = 0 THEN 0 ELSE f[i - 1] + widths[i] * widths[i] - 1]

SumAt(f, widths, i) == f[i] = IF i = 0 THEN 0 ELSE f[i - 1] + widths[i] * widths[i] - 1

LEMMA SummedAt ==
    ASSUME NEW f, NEW widths, Summed(f, widths), NEW i \in 0 .. Len(widths)
    PROVE  SumAt(f, widths, i)
<1>. DEFINE e(j) == IF j = 0 THEN 0 ELSE f[j - 1] + widths[j] * widths[j] - 1
            n == Len(widths)
<1>1. f = [j \in 0 .. n |-> e(j)]
  BY DEF Summed
<1>2. f[i] = e(i)
  <2>. HIDE DEF e, n
  <2>1. i \in 0 .. n
    BY DEF n
  <2>. QED  BY <1>1, <2>1
<1>. QED  BY <1>2 DEF SumAt

\* m passes of one width, then n - m of another.
TwoWidths(n, m, wl) == [i \in 1 .. n |-> IF i <= m THEN wl ELSE wl + 2]

\* The sum of the first i, where a narrow pass adds a and a wide one c.
SumOfTwo(m, a, c, i) == IF i <= m THEN i * a ELSE m * a + (i - m) * c

LEMMA SumOfTwoStep ==
    ASSUME NEW m \in Nat, NEW a \in Int, NEW c \in Int, NEW i \in Nat
    PROVE  /\ SumOfTwo(m, a, c, i) \in Int
           /\ SumOfTwo(m, a, c, i + 1)
                = SumOfTwo(m, a, c, i) + (IF i + 1 <= m THEN a ELSE c)
<1>1. (i + 1) * a = i * a + a /\ i * a \in Int /\ m * a \in Int
  OBVIOUS
<1>2. CASE i + 1 <= m
  BY <1>1, <1>2 DEF SumOfTwo
<1>3. CASE ~(i + 1 <= m)
  <2>1. PICK d \in Nat : i = m + d
    BY <1>3
  <2>2. (d + 1) * c = d * c + c /\ d * c \in Int /\ i - m = d /\ (i + 1) - m = d + 1
    BY <2>1
  <2>3. SumOfTwo(m, a, c, i + 1) = m * a + (d + 1) * c
    BY <1>3, <2>2 DEF SumOfTwo
  <2>4. SumOfTwo(m, a, c, i) = m * a + d * c
    <3>1. CASE i <= m
      <4>1. d = 0 /\ i = m
        BY <2>1, <3>1
      <4>2. d * c = 0
        BY <4>1
      <4>. QED  BY <1>1, <3>1, <4>1, <4>2 DEF SumOfTwo
    <3>2. CASE ~(i <= m)
      BY <2>2, <3>2 DEF SumOfTwo
    <3>. QED  BY <3>1, <3>2
  <2>. QED  BY <1>1, <1>3, <2>2, <2>3, <2>4
<1>. QED  BY <1>2, <1>3

LEMMA VarianceIs ==
    ASSUME NEW n \in Nat, NEW m \in 0 .. n, NEW wl \in Nat
    PROVE  VarianceOf(TwoWidths(n, m, wl))
              = SumOfTwo(m, wl * wl - 1, (wl + 2) * (wl + 2) - 1, n)
<1>. DEFINE widths == TwoWidths(n, m, wl)
            a == wl * wl - 1
            c == (wl + 2) * (wl + 2) - 1
            C(i) == SumOfTwo(m, a, c, i)
            g == [i \in 0 .. n |-> C(i)]
            e(i) == IF i = 0 THEN 0 ELSE g[i - 1] + widths[i] * widths[i] - 1
<1>1. Len(widths) = n /\ \A i \in 1 .. n : widths[i] = IF i <= m THEN wl ELSE wl + 2
  BY DEF TwoWidths
<1>. HIDE DEF widths
<1>2. a \in Int /\ c \in Int /\ m \in Nat
  OBVIOUS
<1>3. C(0) = 0
  BY DEF SumOfTwo
<1>4. ASSUME NEW i \in 1 .. n PROVE C(i) = C(i - 1) + widths[i] * widths[i] - 1
  <2>. DEFINE d == IF i <= m THEN a ELSE c
              u == C(i - 1)
              v == widths[i] * widths[i]
  <2>1. i - 1 \in Nat /\ (i - 1) + 1 = i
    OBVIOUS
  <2>2. u \in Int /\ C(i) = u + d
    <3>. DEFINE j == i - 1
    <3>1. j \in Nat /\ j + 1 = i
      BY <2>1
    <3>. HIDE DEF a, c, j
    <3>2. /\ SumOfTwo(m, a, c, j) \in Int
          /\ SumOfTwo(m, a, c, j + 1) = SumOfTwo(m, a, c, j) + (IF j + 1 <= m THEN a ELSE c)
      BY ZenonT(60), <1>2, <3>1, SumOfTwoStep
    <3>. QED  BY <3>1, <3>2, Zenon DEF j
  <2>3. v \in Int /\ d = v - 1
    BY <1>1
  <2>. HIDE DEF u, v, d, C
  <2>4. C(i) = u + v - 1
    BY <2>2, <2>3
  <2>. QED  BY <2>4 DEF u, v
<1>. HIDE DEF C
<1>5. ASSUME NEW i \in 0 .. n PROVE C(i) = e(i)
  <2>1. i # 0 => i \in 1 .. n /\ i - 1 \in 0 .. n
    OBVIOUS
  <2>2. i # 0 => g[i - 1] = C(i - 1)
    BY <2>1
  <2>. HIDE DEF g
  <2>. QED  BY <1>3, <1>4, <2>1, <2>2
<1>6. g = [i \in 0 .. n |-> e(i)]
  <2>1. g = [i \in 0 .. n |-> C(i)]
    OBVIOUS
  <2>. HIDE DEF g, e
  <2>. QED  BY <1>5, <2>1
<1>7. Summed(g, widths)
  <2>. HIDE DEF g
  <2>. QED  BY <1>1, <1>6 DEF Summed
<1>. DEFINE f == CHOOSE h : Summed(h, widths)
<1>8. Summed(f, widths)
  <2>. HIDE DEF g
  <2>. QED  BY <1>7
<1>9. VarianceOf(widths) = f[n]
  <2>1. VarianceOf(widths) = f[Len(widths)]
    BY DEF VarianceOf, Summed
  <2>. HIDE DEF f
  <2>. QED  BY <1>1, <2>1
<1>. HIDE DEF f, g
<1>10. f[0] = g[0]
  <2>1. 0 \in 0 .. Len(widths)
    BY <1>1
  <2>. QED  BY <1>7, <1>8, <2>1, SummedAt DEF SumAt
<1>11. ASSUME NEW i \in 1 .. n, f[i - 1] = g[i - 1] PROVE f[i] = g[i]
  <2>1. i \in 0 .. Len(widths) /\ i # 0
    BY <1>1
  <2>2. SumAt(f, widths, i) /\ SumAt(g, widths, i)
    BY <1>7, <1>8, <2>1, SummedAt
  <2>. QED  BY <1>11, <2>1, <2>2 DEF SumAt
<1>12. n \in 0 .. n /\ f[n] = g[n]
  BY <1>10, <1>11, SameValues
<1>13. g[n] = C(n)
  BY <1>12 DEF g
<1>. QED  BY <1>9, <1>12, <1>13 DEF widths, C

\* The least width of a pass whose n passes are too wide is one more than
\* the greatest that is not: Width has a value.
LEMMA WidthIs ==
    ASSUME NEW variance \in Nat \ {0}, NEW n \in Nat \ {0}
    PROVE  LET w == Width(variance, n)
               N == 12 * variance + n
           IN /\ w \in Nat \ {0}
              /\ n * w * w <= N /\ n * (w + 1) * (w + 1) > N
<1>. DEFINE N == 12 * variance + n
            Is(w) == n * w * w <= N /\ n * (w + 1) * (w + 1) > N
<1>1. N \in Nat \ {0} /\ n <= N
  OBVIOUS
<1>2. \E w \in 1 .. N : Is(w)
  <2>. SUFFICES ASSUME \A w \in 1 .. N : ~Is(w) PROVE FALSE
    OBVIOUS
  <2>. DEFINE T == {k \in Nat : n * (k + 1) * (k + 1) <= N}
  <2>1. 0 \in T
    BY <1>1
  <2>2. ASSUME NEW k \in T PROVE k + 1 \in T
    <3>. DEFINE w == k + 1
    <3>1. w \in Nat \ {0} /\ n * w * w <= N
      OBVIOUS
    <3>. HIDE DEF w, N
    <3>2. w <= n * w * w
      <4>1. n * w >= 1
        BY <3>1
      <4>2. (n * w) * w >= w
        BY <3>1, <4>1
      <4>. QED  BY <4>2
    <3>3. w \in 1 .. N
      BY <1>1, <3>1, <3>2
    <3>4. ~(n * (w + 1) * (w + 1) > N)
      BY <3>1, <3>3
    <3>5. n * (w + 1) * (w + 1) <= N
      BY <1>1, <3>1, <3>4
    <3>. QED  BY <3>5 DEF w
  <2>3. T \in SUBSET Nat
    OBVIOUS
  <2>4. N \in T
    <3>. HIDE DEF T
    <3>. QED  BY <1>1, <2>1, <2>2, <2>3, NatInduct
  <2>5. n * (N + 1) * (N + 1) <= N
    BY <2>4
  <2>6. n * (N + 1) * (N + 1) > N
    <3>. DEFINE k == N + 1
    <3>1. k \in Nat /\ k > N /\ k > 0
      BY <1>1
    <3>. HIDE DEF k, N
    <3>2. n * k >= 1
      BY <3>1
    <3>3. (n * k) * k >= k
      BY <3>1, <3>2
    <3>4. n * k * k > N
      BY <1>1, <3>1, <3>3
    <3>. QED  BY <3>4 DEF k
  <2>. QED  BY <1>1, <2>5, <2>6
<1>3. Width(variance, n) = CHOOSE w \in 1 .. N : Is(w)
  BY DEF Width
<1>. HIDE DEF Is
<1>4. Width(variance, n) \in 1 .. N /\ Is(Width(variance, n))
  BY <1>2, <1>3
<1>. QED  BY <1>1, <1>4 DEF Is

\* The narrow width is odd, and the wide one, two more, is more than w.
LEMMA NarrowWidthIs ==
    ASSUME NEW variance \in Nat \ {0}, NEW n \in Nat \ {0}
    PROVE  LET wl == NarrowWidth(variance, n)
               N == 12 * variance + n
           IN /\ wl \in Nat \ {0} /\ wl % 2 = 1
              /\ n * (wl * wl) <= N /\ n * ((wl + 2) * (wl + 2)) > N
<1>. DEFINE w == Width(variance, n)
            wl == NarrowWidth(variance, n)
            N == 12 * variance + n
<1>1. w \in Nat \ {0} /\ n * w * w <= N /\ n * (w + 1) * (w + 1) > N
  BY WidthIs
<1>2. wl = IF w % 2 = 0 THEN w - 1 ELSE w
  BY DEF NarrowWidth
<1>. HIDE DEF w, wl
<1>3. wl \in Nat \ {0} /\ wl % 2 = 1 /\ wl <= w /\ w + 1 <= wl + 2
  BY <1>1, <1>2
<1>4. N \in Nat
  OBVIOUS
<1>. HIDE DEF N
<1>5. \A a, b \in Nat : a <= b => a * a <= b * b /\ n * (a * a) <= n * (b * b)
  <2>. SUFFICES ASSUME NEW a \in Nat, NEW b \in Nat, a <= b
                PROVE  a * a <= b * b /\ n * (a * a) <= n * (b * b)
    OBVIOUS
  <2>1. PICK d \in Nat : b = a + d
    <3>1. b - a \in Nat /\ b = a + (b - a)
      OBVIOUS
    <3>. QED  BY <3>1
  <2>2. b * b = a * a + (2 * a * d + d * d) /\ 2 * a * d + d * d \in Nat
    BY <2>1
  <2>. DEFINE p == a * a
              e == 2 * a * d + d * d
  <2>3. p \in Nat /\ e \in Nat /\ b * b = p + e
    BY <2>2
  <2>. HIDE DEF p, e
  <2>4. n * (p + e) = n * p + n * e /\ n * e \in Nat /\ n * p \in Nat
    BY <2>3
  <2>5. p <= b * b /\ n * p <= n * (b * b)
    BY <2>3, <2>4
  <2>. QED  BY <2>5 DEF p
<1>6. n * (wl * wl) <= n * (w * w)
  BY <1>1, <1>3, <1>5
<1>7. n * ((w + 1) * (w + 1)) <= n * ((wl + 2) * (wl + 2))
  <2>1. w + 1 \in Nat /\ wl + 2 \in Nat
    BY <1>1, <1>3
  <2>. QED  BY <1>3, <1>5, <2>1
<1>8. n * (w * w) <= N /\ n * ((w + 1) * (w + 1)) > N
  BY <1>1
<1>9. n * (wl * wl) <= N /\ n * ((wl + 2) * (wl + 2)) > N
  <2>. DEFINE p == n * (wl * wl)
              q == n * ((wl + 2) * (wl + 2))
              r == n * (w * w)
              t == n * ((w + 1) * (w + 1))
  <2>1. p \in Int /\ q \in Int /\ r \in Int /\ t \in Int
    BY <1>1, <1>3
  <2>2. p <= r /\ t <= q /\ r <= N /\ t > N
    BY <1>6, <1>7, <1>8
  <2>. HIDE DEF p, q, r, t
  <2>3. p <= N /\ q > N
    BY <1>4, <2>1, <2>2
  <2>. QED  BY <2>3 DEF p, q
<1>. QED  BY <1>3, <1>9 DEF wl, N

\* Rounding is to the nearest multiple.
LEMMA RoundIsNearest ==
    ASSUME NEW x \in Nat, NEW d \in Nat \ {0}, NEW n \in Nat, x <= n * d
    PROVE  /\ Round(x, d) \in 0 .. n
           /\ \A m \in 0 .. n :
                 Absolute(x - Round(x, d) * d) <= Absolute(x - m * d)
<1>. DEFINE p == Round(x, d)
            y == 2 * x + d
            z == 2 * d
<1>1. y \in Nat /\ z \in Nat \ {0}
  OBVIOUS
<1>2. p = y \div z
  BY DEF Round
<1>3. p \in Int /\ y = z * p + (y % z) /\ y % z \in 0 .. z - 1
  <2>. HIDE DEF y, z
  <2>. QED  BY <1>1, <1>2
<1>. HIDE DEF p
<1>4. z * p = 2 * (p * d)
  BY <1>3
<1>5. p * d \in Int /\ 2 * (p * d) <= 2 * x + d /\ 2 * x + d < 2 * (p * d) + 2 * d
  <2>. DEFINE e == p * d
              r == y % z
  <2>1. e \in Int /\ r \in 0 .. z - 1 /\ y = 2 * e + r
    BY <1>3, <1>4
  <2>. HIDE DEF e, r
  <2>2. e \in Int /\ 2 * e <= 2 * x + d /\ 2 * x + d < 2 * e + 2 * d
    BY <2>1
  <2>. QED  BY <2>2 DEF e
<1>6. p >= 0
  <2>. SUFFICES ASSUME p <= -1 PROVE FALSE
    BY <1>3
  <2>1. p * d <= (-1) * d
    BY <1>3
  <2>. DEFINE e == p * d
  <2>2. e \in Int /\ 2 * x + d < 2 * e + 2 * d /\ e <= -d
    BY <1>5, <2>1
  <2>. HIDE DEF e
  <2>. QED  BY <2>2
<1>7. p <= n
  <2>. SUFFICES ASSUME p >= n + 1 PROVE FALSE
    BY <1>3
  <2>1. (n + 1) * d <= p * d
    BY <1>3
  <2>2. (n + 1) * d = n * d + d
    OBVIOUS
  <2>. DEFINE e == p * d
              f == n * d
  <2>3. e \in Int /\ f \in Int /\ 2 * e <= 2 * x + d /\ f + d <= e /\ x <= f
    BY <1>5, <2>1, <2>2
  <2>. HIDE DEF e, f
  <2>. QED  BY <2>3
<1>8. ASSUME NEW m \in 0 .. n PROVE Absolute(x - p * d) <= Absolute(x - m * d)
  <2>. DEFINE e == p * d
              f == m * d
  <2>1. e \in Int /\ f \in Int /\ 2 * e <= 2 * x + d /\ 2 * x < 2 * e + d
    <3>. HIDE DEF e
    <3>1. e \in Int /\ 2 * e <= 2 * x + d /\ 2 * x + d < 2 * e + 2 * d
      BY <1>5 DEF e
    <3>. QED  BY <3>1
  <2>2. m = p => e = f
    OBVIOUS
  <2>3. m >= p + 1 => f >= e + d
    <3>1. m >= p + 1 => m * d >= (p + 1) * d /\ (p + 1) * d = p * d + d
      BY <1>3
    <3>. QED  BY <3>1
  <2>4. m <= p - 1 => f <= e - d
    <3>1. m <= p - 1 => m * d <= (p - 1) * d /\ (p - 1) * d = p * d - d
      BY <1>3
    <3>. QED  BY <3>1
  <2>5. m = p \/ m >= p + 1 \/ m <= p - 1
    BY <1>3
  <2>. HIDE DEF e, f
  <2>6. Absolute(x - e) <= Absolute(x - f)
    BY <2>1, <2>2, <2>3, <2>4, <2>5 DEF Absolute
  <2>. QED  BY <2>6 DEF e, f
<1>. QED  BY <1>3, <1>6, <1>7, <1>8 DEF p

\* The widths of the passes that the filter takes for the best: of all ways
\* to divide n passes between the narrow and the wide width none comes nearer
\* to the variance, for every variance and number of passes
\* (gaussian_filter.h, GaussianFilter).
THEOREM WidthsAreNearest ==
    \A variance \in Nat \ {0}, n \in Nat \ {0} : NearestVariance(variance, n)
<1>. SUFFICES ASSUME NEW variance \in Nat \ {0}, NEW n \in Nat \ {0}
              PROVE  NearestVariance(variance, n)
  OBVIOUS
<1>. DEFINE wl == NarrowWidth(variance, n)
            p == NarrowPasses(variance, n)
            v == 12 * variance
            a == wl * wl - 1
            c == (wl + 2) * (wl + 2) - 1
            d == 4 * wl + 4
            x == n * wl * wl + 4 * n * wl + 3 * n - 12 * variance
            Off(widths) == IF VarianceOf(widths) >= 12 * variance
                             THEN VarianceOf(widths) - 12 * variance
                             ELSE 12 * variance - VarianceOf(widths)
<1>1. wl \in Nat \ {0} /\ n * (wl * wl) <= v + n /\ n * ((wl + 2) * (wl + 2)) > v + n
  BY NarrowWidthIs
<1>2. p = Round(x, d)
  BY DEF NarrowPasses
<1>3. Widths(variance, n) = TwoWidths(n, p, wl)
  BY DEF Widths, TwoWidths
<1>. HIDE DEF wl, p
<1>4. a \in Int /\ c \in Int /\ d \in Nat \ {0} /\ c = a + d /\ x \in Int
  BY <1>1
<1>5. n * c = x + v
  BY <1>1
<1>6. x \in Nat /\ x <= n * d
  <2>1. n * (wl * wl) \in Int /\ n * a = n * (wl * wl) - n /\ n * a \in Int
    BY <1>1
  <2>2. n * ((wl + 2) * (wl + 2)) \in Int /\ n * c = n * ((wl + 2) * (wl + 2)) - n
    BY <1>1
  <2>3. n * c = n * a + n * d /\ n * d \in Int
    BY <1>4
  <2>. DEFINE q == n * (wl * wl)
              r == n * ((wl + 2) * (wl + 2))
              k == n * d
              l == n * c
              h == n * a
  <2>4. /\ q \in Int /\ r \in Int /\ k \in Int /\ h \in Int /\ l \in Int
        /\ h = q - n /\ l = r - n /\ l = h + k /\ q <= v + n /\ r > v + n /\ l = x + v
    BY <1>1, <1>5, <2>1, <2>2, <2>3
  <2>5. v \in Nat
    OBVIOUS
  <2>. HIDE DEF q, r, k, l, h, x, v
  <2>6. x \in Nat /\ x <= k
    BY <1>4, <2>4, <2>5
  <2>. QED  BY <2>6 DEF k
<1>7. ASSUME NEW m \in 0 .. n PROVE Off(TwoWidths(n, m, wl)) = Absolute(x - m * d)
  <2>1. VarianceOf(TwoWidths(n, m, wl)) = SumOfTwo(m, a, c, n)
    BY <1>1, VarianceIs
  <2>2. SumOfTwo(m, a, c, n) = m * a + (n - m) * c
    <3>. HIDE DEF a, c
    <3>1. CASE n <= m
      <4>1. m = n /\ (n - m) * c = 0 /\ n * a \in Int
        BY <1>4, <3>1
      <4>. QED  BY <3>1, <4>1 DEF SumOfTwo
    <3>2. CASE ~(n <= m)
      BY <3>2 DEF SumOfTwo
    <3>. QED  BY <3>1, <3>2
  <2>3. m * a + (n - m) * c = n * c - m * d
    <3>. HIDE DEF a, c, d
    <3>. QED  BY <1>4
  <2>. DEFINE f == m * d
              u == VarianceOf(TwoWidths(n, m, wl))
  <2>4. f \in Int /\ u = (x + v) - f /\ v = 12 * variance /\ v \in Nat
    BY <1>4, <1>5, <2>1, <2>2, <2>3
  <2>5. Off(TwoWidths(n, m, wl)) = IF u >= v THEN u - v ELSE v - u
    OBVIOUS
  <2>. HIDE DEF f, u, x, v, Off
  <2>6. (IF u >= v THEN u - v ELSE v - u) = Absolute(x - f)
    BY <1>4, <2>4 DEF Absolute
  <2>. QED  BY <2>5, <2>6 DEF f
<1>. HIDE DEF x, d
<1>8. p \in 0 .. n /\ \A m \in 0 .. n : Absolute(x - p * d) <= Absolute(x - m * d)
  BY <1>2, <1>4, <1>6, RoundIsNearest
<1>9. ASSUME NEW m \in 0 .. n
      PROVE  Off(Widths(variance, n)) <= Off(TwoWidths(n, m, wl))
  <2>. HIDE DEF Off
  <2>. QED  BY <1>3, <1>7, <1>8
<1>10. \A m \in 0 .. n : Off(Widths(variance, n)) <= Off(TwoWidths(n, m, wl))
  <2>. HIDE DEF Off
  <2>. QED  BY <1>9
<1>. QED  BY <1>10, Zenon DEF NearestVariance, TwoWidths, wl

-----------------------------------------------------------------------------
(* The filters of all sizes.                                               *)

\* A rectangle that lies in another one and is not turned inside out.
Within(r, x, y, w, h) ==
    /\ r[1] \in Nat /\ r[2] \in Nat /\ r[3] \in Nat /\ r[4] \in Nat
    /\ x <= r[1] /\ r[1] <= r[3] /\ r[3] <= x + w
    /\ y <= r[2] /\ r[2] <= r[4] /\ r[4] <= y + h

\* The halves and thirds of a side.
LEMMA Halves ==
    ASSUME NEW n \in Nat
    PROVE  n \div 2 \in Nat /\ n \div 2 <= n /\ n \div 3 \in Nat /\ 2 * (n \div 3) <= n
OBVIOUS

\* The rectangles of a filter lie in the one it is placed on.
LEMMA FilterStaysWithin ==
    ASSUME NEW type \in 0 .. 5, NEW x \in Nat, NEW y \in Nat, NEW w \in Nat, NEW h \in Nat,
           NEW p \in {1, 2}, NEW r \in Rectangles(type, x, y, w, h)[p]
    PROVE  Within(r, x, y, w, h)
<1>. DEFINE w2 == w \div 2
            h2 == h \div 2
            w3 == w \div 3
            h3 == h \div 3
            R == Rectangles(type, x, y, w, h)
<1>1. /\ w2 \in Nat /\ w2 <= w /\ w3 \in Nat /\ 2 * w3 <= w
      /\ h2 \in Nat /\ h2 <= h /\ h3 \in Nat /\ 2 * h3 <= h
  BY Halves
<1>2. /\ type = 0 => R = << {<<x, y, x + w, y + h>>}, {} >>
      /\ type = 1 => R = << {<<x, y + h2, x + w, y + h>>}, {<<x, y, x + w, y + h2>>} >>
      /\ type = 2 => R = << {<<x + w2, y, x + w, y + h>>}, {<<x, y, x + w2, y + h>>} >>
      /\ type = 3 =>
            R = << {<<x, y + h2, x + w2, y + h>>, <<x + w2, y, x + w, y + h2>>},
                   {<<x, y, x + w2, y + h2>>, <<x + w2, y + h2, x + w, y + h>>} >>
      /\ type = 4 =>
            R = << {<<x, y + h3, x + w, y + 2 * h3>>},
                   {<<x, y, x + w, y + h3>>, <<x, y + 2 * h3, x + w, y + h>>} >>
      /\ type = 5 =>
            R = << {<<x + w3, y, x + 2 * w3, y + h>>},
                   {<<x, y, x + w3, y + h>>, <<x + 2 * w3, y, x + w, y + h>>} >>
  BY DEF Rectangles, Third
<1>3. r \in R[p]
  OBVIOUS
<1>. HIDE DEF w2, h2, w3, h3, R
<1>4. CASE type = 0
  BY <1>1, <1>2, <1>3, <1>4 DEF Within
<1>5. CASE type = 1
  BY <1>1, <1>2, <1>3, <1>5 DEF Within
<1>6. CASE type = 2
  BY <1>1, <1>2, <1>3, <1>6 DEF Within
<1>7. CASE type = 3
  BY <1>1, <1>2, <1>3, <1>7 DEF Within
<1>8. CASE type = 4
  BY <1>1, <1>2, <1>3, <1>8 DEF Within
<1>9. CASE type = 5
  BY <1>1, <1>2, <1>3, <1>9 DEF Within
<1>. QED  BY <1>4, <1>5, <1>6, <1>7, <1>8, <1>9

LEMMA Apart ==
    ASSUME NEW a, NEW b,
           a[1] \in Nat, a[2] \in Nat, a[3] \in Nat, a[4] \in Nat,
           b[1] \in Nat, b[2] \in Nat, b[3] \in Nat, b[4] \in Nat,
           a[3] <= b[1] \/ a[4] <= b[2]
    PROVE  Cells(a) \cap Cells(b) = {}
<1>1. \/ (a[1] .. a[3] - 1) \cap (b[1] .. b[3] - 1) = {}
      \/ (a[2] .. a[4] - 1) \cap (b[2] .. b[4] - 1) = {}
  OBVIOUS
<1>. QED  BY <1>1, Zenon DEF Cells

In(i, j, r) == r[1] <= i /\ i < r[3] /\ r[2] <= j /\ j < r[4]

EndsBefore(r, s) == r[3] <= s[1] \/ r[4] <= s[2]

LEMMA CellsIn ==
    ASSUME NEW r, r[1] \in Nat, r[2] \in Nat, r[3] \in Nat, r[4] \in Nat
    PROVE  /\ Cells(r) \subseteq Int \X Int
           /\ \A i, j \in Int : <<i, j>> \in Cells(r) <=> In(i, j, r)
<1>1. ASSUME NEW i \in Int, NEW j \in Int
      PROVE  (i \in r[1] .. r[3] - 1 /\ j \in r[2] .. r[4] - 1) <=> In(i, j, r)
  BY DEF In
<1>2. r[1] .. r[3] - 1 \subseteq Int /\ r[2] .. r[4] - 1 \subseteq Int
  OBVIOUS
<1>3. Cells(r) = (r[1] .. r[3] - 1) \X (r[2] .. r[4] - 1)
  BY DEF Cells
<1>. QED  BY <1>1, <1>2, <1>3, Zenon

\* Each cell of a rectangle is in one of two parts, and of two rectangles of
\* these that are not the same one ends before the other begins.
EachOnce(parts, all) ==
    /\ \A i, j \in Int : (\E r \in parts[1] \cup parts[2] : In(i, j, r)) <=> In(i, j, all)
    /\ \A p \in {1, 2} : \A r, s \in parts[p] :
          r = s \/ EndsBefore(r, s) \/ EndsBefore(s, r)
    /\ \A r \in parts[1], s \in parts[2] : EndsBefore(r, s) \/ EndsBefore(s, r)

LEMMA EachCell ==
    ASSUME NEW type \in 0 .. 5, NEW x \in Nat, NEW y \in Nat, NEW w \in Nat, NEW h \in Nat,
           NEW R, R = Rectangles(type, x, y, w, h)
    PROVE  EachOnce(R, <<x, y, x + w, y + h>>)
<1>. DEFINE w2 == w \div 2
            h2 == h \div 2
            w3 == w \div 3
            h3 == h \div 3
<1>1. /\ w2 \in Nat /\ w2 <= w /\ w3 \in Nat /\ 2 * w3 <= w
      /\ h2 \in Nat /\ h2 <= h /\ h3 \in Nat /\ 2 * h3 <= h
  BY Halves
<1>2. /\ type = 0 => R = << {<<x, y, x + w, y + h>>}, {} >>
      /\ type = 1 => R = << {<<x, y + h2, x + w, y + h>>}, {<<x, y, x + w, y + h2>>} >>
      /\ type = 2 => R = << {<<x + w2, y, x + w, y + h>>}, {<<x, y, x + w2, y + h>>} >>
      /\ type = 3 =>
            R = << {<<x, y + h2, x + w2, y + h>>, <<x + w2, y, x + w, y + h2>>},
                   {<<x, y, x + w2, y + h2>>, <<x + w2, y + h2, x + w, y + h>>} >>
      /\ type = 4 =>
            R = << {<<x, y + h3, x + w, y + 2 * h3>>},
                   {<<x, y, x + w, y + h3>>, <<x, y + 2 * h3, x + w, y + h>>} >>
      /\ type = 5 =>
            R = << {<<x + w3, y, x + 2 * w3, y + h>>},
                   {<<x, y, x + w3, y + h>>, <<x + 2 * w3, y, x + w, y + h>>} >>
  BY DEF Rectangles, Third
<1>. HIDE DEF w2, h2, w3, h3
<1>3. CASE type = 0
  <2>. DEFINE a == <<x, y, x + w, y + h>>
  <2>1. ASSUME NEW i \in Int, NEW j \in Int
        PROVE  (\E r \in R[1] \cup R[2] : In(i, j, r))
                  <=> In(i, j, <<x, y, x + w, y + h>>)
    <3>1. R[1] \cup R[2] = {a}
      BY <1>2, <1>3
    <3>2. (In(i, j, a))
             <=> In(i, j, <<x, y, x + w, y + h>>)
      BY <1>1 DEF In
    <3>. HIDE DEF a
    <3>. QED  BY <3>1, <3>2
  <2>2. \A p \in {1, 2} : \A r, s \in R[p] : r = s \/ EndsBefore(r, s) \/ EndsBefore(s, r)
    BY <1>1, <1>2, <1>3 DEF EndsBefore
  <2>3. \A r \in R[1], s \in R[2] : EndsBefore(r, s) \/ EndsBefore(s, r)
    BY <1>1, <1>2, <1>3 DEF EndsBefore
  <2>. QED  BY <2>1, <2>2, <2>3 DEF EachOnce
<1>4. CASE type = 1
  <2>. DEFINE a == <<x, y + h2, x + w, y + h>>
              b == <<x, y, x + w, y + h2>>
  <2>1. ASSUME NEW i \in Int, NEW j \in Int
        PROVE  (\E r \in R[1] \cup R[2] : In(i, j, r))
                  <=> In(i, j, <<x, y, x + w, y + h>>)
    <3>1. R[1] \cup R[2] = {a, b}
      BY <1>2, <1>4
    <3>2. (In(i, j, a) \/ In(i, j, b))
             <=> In(i, j, <<x, y, x + w, y + h>>)
      BY <1>1 DEF In
    <3>. HIDE DEF a, b
    <3>. QED  BY <3>1, <3>2
  <2>2. \A p \in {1, 2} : \A r, s \in R[p] : r = s \/ EndsBefore(r, s) \/ EndsBefore(s, r)
    BY <1>1, <1>2, <1>4 DEF EndsBefore
  <2>3. \A r \in R[1], s \in R[2] : EndsBefore(r, s) \/ EndsBefore(s, r)
    BY <1>1, <1>2, <1>4 DEF EndsBefore
  <2>. QED  BY <2>1, <2>2, <2>3 DEF EachOnce
<1>5. CASE type = 2
  <2>. DEFINE a == <<x + w2, y, x + w, y + h>>
              b == <<x, y, x + w2, y + h>>
  <2>1. ASSUME NEW i \in Int, NEW j \in Int
        PROVE  (\E r \in R[1] \cup R[2] : In(i, j, r))
                  <=> In(i, j, <<x, y, x + w, y + h>>)
    <3>1. R[1] \cup R[2] = {a, b}
      BY <1>2, <1>5
    <3>2. (In(i, j, a) \/ In(i, j, b))
             <=> In(i, j, <<x, y, x + w, y + h>>)
      BY <1>1 DEF In
    <3>. HIDE DEF a, b
    <3>. QED  BY <3>1, <3>2
  <2>2. \A p \in {1, 2} : \A r, s \in R[p] : r = s \/ EndsBefore(r, s) \/ EndsBefore(s, r)
    BY <1>1, <1>2, <1>5 DEF EndsBefore
  <2>3. \A r \in R[1], s \in R[2] : EndsBefore(r, s) \/ EndsBefore(s, r)
    BY <1>1, <1>2, <1>5 DEF EndsBefore
  <2>. QED  BY <2>1, <2>2, <2>3 DEF EachOnce
<1>6. CASE type = 3
  <2>. DEFINE a == <<x, y + h2, x + w2, y + h>>
              b == <<x + w2, y, x + w, y + h2>>
              c == <<x, y, x + w2, y + h2>>
              d == <<x + w2, y + h2, x + w, y + h>>
  <2>1. ASSUME NEW i \in Int, NEW j \in Int
        PROVE  (\E r \in R[1] \cup R[2] : In(i, j, r))
                  <=> In(i, j, <<x, y, x + w, y + h>>)
    <3>1. R[1] \cup R[2] = {a, b, c, d}
      BY <1>2, <1>6
    <3>2. (In(i, j, a) \/ In(i, j, b) \/ In(i, j, c) \/ In(i, j, d))
             <=> In(i, j, <<x, y, x + w, y + h>>)
      BY <1>1 DEF In
    <3>. HIDE DEF a, b, c, d
    <3>. QED  BY <3>1, <3>2
  <2>2. \A p \in {1, 2} : \A r, s \in R[p] : r = s \/ EndsBefore(r, s) \/ EndsBefore(s, r)
    BY <1>1, <1>2, <1>6 DEF EndsBefore
  <2>3. \A r \in R[1], s \in R[2] : EndsBefore(r, s) \/ EndsBefore(s, r)
    BY <1>1, <1>2, <1>6 DEF EndsBefore
  <2>. QED  BY <2>1, <2>2, <2>3 DEF EachOnce
<1>7. CASE type = 4
  <2>. DEFINE a == <<x, y + h3, x + w, y + 2 * h3>>
              b == <<x, y, x + w, y + h3>>
              c == <<x, y + 2 * h3, x + w, y + h>>
  <2>1. ASSUME NEW i \in Int, NEW j \in Int
        PROVE  (\E r \in R[1] \cup R[2] : In(i, j, r))
                  <=> In(i, j, <<x, y, x + w, y + h>>)
    <3>1. R[1] \cup R[2] = {a, b, c}
      BY <1>2, <1>7
    <3>2. (In(i, j, a) \/ In(i, j, b) \/ In(i, j, c))
             <=> In(i, j, <<x, y, x + w, y + h>>)
      BY <1>1 DEF In
    <3>. HIDE DEF a, b, c
    <3>. QED  BY <3>1, <3>2
  <2>2. \A p \in {1, 2} : \A r, s \in R[p] : r = s \/ EndsBefore(r, s) \/ EndsBefore(s, r)
    BY <1>1, <1>2, <1>7 DEF EndsBefore
  <2>3. \A r \in R[1], s \in R[2] : EndsBefore(r, s) \/ EndsBefore(s, r)
    BY <1>1, <1>2, <1>7 DEF EndsBefore
  <2>. QED  BY <2>1, <2>2, <2>3 DEF EachOnce
<1>8. CASE type = 5
  <2>. DEFINE a == <<x + w3, y, x + 2 * w3, y + h>>
              b == <<x, y, x + w3, y + h>>
              c == <<x + 2 * w3, y, x + w, y + h>>
  <2>1. ASSUME NEW i \in Int, NEW j \in Int
        PROVE  (\E r \in R[1] \cup R[2] : In(i, j, r))
                  <=> In(i, j, <<x, y, x + w, y + h>>)
    <3>1. R[1] \cup R[2] = {a, b, c}
      BY <1>2, <1>8
    <3>2. (In(i, j, a) \/ In(i, j, b) \/ In(i, j, c))
             <=> In(i, j, <<x, y, x + w, y + h>>)
      BY <1>1 DEF In
    <3>. HIDE DEF a, b, c
    <3>. QED  BY <3>1, <3>2
  <2>2. \A p \in {1, 2} : \A r, s \in R[p] : r = s \/ EndsBefore(r, s) \/ EndsBefore(s, r)
    BY <1>1, <1>2, <1>8 DEF EndsBefore
  <2>3. \A r \in R[1], s \in R[2] : EndsBefore(r, s) \/ EndsBefore(s, r)
    BY <1>1, <1>2, <1>8 DEF EndsBefore
  <2>. QED  BY <2>1, <2>2, <2>3 DEF EachOnce
<1>. QED  BY <1>3, <1>4, <1>5, <1>6, <1>7, <1>8

\* Every filter, of every size and at every place, counts each cell of its
\* rectangle once, either in one sum or in the other, and none beside it:
\* halves and thirds that are not whole leave no row or column out
\* (filter_utils.h).
THEOREM FiltersCover ==
    \A type \in 0 .. 5, x, y, w, h \in Nat : Tiles(type, x, y, w, h)
<1>. SUFFICES ASSUME NEW type \in 0 .. 5, NEW x \in Nat, NEW y \in Nat,
                     NEW w \in Nat, NEW h \in Nat
              PROVE  Tiles(type, x, y, w, h)
  OBVIOUS
<1>. DEFINE R == Rectangles(type, x, y, w, h)
            rects == R[1] \cup R[2]
            all == <<x, y, x + w, y + h>>
<1>1. \A r \in rects : Within(r, x, y, w, h)
  BY FilterStaysWithin
<1>2. /\ \A r \in rects : r[1] \in Nat /\ r[2] \in Nat /\ r[3] \in Nat /\ r[4] \in Nat
      /\ \A r \in rects : r[1] <= r[3] /\ r[2] <= r[4]
  BY <1>1 DEF Within
<1>3. all[1] \in Nat /\ all[2] \in Nat /\ all[3] \in Nat /\ all[4] \in Nat
  OBVIOUS
<1>4. /\ \A i, j \in Int : (\E r \in rects : In(i, j, r)) <=> In(i, j, all)
      /\ \A p \in {1, 2} : \A r, s \in R[p] : r = s \/ EndsBefore(r, s) \/ EndsBefore(s, r)
      /\ \A r \in R[1], s \in R[2] : EndsBefore(r, s) \/ EndsBefore(s, r)
  <2>. DEFINE P == R
  <2>1. P = Rectangles(type, x, y, w, h)
    OBVIOUS
  <2>. HIDE DEF P
  <2>2. EachOnce(P, all)
    BY <2>1, EachCell
  <2>. QED  BY <2>2, Zenon DEF EachOnce, P
<1>. HIDE DEF R, all
<1>5. UNION {Cells(r) : r \in rects} = Cells(all)
  <2>1. ASSUME NEW c PROVE (\E r \in rects : c \in Cells(r))
                              <=> c \in Cells(all)
    <3>1. CASE c \in Int \X Int
      <4>1. PICK i \in Int, j \in Int : c = <<i, j>>
        BY <3>1
      <4>2. \A r \in rects : c \in Cells(r) <=> In(i, j, r)
        BY <1>2, <4>1, CellsIn
      <4>3. c \in Cells(all) <=> In(i, j, all)
        BY <1>3, <4>1, CellsIn
      <4>. QED  BY <1>4, <4>2, <4>3
    <3>2. CASE c \notin Int \X Int
      <4>1. \A r \in rects : c \notin Cells(r)
        BY <1>2, <3>2, CellsIn
      <4>2. c \notin Cells(all)
        BY <1>3, <3>2, CellsIn
      <4>. QED  BY <4>1, <4>2
    <3>. QED  BY <3>1, <3>2
  <2>. HIDE DEF rects
  <2>. QED  BY <2>1
<1>6. ASSUME NEW r \in rects, NEW s \in rects, EndsBefore(r, s) \/ EndsBefore(s, r)
      PROVE  Cells(r) \cap Cells(s) = {}
  <2>1. /\ r[1] \in Nat /\ r[2] \in Nat /\ r[3] \in Nat /\ r[4] \in Nat
        /\ s[1] \in Nat /\ s[2] \in Nat /\ s[3] \in Nat /\ s[4] \in Nat
    BY <1>2
  <2>. HIDE DEF rects
  <2>2. CASE EndsBefore(r, s)
    BY <2>1, <2>2, Apart DEF EndsBefore
  <2>3. CASE EndsBefore(s, r)
    <3>1. Cells(s) \cap Cells(r) = {}
      BY <2>1, <2>3, Apart DEF EndsBefore
    <3>. QED  BY <3>1
  <2>. QED  BY <1>6, <2>2, <2>3
<1>7. \A r, s \in rects : r # s => Cells(r) \cap Cells(s) = {}
  <2>. SUFFICES ASSUME NEW r \in rects, NEW s \in rects, r # s
                PROVE  Cells(r) \cap Cells(s) = {}
    OBVIOUS
  <2>1. EndsBefore(r, s) \/ EndsBefore(s, r)
    <3>1. CASE r \in R[1] /\ s \in R[1]
      BY <1>4, <3>1
    <3>2. CASE r \in R[2] /\ s \in R[2]
      BY <1>4, <3>2
    <3>3. CASE (r \in R[1] /\ s \in R[2]) \/ (r \in R[2] /\ s \in R[1])
      BY <1>4, <3>3
    <3>. QED  BY <3>1, <3>2, <3>3
  <2>. QED  BY <1>6, <2>1
<1>8. R[1] \cap R[2] \subseteq {r \in rects : Cells(r) = {}}
  <2>. SUFFICES ASSUME NEW r \in R[1] \cap R[2] PROVE Cells(r) = {}
    OBVIOUS
  <2>1. r \in rects /\ EndsBefore(r, r)
    BY <1>4
  <2>2. Cells(r) \cap Cells(r) = {}
    BY <1>6, <2>1
  <2>. QED  BY <2>2
<1>. QED  BY <1>2, <1>5, <1>7, <1>8, Zenon DEF Tiles, R, all

-----------------------------------------------------------------------------
(* Recursive functions.                                                    *)

\* A function that is defined from one number to the next exists.
Recurs(f, n, S, b, step) ==
    /\ f \in [0 .. n -> S] /\ f[0] = b
    /\ \A i \in 1 .. n : f[i] = step[<<f[i - 1], i>>]

LEMMA RecursionExists ==
    ASSUME NEW n \in Nat, NEW S, NEW b \in S, NEW step \in [S \X (1 .. n) -> S]
    PROVE  \E f : Recurs(f, n, S, b, step)
<1>. DEFINE Up(f, m) == /\ f \in [0 .. m -> S] /\ f[0] = b
                        /\ \A i \in 1 .. m : f[i] = step[<<f[i - 1], i>>]
            T == {m \in Nat : m <= n => \E f : Up(f, m)}
<1>1. 0 \in T
  <2>1. Up([i \in 0 .. 0 |-> b], 0)
    OBVIOUS
  <2>. QED  BY <2>1
<1>2. ASSUME NEW m \in T PROVE m + 1 \in T
  <2>. SUFFICES ASSUME m + 1 <= n PROVE \E f : Up(f, m + 1)
    OBVIOUS
  <2>1. PICK f : Up(f, m)
    OBVIOUS
  <2>. DEFINE next == step[<<f[m], m + 1>>]
              g == [i \in 0 .. m + 1 |-> IF i <= m THEN f[i] ELSE next]
  <2>2. m \in 0 .. m /\ m + 1 \in 1 .. n /\ m \in Nat
    OBVIOUS
  <2>3. f[m] \in S
    BY <2>1, <2>2
  <2>4. next \in S
    BY <2>2, <2>3
  <2>. HIDE DEF next
  <2>5. g \in [0 .. m + 1 -> S]
    BY <2>1, <2>4
  <2>6. g[0] = b
    BY <2>1, <2>2
  <2>7. \A i \in 0 .. m : g[i] = f[i]
    OBVIOUS
  <2>8. g[m + 1] = next
    OBVIOUS
  <2>. HIDE DEF g
  <2>9. ASSUME NEW i \in 1 .. m + 1 PROVE g[i] = step[<<g[i - 1], i>>]
    <3>1. CASE i = m + 1
      <4>1. i - 1 = m /\ g[m] = f[m]
        BY <2>2, <2>7, <3>1
      <4>. QED  BY <2>8, <3>1, <4>1 DEF next
    <3>2. CASE i # m + 1
      <4>1. i \in 1 .. m /\ i \in 0 .. m /\ i - 1 \in 0 .. m
        BY <3>2
      <4>. QED  BY <2>1, <2>7, <4>1
    <3>. QED  BY <3>1, <3>2
  <2>10. Up(g, m + 1)
    BY <2>5, <2>6, <2>9
  <2>. QED  BY <2>10
<1>3. T \in SUBSET Nat
  OBVIOUS
<1>. HIDE DEF T
<1>4. n \in T
  BY <1>1, <1>2, <1>3, NatInduct
<1>5. \E f : Up(f, n)
  BY <1>4 DEF T
<1>. QED  BY <1>5 DEF Recurs

-----------------------------------------------------------------------------
(* The hashes.                                                             *)

Bit(item, i) == IF 32 - i \in item THEN 1 ELSE 0

Valued(f, item) ==
    f = [i \in 0 .. ALIGN_BITS |-> IF i = 0 THEN 0 ELSE 2 * f[i - 1] + Bit(item, i)]

ValuedAt(f, item, i) == f[i] = IF i = 0 THEN 0 ELSE 2 * f[i - 1] + Bit(item, i)

LEMMA ValuedIs ==
    ASSUME NEW f, NEW item, Valued(f, item), NEW i \in 0 .. ALIGN_BITS
    PROVE  ValuedAt(f, item, i)
<1>. DEFINE e(k) == IF k = 0 THEN 0 ELSE 2 * f[k - 1] + Bit(item, k)
<1>1. f = [k \in 0 .. ALIGN_BITS |-> e(k)]
  BY DEF Valued
<1>2. f[i] = e(i)
  <2>. HIDE DEF e
  <2>. QED  BY <1>1
<1>. QED  BY <1>2 DEF ValuedAt

LEMMA ValuedExists ==
    ASSUME NEW item
    PROVE  \E f : Valued(f, item) /\ f \in [0 .. ALIGN_BITS -> Nat]
<1>. DEFINE e(s, i) == 2 * s + Bit(item, i)
            step == [x \in Nat \X (1 .. ALIGN_BITS) |-> e(x[1], x[2])]
<1>1. ASSUME NEW s \in Nat, NEW i PROVE e(s, i) \in Nat
  BY DEF Bit
<1>2. ALIGN_BITS \in Nat /\ 0 \in Nat
  BY DEF ALIGN_BITS
<1>. HIDE DEF e
<1>3. step \in [Nat \X (1 .. ALIGN_BITS) -> Nat]
  BY <1>1
<1>4. \A s \in Nat, i \in 1 .. ALIGN_BITS : step[<<s, i>>] = e(s, i)
  OBVIOUS
<1>. HIDE DEF step
<1>a. PICK f : Recurs(f, ALIGN_BITS, Nat, 0, step)
  BY <1>2, <1>3, RecursionExists
<1>5. /\ f \in [0 .. ALIGN_BITS -> Nat] /\ f[0] = 0
      /\ \A i \in 1 .. ALIGN_BITS : f[i] = step[<<f[i - 1], i>>]
  BY <1>a DEF Recurs
<1>6. ASSUME NEW i \in 0 .. ALIGN_BITS
      PROVE  f[i] = IF i = 0 THEN 0 ELSE e(f[i - 1], i)
  <2>1. CASE i = 0
    BY <1>5, <2>1
  <2>2. CASE i # 0
    <3>1. i \in 1 .. ALIGN_BITS /\ i - 1 \in 0 .. ALIGN_BITS
      BY <1>2, <2>2
    <3>2. f[i - 1] \in Nat
      BY <1>5, <3>1
    <3>. QED  BY <1>4, <1>5, <2>2, <3>1, <3>2
  <2>. QED  BY <2>1, <2>2
<1>7. f = [i \in 0 .. ALIGN_BITS |-> IF i = 0 THEN 0 ELSE e(f[i - 1], i)]
  <2>1. f = [i \in 0 .. ALIGN_BITS |-> f[i]]
    BY <1>5
  <2>. QED  BY <1>6, <2>1
<1>8. Valued(f, item)
  BY <1>7 DEF Valued, e
<1>. QED  BY <1>5, <1>8

\* The value of the bits of an item that make up its hash, and of the first
\* of them.
Values(item) == CHOOSE f : Valued(f, item)

LEMMA HashIs ==
    ASSUME NEW item
    PROVE  /\ Hash(item) = Values(item)[ALIGN_BITS] /\ Values(item)[0] = 0
           /\ \A i \in 1 .. ALIGN_BITS :
                Values(item)[i] = 2 * Values(item)[i - 1] + Bit(item, i)
           /\ \A i \in 0 .. ALIGN_BITS : Values(item)[i] \in Nat
<1>1. Hash(item) = Values(item)[ALIGN_BITS]
  BY Zenon DEF Hash, Values, Valued, Bit
<1>2. PICK f : Valued(f, item) /\ f \in [0 .. ALIGN_BITS -> Nat]
  BY ValuedExists
<1>. DEFINE v == Values(item)
<1>3. Valued(v, item)
  BY Zenon, <1>2 DEF Values
<1>. HIDE DEF v
<1>4. ALIGN_BITS \in Nat
  BY DEF ALIGN_BITS
<1>5. v[0] = 0
  BY <1>3, <1>4, ValuedIs DEF ValuedAt
<1>6. ASSUME NEW i \in 1 .. ALIGN_BITS PROVE v[i] = 2 * v[i - 1] + Bit(item, i)
  <2>1. i \in 0 .. ALIGN_BITS /\ i # 0
    OBVIOUS
  <2>. QED  BY <1>3, <2>1, ValuedIs DEF ValuedAt
<1>7. \A i \in 0 .. ALIGN_BITS : v[i] \in Nat
  <2>. DEFINE T == {k \in Nat : k <= ALIGN_BITS => v[k] \in Nat}
  <2>1. 0 \in T
    BY <1>5
  <2>2. ASSUME NEW k \in T PROVE k + 1 \in T
    <3>1. k + 1 <= ALIGN_BITS => k + 1 \in 1 .. ALIGN_BITS /\ (k + 1) - 1 = k /\ v[k] \in Nat
      BY <1>4
    <3>2. k + 1 <= ALIGN_BITS => v[k + 1] = 2 * v[k] + Bit(item, k + 1)
      BY <1>6, <3>1
    <3>. QED  BY <3>1, <3>2 DEF Bit
  <2>3. T \in SUBSET Nat
    OBVIOUS
  <2>. HIDE DEF T
  <2>4. Nat \subseteq T
    BY <2>1, <2>2, <2>3, NatInduct
  <2>. QED  BY <2>4 DEF T
<1>. QED  BY <1>1, <1>5, <1>6, <1>7 DEF v

LEMMA LastBit ==
    ASSUME NEW a \in Nat, NEW b \in Nat, NEW c \in {0, 1}, NEW d \in {0, 1},
           2 * a + c = 2 * b + d
    PROVE  a = b /\ c = d
OBVIOUS

\* Two items have the same hash if they have the same first bits, and only then.

LEMMA HashAgrees ==
    ASSUME NEW x, NEW y
    PROVE  Hash(x) \in Nat /\ (Hash(x) = Hash(y) <=> x \cap 20 .. 31 = y \cap 20 .. 31)
<1>. DEFINE v == Values(x)
            w == Values(y)
            Same == x \cap 20 .. 31 = y \cap 20 .. 31
<1>1. ALIGN_BITS = 12
  BY DEF ALIGN_BITS
<1>2. /\ v[0] = 0 /\ w[0] = 0
      /\ Hash(x) = v[12] /\ Hash(y) = w[12]
      /\ \A i \in 0 .. 12 : v[i] \in Nat /\ w[i] \in Nat
      /\ \A i \in 1 .. 12 : v[i] = 2 * v[i - 1] + Bit(x, i)
      /\ \A i \in 1 .. 12 : w[i] = 2 * w[i - 1] + Bit(y, i)
  BY <1>1, HashIs
<1>. HIDE DEF v, w
<1>3. ASSUME Same PROVE v[12] = w[12]
  <2>1. ASSUME NEW i \in 1 .. 12 PROVE Bit(x, i) = Bit(y, i)
    <3>1. 32 - i \in 20 .. 31
      OBVIOUS
    <3>. QED  BY <1>3, <3>1 DEF Bit
  <2>. DEFINE T == {k \in Nat : k <= 12 => v[k] = w[k]}
  <2>2. 0 \in T
    BY <1>2
  <2>3. ASSUME NEW k \in T PROVE k + 1 \in T
    <3>1. k + 1 <= 12 => k + 1 \in 1 .. 12 /\ (k + 1) - 1 = k /\ v[k] = w[k]
      OBVIOUS
    <3>. QED  BY <1>2, <2>1, <3>1
  <2>4. T \in SUBSET Nat
    OBVIOUS
  <2>. HIDE DEF T
  <2>5. Nat \subseteq T
    BY <2>2, <2>3, <2>4, NatInduct
  <2>. QED  BY <2>5 DEF T
<1>4. ASSUME v[12] = w[12] PROVE Same
  <2>1. ASSUME NEW i \in 1 .. 12, v[i] = w[i]
        PROVE  v[i - 1] = w[i - 1] /\ Bit(x, i) = Bit(y, i)
    <3>1. v[i - 1] \in Nat /\ w[i - 1] \in Nat
      BY <1>2
    <3>2. v[i] = 2 * v[i - 1] + Bit(x, i) /\ w[i] = 2 * w[i - 1] + Bit(y, i)
      BY <1>2
    <3>3. Bit(x, i) \in {0, 1} /\ Bit(y, i) \in {0, 1}
      BY DEF Bit
    <3>4. 2 * v[i - 1] + Bit(x, i) = 2 * w[i - 1] + Bit(y, i)
      BY <2>1, <3>2
    <3>. QED  BY <3>1, <3>3, <3>4, LastBit
  <2>. DEFINE T == {k \in Nat : k <= 12 => v[12 - k] = w[12 - k]}
  <2>2. 0 \in T
    BY <1>4
  <2>3. ASSUME NEW k \in T PROVE k + 1 \in T
    <3>1. k + 1 <= 12 => 12 - k \in 1 .. 12 /\ (12 - k) - 1 = 12 - (k + 1) /\ v[12 - k] = w[12 - k]
      OBVIOUS
    <3>. QED  BY <2>1, <3>1
  <2>4. T \in SUBSET Nat
    OBVIOUS
  <2>. HIDE DEF T
  <2>5. Nat \subseteq T
    BY <2>2, <2>3, <2>4, NatInduct
  <2>6. ASSUME NEW i \in 1 .. 12 PROVE v[i] = w[i]
    <3>1. 12 - i \in T /\ 12 - (12 - i) = i
      BY <2>5
    <3>. QED  BY <3>1 DEF T
  <2>7. ASSUME NEW b \in 20 .. 31 PROVE b \in x <=> b \in y
    <3>1. 32 - b \in 1 .. 12 /\ 32 - (32 - b) = b
      OBVIOUS
    <3>2. Bit(x, 32 - b) = Bit(y, 32 - b)
      BY <2>1, <2>6, <3>1
    <3>. QED  BY <3>1, <3>2 DEF Bit
  <2>. QED  BY <2>7
<1>5. Hash(x) \in Nat
  BY <1>2
<1>. QED  BY <1>2, <1>3, <1>4, <1>5


-----------------------------------------------------------------------------
(* The sorted offsets.                                                     *)

Entry == [hash : Nat, source : {1, 2}, offset : Nat]

LEMMA BeforeOrders ==
    ASSUME NEW a \in Entry, NEW b \in Entry
    PROVE  /\ Before(a, b) => ~Before(b, a)
           /\ Before(a, b) \/ Before(b, a) \/ a = b
           /\ \A c \in Entry : Before(a, b) /\ Before(b, c) => Before(a, c)
<1>1. ASSUME NEW e \in Entry
      PROVE  e.hash \in Nat /\ e.source \in {1, 2} /\ e.offset \in Nat
  BY DEF Entry
<1>2. a.hash = b.hash /\ a.source = b.source /\ a.offset = b.offset => a = b
  BY DEF Entry
<1>3. Before(a, b) => ~Before(b, a)
  BY <1>1 DEF Before
<1>4. Before(a, b) \/ Before(b, a) \/ a = b
  BY <1>1, <1>2 DEF Before
<1>5. \A c \in Entry : Before(a, b) /\ Before(b, c) => Before(a, c)
  BY <1>1 DEF Before
<1>. QED  BY <1>3, <1>4, <1>5

Increasing(s) == \A i, j \in DOMAIN s : i < j => Before(s[i], s[j])

\* A set of numbers from 1 on without a gap is an interval.
LEMMA FirstOnes ==
    ASSUME NEW n \in Nat, NEW D \in SUBSET (1 .. n),
           \A i \in D, j \in 1 .. n : j < i => j \in D
    PROVE  Cardinality(D) \in 0 .. n /\ D = 1 .. Cardinality(D)
<1>. DEFINE T == {m \in Nat : m <= n => \E k \in 0 .. m : D \cap 1 .. m = 1 .. k}
<1>1. 0 \in T
  OBVIOUS
<1>2. ASSUME NEW m \in T PROVE m + 1 \in T
  <2>. SUFFICES ASSUME m + 1 <= n PROVE \E k \in 0 .. m + 1 : D \cap 1 .. m + 1 = 1 .. k
    OBVIOUS
  <2>1. PICK k \in 0 .. m : D \cap 1 .. m = 1 .. k
    OBVIOUS
  <2>2. CASE m + 1 \in D
    <3>1. \A j \in 1 .. m + 1 : j \in D
      BY <2>2
    <3>2. D \cap 1 .. m + 1 = 1 .. m + 1
      BY <3>1
    <3>. QED  BY <3>2
  <2>3. CASE m + 1 \notin D
    <3>1. D \cap 1 .. m + 1 = D \cap 1 .. m
      BY <2>3
    <3>. QED  BY <2>1, <3>1
  <2>. QED  BY <2>2, <2>3
<1>3. T \in SUBSET Nat
  OBVIOUS
<1>. HIDE DEF T
<1>4. n \in T
  BY <1>1, <1>2, <1>3, NatInduct
<1>5. PICK k \in 0 .. n : D \cap 1 .. n = 1 .. k
  BY <1>4 DEF T
<1>6. D = 1 .. k
  BY <1>5
<1>7. Cardinality(1 .. k) = k
  BY FS_Interval
<1>. QED  BY <1>6, <1>7

Concat(t, a, b) == t = a \o b

Joins(t, a, b, m, n) ==
    /\ \A i \in 1 .. m : t[i] = a[i]
    /\ \A i \in 1 .. n : t[m + i] = b[i]

LEMMA Joined ==
    ASSUME NEW S, NEW a \in Seq(S), NEW b \in Seq(S), NEW t, Concat(t, a, b),
           NEW m, m = Len(a), NEW n, n = Len(b)
    PROVE  t \in Seq(S) /\ Len(t) = m + n /\ Joins(t, a, b, m, n)
BY DEF Joins, Concat

\* A sequence with an element put in after the first k.
PutsIn(t, s, e, k, n) == t = SubSeq(s, 1, k) \o <<e>> \o SubSeq(s, k + 1, n)

HasPutIn(t, s, e, k, n) ==
    /\ \A i \in 1 .. k : t[i] = s[i]
    /\ t[k + 1] = e
    /\ \A i \in k + 2 .. n + 1 : t[i] = s[i - 1]

LEMMA PutIn ==
    ASSUME NEW S, NEW s \in Seq(S), NEW e \in S, NEW n, n = Len(s), NEW k \in 0 .. n,
           NEW t, PutsIn(t, s, e, k, n)
    PROVE  t \in Seq(S) /\ Len(t) = n + 1 /\ HasPutIn(t, s, e, k, n)
<1>. DEFINE a == SubSeq(s, 1, k)
            c == SubSeq(s, k + 1, n)
            b == a \o <<e>>
<1>1. n \in Nat /\ k \in Nat /\ k <= n /\ \A i \in 1 .. n : s[i] \in S
  OBVIOUS
<1>2. a \in Seq(S) /\ Len(a) = k /\ \A i \in 1 .. k : a[i] = s[i]
  BY <1>1
<1>3. c \in Seq(S) /\ Len(c) = n - k /\ \A i \in 1 .. n - k : c[i] = s[k + i]
  BY <1>1
<1>. HIDE DEF a, c
<1>4. b \in Seq(S) /\ Len(b) = k + 1 /\ b[k + 1] = e /\ \A i \in 1 .. k : b[i] = s[i]
  BY <1>1, <1>2
<1>. HIDE DEF b
<1>5. Concat(t, b, c)
  BY DEF PutsIn, Concat, a, b, c
<1>x. t \in Seq(S) /\ Len(t) = (k + 1) + (n - k) /\ Joins(t, b, c, k + 1, n - k)
  BY <1>3, <1>4, <1>5, Joined
<1>6. /\ t \in Seq(S) /\ Len(t) = (k + 1) + (n - k)
      /\ \A i \in 1 .. k + 1 : t[i] = b[i]
      /\ \A i \in 1 .. n - k : t[(k + 1) + i] = c[i]
  BY <1>x DEF Joins
<1>7. (k + 1) + (n - k) = n + 1
  BY <1>1
<1>8. ASSUME NEW i \in k + 2 .. n + 1 PROVE t[i] = s[i - 1]
  <2>. DEFINE j == i - (k + 1)
  <2>1. j \in 1 .. n - k /\ k + j = i - 1 /\ (k + 1) + j = i
    BY <1>1
  <2>. HIDE DEF j
  <2>2. t[i] = c[j]
    BY <1>6, <2>1
  <2>. QED  BY <1>3, <2>1, <2>2
<1>9. ASSUME NEW i \in 1 .. k PROVE t[i] = s[i]
  <2>1. i \in 1 .. k + 1
    BY <1>1
  <2>. QED  BY <1>4, <1>6, <2>1
<1>10. t[k + 1] = e
  <2>1. k + 1 \in 1 .. k + 1
    BY <1>1
  <2>. QED  BY <1>4, <1>6, <2>1
<1>11. HasPutIn(t, s, e, k, n)
  BY <1>8, <1>9, <1>10 DEF HasPutIn
<1>. QED  BY <1>6, <1>7, <1>11

LEMMA InsertedIs ==
    ASSUME NEW s \in Seq(Entry), Increasing(s), NEW e \in Entry, e \notin Range(s)
    PROVE  /\ Inserted(s, e) \in Seq(Entry) /\ Increasing(Inserted(s, e))
           /\ Range(Inserted(s, e)) = Range(s) \cup {e}
<1>. DEFINE n == Len(s)
            D == {i \in DOMAIN s : Before(s[i], e)}
            k == Cardinality(D)
            t == Inserted(s, e)
<1>1. n \in Nat /\ DOMAIN s = 1 .. n /\ \A i \in 1 .. n : s[i] \in Entry /\ s[i] # e
  BY DEF Range
<1>2. k \in 0 .. n /\ D = 1 .. k
  <2>1. D \in SUBSET (1 .. n)
    BY <1>1
  <2>2. ASSUME NEW i \in D, NEW j \in 1 .. n, j < i PROVE j \in D
    <3>1. s[i] \in Entry /\ s[j] \in Entry /\ Before(s[j], s[i]) /\ Before(s[i], e)
      BY <1>1, <2>2 DEF Increasing
    <3>2. Before(s[j], e)
      BY <3>1, BeforeOrders
    <3>. QED  BY <1>1, <3>2
  <2>. HIDE DEF D
  <2>. QED  BY <1>1, <2>1, <2>2, FirstOnes
<1>3. ASSUME NEW i \in 1 .. n PROVE IF i <= k THEN Before(s[i], e) ELSE Before(e, s[i])
  <2>1. i <= k => Before(s[i], e)
    BY <1>1, <1>2
  <2>2. ~(i <= k) => ~Before(s[i], e)
    BY <1>1, <1>2
  <2>3. s[i] \in Entry /\ s[i] # e
    BY <1>1
  <2>. QED  BY <2>1, <2>2, <2>3, BeforeOrders
<1>4. PutsIn(t, s, e, k, n)
  BY DEF Inserted, PutsIn
<1>0. n = Len(s)
  OBVIOUS
<1>. HIDE DEF D, k, t, n
<1>a. t \in Seq(Entry) /\ Len(t) = n + 1 /\ HasPutIn(t, s, e, k, n)
  <2>1. k \in 0 .. n
    BY <1>2
  <2>. QED  BY <1>0, <1>4, <2>1, PutIn
<1>5. /\ t \in Seq(Entry) /\ Len(t) = n + 1 /\ \A i \in 1 .. k : t[i] = s[i]
      /\ t[k + 1] = e /\ \A i \in k + 2 .. n + 1 : t[i] = s[i - 1]
  BY <1>a DEF HasPutIn
<1>6. DOMAIN t = 1 .. n + 1
  BY <1>5
<1>7. ASSUME NEW i \in 1 .. n + 1, NEW j \in 1 .. n + 1, i < j PROVE Before(t[i], t[j])
  <2>1. CASE j <= k
    <3>1. i \in 1 .. n /\ j \in 1 .. n /\ t[i] = s[i] /\ t[j] = s[j]
      BY <1>1, <1>2, <1>5, <1>7, <2>1
    <3>. QED  BY <1>1, <1>7, <3>1 DEF Increasing
  <2>2. CASE j = k + 1
    <3>1. i \in 1 .. n /\ i <= k /\ t[i] = s[i] /\ t[j] = e
      BY <1>1, <1>2, <1>5, <1>7, <2>2
    <3>. QED  BY <1>3, <3>1
  <2>3. CASE j > k + 1
    <3>1. j - 1 \in 1 .. n /\ t[j] = s[j - 1] /\ ~(j - 1 <= k)
      BY <1>1, <1>2, <1>5, <2>3
    <3>2. CASE i <= k
      <4>1. i \in 1 .. n /\ i < j - 1 /\ t[i] = s[i]
        BY <1>1, <1>2, <1>5, <2>3, <3>2
      <4>. QED  BY <1>1, <3>1, <4>1 DEF Increasing
    <3>3. CASE i = k + 1
      <4>1. t[i] = e
        BY <1>5, <3>3
      <4>. QED  BY <1>3, <3>1, <4>1
    <3>4. CASE i > k + 1
      <4>1. i - 1 \in 1 .. n /\ i - 1 < j - 1 /\ t[i] = s[i - 1]
        BY <1>1, <1>2, <1>5, <1>7, <3>4
      <4>. QED  BY <1>1, <3>1, <4>1 DEF Increasing
    <3>5. i \in Int /\ k \in Int
      BY <1>2
    <3>. QED  BY <3>2, <3>3, <3>4, <3>5
  <2>4. j \in Int /\ k \in Int
    BY <1>2
  <2>. QED  BY <2>1, <2>2, <2>3, <2>4
<1>8. ASSUME NEW i \in 1 .. n + 1 PROVE t[i] \in Range(s) \cup {e}
  <2>1. CASE i <= k
    <3>1. i \in DOMAIN s /\ t[i] = s[i]
      BY <1>1, <1>2, <1>5, <2>1
    <3>. QED  BY <3>1 DEF Range
  <2>2. CASE i = k + 1
    BY <1>5, <2>2
  <2>3. CASE i > k + 1
    <3>1. i - 1 \in DOMAIN s /\ t[i] = s[i - 1]
      BY <1>1, <1>2, <1>5, <2>3
    <3>. QED  BY <3>1 DEF Range
  <2>4. i \in Int /\ k \in Int
    BY <1>2
  <2>. QED  BY <2>1, <2>2, <2>3, <2>4
<1>9. ASSUME NEW i \in 1 .. n PROVE s[i] \in Range(t)
  <2>1. CASE i <= k
    <3>1. i \in DOMAIN t /\ t[i] = s[i]
      BY <1>1, <1>2, <1>5, <1>6, <2>1
    <3>. QED  BY <3>1 DEF Range
  <2>2. CASE i > k
    <3>1. i + 1 \in DOMAIN t /\ i + 1 \in k + 2 .. n + 1 /\ (i + 1) - 1 = i
      BY <1>1, <1>2, <1>6, <2>2
    <3>2. t[i + 1] = s[i]
      BY <1>5, <3>1
    <3>. QED  BY <3>1, <3>2 DEF Range
  <2>4. i \in Int /\ k \in Int
    BY <1>2
  <2>. QED  BY <2>1, <2>2, <2>4
<1>10. e \in Range(t)
  <2>1. k + 1 \in DOMAIN t
    BY <1>1, <1>2, <1>6
  <2>. QED  BY <1>5, <2>1 DEF Range
<1>11. Range(t) = Range(s) \cup {e}
  <2>1. Range(t) \subseteq Range(s) \cup {e}
    BY <1>6, <1>8 DEF Range
  <2>2. Range(s) \subseteq Range(t)
    BY <1>1, <1>9 DEF Range
  <2>. QED  BY <1>10, <2>1, <2>2
<1>12. Increasing(t)
  BY <1>6, <1>7 DEF Increasing
<1>. QED  BY <1>5, <1>11, <1>12 DEF t

LEMMA InsertedType ==
    ASSUME NEW s \in Seq(Entry), NEW e \in Entry
    PROVE  Inserted(s, e) \in Seq(Entry)
<1>. DEFINE n == Len(s)
            D == {i \in DOMAIN s : Before(s[i], e)}
            k == Cardinality(D)
            t == Inserted(s, e)
<1>1. n \in Nat /\ n = Len(s) /\ D \in SUBSET (1 .. n)
  OBVIOUS
<1>2. k \in 0 .. n
  <2>1. IsFiniteSet(1 .. n) /\ Cardinality(1 .. n) = n
    BY SMTT(30), <1>1, FS_Interval
  <2>. HIDE DEF D
  <2>2. IsFiniteSet(D) /\ k <= n
    BY <1>1, <2>1, FS_Subset
  <2>3. k \in Nat
    BY <2>2, FS_CardinalityType
  <2>. QED  BY <1>1, <2>2, <2>3
<1>3. PutsIn(t, s, e, k, n)
  BY DEF Inserted, PutsIn
<1>. HIDE DEF D, k, t, n
<1>4. t \in Seq(Entry)
  BY <1>1, <1>2, <1>3, PutIn
<1>. QED  BY <1>4 DEF t

Sorts(f, es) ==
    f = [n \in 0 .. Len(es) |-> IF n = 0 THEN <<>> ELSE Inserted(f[n - 1], es[n])]

SortsAt(f, es, n) == f[n] = IF n = 0 THEN <<>> ELSE Inserted(f[n - 1], es[n])

LEMMA SortsIs ==
    ASSUME NEW f, NEW es, Sorts(f, es), NEW n \in 0 .. Len(es)
    PROVE  SortsAt(f, es, n)
<1>. DEFINE e(k) == IF k = 0 THEN <<>> ELSE Inserted(f[k - 1], es[k])
<1>1. f = [k \in 0 .. Len(es) |-> e(k)]
  BY DEF Sorts
<1>2. f[n] = e(n)
  <2>. HIDE DEF e
  <2>. QED  BY <1>1
<1>. QED  BY <1>2 DEF SortsAt

LEMMA SortsExists ==
    ASSUME NEW es \in Seq(Entry)
    PROVE  \E f : Sorts(f, es)
<1>. DEFINE n == Len(es)
            S == Seq(Entry)
            e(s, i) == Inserted(s, es[i])
            step == [x \in S \X (1 .. n) |-> e(x[1], x[2])]
<1>1. ASSUME NEW s \in S, NEW i \in 1 .. n PROVE e(s, i) \in S
  <2>1. es[i] \in Entry
    OBVIOUS
  <2>. QED  BY <2>1, InsertedType
<1>2. n \in Nat /\ <<>> \in S
  OBVIOUS
<1>. HIDE DEF e, S
<1>3. step \in [S \X (1 .. n) -> S]
  BY <1>1
<1>4. \A s \in S, i \in 1 .. n : step[<<s, i>>] = e(s, i)
  OBVIOUS
<1>. HIDE DEF step, n
<1>a. PICK f : Recurs(f, n, S, <<>>, step)
  BY <1>2, <1>3, RecursionExists
<1>5. f \in [0 .. n -> S] /\ f[0] = <<>> /\ \A i \in 1 .. n : f[i] = step[<<f[i - 1], i>>]
  BY <1>a DEF Recurs
<1>6. ASSUME NEW i \in 0 .. n PROVE f[i] = IF i = 0 THEN <<>> ELSE e(f[i - 1], i)
  <2>1. CASE i = 0
    BY <1>5, <2>1
  <2>2. CASE i # 0
    <3>1. i \in 1 .. n /\ i - 1 \in 0 .. n
      BY <1>2, <2>2
    <3>2. f[i - 1] \in S
      BY <1>5, <3>1
    <3>. QED  BY <1>4, <1>5, <2>2, <3>1, <3>2
  <2>. QED  BY <2>1, <2>2
<1>7. f = [i \in 0 .. n |-> IF i = 0 THEN <<>> ELSE e(f[i - 1], i)]
  <2>1. f = [i \in 0 .. n |-> f[i]]
    BY <1>5
  <2>. QED  BY <1>6, <2>1
<1>8. Sorts(f, es)
  BY <1>7 DEF Sorts, e, n
<1>. QED  BY <1>8

\* Different entries sorted: the same ones, in increasing order.
Differ(es) == \A i, j \in DOMAIN es : i < j => es[i] # es[j]

LEMMA SortedIs ==
    ASSUME NEW es \in Seq(Entry), Differ(es)
    PROVE  /\ Sorted(es) \in Seq(Entry) /\ Increasing(Sorted(es))
           /\ Range(Sorted(es)) = Range(es)
<1>. DEFINE f == CHOOSE g : Sorts(g, es)
            n == Len(es)
            Some(k) == {es[i] : i \in 1 .. k}
            Right(k) == f[k] \in Seq(Entry) /\ Increasing(f[k]) /\ Range(f[k]) = Some(k)
<1>1. Sorted(es) = f[n]
  BY Zenon DEF Sorted, Sorts
<1>2. Sorts(f, es)
  BY Zenon, SortsExists
<1>3. n \in Nat /\ DOMAIN es = 1 .. n /\ \A i \in 1 .. n : es[i] \in Entry
  OBVIOUS
<1>. HIDE DEF f
<1>4. Right(0)
  <2>1. SortsAt(f, es, 0)
    BY <1>2, <1>3, SortsIs
  <2>2. f[0] = <<>>
    BY <2>1 DEF SortsAt
  <2>3. Some(0) = {}
    OBVIOUS
  <2>. QED  BY <2>2, <2>3 DEF Increasing, Range
<1>5. ASSUME NEW k \in 1 .. n, Right(k - 1) PROVE Right(k)
  <2>1. k \in 0 .. n /\ k # 0
    OBVIOUS
  <2>2. f[k] = Inserted(f[k - 1], es[k])
    BY <1>2, <2>1, SortsIs DEF SortsAt
  <2>3. es[k] \in Entry
    BY <1>3
  <2>4. es[k] \notin Some(k - 1)
    <3>. SUFFICES ASSUME NEW i \in 1 .. k - 1, es[k] = es[i] PROVE FALSE
      OBVIOUS
    <3>1. i \in 1 .. n /\ i < k
      BY <1>3
    <3>. QED  BY <1>3, <3>1 DEF Differ
  <2>5. Some(k) = Some(k - 1) \cup {es[k]}
    <3>1. 1 .. k = 1 .. k - 1 \cup {k}
      OBVIOUS
    <3>. QED  BY <3>1
  <2>. HIDE DEF Some
  <2>6. es[k] \notin Range(f[k - 1])
    BY <1>5, <2>4
  <2>7. /\ Inserted(f[k - 1], es[k]) \in Seq(Entry) /\ Increasing(Inserted(f[k - 1], es[k]))
        /\ Range(Inserted(f[k - 1], es[k])) = Range(f[k - 1]) \cup {es[k]}
    BY <1>5, <2>3, <2>6, InsertedIs
  <2>. QED  BY <1>5, <2>2, <2>5, <2>7
<1>. DEFINE T == {k \in Nat : k <= n => Right(k)}
<1>6. 0 \in T
  BY <1>4
<1>7. ASSUME NEW k \in T PROVE k + 1 \in T
  <2>. HIDE DEF Right
  <2>1. k + 1 <= n => k + 1 \in 1 .. n /\ (k + 1) - 1 = k /\ Right(k)
    BY <1>3
  <2>2. k + 1 <= n => Right(k + 1)
    BY <1>5, <2>1
  <2>. QED  BY <2>2
<1>8. T \in SUBSET Nat
  OBVIOUS
<1>. HIDE DEF T, Right
<1>9. n \in T
  BY <1>3, <1>6, <1>7, <1>8, NatInduct
<1>10. Right(n)
  BY <1>3, <1>9 DEF T
<1>11. Some(n) = Range(es)
  BY <1>3 DEF Range
<1>. QED  BY <1>1, <1>10, <1>11 DEF Right


-----------------------------------------------------------------------------
(* The histogram.                                                          *)

Item == SUBSET (0 .. 31)

EntryOf(fp, source, i) == [hash |-> Hash(fp[i]), source |-> source, offset |-> i - 1]

LEMMA EntryOfIs ==
    ASSUME NEW fp, NEW source \in {1, 2}, NEW i \in Nat \ {0}
    PROVE  /\ EntryOf(fp, source, i) \in Entry
           /\ EntryOf(fp, source, i).hash = Hash(fp[i])
           /\ EntryOf(fp, source, i).source = source
           /\ EntryOf(fp, source, i).offset = i - 1
<1>1. Hash(fp[i]) \in Nat
  BY HashAgrees
<1>. QED  BY <1>1 DEF EntryOf, Entry

LEMMA EntriesIs ==
    ASSUME NEW fp \in Seq(Item), NEW source \in {1, 2}
    PROVE  /\ Entries(fp, source) \in Seq(Entry) /\ Len(Entries(fp, source)) = Len(fp)
           /\ \A i \in 1 .. Len(fp) : Entries(fp, source)[i] = EntryOf(fp, source, i)
<1>. DEFINE n == Len(fp)
            es == [i \in 1 .. n |-> EntryOf(fp, source, i)]
<1>1. es = Entries(fp, source)
  BY DEF Entries, EntryOf
<1>2. n \in Nat
  OBVIOUS
<1>3. ASSUME NEW i \in 1 .. n PROVE EntryOf(fp, source, i) \in Entry
  <2>1. i \in Nat \ {0}
    BY <1>2
  <2>. QED  BY <2>1, EntryOfIs
<1>. HIDE DEF n
<1>4. es \in [1 .. n -> Entry] /\ \A i \in 1 .. n : es[i] = EntryOf(fp, source, i)
  BY <1>3
<1>. HIDE DEF es
<1>5. es \in Seq(Entry) /\ Len(es) = n
  BY <1>2, <1>4
<1>. QED  BY <1>1, <1>4, <1>5 DEF n

\* The entries of both fingerprints, in order.
LEMMA OffsetsIs ==
    ASSUME NEW fp1 \in Seq(Item), NEW fp2 \in Seq(Item)
    PROVE  /\ Offsets(fp1, fp2) \in Seq(Entry) /\ Increasing(Offsets(fp1, fp2))
           /\ Range(Offsets(fp1, fp2)) = {EntryOf(fp1, 1, i) : i \in 1 .. Len(fp1)}
                                            \cup {EntryOf(fp2, 2, i) : i \in 1 .. Len(fp2)}
<1>. DEFINE a == Entries(fp1, 1)
            b == Entries(fp2, 2)
            t == a \o b
            m == Len(fp1)
            n == Len(fp2)
<1>1. m \in Nat /\ n \in Nat
  OBVIOUS
<1>2. /\ a \in Seq(Entry) /\ Len(a) = m /\ \A i \in 1 .. m : a[i] = EntryOf(fp1, 1, i)
      /\ b \in Seq(Entry) /\ Len(b) = n /\ \A i \in 1 .. n : b[i] = EntryOf(fp2, 2, i)
  BY EntriesIs
<1>3. Concat(t, a, b)
  BY DEF Concat
<1>. HIDE DEF a, b, m, n, t
<1>4. t \in Seq(Entry) /\ Len(t) = m + n /\ Joins(t, a, b, m, n)
  BY <1>2, <1>3, Joined
<1>5. \A i \in 1 .. m : t[i] = EntryOf(fp1, 1, i)
  BY <1>2, <1>4 DEF Joins
<1>6. \A i \in 1 .. n : t[m + i] = EntryOf(fp2, 2, i)
  BY <1>2, <1>4 DEF Joins
<1>7. DOMAIN t = 1 .. m + n
  BY <1>1, <1>4
<1>8. Differ(t)
  <2>. SUFFICES ASSUME NEW i \in 1 .. m + n, NEW j \in 1 .. m + n, i < j, t[i] = t[j]
                PROVE  FALSE
    BY <1>7 DEF Differ
  <2>1. CASE j <= m
    <3>1. i \in 1 .. m /\ j \in 1 .. m /\ i \in Nat \ {0} /\ j \in Nat \ {0}
      BY <1>1, <2>1
    <3>2. t[i] = EntryOf(fp1, 1, i) /\ t[j] = EntryOf(fp1, 1, j)
      BY <1>5, <3>1
    <3>3. EntryOf(fp1, 1, i).offset = i - 1 /\ EntryOf(fp1, 1, j).offset = j - 1
      BY <3>1, EntryOfIs
    <3>4. i - 1 = j - 1
      BY <3>2, <3>3
    <3>. QED  BY <3>4
  <2>2. CASE i <= m /\ m < j
    <3>. DEFINE k == j - m
    <3>1. i \in 1 .. m /\ k \in 1 .. n /\ m + k = j /\ i \in Nat \ {0} /\ k \in Nat \ {0}
      BY <1>1, <2>2
    <3>. HIDE DEF k
    <3>2. t[i] = EntryOf(fp1, 1, i) /\ t[j] = EntryOf(fp2, 2, k)
      BY <1>5, <1>6, <3>1
    <3>3. EntryOf(fp1, 1, i).source = 1 /\ EntryOf(fp2, 2, k).source = 2
      BY <3>1, EntryOfIs
    <3>4. EntryOf(fp1, 1, i).source = EntryOf(fp2, 2, k).source
      BY <3>2
    <3>5. 1 = 2
      BY Zenon, <3>3, <3>4
    <3>. QED  BY <3>5
  <2>3. CASE m < i
    <3>. DEFINE k == i - m
                l == j - m
    <3>1. /\ k \in 1 .. n /\ l \in 1 .. n /\ m + k = i /\ m + l = j /\ k < l
          /\ k \in Nat \ {0} /\ l \in Nat \ {0}
      BY <1>1, <2>3
    <3>. HIDE DEF k, l
    <3>2. t[i] = EntryOf(fp2, 2, k) /\ t[j] = EntryOf(fp2, 2, l)
      BY <1>6, <3>1
    <3>3. EntryOf(fp2, 2, k).offset = k - 1 /\ EntryOf(fp2, 2, l).offset = l - 1
      BY <3>1, EntryOfIs
    <3>4. k - 1 = l - 1
      BY <3>2, <3>3
    <3>. QED  BY <3>1, <3>4
  <2>. QED  BY <1>1, <2>1, <2>2, <2>3
<1>9. Range(t) = {EntryOf(fp1, 1, i) : i \in 1 .. m} \cup {EntryOf(fp2, 2, i) : i \in 1 .. n}
  <2>1. ASSUME NEW x \in Range(t)
        PROVE  \/ \E i \in 1 .. m : x = EntryOf(fp1, 1, i)
               \/ \E i \in 1 .. n : x = EntryOf(fp2, 2, i)
    <3>1. PICK i \in 1 .. m + n : x = t[i]
      BY <1>7, <2>1 DEF Range
    <3>2. CASE i <= m
      <4>1. i \in 1 .. m
        BY <1>1, <3>2
      <4>. QED  BY <1>5, <3>1, <4>1
    <3>3. CASE m < i
      <4>. DEFINE k == i - m
      <4>1. k \in 1 .. n /\ m + k = i
        BY <1>1, <3>3
      <4>. HIDE DEF k
      <4>. QED  BY <1>6, <3>1, <4>1
    <3>. QED  BY <1>1, <3>2, <3>3
  <2>2. ASSUME NEW i \in 1 .. m PROVE EntryOf(fp1, 1, i) \in Range(t)
    <3>1. i \in DOMAIN t
      BY <1>1, <1>7
    <3>. QED  BY <1>5, <3>1 DEF Range
  <2>3. ASSUME NEW i \in 1 .. n PROVE EntryOf(fp2, 2, i) \in Range(t)
    <3>1. m + i \in DOMAIN t
      BY <1>1, <1>7
    <3>. QED  BY <1>6, <3>1 DEF Range
  <2>. QED  BY <2>1, <2>2, <2>3
<1>10. Offsets(fp1, fp2) = Sorted(t)
  BY DEF Offsets, t, a, b
<1>. HIDE DEF t
<1>11. /\ Sorted(t) \in Seq(Entry) /\ Increasing(Sorted(t))
       /\ Range(Sorted(t)) = Range(t)
  BY <1>4, <1>8, SortedIs
<1>. QED  BY <1>9, <1>10, <1>11 DEF m, n


\* Looking ahead as long as the hash stays the same finds all entries of the
\* second fingerprint that have it.
LEMMA CountedIs ==
    ASSUME NEW o \in Seq(Entry), Increasing(o), NEW p \in DOMAIN o, NEW q \in DOMAIN o
    PROVE  <<p, q>> \in Counted(o) <=>
              o[p].source = 1 /\ o[q].source = 2 /\ o[p].hash = o[q].hash
<1>. DEFINE Ahead == /\ o[p].source = 1 /\ o[q].source = 2
                     /\ p < q /\ \A r \in p + 1 .. q : o[r].hash = o[p].hash
<1>1. <<p, q>> \in Counted(o) <=> Ahead
  BY DEF Counted
<1>2. DOMAIN o = 1 .. Len(o) /\ Len(o) \in Nat /\ \A r \in DOMAIN o : o[r] \in Entry
  OBVIOUS
<1>3. \A r \in DOMAIN o : o[r].hash \in Nat /\ o[r].source \in {1, 2} /\ o[r].offset \in Nat
  BY <1>2 DEF Entry
<1>4. ASSUME Ahead PROVE o[p].source = 1 /\ o[q].source = 2 /\ o[p].hash = o[q].hash
  <2>1. q \in p + 1 .. q
    BY <1>2, <1>4
  <2>. QED  BY <1>4, <2>1
<1>5. ASSUME o[p].source = 1, o[q].source = 2, o[p].hash = o[q].hash PROVE Ahead
  <2>1. Before(o[p], o[q]) /\ ~Before(o[q], o[p])
    BY <1>3, <1>5 DEF Before
  <2>2. p # q
    BY <1>5
  <2>3. p < q
    BY <1>2, <2>1, <2>2 DEF Increasing
  <2>4. ASSUME NEW r \in p + 1 .. q PROVE o[r].hash = o[p].hash
    <3>1. r \in DOMAIN o /\ p < r
      BY <1>2
    <3>2. o[p].hash <= o[r].hash
      <4>1. Before(o[p], o[r])
        BY <3>1 DEF Increasing
      <4>. QED  BY <1>3, <3>1, <4>1 DEF Before
    <3>3. o[r].hash <= o[q].hash
      <4>1. r = q \/ Before(o[r], o[q])
        BY <1>2, <3>1 DEF Increasing
      <4>. QED  BY <1>3, <3>1, <4>1 DEF Before
    <3>. QED  BY <1>3, <1>5, <3>1, <3>2, <3>3
  <2>. QED  BY <1>5, <2>3, <2>4
<1>. QED  BY <1>1, <1>4, <1>5

\* The pairs of items at a shift that have the same hash.
Pairs(fp1, fp2, d) ==
    {pair \in (DOMAIN fp1) \X (DOMAIN fp2) :
        /\ fp1[pair[1]] \cap 20 .. 31 = fp2[pair[2]] \cap 20 .. 31
        /\ pair[1] - pair[2] + Len(fp2) = d}

CountedAt(o, n, d) ==
    {pair \in Counted(o) : o[pair[1]].offset + n - o[pair[2]].offset = d}

\* Each pair of items with the same hash is counted once, as a pair of
\* entries.
LEMMA CountedArePairs ==
    ASSUME NEW fp1 \in Seq(Item), NEW fp2 \in Seq(Item), NEW d \in Int
    PROVE  Cardinality(CountedAt(Offsets(fp1, fp2), Len(fp2), d)) = Cardinality(Pairs(fp1, fp2, d))
<1>. DEFINE o == Offsets(fp1, fp2)
            m == Len(fp1)
            n == Len(fp2)
            A == CountedAt(o, n, d)
            B == Pairs(fp1, fp2, d)
            F(x) == <<o[x[1]].offset + 1, o[x[2]].offset + 1>>
            f == [x \in A |-> F(x)]
<1>1. m \in Nat /\ n \in Nat /\ DOMAIN fp1 = 1 .. m /\ DOMAIN fp2 = 1 .. n
  OBVIOUS
<1>. HIDE DEF m
<1>2. /\ o \in Seq(Entry) /\ Increasing(o)
      /\ Range(o) = {EntryOf(fp1, 1, i) : i \in 1 .. m} \cup {EntryOf(fp2, 2, i) : i \in 1 .. n}
  BY OffsetsIs DEF m
<1>. HIDE DEF o, n
<1>3. DOMAIN o = 1 .. Len(o) /\ Len(o) \in Nat /\ \A r \in DOMAIN o : o[r] \in Entry
  BY <1>2
<1>4. ASSUME NEW r \in DOMAIN o
      PROVE  \/ \E i \in 1 .. m : o[r] = EntryOf(fp1, 1, i)
             \/ \E i \in 1 .. n : o[r] = EntryOf(fp2, 2, i)
  <2>1. o[r] \in Range(o)
    BY DEF Range
  <2>. QED  BY <1>2, <2>1
<1>5. ASSUME NEW i \in 1 .. m
      PROVE  /\ EntryOf(fp1, 1, i).source = 1 /\ EntryOf(fp1, 1, i).offset = i - 1
             /\ EntryOf(fp1, 1, i).hash = Hash(fp1[i]) /\ i \in Int
  <2>1. i \in Nat \ {0}
    BY <1>1
  <2>. QED  BY <2>1, EntryOfIs
<1>6. ASSUME NEW i \in 1 .. n
      PROVE  /\ EntryOf(fp2, 2, i).source = 2 /\ EntryOf(fp2, 2, i).offset = i - 1
             /\ EntryOf(fp2, 2, i).hash = Hash(fp2[i]) /\ i \in Int
  <2>1. i \in Nat \ {0}
    BY <1>1
  <2>. QED  BY <2>1, EntryOfIs
<1>7. ASSUME NEW r \in DOMAIN o, o[r].source = 1
      PROVE  LET i == o[r].offset + 1 IN i \in 1 .. m /\ o[r] = EntryOf(fp1, 1, i)
  <2>1. PICK i \in 1 .. m : o[r] = EntryOf(fp1, 1, i)
    <3>1. ASSUME NEW j \in 1 .. n PROVE o[r] # EntryOf(fp2, 2, j)
      <4>1. EntryOf(fp2, 2, j).source = 2
        BY <1>6
      <4>. QED  BY <1>7, <4>1
    <3>. QED  BY <1>4, <3>1
  <2>2. o[r].offset + 1 = i
    BY <1>5, <2>1
  <2>. QED  BY <2>1, <2>2
<1>8. ASSUME NEW r \in DOMAIN o, o[r].source = 2
      PROVE  LET i == o[r].offset + 1 IN i \in 1 .. n /\ o[r] = EntryOf(fp2, 2, i)
  <2>1. PICK i \in 1 .. n : o[r] = EntryOf(fp2, 2, i)
    <3>1. ASSUME NEW j \in 1 .. m PROVE o[r] # EntryOf(fp1, 1, j)
      <4>1. EntryOf(fp1, 1, j).source = 1
        BY <1>5
      <4>. QED  BY <1>8, <4>1
    <3>. QED  BY <1>4, <3>1
  <2>2. o[r].offset + 1 = i
    BY <1>6, <2>1
  <2>. QED  BY <2>1, <2>2
<1>9. ASSUME NEW r \in DOMAIN o, NEW t \in DOMAIN o, o[r] = o[t] PROVE r = t
  <2>1. o[r] \in Entry
    BY <1>3
  <2>2. ~Before(o[r], o[r])
    BY <2>1, BeforeOrders
  <2>3. ~(r < t) /\ ~(t < r)
    BY <1>2, <1>9, <2>2 DEF Increasing
  <2>. QED  BY <1>3, <2>3
<1>10. ASSUME NEW x \in A
       PROVE  /\ x[1] \in DOMAIN o /\ x[2] \in DOMAIN o /\ x = <<x[1], x[2]>>
              /\ o[x[1]].source = 1 /\ o[x[2]].source = 2
              /\ o[x[1]].hash = o[x[2]].hash
              /\ o[x[1]].offset + n - o[x[2]].offset = d
  <2>1. /\ x \in (DOMAIN o) \X (DOMAIN o) /\ x \in Counted(o)
        /\ o[x[1]].offset + n - o[x[2]].offset = d
    BY DEF CountedAt, Counted
  <2>2. x[1] \in DOMAIN o /\ x[2] \in DOMAIN o /\ x = <<x[1], x[2]>>
    BY <2>1
  <2>. QED  BY <1>2, <2>1, <2>2, CountedIs
<1>11. ASSUME NEW x \in A PROVE F(x) \in B
  <2>. DEFINE i == o[x[1]].offset + 1
              j == o[x[2]].offset + 1
  <2>1. i \in 1 .. m /\ o[x[1]] = EntryOf(fp1, 1, i)
    BY <1>7, <1>10
  <2>2. j \in 1 .. n /\ o[x[2]] = EntryOf(fp2, 2, j)
    BY <1>8, <1>10
  <2>3. Hash(fp1[i]) = Hash(fp2[j])
    BY SMTT(30), <1>5, <1>6, <1>10, <2>1, <2>2
  <2>4. fp1[i] \cap 20 .. 31 = fp2[j] \cap 20 .. 31
    BY <2>3, HashAgrees
  <2>5. o[x[1]].offset \in Nat /\ o[x[2]].offset \in Nat
    BY <1>3, <1>10 DEF Entry
  <2>6. i - j + n = d
    <3>. DEFINE u == o[x[1]].offset
                v == o[x[2]].offset
    <3>1. u + n - v = d
      BY <1>10
    <3>a. u \in Nat /\ v \in Nat /\ n \in Nat
      BY <1>1, <2>5
    <3>. HIDE DEF u, v
    <3>2. (u + 1) - (v + 1) + n = d
      BY <3>1, <3>a
    <3>. QED  BY <3>2 DEF u, v
  <2>. HIDE DEF i, j
  <2>7. <<i, j>> \in B
    BY <1>1, <2>1, <2>2, <2>4, <2>6 DEF Pairs, n
  <2>. QED  BY <2>7 DEF i, j
<1>12. ASSUME NEW x \in A, NEW y \in A, F(x) = F(y) PROVE x = y
  <2>1. o[x[1]].offset + 1 = o[y[1]].offset + 1 /\ o[x[2]].offset + 1 = o[y[2]].offset + 1
    BY <1>12
  <2>2. o[x[1]] = o[y[1]]
    BY <1>7, <1>10, <2>1
  <2>3. o[x[2]] = o[y[2]]
    BY <1>8, <1>10, <2>1
  <2>4. x[1] = y[1] /\ x[2] = y[2]
    BY <1>9, <1>10, <2>2, <2>3
  <2>. QED  BY <1>10, <2>4
<1>13. ASSUME NEW y \in B PROVE \E x \in A : F(x) = y
  <2>. DEFINE i == y[1]
              j == y[2]
  <2>1. /\ i \in 1 .. m /\ j \in 1 .. n /\ y = <<i, j>>
        /\ fp1[i] \cap 20 .. 31 = fp2[j] \cap 20 .. 31 /\ i - j + n = d
    BY <1>1 DEF Pairs, n
  <2>. HIDE DEF i, j
  <2>2. PICK p \in DOMAIN o : o[p] = EntryOf(fp1, 1, i)
    <3>1. EntryOf(fp1, 1, i) \in Range(o)
      BY <1>2, <2>1
    <3>. QED  BY <3>1 DEF Range
  <2>3. PICK q \in DOMAIN o : o[q] = EntryOf(fp2, 2, j)
    <3>1. EntryOf(fp2, 2, j) \in Range(o)
      BY <1>2, <2>1
    <3>. QED  BY <3>1 DEF Range
  <2>4. Hash(fp1[i]) = Hash(fp2[j])
    BY <2>1, HashAgrees
  <2>5. /\ o[p].source = 1 /\ o[p].offset = i - 1 /\ o[p].hash = Hash(fp1[i]) /\ i \in Int
        /\ o[q].source = 2 /\ o[q].offset = j - 1 /\ o[q].hash = Hash(fp2[j]) /\ j \in Int
    BY <1>5, <1>6, <2>1, <2>2, <2>3
  <2>6. <<p, q>> \in Counted(o)
    BY <1>2, <2>4, <2>5, CountedIs
  <2>7. o[p].offset + n - o[q].offset = d
    BY <1>1, <2>1, <2>5
  <2>8. <<p, q>> \in A
    BY <2>6, <2>7 DEF CountedAt
  <2>9. F(<<p, q>>) = <<i, j>>
    BY <2>5
  <2>. QED  BY <2>1, <2>8, <2>9
<1>14. IsFiniteSet(A)
  <2>1. IsFiniteSet(DOMAIN o)
    BY <1>3, FS_Interval
  <2>2. IsFiniteSet((DOMAIN o) \X (DOMAIN o))
    BY <2>1, FS_Product
  <2>3. A \in SUBSET ((DOMAIN o) \X (DOMAIN o))
    BY DEF CountedAt, Counted
  <2>. QED  BY <2>2, <2>3, FS_Subset
<1>. HIDE DEF A, B, F
<1>15. f \in Bijection(A, B)
  <2>1. f \in [A -> B]
    BY <1>11
  <2>2. f \in Injection(A, B)
    BY <1>12, <2>1 DEF Injection, IsInjective
  <2>3. \A y \in B : \E x \in A : f[x] = y
    BY <1>13
  <2>4. f \in Surjection(A, B)
    BY <2>1, <2>3 DEF Surjection
  <2>. QED  BY <2>2, <2>4 DEF Bijection
<1>16. ExistsBijection(A, B)
  BY <1>15 DEF ExistsBijection
<1>17. Cardinality(B) = Cardinality(A)
  BY <1>14, <1>16, FS_Bijection
<1>. QED  BY <1>17 DEF A, B, o, n


LEMMA HistogramIs ==
    ASSUME NEW fp1 \in Seq(Item), NEW fp2 \in Seq(Item)
    PROVE  /\ Histogram(fp1, fp2) \in [0 .. Len(fp1) + Len(fp2) - 1 -> Nat]
           /\ \A d \in 0 .. Len(fp1) + Len(fp2) - 1 :
                Histogram(fp1, fp2)[d] = Cardinality(Pairs(fp1, fp2, d))
<1>. DEFINE c(d) == Cardinality(CountedAt(Offsets(fp1, fp2), Len(fp2), d))
            N == Len(fp1) + Len(fp2) - 1
            h == [d \in 0 .. N |-> c(d)]
<1>1. Histogram(fp1, fp2) = h
  BY Zenon DEF Histogram, CountedAt
<1>2. N \in Int
  OBVIOUS
<1>3. ASSUME NEW d \in 0 .. N PROVE c(d) = Cardinality(Pairs(fp1, fp2, d))
  <2>1. d \in Int
    BY <1>2
  <2>. QED  BY <2>1, CountedArePairs
<1>4. ASSUME NEW d \in 0 .. N PROVE Cardinality(Pairs(fp1, fp2, d)) \in Nat
  <2>1. IsFiniteSet(1 .. Len(fp1)) /\ IsFiniteSet(1 .. Len(fp2))
    BY FS_Interval
  <2>2. IsFiniteSet((1 .. Len(fp1)) \X (1 .. Len(fp2)))
    BY <2>1, FS_Product
  <2>3. DOMAIN fp1 = 1 .. Len(fp1) /\ DOMAIN fp2 = 1 .. Len(fp2)
    OBVIOUS
  <2>4. Pairs(fp1, fp2, d) \in SUBSET ((1 .. Len(fp1)) \X (1 .. Len(fp2)))
    BY <2>3 DEF Pairs
  <2>5. IsFiniteSet(Pairs(fp1, fp2, d))
    BY <2>2, <2>4, FS_Subset
  <2>. QED  BY <2>5, FS_CardinalityType
<1>. HIDE DEF c, N
<1>5. h \in [0 .. N -> Nat] /\ \A d \in 0 .. N : h[d] = Cardinality(Pairs(fp1, fp2, d))
  BY <1>3, <1>4
<1>. HIDE DEF h
<1>. QED  BY <1>1, <1>5 DEF N

-----------------------------------------------------------------------------
(* The alignment.                                                          *)

\* The last of the largest values.
Largest(h, d) == \A e \in DOMAIN h : h[e] < h[d] \/ (h[e] = h[d] /\ e <= d)

LEMMA LargestExists ==
    ASSUME NEW N \in Nat, NEW h \in [0 .. N -> Nat]
    PROVE  \E d \in 0 .. N : Largest(h, d)
<1>. DEFINE UpTo(m, d) == \A e \in 0 .. m : h[e] < h[d] \/ (h[e] = h[d] /\ e <= d)
            T == {m \in Nat : m <= N => \E d \in 0 .. m : UpTo(m, d)}
<1>1. 0 \in T
  <2>1. UpTo(0, 0)
    OBVIOUS
  <2>. QED  BY <2>1
<1>2. ASSUME NEW m \in T PROVE m + 1 \in T
  <2>. SUFFICES ASSUME m + 1 <= N PROVE \E d \in 0 .. m + 1 : UpTo(m + 1, d)
    OBVIOUS
  <2>1. m \in Nat /\ m + 1 \in 0 .. m + 1 /\ \A e \in 0 .. m + 1 : e \in 0 .. m \/ e = m + 1
    OBVIOUS
  <2>2. PICK d \in 0 .. m : UpTo(m, d)
    OBVIOUS
  <2>3. d \in 0 .. m + 1 /\ h[d] \in Nat /\ h[m + 1] \in Nat /\ \A e \in 0 .. m : h[e] \in Nat /\ e <= m
    BY <2>1
  <2>4. CASE h[m + 1] < h[d]
    <3>1. UpTo(m + 1, d)
      BY <2>1, <2>2, <2>4
    <3>. QED  BY <2>3, <3>1
  <2>5. CASE ~(h[m + 1] < h[d])
    <3>1. UpTo(m + 1, m + 1)
      BY <2>1, <2>2, <2>3, <2>5
    <3>. QED  BY <2>1, <3>1
  <2>. QED  BY <2>4, <2>5
<1>3. T \in SUBSET Nat
  OBVIOUS
<1>. HIDE DEF T
<1>4. N \in T
  BY <1>1, <1>2, <1>3, NatInduct
<1>5. PICK d \in 0 .. N : UpTo(N, d)
  BY <1>4 DEF T
<1>. QED  BY <1>5 DEF Largest

\* The best peak is the best shift.
LEMMA BestIs ==
    ASSUME NEW N \in Int, NEW h \in [0 .. N -> Nat], NEW c \in 0 .. N, h[c] > 1
    PROVE  /\ BestAlignment(h) \in 0 .. N /\ IsPeak(h, BestAlignment(h))
           /\ h[BestAlignment(h)] > 1
           /\ \A e \in 0 .. N : h[e] <= h[BestAlignment(h)]
<1>. DEFINE Best(d) == /\ IsPeak(h, d)
                       /\ \A e \in DOMAIN h : IsPeak(h, e) =>
                            (h[e] < h[d] \/ (h[e] = h[d] /\ e <= d))
            b == BestAlignment(h)
<1>1. N \in Nat /\ DOMAIN h = 0 .. N /\ \A e \in 0 .. N : h[e] \in Nat
  OBVIOUS
<1>2. PICK d \in 0 .. N : Largest(h, d)
  BY <1>1, LargestExists
<1>3. \A e \in 0 .. N : h[e] <= h[d]
  BY <1>1, <1>2 DEF Largest
<1>4. IsPeak(h, d)
  <2>1. h[d] > 1
    BY <1>1, <1>3
  <2>2. d > 0 => h[d - 1] <= h[d]
    <3>1. d > 0 => d - 1 \in 0 .. N
      BY <1>1
    <3>. QED  BY <1>3, <3>1
  <2>3. d + 1 \in DOMAIN h => h[d + 1] <= h[d]
    BY <1>1, <1>3
  <2>. QED  BY <2>1, <2>2, <2>3 DEF IsPeak
<1>5. Best(d)
  BY <1>1, <1>2, <1>4 DEF Largest
<1>6. b \in DOMAIN h /\ Best(b)
  <2>1. b = CHOOSE x \in DOMAIN h : Best(x)
    BY Zenon DEF BestAlignment
  <2>2. d \in DOMAIN h
    BY <1>1
  <2>. HIDE DEF Best, b
  <2>. QED  BY <1>5, <2>1, <2>2
<1>. HIDE DEF b
<1>7. h[d] <= h[b]
  BY <1>1, <1>4, <1>6
<1>8. \A e \in 0 .. N : h[e] <= h[b]
  BY <1>1, <1>3, <1>6, <1>7
<1>9. h[b] > 1
  BY <1>6 DEF IsPeak
<1>. QED  BY <1>1, <1>6, <1>8, <1>9 DEF b


-----------------------------------------------------------------------------
(* The segments.                                                           *)

\* Where the fingerprints overlap: in both of them, on the diagonal of the
\* shift, at least one item long where a pair of items has the shift.
LEMMA OverlapIs ==
    ASSUME NEW fp1 \in Seq(Item), NEW fp2 \in Seq(Item), NEW b \in Int,
           Pairs(fp1, fp2, b) # {}
    PROVE  LET o == Overlap(fp1, fp2, b)
           IN /\ o.offset1 \in Nat /\ o.offset2 \in Nat /\ o.size \in Nat \ {0}
              /\ o.offset1 + o.size <= Len(fp1) /\ o.offset2 + o.size <= Len(fp2)
              /\ o.offset1 - o.offset2 = b - Len(fp2)
<1>. DEFINE o == Overlap(fp1, fp2, b)
            m == Len(fp1)
            n == Len(fp2)
            diff == b - n
            A == m - o.offset1
            B == n - o.offset2
<1>1. m \in Nat /\ n \in Nat /\ DOMAIN fp1 = 1 .. m /\ DOMAIN fp2 = 1 .. n
  OBVIOUS
<1>2. PICK i \in 1 .. m, j \in 1 .. n : i - j + n = b
  BY <1>1 DEF Pairs
<1>3. /\ o.offset1 = IF diff > 0 THEN diff ELSE 0
      /\ o.offset2 = IF diff < 0 THEN -diff ELSE 0
      /\ o.size = Min({A, B})
  BY DEF Overlap
<1>. HIDE DEF o, m, n
<1>4. /\ o.offset1 \in Nat /\ o.offset2 \in Nat /\ o.offset1 - o.offset2 = b - n
      /\ A \in Nat \ {0} /\ B \in Nat \ {0}
  BY <1>1, <1>2, <1>3
<1>. HIDE DEF A, B
<1>5. Min({A, B}) \in {A, B} /\ Min({A, B}) <= A /\ Min({A, B}) <= B
  <2>. DEFINE P(x) == \A y \in {A, B} : x <= y
  <2>1. Min({A, B}) = CHOOSE x \in {A, B} : P(x)
    BY Zenon DEF Min
  <2>2. \E x \in {A, B} : P(x)
    BY <1>4
  <2>3. Min({A, B}) \in {A, B} /\ P(Min({A, B}))
    <3>. HIDE DEF P
    <3>. QED  BY <2>1, <2>2
  <2>. QED  BY <2>3
<1>6. o.size \in Nat \ {0} /\ o.size <= A /\ o.size <= B
  BY <1>3, <1>4, <1>5
<1>7. o.offset1 + o.size <= m /\ o.offset2 + o.size <= n
  BY SMTT(30), <1>1, <1>4, <1>6 DEF A, B
<1>. QED  BY <1>4, <1>6, <1>7 DEF o, m, n

LEMMA BitCountsAre ==
    ASSUME NEW fp1 \in Seq(Item), NEW fp2 \in Seq(Item), NEW o,
           o.offset1 \in Nat, o.offset2 \in Nat, o.size \in Nat,
           o.offset1 + o.size <= Len(fp1), o.offset2 + o.size <= Len(fp2)
    PROVE  BitCounts(fp1, fp2, o) \in [1 .. o.size -> Nat]
<1>. SUFFICES ASSUME NEW i \in 1 .. o.size
              PROVE  HammingDistance(fp1[o.offset1 + i], fp2[o.offset2 + i]) \in Nat
  BY DEF BitCounts
<1>. DEFINE x == fp1[o.offset1 + i]
            y == fp2[o.offset2 + i]
            D == (x \ y) \cup (y \ x)
<1>1. o.offset1 + i \in 1 .. Len(fp1) /\ o.offset2 + i \in 1 .. Len(fp2)
  BY SMTT(30)
<1>2. x \in Item /\ y \in Item
  BY <1>1
<1>. HIDE DEF x, y
<1>3. D \in SUBSET (0 .. 31)
  BY <1>2 DEF Item
<1>. HIDE DEF D
<1>4. IsFiniteSet(D)
  <2>1. IsFiniteSet(0 .. 31)
    <3>. DEFINE a == 0
                c == 31
    <3>1. a \in Int /\ c \in Int
      OBVIOUS
    <3>. HIDE DEF a, c
    <3>2. IsFiniteSet(a .. c)
      BY <3>1, FS_Interval
    <3>. QED  BY <3>2 DEF a, c
  <2>. QED  BY <1>3, <2>1, FS_Subset
<1>5. Cardinality(D) \in Nat
  BY <1>4, FS_CardinalityType
<1>. QED  BY <1>5 DEF HammingDistance, D, x, y

\* The peaks of the gradient, whatever it is: inside the overlap, in order.
Rising(s, size) ==
    /\ s \in Seq(Nat)
    /\ \A k \in DOMAIN s : s[k] > 0 /\ s[k] < size
    /\ \A k, l \in DOMAIN s : k < l => s[k] < s[l]

AddPeak(gradient, size, peaks, i) ==
    IF IsGradientPeak(gradient, size, i) /\ (peaks = <<>> \/ peaks[Len(peaks)] + 1 < i)
      THEN Append(peaks, i)
      ELSE peaks

AddsPeaks(f, gradient, size) ==
    f = [i \in 0 .. size |-> IF i = 0 THEN <<>> ELSE AddPeak(gradient, size, f[i - 1], i - 1)]

AddsPeaksAt(f, gradient, size, i) ==
    f[i] = IF i = 0 THEN <<>> ELSE AddPeak(gradient, size, f[i - 1], i - 1)

LEMMA AddsPeaksIs ==
    ASSUME NEW f, NEW gradient, NEW size, AddsPeaks(f, gradient, size), NEW i \in 0 .. size
    PROVE  AddsPeaksAt(f, gradient, size, i)
<1>. DEFINE e(k) == IF k = 0 THEN <<>> ELSE AddPeak(gradient, size, f[k - 1], k - 1)
<1>1. f = [k \in 0 .. size |-> e(k)]
  BY DEF AddsPeaks
<1>2. f[i] = e(i)
  <2>. HIDE DEF e
  <2>. QED  BY <1>1
<1>. QED  BY <1>2 DEF AddsPeaksAt

LEMMA AddsPeaksExists ==
    ASSUME NEW gradient, NEW size \in Nat
    PROVE  \E f : AddsPeaks(f, gradient, size)
<1>. DEFINE S == Seq(Nat)
            e(s, i) == AddPeak(gradient, size, s, i - 1)
            step == [x \in S \X (1 .. size) |-> e(x[1], x[2])]
<1>1. ASSUME NEW s \in S, NEW i \in 1 .. size PROVE e(s, i) \in S
  <2>1. i - 1 \in Nat
    OBVIOUS
  <2>2. Append(s, i - 1) \in Seq(Nat)
    BY <2>1
  <2>. QED  BY <2>2 DEF AddPeak
<1>2. <<>> \in S
  OBVIOUS
<1>. HIDE DEF e, S
<1>3. step \in [S \X (1 .. size) -> S]
  BY <1>1
<1>4. \A s \in S, i \in 1 .. size : step[<<s, i>>] = e(s, i)
  OBVIOUS
<1>. HIDE DEF step
<1>a. PICK f : Recurs(f, size, S, <<>>, step)
  BY <1>2, <1>3, RecursionExists
<1>5. f \in [0 .. size -> S] /\ f[0] = <<>> /\ \A i \in 1 .. size : f[i] = step[<<f[i - 1], i>>]
  BY <1>a DEF Recurs
<1>6. ASSUME NEW i \in 0 .. size PROVE f[i] = IF i = 0 THEN <<>> ELSE e(f[i - 1], i)
  <2>1. CASE i = 0
    BY <1>5, <2>1
  <2>2. CASE i # 0
    <3>1. i \in 1 .. size /\ i - 1 \in 0 .. size
      BY <2>2
    <3>2. f[i - 1] \in S
      BY <1>5, <3>1
    <3>. QED  BY <1>4, <1>5, <2>2, <3>1, <3>2
  <2>. QED  BY <2>1, <2>2
<1>7. f = [i \in 0 .. size |-> IF i = 0 THEN <<>> ELSE e(f[i - 1], i)]
  <2>1. f = [i \in 0 .. size |-> f[i]]
    BY <1>5
  <2>. QED  BY <1>6, <2>1
<1>8. AddsPeaks(f, gradient, size)
  BY <1>7 DEF AddsPeaks, e
<1>. QED  BY <1>8

LEMMA PeaksRise ==
    ASSUME NEW gradient, NEW size \in Nat
    PROVE  Rising(PeaksOf(gradient, size), size)
<1>. DEFINE f == CHOOSE g : AddsPeaks(g, gradient, size)
            Right(i) == Rising(f[i], size) /\ \A k \in DOMAIN f[i] : f[i][k] < i
<1>1. PeaksOf(gradient, size) = f[size]
  BY Zenon DEF PeaksOf, AddsPeaks, AddPeak
<1>2. AddsPeaks(f, gradient, size)
  BY Zenon, AddsPeaksExists
<1>. HIDE DEF f
<1>3. Right(0)
  <2>1. AddsPeaksAt(f, gradient, size, 0)
    BY <1>2, AddsPeaksIs
  <2>2. f[0] = <<>>
    BY <2>1 DEF AddsPeaksAt
  <2>. QED  BY <2>2 DEF Rising
<1>4. ASSUME NEW i \in 1 .. size, Right(i - 1) PROVE Right(i)
  <2>. DEFINE s == f[i - 1]
  <2>1. i \in 0 .. size /\ i # 0 /\ i - 1 \in Nat
    OBVIOUS
  <2>2. f[i] = AddPeak(gradient, size, s, i - 1)
    BY <1>2, <2>1, AddsPeaksIs DEF AddsPeaksAt
  <2>3. /\ s \in Seq(Nat) /\ \A k \in DOMAIN s : s[k] > 0 /\ s[k] < size /\ s[k] < i - 1
        /\ \A k, l \in DOMAIN s : k < l => s[k] < s[l]
    BY <1>4 DEF Rising
  <2>. HIDE DEF s
  <2>4. CASE f[i] = s
    <3>1. \A k \in DOMAIN s : s[k] < i
      BY <2>3
    <3>. QED  BY <2>3, <2>4, <3>1 DEF Rising
  <2>5. CASE f[i] # s
    <3>. DEFINE t == Append(s, i - 1)
                n == Len(s)
    <3>1. IsGradientPeak(gradient, size, i - 1) /\ f[i] = t
      BY <2>2, <2>5 DEF AddPeak
    <3>2. i - 1 > 0 /\ i - 1 < size
      BY <3>1 DEF IsGradientPeak
    <3>3. /\ n \in Nat /\ DOMAIN s = 1 .. n /\ DOMAIN t = 1 .. n + 1 /\ t \in Seq(Nat)
          /\ t[n + 1] = i - 1 /\ \A k \in 1 .. n : t[k] = s[k] /\ s[k] \in Nat
      BY <2>1, <2>3
    <3>. HIDE DEF t, n
    <3>4. ASSUME NEW k \in 1 .. n + 1 PROVE t[k] > 0 /\ t[k] < size /\ t[k] < i
      <4>1. CASE k = n + 1
        BY <3>2, <3>3, <4>1
      <4>2. CASE k # n + 1
        <5>1. k \in 1 .. n
          BY <3>3, <4>2
        <5>2. k \in DOMAIN s /\ t[k] = s[k] /\ s[k] \in Nat
          BY <3>3, <5>1
        <5>3. s[k] > 0 /\ s[k] < size /\ s[k] < i - 1
          BY <2>3, <5>2
        <5>. QED  BY <5>2, <5>3
      <4>. QED  BY <4>1, <4>2
    <3>5. ASSUME NEW k \in 1 .. n + 1, NEW l \in 1 .. n + 1, k < l PROVE t[k] < t[l]
      <4>1. k \in 1 .. n /\ k \in DOMAIN s /\ t[k] = s[k]
        BY <3>3, <3>5
      <4>2. CASE l = n + 1
        <5>1. s[k] < i - 1
          BY <2>3, <4>1
        <5>. QED  BY <3>3, <4>1, <4>2, <5>1
      <4>3. CASE l # n + 1
        <5>1. l \in 1 .. n /\ l \in DOMAIN s /\ t[l] = s[l]
          BY <3>3, <4>3
        <5>2. s[k] < s[l]
          BY <2>3, <3>5, <4>1, <5>1
        <5>. QED  BY <4>1, <5>1, <5>2
      <4>. QED  BY <4>2, <4>3
    <3>. QED  BY <3>1, <3>3, <3>4, <3>5 DEF Rising
  <2>. QED  BY <2>4, <2>5
<1>. DEFINE T == {i \in Nat : i <= size => Right(i)}
<1>5. 0 \in T
  BY <1>3
<1>6. ASSUME NEW i \in T PROVE i + 1 \in T
  <2>. HIDE DEF Right
  <2>1. i + 1 <= size => i + 1 \in 1 .. size /\ (i + 1) - 1 = i /\ Right(i)
    OBVIOUS
  <2>2. i + 1 <= size => Right(i + 1)
    BY <1>4, <2>1
  <2>. QED  BY <2>2
<1>7. T \in SUBSET Nat
  OBVIOUS
<1>. HIDE DEF T, Right
<1>8. size \in T
  BY <1>5, <1>6, <1>7, NatInduct
<1>9. Right(size)
  BY <1>8 DEF T
<1>. QED  BY <1>1, <1>9 DEF Right


\* The total of a part, and what it says of the items of the part.
Sums(f, s, begin, n) ==
    f = [i \in 0 .. n |-> IF i = 0 THEN 0 ELSE f[i - 1] + s[begin + i]]

SumsAt(f, s, begin, i) == f[i] = IF i = 0 THEN 0 ELSE f[i - 1] + s[begin + i]

LEMMA SumsIs ==
    ASSUME NEW f, NEW s, NEW begin, NEW n, Sums(f, s, begin, n), NEW i \in 0 .. n
    PROVE  SumsAt(f, s, begin, i)
<1>. DEFINE e(k) == IF k = 0 THEN 0 ELSE f[k - 1] + s[begin + k]
<1>1. f = [k \in 0 .. n |-> e(k)]
  BY DEF Sums
<1>2. f[i] = e(i)
  <2>. HIDE DEF e
  <2>. QED  BY <1>1
<1>. QED  BY <1>2 DEF SumsAt

LEMMA SumsExists ==
    ASSUME NEW s, NEW begin, NEW n \in Nat, \A i \in 1 .. n : s[begin + i] \in Nat
    PROVE  \E f : Sums(f, s, begin, n)
<1>. DEFINE e(x, i) == x + s[begin + i]
            step == [x \in Nat \X (1 .. n) |-> e(x[1], x[2])]
<1>1. ASSUME NEW x \in Nat, NEW i \in 1 .. n PROVE e(x, i) \in Nat
  <2>1. s[begin + i] \in Nat
    OBVIOUS
  <2>. QED  BY <2>1
<1>2. 0 \in Nat
  OBVIOUS
<1>. HIDE DEF e
<1>3. step \in [Nat \X (1 .. n) -> Nat]
  BY <1>1
<1>4. \A x \in Nat, i \in 1 .. n : step[<<x, i>>] = e(x, i)
  OBVIOUS
<1>. HIDE DEF step
<1>a. PICK f : Recurs(f, n, Nat, 0, step)
  BY <1>2, <1>3, RecursionExists
<1>5. f \in [0 .. n -> Nat] /\ f[0] = 0 /\ \A i \in 1 .. n : f[i] = step[<<f[i - 1], i>>]
  BY <1>a DEF Recurs
<1>6. ASSUME NEW i \in 0 .. n PROVE f[i] = IF i = 0 THEN 0 ELSE e(f[i - 1], i)
  <2>1. CASE i = 0
    BY <1>5, <2>1
  <2>2. CASE i # 0
    <3>1. i \in 1 .. n /\ i - 1 \in 0 .. n
      BY <2>2
    <3>2. f[i - 1] \in Nat
      BY <1>5, <3>1
    <3>. QED  BY <1>4, <1>5, <2>2, <3>1, <3>2
  <2>. QED  BY <2>1, <2>2
<1>7. f = [i \in 0 .. n |-> IF i = 0 THEN 0 ELSE e(f[i - 1], i)]
  <2>1. f = [i \in 0 .. n |-> f[i]]
    BY <1>5
  <2>. QED  BY <1>6, <2>1
<1>8. Sums(f, s, begin, n)
  BY <1>7 DEF Sums, e
<1>. QED  BY <1>8

LEMMA TotalIs ==
    ASSUME NEW s, NEW size \in Nat, s \in [1 .. size -> Nat],
           NEW begin \in Nat, NEW end \in Nat, begin < end, end <= size
    PROVE  /\ SumFromTo(s, begin, end) \in Nat
           /\ (\A i \in begin + 1 .. end : s[i] < 10) => SumFromTo(s, begin, end) < 10 * (end - begin)
           /\ (\A i \in begin + 1 .. end : ~(s[i] < 10)) => SumFromTo(s, begin, end) >= 10 * (end - begin)
<1>. DEFINE n == end - begin
            f == CHOOSE g : Sums(g, s, begin, n)
            Low == \A i \in begin + 1 .. end : s[i] < 10
            High == \A i \in begin + 1 .. end : ~(s[i] < 10)
            Right(i) == /\ f[i] \in Nat
                        /\ Low => f[i] <= 9 * i
                        /\ High => f[i] >= 10 * i
<1>1. SumFromTo(s, begin, end) = f[n]
  BY Zenon DEF SumFromTo, Sums
<1>2. n \in Nat /\ n > 0
  OBVIOUS
<1>3. ASSUME NEW i \in 1 .. n
      PROVE  /\ s[begin + i] \in Nat
             /\ Low => s[begin + i] < 10
             /\ High => s[begin + i] >= 10
  <2>1. begin + i \in 1 .. size /\ begin + i \in begin + 1 .. end
    OBVIOUS
  <2>. QED  BY <2>1
<1>. HIDE DEF n, Low, High
<1>4. Sums(f, s, begin, n)
  <2>1. \A i \in 1 .. n : s[begin + i] \in Nat
    BY <1>3
  <2>. HIDE DEF f
  <2>2. \E g : Sums(g, s, begin, n)
    BY <1>2, <2>1, SumsExists
  <2>. QED  BY Zenon, <2>2 DEF f
<1>. HIDE DEF f
<1>5. Right(0)
  <2>1. SumsAt(f, s, begin, 0)
    BY <1>2, <1>4, SumsIs
  <2>. QED  BY <2>1 DEF SumsAt
<1>6. ASSUME NEW i \in 1 .. n, Right(i - 1) PROVE Right(i)
  <2>1. i \in 0 .. n /\ i # 0 /\ i \in Nat
    BY <1>2
  <2>2. f[i] = f[i - 1] + s[begin + i]
    BY <1>4, <2>1, SumsIs DEF SumsAt
  <2>3. /\ s[begin + i] \in Nat
        /\ Low => s[begin + i] < 10
        /\ High => s[begin + i] >= 10
    BY <1>3
  <2>4. /\ f[i - 1] \in Nat
        /\ Low => f[i - 1] <= 9 * (i - 1)
        /\ High => f[i - 1] >= 10 * (i - 1)
    BY <1>6
  <2>. DEFINE u == f[i - 1]
              v == s[begin + i]
  <2>5. u \in Nat /\ v \in Nat /\ f[i] = u + v
    BY <2>2, <2>3, <2>4
  <2>6. Low => u <= 9 * (i - 1) /\ v < 10
    BY <2>3, <2>4
  <2>7. High => u >= 10 * (i - 1) /\ v >= 10
    BY <2>3, <2>4
  <2>. HIDE DEF u, v
  <2>. QED  BY <2>1, <2>5, <2>6, <2>7
<1>. DEFINE T == {i \in Nat : i <= n => Right(i)}
<1>7. 0 \in T
  BY <1>5
<1>8. ASSUME NEW i \in T PROVE i + 1 \in T
  <2>. HIDE DEF Right
  <2>1. i + 1 <= n => i + 1 \in 1 .. n /\ (i + 1) - 1 = i /\ Right(i)
    BY <1>2
  <2>2. i + 1 <= n => Right(i + 1)
    BY <1>6, <2>1
  <2>. QED  BY <2>2
<1>9. T \in SUBSET Nat
  OBVIOUS
<1>. HIDE DEF T, Right
<1>10. n \in T
  BY <1>2, <1>7, <1>8, <1>9, NatInduct
<1>11. Right(n)
  BY <1>2, <1>10 DEF T
<1>12. f[n] \in Nat /\ (Low => f[n] < 10 * n) /\ (High => f[n] >= 10 * n)
  BY <1>2, <1>11 DEF Right
<1>. QED  BY <1>1, <1>12 DEF n, Low, High


\* What the segments found up to `begin` are.
Segment == [pos1 : Nat, pos2 : Nat, duration : Nat, total : Nat]

EndOf(s) == s.pos1 + s.duration

Lies(o, begin, s) ==
    /\ s \in Segment /\ s.duration > 0 /\ s.pos1 >= o.offset1
    /\ s.pos1 - s.pos2 = o.offset1 - o.offset2
    /\ EndOf(s) <= o.offset1 + begin

AllNear(bit_counts, begin, end) == \A i \in begin + 1 .. end : bit_counts[i] < 10
SomeNear(bit_counts, end) == \E i \in 1 .. end : bit_counts[i] < 10

InOrder(segments) ==
    \A k \in DOMAIN segments : k > 1 => EndOf(segments[k - 1]) <= segments[k].pos1

Covers(o, begin, segments) ==
    /\ segments # <<>> /\ segments[1].pos1 = o.offset1
    /\ EndOf(segments[Len(segments)]) = o.offset1 + begin
    /\ \A k \in 2 .. Len(segments) : EndOf(segments[k - 1]) = segments[k].pos1

Good(o, bit_counts, begin, segments) ==
    /\ segments \in Seq(Segment)
    /\ \A k \in DOMAIN segments : Lies(o, begin, segments[k])
    /\ InOrder(segments)
    /\ begin > 0 /\ AllNear(bit_counts, 0, begin) => Covers(o, begin, segments)
    /\ segments # <<>> => SomeNear(bit_counts, begin)

\* An overlap.
Overlaps(o) == o.offset1 \in Nat /\ o.offset2 \in Nat /\ o.size \in Nat \ {0}

LEMMA LiesOn ==
    ASSUME NEW o, Overlaps(o), NEW begin \in Nat, NEW end \in Nat, begin < end,
           NEW s, Lies(o, begin, s)
    PROVE  Lies(o, end, s)
<1>1. s.pos1 \in Nat /\ s.duration \in Nat /\ o.offset1 \in Nat /\ s.pos1 + s.duration <= o.offset1 + begin
  BY DEF Lies, Segment, Overlaps, EndOf
<1>2. EndOf(s) <= o.offset1 + end
  BY <1>1 DEF EndOf
<1>. QED  BY <1>2 DEF Lies

LEMMA PartLies ==
    ASSUME NEW o, Overlaps(o), NEW bit_counts \in [1 .. o.size -> Nat],
           NEW begin \in Nat, NEW end \in Nat, begin < end, end <= o.size
    PROVE  LET part == Part(o, bit_counts, begin, end)
           IN /\ Lies(o, end, part) /\ part.pos1 = o.offset1 + begin
              /\ EndOf(part) = o.offset1 + end /\ part.duration = end - begin
              /\ AllNear(bit_counts, begin, end) => part.total < 10 * part.duration
              /\ part.total < 10 * part.duration => SomeNear(bit_counts, end)
<1>. DEFINE part == Part(o, bit_counts, begin, end)
            total == SumFromTo(bit_counts, begin, end)
            size == o.size
<1>1. /\ part = [pos1 |-> o.offset1 + begin, pos2 |-> o.offset2 + begin,
                 duration |-> end - begin, total |-> total]
      /\ o.offset1 \in Nat /\ o.offset2 \in Nat /\ size \in Nat
  BY DEF Part, Overlaps
<1>. HIDE DEF size
<1>2. /\ total \in Nat
      /\ (\A i \in begin + 1 .. end : bit_counts[i] < 10) => total < 10 * (end - begin)
      /\ (\A i \in begin + 1 .. end : ~(bit_counts[i] < 10)) => total >= 10 * (end - begin)
  <2>1. bit_counts \in [1 .. size -> Nat] /\ end <= size
    BY DEF size
  <2>. HIDE DEF total
  <2>. QED  BY <1>1, <2>1, TotalIs DEF total
<1>. HIDE DEF total, part
<1>3. /\ part.pos1 = o.offset1 + begin /\ part.pos2 = o.offset2 + begin
      /\ part.duration = end - begin /\ part.total = total /\ part \in Segment
  BY <1>1, <1>2 DEF Segment
<1>4. EndOf(part) = o.offset1 + end
  <2>. DEFINE at == o.offset1
  <2>1. at \in Nat
    BY <1>1
  <2>2. EndOf(part) = (at + begin) + (end - begin)
    BY <1>3 DEF EndOf
  <2>. HIDE DEF at
  <2>3. (at + begin) + (end - begin) = at + end
    BY <2>1
  <2>. QED  BY <2>2, <2>3 DEF at
<1>5. Lies(o, end, part)
  <2>1. part.pos1 - part.pos2 = o.offset1 - o.offset2
    BY <1>1, <1>3
  <2>2. part.duration > 0 /\ part.pos1 >= o.offset1 /\ EndOf(part) <= o.offset1 + end
    BY <1>1, <1>3, <1>4
  <2>. QED  BY <1>3, <2>1, <2>2 DEF Lies
<1>6. AllNear(bit_counts, begin, end) => part.total < 10 * part.duration
  BY <1>2, <1>3 DEF AllNear
<1>7. ASSUME part.total < 10 * part.duration PROVE SomeNear(bit_counts, end)
  <2>1. total < 10 * (end - begin)
    BY <1>3, <1>7
  <2>2. \E i \in begin + 1 .. end : bit_counts[i] < 10
    BY <1>2, <2>1
  <2>3. begin + 1 .. end \subseteq 1 .. end
    OBVIOUS
  <2>. QED  BY <2>2, <2>3 DEF SomeNear
<1>. QED  BY <1>3, <1>4, <1>5, <1>6, <1>7 DEF part

LEMMA NearSplits ==
    ASSUME NEW bit_counts, NEW begin \in Nat, NEW end \in Nat, begin < end
    PROVE  /\ AllNear(bit_counts, 0, end) => AllNear(bit_counts, 0, begin) /\ AllNear(bit_counts, begin, end)
           /\ SomeNear(bit_counts, begin) => SomeNear(bit_counts, end)
<1>1. 0 + 1 .. begin \subseteq 0 + 1 .. end /\ begin + 1 .. end \subseteq 0 + 1 .. end
  OBVIOUS
<1>2. 1 .. begin \subseteq 1 .. end
  OBVIOUS
<1>. QED  BY <1>1, <1>2 DEF AllNear, SomeNear


\* A part that is not near enough.
LEMMA GoodWithout ==
    ASSUME NEW o, Overlaps(o), NEW bit_counts \in [1 .. o.size -> Nat],
           NEW begin \in Nat, NEW end \in Nat, begin < end, end <= o.size,
           NEW segments, Good(o, bit_counts, begin, segments),
           ~(Part(o, bit_counts, begin, end).total < 10 * Part(o, bit_counts, begin, end).duration)
    PROVE  Good(o, bit_counts, end, segments)
<1>1. ~AllNear(bit_counts, 0, end)
  BY PartLies, NearSplits
<1>2. \A k \in DOMAIN segments : Lies(o, end, segments[k])
  BY LiesOn DEF Good
<1>3. segments # <<>> => SomeNear(bit_counts, end)
  BY NearSplits DEF Good
<1>. QED  BY <1>1, <1>2, <1>3 DEF Good

\* A part that becomes a segment of its own.
LEMMA GoodAppended ==
    ASSUME NEW o, Overlaps(o), NEW bit_counts \in [1 .. o.size -> Nat],
           NEW begin \in Nat, NEW end \in Nat, begin < end, end <= o.size,
           NEW segments, Good(o, bit_counts, begin, segments),
           NEW part, part = Part(o, bit_counts, begin, end), part.total < 10 * part.duration
    PROVE  Good(o, bit_counts, end, Append(segments, part))
<1>. DEFINE t == Append(segments, part)
            n == Len(segments)
<1>1. /\ Lies(o, end, part) /\ part.pos1 = o.offset1 + begin /\ EndOf(part) = o.offset1 + end
      /\ SomeNear(bit_counts, end)
  BY PartLies
<1>2. /\ segments \in Seq(Segment) /\ \A k \in DOMAIN segments : Lies(o, begin, segments[k])
      /\ InOrder(segments)
      /\ begin > 0 /\ AllNear(bit_counts, 0, begin) => Covers(o, begin, segments)
      /\ segments # <<>> => SomeNear(bit_counts, begin)
  BY DEF Good
<1>3. part \in Segment
  BY <1>1 DEF Lies
<1>4. /\ t \in Seq(Segment) /\ n \in Nat /\ DOMAIN t = 1 .. n + 1 /\ Len(t) = n + 1
      /\ DOMAIN segments = 1 .. n
      /\ t[n + 1] = part /\ \A k \in 1 .. n : t[k] = segments[k]
      /\ segments # <<>> <=> n > 0
      /\ t # <<>>
  <2>1. segments \in Seq(Segment)
    BY <1>2
  <2>2. n \in Nat /\ DOMAIN segments = 1 .. n /\ (segments # <<>> <=> n > 0)
    BY <2>1
  <2>3. t \in Seq(Segment) /\ Len(t) = n + 1 /\ DOMAIN t = 1 .. n + 1 /\ t # <<>>
    BY <1>3, <2>1
  <2>4. t[n + 1] = part /\ \A k \in 1 .. n : t[k] = segments[k]
    BY <1>3, <2>1
  <2>. QED  BY <2>2, <2>3, <2>4
<1>. HIDE DEF t, n
<1>5. ASSUME NEW k \in 1 .. n + 1 PROVE Lies(o, end, t[k])
  <2>1. CASE k = n + 1
    BY <1>1, <1>4, <2>1
  <2>2. CASE k # n + 1
    <3>1. k \in 1 .. n
      BY <1>4, <2>2
    <3>2. k \in DOMAIN segments /\ t[k] = segments[k]
      BY <1>4, <3>1
    <3>. QED  BY <1>2, <3>2, LiesOn
  <2>. QED  BY <2>1, <2>2
<1>6. InOrder(t)
  <2>. SUFFICES ASSUME NEW k \in 1 .. n + 1, k > 1 PROVE EndOf(t[k - 1]) <= t[k].pos1
    BY <1>4 DEF InOrder
  <2>1. k - 1 \in 1 .. n /\ t[k - 1] = segments[k - 1]
    BY <1>4
  <2>2. CASE k = n + 1
    <3>1. Lies(o, begin, segments[k - 1])
      BY <1>2, <1>4, <2>1
    <3>. QED  BY <1>1, <1>4, <2>1, <2>2, <3>1 DEF Lies
  <2>3. CASE k # n + 1
    <3>1. k \in 1 .. n /\ k \in DOMAIN segments /\ t[k] = segments[k]
      BY <1>4, <2>3
    <3>. QED  BY <1>2, <2>1, <3>1 DEF InOrder
  <2>. QED  BY <2>2, <2>3
<1>7. ASSUME AllNear(bit_counts, 0, end) PROVE Covers(o, end, t)
  <2>1. AllNear(bit_counts, 0, begin)
    BY <1>7, NearSplits
  <2>2. EndOf(t[Len(t)]) = o.offset1 + end
    BY <1>1, <1>4
  <2>3. CASE begin = 0
    <3>1. ~SomeNear(bit_counts, begin)
      BY <2>3 DEF SomeNear
    <3>2. n = 0
      BY <1>2, <1>4, <3>1
    <3>3. t[1] = part /\ part.pos1 = o.offset1
      BY <1>1, <1>4, <2>3, <3>2 DEF Overlaps
    <3>4. 2 .. Len(t) = {}
      BY <1>4, <3>2
    <3>. QED  BY <1>4, <2>2, <3>3, <3>4 DEF Covers
  <2>4. CASE begin > 0
    <3>1. Covers(o, begin, segments)
      BY <1>2, <2>1, <2>4
    <3>2. n > 0 /\ n \in 1 .. n /\ 1 \in 1 .. n
      BY <1>4, <3>1 DEF Covers
    <3>3. t[1].pos1 = o.offset1
      BY <1>4, <3>1, <3>2 DEF Covers
    <3>4. ASSUME NEW k \in 2 .. n + 1 PROVE EndOf(t[k - 1]) = t[k].pos1
      <4>1. k - 1 \in 1 .. n /\ t[k - 1] = segments[k - 1]
        BY <1>4
      <4>2. CASE k = n + 1
        <5>1. k - 1 = n /\ n = Len(segments)
          BY <1>4, <4>2 DEF n
        <5>2. EndOf(segments[n]) = o.offset1 + begin
          BY <3>1, <5>1 DEF Covers
        <5>. QED  BY <1>1, <1>4, <4>1, <4>2, <5>1, <5>2
      <4>3. CASE k # n + 1
        <5>1. k \in 1 .. n /\ k \in 2 .. Len(segments) /\ t[k] = segments[k]
          BY <1>4, <4>3 DEF n
        <5>. QED  BY <3>1, <4>1, <5>1 DEF Covers
      <4>. QED  BY <4>2, <4>3
    <3>. QED  BY <1>4, <2>2, <3>3, <3>4 DEF Covers
  <2>. QED  BY <2>3, <2>4
<1>8. Good(o, bit_counts, end, t)
  BY <1>1, <1>4, <1>5, <1>6, <1>7 DEF Good
<1>. QED  BY <1>8 DEF t

\* A part that is merged with the last segment.
LEMMA GoodMerged ==
    ASSUME NEW o, Overlaps(o), NEW bit_counts \in [1 .. o.size -> Nat],
           NEW begin \in Nat, NEW end \in Nat, begin < end, end <= o.size,
           NEW segments, Good(o, bit_counts, begin, segments), Len(segments) > 0,
           NEW part, part = Part(o, bit_counts, begin, end), part.total < 10 * part.duration,
           NEW n, n = Len(segments)
    PROVE  Good(o, bit_counts, end, [segments EXCEPT ![n] = Merged(segments[n], part)])
<1>. DEFINE last == segments[n]
            merged == Merged(last, part)
            t == [segments EXCEPT ![n] = merged]
<1>1. /\ Lies(o, end, part) /\ part.pos1 = o.offset1 + begin /\ EndOf(part) = o.offset1 + end
      /\ SomeNear(bit_counts, end) /\ part.duration = end - begin
  BY PartLies
<1>2. /\ segments \in Seq(Segment) /\ \A k \in DOMAIN segments : Lies(o, begin, segments[k])
      /\ InOrder(segments)
      /\ begin > 0 /\ AllNear(bit_counts, 0, begin) => Covers(o, begin, segments)
      /\ segments # <<>> => SomeNear(bit_counts, begin)
  BY DEF Good
<1>3. n \in Nat /\ n > 0 /\ n \in 1 .. n /\ DOMAIN segments = 1 .. n /\ segments # <<>>
  BY <1>2
<1>4. Lies(o, begin, last) /\ last \in Segment
  BY <1>2, <1>3 DEF Lies
<1>5. merged \in Segment
  <2>1. part \in Segment
    BY <1>1 DEF Lies
  <2>2. last.duration + part.duration \in Nat /\ last.total + part.total \in Nat
    BY SMTT(30), <1>4, <2>1 DEF Segment
  <2>. HIDE DEF last
  <2>. QED  BY <1>4, <2>2 DEF Merged, Segment
<1>6. /\ merged.pos1 = last.pos1 /\ merged.pos2 = last.pos2
      /\ merged.duration = last.duration + part.duration
  BY DEF Merged
<1>. HIDE DEF merged
<1>7. /\ t \in Seq(Segment) /\ Len(t) = n /\ DOMAIN t = 1 .. n /\ t # <<>>
      /\ t[n] = merged /\ \A k \in 1 .. n : k # n => t[k] = segments[k]
  BY <1>2, <1>3, <1>5
<1>. HIDE DEF t
<1>8. /\ last.pos1 \in Nat /\ last.duration \in Nat /\ last.duration > 0 /\ o.offset1 \in Nat
      /\ last.pos1 >= o.offset1 /\ last.pos1 + last.duration <= o.offset1 + begin
      /\ last.pos1 - last.pos2 = o.offset1 - o.offset2
  BY <1>4 DEF Lies, Segment, EndOf, Overlaps
<1>. HIDE DEF last
<1>9. EndOf(merged) = last.pos1 + last.duration + (end - begin)
  BY <1>1, <1>6, <1>8 DEF EndOf
<1>10. Lies(o, end, merged)
  <2>1. EndOf(merged) <= o.offset1 + end
    BY <1>8, <1>9
  <2>2. merged.duration > 0
    BY <1>1, <1>6, <1>8
  <2>3. merged.pos1 >= o.offset1 /\ merged.pos1 - merged.pos2 = o.offset1 - o.offset2
    BY <1>6, <1>8
  <2>. QED  BY <1>5, <2>1, <2>2, <2>3 DEF Lies
<1>11. ASSUME NEW k \in 1 .. n PROVE Lies(o, end, t[k])
  <2>1. CASE k = n
    BY <1>7, <1>10, <2>1
  <2>2. CASE k # n
    <3>1. Lies(o, begin, segments[k]) /\ t[k] = segments[k]
      BY <1>2, <1>3, <1>7, <2>2
    <3>. QED  BY <3>1, LiesOn
  <2>. QED  BY <2>1, <2>2
\* The places where the segments begin stay, and all ends but the last.
<1>12. ASSUME NEW k \in 1 .. n PROVE t[k].pos1 = segments[k].pos1
  <2>1. CASE k = n
    BY <1>6, <1>7, <2>1 DEF last
  <2>2. CASE k # n
    BY <1>7, <2>2
  <2>. QED  BY <2>1, <2>2
<1>13. ASSUME NEW k \in 1 .. n, k > 1
       PROVE  /\ k - 1 \in 1 .. n /\ t[k - 1] = segments[k - 1] /\ t[k].pos1 = segments[k].pos1
              /\ k \in DOMAIN segments
  <2>1. k - 1 \in 1 .. n /\ k - 1 # n
    BY <1>3, <1>13
  <2>. QED  BY <1>3, <1>7, <1>12, <2>1
<1>14. InOrder(t)
  BY <1>2, <1>7, <1>13 DEF InOrder
<1>15. ASSUME AllNear(bit_counts, 0, end) PROVE Covers(o, end, t)
  <2>1. AllNear(bit_counts, 0, begin)
    BY <1>15, NearSplits
  <2>2. begin > 0
    <3>1. SomeNear(bit_counts, begin)
      BY <1>2, <1>3
    <3>. QED  BY <3>1 DEF SomeNear
  <2>3. Covers(o, begin, segments)
    BY <1>2, <2>1, <2>2
  <2>4. t[1].pos1 = o.offset1
    <3>1. 1 \in 1 .. n
      BY <1>3
    <3>. QED  BY <1>12, <2>3, <3>1 DEF Covers
  <2>5. EndOf(t[n]) = o.offset1 + end
    <3>1. last.pos1 + last.duration = o.offset1 + begin
      BY <2>3 DEF Covers, EndOf, last
    <3>2. EndOf(merged) = o.offset1 + end
      BY <1>8, <1>9, <3>1
    <3>. QED  BY <1>7, <3>2
  <2>6. ASSUME NEW k \in 2 .. n PROVE EndOf(t[k - 1]) = t[k].pos1
    <3>1. k \in 1 .. n /\ k > 1 /\ k \in 2 .. Len(segments)
      BY <1>3
    <3>2. EndOf(segments[k - 1]) = segments[k].pos1
      BY <2>3, <3>1 DEF Covers
    <3>. QED  BY <1>13, <3>1, <3>2
  <2>. QED  BY <1>7, <2>4, <2>5, <2>6 DEF Covers
<1>16. Good(o, bit_counts, end, t)
  BY <1>1, <1>7, <1>11, <1>14, <1>15 DEF Good
<1>. QED  BY <1>16 DEF t, merged, last


\* The parts, one after the other.
Parts(m) == m = [begin |-> m.begin, merges |-> m.merges, segments |-> m.segments]

GoodAt(o, bit_counts, begin, m) ==
    Parts(m) /\ m.begin = begin /\ Good(o, bit_counts, begin, m.segments)

LEMMA TakePartIs ==
    ASSUME NEW o, Overlaps(o), NEW bit_counts \in [1 .. o.size -> Nat],
           NEW begin \in Nat, NEW end \in Nat, begin < end, end <= o.size,
           NEW m, GoodAt(o, bit_counts, begin, m)
    PROVE  GoodAt(o, bit_counts, end, TakePart(o, bit_counts, m, end))
<1>. DEFINE part == Part(o, bit_counts, begin, end)
            n == Len(m.segments)
            merge == n > 0 /\ Similar(m.segments[n], part)
            Near == part.total < kDefaultMatchThreshold * part.duration
            merges == IF merge THEN m.merges \cup {<<m.segments[n], part>>} ELSE m.merges
            segments == IF merge THEN [m.segments EXCEPT ![n] = Merged(m.segments[n], part)]
                                 ELSE Append(m.segments, part)
            t == TakePart(o, bit_counts, m, end)
<1>1. Parts(m) /\ m.begin = begin /\ Good(o, bit_counts, begin, m.segments)
  BY DEF GoodAt
<1>2. t = IF Near THEN [begin |-> end, merges |-> merges, segments |-> segments]
                  ELSE [m EXCEPT !.begin = end]
  BY Zenon, <1>1 DEF TakePart
<1>3. Near <=> part.total < 10 * part.duration
  BY DEF kDefaultMatchThreshold
<1>. HIDE DEF Near, merge, merges, part, n, t
<1>4. CASE Near
  <2>1. t.begin = end /\ t.segments = segments /\ Parts(t)
    <3>. HIDE DEF segments
    <3>1. t = [begin |-> end, merges |-> merges, segments |-> segments]
      BY <1>2, <1>4
    <3>2. t.begin = end /\ t.segments = segments /\ t.merges = merges
      BY <3>1
    <3>. QED  BY <3>1, <3>2 DEF Parts
  <2>2. part.total < 10 * part.duration
    BY <1>3, <1>4
  <2>3. CASE merge
    <3>1. n > 0
      BY <2>3 DEF merge
    <3>2. segments = [m.segments EXCEPT ![n] = Merged(m.segments[n], part)]
      BY <2>3
    <3>3. Good(o, bit_counts, end, [m.segments EXCEPT ![n] = Merged(m.segments[n], part)])
      BY <1>1, <2>2, <3>1, GoodMerged DEF part, n
    <3>. QED  BY <2>1, <3>2, <3>3 DEF GoodAt, t
  <2>4. CASE ~merge
    <3>1. segments = Append(m.segments, part)
      BY <2>4
    <3>2. Good(o, bit_counts, end, Append(m.segments, part))
      BY <1>1, <2>2, GoodAppended DEF part
    <3>. QED  BY <2>1, <3>1, <3>2 DEF GoodAt, t
  <2>. QED  BY <2>3, <2>4
<1>5. CASE ~Near
  <2>1. t = [m EXCEPT !.begin = end]
    BY <1>2, <1>5
  <2>2. t = [begin |-> end, merges |-> m.merges, segments |-> m.segments]
    BY <1>1, <2>1 DEF Parts
  <2>3. t.begin = end /\ t.segments = m.segments /\ t.merges = m.merges
    BY <2>2
  <2>4. Parts(t)
    BY <2>2, <2>3 DEF Parts
  <2>5. ~(part.total < 10 * part.duration)
    BY <1>3, <1>5
  <2>6. Good(o, bit_counts, end, m.segments)
    BY <1>1, <2>5, GoodWithout DEF part
  <2>. QED  BY <2>3, <2>4, <2>6 DEF GoodAt, t
<1>. QED  BY <1>4, <1>5

FirstPart == [begin |-> 0, merges |-> {}, segments |-> <<>>]

TakesParts(f, o, bit_counts, ends, n) ==
    f = [k \in 0 .. n |-> IF k = 0 THEN FirstPart
                                   ELSE TakePart(o, bit_counts, f[k - 1], ends[k])]

TakesPartsAt(f, o, bit_counts, ends, k) ==
    f[k] = IF k = 0 THEN FirstPart ELSE TakePart(o, bit_counts, f[k - 1], ends[k])

LEMMA TakesPartsIs ==
    ASSUME NEW f, NEW o, NEW bit_counts, NEW ends, NEW n, TakesParts(f, o, bit_counts, ends, n),
           NEW k \in 0 .. n
    PROVE  TakesPartsAt(f, o, bit_counts, ends, k)
<1>. DEFINE e(j) == IF j = 0 THEN FirstPart ELSE TakePart(o, bit_counts, f[j - 1], ends[j])
<1>1. f = [j \in 0 .. n |-> e(j)]
  BY DEF TakesParts
<1>2. f[k] = e(k)
  <2>. HIDE DEF e
  <2>. QED  BY <1>1
<1>. QED  BY <1>2 DEF TakesPartsAt

LEMMA TakesPartsExists ==
    ASSUME NEW o, NEW bit_counts, NEW ends, NEW n \in Nat
    PROVE  \E f : TakesParts(f, o, bit_counts, ends, n)
<1>. DEFINE T == {k \in Nat : \E f : TakesParts(f, o, bit_counts, ends, k)}
<1>1. 0 \in T
  <2>1. TakesParts([k \in 0 .. 0 |-> FirstPart], o, bit_counts, ends, 0)
    BY DEF TakesParts
  <2>. QED  BY <2>1
<1>2. ASSUME NEW m \in T PROVE m + 1 \in T
  <2>1. PICK f : TakesParts(f, o, bit_counts, ends, m)
    OBVIOUS
  <2>. DEFINE next == TakePart(o, bit_counts, f[m], ends[m + 1])
              g == [k \in 0 .. m + 1 |-> IF k <= m THEN f[k] ELSE next]
              e(k) == IF k = 0 THEN FirstPart ELSE TakePart(o, bit_counts, g[k - 1], ends[k])
  <2>2. m \in Nat /\ m + 1 \in 0 .. m + 1 /\ m \in 0 .. m
    OBVIOUS
  <2>3. g = [k \in 0 .. m + 1 |-> g[k]] /\ (\A k \in 0 .. m : g[k] = f[k]) /\ g[m + 1] = next
    <3>. HIDE DEF next
    <3>. QED  OBVIOUS
  <2>. HIDE DEF g
  <2>4. ASSUME NEW k \in 0 .. m + 1 PROVE g[k] = e(k)
    <3>1. CASE k = m + 1
      <4>1. k - 1 = m /\ k # 0
        BY <2>2, <3>1
      <4>a. g[m] = f[m]
        BY <2>2, <2>3
      <4>2. g[k] = TakePart(o, bit_counts, g[k - 1], ends[k])
        BY <2>3, <3>1, <4>1, <4>a
      <4>. QED  BY <4>1, <4>2
    <3>2. CASE k # m + 1
      <4>1. k \in 0 .. m /\ (k # 0 => k - 1 \in 0 .. m)
        BY <2>2, <3>2
      <4>2. TakesPartsAt(f, o, bit_counts, ends, k)
        BY <2>1, <4>1, TakesPartsIs
      <4>3. g[k] = f[k] /\ (k # 0 => g[k - 1] = f[k - 1])
        BY <2>3, <4>1
      <4>. QED  BY <4>2, <4>3 DEF TakesPartsAt
    <3>. QED  BY <3>1, <3>2
  <2>5. g = [k \in 0 .. m + 1 |-> e(k)]
    <3>. HIDE DEF e
    <3>. QED  BY <2>3, <2>4
  <2>6. TakesParts(g, o, bit_counts, ends, m + 1)
    BY <2>5 DEF TakesParts
  <2>. QED  BY <2>2, <2>6
<1>3. T \in SUBSET Nat
  OBVIOUS
<1>. HIDE DEF T
<1>4. n \in T
  BY <1>1, <1>2, <1>3, NatInduct
<1>. QED  BY <1>4 DEF T

\* The ends of the parts: in order, the last at the end of the overlap.
EndsRight(ends, n, size) ==
    /\ n \in Nat \ {0} /\ ends[n] = size
    /\ \A k \in 1 .. n : ends[k] \in Nat /\ ends[k] > 0 /\ ends[k] <= size
    /\ \A k \in 2 .. n : ends[k - 1] < ends[k]

LEMMA EndsAre ==
    ASSUME NEW size \in Nat \ {0}, NEW peaks, Rising(peaks, size)
    PROVE  LET ends == Ends(peaks, size) IN EndsRight(ends, Len(ends), size)
<1>. DEFINE t == Append(peaks, size)
            n == Len(peaks)
<1>1. /\ peaks \in Seq(Nat) /\ \A k \in DOMAIN peaks : peaks[k] > 0 /\ peaks[k] < size
      /\ \A k, l \in DOMAIN peaks : k < l => peaks[k] < peaks[l]
  BY DEF Rising
<1>2. n \in Nat /\ DOMAIN peaks = 1 .. n /\ Len(t) = n + 1
  BY <1>1
<1>3. t[n + 1] = size /\ \A k \in 1 .. n : t[k] = peaks[k] /\ peaks[k] \in Nat
  BY <1>1
<1>. HIDE DEF t, n
<1>4. ASSUME NEW k \in 1 .. n + 1 PROVE t[k] \in Nat /\ t[k] > 0 /\ t[k] <= size
  <2>1. CASE k = n + 1
    BY <1>3, <2>1
  <2>2. CASE k # n + 1
    <3>1. k \in 1 .. n /\ k \in DOMAIN peaks
      BY <1>2, <2>2
    <3>2. t[k] = peaks[k] /\ peaks[k] \in Nat /\ peaks[k] > 0 /\ peaks[k] < size
      BY <1>1, <1>3, <3>1
    <3>. QED  BY <3>2
  <2>. QED  BY <2>1, <2>2
<1>5. ASSUME NEW k \in 2 .. n + 1 PROVE t[k - 1] < t[k]
  <2>1. k - 1 \in 1 .. n /\ k - 1 \in DOMAIN peaks
    BY <1>2
  <2>2. t[k - 1] = peaks[k - 1]
    BY <1>3, <2>1
  <2>3. CASE k = n + 1
    <3>1. peaks[k - 1] < size
      BY <1>1, <2>1
    <3>. QED  BY <1>3, <2>2, <2>3, <3>1
  <2>4. CASE k # n + 1
    <3>1. k \in 1 .. n /\ k \in DOMAIN peaks /\ k - 1 < k
      BY <1>2, <2>4
    <3>2. peaks[k - 1] < peaks[k] /\ t[k] = peaks[k]
      BY <1>1, <1>3, <2>1, <3>1
    <3>. QED  BY <2>2, <3>2
  <2>. QED  BY <2>3, <2>4
<1>6. n + 1 \in Nat \ {0}
  BY <1>2
<1>7. EndsRight(t, n + 1, size)
  BY <1>3, <1>4, <1>5, <1>6 DEF EndsRight
<1>8. Len(t) = n + 1 /\ Ends(peaks, size) = t
  BY <1>2 DEF Ends, t
<1>. QED  BY <1>7, <1>8

LEMMA PartsAreGood ==
    ASSUME NEW o, Overlaps(o), NEW bit_counts \in [1 .. o.size -> Nat],
           NEW ends, EndsRight(ends, Len(ends), o.size)
    PROVE  Good(o, bit_counts, o.size, TakeParts(o, bit_counts, ends).segments)
<1>. DEFINE n == Len(ends)
            f == CHOOSE g : TakesParts(g, o, bit_counts, ends, n)
            end(k) == IF k = 0 THEN 0 ELSE ends[k]
            Right(k) == GoodAt(o, bit_counts, end(k), f[k])
<1>1. TakeParts(o, bit_counts, ends) = f[n]
  BY Zenon DEF TakeParts, TakesParts, FirstPart
<1>2. /\ n \in Nat /\ n # 0 /\ ends[n] = o.size
      /\ \A k \in 1 .. n : ends[k] \in Nat /\ ends[k] > 0 /\ ends[k] <= o.size
      /\ \A k \in 2 .. n : ends[k - 1] < ends[k]
  BY DEF EndsRight
<1>. HIDE DEF n
<1>3. TakesParts(f, o, bit_counts, ends, n)
  BY Zenon, <1>2, TakesPartsExists
<1>. HIDE DEF f
<1>4. Right(0)
  <2>1. TakesPartsAt(f, o, bit_counts, ends, 0)
    BY <1>2, <1>3, TakesPartsIs
  <2>2. f[0] = FirstPart
    BY <2>1 DEF TakesPartsAt
  <2>3. Parts(FirstPart) /\ FirstPart.begin = 0 /\ FirstPart.segments = <<>>
    BY DEF FirstPart, Parts
  <2>4. Good(o, bit_counts, 0, <<>>)
    BY DEF Good, InOrder
  <2>. QED  BY <2>2, <2>3, <2>4 DEF GoodAt
<1>5. ASSUME NEW k \in 1 .. n, Right(k - 1) PROVE Right(k)
  <2>1. k \in 0 .. n /\ k # 0
    BY <1>2
  <2>2. f[k] = TakePart(o, bit_counts, f[k - 1], ends[k])
    BY <1>3, <2>1, TakesPartsIs DEF TakesPartsAt
  <2>3. end(k) \in Nat /\ end(k) <= o.size /\ end(k) = ends[k]
    BY <1>2, <2>1
  <2>4. end(k - 1) \in Nat /\ end(k - 1) < end(k)
    <3>1. CASE k = 1
      BY <1>2, <3>1
    <3>2. CASE k # 1
      <4>1. k \in 2 .. n /\ k - 1 \in 1 .. n /\ k - 1 # 0
        BY <1>2, <3>2
      <4>. QED  BY <1>2, <2>1, <4>1
    <3>. QED  BY <3>1, <3>2
  <2>5. GoodAt(o, bit_counts, end(k - 1), f[k - 1])
    BY <1>5
  <2>. HIDE DEF end
  <2>6. GoodAt(o, bit_counts, end(k), TakePart(o, bit_counts, f[k - 1], end(k)))
    BY <2>3, <2>4, <2>5, TakePartIs
  <2>. QED  BY <2>2, <2>3, <2>6
<1>. DEFINE T == {k \in Nat : k <= n => Right(k)}
<1>6. 0 \in T
  BY <1>4
<1>7. ASSUME NEW k \in T PROVE k + 1 \in T
  <2>. HIDE DEF Right
  <2>1. k + 1 <= n => k + 1 \in 1 .. n /\ (k + 1) - 1 = k /\ Right(k)
    BY <1>2
  <2>2. k + 1 <= n => Right(k + 1)
    BY <1>5, <2>1
  <2>. QED  BY <2>2
<1>8. T \in SUBSET Nat
  OBVIOUS
<1>. HIDE DEF T, Right
<1>9. n \in T
  BY <1>2, <1>6, <1>7, <1>8, NatInduct
<1>10. Right(n)
  BY <1>2, <1>9 DEF T
<1>11. end(n) = o.size
  BY <1>2
<1>. HIDE DEF end
<1>12. Good(o, bit_counts, o.size, f[n].segments)
  BY <1>10, <1>11 DEF Right, GoodAt
<1>. QED  BY <1>1, <1>12

-----------------------------------------------------------------------------
(* The matcher.                                                            *)

\* The best alignment of two fingerprints, and where they overlap in it.
Aligned(fp1, fp2) == BestAlignment(Histogram(fp1, fp2))
OverlapOf(fp1, fp2) == Overlap(fp1, fp2, Aligned(fp1, fp2))

\* A match that is not empty is made of the parts of the best alignment.
LEMMA MatchIs ==
    ASSUME NEW fp1 \in Seq(Item), NEW fp2 \in Seq(Item),
           Match(<<>>, fp1, fp2).segments # <<>>
    PROVE  LET h == Histogram(fp1, fp2)
               o == OverlapOf(fp1, fp2)
               bit_counts == BitCounts(fp1, fp2, o)
           IN /\ \E d \in DOMAIN h : h[d] > 1
              /\ Match(<<>>, fp1, fp2).segments =
                    TakeParts(o, bit_counts, Ends(GradientPeaks(bit_counts), o.size)).segments
<1>. DEFINE h == Histogram(fp1, fp2)
            o == OverlapOf(fp1, fp2)
            bit_counts == BitCounts(fp1, fp2, o)
            parts == TakeParts(o, bit_counts, Ends(GradientPeaks(bit_counts), o.size))
            Long == TooLong(fp1) \/ TooLong(fp2)
            Flat == \A d \in DOMAIN h : ~IsPeak(h, d)
<1>1. Match(<<>>, fp1, fp2) =
        CASE Long          -> [ok |-> FALSE, segments |-> <<>>, merges |-> {}]
          [] ~Long /\ Flat -> [ok |-> TRUE, segments |-> <<>>, merges |-> {}]
          [] OTHER         -> [ok |-> TRUE, segments |-> parts.segments, merges |-> parts.merges]
  BY Zenon DEF Match, OverlapOf, Aligned
<1>. HIDE DEF Long, Flat, parts
<1>2. CASE Long
  <2>1. Match(<<>>, fp1, fp2) = [ok |-> FALSE, segments |-> <<>>, merges |-> {}]
    BY <1>1, <1>2
  <2>. QED  BY <2>1
<1>3. CASE ~Long /\ Flat
  <2>1. Match(<<>>, fp1, fp2) = [ok |-> TRUE, segments |-> <<>>, merges |-> {}]
    BY <1>1, <1>3
  <2>. QED  BY <2>1
<1>4. CASE ~Long /\ ~Flat
  <2>1. Match(<<>>, fp1, fp2) = [ok |-> TRUE, segments |-> parts.segments, merges |-> parts.merges]
    BY <1>1, <1>4
  <2>2. Match(<<>>, fp1, fp2).segments = parts.segments
    BY <2>1
  <2>3. \E d \in DOMAIN h : h[d] > 1
    BY <1>4 DEF Flat, IsPeak
  <2>. QED  BY <2>2, <2>3 DEF parts
<1>. QED  BY <1>2, <1>3, <1>4

\* The histogram counts the pairs of items that have the same first twelve
\* bits, at each shift, though the code finds them in the sorted entries of
\* both fingerprints by looking ahead only (fingerprint_matcher.cpp, Match).
THEOREM HistogramIsOfPairs ==
    \A fp1, fp2 \in Seq(Item) :
        /\ DOMAIN Histogram(fp1, fp2) = 0 .. Len(fp1) + Len(fp2) - 1
        /\ \A d \in DOMAIN Histogram(fp1, fp2) :
              Histogram(fp1, fp2)[d] = Cardinality(Pairs(fp1, fp2, d))
<1>. SUFFICES ASSUME NEW fp1 \in Seq(Item), NEW fp2 \in Seq(Item)
              PROVE  /\ DOMAIN Histogram(fp1, fp2) = 0 .. Len(fp1) + Len(fp2) - 1
                     /\ \A d \in DOMAIN Histogram(fp1, fp2) :
                          Histogram(fp1, fp2)[d] = Cardinality(Pairs(fp1, fp2, d))
  OBVIOUS
<1>1. DOMAIN Histogram(fp1, fp2) = 0 .. Len(fp1) + Len(fp2) - 1
  BY HistogramIs
<1>. QED  BY <1>1, HistogramIs

\* The shift that the peaks choose is one that no shift beats, and the two
\* fingerprints overlap in it: if any shift has two pairs
\* (fingerprint_matcher.cpp, Match).
THEOREM AlignmentIsBest ==
    \A fp1, fp2 \in Seq(Item) :
        LET h == Histogram(fp1, fp2)
            b == Aligned(fp1, fp2)
            o == OverlapOf(fp1, fp2)
        IN (\E d \in DOMAIN h : h[d] > 1) =>
             /\ b \in DOMAIN h /\ IsPeak(h, b) /\ h[b] > 1 /\ \A e \in DOMAIN h : h[e] <= h[b]
             /\ Overlaps(o) /\ o.offset1 - o.offset2 = b - Len(fp2)
             /\ o.offset1 + o.size <= Len(fp1) /\ o.offset2 + o.size <= Len(fp2)
<1>. SUFFICES ASSUME NEW fp1 \in Seq(Item), NEW fp2 \in Seq(Item),
                     NEW d \in DOMAIN Histogram(fp1, fp2), Histogram(fp1, fp2)[d] > 1
              PROVE  LET h == Histogram(fp1, fp2)
                         b == Aligned(fp1, fp2)
                         o == OverlapOf(fp1, fp2)
                     IN /\ b \in DOMAIN h /\ IsPeak(h, b) /\ h[b] > 1
                        /\ \A e \in DOMAIN h : h[e] <= h[b]
                        /\ Overlaps(o) /\ o.offset1 - o.offset2 = b - Len(fp2)
                        /\ o.offset1 + o.size <= Len(fp1) /\ o.offset2 + o.size <= Len(fp2)
  BY Zenon
<1>. DEFINE h == Histogram(fp1, fp2)
            b == Aligned(fp1, fp2)
            N == Len(fp1) + Len(fp2) - 1
            o == OverlapOf(fp1, fp2)
<1>1. /\ N \in Int /\ h \in [0 .. N -> Nat] /\ DOMAIN h = 0 .. N
      /\ \A e \in 0 .. N : h[e] = Cardinality(Pairs(fp1, fp2, e))
  BY HistogramIs
<1>. HIDE DEF h, N
<1>2. b \in 0 .. N /\ IsPeak(h, b) /\ h[b] > 1 /\ \A e \in 0 .. N : h[e] <= h[b]
  <2>1. b = BestAlignment(h)
    BY DEF Aligned, h
  <2>2. d \in 0 .. N /\ h[d] > 1
    BY <1>1 DEF h
  <2>. HIDE DEF b
  <2>. QED  BY <1>1, <2>1, <2>2, BestIs
<1>. HIDE DEF b
<1>3. Pairs(fp1, fp2, b) # {} /\ b \in Int
  <2>1. h[b] = Cardinality(Pairs(fp1, fp2, b)) /\ h[b] > 1
    BY <1>1, <1>2
  <2>2. Cardinality({}) = 0
    BY FS_EmptySet
  <2>. DEFINE P == Pairs(fp1, fp2, b)
  <2>3. P # {}
    <3>1. Cardinality(P) > 1
      BY <2>1
    <3>. HIDE DEF P
    <3>2. ASSUME P = {} PROVE FALSE
      <4>1. Cardinality(P) = 0
        BY Zenon, <2>2, <3>2
      <4>. QED  BY <3>1, <4>1
    <3>. QED  BY Zenon, <3>2
  <2>4. b \in Int
    BY <1>1, <1>2
  <2>. QED  BY <2>3, <2>4
<1>4. /\ o.offset1 \in Nat /\ o.offset2 \in Nat /\ o.size \in Nat \ {0}
      /\ o.offset1 + o.size <= Len(fp1) /\ o.offset2 + o.size <= Len(fp2)
      /\ o.offset1 - o.offset2 = b - Len(fp2)
  <2>1. o = Overlap(fp1, fp2, b)
    BY DEF OverlapOf, b
  <2>. HIDE DEF o
  <2>. QED  BY <1>3, <2>1, OverlapIs
<1>. HIDE DEF o
<1>5. Overlaps(o)
  BY <1>4 DEF Overlaps
<1>. QED  BY <1>1, <1>2, <1>4, <1>5 DEF h, b, o

\* The segments of a match lie in the overlap, on its diagonal, in order;
\* they cover it where all of its items are near, and there is none where no
\* item is (fingerprint_matcher.cpp, Match).
THEOREM SegmentsAreGood ==
    \A fp1, fp2 \in Seq(Item) :
        LET o == OverlapOf(fp1, fp2)
            segments == Match(<<>>, fp1, fp2).segments
        IN segments # <<>> =>
              /\ \E d \in DOMAIN Histogram(fp1, fp2) : Histogram(fp1, fp2)[d] > 1
              /\ Good(o, BitCounts(fp1, fp2, o), o.size, segments)
<1>. SUFFICES ASSUME NEW fp1 \in Seq(Item), NEW fp2 \in Seq(Item),
                     Match(<<>>, fp1, fp2).segments # <<>>
              PROVE  LET o == OverlapOf(fp1, fp2)
                     IN /\ \E d \in DOMAIN Histogram(fp1, fp2) : Histogram(fp1, fp2)[d] > 1
                        /\ Good(o, BitCounts(fp1, fp2, o), o.size, Match(<<>>, fp1, fp2).segments)
  BY Zenon
<1>. DEFINE h == Histogram(fp1, fp2)
            o == OverlapOf(fp1, fp2)
            bit_counts == BitCounts(fp1, fp2, o)
            ends == Ends(GradientPeaks(bit_counts), o.size)
<1>1. /\ \E d \in DOMAIN h : h[d] > 1
      /\ Match(<<>>, fp1, fp2).segments = TakeParts(o, bit_counts, ends).segments
  BY Zenon, MatchIs
<1>. HIDE DEF h, o
<1>2. Overlaps(o) /\ o.offset1 + o.size <= Len(fp1) /\ o.offset2 + o.size <= Len(fp2)
  BY <1>1, AlignmentIsBest DEF h, o
<1>3. o.offset1 \in Nat /\ o.offset2 \in Nat /\ o.size \in Nat \ {0} /\ o.size \in Nat
  BY <1>2 DEF Overlaps
<1>4. bit_counts \in [1 .. o.size -> Nat] /\ Len(bit_counts) = o.size
  <2>1. bit_counts \in [1 .. o.size -> Nat]
    BY <1>2, <1>3, BitCountsAre
  <2>. HIDE DEF bit_counts
  <2>. QED  BY <1>3, <2>1
<1>. HIDE DEF bit_counts
<1>5. EndsRight(ends, Len(ends), o.size)
  <2>. DEFINE peaks == GradientPeaks(bit_counts)
  <2>1. Rising(peaks, o.size)
    BY <1>3, <1>4, PeaksRise DEF GradientPeaks
  <2>. HIDE DEF peaks
  <2>2. EndsRight(Ends(peaks, o.size), Len(Ends(peaks, o.size)), o.size)
    BY <1>3, <2>1, EndsAre
  <2>. QED  BY <2>2 DEF peaks
<1>. HIDE DEF ends
<1>6. Good(o, bit_counts, o.size, TakeParts(o, bit_counts, ends).segments)
  BY <1>2, <1>4, <1>5, PartsAreGood
<1>. QED  BY <1>1, <1>6 DEF h, o, bit_counts

-----------------------------------------------------------------------------
(* The codec: bytes and arrays of bits.                                    *)

Byte == SUBSET (0 .. 7)

\* The numbers that a code has room for.
Small(width) == IF width = 3 THEN 0 .. 7 ELSE 0 .. 31

\* The number of the bits of a number is that number, in three bits, in five
\* and, but for a multiple of 256, in eight.
LEMMA NumberOfBits ==
    ASSUME NEW n \in Nat
    PROVE  /\ n \in 0 .. 7 => NumberOf(BitsOf(n, 3)) = n
           /\ n \in 0 .. 31 => NumberOf(BitsOf(n, 5)) = n
           /\ NumberOf(BitsOf(n, 8)) = n % 256
<1>. DEFINE b(j) == (n \div 2^j) % 2
            One(bits, j) == IF j \in bits THEN 2^j ELSE 0
<1>1. ASSUME NEW bits
      PROVE  NumberOf(bits) = One(bits, 0) + One(bits, 1) + One(bits, 2) + One(bits, 3)
                                + One(bits, 4) + One(bits, 5) + One(bits, 6) + One(bits, 7)
  BY DEF NumberOf
<1>2. ASSUME NEW width \in {3, 5, 8}, NEW j \in 0 .. 7
      PROVE  j \in BitsOf(n, width) <=> j < width /\ b(j) = 1
  BY DEF BitsOf
<1>3. /\ b(0) = n % 2 /\ b(1) = (n \div 2) % 2 /\ b(2) = (n \div 4) % 2 /\ b(3) = (n \div 8) % 2
      /\ b(4) = (n \div 16) % 2 /\ b(5) = (n \div 32) % 2 /\ b(6) = (n \div 64) % 2
      /\ b(7) = (n \div 128) % 2
  OBVIOUS
<1>4. \A bits : /\ One(bits, 0) = (IF 0 \in bits THEN 1 ELSE 0) /\ One(bits, 1) = (IF 1 \in bits THEN 2 ELSE 0)
                /\ One(bits, 2) = (IF 2 \in bits THEN 4 ELSE 0) /\ One(bits, 3) = (IF 3 \in bits THEN 8 ELSE 0)
                /\ One(bits, 4) = (IF 4 \in bits THEN 16 ELSE 0) /\ One(bits, 5) = (IF 5 \in bits THEN 32 ELSE 0)
                /\ One(bits, 6) = (IF 6 \in bits THEN 64 ELSE 0) /\ One(bits, 7) = (IF 7 \in bits THEN 128 ELSE 0)
  OBVIOUS
<1>. HIDE DEF b, One
<1>5. \A j \in 0 .. 7 : b(j) \in {0, 1}
  BY DEF b
<1>6. ASSUME NEW width \in {3, 5, 8}
      PROVE  NumberOf(BitsOf(n, width)) =
                b(0) + 2 * b(1) + 4 * b(2)
                  + (IF width = 3 THEN 0 ELSE 8 * b(3) + 16 * b(4))
                  + (IF width = 8 THEN 32 * b(5) + 64 * b(6) + 128 * b(7) ELSE 0)
  <2>. DEFINE B == BitsOf(n, width)
  <2>1. /\ One(B, 0) = b(0) /\ One(B, 1) = 2 * b(1) /\ One(B, 2) = 4 * b(2)
    BY <1>2, <1>4, <1>5
  <2>2. /\ One(B, 3) = IF width = 3 THEN 0 ELSE 8 * b(3)
        /\ One(B, 4) = IF width = 3 THEN 0 ELSE 16 * b(4)
    BY <1>2, <1>4, <1>5
  <2>3. /\ One(B, 5) = IF width = 8 THEN 32 * b(5) ELSE 0
        /\ One(B, 6) = IF width = 8 THEN 64 * b(6) ELSE 0
        /\ One(B, 7) = IF width = 8 THEN 128 * b(7) ELSE 0
    BY <1>2, <1>4, <1>5
  <2>4. NumberOf(B) = One(B, 0) + One(B, 1) + One(B, 2) + One(B, 3)
                        + One(B, 4) + One(B, 5) + One(B, 6) + One(B, 7)
    BY <1>1
  <2>. HIDE DEF B
  <2>. QED  BY <1>5, <2>1, <2>2, <2>3, <2>4 DEF B
<1>7. n \in 0 .. 7 => NumberOf(BitsOf(n, 3)) = n
  <2>. SUFFICES ASSUME n \in 0 .. 7 PROVE NumberOf(BitsOf(n, 3)) = n
    OBVIOUS
  <2>1. n = (n % 2) + 2 * ((n \div 2) % 2) + 4 * ((n \div 4) % 2)
    OBVIOUS
  <2>. QED  BY <1>3, <1>6, <2>1
<1>8. n \in 0 .. 31 => NumberOf(BitsOf(n, 5)) = n
  <2>. SUFFICES ASSUME n \in 0 .. 31 PROVE NumberOf(BitsOf(n, 5)) = n
    OBVIOUS
  <2>1. n = (n % 2) + 2 * ((n \div 2) % 2) + 4 * ((n \div 4) % 2) + 8 * ((n \div 8) % 2)
              + 16 * ((n \div 16) % 2)
    OBVIOUS
  <2>. QED  BY <1>3, <1>6, <2>1
<1>9. NumberOf(BitsOf(n, 8)) = n % 256
  <2>. DEFINE r == n % 256
  <2>1. r \in 0 .. 255
    OBVIOUS
  <2>2. /\ n % 2 = r % 2 /\ (n \div 2) % 2 = (r \div 2) % 2
        /\ (n \div 4) % 2 = (r \div 4) % 2 /\ (n \div 8) % 2 = (r \div 8) % 2
    OBVIOUS
  <2>3. /\ (n \div 16) % 2 = (r \div 16) % 2 /\ (n \div 32) % 2 = (r \div 32) % 2
        /\ (n \div 64) % 2 = (r \div 64) % 2 /\ (n \div 128) % 2 = (r \div 128) % 2
    OBVIOUS
  <2>. HIDE DEF r
  <2>4. r = (r % 2) + 2 * ((r \div 2) % 2) + 4 * ((r \div 4) % 2) + 8 * ((r \div 8) % 2)
              + 16 * ((r \div 16) % 2) + 32 * ((r \div 32) % 2) + 64 * ((r \div 64) % 2)
              + 128 * ((r \div 128) % 2)
    BY <2>1
  <2>5. NumberOf(BitsOf(n, 8)) = b(0) + 2 * b(1) + 4 * b(2) + 8 * b(3) + 16 * b(4) + 32 * b(5)
                                   + 64 * b(6) + 128 * b(7)
    BY <1>5, <1>6
  <2>6. /\ r % 2 = b(0) /\ (r \div 2) % 2 = b(1) /\ (r \div 4) % 2 = b(2) /\ (r \div 8) % 2 = b(3)
        /\ (r \div 16) % 2 = b(4) /\ (r \div 32) % 2 = b(5) /\ (r \div 64) % 2 = b(6)
        /\ (r \div 128) % 2 = b(7)
    BY ZenonT(60), <1>3, <2>2, <2>3
  <2>7. r = b(0) + 2 * b(1) + 4 * b(2) + 8 * b(3) + 16 * b(4) + 32 * b(5) + 64 * b(6) + 128 * b(7)
    BY Zenon, <2>4, <2>6
  <2>. QED  BY Zenon, <2>5, <2>7 DEF r
<1>. QED  BY <1>7, <1>8, <1>9

-----------------------------------------------------------------------------
(* The bit arrays: what the unrolled loops and their tails make is given   *)
(* by where each bit goes.                                                 *)

\* Where each bit goes: codes of `width` bits, one after the other, the first
\* in the low bits; and back.
Pack(codes, width) ==
    [b \in 1 .. PackedSize(Len(codes), width) |->
        {j \in 0 .. 7 : \E p \in {8 * (b - 1) + j} :
            /\ p < Len(codes) * width
            /\ (p % width) \in BitsOf(codes[(p \div width) + 1], width)}]

Unpack(bytes, width) ==
    [c \in 1 .. (Len(bytes) * 8) \div width |->
        NumberOf({j \in 0 .. width - 1 : \E p \in {(c - 1) * width + j} :
                    (p % 8) \in bytes[(p \div 8) + 1]})]

\* What a term reads and where it puts it.
Reads(term, i, low, high, to) == term[1] = i /\ term[2] = low /\ term[3] = high /\ term[4] = to
Span(term) == term[4] .. term[4] + term[3] - term[2]

\* A term of statement k of a turn, from elements of a bits to elements of b:
\* each bit keeps its place among all bits.
TermFits(term, k, size, a, b) ==
    /\ term[1] \in 0 .. size - 1
    /\ term[2] \in 0 .. a - 1 /\ term[3] \in term[2] .. a - 1
    /\ term[4] \in 0 .. b - 1 /\ term[4] + term[3] - term[2] < b
    /\ b * (k - 1) + term[4] = term[1] * a + term[2]

\* A statement makes every bit of its element.
StatementFits(statement, k, size, a, b) ==
    /\ Len(statement) \in Nat
    /\ \A x \in 1 .. Len(statement) : TermFits(statement[x], k, size, a, b)
    /\ \A j \in 0 .. b - 1 : \E x \in 1 .. Len(statement) : j \in Span(statement[x])

TurnFits(turn, size, a, b) ==
    /\ size * a = Len(turn) * b
    /\ \A k \in 1 .. Len(turn) : StatementFits(turn[k], k, size, a, b)

\* The first terms of a statement are those of elements below r.
UpTo(statement, count, r) ==
    /\ count \in 0 .. Len(statement)
    /\ \A x \in 1 .. Len(statement) : x <= count <=> statement[x][1] < r

\* The tail of r elements has the terms of these elements.
TailFits(tail, turn, r) ==
    /\ Len(tail) \in 0 .. Len(turn)
    /\ \A k \in 1 .. Len(tail) : UpTo(turn[k], tail[k], r)
TailsFit(tails, turn, size) == \A r \in 1 .. size - 1 : TailFits(tails[r], turn, r)

LEMMA PackTurn3Is ==
    /\ Len(PackTurn3) = 3
    /\ Len(PackTurn3[1]) = 3 /\ Reads(PackTurn3[1][1], 0, 0, 2, 0)
    /\ Reads(PackTurn3[1][2], 1, 0, 2, 3) /\ Reads(PackTurn3[1][3], 2, 0, 1, 6)
    /\ Len(PackTurn3[2]) = 4 /\ Reads(PackTurn3[2][1], 2, 2, 2, 0)
    /\ Reads(PackTurn3[2][2], 3, 0, 2, 1) /\ Reads(PackTurn3[2][3], 4, 0, 2, 4)
    /\ Reads(PackTurn3[2][4], 5, 0, 0, 7)
    /\ Len(PackTurn3[3]) = 3 /\ Reads(PackTurn3[3][1], 5, 1, 2, 0)
    /\ Reads(PackTurn3[3][2], 6, 0, 2, 2) /\ Reads(PackTurn3[3][3], 7, 0, 2, 5)
BY DEF PackTurn3, Reads

LEMMA PackTails3Is ==
    /\ Len(PackTails3[1]) = 1 /\ PackTails3[1][1] = 1
    /\ Len(PackTails3[2]) = 1 /\ PackTails3[2][1] = 2
    /\ Len(PackTails3[3]) = 2 /\ PackTails3[3][1] = 3 /\ PackTails3[3][2] = 1
    /\ Len(PackTails3[4]) = 2 /\ PackTails3[4][1] = 3 /\ PackTails3[4][2] = 2
    /\ Len(PackTails3[5]) = 2 /\ PackTails3[5][1] = 3 /\ PackTails3[5][2] = 3
    /\ Len(PackTails3[6]) = 3 /\ PackTails3[6][1] = 3 /\ PackTails3[6][2] = 4
    /\ PackTails3[6][3] = 1
    /\ Len(PackTails3[7]) = 3 /\ PackTails3[7][1] = 3 /\ PackTails3[7][2] = 4
    /\ PackTails3[7][3] = 2
BY DEF PackTails3

LEMMA PackTurn3Fits == TurnFits(PackTurn3, 8, 3, 8)
<1>. DEFINE turn == PackTurn3
<1>1. Len(turn) = 3
  BY PackTurn3Is
<1>2. StatementFits(turn[1], 1, 8, 3, 8)
  <2>. DEFINE s == turn[1]
  <2>1. /\ Len(s) = 3 /\ Reads(s[1], 0, 0, 2, 0) /\ Reads(s[2], 1, 0, 2, 3) /\ Reads(s[3], 2, 0, 1, 6)
    BY PackTurn3Is
  <2>. HIDE DEF s
  <2>2. \A x \in 1 .. Len(s) : TermFits(s[x], 1, 8, 3, 8)
    <3>1. /\ TermFits(s[1], 1, 8, 3, 8) /\ TermFits(s[2], 1, 8, 3, 8) /\ TermFits(s[3], 1, 8, 3, 8)
      BY <2>1 DEF TermFits, Reads
    <3>. QED  BY <2>1, <3>1
  <2>3. \A j \in 0 .. 8 - 1 : \E x \in 1 .. Len(s) : j \in Span(s[x])
    <3>1. \A j \in 0 .. 8 - 1 : j \in Span(s[1]) \/ j \in Span(s[2]) \/ j \in Span(s[3])
      BY <2>1 DEF Span, Reads
    <3>. QED  BY <2>1, <3>1
  <2>. QED  BY <2>1, <2>2, <2>3 DEF StatementFits, s
<1>3. StatementFits(turn[2], 2, 8, 3, 8)
  <2>. DEFINE s == turn[2]
  <2>1. /\ Len(s) = 4 /\ Reads(s[1], 2, 2, 2, 0) /\ Reads(s[2], 3, 0, 2, 1) /\ Reads(s[3], 4, 0, 2, 4)
        /\ Reads(s[4], 5, 0, 0, 7)
    BY PackTurn3Is
  <2>. HIDE DEF s
  <2>2. \A x \in 1 .. Len(s) : TermFits(s[x], 2, 8, 3, 8)
    <3>1. /\ TermFits(s[1], 2, 8, 3, 8) /\ TermFits(s[2], 2, 8, 3, 8) /\ TermFits(s[3], 2, 8, 3, 8)
          /\ TermFits(s[4], 2, 8, 3, 8)
      BY <2>1 DEF TermFits, Reads
    <3>. QED  BY <2>1, <3>1
  <2>3. \A j \in 0 .. 8 - 1 : \E x \in 1 .. Len(s) : j \in Span(s[x])
    <3>1. \A j \in 0 .. 8 - 1 : j \in Span(s[1]) \/ j \in Span(s[2]) \/ j \in Span(s[3]) \/ j \in Span(s[4])
      BY <2>1 DEF Span, Reads
    <3>. QED  BY <2>1, <3>1
  <2>. QED  BY <2>1, <2>2, <2>3 DEF StatementFits, s
<1>4. StatementFits(turn[3], 3, 8, 3, 8)
  <2>. DEFINE s == turn[3]
  <2>1. /\ Len(s) = 3 /\ Reads(s[1], 5, 1, 2, 0) /\ Reads(s[2], 6, 0, 2, 2) /\ Reads(s[3], 7, 0, 2, 5)
    BY PackTurn3Is
  <2>. HIDE DEF s
  <2>2. \A x \in 1 .. Len(s) : TermFits(s[x], 3, 8, 3, 8)
    <3>1. /\ TermFits(s[1], 3, 8, 3, 8) /\ TermFits(s[2], 3, 8, 3, 8) /\ TermFits(s[3], 3, 8, 3, 8)
      BY <2>1 DEF TermFits, Reads
    <3>. QED  BY <2>1, <3>1
  <2>3. \A j \in 0 .. 8 - 1 : \E x \in 1 .. Len(s) : j \in Span(s[x])
    <3>1. \A j \in 0 .. 8 - 1 : j \in Span(s[1]) \/ j \in Span(s[2]) \/ j \in Span(s[3])
      BY <2>1 DEF Span, Reads
    <3>. QED  BY <2>1, <3>1
  <2>. QED  BY <2>1, <2>2, <2>3 DEF StatementFits, s
<1>. HIDE DEF turn
<1>. QED  BY <1>1, <1>2, <1>3, <1>4 DEF TurnFits, turn

LEMMA PackTails3Fit == TailsFit(PackTails3, PackTurn3, 8)
<1>. DEFINE turn == PackTurn3
            tails == PackTails3
            s1 == turn[1]
            s2 == turn[2]
            s3 == turn[3]
<1>1. Len(s1) = 3 /\ s1[1][1] = 0 /\ s1[2][1] = 1 /\ s1[3][1] = 2
  BY PackTurn3Is DEF Reads
<1>2. Len(s2) = 4 /\ s2[1][1] = 2 /\ s2[2][1] = 3 /\ s2[3][1] = 4 /\ s2[4][1] = 5
  BY PackTurn3Is DEF Reads
<1>3. Len(s3) = 3 /\ s3[1][1] = 5 /\ s3[2][1] = 6 /\ s3[3][1] = 7
  BY PackTurn3Is DEF Reads
<1>4. Len(turn) = 3
  BY PackTurn3Is
<1>. HIDE DEF s1, s2, s3
<1>5. TailFits(tails[1], turn, 1)
  <2>1. /\ UpTo(s1, 1, 1)
    BY <1>1 DEF UpTo
  <2>2. Len(tails[1]) = 1 /\ tails[1][1] = 1
    BY PackTails3Is
  <2>. HIDE DEF turn, tails
  <2>. QED  BY <1>4, <2>1, <2>2 DEF TailFits, s1
<1>6. TailFits(tails[2], turn, 2)
  <2>1. /\ UpTo(s1, 2, 2)
    BY <1>1 DEF UpTo
  <2>2. Len(tails[2]) = 1 /\ tails[2][1] = 2
    BY PackTails3Is
  <2>. HIDE DEF turn, tails
  <2>. QED  BY <1>4, <2>1, <2>2 DEF TailFits, s1
<1>7. TailFits(tails[3], turn, 3)
  <2>1. /\ UpTo(s1, 3, 3) /\ UpTo(s2, 1, 3)
    BY <1>1, <1>2 DEF UpTo
  <2>2. Len(tails[3]) = 2 /\ tails[3][1] = 3 /\ tails[3][2] = 1
    BY PackTails3Is
  <2>. HIDE DEF turn, tails
  <2>. QED  BY <1>4, <2>1, <2>2 DEF TailFits, s1, s2
<1>8. TailFits(tails[4], turn, 4)
  <2>1. /\ UpTo(s1, 3, 4) /\ UpTo(s2, 2, 4)
    BY <1>1, <1>2 DEF UpTo
  <2>2. Len(tails[4]) = 2 /\ tails[4][1] = 3 /\ tails[4][2] = 2
    BY PackTails3Is
  <2>. HIDE DEF turn, tails
  <2>. QED  BY <1>4, <2>1, <2>2 DEF TailFits, s1, s2
<1>9. TailFits(tails[5], turn, 5)
  <2>1. /\ UpTo(s1, 3, 5) /\ UpTo(s2, 3, 5)
    BY <1>1, <1>2 DEF UpTo
  <2>2. Len(tails[5]) = 2 /\ tails[5][1] = 3 /\ tails[5][2] = 3
    BY PackTails3Is
  <2>. HIDE DEF turn, tails
  <2>. QED  BY <1>4, <2>1, <2>2 DEF TailFits, s1, s2
<1>10. TailFits(tails[6], turn, 6)
  <2>1. /\ UpTo(s1, 3, 6) /\ UpTo(s2, 4, 6) /\ UpTo(s3, 1, 6)
    BY <1>1, <1>2, <1>3 DEF UpTo
  <2>2. Len(tails[6]) = 3 /\ tails[6][1] = 3 /\ tails[6][2] = 4 /\ tails[6][3] = 1
    BY PackTails3Is
  <2>. HIDE DEF turn, tails
  <2>. QED  BY <1>4, <2>1, <2>2 DEF TailFits, s1, s2, s3
<1>11. TailFits(tails[7], turn, 7)
  <2>1. /\ UpTo(s1, 3, 7) /\ UpTo(s2, 4, 7) /\ UpTo(s3, 2, 7)
    BY <1>1, <1>2, <1>3 DEF UpTo
  <2>2. Len(tails[7]) = 3 /\ tails[7][1] = 3 /\ tails[7][2] = 4 /\ tails[7][3] = 2
    BY PackTails3Is
  <2>. HIDE DEF turn, tails
  <2>. QED  BY <1>4, <2>1, <2>2 DEF TailFits, s1, s2, s3
<1>. HIDE DEF turn, tails
<1>. QED  BY <1>5, <1>6, <1>7, <1>8, <1>9, <1>10, <1>11 DEF TailsFit, turn, tails

LEMMA PackTurn5Is ==
    /\ Len(PackTurn5) = 5
    /\ Len(PackTurn5[1]) = 2 /\ Reads(PackTurn5[1][1], 0, 0, 4, 0)
    /\ Reads(PackTurn5[1][2], 1, 0, 2, 5)
    /\ Len(PackTurn5[2]) = 3 /\ Reads(PackTurn5[2][1], 1, 3, 4, 0)
    /\ Reads(PackTurn5[2][2], 2, 0, 4, 2) /\ Reads(PackTurn5[2][3], 3, 0, 0, 7)
    /\ Len(PackTurn5[3]) = 2 /\ Reads(PackTurn5[3][1], 3, 1, 4, 0)
    /\ Reads(PackTurn5[3][2], 4, 0, 3, 4)
    /\ Len(PackTurn5[4]) = 3 /\ Reads(PackTurn5[4][1], 4, 4, 4, 0)
    /\ Reads(PackTurn5[4][2], 5, 0, 4, 1) /\ Reads(PackTurn5[4][3], 6, 0, 1, 6)
    /\ Len(PackTurn5[5]) = 2 /\ Reads(PackTurn5[5][1], 6, 2, 4, 0)
    /\ Reads(PackTurn5[5][2], 7, 0, 4, 3)
BY DEF PackTurn5, Reads

LEMMA PackTails5Is ==
    /\ Len(PackTails5[1]) = 1 /\ PackTails5[1][1] = 1
    /\ Len(PackTails5[2]) = 2 /\ PackTails5[2][1] = 2 /\ PackTails5[2][2] = 1
    /\ Len(PackTails5[3]) = 2 /\ PackTails5[3][1] = 2 /\ PackTails5[3][2] = 2
    /\ Len(PackTails5[4]) = 3 /\ PackTails5[4][1] = 2 /\ PackTails5[4][2] = 3
    /\ PackTails5[4][3] = 1
    /\ Len(PackTails5[5]) = 4 /\ PackTails5[5][1] = 2 /\ PackTails5[5][2] = 3
    /\ PackTails5[5][3] = 2 /\ PackTails5[5][4] = 1
    /\ Len(PackTails5[6]) = 4 /\ PackTails5[6][1] = 2 /\ PackTails5[6][2] = 3
    /\ PackTails5[6][3] = 2 /\ PackTails5[6][4] = 2
    /\ Len(PackTails5[7]) = 5 /\ PackTails5[7][1] = 2 /\ PackTails5[7][2] = 3
    /\ PackTails5[7][3] = 2 /\ PackTails5[7][4] = 3 /\ PackTails5[7][5] = 1
BY DEF PackTails5

LEMMA PackTurn5Fits == TurnFits(PackTurn5, 8, 5, 8)
<1>. DEFINE turn == PackTurn5
<1>1. Len(turn) = 5
  BY PackTurn5Is
<1>2. StatementFits(turn[1], 1, 8, 5, 8)
  <2>. DEFINE s == turn[1]
  <2>1. /\ Len(s) = 2 /\ Reads(s[1], 0, 0, 4, 0) /\ Reads(s[2], 1, 0, 2, 5)
    BY PackTurn5Is
  <2>. HIDE DEF s
  <2>2. \A x \in 1 .. Len(s) : TermFits(s[x], 1, 8, 5, 8)
    <3>1. /\ TermFits(s[1], 1, 8, 5, 8) /\ TermFits(s[2], 1, 8, 5, 8)
      BY <2>1 DEF TermFits, Reads
    <3>. QED  BY <2>1, <3>1
  <2>3. \A j \in 0 .. 8 - 1 : \E x \in 1 .. Len(s) : j \in Span(s[x])
    <3>1. \A j \in 0 .. 8 - 1 : j \in Span(s[1]) \/ j \in Span(s[2])
      BY <2>1 DEF Span, Reads
    <3>. QED  BY <2>1, <3>1
  <2>. QED  BY <2>1, <2>2, <2>3 DEF StatementFits, s
<1>3. StatementFits(turn[2], 2, 8, 5, 8)
  <2>. DEFINE s == turn[2]
  <2>1. /\ Len(s) = 3 /\ Reads(s[1], 1, 3, 4, 0) /\ Reads(s[2], 2, 0, 4, 2) /\ Reads(s[3], 3, 0, 0, 7)
    BY PackTurn5Is
  <2>. HIDE DEF s
  <2>2. \A x \in 1 .. Len(s) : TermFits(s[x], 2, 8, 5, 8)
    <3>1. /\ TermFits(s[1], 2, 8, 5, 8) /\ TermFits(s[2], 2, 8, 5, 8) /\ TermFits(s[3], 2, 8, 5, 8)
      BY <2>1 DEF TermFits, Reads
    <3>. QED  BY <2>1, <3>1
  <2>3. \A j \in 0 .. 8 - 1 : \E x \in 1 .. Len(s) : j \in Span(s[x])
    <3>1. \A j \in 0 .. 8 - 1 : j \in Span(s[1]) \/ j \in Span(s[2]) \/ j \in Span(s[3])
      BY <2>1 DEF Span, Reads
    <3>. QED  BY <2>1, <3>1
  <2>. QED  BY <2>1, <2>2, <2>3 DEF StatementFits, s
<1>4. StatementFits(turn[3], 3, 8, 5, 8)
  <2>. DEFINE s == turn[3]
  <2>1. /\ Len(s) = 2 /\ Reads(s[1], 3, 1, 4, 0) /\ Reads(s[2], 4, 0, 3, 4)
    BY PackTurn5Is
  <2>. HIDE DEF s
  <2>2. \A x \in 1 .. Len(s) : TermFits(s[x], 3, 8, 5, 8)
    <3>1. /\ TermFits(s[1], 3, 8, 5, 8) /\ TermFits(s[2], 3, 8, 5, 8)
      BY <2>1 DEF TermFits, Reads
    <3>. QED  BY <2>1, <3>1
  <2>3. \A j \in 0 .. 8 - 1 : \E x \in 1 .. Len(s) : j \in Span(s[x])
    <3>1. \A j \in 0 .. 8 - 1 : j \in Span(s[1]) \/ j \in Span(s[2])
      BY <2>1 DEF Span, Reads
    <3>. QED  BY <2>1, <3>1
  <2>. QED  BY <2>1, <2>2, <2>3 DEF StatementFits, s
<1>5. StatementFits(turn[4], 4, 8, 5, 8)
  <2>. DEFINE s == turn[4]
  <2>1. /\ Len(s) = 3 /\ Reads(s[1], 4, 4, 4, 0) /\ Reads(s[2], 5, 0, 4, 1) /\ Reads(s[3], 6, 0, 1, 6)
    BY PackTurn5Is
  <2>. HIDE DEF s
  <2>2. \A x \in 1 .. Len(s) : TermFits(s[x], 4, 8, 5, 8)
    <3>1. /\ TermFits(s[1], 4, 8, 5, 8) /\ TermFits(s[2], 4, 8, 5, 8) /\ TermFits(s[3], 4, 8, 5, 8)
      BY <2>1 DEF TermFits, Reads
    <3>. QED  BY <2>1, <3>1
  <2>3. \A j \in 0 .. 8 - 1 : \E x \in 1 .. Len(s) : j \in Span(s[x])
    <3>1. \A j \in 0 .. 8 - 1 : j \in Span(s[1]) \/ j \in Span(s[2]) \/ j \in Span(s[3])
      BY <2>1 DEF Span, Reads
    <3>. QED  BY <2>1, <3>1
  <2>. QED  BY <2>1, <2>2, <2>3 DEF StatementFits, s
<1>6. StatementFits(turn[5], 5, 8, 5, 8)
  <2>. DEFINE s == turn[5]
  <2>1. /\ Len(s) = 2 /\ Reads(s[1], 6, 2, 4, 0) /\ Reads(s[2], 7, 0, 4, 3)
    BY PackTurn5Is
  <2>. HIDE DEF s
  <2>2. \A x \in 1 .. Len(s) : TermFits(s[x], 5, 8, 5, 8)
    <3>1. /\ TermFits(s[1], 5, 8, 5, 8) /\ TermFits(s[2], 5, 8, 5, 8)
      BY <2>1 DEF TermFits, Reads
    <3>. QED  BY <2>1, <3>1
  <2>3. \A j \in 0 .. 8 - 1 : \E x \in 1 .. Len(s) : j \in Span(s[x])
    <3>1. \A j \in 0 .. 8 - 1 : j \in Span(s[1]) \/ j \in Span(s[2])
      BY <2>1 DEF Span, Reads
    <3>. QED  BY <2>1, <3>1
  <2>. QED  BY <2>1, <2>2, <2>3 DEF StatementFits, s
<1>. HIDE DEF turn
<1>. QED  BY <1>1, <1>2, <1>3, <1>4, <1>5, <1>6 DEF TurnFits, turn

LEMMA PackTails5Fit == TailsFit(PackTails5, PackTurn5, 8)
<1>. DEFINE turn == PackTurn5
            tails == PackTails5
            s1 == turn[1]
            s2 == turn[2]
            s3 == turn[3]
            s4 == turn[4]
            s5 == turn[5]
<1>1. Len(s1) = 2 /\ s1[1][1] = 0 /\ s1[2][1] = 1
  BY PackTurn5Is DEF Reads
<1>2. Len(s2) = 3 /\ s2[1][1] = 1 /\ s2[2][1] = 2 /\ s2[3][1] = 3
  BY PackTurn5Is DEF Reads
<1>3. Len(s3) = 2 /\ s3[1][1] = 3 /\ s3[2][1] = 4
  BY PackTurn5Is DEF Reads
<1>4. Len(s4) = 3 /\ s4[1][1] = 4 /\ s4[2][1] = 5 /\ s4[3][1] = 6
  BY PackTurn5Is DEF Reads
<1>5. Len(s5) = 2 /\ s5[1][1] = 6 /\ s5[2][1] = 7
  BY PackTurn5Is DEF Reads
<1>6. Len(turn) = 5
  BY PackTurn5Is
<1>. HIDE DEF s1, s2, s3, s4, s5
<1>7. TailFits(tails[1], turn, 1)
  <2>1. /\ UpTo(s1, 1, 1)
    BY <1>1 DEF UpTo
  <2>2. Len(tails[1]) = 1 /\ tails[1][1] = 1
    BY PackTails5Is
  <2>. HIDE DEF turn, tails
  <2>. QED  BY <1>6, <2>1, <2>2 DEF TailFits, s1
<1>8. TailFits(tails[2], turn, 2)
  <2>1. /\ UpTo(s1, 2, 2) /\ UpTo(s2, 1, 2)
    BY <1>1, <1>2 DEF UpTo
  <2>2. Len(tails[2]) = 2 /\ tails[2][1] = 2 /\ tails[2][2] = 1
    BY PackTails5Is
  <2>. HIDE DEF turn, tails
  <2>. QED  BY <1>6, <2>1, <2>2 DEF TailFits, s1, s2
<1>9. TailFits(tails[3], turn, 3)
  <2>1. /\ UpTo(s1, 2, 3) /\ UpTo(s2, 2, 3)
    BY <1>1, <1>2 DEF UpTo
  <2>2. Len(tails[3]) = 2 /\ tails[3][1] = 2 /\ tails[3][2] = 2
    BY PackTails5Is
  <2>. HIDE DEF turn, tails
  <2>. QED  BY <1>6, <2>1, <2>2 DEF TailFits, s1, s2
<1>10. TailFits(tails[4], turn, 4)
  <2>1. /\ UpTo(s1, 2, 4) /\ UpTo(s2, 3, 4) /\ UpTo(s3, 1, 4)
    BY <1>1, <1>2, <1>3 DEF UpTo
  <2>2. Len(tails[4]) = 3 /\ tails[4][1] = 2 /\ tails[4][2] = 3 /\ tails[4][3] = 1
    BY PackTails5Is
  <2>. HIDE DEF turn, tails
  <2>. QED  BY <1>6, <2>1, <2>2 DEF TailFits, s1, s2, s3
<1>11. TailFits(tails[5], turn, 5)
  <2>1. /\ UpTo(s1, 2, 5) /\ UpTo(s2, 3, 5) /\ UpTo(s3, 2, 5) /\ UpTo(s4, 1, 5)
    BY <1>1, <1>2, <1>3, <1>4 DEF UpTo
  <2>2. Len(tails[5]) = 4 /\ tails[5][1] = 2 /\ tails[5][2] = 3 /\ tails[5][3] = 2 /\ tails[5][4] = 1
    BY PackTails5Is
  <2>. HIDE DEF turn, tails
  <2>. QED  BY <1>6, <2>1, <2>2 DEF TailFits, s1, s2, s3, s4
<1>12. TailFits(tails[6], turn, 6)
  <2>1. /\ UpTo(s1, 2, 6) /\ UpTo(s2, 3, 6) /\ UpTo(s3, 2, 6) /\ UpTo(s4, 2, 6)
    BY <1>1, <1>2, <1>3, <1>4 DEF UpTo
  <2>2. Len(tails[6]) = 4 /\ tails[6][1] = 2 /\ tails[6][2] = 3 /\ tails[6][3] = 2 /\ tails[6][4] = 2
    BY PackTails5Is
  <2>. HIDE DEF turn, tails
  <2>. QED  BY <1>6, <2>1, <2>2 DEF TailFits, s1, s2, s3, s4
<1>13. TailFits(tails[7], turn, 7)
  <2>1. /\ UpTo(s1, 2, 7) /\ UpTo(s2, 3, 7) /\ UpTo(s3, 2, 7) /\ UpTo(s4, 3, 7) /\ UpTo(s5, 1, 7)
    BY <1>1, <1>2, <1>3, <1>4, <1>5 DEF UpTo
  <2>2. Len(tails[7]) = 5 /\ tails[7][1] = 2 /\ tails[7][2] = 3 /\ tails[7][3] = 2 /\ tails[7][4] = 3 /\ tails[7][5] = 1
    BY PackTails5Is
  <2>. HIDE DEF turn, tails
  <2>. QED  BY <1>6, <2>1, <2>2 DEF TailFits, s1, s2, s3, s4, s5
<1>. HIDE DEF turn, tails
<1>. QED  BY <1>7, <1>8, <1>9, <1>10, <1>11, <1>12, <1>13 DEF TailsFit, turn, tails

LEMMA UnpackTurn3Is ==
    /\ Len(UnpackTurn3) = 8
    /\ Len(UnpackTurn3[1]) = 1 /\ Reads(UnpackTurn3[1][1], 0, 0, 2, 0)
    /\ Len(UnpackTurn3[2]) = 1 /\ Reads(UnpackTurn3[2][1], 0, 3, 5, 0)
    /\ Len(UnpackTurn3[3]) = 2 /\ Reads(UnpackTurn3[3][1], 0, 6, 7, 0)
    /\ Reads(UnpackTurn3[3][2], 1, 0, 0, 2)
    /\ Len(UnpackTurn3[4]) = 1 /\ Reads(UnpackTurn3[4][1], 1, 1, 3, 0)
    /\ Len(UnpackTurn3[5]) = 1 /\ Reads(UnpackTurn3[5][1], 1, 4, 6, 0)
    /\ Len(UnpackTurn3[6]) = 2 /\ Reads(UnpackTurn3[6][1], 1, 7, 7, 0)
    /\ Reads(UnpackTurn3[6][2], 2, 0, 1, 1)
    /\ Len(UnpackTurn3[7]) = 1 /\ Reads(UnpackTurn3[7][1], 2, 2, 4, 0)
    /\ Len(UnpackTurn3[8]) = 1 /\ Reads(UnpackTurn3[8][1], 2, 5, 7, 0)
BY DEF UnpackTurn3, Reads

LEMMA UnpackTails3Is ==
    /\ Len(UnpackTails3[1]) = 2 /\ UnpackTails3[1][1] = 1 /\ UnpackTails3[1][2] = 1
    /\ Len(UnpackTails3[2]) = 5 /\ UnpackTails3[2][1] = 1 /\ UnpackTails3[2][2] = 1
    /\ UnpackTails3[2][3] = 2 /\ UnpackTails3[2][4] = 1 /\ UnpackTails3[2][5] = 1
BY DEF UnpackTails3

LEMMA UnpackTurn3Fits == TurnFits(UnpackTurn3, 3, 8, 3)
<1>. DEFINE turn == UnpackTurn3
<1>1. Len(turn) = 8
  BY UnpackTurn3Is
<1>2. StatementFits(turn[1], 1, 3, 8, 3)
  <2>. DEFINE s == turn[1]
  <2>1. /\ Len(s) = 1 /\ Reads(s[1], 0, 0, 2, 0)
    BY UnpackTurn3Is
  <2>. HIDE DEF s
  <2>2. \A x \in 1 .. Len(s) : TermFits(s[x], 1, 3, 8, 3)
    BY <2>1 DEF TermFits, Reads
  <2>3. \A j \in 0 .. 3 - 1 : \E x \in 1 .. Len(s) : j \in Span(s[x])
    BY <2>1 DEF Span, Reads
  <2>. QED  BY <2>1, <2>2, <2>3 DEF StatementFits, s
<1>3. StatementFits(turn[2], 2, 3, 8, 3)
  <2>. DEFINE s == turn[2]
  <2>1. /\ Len(s) = 1 /\ Reads(s[1], 0, 3, 5, 0)
    BY UnpackTurn3Is
  <2>. HIDE DEF s
  <2>2. \A x \in 1 .. Len(s) : TermFits(s[x], 2, 3, 8, 3)
    BY <2>1 DEF TermFits, Reads
  <2>3. \A j \in 0 .. 3 - 1 : \E x \in 1 .. Len(s) : j \in Span(s[x])
    BY <2>1 DEF Span, Reads
  <2>. QED  BY <2>1, <2>2, <2>3 DEF StatementFits, s
<1>4. StatementFits(turn[3], 3, 3, 8, 3)
  <2>. DEFINE s == turn[3]
  <2>1. /\ Len(s) = 2 /\ Reads(s[1], 0, 6, 7, 0) /\ Reads(s[2], 1, 0, 0, 2)
    BY UnpackTurn3Is
  <2>. HIDE DEF s
  <2>2. \A x \in 1 .. Len(s) : TermFits(s[x], 3, 3, 8, 3)
    <3>1. /\ TermFits(s[1], 3, 3, 8, 3) /\ TermFits(s[2], 3, 3, 8, 3)
      BY <2>1 DEF TermFits, Reads
    <3>. QED  BY <2>1, <3>1
  <2>3. \A j \in 0 .. 3 - 1 : \E x \in 1 .. Len(s) : j \in Span(s[x])
    <3>1. \A j \in 0 .. 3 - 1 : j \in Span(s[1]) \/ j \in Span(s[2])
      BY <2>1 DEF Span, Reads
    <3>. QED  BY <2>1, <3>1
  <2>. QED  BY <2>1, <2>2, <2>3 DEF StatementFits, s
<1>5. StatementFits(turn[4], 4, 3, 8, 3)
  <2>. DEFINE s == turn[4]
  <2>1. /\ Len(s) = 1 /\ Reads(s[1], 1, 1, 3, 0)
    BY UnpackTurn3Is
  <2>. HIDE DEF s
  <2>2. \A x \in 1 .. Len(s) : TermFits(s[x], 4, 3, 8, 3)
    BY <2>1 DEF TermFits, Reads
  <2>3. \A j \in 0 .. 3 - 1 : \E x \in 1 .. Len(s) : j \in Span(s[x])
    BY <2>1 DEF Span, Reads
  <2>. QED  BY <2>1, <2>2, <2>3 DEF StatementFits, s
<1>6. StatementFits(turn[5], 5, 3, 8, 3)
  <2>. DEFINE s == turn[5]
  <2>1. /\ Len(s) = 1 /\ Reads(s[1], 1, 4, 6, 0)
    BY UnpackTurn3Is
  <2>. HIDE DEF s
  <2>2. \A x \in 1 .. Len(s) : TermFits(s[x], 5, 3, 8, 3)
    BY <2>1 DEF TermFits, Reads
  <2>3. \A j \in 0 .. 3 - 1 : \E x \in 1 .. Len(s) : j \in Span(s[x])
    BY <2>1 DEF Span, Reads
  <2>. QED  BY <2>1, <2>2, <2>3 DEF StatementFits, s
<1>7. StatementFits(turn[6], 6, 3, 8, 3)
  <2>. DEFINE s == turn[6]
  <2>1. /\ Len(s) = 2 /\ Reads(s[1], 1, 7, 7, 0) /\ Reads(s[2], 2, 0, 1, 1)
    BY UnpackTurn3Is
  <2>. HIDE DEF s
  <2>2. \A x \in 1 .. Len(s) : TermFits(s[x], 6, 3, 8, 3)
    <3>1. /\ TermFits(s[1], 6, 3, 8, 3) /\ TermFits(s[2], 6, 3, 8, 3)
      BY <2>1 DEF TermFits, Reads
    <3>. QED  BY <2>1, <3>1
  <2>3. \A j \in 0 .. 3 - 1 : \E x \in 1 .. Len(s) : j \in Span(s[x])
    <3>1. \A j \in 0 .. 3 - 1 : j \in Span(s[1]) \/ j \in Span(s[2])
      BY <2>1 DEF Span, Reads
    <3>. QED  BY <2>1, <3>1
  <2>. QED  BY <2>1, <2>2, <2>3 DEF StatementFits, s
<1>8. StatementFits(turn[7], 7, 3, 8, 3)
  <2>. DEFINE s == turn[7]
  <2>1. /\ Len(s) = 1 /\ Reads(s[1], 2, 2, 4, 0)
    BY UnpackTurn3Is
  <2>. HIDE DEF s
  <2>2. \A x \in 1 .. Len(s) : TermFits(s[x], 7, 3, 8, 3)
    BY <2>1 DEF TermFits, Reads
  <2>3. \A j \in 0 .. 3 - 1 : \E x \in 1 .. Len(s) : j \in Span(s[x])
    BY <2>1 DEF Span, Reads
  <2>. QED  BY <2>1, <2>2, <2>3 DEF StatementFits, s
<1>9. StatementFits(turn[8], 8, 3, 8, 3)
  <2>. DEFINE s == turn[8]
  <2>1. /\ Len(s) = 1 /\ Reads(s[1], 2, 5, 7, 0)
    BY UnpackTurn3Is
  <2>. HIDE DEF s
  <2>2. \A x \in 1 .. Len(s) : TermFits(s[x], 8, 3, 8, 3)
    BY <2>1 DEF TermFits, Reads
  <2>3. \A j \in 0 .. 3 - 1 : \E x \in 1 .. Len(s) : j \in Span(s[x])
    BY <2>1 DEF Span, Reads
  <2>. QED  BY <2>1, <2>2, <2>3 DEF StatementFits, s
<1>. HIDE DEF turn
<1>. QED  BY <1>1, <1>2, <1>3, <1>4, <1>5, <1>6, <1>7, <1>8, <1>9 DEF TurnFits, turn

LEMMA UnpackTails3Fit == TailsFit(UnpackTails3, UnpackTurn3, 3)
<1>. DEFINE turn == UnpackTurn3
            tails == UnpackTails3
            s1 == turn[1]
            s2 == turn[2]
            s3 == turn[3]
            s4 == turn[4]
            s5 == turn[5]
            s6 == turn[6]
            s7 == turn[7]
            s8 == turn[8]
<1>1. Len(s1) = 1 /\ s1[1][1] = 0
  BY UnpackTurn3Is DEF Reads
<1>2. Len(s2) = 1 /\ s2[1][1] = 0
  BY UnpackTurn3Is DEF Reads
<1>3. Len(s3) = 2 /\ s3[1][1] = 0 /\ s3[2][1] = 1
  BY UnpackTurn3Is DEF Reads
<1>4. Len(s4) = 1 /\ s4[1][1] = 1
  BY UnpackTurn3Is DEF Reads
<1>5. Len(s5) = 1 /\ s5[1][1] = 1
  BY UnpackTurn3Is DEF Reads
<1>6. Len(s6) = 2 /\ s6[1][1] = 1 /\ s6[2][1] = 2
  BY UnpackTurn3Is DEF Reads
<1>7. Len(s7) = 1 /\ s7[1][1] = 2
  BY UnpackTurn3Is DEF Reads
<1>8. Len(s8) = 1 /\ s8[1][1] = 2
  BY UnpackTurn3Is DEF Reads
<1>9. Len(turn) = 8
  BY UnpackTurn3Is
<1>. HIDE DEF s1, s2, s3, s4, s5, s6, s7, s8
<1>10. TailFits(tails[1], turn, 1)
  <2>1. /\ UpTo(s1, 1, 1) /\ UpTo(s2, 1, 1)
    BY <1>1, <1>2 DEF UpTo
  <2>2. Len(tails[1]) = 2 /\ tails[1][1] = 1 /\ tails[1][2] = 1
    BY UnpackTails3Is
  <2>. HIDE DEF turn, tails
  <2>. QED  BY <1>9, <2>1, <2>2 DEF TailFits, s1, s2
<1>11. TailFits(tails[2], turn, 2)
  <2>1. /\ UpTo(s1, 1, 2) /\ UpTo(s2, 1, 2) /\ UpTo(s3, 2, 2) /\ UpTo(s4, 1, 2) /\ UpTo(s5, 1, 2)
    BY <1>1, <1>2, <1>3, <1>4, <1>5 DEF UpTo
  <2>2. Len(tails[2]) = 5 /\ tails[2][1] = 1 /\ tails[2][2] = 1 /\ tails[2][3] = 2 /\ tails[2][4] = 1 /\ tails[2][5] = 1
    BY UnpackTails3Is
  <2>. HIDE DEF turn, tails
  <2>. QED  BY <1>9, <2>1, <2>2 DEF TailFits, s1, s2, s3, s4, s5
<1>. HIDE DEF turn, tails
<1>. QED  BY <1>10, <1>11 DEF TailsFit, turn, tails

LEMMA UnpackTurn5Is ==
    /\ Len(UnpackTurn5) = 8
    /\ Len(UnpackTurn5[1]) = 1 /\ Reads(UnpackTurn5[1][1], 0, 0, 4, 0)
    /\ Len(UnpackTurn5[2]) = 2 /\ Reads(UnpackTurn5[2][1], 0, 5, 7, 0)
    /\ Reads(UnpackTurn5[2][2], 1, 0, 1, 3)
    /\ Len(UnpackTurn5[3]) = 1 /\ Reads(UnpackTurn5[3][1], 1, 2, 6, 0)
    /\ Len(UnpackTurn5[4]) = 2 /\ Reads(UnpackTurn5[4][1], 1, 7, 7, 0)
    /\ Reads(UnpackTurn5[4][2], 2, 0, 3, 1)
    /\ Len(UnpackTurn5[5]) = 2 /\ Reads(UnpackTurn5[5][1], 2, 4, 7, 0)
    /\ Reads(UnpackTurn5[5][2], 3, 0, 0, 4)
    /\ Len(UnpackTurn5[6]) = 1 /\ Reads(UnpackTurn5[6][1], 3, 1, 5, 0)
    /\ Len(UnpackTurn5[7]) = 2 /\ Reads(UnpackTurn5[7][1], 3, 6, 7, 0)
    /\ Reads(UnpackTurn5[7][2], 4, 0, 2, 2)
    /\ Len(UnpackTurn5[8]) = 1 /\ Reads(UnpackTurn5[8][1], 4, 3, 7, 0)
BY DEF UnpackTurn5, Reads

LEMMA UnpackTails5Is ==
    /\ Len(UnpackTails5[1]) = 1 /\ UnpackTails5[1][1] = 1
    /\ Len(UnpackTails5[2]) = 3 /\ UnpackTails5[2][1] = 1 /\ UnpackTails5[2][2] = 2
    /\ UnpackTails5[2][3] = 1
    /\ Len(UnpackTails5[3]) = 4 /\ UnpackTails5[3][1] = 1 /\ UnpackTails5[3][2] = 2
    /\ UnpackTails5[3][3] = 1 /\ UnpackTails5[3][4] = 2
    /\ Len(UnpackTails5[4]) = 6 /\ UnpackTails5[4][1] = 1 /\ UnpackTails5[4][2] = 2
    /\ UnpackTails5[4][3] = 1 /\ UnpackTails5[4][4] = 2 /\ UnpackTails5[4][5] = 2
    /\ UnpackTails5[4][6] = 1
BY DEF UnpackTails5

LEMMA UnpackTurn5Fits == TurnFits(UnpackTurn5, 5, 8, 5)
<1>. DEFINE turn == UnpackTurn5
<1>1. Len(turn) = 8
  BY UnpackTurn5Is
<1>2. StatementFits(turn[1], 1, 5, 8, 5)
  <2>. DEFINE s == turn[1]
  <2>1. /\ Len(s) = 1 /\ Reads(s[1], 0, 0, 4, 0)
    BY UnpackTurn5Is
  <2>. HIDE DEF s
  <2>2. \A x \in 1 .. Len(s) : TermFits(s[x], 1, 5, 8, 5)
    BY <2>1 DEF TermFits, Reads
  <2>3. \A j \in 0 .. 5 - 1 : \E x \in 1 .. Len(s) : j \in Span(s[x])
    BY <2>1 DEF Span, Reads
  <2>. QED  BY <2>1, <2>2, <2>3 DEF StatementFits, s
<1>3. StatementFits(turn[2], 2, 5, 8, 5)
  <2>. DEFINE s == turn[2]
  <2>1. /\ Len(s) = 2 /\ Reads(s[1], 0, 5, 7, 0) /\ Reads(s[2], 1, 0, 1, 3)
    BY UnpackTurn5Is
  <2>. HIDE DEF s
  <2>2. \A x \in 1 .. Len(s) : TermFits(s[x], 2, 5, 8, 5)
    <3>1. /\ TermFits(s[1], 2, 5, 8, 5) /\ TermFits(s[2], 2, 5, 8, 5)
      BY <2>1 DEF TermFits, Reads
    <3>. QED  BY <2>1, <3>1
  <2>3. \A j \in 0 .. 5 - 1 : \E x \in 1 .. Len(s) : j \in Span(s[x])
    <3>1. \A j \in 0 .. 5 - 1 : j \in Span(s[1]) \/ j \in Span(s[2])
      BY <2>1 DEF Span, Reads
    <3>. QED  BY <2>1, <3>1
  <2>. QED  BY <2>1, <2>2, <2>3 DEF StatementFits, s
<1>4. StatementFits(turn[3], 3, 5, 8, 5)
  <2>. DEFINE s == turn[3]
  <2>1. /\ Len(s) = 1 /\ Reads(s[1], 1, 2, 6, 0)
    BY UnpackTurn5Is
  <2>. HIDE DEF s
  <2>2. \A x \in 1 .. Len(s) : TermFits(s[x], 3, 5, 8, 5)
    BY <2>1 DEF TermFits, Reads
  <2>3. \A j \in 0 .. 5 - 1 : \E x \in 1 .. Len(s) : j \in Span(s[x])
    BY <2>1 DEF Span, Reads
  <2>. QED  BY <2>1, <2>2, <2>3 DEF StatementFits, s
<1>5. StatementFits(turn[4], 4, 5, 8, 5)
  <2>. DEFINE s == turn[4]
  <2>1. /\ Len(s) = 2 /\ Reads(s[1], 1, 7, 7, 0) /\ Reads(s[2], 2, 0, 3, 1)
    BY UnpackTurn5Is
  <2>. HIDE DEF s
  <2>2. \A x \in 1 .. Len(s) : TermFits(s[x], 4, 5, 8, 5)
    <3>1. /\ TermFits(s[1], 4, 5, 8, 5) /\ TermFits(s[2], 4, 5, 8, 5)
      BY <2>1 DEF TermFits, Reads
    <3>. QED  BY <2>1, <3>1
  <2>3. \A j \in 0 .. 5 - 1 : \E x \in 1 .. Len(s) : j \in Span(s[x])
    <3>1. \A j \in 0 .. 5 - 1 : j \in Span(s[1]) \/ j \in Span(s[2])
      BY <2>1 DEF Span, Reads
    <3>. QED  BY <2>1, <3>1
  <2>. QED  BY <2>1, <2>2, <2>3 DEF StatementFits, s
<1>6. StatementFits(turn[5], 5, 5, 8, 5)
  <2>. DEFINE s == turn[5]
  <2>1. /\ Len(s) = 2 /\ Reads(s[1], 2, 4, 7, 0) /\ Reads(s[2], 3, 0, 0, 4)
    BY UnpackTurn5Is
  <2>. HIDE DEF s
  <2>2. \A x \in 1 .. Len(s) : TermFits(s[x], 5, 5, 8, 5)
    <3>1. /\ TermFits(s[1], 5, 5, 8, 5) /\ TermFits(s[2], 5, 5, 8, 5)
      BY <2>1 DEF TermFits, Reads
    <3>. QED  BY <2>1, <3>1
  <2>3. \A j \in 0 .. 5 - 1 : \E x \in 1 .. Len(s) : j \in Span(s[x])
    <3>1. \A j \in 0 .. 5 - 1 : j \in Span(s[1]) \/ j \in Span(s[2])
      BY <2>1 DEF Span, Reads
    <3>. QED  BY <2>1, <3>1
  <2>. QED  BY <2>1, <2>2, <2>3 DEF StatementFits, s
<1>7. StatementFits(turn[6], 6, 5, 8, 5)
  <2>. DEFINE s == turn[6]
  <2>1. /\ Len(s) = 1 /\ Reads(s[1], 3, 1, 5, 0)
    BY UnpackTurn5Is
  <2>. HIDE DEF s
  <2>2. \A x \in 1 .. Len(s) : TermFits(s[x], 6, 5, 8, 5)
    BY <2>1 DEF TermFits, Reads
  <2>3. \A j \in 0 .. 5 - 1 : \E x \in 1 .. Len(s) : j \in Span(s[x])
    BY <2>1 DEF Span, Reads
  <2>. QED  BY <2>1, <2>2, <2>3 DEF StatementFits, s
<1>8. StatementFits(turn[7], 7, 5, 8, 5)
  <2>. DEFINE s == turn[7]
  <2>1. /\ Len(s) = 2 /\ Reads(s[1], 3, 6, 7, 0) /\ Reads(s[2], 4, 0, 2, 2)
    BY UnpackTurn5Is
  <2>. HIDE DEF s
  <2>2. \A x \in 1 .. Len(s) : TermFits(s[x], 7, 5, 8, 5)
    <3>1. /\ TermFits(s[1], 7, 5, 8, 5) /\ TermFits(s[2], 7, 5, 8, 5)
      BY <2>1 DEF TermFits, Reads
    <3>. QED  BY <2>1, <3>1
  <2>3. \A j \in 0 .. 5 - 1 : \E x \in 1 .. Len(s) : j \in Span(s[x])
    <3>1. \A j \in 0 .. 5 - 1 : j \in Span(s[1]) \/ j \in Span(s[2])
      BY <2>1 DEF Span, Reads
    <3>. QED  BY <2>1, <3>1
  <2>. QED  BY <2>1, <2>2, <2>3 DEF StatementFits, s
<1>9. StatementFits(turn[8], 8, 5, 8, 5)
  <2>. DEFINE s == turn[8]
  <2>1. /\ Len(s) = 1 /\ Reads(s[1], 4, 3, 7, 0)
    BY UnpackTurn5Is
  <2>. HIDE DEF s
  <2>2. \A x \in 1 .. Len(s) : TermFits(s[x], 8, 5, 8, 5)
    BY <2>1 DEF TermFits, Reads
  <2>3. \A j \in 0 .. 5 - 1 : \E x \in 1 .. Len(s) : j \in Span(s[x])
    BY <2>1 DEF Span, Reads
  <2>. QED  BY <2>1, <2>2, <2>3 DEF StatementFits, s
<1>. HIDE DEF turn
<1>. QED  BY <1>1, <1>2, <1>3, <1>4, <1>5, <1>6, <1>7, <1>8, <1>9 DEF TurnFits, turn

LEMMA UnpackTails5Fit == TailsFit(UnpackTails5, UnpackTurn5, 5)
<1>. DEFINE turn == UnpackTurn5
            tails == UnpackTails5
            s1 == turn[1]
            s2 == turn[2]
            s3 == turn[3]
            s4 == turn[4]
            s5 == turn[5]
            s6 == turn[6]
            s7 == turn[7]
            s8 == turn[8]
<1>1. Len(s1) = 1 /\ s1[1][1] = 0
  BY UnpackTurn5Is DEF Reads
<1>2. Len(s2) = 2 /\ s2[1][1] = 0 /\ s2[2][1] = 1
  BY UnpackTurn5Is DEF Reads
<1>3. Len(s3) = 1 /\ s3[1][1] = 1
  BY UnpackTurn5Is DEF Reads
<1>4. Len(s4) = 2 /\ s4[1][1] = 1 /\ s4[2][1] = 2
  BY UnpackTurn5Is DEF Reads
<1>5. Len(s5) = 2 /\ s5[1][1] = 2 /\ s5[2][1] = 3
  BY UnpackTurn5Is DEF Reads
<1>6. Len(s6) = 1 /\ s6[1][1] = 3
  BY UnpackTurn5Is DEF Reads
<1>7. Len(s7) = 2 /\ s7[1][1] = 3 /\ s7[2][1] = 4
  BY UnpackTurn5Is DEF Reads
<1>8. Len(s8) = 1 /\ s8[1][1] = 4
  BY UnpackTurn5Is DEF Reads
<1>9. Len(turn) = 8
  BY UnpackTurn5Is
<1>. HIDE DEF s1, s2, s3, s4, s5, s6, s7, s8
<1>10. TailFits(tails[1], turn, 1)
  <2>1. /\ UpTo(s1, 1, 1)
    BY <1>1 DEF UpTo
  <2>2. Len(tails[1]) = 1 /\ tails[1][1] = 1
    BY UnpackTails5Is
  <2>. HIDE DEF turn, tails
  <2>. QED  BY <1>9, <2>1, <2>2 DEF TailFits, s1
<1>11. TailFits(tails[2], turn, 2)
  <2>1. /\ UpTo(s1, 1, 2) /\ UpTo(s2, 2, 2) /\ UpTo(s3, 1, 2)
    BY <1>1, <1>2, <1>3 DEF UpTo
  <2>2. Len(tails[2]) = 3 /\ tails[2][1] = 1 /\ tails[2][2] = 2 /\ tails[2][3] = 1
    BY UnpackTails5Is
  <2>. HIDE DEF turn, tails
  <2>. QED  BY <1>9, <2>1, <2>2 DEF TailFits, s1, s2, s3
<1>12. TailFits(tails[3], turn, 3)
  <2>1. /\ UpTo(s1, 1, 3) /\ UpTo(s2, 2, 3) /\ UpTo(s3, 1, 3) /\ UpTo(s4, 2, 3)
    BY <1>1, <1>2, <1>3, <1>4 DEF UpTo
  <2>2. Len(tails[3]) = 4 /\ tails[3][1] = 1 /\ tails[3][2] = 2 /\ tails[3][3] = 1 /\ tails[3][4] = 2
    BY UnpackTails5Is
  <2>. HIDE DEF turn, tails
  <2>. QED  BY <1>9, <2>1, <2>2 DEF TailFits, s1, s2, s3, s4
<1>13. TailFits(tails[4], turn, 4)
  <2>1. /\ UpTo(s1, 1, 4) /\ UpTo(s2, 2, 4) /\ UpTo(s3, 1, 4) /\ UpTo(s4, 2, 4) /\ UpTo(s5, 2, 4)
        /\ UpTo(s6, 1, 4)
    BY <1>1, <1>2, <1>3, <1>4, <1>5, <1>6 DEF UpTo
  <2>2. Len(tails[4]) = 6 /\ tails[4][1] = 1 /\ tails[4][2] = 2 /\ tails[4][3] = 1 /\ tails[4][4] = 2 /\ tails[4][5] = 2 /\ tails[4][6] = 1
    BY UnpackTails5Is
  <2>. HIDE DEF turn, tails
  <2>. QED  BY <1>9, <2>1, <2>2 DEF TailFits, s1, s2, s3, s4, s5, s6
<1>. HIDE DEF turn, tails
<1>. QED  BY <1>10, <1>11, <1>12, <1>13 DEF TailsFit, turn, tails

-----------------------------------------------------------------------------
\* The sizes of a turn, of its elements and of what it makes of them.
Sizes(size, a, b, l) ==
    \/ size = 8 /\ a \in {3, 5} /\ b = 8 /\ l = a
    \/ size \in {3, 5} /\ a = 8 /\ b = size /\ l = 8

LEMMA DivMod ==
    ASSUME NEW a \in {3, 5, 8}, NEW q \in Nat, NEW y \in 0 .. a - 1
    PROVE  (q * a + y) \div a = q /\ (q * a + y) % a = y
<1>1. CASE a = 3  BY <1>1
<1>2. CASE a = 5  BY <1>2
<1>3. CASE a = 8  BY <1>3
<1>. QED  BY <1>1, <1>2, <1>3

\* A term makes the bits of its span, each of the bit at its place.
LEMMA TermIs ==
    ASSUME NEW size, NEW a, NEW b, NEW l, Sizes(size, a, b, l),
           NEW term, NEW k \in 1 .. l, TermFits(term, k, size, a, b),
           NEW bits, NEW i \in Nat, NEW j
    PROVE  LET p == b * (i * l + k - 1) + j
           IN /\ j \in Term(bits, term) <=> j \in Span(term) /\ p % a \in bits
              /\ j \in Span(term) => /\ j \in 0 .. b - 1
                                     /\ p \in Nat /\ p \div a = i * size + term[1]
<1>. DEFINE p == b * (i * l + k - 1) + j
            src == term[1]
            low == term[2]
            high == term[3]
            to == term[4]
            y == j - to + low
            q == i * size + src
<1>1. /\ src \in 0 .. size - 1 /\ low \in 0 .. a - 1 /\ high \in low .. a - 1 /\ to \in 0 .. b - 1
      /\ to + high - low < b /\ b * (k - 1) + to = src * a + low
  BY DEF TermFits
<1>2. Term(bits, term) = {m - low + to : m \in bits \cap low .. high}
  BY DEF Term
<1>3. Span(term) = to .. to + high - low
  BY DEF Span
<1>4. /\ a \in {3, 5, 8} /\ b \in {3, 5, 8} /\ l \in Nat /\ size \in {3, 5, 8}
  BY DEF Sizes
<1>. HIDE DEF src, low, high, to
<1>5. ASSUME j \in Span(term)
      PROVE  /\ j \in 0 .. b - 1 /\ y \in low .. high /\ y \in 0 .. a - 1 /\ q \in Nat
             /\ p = q * a + y
  <2>1. j \in to .. to + high - low
    BY <1>3, <1>5
  <2>2. j \in 0 .. b - 1 /\ y \in low .. high /\ y \in 0 .. a - 1 /\ q \in Nat
    BY <1>1, <1>4, <2>1
  <2>3. p = q * a + y
    <3>1. CASE size = 8 /\ a = 3 /\ b = 8 /\ l = 3  BY <1>1, <2>1, <3>1
    <3>2. CASE size = 8 /\ a = 5 /\ b = 8 /\ l = 5  BY <1>1, <2>1, <3>2
    <3>3. CASE size = 3 /\ a = 8 /\ b = 3 /\ l = 8  BY <1>1, <2>1, <3>3
    <3>4. CASE size = 5 /\ a = 8 /\ b = 5 /\ l = 8  BY <1>1, <2>1, <3>4
    <3>. QED  BY <3>1, <3>2, <3>3, <3>4 DEF Sizes
  <2>. QED  BY <2>2, <2>3
<1>6. ASSUME j \in Span(term)
      PROVE  p \in Nat /\ p \div a = q /\ p % a = y
  <2>. HIDE DEF p, q, y
  <2>1. q \in Nat /\ y \in 0 .. a - 1 /\ p = q * a + y
    BY <1>5, <1>6
  <2>2. p \div a = q /\ p % a = y
    BY <1>4, <2>1, DivMod
  <2>3. p \in Nat
    BY <1>4, <2>1
  <2>. QED  BY <2>2, <2>3
<1>7. j \in Term(bits, term) <=> j \in Span(term) /\ y \in bits
  <2>1. ASSUME j \in Term(bits, term)  PROVE j \in Span(term) /\ y \in bits
    <3>1. PICK m \in bits \cap low .. high : j = m - low + to
      BY <1>2, <2>1
    <3>2. m \in Nat /\ y = m /\ j \in to .. to + high - low
      BY <1>1, <1>4, <3>1
    <3>. HIDE DEF y
    <3>. QED  BY <1>3, <3>1, <3>2
  <2>2. ASSUME j \in Span(term), y \in bits  PROVE j \in Term(bits, term)
    <3>1. y \in low .. high /\ j = y - low + to
      BY <1>1, <1>3, <1>4, <2>2
    <3>. HIDE DEF y
    <3>. QED  BY <1>2, <2>2, <3>1
  <2>. QED  BY <2>1, <2>2
<1>. HIDE DEF y
<1>. HIDE DEF p, q
<1>8. j \in Span(term) => (p % a \in bits <=> y \in bits)
  BY <1>6
<1>. QED  BY <1>5, <1>6, <1>7, <1>8 DEF p, q, src

\* How many elements the turns and the tail make.
UnrolledSize(n, size, turn, tails) ==
    (n \div size) * Len(turn) + (IF n % size = 0 THEN 0 ELSE Len(tails[n % size]))

\* Element d of what is unrolled is in turn i, made by its statement k.
Turn(d, l) == (d - 1) \div l
Nth(d, l) == ((d - 1) % l) + 1

\* The terms of a statement are those of elements that are there.
LEMMA TermsAre ==
    ASSUME NEW size, NEW a, NEW b, NEW l, Sizes(size, a, b, l),
           NEW turn, TurnFits(turn, size, a, b), Len(turn) = l, NEW tails, TailsFit(tails, turn, size),
           NEW n \in Nat, NEW i \in Nat, NEW k \in 1 .. l,
           i < n \div size \/ (i = n \div size /\ n % size # 0 /\ k <= Len(tails[n % size]))
    PROVE  LET c == IF i < n \div size THEN Len(turn[k]) ELSE tails[n % size][k]
           IN /\ c \in 0 .. Len(turn[k])
              /\ \A x \in 1 .. Len(turn[k]) : x <= c <=> i * size + turn[k][x][1] < n
<1>. DEFINE turns == n \div size
            r == n % size
            s == turn[k]
            tail == tails[r]
<1>1. size \in {3, 5, 8} /\ Sizes(size, a, b, l) /\ l \in Nat
  BY DEF Sizes
<1>2. turns \in Nat /\ r \in 0 .. size - 1 /\ n = turns * size + r
  <2>1. CASE size = 3  BY <2>1
  <2>2. CASE size = 5  BY <2>2
  <2>3. CASE size = 8  BY <2>3
  <2>. QED  BY <1>1, <2>1, <2>2, <2>3
<1>3. StatementFits(s, k, size, a, b)
  BY DEF TurnFits
<1>4. Len(s) \in Nat /\ \A x \in 1 .. Len(s) : s[x][1] \in 0 .. size - 1
  BY <1>3 DEF StatementFits, TermFits
<1>. HIDE DEF turns, r, s
<1>5. CASE i < turns
  <2>1. ASSUME NEW e \in 0 .. size - 1
        PROVE  i * size + e < n
    <3>1. CASE size = 3  BY <1>2, <1>5, <3>1
    <3>2. CASE size = 5  BY <1>2, <1>5, <3>2
    <3>3. CASE size = 8  BY <1>2, <1>5, <3>3
    <3>. QED  BY <1>1, <3>1, <3>2, <3>3
  <2>2. \A x \in 1 .. Len(s) : x <= Len(s) /\ i * size + s[x][1] < n
    BY <1>4, <2>1
  <2>. QED  BY <1>4, <1>5, <2>2 DEF turns, s
<1>6. CASE i = turns /\ r # 0 /\ k <= Len(tail)
  <2>1. TailFits(tail, turn, r)
    BY <1>2, <1>6 DEF TailsFit
  <2>. HIDE DEF tail
  <2>2. k \in 1 .. Len(tail)
    BY <1>1, <1>6, <2>1 DEF TailFits
  <2>3. UpTo(s, tail[k], r)
    BY <2>1, <2>2 DEF TailFits, s
  <2>4. ASSUME NEW e \in 0 .. size - 1
        PROVE  i * size + e < n <=> e < r
    <3>1. CASE size = 3  BY <1>2, <1>6, <3>1
    <3>2. CASE size = 5  BY <1>2, <1>6, <3>2
    <3>3. CASE size = 8  BY <1>2, <1>6, <3>3
    <3>. QED  BY <1>1, <3>1, <3>2, <3>3
  <2>5. tail[k] \in 0 .. Len(s) /\ \A x \in 1 .. Len(s) : x <= tail[k] <=> i * size + s[x][1] < n
    BY <1>4, <2>3, <2>4 DEF UpTo
  <2>6. ~(i < turns)
    BY <1>2, <1>6
  <2>. QED  BY <2>5, <2>6 DEF turns, r, s, tail
<1>. QED  BY <1>5, <1>6 DEF turns, r

\* Bit j of element d is the bit at the same place among all bits.
BitOf(source, a, b, d, j) ==
    \E p \in {b * (d - 1) + j} : p < Len(source) * a /\ p % a \in source[(p \div a) + 1]

\* As many elements of b bits, made of elements of a bits.
Regrouped(source, a, b, count) ==
    [d \in 1 .. count |-> {j \in 0 .. b - 1 : BitOf(source, a, b, d, j)}]

Fit(source, size, a, b, turn, tails) ==
    /\ Sizes(size, a, b, Len(turn)) /\ Len(source) \in Nat
    /\ TurnFits(turn, size, a, b) /\ TailsFit(tails, turn, size)

LEMMA UnrolledIs ==
    ASSUME NEW source, NEW size, NEW a, NEW b, NEW turn, NEW tails,
           Fit(source, size, a, b, turn, tails)
    PROVE  Unrolled(source, size, turn, tails) =
             Regrouped(source, a, b, UnrolledSize(Len(source), size, turn, tails))
<1>. DEFINE l == Len(turn)
            n == Len(source)
            turns == n \div size
            rest == n % size
            t == IF rest = 0 THEN 0 ELSE Len(tails[rest])
            c(i, k) == IF i < turns THEN Len(turn[k]) ELSE tails[rest][k]
            One(i, k, x) == Term(source[i * size + turn[k][x][1] + 1], turn[k][x])
            Statement(i, k) == UNION {One(i, k, x) : x \in 1 .. c(i, k)}
<1>0. /\ Sizes(size, a, b, l) /\ Len(source) \in Nat
      /\ TurnFits(turn, size, a, b) /\ TailsFit(tails, turn, size)
  BY DEF Fit
<1>1. Unrolled(source, size, turn, tails) =
        [d \in 1 .. turns * Len(turn) + t |-> Statement((d - 1) \div Len(turn), ((d - 1) % Len(turn)) + 1)]
  BY Zenon DEF Unrolled
<1>2. /\ size \in {3, 5, 8} /\ a \in {3, 5, 8} /\ b \in {3, 5, 8} /\ l \in {3, 5, 8}
      /\ n \in Nat
  BY <1>0 DEF Sizes
<1>3. turns \in Nat /\ rest \in 0 .. size - 1
  <2>. HIDE DEF n
  <2>1. CASE size = 3  BY <1>2, <2>1
  <2>2. CASE size = 5  BY <1>2, <2>2
  <2>3. CASE size = 8  BY <1>2, <2>3
  <2>. QED  BY <1>2, <2>1, <2>2, <2>3
<1>4. t \in 0 .. l /\ (rest = 0 => t = 0) /\ (rest # 0 => t = Len(tails[rest]))
  <2>1. CASE rest = 0
    BY <1>2, <2>1
  <2>2. CASE rest # 0
    <3>. HIDE DEF rest
    <3>1. TailFits(tails[rest], turn, rest)
      BY <1>0, <1>3, <2>2 DEF TailsFit
    <3>. QED  BY <2>2, <3>1 DEF TailFits
  <2>. QED  BY <2>1, <2>2
<1>. HIDE DEF n, turns, rest, t
<1>5. ASSUME NEW d \in 1 .. turns * l + t
      PROVE  Statement(Turn(d, l), Nth(d, l)) = {j \in 0 .. b - 1 : BitOf(source, a, b, d, j)}
  <2>. DEFINE i == Turn(d, l)
              k == Nth(d, l)
              p(j) == b * (d - 1) + j
  <2>1. i \in Nat /\ k \in 1 .. l /\ d = i * l + k /\ (i < turns \/ (i = turns /\ k <= t))
    <3>1. /\ Turn(d, l) \in Nat /\ Nth(d, l) \in 1 .. l /\ d = Turn(d, l) * l + Nth(d, l)
          /\ Turn(d, l) < turns \/ (Turn(d, l) = turns /\ Nth(d, l) <= t)
      <4>1. l \in {3, 5, 8} /\ turns \in Nat /\ t \in 0 .. l /\ d \in 1 .. turns * l + t
        BY <1>2, <1>3, <1>4
      <4>2. CASE l = 3  BY <4>1, <4>2 DEF Turn, Nth
      <4>3. CASE l = 5  BY <4>1, <4>3 DEF Turn, Nth
      <4>4. CASE l = 8  BY <4>1, <4>4 DEF Turn, Nth
      <4>. QED  BY <4>1, <4>2, <4>3, <4>4
    <3>. QED  BY Zenon, <3>1 DEF i, k
  <2>. HIDE DEF i, k
  <2>2. i < turns \/ (i = turns /\ rest # 0 /\ k <= Len(tails[rest]))
    BY <1>2, <1>3, <1>4, <2>1
  <2>3. /\ c(i, k) \in 0 .. Len(turn[k])
        /\ \A x \in 1 .. Len(turn[k]) : x <= c(i, k) <=> i * size + turn[k][x][1] < n
    BY <1>0, <1>2, <2>1, <2>2, TermsAre DEF turns, rest
  <2>4. /\ Len(turn[k]) \in Nat
        /\ \A x \in 1 .. Len(turn[k]) : TermFits(turn[k][x], k, size, a, b)
        /\ \A j \in 0 .. b - 1 : \E x \in 1 .. Len(turn[k]) : j \in Span(turn[k][x])
    BY <1>0, <2>1 DEF TurnFits, StatementFits
  <2>. HIDE DEF c
  <2>5. ASSUME NEW j, NEW x \in 1 .. Len(turn[k])
        PROVE  /\ j \in One(i, k, x) <=> j \in Span(turn[k][x]) /\ p(j) % a \in source[i * size + turn[k][x][1] + 1]
               /\ j \in Span(turn[k][x]) => /\ j \in 0 .. b - 1 /\ p(j) \in Nat
                                            /\ p(j) \div a = i * size + turn[k][x][1]
    <3>. DEFINE bits == source[i * size + turn[k][x][1] + 1]
                term == turn[k][x]
    <3>1. TermFits(term, k, size, a, b)
      BY <2>4
    <3>2. i * l + k - 1 = d - 1
      BY <1>2, <2>1
    <3>. HIDE DEF bits, term, l
    <3>3. LET pp == b * (i * l + k - 1) + j
          IN /\ j \in Term(bits, term) <=> j \in Span(term) /\ pp % a \in bits
             /\ j \in Span(term) => /\ j \in 0 .. b - 1
                                    /\ pp \in Nat /\ pp \div a = i * size + term[1]
      BY <1>0, <2>1, <3>1, TermIs
    <3>. QED  BY Zenon, <3>2, <3>3 DEF bits, term
  <2>6. ASSUME NEW j, p(j) \in Nat
        PROVE  p(j) \div a < n <=> p(j) < n * a
    <3>. HIDE DEF p
    <3>1. CASE a = 3  BY <1>2, <2>6, <3>1
    <3>2. CASE a = 5  BY <1>2, <2>6, <3>2
    <3>3. CASE a = 8  BY <1>2, <2>6, <3>3
    <3>. QED  BY <1>2, <3>1, <3>2, <3>3
  <2>. HIDE DEF One
  <2>7. ASSUME NEW j
        PROVE  (\E x \in 1 .. c(i, k) : j \in One(i, k, x)) <=> j \in 0 .. b - 1 /\ BitOf(source, a, b, d, j)
    <3>1. BitOf(source, a, b, d, j) <=> p(j) < n * a /\ p(j) % a \in source[(p(j) \div a) + 1]
      BY DEF BitOf, n
    <3>. HIDE DEF p
    <3>2. ASSUME NEW x \in 1 .. c(i, k), j \in One(i, k, x)
          PROVE  j \in 0 .. b - 1 /\ BitOf(source, a, b, d, j)
      <4>1. x \in 1 .. Len(turn[k]) /\ x <= c(i, k)
        BY <2>3, <2>4, <3>2
      <4>2. /\ j \in 0 .. b - 1 /\ p(j) \in Nat /\ p(j) \div a = i * size + turn[k][x][1]
            /\ p(j) % a \in source[i * size + turn[k][x][1] + 1]
        BY <2>5, <3>2, <4>1
      <4>3. p(j) \div a < n
        BY <2>3, <4>1, <4>2
      <4>. QED  BY Zenon, <2>6, <3>1, <4>2, <4>3
    <3>3. ASSUME j \in 0 .. b - 1, BitOf(source, a, b, d, j)
          PROVE  \E x \in 1 .. c(i, k) : j \in One(i, k, x)
      <4>1. PICK x \in 1 .. Len(turn[k]) : j \in Span(turn[k][x])
        BY <2>4, <3>3
      <4>2. p(j) \in Nat /\ p(j) \div a = i * size + turn[k][x][1]
        BY <2>5, <4>1
      <4>3. p(j) \div a < n
        BY Zenon, <2>6, <3>1, <3>3, <4>2
      <4>4. x \in 1 .. c(i, k)
        <5>1. x <= c(i, k)
          BY Zenon, <2>3, <4>2, <4>3
        <5>. QED  BY <2>3, <2>4, <5>1
      <4>5. j \in One(i, k, x)
        BY Zenon, <2>5, <3>1, <3>3, <4>1, <4>2
      <4>. QED  BY <4>4, <4>5
    <3>. QED  BY <3>2, <3>3
  <2>. QED  BY Zenon, <2>7 DEF i, k
<1>. HIDE DEF Statement
<1>6. [d \in 1 .. turns * Len(turn) + t |-> Statement((d - 1) \div Len(turn), ((d - 1) % Len(turn)) + 1)]
        = [d \in 1 .. turns * l + t |-> {j \in 0 .. b - 1 : BitOf(source, a, b, d, j)}]
  BY <1>5 DEF Turn, Nth
<1>7. UnrolledSize(Len(source), size, turn, tails) = turns * l + t
  BY Zenon DEF UnrolledSize, turns, rest, t, n
<1>. QED  BY Zenon, <1>1, <1>6, <1>7 DEF Regrouped

\* The tails make as many elements as are needed for the bits that are left.
LEMMA UnrolledSizes ==
    ASSUME NEW n \in Nat
    PROVE  /\ UnrolledSize(n, 8, PackTurn3, PackTails3) = PackedSize(n, 3)
           /\ UnrolledSize(n, 8, PackTurn5, PackTails5) = PackedSize(n, 5)
           /\ UnrolledSize(n, 3, UnpackTurn3, UnpackTails3) = (n * 8) \div 3
           /\ UnrolledSize(n, 5, UnpackTurn5, UnpackTails5) = (n * 8) \div 5
<1>1. UnrolledSize(n, 8, PackTurn3, PackTails3) = PackedSize(n, 3)
  <2>. DEFINE len(r) == IF r = 0 THEN 0 ELSE Len(PackTails3[r])
  <2>1. len(0) = 0 /\ len(1) = 1 /\ len(2) = 1 /\ len(3) = 2 /\ len(4) = 2 /\ len(5) = 2 /\ len(6) = 3 /\ len(7) = 3
    BY PackTails3Is
  <2>2. UnrolledSize(n, 8, PackTurn3, PackTails3) = (n \div 8) * 3 + len(n % 8)
    BY PackTurn3Is DEF UnrolledSize
  <2>. HIDE DEF len
  <2>3. CASE n % 8 = 0  BY <2>1, <2>2, <2>3 DEF PackedSize
  <2>4. CASE n % 8 = 1  BY <2>1, <2>2, <2>4 DEF PackedSize
  <2>5. CASE n % 8 = 2  BY <2>1, <2>2, <2>5 DEF PackedSize
  <2>6. CASE n % 8 = 3  BY <2>1, <2>2, <2>6 DEF PackedSize
  <2>7. CASE n % 8 = 4  BY <2>1, <2>2, <2>7 DEF PackedSize
  <2>8. CASE n % 8 = 5  BY <2>1, <2>2, <2>8 DEF PackedSize
  <2>9. CASE n % 8 = 6  BY <2>1, <2>2, <2>9 DEF PackedSize
  <2>10. CASE n % 8 = 7  BY <2>1, <2>2, <2>10 DEF PackedSize
  <2>. QED  BY <2>3, <2>4, <2>5, <2>6, <2>7, <2>8, <2>9, <2>10
<1>2. UnrolledSize(n, 8, PackTurn5, PackTails5) = PackedSize(n, 5)
  <2>. DEFINE len(r) == IF r = 0 THEN 0 ELSE Len(PackTails5[r])
  <2>1. len(0) = 0 /\ len(1) = 1 /\ len(2) = 2 /\ len(3) = 2 /\ len(4) = 3 /\ len(5) = 4 /\ len(6) = 4 /\ len(7) = 5
    BY PackTails5Is
  <2>2. UnrolledSize(n, 8, PackTurn5, PackTails5) = (n \div 8) * 5 + len(n % 8)
    BY PackTurn5Is DEF UnrolledSize
  <2>. HIDE DEF len
  <2>3. CASE n % 8 = 0  BY <2>1, <2>2, <2>3 DEF PackedSize
  <2>4. CASE n % 8 = 1  BY <2>1, <2>2, <2>4 DEF PackedSize
  <2>5. CASE n % 8 = 2  BY <2>1, <2>2, <2>5 DEF PackedSize
  <2>6. CASE n % 8 = 3  BY <2>1, <2>2, <2>6 DEF PackedSize
  <2>7. CASE n % 8 = 4  BY <2>1, <2>2, <2>7 DEF PackedSize
  <2>8. CASE n % 8 = 5  BY <2>1, <2>2, <2>8 DEF PackedSize
  <2>9. CASE n % 8 = 6  BY <2>1, <2>2, <2>9 DEF PackedSize
  <2>10. CASE n % 8 = 7  BY <2>1, <2>2, <2>10 DEF PackedSize
  <2>. QED  BY <2>3, <2>4, <2>5, <2>6, <2>7, <2>8, <2>9, <2>10
<1>3. UnrolledSize(n, 3, UnpackTurn3, UnpackTails3) = (n * 8) \div 3
  <2>. DEFINE len(r) == IF r = 0 THEN 0 ELSE Len(UnpackTails3[r])
  <2>1. len(0) = 0 /\ len(1) = 2 /\ len(2) = 5
    BY UnpackTails3Is
  <2>2. UnrolledSize(n, 3, UnpackTurn3, UnpackTails3) = (n \div 3) * 8 + len(n % 3)
    BY UnpackTurn3Is DEF UnrolledSize
  <2>. HIDE DEF len
  <2>3. CASE n % 3 = 0  BY <2>1, <2>2, <2>3
  <2>4. CASE n % 3 = 1  BY <2>1, <2>2, <2>4
  <2>5. CASE n % 3 = 2  BY <2>1, <2>2, <2>5
  <2>. QED  BY <2>3, <2>4, <2>5
<1>4. UnrolledSize(n, 5, UnpackTurn5, UnpackTails5) = (n * 8) \div 5
  <2>. DEFINE len(r) == IF r = 0 THEN 0 ELSE Len(UnpackTails5[r])
  <2>1. len(0) = 0 /\ len(1) = 1 /\ len(2) = 3 /\ len(3) = 4 /\ len(4) = 6
    BY UnpackTails5Is
  <2>2. UnrolledSize(n, 5, UnpackTurn5, UnpackTails5) = (n \div 5) * 8 + len(n % 5)
    BY UnpackTurn5Is DEF UnrolledSize
  <2>. HIDE DEF len
  <2>3. CASE n % 5 = 0  BY <2>1, <2>2, <2>3
  <2>4. CASE n % 5 = 1  BY <2>1, <2>2, <2>4
  <2>5. CASE n % 5 = 2  BY <2>1, <2>2, <2>5
  <2>6. CASE n % 5 = 3  BY <2>1, <2>2, <2>6
  <2>7. CASE n % 5 = 4  BY <2>1, <2>2, <2>7
  <2>. QED  BY <2>3, <2>4, <2>5, <2>6, <2>7
<1>. QED  BY <1>1, <1>2, <1>3, <1>4

\* The unrolled loops and their tails put every bit where the formula does.
LEMMA PacksByBits ==
    ASSUME NEW S, NEW codes \in Seq(S)
    PROVE  PackInt3Array(codes) = Pack(codes, 3) /\ PackInt5Array(codes) = Pack(codes, 5)
<1>. DEFINE bits == AsBits(codes)
            n == Len(codes)
<1>1. /\ n \in Nat /\ bits \in Seq(Byte) /\ Len(bits) = n
      /\ \A c \in 1 .. n : bits[c] = BitsOf(codes[c], 8)
  <2>1. \A x : BitsOf(x, 8) \in Byte
    BY DEF BitsOf, Byte
  <2>. QED  BY <2>1 DEF AsBits
<1>. HIDE DEF bits
<1>2. ASSUME NEW width \in {3, 5}, NEW d \in Nat \ {0}, NEW j \in 0 .. 7
      PROVE  BitOf(bits, width, 8, d, j) <=>
               \E p \in {8 * (d - 1) + j} :
                  p < n * width /\ (p % width) \in BitsOf(codes[(p \div width) + 1], width)
  <2>. DEFINE p == 8 * (d - 1) + j
              m == p % width
              q == p \div width
  <2>1. p \in Nat /\ m \in 0 .. width - 1 /\ q \in Nat /\ (p < n * width => q + 1 \in 1 .. n)
    <3>1. p \in Nat
      OBVIOUS
    <3>. HIDE DEF p, n
    <3>2. CASE width = 3  BY <1>1, <3>1, <3>2
    <3>3. CASE width = 5  BY <1>1, <3>1, <3>3
    <3>. QED  BY <3>2, <3>3
  <2>. HIDE DEF m, q
  <2>2. \A x : m \in BitsOf(x, 8) <=> m \in BitsOf(x, width)
    BY <2>1 DEF BitsOf
  <2>. HIDE DEF p, n
  <2>3. p < n * width => (m \in bits[q + 1] <=> m \in BitsOf(codes[q + 1], width))
    BY <1>1, <2>1, <2>2
  <2>4. BitOf(bits, width, 8, d, j) <=> p < n * width /\ m \in bits[q + 1]
    BY Zenon, <1>1 DEF BitOf, p, m, q
  <2>. QED  BY Zenon, <2>3, <2>4 DEF p, m, q
<1>. HIDE DEF n
<1>3. ASSUME NEW width \in {3, 5}
      PROVE  Pack(codes, width) =
               Regrouped(bits, width, 8, PackedSize(n, width))
  <2>. DEFINE e(d) == {j \in 0 .. 7 : \E p \in {8 * (d - 1) + j} :
                        /\ p < n * width
                        /\ (p % width) \in BitsOf(codes[(p \div width) + 1], width)}
              f(d) == {j \in 0 .. 8 - 1 : BitOf(bits, width, 8, d, j)}
  <2>1. Pack(codes, width) = [d \in 1 .. PackedSize(n, width) |-> e(d)]
    BY Zenon DEF Pack, n
  <2>2. \A d \in Nat \ {0} : e(d) = f(d)
    <3>1. 0 .. 8 - 1 = 0 .. 7
      OBVIOUS
    <3>. QED  BY Zenon, <1>2, <3>1
  <2>3. PackedSize(n, width) \in Nat
    BY <1>1 DEF PackedSize
  <2>. HIDE DEF e, f
  <2>4. Pack(codes, width) = [d \in 1 .. PackedSize(n, width) |-> f(d)]
    BY <2>1, <2>2, <2>3
  <2>. QED  BY Zenon, <2>4 DEF f, Regrouped
<1>4. PackInt3Array(codes) = Pack(codes, 3)
  <2>1. Fit(bits, 8, 3, 8, PackTurn3, PackTails3)
    BY <1>1, PackTurn3Is, PackTurn3Fits, PackTails3Fit DEF Fit, Sizes
  <2>2. Unrolled(bits, 8, PackTurn3, PackTails3) =
          Regrouped(bits, 3, 8, UnrolledSize(Len(bits), 8, PackTurn3, PackTails3))
    BY <2>1, UnrolledIs
  <2>. QED  BY Zenon, <1>1, <1>3, <2>2, UnrolledSizes DEF PackInt3Array, bits
<1>5. PackInt5Array(codes) = Pack(codes, 5)
  <2>1. Fit(bits, 8, 5, 8, PackTurn5, PackTails5)
    BY <1>1, PackTurn5Is, PackTurn5Fits, PackTails5Fit DEF Fit, Sizes
  <2>2. Unrolled(bits, 8, PackTurn5, PackTails5) =
          Regrouped(bits, 5, 8, UnrolledSize(Len(bits), 8, PackTurn5, PackTails5))
    BY <2>1, UnrolledIs
  <2>. QED  BY Zenon, <1>1, <1>3, <2>2, UnrolledSizes DEF PackInt5Array, bits
<1>. QED  BY <1>4, <1>5

LEMMA UnpacksByBits ==
    ASSUME NEW bytes \in Seq(Byte)
    PROVE  UnpackInt3Array(bytes) = Unpack(bytes, 3) /\ UnpackInt5Array(bytes) = Unpack(bytes, 5)
<1>. DEFINE n == Len(bytes)
<1>1. n \in Nat
  OBVIOUS
<1>2. ASSUME NEW width \in {3, 5}, NEW c \in 1 .. (n * 8) \div width
      PROVE  {j \in 0 .. width - 1 : BitOf(bytes, 8, width, c, j)} =
             {j \in 0 .. width - 1 : \E p \in {(c - 1) * width + j} : (p % 8) \in bytes[(p \div 8) + 1]}
  <2>1. ASSUME NEW j \in 0 .. width - 1
        PROVE  width * (c - 1) + j = (c - 1) * width + j /\ (c - 1) * width + j < n * 8
    <3>. HIDE DEF n
    <3>1. CASE width = 3  BY <1>1, <3>1
    <3>2. CASE width = 5  BY <1>1, <3>2
    <3>. QED  BY <3>1, <3>2
  <2>2. ASSUME NEW j \in 0 .. width - 1
        PROVE  BitOf(bytes, 8, width, c, j) <=>
                 \E p \in {(c - 1) * width + j} : (p % 8) \in bytes[(p \div 8) + 1]
    BY Zenon, <2>1 DEF BitOf
  <2>. QED  BY Zenon, <2>2
<1>3. ASSUME NEW width \in {3, 5},
             NEW made,
             made = Regrouped(bytes, 8, width, (n * 8) \div width)
      PROVE  AsNumbers(made) = Unpack(bytes, width)
  <2>. DEFINE e(c) == {j \in 0 .. width - 1 : \E p \in {(c - 1) * width + j} : (p % 8) \in bytes[(p \div 8) + 1]}
              f(c) == {j \in 0 .. width - 1 : BitOf(bytes, 8, width, c, j)}
              size == (n * 8) \div width
  <2>1. Unpack(bytes, width) = [c \in 1 .. size |-> NumberOf(e(c))]
    BY Zenon DEF Unpack
  <2>2. \A c \in 1 .. size : e(c) = f(c)
    BY Zenon, <1>2
  <2>. HIDE DEF e, f, size
  <2>3. made = [c \in 1 .. size |-> f(c)]
    BY Zenon, <1>3 DEF f, size, Regrouped
  <2>4. DOMAIN made = 1 .. size /\ \A c \in 1 .. size : made[c] = f(c)
    BY <2>3
  <2>5. AsNumbers(made) = [c \in 1 .. size |-> NumberOf(f(c))]
    BY <2>4 DEF AsNumbers
  <2>. QED  BY <2>1, <2>2, <2>5
<1>. HIDE DEF n
<1>4. UnpackInt3Array(bytes) = Unpack(bytes, 3)
  <2>. DEFINE made == Unrolled(bytes, 3, UnpackTurn3, UnpackTails3)
  <2>1. Fit(bytes, 3, 8, 3, UnpackTurn3, UnpackTails3)
    BY UnpackTurn3Is, UnpackTurn3Fits, UnpackTails3Fit DEF Fit, Sizes
  <2>2. made = Regrouped(bytes, 8, 3, UnrolledSize(Len(bytes), 3, UnpackTurn3, UnpackTails3))
    BY <2>1, UnrolledIs
  <2>. HIDE DEF made
  <2>3. AsNumbers(made) = Unpack(bytes, 3)
    BY <1>1, <1>3, <2>2, UnrolledSizes DEF n
  <2>. QED  BY Zenon, <2>3 DEF UnpackInt3Array, made
<1>5. UnpackInt5Array(bytes) = Unpack(bytes, 5)
  <2>. DEFINE made == Unrolled(bytes, 5, UnpackTurn5, UnpackTails5)
  <2>1. Fit(bytes, 5, 8, 5, UnpackTurn5, UnpackTails5)
    BY UnpackTurn5Is, UnpackTurn5Fits, UnpackTails5Fit DEF Fit, Sizes
  <2>2. made = Regrouped(bytes, 8, 5, UnrolledSize(Len(bytes), 5, UnpackTurn5, UnpackTails5))
    BY <2>1, UnrolledIs
  <2>. HIDE DEF made
  <2>3. AsNumbers(made) = Unpack(bytes, 5)
    BY <1>1, <1>3, <2>2, UnrolledSizes DEF n
  <2>. QED  BY Zenon, <2>3 DEF UnpackInt5Array, made
<1>. QED  BY <1>4, <1>5

-----------------------------------------------------------------------------
(* The codec: codes that are packed and unpacked.                          *)

\* Bit j of code c of n is at p, in one of the first m bytes.
Placed(p, width, n, c, j, m) ==
    /\ p \in Nat /\ p < n * width /\ p % width = j /\ p \div width = c - 1
    /\ p % 8 \in 0 .. 7 /\ p \div 8 \in Nat /\ 8 * (p \div 8) + (p % 8) = p
    /\ p \div 8 + 1 \in 1 .. PackedSize(n, width) /\ p \div 8 + 1 <= m

LEMMA PackedBit ==
    ASSUME NEW width \in {3, 5}, NEW n \in Nat, NEW c \in 1 .. n, NEW j \in 0 .. width - 1,
           NEW m \in Nat, c * width <= 8 * m
    PROVE  Placed((c - 1) * width + j, width, n, c, j, m)
<1>1. CASE width = 3
  BY <1>1 DEF PackedSize, Placed
<1>2. CASE width = 5
  BY <1>2 DEF PackedSize, Placed
<1>. QED  BY <1>1, <1>2

LEMMA PackIs ==
    ASSUME NEW width \in {3, 5}, NEW codes \in Seq(Small(width))
    PROVE  /\ Pack(codes, width) \in Seq(Byte)
           /\ Len(Pack(codes, width)) = PackedSize(Len(codes), width)
           /\ PackedSize(Len(codes), width) \in Nat
<1>. DEFINE n == Len(codes)
            size == PackedSize(n, width)
            e(b) == {j \in 0 .. 7 : \E p \in {8 * (b - 1) + j} :
                        /\ p < n * width
                        /\ (p % width) \in BitsOf(codes[(p \div width) + 1], width)}
<1>1. n \in Nat
  OBVIOUS
<1>. HIDE DEF n
<1>2. size \in Nat
  <2>1. CASE width = 3
    BY <1>1, <2>1 DEF PackedSize
  <2>2. CASE width = 5
    BY <1>1, <2>2 DEF PackedSize
  <2>. QED  BY <2>1, <2>2
<1>3. Pack(codes, width) = [b \in 1 .. size |-> e(b)]
  BY Zenon DEF Pack, n
<1>4. \A b \in 1 .. size : e(b) \in Byte
  BY DEF Byte
<1>. HIDE DEF e, size
<1>. QED  BY <1>2, <1>3, <1>4 DEF n, size

\* A code that is packed is unpacked again, from as many bytes as it is in.
LEMMA UnpackIs ==
    ASSUME NEW width \in {3, 5}, NEW codes \in Seq(Small(width)),
           NEW bytes \in Seq(Byte), NEW m \in Nat, m <= Len(bytes),
           \A b \in 1 .. m : b <= PackedSize(Len(codes), width) => bytes[b] = Pack(codes, width)[b],
           NEW c \in 1 .. Len(codes), c * width <= 8 * m
    PROVE  /\ c <= (Len(bytes) * 8) \div width
           /\ Unpack(bytes, width)[c] = codes[c]
<1>. DEFINE n == Len(codes)
            size == PackedSize(n, width)
            code == codes[c]
            p(j) == (c - 1) * width + j
            q(j) == p(j) \div 8 + 1
            e(b) == {j \in 0 .. 7 : \E i \in {8 * (b - 1) + j} :
                        /\ i < n * width
                        /\ (i % width) \in BitsOf(codes[(i \div width) + 1], width)}
            u(k) == NumberOf({j \in 0 .. width - 1 : \E i \in {(k - 1) * width + j} :
                                (i % 8) \in bytes[(i \div 8) + 1]})
<1>1. n \in Nat /\ code \in Small(width) /\ size \in Nat
  BY PackIs
<1>2. Len(bytes) \in Nat
  OBVIOUS
<1>3. c \in 1 .. (Len(bytes) * 8) \div width
  <2>. DEFINE l == Len(bytes)
  <2>1. l \in Nat /\ m <= l
    BY <1>2
  <2>. HIDE DEF l
  <2>2. CASE width = 3
    BY <1>1, <2>1, <2>2
  <2>3. CASE width = 5
    BY <1>1, <2>1, <2>3
  <2>. QED  BY <2>2, <2>3 DEF l
<1>4. Pack(codes, width) = [b \in 1 .. size |-> e(b)]
  BY Zenon DEF Pack
<1>5. Unpack(bytes, width) = [k \in 1 .. (Len(bytes) * 8) \div width |-> u(k)]
  BY Zenon DEF Unpack
<1>6. Unpack(bytes, width)[c] = u(c)
  <2>. HIDE DEF u
  <2>. QED  BY <1>3, <1>5
<1>7. ASSUME NEW j \in 0 .. width - 1
      PROVE  (p(j) % 8) \in bytes[q(j)] <=> j \in BitsOf(code, width)
  <2>1. /\ p(j) \in Nat /\ p(j) < n * width /\ p(j) % width = j /\ p(j) \div width = c - 1
        /\ p(j) % 8 \in 0 .. 7 /\ p(j) \div 8 \in Nat /\ 8 * (p(j) \div 8) + (p(j) % 8) = p(j)
        /\ q(j) \in 1 .. size /\ q(j) <= m
    <3>. HIDE DEF n
    <3>1. c \in 1 .. n /\ c * width <= 8 * m
      BY DEF n
    <3>2. Placed((c - 1) * width + j, width, n, c, j, m)
      BY <1>1, <3>1, PackedBit
    <3>. QED  BY Zenon, <3>2 DEF Placed
  <2>2. bytes[q(j)] = e(q(j))
    <3>. DEFINE b == q(j)
    <3>1. b \in 1 .. size /\ b \in 1 .. m
      BY <1>1, <2>1
    <3>. HIDE DEF b
    <3>2. bytes[b] = Pack(codes, width)[b]
      BY <1>1, <3>1
    <3>. HIDE DEF e
    <3>. QED  BY <1>4, <3>1, <3>2 DEF b
  <2>3. p(j) % 8 \in e(q(j)) <=>
           /\ p(j) < n * width
           /\ (p(j) % width) \in BitsOf(codes[(p(j) \div width) + 1], width)
    <3>. DEFINE r == p(j) % 8
                d == p(j) \div 8
                P == p(j)
    <3>1. r \in 0 .. 7 /\ d \in Nat /\ 8 * d + r = P /\ P \in Nat
      BY <2>1
    <3>2. 8 * (q(j) - 1) + r = P
      <4>. HIDE DEF r, P
      <4>1. q(j) - 1 = d
        <5>. HIDE DEF d
        <5>. QED  BY <3>1 DEF d
      <4>. QED  BY <3>1, <4>1
    <3>. HIDE DEF r, P, q, p
    <3>. QED  BY Zenon, <3>1, <3>2 DEF r, P
  <2>4. codes[(p(j) \div width) + 1] = code
    BY <1>1, <2>1
  <2>. HIDE DEF p, q, e, code
  <2>. QED  BY <2>1, <2>2, <2>3, <2>4
<1>8. {j \in 0 .. width - 1 : \E i \in {(c - 1) * width + j} : (i % 8) \in bytes[(i \div 8) + 1]}
        = BitsOf(code, width)
  <2>1. BitsOf(code, width) \subseteq 0 .. width - 1
    BY DEF BitsOf
  <2>2. \A j \in 0 .. width - 1 :
          (\E i \in {(c - 1) * width + j} : (i % 8) \in bytes[(i \div 8) + 1]) <=> j \in BitsOf(code, width)
    <3>. HIDE DEF code
    <3>. QED  BY <1>7
  <2>. HIDE DEF code
  <2>. QED  BY <2>1, <2>2
<1>9. NumberOf(BitsOf(code, width)) = code
  <2>. HIDE DEF code
  <2>. QED  BY SMTT(30), <1>1, NumberOfBits DEF Small
<1>10. c <= (Len(bytes) * 8) \div width
  BY <1>3
<1>. HIDE DEF u
<1>11. u(c) = code
  BY Zenon, <1>8, <1>9 DEF u
<1>. QED  BY Zenon, <1>6, <1>10, <1>11

-----------------------------------------------------------------------------
(* The codec: Base64.                                                      *)

Base64Size(n) == (n * 4 + 2) \div 3

\* Bit j of byte b, counted over six bits per character and over eight per
\* byte.
Spelled(p, j, b, m, length) ==
    /\ p \in Nat /\ p < 8 * length
    /\ 7 - (p % 8) = j /\ p \div 8 + 1 = b
    /\ 5 - (p % 6) \in 0 .. 5 /\ p \div 6 \in Nat /\ 6 * (p \div 6) + (5 - (5 - (p % 6))) = p
    /\ p \div 6 + 1 \in 1 .. m /\ p \div 6 + 1 \in 1 .. Base64Size(length)

LEMMA SpelledBit ==
    ASSUME NEW length \in Nat, NEW m \in Nat, m <= Base64Size(length),
           NEW b \in 1 .. (m * 3) \div 4, NEW j \in 0 .. 7
    PROVE  Spelled(8 * (b - 1) + (7 - j), j, b, m, length)
BY DEF Base64Size, Spelled

LEMMA Base64Sizes ==
    ASSUME NEW length \in Nat, NEW m \in Nat, m <= Base64Size(length)
    PROVE  /\ Base64Size(length) \in Nat /\ (m * 3) \div 4 \in Nat /\ (m * 3) \div 4 <= length
           /\ m < Base64Size(length) => (m * 3) \div 4 < length
           /\ m = Base64Size(length) => (m * 3) \div 4 = length
BY DEF Base64Size

\* The first characters decode to the first bytes.
LEMMA Base64Prefix ==
    ASSUME NEW bytes \in Seq(Byte), NEW m \in Nat, m <= Base64Size(Len(bytes))
    PROVE  /\ Len(Base64Encode(bytes)) = Base64Size(Len(bytes))
           /\ Base64Encode(bytes) \in Seq(SUBSET (0 .. 5))
           /\ Base64Decode(SubSeq(Base64Encode(bytes), 1, m)) = SubSeq(bytes, 1, (m * 3) \div 4)
<1>. DEFINE length == Len(bytes)
            size == Base64Size(length)
            e(c) == {j \in 0 .. 5 : \E p \in {6 * (c - 1) + (5 - j)} :
                        p < 8 * length /\ 7 - (p % 8) \in bytes[(p \div 8) + 1]}
            text == Base64Encode(bytes)
            first == SubSeq(text, 1, m)
            n == (m * 3) \div 4
            d(b) == {j \in 0 .. 7 : \E p \in {8 * (b - 1) + (7 - j)} :
                        5 - (p % 6) \in first[(p \div 6) + 1]}
<1>1. length \in Nat /\ size \in Nat /\ n \in Nat /\ n <= length
  BY Base64Sizes
<1>2. text = [c \in 1 .. size |-> e(c)]
  BY Zenon DEF Base64Encode, Base64Size
<1>3. text \in Seq(SUBSET (0 .. 5)) /\ Len(text) = size /\ \A c \in 1 .. size : text[c] = e(c)
  <2>1. \A c \in 1 .. size : e(c) \in SUBSET (0 .. 5)
    OBVIOUS
  <2>. HIDE DEF e, size, text
  <2>. QED  BY <1>1, <1>2, <2>1
<1>. HIDE DEF text, size
<1>4. Len(first) = m /\ \A c \in 1 .. m : first[c] = e(c)
  <2>1. m <= size
    BY DEF size
  <2>. HIDE DEF e
  <2>. QED  BY <1>1, <1>3, <2>1
<1>. HIDE DEF first
<1>5. Base64Decode(first) = [b \in 1 .. n |-> d(b)]
  BY Zenon, <1>4 DEF Base64Decode
<1>6. ASSUME NEW b \in 1 .. n PROVE d(b) = bytes[b]
  <2>1. b \in 1 .. length /\ bytes[b] \in Byte
    <3>1. b \in 1 .. length
      BY <1>1
    <3>. QED  BY <3>1
  <2>2. ASSUME NEW j \in 0 .. 7 PROVE j \in d(b) <=> j \in bytes[b]
    <3>. DEFINE p == 8 * (b - 1) + (7 - j)
                r == 5 - (p % 6)
                c == p \div 6 + 1
    <3>1. Spelled(p, j, b, m, length)
      <4>1. m <= Base64Size(length)
        OBVIOUS
      <4>. HIDE DEF length
      <4>. QED  BY <1>1, <4>1, SpelledBit
    <3>. HIDE DEF p
    <3>2. j \in d(b) <=> r \in first[c]
      BY Zenon DEF p
    <3>3. r \in 0 .. 5 /\ c \in 1 .. m /\ 6 * (c - 1) + (5 - r) = p
      <4>. DEFINE u == p % 6
                  v == p \div 6
      <4>1. 5 - u \in 0 .. 5 /\ v \in Nat /\ 6 * v + (5 - (5 - u)) = p /\ v + 1 \in 1 .. m
        BY Zenon, <3>1 DEF Spelled
      <4>2. c - 1 = v
        <5>. HIDE DEF v
        <5>. QED  BY <4>1 DEF v
      <4>. QED  BY Zenon, <4>1, <4>2
    <3>. HIDE DEF r, c
    <3>4. first[c] = e(c)
      <4>. HIDE DEF e
      <4>. QED  BY <1>4, <3>3
    <3>5. r \in e(c) <=> p < 8 * length /\ 7 - (p % 8) \in bytes[(p \div 8) + 1]
      BY Zenon, <3>3
    <3>6. p < 8 * length /\ 7 - (p % 8) = j /\ (p \div 8) + 1 = b
      BY Zenon, <3>1 DEF Spelled
    <3>. QED  BY Zenon, <3>2, <3>4, <3>5, <3>6
  <2>3. d(b) \subseteq 0 .. 7 /\ bytes[b] \subseteq 0 .. 7
    BY <2>1 DEF Byte
  <2>. HIDE DEF d
  <2>. QED  BY <2>2, <2>3
<1>7. Base64Decode(first) = SubSeq(bytes, 1, n)
  <2>1. SubSeq(bytes, 1, n) = [b \in 1 .. n |-> bytes[b]]
    BY <1>1
  <2>. HIDE DEF d, n
  <2>. QED  BY <1>5, <1>6, <2>1
<1>. QED  BY Zenon, <1>3, <1>7 DEF text, size, first, n

-----------------------------------------------------------------------------
(* The codec: counting codes.                                              *)

LEMMA ElementOf ==
    ASSUME NEW S, NEW s \in Seq(S), NEW p \in 1 .. Len(s)
    PROVE  s[p] \in S
OBVIOUS

LEMMA PositionsAre ==
    ASSUME NEW s \in Seq(Int), NEW v
    PROVE  /\ Positions(s, v) \subseteq 1 .. Len(s)
           /\ Positions(s, v) \cap 1 .. Len(s) = Positions(s, v)
           /\ IsFiniteSet(Positions(s, v)) /\ Cardinality(Positions(s, v)) \in Nat
<1>. DEFINE n == Len(s)
            P == Positions(s, v)
<1>1. n \in Nat /\ DOMAIN s = 1 .. n
  OBVIOUS
<1>2. P \subseteq 1 .. n
  BY <1>1 DEF Positions
<1>. HIDE DEF n, P
<1>3. P \cap 1 .. n = P
  BY <1>2
<1>4. IsFiniteSet(P)
  <2>1. IsFiniteSet(1 .. n)
    BY <1>1, FS_Interval
  <2>. QED  BY <1>2, <2>1, FS_Subset
<1>5. Cardinality(P) \in Nat
  BY <1>4, FS_CardinalityType
<1>. QED  BY <1>2, <1>3, <1>4, <1>5 DEF n, P

\* One code more.
LEMMA PositionsMore ==
    ASSUME NEW s \in Seq(Int), NEW d \in Int, NEW v \in Int
    PROVE  /\ Positions(Append(s, d), v) =
                IF d = v THEN Positions(s, v) \cup {Len(s) + 1} ELSE Positions(s, v)
           /\ \A i \in 0 .. Len(s) :
                Positions(Append(s, d), v) \cap 1 .. i = Positions(s, v) \cap 1 .. i
           /\ Len(s) + 1 \notin Positions(s, v)
<1>. DEFINE n == Len(s)
            t == Append(s, d)
            P == Positions(s, v)
            Q == Positions(t, v)
<1>1. /\ n \in Nat /\ DOMAIN s = 1 .. n /\ DOMAIN t = 1 .. n + 1 /\ t[n + 1] = d
      /\ \A i \in 1 .. n : t[i] = s[i]
  OBVIOUS
<1>2. /\ \A i : i \in P <=> i \in 1 .. n /\ s[i] = v
      /\ \A i : i \in Q <=> i \in 1 .. n + 1 /\ t[i] = v
  BY <1>1 DEF Positions
<1>. HIDE DEF n, t, P, Q
<1>3. n + 1 \notin P
  BY <1>1, <1>2
<1>4. \A i : i \in Q <=> i \in P \/ (i = n + 1 /\ d = v)
  BY <1>1, <1>2
<1>5. Q = IF d = v THEN P \cup {n + 1} ELSE P
  <2>1. CASE d = v
    BY <1>4, <2>1
  <2>2. CASE d # v
    BY <1>4, <2>2
  <2>. QED  BY <2>1, <2>2
<1>6. \A i \in 0 .. n : Q \cap 1 .. i = P \cap 1 .. i
  <2>1. \A i \in 0 .. n : n + 1 \notin 1 .. i
    BY <1>1
  <2>. QED  BY <1>4, <2>1
<1>. QED  BY <1>3, <1>5, <1>6 DEF n, t, P, Q

LEMMA CountMore ==
    ASSUME NEW s \in Seq(Int), NEW d \in Int, NEW v \in Int
    PROVE  Cardinality(Positions(Append(s, d), v)) =
              Cardinality(Positions(s, v)) + (IF d = v THEN 1 ELSE 0)
<1>. DEFINE P == Positions(s, v)
            Q == Positions(Append(s, d), v)
            n == Len(s)
<1>1. /\ Q = (IF d = v THEN P \cup {n + 1} ELSE P) /\ n + 1 \notin P
      /\ IsFiniteSet(P) /\ Cardinality(P) \in Nat
  BY PositionsAre, PositionsMore
<1>. HIDE DEF P, Q, n
<1>2. Cardinality(P \cup {n + 1}) = Cardinality(P) + 1
  BY <1>1, FS_AddElement
<1>. QED  BY <1>1, <1>2 DEF P, Q

-----------------------------------------------------------------------------
(* The codec: the distances between the bits.                              *)

\* The place of a code among those that are equal.
Place(s, v, i) == Cardinality(Positions(s, v) \cap 1 .. i)

\* What the decompressor makes of the codes and the exceptional bits.
Distances(normal, exceptional) ==
    [i \in DOMAIN normal |->
        IF i \in Positions(normal, kMaxNormalValue)
          THEN normal[i] + exceptional[Place(normal, kMaxNormalValue, i)]
          ELSE normal[i]]

\* Exceptional bits for all codes that need them.
Paired(normal, exceptional) ==
    /\ normal \in Seq(0 .. 7) /\ exceptional \in Seq(0 .. 31)
    /\ Cardinality(Positions(normal, 7)) = Len(exceptional)

LEMMA PlaceIs ==
    ASSUME NEW normal, NEW exceptional, Paired(normal, exceptional),
           NEW i \in Positions(normal, 7)
    PROVE  /\ i \in 1 .. Len(normal) /\ normal[i] = 7
           /\ Place(normal, 7, i) \in 1 .. Len(exceptional)
<1>. DEFINE P == Positions(normal, 7)
            n == Len(normal)
<1>1. /\ normal \in Seq(0 .. 7) /\ exceptional \in Seq(0 .. 31)
      /\ Cardinality(P) = Len(exceptional) /\ normal \in Seq(Int) /\ n \in Nat
      /\ DOMAIN normal = 1 .. n
  BY DEF Paired
<1>2. i \in 1 .. n /\ normal[i] = 7
  BY <1>1 DEF Positions
<1>3. IsFiniteSet(P)
  BY <1>1, PositionsAre
<1>. HIDE DEF P, n
<1>4. i \in P \cap 1 .. i /\ P \cap 1 .. i \in SUBSET P
  BY <1>2 DEF P
<1>5. IsFiniteSet(P \cap 1 .. i) /\ Cardinality(P \cap 1 .. i) <= Cardinality(P)
  BY <1>3, <1>4, FS_Subset
<1>6. Cardinality(P \cap 1 .. i) \in Nat /\ Cardinality(P \cap 1 .. i) # 0
  BY <1>4, <1>5, FS_CardinalityType, FS_EmptySet
<1>7. Place(normal, 7, i) = Cardinality(P \cap 1 .. i)
  BY DEF Place, P
<1>. QED  BY <1>1, <1>2, <1>5, <1>6, <1>7 DEF n

LEMMA DistancesAre ==
    ASSUME NEW normal, NEW exceptional, Paired(normal, exceptional)
    PROVE  /\ Distances(normal, exceptional) \in Seq(Nat)
           /\ Len(Distances(normal, exceptional)) = Len(normal)
<1>. DEFINE n == Len(normal)
            e(i) == IF i \in Positions(normal, 7)
                      THEN normal[i] + exceptional[Place(normal, 7, i)] ELSE normal[i]
<1>1. n \in Nat /\ DOMAIN normal = 1 .. n
  BY DEF Paired
<1>2. ASSUME NEW i \in 1 .. n PROVE e(i) \in Nat
  <2>1. normal[i] \in Nat
    BY <1>1 DEF Paired
  <2>2. CASE i \in Positions(normal, 7)
    <3>1. Place(normal, 7, i) \in 1 .. Len(exceptional)
      BY <2>2, PlaceIs
    <3>2. exceptional \in Seq(0 .. 31)
      BY DEF Paired
    <3>3. exceptional[Place(normal, 7, i)] \in 0 .. 31
      BY <3>1, <3>2, ElementOf
    <3>4. \A x \in 0 .. 31 : x \in Nat
      OBVIOUS
    <3>. DEFINE x == normal[i]
                y == exceptional[Place(normal, 7, i)]
    <3>5. x \in Nat /\ y \in Nat
      BY Zenon, <2>1, <3>3, <3>4
    <3>6. e(i) = x + y
      BY Zenon, <2>2
    <3>. HIDE DEF x, y, e
    <3>. QED  BY <3>5, <3>6
  <2>3. CASE i \notin Positions(normal, 7)
    BY <2>1, <2>3
  <2>. QED  BY <2>2, <2>3
<1>3. Distances(normal, exceptional) = [i \in 1 .. n |-> e(i)]
  <2>. HIDE DEF n
  <2>. QED  BY Zenon, <1>1 DEF Distances, kMaxNormalValue
<1>. HIDE DEF e, n
<1>. QED  BY <1>1, <1>2, <1>3 DEF n

\* One code more, and one exceptional bit more if the code needs it.
LEMMA DistancesMore ==
    ASSUME NEW normal, NEW exceptional, Paired(normal, exceptional),
           NEW c \in 0 .. 7, NEW more \in 0 .. 31
    PROVE  LET longer == IF c = 7 THEN Append(exceptional, more) ELSE exceptional
           IN /\ Paired(Append(normal, c), longer)
              /\ Distances(Append(normal, c), longer) =
                    Append(Distances(normal, exceptional), IF c = 7 THEN 7 + more ELSE c)
<1>. DEFINE n == Len(normal)
            k == Len(exceptional)
            longer == IF c = 7 THEN Append(exceptional, more) ELSE exceptional
            t == Append(normal, c)
            D == Distances(normal, exceptional)
            last == IF c = 7 THEN 7 + more ELSE c
            E == Distances(t, longer)
<1>1. /\ normal \in Seq(0 .. 7) /\ normal \in Seq(Int) /\ exceptional \in Seq(0 .. 31)
      /\ Cardinality(Positions(normal, 7)) = k /\ n \in Nat /\ k \in Nat
      /\ DOMAIN normal = 1 .. n /\ c \in Int /\ 7 \in Int
  BY DEF Paired
<1>2. /\ t \in Seq(0 .. 7) /\ Len(t) = n + 1 /\ t[n + 1] = c /\ \A i \in 1 .. n : t[i] = normal[i]
      /\ DOMAIN t = 1 .. n + 1
  BY <1>1
<1>3. /\ longer \in Seq(0 .. 31) /\ Len(longer) = k + (IF c = 7 THEN 1 ELSE 0)
      /\ \A i \in 1 .. k : longer[i] = exceptional[i]
      /\ c = 7 => longer[k + 1] = more
  <2>1. CASE c = 7
    <3>1. longer = Append(exceptional, more)
      BY <2>1
    <3>. HIDE DEF longer
    <3>. QED  BY <1>1, <2>1, <3>1
  <2>2. CASE c # 7
    <3>1. longer = exceptional
      BY <2>2
    <3>. HIDE DEF longer
    <3>. QED  BY <1>1, <2>2, <3>1
  <2>. QED  BY <2>1, <2>2
<1>4. /\ Positions(t, 7) = (IF c = 7 THEN Positions(normal, 7) \cup {n + 1} ELSE Positions(normal, 7))
      /\ \A i \in 0 .. n : Positions(t, 7) \cap 1 .. i = Positions(normal, 7) \cap 1 .. i
      /\ n + 1 \notin Positions(normal, 7)
      /\ Cardinality(Positions(t, 7)) = k + (IF c = 7 THEN 1 ELSE 0)
  <2>1. /\ Positions(t, 7) = (IF c = 7 THEN Positions(normal, 7) \cup {n + 1} ELSE Positions(normal, 7))
        /\ \A i \in 0 .. n : Positions(t, 7) \cap 1 .. i = Positions(normal, 7) \cap 1 .. i
        /\ n + 1 \notin Positions(normal, 7)
    BY Zenon, <1>1, PositionsMore
  <2>2. Cardinality(Positions(t, 7)) = Cardinality(Positions(normal, 7)) + (IF c = 7 THEN 1 ELSE 0)
    BY Zenon, <1>1, CountMore
  <2>. QED  BY Zenon, <1>1, <2>1, <2>2
<1>5. Paired(t, longer)
  BY <1>2, <1>3, <1>4 DEF Paired
<1>6. D \in Seq(Nat) /\ Len(D) = n /\ E \in Seq(Nat) /\ Len(E) = n + 1
  <2>. HIDE DEF t, longer
  <2>. QED  BY <1>2, <1>5, DistancesAre
<1>. HIDE DEF t, longer, n, k
<1>7. /\ \A i \in 1 .. n : D[i] = IF i \in Positions(normal, 7)
                                    THEN normal[i] + exceptional[Place(normal, 7, i)] ELSE normal[i]
      /\ \A i \in 1 .. n + 1 : E[i] = IF i \in Positions(t, 7)
                                    THEN t[i] + longer[Place(t, 7, i)] ELSE t[i]
  BY <1>1, <1>2 DEF Distances, kMaxNormalValue
<1>. HIDE DEF D, E
<1>8. ASSUME NEW i \in 1 .. n PROVE E[i] = D[i]
  <2>1. i \in 1 .. n + 1 /\ i \in 0 .. n /\ i # n + 1
    BY <1>1
  <2>2. i \in Positions(t, 7) <=> i \in Positions(normal, 7)
    BY <1>4, <2>1
  <2>3. Place(t, 7, i) = Place(normal, 7, i)
    BY <1>4, <2>1 DEF Place
  <2>4. t[i] = normal[i]
    BY <1>2
  <2>5. CASE i \in Positions(normal, 7)
    <3>. DEFINE p == Place(normal, 7, i)
    <3>1. p \in 1 .. k
      BY <2>5, PlaceIs DEF k
    <3>. HIDE DEF p
    <3>2. longer[p] = exceptional[p]
      BY <1>3, <3>1
    <3>. QED  BY <1>7, <2>1, <2>2, <2>3, <2>4, <2>5, <3>2 DEF p
  <2>6. CASE i \notin Positions(normal, 7)
    BY <1>7, <2>1, <2>2, <2>4, <2>6
  <2>. QED  BY <2>5, <2>6
<1>9. E[n + 1] = last
  <2>1. n + 1 \in 1 .. n + 1
    BY <1>1
  <2>2. CASE c = 7
    <3>1. n + 1 \in Positions(t, 7)
      BY <1>4, <2>2
    <3>2. Place(t, 7, n + 1) = k + 1
      <4>1. Positions(t, 7) \cap 1 .. n + 1 = Positions(t, 7)
        BY <1>2 DEF Positions
      <4>. QED  BY <1>4, <2>2, <4>1 DEF Place
    <3>. QED  BY <1>2, <1>3, <1>7, <2>1, <2>2, <3>1, <3>2
  <2>3. CASE c # 7
    <3>1. n + 1 \notin Positions(t, 7)
      BY <1>4, <2>3
    <3>. QED  BY <1>2, <1>7, <2>1, <2>3, <3>1
  <2>. QED  BY <2>2, <2>3
<1>10. last \in Nat
  OBVIOUS
<1>. HIDE DEF last
<1>11. E = Append(D, last)
  <2>1. Append(D, last) \in Seq(Nat) /\ Len(Append(D, last)) = n + 1
    BY <1>6, <1>10
  <2>2. \A i \in 1 .. n + 1 : E[i] = Append(D, last)[i]
    <3>. SUFFICES ASSUME NEW i \in 1 .. n + 1 PROVE E[i] = Append(D, last)[i]
      OBVIOUS
    <3>1. CASE i = n + 1
      BY <1>1, <1>6, <1>9, <3>1
    <3>2. CASE i # n + 1
      <4>1. i \in 1 .. n
        BY <1>1, <3>2
      <4>. QED  BY <1>1, <1>6, <1>8, <4>1
    <3>. QED  BY <3>1, <3>2
  <2>. QED  BY <1>6, <2>1, <2>2
<1>. QED  BY Zenon, <1>5, <1>11 DEF t, longer, D, E, last

-----------------------------------------------------------------------------
(* The codec: unpacking the bits.                                          *)

Done == [output : Seq(SUBSET Int), value : SUBSET Int, last_bit : Nat]

NoneDone == [output |-> <<>>, value |-> {}, last_bit |-> 0]

LEMMA NoneIsDone == NoneDone \in Done
<1>1. <<>> \in Seq(SUBSET Int) /\ {} \in SUBSET Int /\ 0 \in Nat
  OBVIOUS
<1>. QED  BY <1>1 DEF NoneDone, Done

LEMMA UnpackBitIs ==
    ASSUME NEW done \in Done, NEW bit \in Nat
    PROVE  /\ UnpackBit(done, bit) \in Done
           /\ bit = 0 => UnpackBit(done, bit) =
                [output |-> Append(done.output, done.value), value |-> done.value, last_bit |-> 0]
           /\ bit # 0 => UnpackBit(done, bit) =
                [output |-> done.output, value |-> SymDiff(done.value, {done.last_bit + bit - 1}),
                 last_bit |-> done.last_bit + bit]
<1>. DEFINE out == done.output
            value == done.value
            last == done.last_bit
<1>1. /\ out \in Seq(SUBSET Int) /\ value \in SUBSET Int /\ last \in Nat
      /\ done = [output |-> out, value |-> value, last_bit |-> last]
  BY DEF Done
<1>2. CASE bit = 0
  <2>1. UnpackBit(done, bit) = [output |-> Append(out, value), value |-> value, last_bit |-> 0]
    BY <1>1, <1>2 DEF UnpackBit
  <2>. HIDE DEF out, value
  <2>2. Append(out, value) \in Seq(SUBSET Int) /\ 0 \in Nat
    BY <1>1
  <2>3. UnpackBit(done, bit) \in Done
    BY <1>1, <2>1, <2>2 DEF Done
  <2>. QED  BY <1>2, <2>1, <2>3 DEF out, value
<1>3. CASE bit # 0
  <2>1. UnpackBit(done, bit) = [output |-> out, value |-> SymDiff(value, {last + bit - 1}),
                                last_bit |-> last + bit]
    BY <1>1, <1>3 DEF UnpackBit
  <2>. HIDE DEF out, value, last
  <2>2. last + bit \in Nat /\ last + bit - 1 \in Int
    BY <1>1
  <2>. DEFINE flipped == SymDiff(value, {last + bit - 1})
              next == last + bit
  <2>3. flipped \in SUBSET Int
    BY <1>1, <2>2 DEF SymDiff
  <2>4. UnpackBit(done, bit) = [output |-> out, value |-> flipped, last_bit |-> next]
    BY Zenon, <2>1
  <2>5. next \in Nat
    BY <2>2
  <2>. HIDE DEF flipped, next
  <2>6. UnpackBit(done, bit) \in Done
    BY <1>1, <2>3, <2>4, <2>5 DEF Done
  <2>. QED  BY <1>3, <2>1, <2>6 DEF out, value, last
<1>. QED  BY <1>2, <1>3

Unpacks(f, s) ==
    f = [j \in 0 .. Len(s) |-> IF j = 0 THEN NoneDone ELSE UnpackBit(f[j - 1], s[j])]

UnpacksAt(f, s, j) == f[j] = IF j = 0 THEN NoneDone ELSE UnpackBit(f[j - 1], s[j])

LEMMA UnpacksIs ==
    ASSUME NEW f, NEW s, Unpacks(f, s), NEW j \in 0 .. Len(s)
    PROVE  UnpacksAt(f, s, j)
<1>. DEFINE e(k) == IF k = 0 THEN NoneDone ELSE UnpackBit(f[k - 1], s[k])
            n == Len(s)
<1>1. f = [k \in 0 .. n |-> e(k)]
  BY Zenon DEF Unpacks
<1>2. f[j] = e(j)
  <2>. HIDE DEF e
  <2>. QED  BY <1>1
<1>. QED  BY <1>2 DEF UnpacksAt

LEMMA UnpacksExists ==
    ASSUME NEW s \in Seq(Nat)
    PROVE  \E f : Unpacks(f, s)
<1>. DEFINE n == Len(s)
            e(x, i) == UnpackBit(x, s[i])
            step == [x \in Done \X (1 .. n) |-> e(x[1], x[2])]
<1>1. n \in Nat /\ NoneDone \in Done
  BY NoneIsDone
<1>2. ASSUME NEW x \in Done, NEW i \in 1 .. n PROVE e(x, i) \in Done
  <2>1. s[i] \in Nat
    BY ElementOf
  <2>. QED  BY <2>1, UnpackBitIs
<1>. HIDE DEF e, n
<1>3. step \in [Done \X (1 .. n) -> Done]
  BY <1>2
<1>4. \A x \in Done, i \in 1 .. n : step[<<x, i>>] = e(x, i)
  OBVIOUS
<1>. HIDE DEF step
<1>5. PICK f : Recurs(f, n, Done, NoneDone, step)
  BY <1>1, <1>3, RecursionExists
<1>6. /\ f \in [0 .. n -> Done] /\ f[0] = NoneDone
      /\ \A i \in 1 .. n : f[i] = step[<<f[i - 1], i>>]
  BY <1>5 DEF Recurs
<1>7. ASSUME NEW i \in 0 .. n PROVE f[i] = IF i = 0 THEN NoneDone ELSE e(f[i - 1], i)
  <2>1. CASE i = 0
    BY <1>6, <2>1
  <2>2. CASE i # 0
    <3>1. i \in 1 .. n /\ i - 1 \in 0 .. n
      BY <1>1, <2>2
    <3>2. f[i - 1] \in Done
      BY <1>6, <3>1
    <3>. QED  BY <1>4, <1>6, <2>2, <3>1, <3>2
  <2>. QED  BY <2>1, <2>2
<1>8. f = [i \in 0 .. n |-> IF i = 0 THEN NoneDone ELSE e(f[i - 1], i)]
  <2>1. f = [i \in 0 .. n |-> f[i]]
    BY <1>6
  <2>. QED  BY <1>7, <2>1
<1>9. Unpacks(f, s)
  BY Zenon, <1>8 DEF Unpacks, e, n
<1>. QED  BY <1>9

Unpacked(s) == (CHOOSE f : Unpacks(f, s))[Len(s)]

LEMMA UnpackedIs ==
    ASSUME NEW s
    PROVE  UnpackBits(s) = Unpacked(s).output
BY Zenon DEF UnpackBits, Unpacked, Unpacks, NoneDone

LEMMA UnpackedNone == Unpacked(<<>>) = NoneDone
<1>. DEFINE f == CHOOSE g : Unpacks(g, <<>>)
<1>1. <<>> \in Seq(Nat) /\ Len(<<>>) = 0 /\ 0 \in 0 .. 0
  OBVIOUS
<1>2. Unpacks(f, <<>>)
  <2>1. \E g : Unpacks(g, <<>>)
    BY <1>1, UnpacksExists
  <2>. QED  BY Zenon, <2>1
<1>3. Unpacked(<<>>) = f[0]
  BY Zenon, <1>1 DEF Unpacked
<1>. HIDE DEF f
<1>4. UnpacksAt(f, <<>>, 0)
  BY <1>1, <1>2, UnpacksIs
<1>. QED  BY <1>3, <1>4 DEF UnpacksAt

\* One code more.
LEMMA UnpackedMore ==
    ASSUME NEW s \in Seq(Nat), NEW d \in Nat
    PROVE  Unpacked(Append(s, d)) = UnpackBit(Unpacked(s), d)
<1>. DEFINE t == Append(s, d)
            n == Len(s)
            f == CHOOSE h : Unpacks(h, s)
            g == CHOOSE h : Unpacks(h, t)
<1>1. /\ t \in Seq(Nat) /\ n \in Nat /\ Len(t) = n + 1 /\ t[n + 1] = d
      /\ \A i \in 1 .. n : t[i] = s[i]
  OBVIOUS
<1>2. Unpacks(f, s) /\ Unpacks(g, t)
  <2>1. (\E h : Unpacks(h, s)) /\ (\E h : Unpacks(h, t))
    <3>. HIDE DEF t
    <3>. QED  BY <1>1, UnpacksExists
  <2>. QED  BY Zenon, <2>1
<1>3. Unpacked(s) = f[n] /\ Unpacked(t) = g[n + 1]
  BY Zenon, <1>1 DEF Unpacked
<1>. HIDE DEF f, g, t, n
<1>4. \A j \in 0 .. n : UnpacksAt(f, s, j)
  BY <1>2, UnpacksIs DEF n
<1>5. \A j \in 0 .. n + 1 : UnpacksAt(g, t, j)
  BY <1>1, <1>2, UnpacksIs
<1>. DEFINE T == {k \in Nat : k <= n => g[k] = f[k]}
<1>6. 0 \in T
  BY <1>1, <1>4, <1>5 DEF UnpacksAt
<1>7. ASSUME NEW k \in T PROVE k + 1 \in T
  <2>. SUFFICES ASSUME k + 1 <= n PROVE g[k + 1] = f[k + 1]
    OBVIOUS
  <2>1. k + 1 \in 0 .. n /\ k + 1 \in 0 .. n + 1 /\ k + 1 # 0 /\ (k + 1) - 1 = k
        /\ k + 1 \in 1 .. n /\ g[k] = f[k]
    BY <1>1
  <2>. HIDE DEF T
  <2>2. f[k + 1] = UnpackBit(f[k], s[k + 1])
    BY <1>4, <2>1 DEF UnpacksAt
  <2>3. g[k + 1] = UnpackBit(g[k], t[k + 1])
    BY <1>5, <2>1 DEF UnpacksAt
  <2>. QED  BY <1>1, <2>1, <2>2, <2>3
<1>8. T \in SUBSET Nat
  OBVIOUS
<1>. HIDE DEF T
<1>9. n \in T
  BY <1>1, <1>6, <1>7, <1>8, NatInduct
<1>10. g[n] = f[n]
  BY <1>1, <1>9 DEF T
<1>11. g[n + 1] = UnpackBit(g[n], d)
  <2>1. n + 1 \in 0 .. n + 1 /\ n + 1 # 0 /\ (n + 1) - 1 = n
    BY <1>1
  <2>. QED  BY <1>1, <1>5, <2>1 DEF UnpacksAt
<1>. QED  BY <1>3, <1>10, <1>11 DEF t

-----------------------------------------------------------------------------
(* The codec: the bits of an item.                                         *)

\* Codes that unpack to the items of `output`, and further to `value`.
Agrees(bits, output, value) ==
    /\ bits = [normal |-> bits.normal, exceptional |-> bits.exceptional, last_bit |-> bits.last_bit]
    /\ Paired(bits.normal, bits.exceptional)
    /\ bits.last_bit \in 0 .. 32
    /\ output \in Seq(SUBSET Int) /\ value \in SUBSET Int
    /\ Cardinality(Positions(bits.normal, 0)) = Len(output)
    /\ Unpacked(Distances(bits.normal, bits.exceptional)) =
         [output |-> output, value |-> value, last_bit |-> bits.last_bit]

LEMMA PushAgrees ==
    ASSUME NEW bits, NEW output, NEW value, Agrees(bits, output, value),
           NEW bit \in 1 .. 32, bits.last_bit < bit
    PROVE  /\ Agrees(PushBit(bits, bit), output, SymDiff(value, {bit - 1}))
           /\ PushBit(bits, bit).last_bit = bit
<1>. DEFINE normal == bits.normal
            exceptional == bits.exceptional
            last == bits.last_bit
            d == bit - last
            c == IF d >= 7 THEN 7 ELSE d
            more == IF d >= 7 THEN d - 7 ELSE 0
            longer == IF c = 7 THEN Append(exceptional, more) ELSE exceptional
            t == Append(normal, c)
            D == Distances(normal, exceptional)
            done == [output |-> output, value |-> value, last_bit |-> last]
            flipped == SymDiff(value, {bit - 1})
<1>1. /\ Paired(normal, exceptional) /\ last \in 0 .. 32 /\ last < bit
      /\ output \in Seq(SUBSET Int) /\ value \in SUBSET Int
      /\ Cardinality(Positions(normal, 0)) = Len(output)
      /\ Unpacked(D) = done
  BY Zenon DEF Agrees
<1>. HIDE DEF normal, exceptional, last
<1>2. /\ d \in 1 .. 32 /\ c \in 0 .. 7 /\ more \in 0 .. 31 /\ c # 0
      /\ (c = 7 <=> d >= 7) /\ (IF c = 7 THEN 7 + more ELSE c) = d /\ last + d = bit
  BY <1>1
<1>3. PushBit(bits, bit) = [normal |-> t, exceptional |-> longer, last_bit |-> bit]
  <2>1. PushBit(bits, bit) =
          [ normal |-> Append(normal, IF d >= 7 THEN 7 ELSE d),
            exceptional |-> IF d >= 7 THEN Append(exceptional, d - 7) ELSE exceptional,
            last_bit |-> bit ]
    BY Zenon DEF PushBit, Exceptional, kMaxNormalValue, normal, exceptional, last
  <2>2. longer = IF d >= 7 THEN Append(exceptional, d - 7) ELSE exceptional
    <3>1. CASE d >= 7
      BY <1>2, <3>1
    <3>2. CASE ~(d >= 7)
      BY <1>2, <3>2
    <3>. QED  BY <3>1, <3>2
  <2>. QED  BY Zenon, <2>1, <2>2
<1>. HIDE DEF d, c, more
<1>4. Paired(t, longer) /\ Distances(t, longer) = Append(D, d)
  <2>. DEFINE next == IF c = 7 THEN 7 + more ELSE c
  <2>2. next = d
    BY <1>2
  <2>3. Paired(t, longer) /\ Distances(t, longer) = Append(D, next)
    BY ZenonT(60), <1>1, <1>2, DistancesMore
  <2>. QED  BY Zenon, <2>2, <2>3
<1>5. Unpacked(Append(D, d)) = UnpackBit(done, d)
  <2>1. D \in Seq(Nat) /\ d \in Nat
    BY <1>1, <1>2, DistancesAre
  <2>. HIDE DEF D, done
  <2>. QED  BY <1>1, <2>1, UnpackedMore
<1>6. UnpackBit(done, d) = [output |-> output, value |-> flipped, last_bit |-> bit]
  <2>1. d \in Nat /\ d # 0 /\ last \in Nat /\ last + d - 1 = bit - 1
    <3>1. d \in Int /\ last \in Int /\ bit \in Int
      BY <1>1, <1>2
    <3>. QED  BY <1>1, <1>2, <3>1
  <2>5. done \in Done
    BY <1>1, <2>1 DEF Done
  <2>2. /\ done.output = output /\ done.value = value /\ done.last_bit = last
    OBVIOUS
  <2>. HIDE DEF done
  <2>3. UnpackBit(done, d) = [output |-> done.output,
                              value |-> SymDiff(done.value, {done.last_bit + d - 1}),
                              last_bit |-> done.last_bit + d]
    BY Zenon, <2>1, <2>5, UnpackBitIs
  <2>. QED  BY Zenon, <1>2, <2>1, <2>2, <2>3
<1>7. Cardinality(Positions(t, 0)) = Len(output)
  <2>1. normal \in Seq(Int) /\ c \in Int /\ 0 \in Int /\ Len(output) \in Nat
    BY <1>1, <1>2 DEF Paired
  <2>2. Cardinality(Positions(t, 0)) = Cardinality(Positions(normal, 0)) + (IF c = 0 THEN 1 ELSE 0)
    BY Zenon, <2>1, CountMore
  <2>. QED  BY <1>1, <1>2, <2>1, <2>2
<1>8. flipped \in SUBSET Int
  BY <1>1 DEF SymDiff
<1>. HIDE DEF t, longer, done, flipped
<1>9. /\ PushBit(bits, bit).normal = t /\ PushBit(bits, bit).exceptional = longer
      /\ PushBit(bits, bit).last_bit = bit /\ bit \in 0 .. 32
  BY <1>3
<1>10. Unpacked(Distances(t, longer)) = [output |-> output, value |-> flipped, last_bit |-> bit]
  BY Zenon, <1>4, <1>5, <1>6
<1>11. Agrees(PushBit(bits, bit), output, flipped)
  BY Zenon, <1>1, <1>3, <1>4, <1>7, <1>8, <1>9, <1>10 DEF Agrees
<1>. QED  BY <1>9, <1>11 DEF flipped

-----------------------------------------------------------------------------
(* The codec: the bits of the items.                                       *)

Bits == [normal : Seq(Int), exceptional : Seq(Int), last_bit : Int]

LEMMA BitsOfParts ==
    ASSUME NEW normal \in Seq(Int), NEW exceptional \in Seq(Int), NEW last \in Int
    PROVE  [normal |-> normal, exceptional |-> exceptional, last_bit |-> last] \in Bits
BY DEF Bits

LEMMA PushBitIs ==
    ASSUME NEW bits \in Bits, NEW bit \in Int
    PROVE  PushBit(bits, bit) \in Bits
<1>. DEFINE normal == bits.normal
            exceptional == bits.exceptional
            d == bit - bits.last_bit
            c == IF Exceptional(d) THEN kMaxNormalValue ELSE d
            n == Append(normal, c)
            e == IF Exceptional(d) THEN Append(exceptional, d - kMaxNormalValue) ELSE exceptional
<1>1. normal \in Seq(Int) /\ exceptional \in Seq(Int) /\ d \in Int
  BY DEF Bits
<1>2. PushBit(bits, bit) = [normal |-> n, exceptional |-> e, last_bit |-> bit]
  BY Zenon DEF PushBit
<1>. HIDE DEF normal, exceptional, d
<1>3. c \in Int /\ d - kMaxNormalValue \in Int
  BY <1>1 DEF kMaxNormalValue
<1>4. n \in Seq(Int)
  <2>. HIDE DEF c
  <2>. QED  BY <1>1, <1>3
<1>5. e \in Seq(Int)
  <2>. DEFINE x == d - kMaxNormalValue
  <2>. HIDE DEF x
  <2>1. Append(exceptional, x) \in Seq(Int)
    BY <1>1, <1>3 DEF x
  <2>. QED  BY Zenon, <1>1, <2>1 DEF x
<1>. HIDE DEF n, e
<1>. QED  BY <1>2, <1>4, <1>5, BitsOfParts

\* The scan of the bits of an item.
Scans(f, bits, x) ==
    f = [bit \in 0 .. 32 |->
            IF bit = 0 THEN bits
            ELSE IF bit - 1 \in x THEN PushBit(f[bit - 1], bit) ELSE f[bit - 1]]

ScansAt(f, bits, x, bit) ==
    f[bit] = IF bit = 0 THEN bits
             ELSE IF bit - 1 \in x THEN PushBit(f[bit - 1], bit) ELSE f[bit - 1]

LEMMA ScansIs ==
    ASSUME NEW f, NEW bits, NEW x, Scans(f, bits, x), NEW bit \in 0 .. 32
    PROVE  ScansAt(f, bits, x, bit)
<1>. DEFINE e(k) == IF k = 0 THEN bits
                    ELSE IF k - 1 \in x THEN PushBit(f[k - 1], k) ELSE f[k - 1]
<1>1. f = [k \in 0 .. 32 |-> e(k)]
  BY Zenon DEF Scans
<1>2. f[bit] = e(bit)
  <2>. HIDE DEF e
  <2>. QED  BY <1>1
<1>. QED  BY <1>2 DEF ScansAt

LEMMA ScansExists ==
    ASSUME NEW bits \in Bits, NEW x
    PROVE  \E f : Scans(f, bits, x)
<1>. DEFINE e(b, i) == IF i - 1 \in x THEN PushBit(b, i) ELSE b
            step == [b \in Bits \X (1 .. 32) |-> e(b[1], b[2])]
<1>1. ASSUME NEW b \in Bits, NEW i \in 1 .. 32 PROVE e(b, i) \in Bits
  BY PushBitIs
<1>. HIDE DEF e
<1>2. step \in [Bits \X (1 .. 32) -> Bits]
  BY <1>1
<1>3. \A b \in Bits, i \in 1 .. 32 : step[<<b, i>>] = e(b, i)
  OBVIOUS
<1>. HIDE DEF step
<1>4. PICK f : Recurs(f, 32, Bits, bits, step)
  <2>1. 32 \in Nat
    OBVIOUS
  <2>. QED  BY Zenon, <1>2, <2>1, RecursionExists
<1>5. /\ f \in [0 .. 32 -> Bits] /\ f[0] = bits
      /\ \A i \in 1 .. 32 : f[i] = step[<<f[i - 1], i>>]
  BY Zenon, <1>4 DEF Recurs
<1>6. ASSUME NEW i \in 0 .. 32 PROVE f[i] = IF i = 0 THEN bits ELSE e(f[i - 1], i)
  <2>1. CASE i = 0
    BY <1>5, <2>1
  <2>2. CASE i # 0
    <3>1. i \in 1 .. 32 /\ i - 1 \in 0 .. 32
      BY <2>2
    <3>2. f[i - 1] \in Bits
      BY <1>5, <3>1
    <3>. QED  BY <1>3, <1>5, <2>2, <3>1, <3>2
  <2>. QED  BY <2>1, <2>2
<1>7. f = [i \in 0 .. 32 |-> IF i = 0 THEN bits ELSE e(f[i - 1], i)]
  <2>1. f = [i \in 0 .. 32 |-> f[i]]
    BY <1>5
  <2>. QED  BY <1>6, <2>1
<1>8. Scans(f, bits, x)
  BY Zenon, <1>7 DEF Scans, e
<1>. QED  BY <1>8

LEMMA IntsAre ==
    ASSUME NEW n \in Int, NEW s \in Seq(0 .. n)
    PROVE  s \in Seq(Int)
OBVIOUS

LEMMA AgreesBits ==
    ASSUME NEW bits, NEW output, NEW value, Agrees(bits, output, value)
    PROVE  bits \in Bits
<1>. DEFINE normal == bits.normal
            exceptional == bits.exceptional
            last == bits.last_bit
<1>1. /\ bits = [normal |-> normal, exceptional |-> exceptional, last_bit |-> last]
      /\ normal \in Seq(0 .. 7) /\ exceptional \in Seq(0 .. 31) /\ last \in 0 .. 32
  BY Zenon DEF Agrees, Paired
<1>. HIDE DEF normal, exceptional, last
<1>2. normal \in Seq(Int) /\ exceptional \in Seq(Int) /\ last \in Int
  <2>1. normal \in Seq(Int)
    <3>1. 7 \in Int
      OBVIOUS
    <3>. QED  BY Zenon, <1>1, <3>1, IntsAre
  <2>2. exceptional \in Seq(Int)
    <3>1. 31 \in Int
      OBVIOUS
    <3>. QED  BY Zenon, <1>1, <3>1, IntsAre
  <2>3. last \in Int
    BY <1>1
  <2>. QED  BY <2>1, <2>2, <2>3
<1>3. [normal |-> normal, exceptional |-> exceptional, last_bit |-> last] \in Bits
  BY <1>2, BitsOfParts
<1>. QED  BY Zenon, <1>1, <1>3

\* The bits of an item below bit k.
Below(x, k) == x \cap 0 .. k - 1

LEMMA Flips ==
    ASSUME NEW v, NEW x \in Item
    PROVE  /\ SymDiff(v, Below(x, 0)) = v
           /\ \A k \in Nat : k \in x => SymDiff(SymDiff(v, Below(x, k)), {k}) = SymDiff(v, Below(x, k + 1))
           /\ \A k \in Nat : k \notin x => Below(x, k) = Below(x, k + 1)
           /\ SymDiff(v, Below(x, 32)) = SymDiff(v, x)
<1>. DEFINE below(k) == Below(x, k)
<1>0. \A i \in x : i \in 0 .. 31
  BY DEF Item
<1>1. ASSUME NEW k \in Nat, NEW i
      PROVE  i \in below(k) <=> i \in x /\ i < k
  <2>1. ASSUME i \in x
        PROVE  i \in 0 .. k - 1 <=> i < k
    BY <1>0, <2>1
  <2>. QED  BY Zenon, <2>1 DEF Below
<1>2. ASSUME NEW k \in Nat
      PROVE  /\ k \notin below(k)
             /\ k \in x => below(k + 1) = below(k) \cup {k}
             /\ k \notin x => below(k) = below(k + 1)
  <2>1. k + 1 \in Nat
    OBVIOUS
  <2>2. \A i \in x : i \in Int
    BY <1>0
  <2>3. \A i \in x : i < k + 1 <=> i < k \/ i = k
    BY <2>2
  <2>4. ~(k < k)
    OBVIOUS
  <2>5. /\ \A i : i \in below(k) <=> i \in x /\ i < k
        /\ \A i : i \in below(k + 1) <=> i \in x /\ i < k + 1
    BY <1>1, <2>1
  <2>. HIDE DEF below
  <2>. QED  BY Zenon, <2>3, <2>4, <2>5
<1>3. below(0) = {} /\ below(32) = x
  <2>1. \A i \in x : ~(i < 0) /\ i < 32
    BY <1>0
  <2>2. 0 \in Nat /\ 32 \in Nat
    OBVIOUS
  <2>. HIDE DEF below
  <2>. QED  BY Zenon, <1>1, <2>1, <2>2
<1>. HIDE DEF below
<1>4. ASSUME NEW k \in Nat, k \in x
      PROVE  SymDiff(SymDiff(v, below(k)), {k}) = SymDiff(v, below(k + 1))
  BY <1>2, <1>4 DEF SymDiff
<1>5. SymDiff(v, below(0)) = v
  BY <1>3 DEF SymDiff
<1>. QED  BY Zenon, <1>2, <1>3, <1>4, <1>5 DEF below

LEMMA NormalMore ==
    ASSUME NEW normal, NEW exceptional, Paired(normal, exceptional), NEW c \in 0 .. 6
    PROVE  /\ Paired(Append(normal, c), exceptional)
           /\ Distances(Append(normal, c), exceptional) = Append(Distances(normal, exceptional), c)
<1>1. c \in 0 .. 7 /\ c \in 0 .. 31 /\ c # 7
  OBVIOUS
<1>. DEFINE longer == IF c = 7 THEN Append(exceptional, c) ELSE exceptional
            d == IF c = 7 THEN 7 + c ELSE c
<1>2. /\ Paired(Append(normal, c), longer)
      /\ Distances(Append(normal, c), longer) = Append(Distances(normal, exceptional), d)
  BY ZenonT(60), <1>1, DistancesMore
<1>3. longer = exceptional /\ d = c
  BY Zenon, <1>1
<1>. QED  BY Zenon, <1>2, <1>3

\* The bits of an item unpack to the item that changes as it says.
Ended(bits) == bits.normal # <<>> /\ bits.normal[Len(bits.normal)] = 0

LEMMA ItemAgrees ==
    ASSUME NEW bits, NEW output, NEW v, Agrees(bits, output, v), bits.last_bit = 0,
           NEW x \in Item, NEW next, next = SymDiff(v, x)
    PROVE  /\ Agrees(ProcessSubfingerprint(bits, x), Append(output, next), next)
           /\ ProcessSubfingerprint(bits, x).last_bit = 0
           /\ Ended(ProcessSubfingerprint(bits, x))
<1>. DEFINE f == CHOOSE g : Scans(g, bits, x)
            value(k) == SymDiff(v, Below(x, k))
            Good_(k) == Agrees(f[k], output, value(k)) /\ f[k].last_bit <= k
            T == {k \in Nat : k <= 32 => Good_(k)}
<1>1. Scans(f, bits, x)
  <2>1. bits \in Bits
    BY Zenon, AgreesBits
  <2>2. \E g : Scans(g, bits, x)
    BY Zenon, <2>1, ScansExists
  <2>. QED  BY Zenon, <2>2
<1>2. ProcessSubfingerprint(bits, x) = [f[32] EXCEPT !.normal = Append(@, 0), !.last_bit = 0]
  BY Zenon DEF ProcessSubfingerprint, Scans
<1>. HIDE DEF f
<1>3. \A k \in 0 .. 32 : ScansAt(f, bits, x, k)
  BY <1>1, ScansIs
<1>4. /\ value(0) = v /\ value(32) = next
      /\ \A k \in Nat : k \in x => SymDiff(value(k), {k}) = value(k + 1)
      /\ \A k \in Nat : k \notin x => value(k) = value(k + 1)
  <2>. HIDE DEF T, Good_
  <2>1. /\ SymDiff(v, Below(x, 0)) = v
        /\ \A k \in Nat : k \in x => SymDiff(SymDiff(v, Below(x, k)), {k}) = SymDiff(v, Below(x, k + 1))
        /\ \A k \in Nat : k \notin x => Below(x, k) = Below(x, k + 1)
        /\ SymDiff(v, Below(x, 32)) = SymDiff(v, x)
    BY Zenon, Flips
  <2>. QED  BY Zenon, <2>1
<1>. HIDE DEF value
<1>5. 0 \in T
  <2>1. 0 \in 0 .. 32
    OBVIOUS
  <2>2. f[0] = bits
    BY Zenon, <1>3, <2>1 DEF ScansAt
  <2>3. Good_(0)
    BY <1>4, <2>2
  <2>. HIDE DEF Good_
  <2>. QED  BY <2>3
<1>6. ASSUME NEW k \in T PROVE k + 1 \in T
  <2>. SUFFICES ASSUME k + 1 <= 32 PROVE Good_(k + 1)
    OBVIOUS
  <2>1. /\ k + 1 \in 0 .. 32 /\ k + 1 \in 1 .. 32 /\ k + 1 # 0 /\ (k + 1) - 1 = k /\ k \in Nat
        /\ Good_(k)
    OBVIOUS
  <2>. HIDE DEF T
  <2>2. f[k + 1] = IF k \in x THEN PushBit(f[k], k + 1) ELSE f[k]
    BY Zenon, <1>3, <2>1 DEF ScansAt
  <2>3. f[k].last_bit \in 0 .. 32 /\ f[k].last_bit <= k
    BY Zenon, <2>1 DEF Agrees
  <2>4. CASE k \in x
    <3>. DEFINE last == f[k].last_bit
    <3>1. last < k + 1
      <4>. HIDE DEF last
      <4>. QED  BY <2>1, <2>3 DEF last
    <3>2. /\ Agrees(PushBit(f[k], k + 1), output, SymDiff(value(k), {k}))
          /\ PushBit(f[k], k + 1).last_bit = k + 1
      <4>. DEFINE up == k + 1
      <4>1. up \in 1 .. 32 /\ last < up /\ up - 1 = k /\ Agrees(f[k], output, value(k))
        BY Zenon, <2>1, <3>1
      <4>. HIDE DEF up
      <4>2. /\ Agrees(PushBit(f[k], up), output, SymDiff(value(k), {up - 1}))
            /\ PushBit(f[k], up).last_bit = up
        BY Zenon, <4>1, PushAgrees
      <4>. QED  BY Zenon, <4>1, <4>2 DEF up
    <3>3. k + 1 <= k + 1
      BY <2>1
    <3>4. f[k + 1] = PushBit(f[k], k + 1) /\ SymDiff(value(k), {k}) = value(k + 1)
      BY Zenon, <1>4, <2>1, <2>2, <2>4
    <3>5. Agrees(f[k + 1], output, value(k + 1)) /\ f[k + 1].last_bit <= k + 1
      BY Zenon, <3>2, <3>3, <3>4
    <3>. QED  BY Zenon, <3>5
  <2>5. CASE k \notin x
    <3>1. f[k + 1] = f[k] /\ value(k + 1) = value(k)
      BY Zenon, <1>4, <2>1, <2>2, <2>5
    <3>2. f[k].last_bit <= k + 1
      <4>. DEFINE last == f[k].last_bit
      <4>. HIDE DEF last
      <4>1. last <= k + 1
        BY <2>1, <2>3 DEF last
      <4>. QED  BY <4>1 DEF last
    <3>. QED  BY Zenon, <2>1, <3>1, <3>2
  <2>. QED  BY <2>4, <2>5
<1>7. T \in SUBSET Nat
  OBVIOUS
<1>8. Good_(32)
  <2>. HIDE DEF Good_
  <2>1. 32 \in Nat /\ 32 <= 32
    OBVIOUS
  <2>2. 32 \in T
    <3>. HIDE DEF T
    <3>. QED  BY <1>5, <1>6, <1>7, <2>1, NatInduct
  <2>. QED  BY <2>1, <2>2
<1>. HIDE DEF T
<1>. DEFINE before == f[32]
            normal == before.normal
            exceptional == before.exceptional
            last == before.last_bit
            t == Append(normal, 0)
            D == Distances(normal, exceptional)
            done == [output |-> output, value |-> next, last_bit |-> last]
            after == ProcessSubfingerprint(bits, x)
<1>9. /\ before = [normal |-> normal, exceptional |-> exceptional, last_bit |-> last]
      /\ Paired(normal, exceptional) /\ last \in 0 .. 32
      /\ output \in Seq(SUBSET Int) /\ next \in SUBSET Int
      /\ Cardinality(Positions(normal, 0)) = Len(output)
      /\ Unpacked(D) = done
  BY Zenon, <1>4, <1>8 DEF Agrees
<1>. HIDE DEF normal, exceptional, last
<1>10. after = [normal |-> t, exceptional |-> exceptional, last_bit |-> 0]
  <2>1. after = [before EXCEPT !.normal = Append(@, 0), !.last_bit = 0]
    BY Zenon, <1>2
  <2>. HIDE DEF before, after
  <2>2. before.normal = normal /\ before.exceptional = exceptional
    BY Zenon DEF normal, exceptional
  <2>3. before = [normal |-> normal, exceptional |-> exceptional, last_bit |-> last]
    BY Zenon, <1>9
  <2>. QED  BY <2>1, <2>2, <2>3
<1>11. Paired(t, exceptional) /\ Distances(t, exceptional) = Append(D, 0)
  <2>1. 0 \in 0 .. 6
    OBVIOUS
  <2>. QED  BY ZenonT(60), <1>9, <2>1, NormalMore
<1>12. Unpacked(Append(D, 0)) = [output |-> Append(output, next), value |-> next, last_bit |-> 0]
  <2>1. D \in Seq(Nat) /\ 0 \in Nat
    BY <1>9, DistancesAre
  <2>2. done \in Done
    <3>1. last \in Nat
      <4>1. \A i \in 0 .. 32 : i \in Nat
        OBVIOUS
      <4>. QED  BY Zenon, <1>9, <4>1
    <3>. QED  BY <1>9, <3>1 DEF Done
  <2>3. done.output = output /\ done.value = next
    OBVIOUS
  <2>. HIDE DEF D, done
  <2>4. Unpacked(Append(D, 0)) = UnpackBit(done, 0)
    BY <1>9, <2>1, UnpackedMore
  <2>5. UnpackBit(done, 0) = [output |-> Append(done.output, done.value),
                              value |-> done.value, last_bit |-> 0]
    BY Zenon, <2>1, <2>2, UnpackBitIs
  <2>. QED  BY Zenon, <2>3, <2>4, <2>5
<1>13. normal \in Seq(Int) /\ Len(normal) \in Nat /\ Len(output) \in Nat
  BY <1>9 DEF Paired
<1>14. Cardinality(Positions(t, 0)) = Len(Append(output, next))
  <2>1. Cardinality(Positions(t, 0)) = Cardinality(Positions(normal, 0)) + (IF 0 = 0 THEN 1 ELSE 0)
    <3>1. 0 \in Int
      OBVIOUS
    <3>. QED  BY Zenon, <1>13, <3>1, CountMore
  <2>2. Len(Append(output, next)) = Len(output) + 1
    BY <1>9
  <2>. QED  BY <1>9, <1>13, <2>1, <2>2
<1>15. t # <<>> /\ t[Len(t)] = 0
  <2>1. Len(t) = Len(normal) + 1 /\ t[Len(normal) + 1] = 0
    BY <1>13
  <2>2. Len(t) # 0 /\ Len(<<>>) = 0
    BY <1>13, <2>1
  <2>. QED  BY Zenon, <2>1, <2>2
<1>16. Append(output, next) \in Seq(SUBSET Int) /\ 0 \in 0 .. 32
  BY <1>9
<1>. HIDE DEF t, after
<1>17. after.normal = t /\ after.exceptional = exceptional /\ after.last_bit = 0
  BY <1>10
<1>18. Unpacked(Distances(t, exceptional)) = [output |-> Append(output, next), value |-> next, last_bit |-> 0]
  BY Zenon, <1>11, <1>12
<1>19. Agrees(after, Append(output, next), next)
  BY Zenon, <1>9, <1>10, <1>11, <1>14, <1>16, <1>17, <1>18 DEF Agrees
<1>20. Ended(after)
  BY Zenon, <1>15, <1>17 DEF Ended
<1>. QED  BY Zenon, <1>17, <1>19, <1>20 DEF after

-----------------------------------------------------------------------------
(* The codec: the bits of all items.                                       *)

NoBits == [normal |-> <<>>, exceptional |-> <<>>, last_bit |-> 0]

LEMMA NoBitsAgree == Agrees(NoBits, <<>>, {}) /\ NoBits.last_bit = 0
<1>1. Positions(<<>>, 0) = {} /\ Positions(<<>>, 7) = {}
  BY DEF Positions
<1>2. Cardinality({}) = 0
  BY FS_EmptySet
<1>3. Paired(<<>>, <<>>)
  BY <1>1, <1>2 DEF Paired
<1>4. Distances(<<>>, <<>>) = <<>>
  <2>1. Distances(<<>>, <<>>) \in Seq(Nat) /\ Len(Distances(<<>>, <<>>)) = Len(<<>>)
    BY <1>3, DistancesAre
  <2>. QED  BY <2>1
<1>5. Unpacked(Distances(<<>>, <<>>)) = [output |-> <<>>, value |-> {}, last_bit |-> 0]
  BY Zenon, <1>4, UnpackedNone DEF NoneDone
<1>6. /\ NoBits.normal = <<>> /\ NoBits.exceptional = <<>> /\ NoBits.last_bit = 0
      /\ NoBits = [normal |-> <<>>, exceptional |-> <<>>, last_bit |-> 0]
  BY DEF NoBits
<1>7. <<>> \in Seq(SUBSET Int) /\ {} \in SUBSET Int /\ 0 \in 0 .. 32 /\ Len(<<>>) = 0
  OBVIOUS
<1>. QED  BY Zenon, <1>1, <1>2, <1>3, <1>5, <1>6, <1>7 DEF Agrees

\* Where an item is the one before with its changes.
LEMMA ChangesAre ==
    ASSUME NEW items \in Seq(Item), NEW i \in 1 .. Len(items)
    PROVE  /\ Changes(items)[i] \in Item
           /\ items[i] = SymDiff(IF i = 1 THEN {} ELSE items[i - 1], Changes(items)[i])
<1>. DEFINE e(k) == IF k = 1 THEN items[1] ELSE SymDiff(items[k], items[k - 1])
<1>1. DOMAIN items = 1 .. Len(items) /\ Len(items) \in Nat
  OBVIOUS
<1>2. Changes(items) = [k \in DOMAIN items |-> e(k)]
  BY Zenon DEF Changes
<1>3. Changes(items)[i] = e(i)
  <2>. HIDE DEF e
  <2>. QED  BY <1>1, <1>2
<1>4. items[i] \in Item
  BY ElementOf
<1>5. CASE i = 1
  <2>1. e(i) = items[i]
    BY Zenon, <1>5
  <2>2. items[i] = SymDiff({}, items[i])
    BY DEF SymDiff
  <2>. QED  BY Zenon, <1>3, <1>4, <1>5, <2>1, <2>2
<1>6. CASE i # 1
  <2>1. i - 1 \in 1 .. Len(items)
    BY <1>1, <1>6
  <2>. DEFINE before == items[i - 1]
              x == items[i]
  <2>2. before \in Item
    BY <2>1, ElementOf
  <2>3. e(i) = SymDiff(x, before)
    BY Zenon, <1>6
  <2>. HIDE DEF before, x
  <2>4. SymDiff(x, before) \in Item
    BY <1>4, <2>2 DEF Item, SymDiff, x
  <2>5. x = SymDiff(before, SymDiff(x, before))
    BY DEF SymDiff
  <2>. QED  BY Zenon, <1>3, <1>6, <2>3, <2>4, <2>5 DEF before, x
<1>. QED  BY <1>5, <1>6

Collects(f, items) ==
    f = [i \in 0 .. Len(items) |->
            IF i = 0 THEN NoBits ELSE ProcessSubfingerprint(f[i - 1], Changes(items)[i])]

CollectsAt(f, items, i) ==
    f[i] = IF i = 0 THEN NoBits ELSE ProcessSubfingerprint(f[i - 1], Changes(items)[i])

LEMMA CollectsIs ==
    ASSUME NEW f, NEW items, Collects(f, items), NEW i \in 0 .. Len(items)
    PROVE  CollectsAt(f, items, i)
<1>. DEFINE e(k) == IF k = 0 THEN NoBits ELSE ProcessSubfingerprint(f[k - 1], Changes(items)[k])
            n == Len(items)
<1>1. f = [k \in 0 .. n |-> e(k)]
  BY Zenon DEF Collects
<1>2. f[i] = e(i)
  <2>. HIDE DEF e
  <2>. QED  BY <1>1
<1>. QED  BY Zenon, <1>2 DEF CollectsAt

\* The bits after some items.
Collected ==
    {b \in Bits : b.last_bit = 0 /\ \E o \in Seq(SUBSET Int), v \in SUBSET Int : Agrees(b, o, v)}

LEMMA CollectedMore ==
    ASSUME NEW bits \in Collected, NEW x \in Item
    PROVE  ProcessSubfingerprint(bits, x) \in Collected
<1>1. PICK o \in Seq(SUBSET Int), v \in SUBSET Int : Agrees(bits, o, v) /\ bits.last_bit = 0
  BY Zenon DEF Collected
<1>. DEFINE next == SymDiff(v, x)
            after == ProcessSubfingerprint(bits, x)
<1>2. Agrees(after, Append(o, next), next) /\ after.last_bit = 0
  BY Zenon, <1>1, ItemAgrees
<1>. HIDE DEF next, after
<1>3. after \in Bits
  BY Zenon, <1>2, AgreesBits
<1>4. Append(o, next) \in Seq(SUBSET Int) /\ next \in SUBSET Int
  BY Zenon, <1>2 DEF Agrees
<1>. QED  BY Zenon, <1>2, <1>3, <1>4 DEF Collected, after

LEMMA CollectsExists ==
    ASSUME NEW items \in Seq(Item)
    PROVE  \E f : Collects(f, items)
<1>. DEFINE n == Len(items)
            e(b, i) == ProcessSubfingerprint(b, Changes(items)[i])
            step == [b \in Collected \X (1 .. n) |-> e(b[1], b[2])]
<1>1. ASSUME NEW b \in Collected, NEW i \in 1 .. n PROVE e(b, i) \in Collected
  BY Zenon, ChangesAre, CollectedMore
<1>2. n \in Nat
  OBVIOUS
<1>3. NoBits \in Collected
  <2>1. <<>> \in Seq(SUBSET Int) /\ {} \in SUBSET Int
    OBVIOUS
  <2>2. NoBits \in Bits
    BY Zenon, NoBitsAgree, AgreesBits
  <2>. QED  BY Zenon, <2>1, <2>2, NoBitsAgree DEF Collected
<1>. HIDE DEF e, n
<1>4. step \in [Collected \X (1 .. n) -> Collected]
  BY <1>1
<1>5. \A b \in Collected, i \in 1 .. n : step[<<b, i>>] = e(b, i)
  OBVIOUS
<1>. HIDE DEF step
<1>6. PICK f : Recurs(f, n, Collected, NoBits, step)
  BY Zenon, <1>2, <1>3, <1>4, RecursionExists
<1>7. /\ f \in [0 .. n -> Collected] /\ f[0] = NoBits
      /\ \A i \in 1 .. n : f[i] = step[<<f[i - 1], i>>]
  BY Zenon, <1>6 DEF Recurs
<1>8. ASSUME NEW i \in 0 .. n PROVE f[i] = IF i = 0 THEN NoBits ELSE e(f[i - 1], i)
  <2>1. CASE i = 0
    BY <1>7, <2>1
  <2>2. CASE i # 0
    <3>1. i \in 1 .. n /\ i - 1 \in 0 .. n
      BY <1>2, <2>2
    <3>2. f[i - 1] \in Collected
      BY <1>7, <3>1
    <3>. QED  BY <1>5, <1>7, <2>2, <3>1, <3>2
  <2>. QED  BY <2>1, <2>2
<1>9. f = [i \in 0 .. n |-> IF i = 0 THEN NoBits ELSE e(f[i - 1], i)]
  <2>1. f = [i \in 0 .. n |-> f[i]]
    BY <1>7
  <2>. QED  BY <1>8, <2>1
<1>10. Collects(f, items)
  BY Zenon, <1>9 DEF Collects, e, n
<1>. QED  BY <1>10

\* The bits of a fingerprint are paired, with a zero for each item and at the
\* end, and unpack to the fingerprint.
Collection(items, bits) ==
    /\ Paired(bits.normal, bits.exceptional)
    /\ Cardinality(Positions(bits.normal, 0)) = Len(items)
    /\ items # <<>> => Ended(bits)
    /\ items = <<>> => bits.normal = <<>> /\ bits.exceptional = <<>>
    /\ UnpackBits(Distances(bits.normal, bits.exceptional)) = items

LEMMA AllBitsIs ==
    ASSUME NEW items \in Seq(Item)
    PROVE  Collection(items, AllBits(items))
<1>. DEFINE n == Len(items)
            f == CHOOSE g : Collects(g, items)
            value(k) == IF k = 0 THEN {} ELSE items[k]
            first(k) == SubSeq(items, 1, k)
            Holds(k) == /\ Agrees(f[k], first(k), value(k)) /\ f[k].last_bit = 0
                        /\ k # 0 => Ended(f[k])
            T == {k \in Nat : k <= n => Holds(k)}
<1>1. Collects(f, items)
  BY Zenon, CollectsExists
<1>2. AllBits(items) = f[n]
  BY Zenon DEF AllBits, Collects, NoBits
<1>. HIDE DEF f
<1>3. n \in Nat
  OBVIOUS
<1>4. \A k \in 0 .. n : CollectsAt(f, items, k)
  BY <1>1, CollectsIs
<1>5. first(0) = <<>> /\ first(n) = items
  OBVIOUS
<1>6. ASSUME NEW k \in Nat, k + 1 <= n
      PROVE  /\ first(k + 1) = Append(first(k), items[k + 1])
             /\ Changes(items)[k + 1] \in Item
             /\ items[k + 1] = SymDiff(value(k), Changes(items)[k + 1])
  <2>. DEFINE i == k + 1
  <2>1. i \in 1 .. n /\ i - 1 = k /\ (i = 1 <=> k = 0)
    BY <1>3, <1>6
  <2>2. first(k + 1) = Append(first(k), items[k + 1])
    BY <1>3, <1>6
  <2>. HIDE DEF i
  <2>3. /\ Changes(items)[i] \in Item
        /\ items[i] = SymDiff(IF i = 1 THEN {} ELSE items[i - 1], Changes(items)[i])
    BY Zenon, <2>1, ChangesAre
  <2>4. (IF i = 1 THEN {} ELSE items[i - 1]) = value(k)
    BY Zenon, <2>1
  <2>. QED  BY Zenon, <2>2, <2>3, <2>4 DEF i
<1>7. 0 \in T
  <2>1. 0 \in 0 .. n
    BY <1>3
  <2>2. f[0] = NoBits
    BY Zenon, <1>4, <2>1 DEF CollectsAt
  <2>3. value(0) = {}
    OBVIOUS
  <2>. HIDE DEF first, value
  <2>4. Holds(0)
    BY Zenon, <1>5, <2>2, <2>3, NoBitsAgree
  <2>. HIDE DEF Holds
  <2>. QED  BY <2>4
<1>8. ASSUME NEW k \in T PROVE k + 1 \in T
  <2>. SUFFICES ASSUME k + 1 <= n PROVE Holds(k + 1)
    OBVIOUS
  <2>. DEFINE x == Changes(items)[k + 1]
              next == items[k + 1]
  <2>1. /\ k + 1 \in 0 .. n /\ k + 1 # 0 /\ (k + 1) - 1 = k /\ k \in Nat /\ Holds(k)
    <3>. HIDE DEF Holds
    <3>. QED  BY <1>3
  <2>. HIDE DEF T, n
  <2>2. f[k + 1] = ProcessSubfingerprint(f[k], x)
    BY Zenon, <1>4, <2>1 DEF CollectsAt
  <2>3. first(k + 1) = Append(first(k), next) /\ x \in Item /\ next = SymDiff(value(k), x)
    BY Zenon, <1>6, <2>1
  <2>4. value(k + 1) = next
    BY Zenon, <2>1
  <2>. HIDE DEF first, value, x, next
  <2>5. /\ Agrees(f[k + 1], Append(first(k), next), next) /\ f[k + 1].last_bit = 0
        /\ Ended(f[k + 1])
    BY Zenon, <2>1, <2>2, <2>3, ItemAgrees
  <2>. QED  BY Zenon, <2>3, <2>4, <2>5
<1>9. T \in SUBSET Nat
  OBVIOUS
<1>10. Holds(n)
  <2>. HIDE DEF Holds, n
  <2>1. n <= n
    BY <1>3
  <2>2. n \in T
    <3>. HIDE DEF T
    <3>. QED  BY <1>3, <1>7, <1>8, <1>9, NatInduct
  <2>. QED  BY <2>1, <2>2
<1>. HIDE DEF T
<1>. DEFINE bits == AllBits(items)
<1>11. /\ Agrees(bits, items, value(n)) /\ bits.last_bit = 0
       /\ n # 0 => Ended(bits)
  BY Zenon, <1>2, <1>5, <1>10
<1>12. n = 0 <=> items = <<>>
  OBVIOUS
<1>13. items = <<>> => bits.normal = <<>> /\ bits.exceptional = <<>>
  <2>. SUFFICES ASSUME items = <<>> PROVE bits.normal = <<>> /\ bits.exceptional = <<>>
    OBVIOUS
  <2>. HIDE DEF n, bits
  <2>1. 0 \in 0 .. n /\ n = 0
    BY <1>12
  <2>2. bits = NoBits
    BY Zenon, <1>2, <1>4, <2>1 DEF CollectsAt, bits
  <2>. QED  BY <2>2 DEF NoBits
<1>14. UnpackBits(Distances(bits.normal, bits.exceptional)) = items
  <2>. DEFINE u == Unpacked(Distances(bits.normal, bits.exceptional))
  <2>1. u = [output |-> items, value |-> value(n), last_bit |-> bits.last_bit]
    BY Zenon, <1>11 DEF Agrees
  <2>. HIDE DEF u, value, bits
  <2>2. u.output = items
    BY <2>1
  <2>. QED  BY Zenon, <2>2, UnpackedIs DEF u
<1>15. /\ Paired(bits.normal, bits.exceptional)
       /\ Cardinality(Positions(bits.normal, 0)) = Len(items)
  BY Zenon, <1>11 DEF Agrees
<1>. QED  BY Zenon, <1>11, <1>12, <1>13, <1>14, <1>15 DEF Collection

-----------------------------------------------------------------------------
(* The codec: the codes of the items are found again.                      *)

LEMMA StrictSubset ==
    ASSUME NEW S, IsFiniteSet(S), NEW T \in SUBSET S, T # S
    PROVE  Cardinality(T) \in Nat /\ Cardinality(T) < Cardinality(S)
<1>1. IsFiniteSet(T) /\ Cardinality(T) <= Cardinality(S) /\ (Cardinality(S) = Cardinality(T) => S = T)
  BY Zenon, FS_Subset
<1>2. Cardinality(S) \in Nat /\ Cardinality(T) \in Nat
  BY <1>1, FS_CardinalityType
<1>. QED  BY <1>1, <1>2

\* The codes up to the last zero, with anything after it.
LEMMA UpToItemFinds ==
    ASSUME NEW normal \in Seq(Int), NEW codes \in Seq(Int), normal # <<>>,
           normal[Len(normal)] = 0, Len(normal) <= Len(codes),
           \A c \in 1 .. Len(normal) : codes[c] = normal[c]
    PROVE  UpToItem(codes, Cardinality(Positions(normal, 0))) = normal
<1>. DEFINE n == Len(normal)
            m == Len(codes)
            P == Positions(codes, 0)
            Q == Positions(normal, 0)
            last == {i \in P : Cardinality(P \cap 1 .. i) = Cardinality(Q)}
<1>1. n \in Nat \ {0} /\ m \in Nat /\ n <= m /\ DOMAIN normal = 1 .. n /\ DOMAIN codes = 1 .. m
  OBVIOUS
<1>2. /\ \A i : i \in P <=> i \in 1 .. m /\ codes[i] = 0
      /\ \A i : i \in Q <=> i \in 1 .. n /\ normal[i] = 0
  BY <1>1 DEF Positions
<1>3. IsFiniteSet(P) /\ IsFiniteSet(Q) /\ Cardinality(Q) \in Nat /\ P \subseteq 1 .. m
  BY PositionsAre
<1>4. normal[n] = 0 /\ \A c \in 1 .. n : codes[c] = normal[c]
  OBVIOUS
<1>5. UpToItem(codes, Cardinality(Q)) = IF last = {} THEN codes ELSE SubSeq(codes, 1, Max(last))
  BY Zenon DEF UpToItem
<1>6. SubSeq(codes, 1, n) = normal
  BY <1>1, <1>4
<1>. HIDE DEF n, m, P, Q
<1>7. P \cap 1 .. n = Q /\ n \in Q /\ n \in P
  <2>1. \A i \in 1 .. n : i \in 1 .. m
    BY <1>1
  <2>2. n \in 1 .. n
    BY <1>1
  <2>. QED  BY <1>2, <1>4, <2>1, <2>2
<1>8. ASSUME NEW i \in P, i # n PROVE Cardinality(P \cap 1 .. i) # Cardinality(Q)
  <2>. DEFINE R == P \cap 1 .. i
  <2>0. i \in 1 .. m
    BY <1>3
  <2>1. CASE i < n
    <3>1. n \notin R /\ R \subseteq Q
      <4>1. ~(n <= i) /\ \A k \in 1 .. i : k \in 1 .. n
        BY <1>1, <2>0, <2>1
      <4>2. n \notin 1 .. i
        BY <1>1, <4>1
      <4>. QED  BY Zenon, <1>7, <4>1, <4>2
    <3>. HIDE DEF R
    <3>2. R \in SUBSET Q /\ R # Q
      BY <1>7, <3>1
    <3>3. Cardinality(R) < Cardinality(Q) /\ Cardinality(R) \in Nat
      BY Zenon, <1>3, <3>2, StrictSubset
    <3>. QED  BY <1>3, <3>3 DEF R
  <2>2. CASE ~(i < n)
    <3>1. i \notin Q /\ Q \subseteq R /\ i \in R
      <4>1. \A k \in 1 .. n : k \in 1 .. i
        BY <1>1, <2>0, <2>2
      <4>2. i \in 1 .. i /\ i \notin 1 .. n
        BY <1>1, <1>8, <2>0, <2>2
      <4>. QED  BY Zenon, <1>2, <1>7, <4>1, <4>2
    <3>2. R \in SUBSET P
      OBVIOUS
    <3>. HIDE DEF R
    <3>3. IsFiniteSet(R)
      BY <1>3, <3>2, FS_Subset
    <3>4. Q \in SUBSET R /\ Q # R
      BY <3>1
    <3>5. Cardinality(Q) < Cardinality(R) /\ Cardinality(R) \in Nat
      BY Zenon, <3>3, <3>4, StrictSubset, FS_CardinalityType
    <3>. QED  BY <1>3, <3>5 DEF R
  <2>. QED  BY <2>1, <2>2
<1>9. last = {n}
  BY Zenon, <1>7, <1>8
<1>. HIDE DEF last
<1>10. Max(last) = n
  BY <1>1, <1>9 DEF Max
<1>. QED  BY <1>5, <1>6, <1>9, <1>10 DEF Q

\* Without the last code there are too few zeros.
LEMMA UpToItemMisses ==
    ASSUME NEW normal \in Seq(Int), NEW codes \in Seq(Int), normal # <<>>,
           normal[Len(normal)] = 0, Len(codes) < Len(normal),
           \A c \in 1 .. Len(codes) : codes[c] = normal[c]
    PROVE  /\ Cardinality(Positions(codes, 0)) # Cardinality(Positions(normal, 0))
           /\ UpToItem(codes, Cardinality(Positions(normal, 0))) = codes
<1>. DEFINE n == Len(normal)
            m == Len(codes)
            P == Positions(codes, 0)
            Q == Positions(normal, 0)
            last == {i \in P : Cardinality(P \cap 1 .. i) = Cardinality(Q)}
<1>1. n \in Nat \ {0} /\ m \in Nat /\ m < n /\ DOMAIN normal = 1 .. n /\ DOMAIN codes = 1 .. m
  OBVIOUS
<1>2. /\ \A i : i \in P <=> i \in 1 .. m /\ codes[i] = 0
      /\ \A i : i \in Q <=> i \in 1 .. n /\ normal[i] = 0
  BY <1>1 DEF Positions
<1>3. IsFiniteSet(P) /\ IsFiniteSet(Q) /\ Cardinality(Q) \in Nat
  BY PositionsAre
<1>4. normal[n] = 0 /\ \A c \in 1 .. m : codes[c] = normal[c]
  OBVIOUS
<1>5. UpToItem(codes, Cardinality(Q)) = IF last = {} THEN codes ELSE SubSeq(codes, 1, Max(last))
  BY Zenon DEF UpToItem
<1>. HIDE DEF n, m, P, Q
<1>6. P \subseteq Q /\ n \in Q /\ n \notin P
  <2>1. \A i \in 1 .. m : i \in 1 .. n /\ i # n
    BY <1>1
  <2>2. n \in 1 .. n
    BY <1>1
  <2>. QED  BY Zenon, <1>2, <1>4, <2>1, <2>2
<1>7. ASSUME NEW R, R \subseteq P PROVE Cardinality(R) # Cardinality(Q)
  <2>1. R \in SUBSET Q /\ R # Q
    BY <1>6, <1>7
  <2>2. Cardinality(R) < Cardinality(Q) /\ Cardinality(R) \in Nat
    BY Zenon, <1>3, <2>1, StrictSubset
  <2>. QED  BY <1>3, <2>2
<1>8. last = {}
  <2>1. ASSUME NEW i \in P PROVE Cardinality(P \cap 1 .. i) # Cardinality(Q)
    <3>1. P \cap 1 .. i \subseteq P
      OBVIOUS
    <3>. QED  BY Zenon, <1>7, <3>1
  <2>. QED  BY Zenon, <2>1
<1>9. P \subseteq P
  OBVIOUS
<1>. HIDE DEF last
<1>. QED  BY Zenon, <1>5, <1>7, <1>8, <1>9 DEF P, Q

-----------------------------------------------------------------------------
(* The codec: the parts of what is compressed.                             *)

\* A header of four bytes, the codes, the exceptional bits.
Framed(C, head, a, b) ==
    /\ C \in Seq(Byte) /\ Len(C) = 4 + Len(a) + Len(b)
    /\ \A i \in 1 .. 4 : C[i] = head[i]
    /\ \A i \in 1 .. Len(a) : C[4 + i] = a[i]
    /\ \A i \in 1 .. Len(b) : C[4 + Len(a) + i] = b[i]

LEMMA ConcatIs ==
    ASSUME NEW S, NEW a \in Seq(S), NEW b \in Seq(S)
    PROVE  a \o b \in Seq(S) /\ Len(a \o b) = Len(a) + Len(b)
OBVIOUS

LEMMA FramedIs ==
    ASSUME NEW head \in Seq(Byte), Len(head) = 4, NEW a \in Seq(Byte), NEW b \in Seq(Byte)
    PROVE  Framed(head \o a \o b, head, a, b)
<1>. DEFINE ha == head \o a
            C == ha \o b
            l == Len(a)
            m == Len(b)
<1>1. l \in Nat /\ m \in Nat
  OBVIOUS
<1>2. /\ ha \in Seq(Byte) /\ Len(ha) = 4 + l
      /\ \A i \in 1 .. 4 : ha[i] = head[i]
      /\ \A i \in 1 .. l : ha[4 + i] = a[i]
  <2>1. ha \in Seq(Byte) /\ Len(ha) = 4 + l
    BY ConcatIs
  <2>2. Concat(ha, head, a)
    BY Zenon DEF Concat
  <2>. HIDE DEF ha, l
  <2>3. Joins(ha, head, a, 4, l)
    BY <2>2, Joined DEF l
  <2>. QED  BY Zenon, <2>1, <2>3 DEF Joins
<1>. HIDE DEF ha
<1>3. /\ C \in Seq(Byte) /\ Len(C) = (4 + l) + m
      /\ \A i \in 1 .. 4 + l : C[i] = ha[i]
      /\ \A i \in 1 .. m : C[(4 + l) + i] = b[i]
  <2>1. C \in Seq(Byte) /\ Len(C) = (4 + l) + m
    <3>1. C \in Seq(Byte) /\ Len(C) = Len(ha) + m
      BY Zenon, <1>2, ConcatIs
    <3>. QED  BY <1>2, <3>1
  <2>2. Concat(C, ha, b)
    BY Zenon DEF Concat
  <2>. HIDE DEF C, m, l
  <2>3. Joins(C, ha, b, 4 + l, m)
    BY SMTT(30), <1>2, <2>2, Joined DEF m
  <2>. QED  BY Zenon, <2>1, <2>3 DEF Joins
<1>. HIDE DEF C, l, m
<1>4. \A i \in 1 .. 4 : C[i] = head[i]
  BY <1>1, <1>2, <1>3
<1>5. \A i \in 1 .. l : C[4 + i] = a[i]
  <2>1. \A i \in 1 .. l : 4 + i \in 1 .. 4 + l
    BY <1>1
  <2>. QED  BY Zenon, <1>2, <1>3, <2>1
<1>. QED  BY Zenon, <1>3, <1>4, <1>5 DEF Framed, C, l, m, ha

\* The bytes of a fingerprint.
Packed(items, alg, C, l3, l5) ==
    /\ Framed(C, Header(Len(items), alg), Pack(AllBits(items).normal, 3),
              Pack(AllBits(items).exceptional, 5))
    /\ l3 = Len(Pack(AllBits(items).normal, 3)) /\ l3 = PackedSize(Len(AllBits(items).normal), 3)
    /\ l5 = Len(Pack(AllBits(items).exceptional, 5))
    /\ l5 = PackedSize(Len(AllBits(items).exceptional), 5)
    /\ l3 \in Nat /\ l5 \in Nat /\ C \in Seq(Byte) /\ Len(C) = 4 + l3 + l5

LEMMA CompressIs ==
    ASSUME NEW items \in Seq(Item), NEW alg \in Nat
    PROVE  \E l3, l5 : Packed(items, alg, Compress(items, alg), l3, l5)
<1>. DEFINE normal == AllBits(items).normal
            exceptional == AllBits(items).exceptional
            a == Pack(normal, 3)
            b == Pack(exceptional, 5)
            head == Header(Len(items), alg)
            C == Compress(items, alg)
<1>1. normal \in Seq(0 .. 7) /\ exceptional \in Seq(0 .. 31)
  BY Zenon, AllBitsIs DEF Collection, Paired
<1>2. C = head \o a \o b
  BY Zenon, <1>1, PacksByBits DEF Compress
<1>3. /\ a \in Seq(Byte) /\ Len(a) = PackedSize(Len(normal), 3) /\ PackedSize(Len(normal), 3) \in Nat
      /\ b \in Seq(Byte) /\ Len(b) = PackedSize(Len(exceptional), 5)
      /\ PackedSize(Len(exceptional), 5) \in Nat
  <2>. HIDE DEF normal, exceptional
  <2>1. /\ 3 \in {3, 5} /\ 5 \in {3, 5} /\ 5 # 3
    OBVIOUS
  <2>2. normal \in Seq(Small(3)) /\ exceptional \in Seq(Small(5))
    BY Zenon, <1>1, <2>1 DEF Small
  <2>. QED  BY Zenon, <2>1, <2>2, PackIs
<1>4. head \in Seq(Byte) /\ Len(head) = 4
  <2>1. \A n : BitsOf(n, 8) \in Byte
    BY DEF BitsOf, Byte
  <2>. DEFINE x1 == BitsOf(alg, 8)
              x2 == BitsOf(Len(items) \div 2^16, 8)
              x3 == BitsOf(Len(items) \div 2^8, 8)
              x4 == BitsOf(Len(items), 8)
  <2>2. x1 \in Byte /\ x2 \in Byte /\ x3 \in Byte /\ x4 \in Byte
    BY Zenon, <2>1
  <2>3. head = <<x1, x2, x3, x4>>
    BY Zenon DEF Header
  <2>. HIDE DEF x1, x2, x3, x4, head
  <2>. QED  BY <2>2, <2>3
<1>. HIDE DEF head, a, b
<1>5. Framed(C, head, a, b)
  BY Zenon, <1>2, <1>3, <1>4, FramedIs
<1>6. C \in Seq(Byte) /\ Len(C) = 4 + Len(a) + Len(b)
  BY Zenon, <1>5 DEF Framed
<1>7. Packed(items, alg, C, Len(a), Len(b))
  BY Zenon, <1>3, <1>5, <1>6 DEF Packed, head, a, b
<1>. QED  BY Zenon, <1>7

\* Bytes the first k of which are those of C.
Starts(input, C, k) ==
    /\ input \in Seq(Byte) /\ k \in Nat /\ k <= Len(input) /\ k <= Len(C)
    /\ \A i \in 1 .. k : input[i] = C[i]

LEMMA SizeBytes ==
    ASSUME NEW n \in Nat, n < 2^24
    PROVE  NumberOf(BitsOf(n \div 2^16, 8)) * 2^16 + NumberOf(BitsOf(n \div 2^8, 8)) * 2^8
             + NumberOf(BitsOf(n, 8)) = n
<1>. DEFINE a == n \div 2^16
            b == n \div 2^8
            x == NumberOf(BitsOf(a, 8))
            y == NumberOf(BitsOf(b, 8))
            z == NumberOf(BitsOf(n, 8))
<1>1. a \in Nat /\ b \in Nat
  OBVIOUS
<1>2. a % 256 = a /\ a * 65536 + (b % 256) * 256 + (n % 256) = n
  OBVIOUS
<1>. HIDE DEF a, b
<1>3. x = a % 256 /\ y = b % 256 /\ z = n % 256
  BY <1>1, NumberOfBits
<1>. HIDE DEF x, y, z
<1>4. x * 65536 + y * 256 + z = n
  BY <1>1, <1>2, <1>3
<1>5. 2^16 = 65536 /\ 2^8 = 256
  OBVIOUS
<1>. QED  BY <1>4, <1>5 DEF x, y, z, a, b

LEMMA SignedByte ==
    ASSUME NEW n \in 0 .. 127
    PROVE  Signed(BitsOf(n, 8)) = n
<1>1. NumberOf(BitsOf(n, 8)) = n % 256
  BY NumberOfBits
<1>2. n % 256 = n /\ ~(((n \div 128) % 2) = 1)
  OBVIOUS
<1>3. 7 \notin BitsOf(n, 8)
  BY <1>2 DEF BitsOf
<1>. DEFINE x == NumberOf(BitsOf(n, 8))
<1>4. Signed(BitsOf(n, 8)) = x - 0
  BY <1>3 DEF Signed
<1>. HIDE DEF x
<1>5. x = n
  BY <1>1, <1>2 DEF x
<1>. QED  BY <1>4, <1>5

LEMMA HeaderIs ==
    ASSUME NEW items \in Seq(Item), Len(items) < 2^24, NEW alg \in 0 .. 127,
           NEW C, NEW l3, NEW l5, Packed(items, alg, C, l3, l5),
           NEW input, NEW k, Starts(input, C, k), k >= 4
    PROVE  DecompressHeader(input) =
              [ok |-> TRUE, size |-> Len(items), algorithm |-> alg, fingerprint |-> <<>>]
<1>. DEFINE n == Len(items)
            head == Header(n, alg)
<1>1. n \in Nat /\ n < 2^24
  OBVIOUS
<1>2. Len(input) \in Nat /\ ~(Len(input) < 4)
  BY DEF Starts
<1>3. input[1] = head[1] /\ input[2] = head[2] /\ input[3] = head[3] /\ input[4] = head[4]
  <2>1. \A i \in 1 .. 4 : C[i] = head[i]
    BY Zenon DEF Packed, Framed
  <2>2. \A i \in 1 .. 4 : input[i] = C[i]
    BY DEF Starts
  <2>. HIDE DEF head
  <2>. QED  BY <2>1, <2>2
<1>. HIDE DEF n
<1>. DEFINE x1 == BitsOf(alg, 8)
            x2 == BitsOf(n \div 2^16, 8)
            x3 == BitsOf(n \div 2^8, 8)
            x4 == BitsOf(n, 8)
            x == Signed(x1)
            y == NumberOf(x2) * 2^16 + NumberOf(x3) * 2^8 + NumberOf(x4)
<1>4. x = alg /\ y = n
  BY <1>1, SizeBytes, SignedByte
<1>5. input[1] = x1 /\ input[2] = x2 /\ input[3] = x3 /\ input[4] = x4
  <2>. HIDE DEF x1, x2, x3, x4
  <2>1. head = <<x1, x2, x3, x4>>
    BY DEF Header, x1, x2, x3, x4
  <2>. HIDE DEF head
  <2>. QED  BY <1>3, <2>1
<1>. HIDE DEF x1, x2, x3, x4
<1>6. DecompressHeader(input) = [Failed EXCEPT !.ok = TRUE, !.algorithm = x, !.size = y]
  BY <1>2, <1>5 DEF DecompressHeader
<1>. HIDE DEF x, y
<1>. QED  BY <1>4, <1>6 DEF Failed, n

-----------------------------------------------------------------------------
(* The codec: what decompresses, and what does not.                        *)

LEMMA PackedSizes ==
    ASSUME NEW n \in Nat
    PROVE  /\ PackedSize(n, 3) \in Nat /\ PackedSize(n, 5) \in Nat
           /\ \A c \in 1 .. n : c * 3 <= 8 * PackedSize(n, 3) /\ c * 5 <= 8 * PackedSize(n, 5)
           /\ \A m \in Nat : m < PackedSize(n, 3) =>
                (m * 8) \div 3 < n /\ ((m * 8) \div 3) * 3 <= 8 * m
           /\ n = 0 => PackedSize(n, 3) = 0 /\ PackedSize(n, 5) = 0
BY DEF PackedSize

LEMMA UnpackType ==
    ASSUME NEW bytes \in Seq(Byte)
    PROVE  /\ UnpackInt3Array(bytes) \in Seq(Int)
           /\ Len(UnpackInt3Array(bytes)) = (Len(bytes) * 8) \div 3
<1>. DEFINE n == (Len(bytes) * 8) \div 3
            u(k) == NumberOf({j \in 0 .. 3 - 1 : \E i \in {(k - 1) * 3 + j} :
                                (i % 8) \in bytes[(i \div 8) + 1]})
<1>1. n \in Nat
  OBVIOUS
<1>2. UnpackInt3Array(bytes) = [k \in 1 .. n |-> u(k)]
  BY Zenon, UnpacksByBits DEF Unpack
<1>3. \A bits : NumberOf(bits) \in Int
  BY DEF NumberOf
<1>4. \A k : u(k) \in Int
  BY Zenon, <1>3
<1>. HIDE DEF n, u
<1>. QED  BY <1>1, <1>2, <1>4 DEF n

\* Bytes i + 1 to i + m of a sequence.
Cut(part, bytes, i, m) ==
    /\ part \in Seq(Byte) /\ Len(part) = m
    /\ \A b \in 1 .. m : part[b] = bytes[i + b]

LEMMA CutIs ==
    ASSUME NEW bytes \in Seq(Byte), NEW i \in Nat, NEW m \in Nat, i + m <= Len(bytes)
    PROVE  Cut(SubSeq(bytes, i + 1, i + m), bytes, i, m)
<1>. DEFINE part == SubSeq(bytes, i + 1, i + m)
<1>1. part \in Seq(Byte) /\ Len(part) = m
  OBVIOUS
<1>2. \A b \in 1 .. m : part[b] = bytes[i + b]
  <2>. SUFFICES ASSUME NEW b \in 1 .. m PROVE part[b] = bytes[i + b]
    OBVIOUS
  <2>1. part[b] = bytes[(i + 1) + b - 1]
    OBVIOUS
  <2>2. (i + 1) + b - 1 = i + b
    OBVIOUS
  <2>. QED  BY Zenon, <2>1, <2>2
<1>. QED  BY Zenon, <1>1, <1>2 DEF Cut

\* The codes in the first k bytes of a fingerprint.
CodesFound(codes, input, normal, k) ==
    /\ codes \in Seq(Int) /\ Len(codes) = ((Len(input) - 4) * 8) \div 3
    /\ \A c \in 1 .. Len(normal) : c * 3 <= 8 * (k - 4) => c <= Len(codes) /\ codes[c] = normal[c]

LEMMA CodesAre ==
    ASSUME NEW items \in Seq(Item), NEW alg, NEW C, NEW l3, NEW l5, Packed(items, alg, C, l3, l5),
           NEW input, NEW k, Starts(input, C, k), k >= 4
    PROVE  CodesFound(UnpackInt3Array(SubSeq(input, 5, Len(input))), input, AllBits(items).normal, k)
<1>. DEFINE normal == AllBits(items).normal
            a == Pack(normal, 3)
            bytes == SubSeq(input, 5, Len(input))
            codes == UnpackInt3Array(bytes)
            n == Len(input)
            m == k - 4
<1>1. /\ input \in Seq(Byte) /\ n \in Nat /\ k \in Nat /\ k <= n
      /\ \A i \in 1 .. k : input[i] = C[i]
  BY DEF Starts
<1>2. /\ l3 \in Nat /\ l3 = Len(a) /\ l3 = PackedSize(Len(normal), 3)
      /\ \A i \in 1 .. l3 : C[4 + i] = a[i]
  BY Zenon DEF Packed, Framed
<1>3. normal \in Seq(0 .. 7)
  BY Zenon, AllBitsIs DEF Collection, Paired
<1>4. m \in Nat /\ n - 4 \in Nat /\ m <= n - 4 /\ 4 + (n - 4) = n
  BY <1>1
<1>5. Cut(bytes, input, 4, n - 4)
  <2>1. 4 \in Nat /\ 4 + (n - 4) <= Len(input) /\ 4 + 1 = 5
    BY <1>4
  <2>. DEFINE l == n - 4
  <2>2. l \in Nat /\ 4 + l = Len(input)
    BY <1>4
  <2>. HIDE DEF l
  <2>3. Cut(SubSeq(input, 4 + 1, 4 + l), input, 4, l)
    BY <1>1, <2>1, <2>2, CutIs
  <2>. QED  BY Zenon, <2>1, <2>2, <2>3 DEF l
<1>6. /\ bytes \in Seq(Byte) /\ Len(bytes) = n - 4
      /\ \A b \in 1 .. n - 4 : bytes[b] = input[4 + b]
  BY Zenon, <1>5 DEF Cut
<1>7. codes \in Seq(Int) /\ Len(codes) = ((n - 4) * 8) \div 3
  <2>. HIDE DEF bytes
  <2>. QED  BY <1>6, UnpackType
<1>. HIDE DEF normal, a, bytes, n
<1>8. ASSUME NEW b \in 1 .. m, b <= l3 PROVE bytes[b] = a[b]
  <2>1. b \in 1 .. n - 4 /\ 4 + b \in 1 .. k /\ b \in 1 .. l3
    BY <1>1, <1>2, <1>4, <1>8
  <2>. QED  BY Zenon, <1>1, <1>2, <1>6, <2>1
<1>. HIDE DEF m
<1>9. ASSUME NEW c \in 1 .. Len(normal), c * 3 <= 8 * m
      PROVE  c <= Len(codes) /\ codes[c] = normal[c]
  <2>1. 3 \in {3, 5} /\ normal \in Seq(Small(3)) /\ m <= Len(bytes)
    BY <1>3, <1>4, <1>6 DEF Small
  <2>2. \A b \in 1 .. m : b <= PackedSize(Len(normal), 3) => bytes[b] = Pack(normal, 3)[b]
    BY Zenon, <1>2, <1>8 DEF a
  <2>3. c <= (Len(bytes) * 8) \div 3 /\ Unpack(bytes, 3)[c] = normal[c]
    BY Zenon, <1>4, <1>6, <1>9, <2>1, <2>2, UnpackIs
  <2>. QED  BY Zenon, <1>6, <1>7, <2>3, UnpacksByBits
<1>. QED  BY Zenon, <1>7, <1>9 DEF CodesFound, normal, bytes, n, m

\* With the codes of all items, those are found.
LEMMA BitsFound ==
    ASSUME NEW items \in Seq(Item), NEW alg, NEW C, NEW l3, NEW l5, Packed(items, alg, C, l3, l5),
           NEW input, NEW k, Starts(input, C, k), k >= 4 + l3, items # <<>>
    PROVE  UpToItem(UnpackInt3Array(SubSeq(input, 5, Len(input))), Len(items)) = AllBits(items).normal
<1>. DEFINE normal == AllBits(items).normal
            codes == UnpackInt3Array(SubSeq(input, 5, Len(input)))
            n == Len(normal)
<1>1. /\ normal \in Seq(0 .. 7) /\ Cardinality(Positions(normal, 0)) = Len(items)
      /\ normal # <<>> /\ normal[n] = 0
  BY Zenon, AllBitsIs DEF Collection, Paired, Ended
<1>2. l3 \in Nat /\ l3 = PackedSize(n, 3) /\ k \in Nat
  BY Zenon DEF Packed, Starts
<1>. HIDE DEF normal, codes
<1>3. normal \in Seq(Int) /\ n \in Nat \ {0}
  <2>1. 7 \in Int
    OBVIOUS
  <2>2. normal \in Seq(Int)
    BY Zenon, <1>1, <2>1, IntsAre
  <2>. QED  BY <1>1, <2>2
<1>. HIDE DEF n
<1>4. k >= 4
  BY <1>2
<1>5. /\ codes \in Seq(Int)
      /\ \A c \in 1 .. n : c * 3 <= 8 * (k - 4) => c <= Len(codes) /\ codes[c] = normal[c]
  BY Zenon, <1>4, CodesAre DEF CodesFound, normal, codes, n
<1>6. ASSUME NEW c \in 1 .. n PROVE c * 3 <= 8 * (k - 4)
  <2>1. c * 3 <= 8 * l3
    BY <1>2, <1>3, PackedSizes
  <2>. QED  BY <1>2, <1>3, <2>1
<1>7. /\ \A c \in 1 .. n : codes[c] = normal[c]
      /\ n <= Len(codes)
  <2>1. n \in 1 .. n
    BY <1>3
  <2>. QED  BY Zenon, <1>5, <1>6, <2>1
<1>8. UpToItem(codes, Cardinality(Positions(normal, 0))) = normal
  BY Zenon, <1>1, <1>3, <1>5, <1>7, UpToItemFinds DEF n
<1>. QED  BY Zenon, <1>1, <1>8 DEF normal, codes

\* What decompressing finds on its way.
Decompresses(input, header, bits, end, found) ==
    /\ header = DecompressHeader(input)
    /\ bits = UpToItem(UnpackInt3Array(SubSeq(input, 5, Len(input))), header.size)
    /\ end = (4 + PackedSize(Len(bits), 3)) + PackedSize(Cardinality(Positions(bits, 7)), 5)
    /\ found = UnpackInt5Array(SubSeq(input, (4 + PackedSize(Len(bits), 3)) + 1, end))
    /\ Decompress(input) =
         IF ~header.ok \/ ~(Cardinality(Positions(bits, 0)) = header.size) \/ Len(input) < end
           THEN Failed
           ELSE [header EXCEPT !.fingerprint = UnpackBits(Distances(bits, found))]

LEMMA DecompressIs ==
    ASSUME NEW input
    PROVE  \E header, bits, end, found : Decompresses(input, header, bits, end, found)
<1>. DEFINE header == DecompressHeader(input)
            bits == UpToItem(UnpackInt3Array(SubSeq(input, 5, Len(input))), header.size)
            end == (4 + PackedSize(Len(bits), 3)) + PackedSize(Cardinality(Positions(bits, 7)), 5)
            found == UnpackInt5Array(SubSeq(input, (4 + PackedSize(Len(bits), 3)) + 1, end))
<1>1. Decompress(input) =
         IF ~header.ok \/ ~(Cardinality(Positions(bits, 0)) = header.size) \/ Len(input) < end
           THEN Failed
           ELSE [header EXCEPT !.fingerprint = UnpackBits(Distances(bits, found))]
  BY Zenon DEF Decompress, FoundEnough, Distances, Place, kMaxNormalValue
<1>2. Decompresses(input, header, bits, end, found)
  BY Zenon, <1>1 DEF Decompresses
<1>. HIDE DEF header, bits, end, found
<1>. QED  BY Zenon, <1>2

\* The distances need no more of the exceptional bits.
LEMMA DistancesSame ==
    ASSUME NEW normal, NEW exceptional, Paired(normal, exceptional), NEW found,
           \A c \in 1 .. Len(exceptional) : found[c] = exceptional[c]
    PROVE  Distances(normal, found) = Distances(normal, exceptional)
<1>. DEFINE e(s, i) == IF i \in Positions(normal, 7) THEN normal[i] + s[Place(normal, 7, i)]
                                                     ELSE normal[i]
<1>1. \A i \in Positions(normal, 7) : Place(normal, 7, i) \in 1 .. Len(exceptional)
  BY Zenon, PlaceIs
<1>2. ASSUME NEW i PROVE e(found, i) = e(exceptional, i)
  BY Zenon, <1>1
<1>3. \A s : Distances(normal, s) = [i \in DOMAIN normal |-> e(s, i)]
  BY Zenon DEF Distances, kMaxNormalValue
<1>4. [i \in DOMAIN normal |-> e(found, i)] = [i \in DOMAIN normal |-> e(exceptional, i)]
  <2>. HIDE DEF e
  <2>. QED  BY <1>2
<1>. QED  BY Zenon, <1>3, <1>4

\* The exceptional bits in the bytes behind the codes.
ExceptionalIn(found, exceptional) == \A c \in 1 .. Len(exceptional) : found[c] = exceptional[c]

LEMMA ExceptionalFound ==
    ASSUME NEW items \in Seq(Item), NEW alg, NEW C, NEW l3, NEW l5, Packed(items, alg, C, l3, l5),
           NEW input, Starts(input, C, Len(C))
    PROVE  ExceptionalIn(UnpackInt5Array(SubSeq(input, (4 + l3) + 1, (4 + l3) + l5)),
                         AllBits(items).exceptional)
<1>. DEFINE exceptional == AllBits(items).exceptional
            b == Pack(exceptional, 5)
            n == Len(exceptional)
            bytes == SubSeq(input, (4 + l3) + 1, (4 + l3) + l5)
<1>1. /\ input \in Seq(Byte) /\ Len(C) <= Len(input)
      /\ \A i \in 1 .. Len(C) : input[i] = C[i]
  BY Zenon DEF Starts
<1>2. /\ l3 \in Nat /\ l5 \in Nat /\ l5 = Len(b) /\ l5 = PackedSize(n, 5) /\ Len(C) = 4 + l3 + l5
      /\ \A i \in 1 .. l5 : C[4 + l3 + i] = b[i]
  BY Zenon DEF Packed, Framed
<1>3. exceptional \in Seq(0 .. 31)
  BY Zenon, AllBitsIs DEF Collection, Paired
<1>4. n \in Nat
  BY <1>3
<1>. HIDE DEF exceptional, b, n
<1>5. Cut(bytes, input, 4 + l3, l5)
  <2>. DEFINE i == 4 + l3
  <2>1. i \in Nat /\ i + l5 <= Len(input)
    <3>1. Len(input) \in Nat
      BY <1>1
    <3>. QED  BY <1>1, <1>2, <3>1
  <2>. HIDE DEF i
  <2>2. Cut(SubSeq(input, i + 1, i + l5), input, i, l5)
    BY <1>1, <1>2, <2>1, CutIs
  <2>. QED  BY Zenon, <2>2 DEF i
<1>6. /\ bytes \in Seq(Byte) /\ Len(bytes) = l5
      /\ \A j \in 1 .. l5 : bytes[j] = input[(4 + l3) + j]
  BY Zenon, <1>5 DEF Cut
<1>7. \A j \in 1 .. l5 : bytes[j] = b[j]
  <2>1. \A j \in 1 .. l5 : 4 + l3 + j \in 1 .. Len(C)
    BY <1>2
  <2>. QED  BY Zenon, <1>1, <1>2, <1>6, <2>1
<1>. HIDE DEF bytes
<1>8. 5 \in {3, 5} /\ exceptional \in Seq(Small(5)) /\ l5 <= Len(bytes)
  <2>1. Small(5) = 0 .. 31
    BY DEF Small
  <2>. QED  BY <1>2, <1>3, <1>6, <2>1
<1>10. \A j \in 1 .. l5 : j <= PackedSize(Len(exceptional), 5) => bytes[j] = Pack(exceptional, 5)[j]
  BY Zenon, <1>7 DEF b
<1>11. ASSUME NEW c \in 1 .. n PROVE Unpack(bytes, 5)[c] = exceptional[c]
  <2>1. c * 5 <= 8 * l5
    BY <1>2, <1>4, PackedSizes
  <2>2. c \in 1 .. Len(exceptional)
    BY Zenon DEF n
  <2>. QED  BY Zenon, <1>2, <1>6, <1>8, <1>10, <2>1, <2>2, UnpackIs
<1>. QED  BY Zenon, <1>6, <1>11, UnpacksByBits DEF bytes, exceptional, n, ExceptionalIn

\* What a fingerprint decompresses to.
Whole(items, alg) ==
    [ok |-> TRUE, size |-> Len(items), algorithm |-> alg, fingerprint |-> items]

\* The whole fingerprint decompresses, also with something after it.
LEMMA WholeDecompresses ==
    ASSUME NEW items \in Seq(Item), Len(items) < 2^24, NEW alg \in 0 .. 127,
           NEW C, NEW l3, NEW l5, Packed(items, alg, C, l3, l5),
           NEW input, Starts(input, C, Len(C)), items # <<>> \/ Len(input) = Len(C)
    PROVE  Decompress(input) = Whole(items, alg)
<1>. DEFINE normal == AllBits(items).normal
            exceptional == AllBits(items).exceptional
            codes == UnpackInt3Array(SubSeq(input, 5, Len(input)))
<1>0. PICK header, bits, end, found : Decompresses(input, header, bits, end, found)
  BY Zenon, DecompressIs
<1>1. /\ Paired(normal, exceptional)
      /\ Cardinality(Positions(normal, 0)) = Len(items)
      /\ items = <<>> => normal = <<>> /\ exceptional = <<>>
      /\ UnpackBits(Distances(normal, exceptional)) = items
  BY Zenon, AllBitsIs DEF Collection
<1>2. /\ l3 \in Nat /\ l5 \in Nat /\ l3 = PackedSize(Len(normal), 3)
      /\ l5 = PackedSize(Len(exceptional), 5) /\ Len(C) = 4 + l3 + l5
  BY Zenon DEF Packed
<1>3. Len(C) >= 4 /\ Len(C) >= 4 + l3
  BY <1>2
<1>4. header = [ok |-> TRUE, size |-> Len(items), algorithm |-> alg, fingerprint |-> <<>>]
  BY Zenon, <1>0, <1>3, HeaderIs DEF Decompresses
<1>5. header.ok /\ header.size = Len(items)
  BY <1>4
<1>6. bits = normal
  <2>1. CASE items # <<>>
    <3>1. UpToItem(codes, Len(items)) = normal
      BY Zenon, <1>3, <2>1, BitsFound
    <3>. QED  BY Zenon, <1>0, <1>5, <3>1 DEF Decompresses
  <2>2. CASE items = <<>>
    <3>1. normal = <<>> /\ Len(normal) = 0 /\ Len(exceptional) = 0 /\ 0 \in Nat
      BY <1>1, <2>2
    <3>2. l3 = 0 /\ l5 = 0
      BY <1>2, <3>1, PackedSizes
    <3>3. Len(input) = 4
      BY <1>2, <2>2, <3>2
    <3>4. CodesFound(codes, input, normal, Len(C))
      BY Zenon, <1>3, CodesAre
    <3>. DEFINE l == ((Len(input) - 4) * 8) \div 3
    <3>5. codes \in Seq(Int) /\ Len(codes) = l
      BY Zenon, <3>4 DEF CodesFound
    <3>6. l = 0
      BY <3>3
    <3>. HIDE DEF codes, l
    <3>7. codes = <<>>
      BY <3>5, <3>6
    <3>8. Positions(codes, 0) = {}
      BY <3>7 DEF Positions
    <3>9. UpToItem(codes, header.size) = codes
      BY Zenon, <3>8 DEF UpToItem
    <3>10. bits = UpToItem(codes, header.size)
      BY Zenon, <1>0 DEF Decompresses, codes
    <3>. QED  BY Zenon, <3>1, <3>7, <3>9, <3>10
  <2>. QED  BY <2>1, <2>2
<1>7. Cardinality(Positions(normal, 7)) = Len(exceptional)
  BY Zenon, <1>1 DEF Paired
<1>8. /\ end = (4 + l3) + l5
      /\ found = UnpackInt5Array(SubSeq(input, (4 + l3) + 1, (4 + l3) + l5))
  BY Zenon, <1>0, <1>2, <1>6, <1>7 DEF Decompresses
<1>9. Decompress(input) =
        IF ~header.ok \/ ~(Cardinality(Positions(bits, 0)) = header.size) \/ Len(input) < end
          THEN Failed
          ELSE [header EXCEPT !.fingerprint = UnpackBits(Distances(bits, found))]
  BY Zenon, <1>0 DEF Decompresses
<1>10. ~(Len(input) < end)
  <2>1. Len(C) <= Len(input) /\ Len(input) \in Nat
    BY DEF Starts
  <2>. QED  BY <1>2, <1>8, <2>1
<1>11. Distances(bits, found) = Distances(normal, exceptional)
  <2>1. \A c \in 1 .. Len(exceptional) : found[c] = exceptional[c]
    <3>1. ExceptionalIn(UnpackInt5Array(SubSeq(input, (4 + l3) + 1, (4 + l3) + l5)), exceptional)
      BY Zenon, ExceptionalFound
    <3>2. ExceptionalIn(found, exceptional)
      BY Zenon, <1>8, <3>1
    <3>. QED  BY Zenon, <3>2 DEF ExceptionalIn
  <2>. QED  BY Zenon, <1>1, <1>6, <2>1, DistancesSame
<1>12. Decompress(input) = [header EXCEPT !.fingerprint = items]
  BY Zenon, <1>1, <1>5, <1>6, <1>9, <1>10, <1>11
<1>. QED  BY <1>4, <1>12 DEF Whole

\* Less than the whole fingerprint does not.
LEMMA PartFails ==
    ASSUME NEW items \in Seq(Item), Len(items) < 2^24, NEW alg \in 0 .. 127,
           NEW C, NEW l3, NEW l5, Packed(items, alg, C, l3, l5),
           NEW input, Starts(input, C, Len(input)), Len(input) < Len(C)
    PROVE  Decompress(input) = Failed
<1>. DEFINE normal == AllBits(items).normal
            exceptional == AllBits(items).exceptional
            codes == UnpackInt3Array(SubSeq(input, 5, Len(input)))
            k == Len(input)
<1>0. PICK header, bits, end, found : Decompresses(input, header, bits, end, found)
  BY Zenon, DecompressIs
<1>1. /\ Paired(normal, exceptional) /\ normal \in Seq(0 .. 7)
      /\ Cardinality(Positions(normal, 0)) = Len(items)
      /\ items = <<>> => normal = <<>> /\ exceptional = <<>>
      /\ items # <<>> => normal # <<>> /\ normal[Len(normal)] = 0
  BY Zenon, AllBitsIs DEF Collection, Paired, Ended
<1>2. /\ l3 \in Nat /\ l5 \in Nat /\ l3 = PackedSize(Len(normal), 3)
      /\ l5 = PackedSize(Len(exceptional), 5) /\ Len(C) = 4 + l3 + l5
  BY Zenon DEF Packed
<1>3. k \in Nat /\ k < 4 + l3 + l5
  <2>1. k \in Nat
    BY DEF Starts
  <2>. QED  BY Zenon, <1>2, <2>1
<1>4. Decompress(input) =
        IF ~header.ok \/ ~(Cardinality(Positions(bits, 0)) = header.size) \/ k < end
          THEN Failed
          ELSE [header EXCEPT !.fingerprint = UnpackBits(Distances(bits, found))]
  BY Zenon, <1>0 DEF Decompresses
<1>5. CASE k < 4
  <2>1. header = Failed
    BY Zenon, <1>0, <1>5 DEF DecompressHeader, Decompresses
  <2>2. ~header.ok
    BY <2>1 DEF Failed
  <2>. QED  BY Zenon, <1>4, <2>2
<1>6. CASE ~(k < 4)
  <2>1. k >= 4
    BY <1>3, <1>6
  <2>2. header = [ok |-> TRUE, size |-> Len(items), algorithm |-> alg, fingerprint |-> <<>>]
    BY Zenon, <1>0, <2>1, HeaderIs DEF Decompresses
  <2>3. header.size = Len(items)
    BY <2>2
  <2>4. items # <<>>
    <3>. SUFFICES ASSUME items = <<>> PROVE FALSE
      OBVIOUS
    <3>1. Len(normal) = 0 /\ Len(exceptional) = 0 /\ 0 \in Nat
      BY <1>1
    <3>2. l3 = 0 /\ l5 = 0
      BY <1>2, <3>1, PackedSizes
    <3>. HIDE DEF k
    <3>. QED  BY <1>3, <2>1, <3>2
  <2>5. CASE k >= 4 + l3
    <3>1. bits = normal
      <4>1. UpToItem(codes, Len(items)) = normal
        BY Zenon, <2>4, <2>5, BitsFound
      <4>. QED  BY Zenon, <1>0, <2>3, <4>1 DEF Decompresses
    <3>2. Cardinality(Positions(normal, 7)) = Len(exceptional)
      BY Zenon, <1>1 DEF Paired
    <3>3. end = 4 + l3 + l5
      BY Zenon, <1>0, <1>2, <3>1, <3>2 DEF Decompresses
    <3>. QED  BY Zenon, <1>3, <1>4, <3>3
  <2>6. CASE ~(k >= 4 + l3)
    <3>1. CodesFound(codes, input, normal, k)
      BY Zenon, <2>1, CodesAre
    <3>. DEFINE m == k - 4
                n == Len(normal)
    <3>2. /\ codes \in Seq(Int) /\ Len(codes) = (m * 8) \div 3
          /\ \A c \in 1 .. n : c * 3 <= 8 * m => codes[c] = normal[c]
      BY Zenon, <3>1 DEF CodesFound
    <3>3. normal \in Seq(Int) /\ n \in Nat
      <4>1. 7 \in Int
        OBVIOUS
      <4>2. normal \in Seq(Int)
        BY Zenon, <1>1, <4>1, IntsAre
      <4>. HIDE DEF normal
      <4>. QED  BY <4>2
    <3>. HIDE DEF k, n, codes
    <3>4. m \in Nat /\ m < l3
      BY <1>2, <1>3, <2>1, <2>6
    <3>. HIDE DEF m
    <3>. DEFINE l == (m * 8) \div 3
    <3>5. l < n /\ l * 3 <= 8 * m
      <4>1. l3 = PackedSize(n, 3)
        BY Zenon, <1>2 DEF n
      <4>. QED  BY <3>3, <3>4, <4>1, PackedSizes
    <3>6. l \in Nat
      BY <3>4
    <3>. HIDE DEF l
    <3>7. \A c \in 1 .. l : codes[c] = normal[c]
      <4>1. \A c \in 1 .. l : c \in 1 .. n /\ c * 3 <= 8 * m
        BY <3>3, <3>4, <3>5, <3>6
      <4>. QED  BY Zenon, <3>2, <4>1
    <3>8. Len(codes) = l
      BY Zenon, <3>2 DEF l
    <3>9. /\ Cardinality(Positions(codes, 0)) # Cardinality(Positions(normal, 0))
          /\ UpToItem(codes, Cardinality(Positions(normal, 0))) = codes
      BY Zenon, <1>1, <2>4, <3>2, <3>3, <3>5, <3>7, <3>8, UpToItemMisses DEF n
    <3>10. bits = codes
      BY Zenon, <1>0, <1>1, <2>3, <3>9 DEF Decompresses, codes
    <3>. QED  BY Zenon, <1>1, <1>4, <2>3, <3>9, <3>10
  <2>. QED  BY <2>5, <2>6
<1>. QED  BY <1>5, <1>6

-----------------------------------------------------------------------------
(* The codec: fingerprints of every length.                                *)

\* chromaprint_decode_fingerprint gives back what chromaprint_encode_fingerprint
\* was given, with Base64 and without, and whatever follows the bytes of a
\* fingerprint that has items.
THEOREM DecodeInvertsEncode ==
    ASSUME NEW items \in Seq(Item), Len(items) < 2^24, NEW alg \in 0 .. 127
    PROVE  /\ \A base64 \in BOOLEAN : Decode(Encode(items, alg, base64), base64) = Whole(items, alg)
           /\ items # <<>> =>
                \A more \in Seq(Byte) : Decode(Compress(items, alg) \o more, FALSE) = Whole(items, alg)
<1>. DEFINE C == Compress(items, alg)
<1>0. alg \in Nat
  OBVIOUS
<1>1. PICK l3, l5 : Packed(items, alg, C, l3, l5)
  BY Zenon, <1>0, CompressIs
<1>2. C \in Seq(Byte) /\ Len(C) \in Nat
  <2>1. C \in Seq(Byte)
    BY Zenon, <1>1 DEF Packed
  <2>. HIDE DEF C
  <2>. QED  BY <2>1
<1>3. Starts(C, C, Len(C))
  <2>1. Len(C) <= Len(C)
    <3>. HIDE DEF C
    <3>. QED  BY <1>2
  <2>. QED  BY Zenon, <1>2, <2>1 DEF Starts
<1>4. Decompress(C) = Whole(items, alg)
  BY Zenon, <1>1, <1>3, WholeDecompresses
<1>5. Base64Decode(Base64Encode(C)) = C
  <2>. DEFINE m == Base64Size(Len(C))
              text == Base64Encode(C)
  <2>1. m \in Nat /\ m <= m /\ (m * 3) \div 4 = Len(C)
    <3>1. m \in Nat
      <4>. HIDE DEF C
      <4>. QED  BY <1>2 DEF Base64Size
    <3>2. m <= m
      BY <3>1
    <3>. QED  BY Zenon, <1>2, <3>1, <3>2, Base64Sizes
  <2>2. /\ Len(text) = m /\ text \in Seq(SUBSET (0 .. 5))
        /\ Base64Decode(SubSeq(text, 1, m)) = SubSeq(C, 1, (m * 3) \div 4)
    BY Zenon, <1>2, <2>1, Base64Prefix
  <2>. HIDE DEF text, C, m
  <2>3. SubSeq(text, 1, m) = text
    BY <2>2
  <2>4. SubSeq(C, 1, Len(C)) = C
    BY <1>2
  <2>. QED  BY Zenon, <2>1, <2>2, <2>3, <2>4 DEF text
<1>6. \A base64 \in BOOLEAN : Decode(Encode(items, alg, base64), base64) = Whole(items, alg)
  BY Zenon, <1>4, <1>5 DEF Decode, Encode
<1>7. ASSUME items # <<>>, NEW more \in Seq(Byte)
      PROVE  Decode(C \o more, FALSE) = Whole(items, alg)
  <2>. DEFINE input == C \o more
  <2>1. input \in Seq(Byte) /\ Len(input) = Len(C) + Len(more) /\ Concat(input, C, more)
    BY Zenon, <1>2, <1>7, ConcatIs DEF Concat
  <2>. HIDE DEF input, C
  <2>2. Len(C) <= Len(input) /\ Len(C) <= Len(C)
    BY <1>2, <1>7, <2>1
  <2>3. \A i \in 1 .. Len(C) : input[i] = C[i]
    <3>. DEFINE m == Len(C)
                n == Len(more)
    <3>1. Joins(input, C, more, m, n)
      BY Zenon, <1>2, <1>7, <2>1, Joined
    <3>. QED  BY Zenon, <3>1 DEF Joins
  <2>4. Starts(input, C, Len(C))
    BY Zenon, <1>2, <2>1, <2>2, <2>3 DEF Starts
  <2>5. Decompress(input) = Whole(items, alg)
    BY Zenon, <1>1, <1>7, <2>4, WholeDecompresses
  <2>. QED  BY Zenon, <2>5 DEF Decode, input
<1>. QED  BY Zenon, <1>6, <1>7

\* The first bytes of a fingerprint.
LEMMA PrefixStarts ==
    ASSUME NEW C \in Seq(Byte), NEW k \in Nat, k <= Len(C)
    PROVE  Starts(SubSeq(C, 1, k), C, k) /\ Len(SubSeq(C, 1, k)) = k
<1>. DEFINE input == SubSeq(C, 1, k)
<1>1. input \in Seq(Byte) /\ Len(input) = k /\ \A i \in 1 .. k : input[i] = C[i]
  OBVIOUS
<1>. HIDE DEF input
<1>2. k <= Len(input)
  BY <1>1
<1>. QED  BY Zenon, <1>1, <1>2 DEF Starts, input

\* An encoded fingerprint of which anything is missing at the end is refused.
THEOREM TruncatedFails ==
    ASSUME NEW items \in Seq(Item), Len(items) < 2^24, NEW alg \in 0 .. 127,
           NEW base64 \in BOOLEAN, NEW n \in 0 .. Len(Encode(items, alg, base64)) - 1
    PROVE  Decode(SubSeq(Encode(items, alg, base64), 1, n), base64) = Failed
<1>. DEFINE C == Compress(items, alg)
            text == Base64Encode(C)
<1>0. alg \in Nat
  OBVIOUS
<1>1. PICK l3, l5 : Packed(items, alg, C, l3, l5)
  BY Zenon, <1>0, CompressIs
<1>2. C \in Seq(Byte) /\ Len(C) \in Nat
  <2>1. C \in Seq(Byte)
    BY Zenon, <1>1 DEF Packed
  <2>. HIDE DEF C
  <2>. QED  BY <2>1
<1>3. ASSUME NEW k \in Nat, k < Len(C)
      PROVE  Decompress(SubSeq(C, 1, k)) = Failed
  <2>1. k <= Len(C)
    <3>. HIDE DEF C
    <3>. QED  BY <1>2, <1>3
  <2>2. Starts(SubSeq(C, 1, k), C, k) /\ Len(SubSeq(C, 1, k)) = k
    BY Zenon, <1>2, <2>1, PrefixStarts
  <2>. QED  BY Zenon, <1>1, <1>3, <2>2, PartFails
<1>4. CASE base64 = FALSE
  <2>1. Encode(items, alg, base64) = C
    BY Zenon, <1>4 DEF Encode
  <2>. HIDE DEF C
  <2>2. n \in Nat /\ n < Len(C)
    BY <1>2, <2>1
  <2>3. Decompress(SubSeq(C, 1, n)) = Failed
    BY Zenon, <1>3, <2>2
  <2>. QED  BY Zenon, <1>4, <2>1, <2>3 DEF Decode
<1>5. CASE base64 = TRUE
  <2>1. Encode(items, alg, base64) = text
    BY Zenon, <1>5 DEF Encode
  <2>. DEFINE size == Base64Size(Len(C))
              k == (n * 3) \div 4
  <2>2. size \in Nat
    <3>. HIDE DEF C
    <3>. QED  BY <1>2 DEF Base64Size
  <2>3. Len(text) = size
    <3>1. 0 \in Nat /\ 0 <= size
      <4>. HIDE DEF size
      <4>. QED  BY <2>2
    <3>. QED  BY Zenon, <1>2, <3>1, Base64Prefix
  <2>. HIDE DEF C, size, text
  <2>4. n \in Nat /\ n < size /\ n <= size
    BY <2>1, <2>2, <2>3
  <2>5. k \in Nat /\ k < Len(C)
    BY Zenon, <1>2, <2>4, Base64Sizes DEF size
  <2>6. Base64Decode(SubSeq(text, 1, n)) = SubSeq(C, 1, k)
    BY Zenon, <1>2, <2>4, Base64Prefix DEF size, text
  <2>7. Decompress(SubSeq(C, 1, k)) = Failed
    BY Zenon, <1>3, <2>5
  <2>. QED  BY Zenon, <1>5, <2>1, <2>6, <2>7 DEF Decode
<1>. QED  BY <1>4, <1>5

LEMMA WithoutItems ==
    ASSUME NEW items, NEW alg
    PROVE  [Whole(items, alg) EXCEPT !.fingerprint = <<>>] =
              [ok |-> TRUE, size |-> Len(items), algorithm |-> alg, fingerprint |-> <<>>]
<1>1. PICK ok : ok = TRUE
  OBVIOUS
<1>2. Whole(items, alg) = [ok |-> ok, size |-> Len(items), algorithm |-> alg, fingerprint |-> items]
  BY Zenon, <1>1 DEF Whole
<1>. HIDE <1>1
<1>3. [[ok |-> ok, size |-> Len(items), algorithm |-> alg, fingerprint |-> items]
         EXCEPT !.fingerprint = <<>>] =
           [ok |-> ok, size |-> Len(items), algorithm |-> alg, fingerprint |-> <<>>]
  OBVIOUS
<1>. QED  BY Zenon, <1>1, <1>2, <1>3

\* chromaprint_decode_fingerprint_header: four bytes, which six characters
\* are enough for, say as much of the fingerprint as all of it.
THEOREM HeaderOfFirst ==
    ASSUME NEW items \in Seq(Item), Len(items) < 2^24, NEW alg \in 0 .. 127, NEW base64 \in BOOLEAN
    PROVE  DecodeHeader(Encode(items, alg, base64), base64) =
              [Whole(items, alg) EXCEPT !.fingerprint = <<>>]
<1>. DEFINE C == Compress(items, alg)
            encoded == Encode(items, alg, base64)
            m == Min({HeaderLength, Len(encoded)})
            first == SubSeq(encoded, 1, m)
<1>0. alg \in Nat
  OBVIOUS
<1>1. PICK l3, l5 : Packed(items, alg, C, l3, l5)
  BY Zenon, <1>0, CompressIs
<1>2. C \in Seq(Byte) /\ Len(C) \in Nat /\ Len(C) >= 4
  <2>1. C \in Seq(Byte) /\ Len(C) = 4 + l3 + l5 /\ l3 \in Nat /\ l5 \in Nat
    BY Zenon, <1>1 DEF Packed
  <2>. HIDE DEF C
  <2>. QED  BY <2>1
<1>3. ASSUME NEW k \in Nat, k <= Len(C), k >= 4
      PROVE  DecompressHeader(SubSeq(C, 1, k)) =
                [ok |-> TRUE, size |-> Len(items), algorithm |-> alg, fingerprint |-> <<>>]
  <2>1. Starts(SubSeq(C, 1, k), C, k)
    BY Zenon, <1>2, <1>3, PrefixStarts
  <2>. QED  BY Zenon, <1>1, <1>3, <2>1, HeaderIs
<1>4. ASSUME NEW l \in Nat
      PROVE  Min({HeaderLength, l}) = IF l < 6 THEN l ELSE 6
  BY DEF Min, HeaderLength
<1>5. DecodeHeader(encoded, base64) = DecompressHeader(IF base64 THEN Base64Decode(first) ELSE first)
  BY Zenon DEF DecodeHeader
<1>6. DecodeHeader(encoded, base64) =
        [ok |-> TRUE, size |-> Len(items), algorithm |-> alg, fingerprint |-> <<>>]
  <2>1. CASE base64 = FALSE
    <3>1. encoded = C
      BY Zenon, <2>1 DEF Encode
    <3>2. m \in Nat /\ m <= Len(C) /\ m >= 4
      <4>. HIDE DEF C, encoded
      <4>. QED  BY <1>2, <1>4, <3>1
    <3>. QED  BY Zenon, <1>3, <1>5, <2>1, <3>1, <3>2
  <2>2. CASE base64 = TRUE
    <3>. DEFINE size == Base64Size(Len(C))
    <3>1. encoded = Base64Encode(C)
      BY Zenon, <2>2 DEF Encode
    <3>2. size \in Nat /\ 6 <= size
      <4>. HIDE DEF C
      <4>. QED  BY <1>2 DEF Base64Size
    <3>3. Len(Base64Encode(C)) = size
      <4>1. 0 \in Nat /\ 0 <= size
        <5>. HIDE DEF size
        <5>. QED  BY <3>2
      <4>. QED  BY Zenon, <1>2, <4>1, Base64Prefix
    <3>4. m = 6
      <4>. HIDE DEF size, encoded, C
      <4>. QED  BY <1>4, <3>1, <3>2, <3>3
    <3>5. 6 \in Nat /\ (6 * 3) \div 4 = 4 /\ 4 \in Nat /\ 4 <= Len(C) /\ 4 >= 4
      <4>. HIDE DEF C
      <4>. QED  BY <1>2
    <3>6. Base64Decode(SubSeq(Base64Encode(C), 1, 6)) = SubSeq(C, 1, (6 * 3) \div 4)
      BY Zenon, <1>2, <3>2, <3>5, Base64Prefix
    <3>. QED  BY Zenon, <1>3, <1>5, <2>2, <3>1, <3>4, <3>5, <3>6
  <2>. QED  BY <2>1, <2>2
<1>7. [Whole(items, alg) EXCEPT !.fingerprint = <<>>] =
        [ok |-> TRUE, size |-> Len(items), algorithm |-> alg, fingerprint |-> <<>>]
  BY Zenon, WithoutItems
<1>. QED  BY Zenon, <1>6, <1>7

-----------------------------------------------------------------------------
(* The hash.                                                               *)

\* A bit is one in more than half of the items where it is one in more items
\* than it is zero in: a tie is a zero, and rounding half of an odd size down
\* makes no difference.
LEMMA MoreThanHalf ==
    ASSUME NEW items \in Seq(Item), NEW b
    PROVE  Cardinality({i \in DOMAIN items : b \in items[i]}) > Half(Len(items)) <=>
              Cardinality({i \in DOMAIN items : b \in items[i]})
                > Cardinality({i \in DOMAIN items : b \notin items[i]})
<1>. DEFINE n == Len(items)
            S == {i \in 1 .. n : b \in items[i]}
            T == {i \in 1 .. n : b \notin items[i]}
<1>1. n \in Nat /\ DOMAIN items = 1 .. n
  OBVIOUS
<1>. HIDE DEF n
<1>2. IsFiniteSet(1 .. n) /\ Cardinality(1 .. n) = n
  <2>. DEFINE low == 1
  <2>1. low \in Int /\ low = 1 /\ n \in Int
    BY <1>1
  <2>. HIDE DEF low
  <2>. DEFINE count == IF low > n THEN 0 ELSE n - low + 1
  <2>2. IsFiniteSet(low .. n) /\ Cardinality(low .. n) = count
    BY Zenon, <2>1, FS_Interval
  <2>3. count = n
    BY <1>1, <2>1
  <2>. QED  BY Zenon, <2>1, <2>2, <2>3
<1>3. S \in SUBSET (1 .. n) /\ T \in SUBSET (1 .. n) /\ S \cup T = 1 .. n /\ S \cap T = {}
  OBVIOUS
<1>. HIDE DEF S, T
<1>4. IsFiniteSet(S) /\ IsFiniteSet(T)
  BY <1>2, <1>3, FS_Subset
<1>5. Cardinality(S) \in Nat /\ Cardinality(T) \in Nat
  BY <1>4, FS_CardinalityType
<1>6. Cardinality(S) + Cardinality(T) = n
  <2>1. Cardinality(S \cup T) = Cardinality(S) + Cardinality(T) - Cardinality(S \cap T)
    BY <1>4, FS_Union
  <2>2. Cardinality(S \cap T) = 0
    BY <1>3, FS_EmptySet
  <2>. DEFINE s == Cardinality(S)
              t == Cardinality(T)
              c == Cardinality(S \cap T)
  <2>3. s \in Nat /\ t \in Nat /\ c = 0 /\ n = s + t - c
    BY Zenon, <1>2, <1>3, <1>5, <2>1, <2>2
  <2>. HIDE DEF s, t, c
  <2>4. s + t = n
    BY <2>3
  <2>. QED  BY Zenon, <2>4 DEF s, t
<1>7. Cardinality(S) > Half(n) <=> Cardinality(S) > Cardinality(T)
  <2>. DEFINE s == Cardinality(S)
              t == Cardinality(T)
  <2>1. s \in Nat /\ t \in Nat /\ s + t = n
    BY <1>5, <1>6
  <2>. HIDE DEF s, t
  <2>2. s > n \div 2 <=> s > t
    BY <1>1, <2>1
  <2>. QED  BY Zenon, <2>2 DEF s, t, Half
<1>. QED  BY Zenon, <1>1, <1>7 DEF n, S, T

\* simhash.cpp: the hash is the majority of the items, bit by bit.
THEOREM HashIsOfMost ==
    ASSUME NEW items \in Seq(Item)
    PROVE  SimHash(items) = Majority(items)
<1>1. ASSUME NEW b \in 0 .. 31
      PROVE  Counts(items)[b] > Half(Len(items)) <=>
                Cardinality({i \in DOMAIN items : b \in items[i]})
                  > Cardinality({i \in DOMAIN items : b \notin items[i]})
  <2>. DEFINE c(x) == Cardinality({i \in DOMAIN items : x \in items[i]})
  <2>1. Counts(items) = [x \in 0 .. 31 |-> c(x)]
    BY Zenon DEF Counts
  <2>2. Counts(items)[b] = c(b)
    <3>. HIDE DEF c
    <3>. QED  BY <2>1
  <2>. QED  BY Zenon, <2>2, MoreThanHalf
<1>. QED  BY Zenon, <1>1 DEF SimHash, Majority

LEMMA HashOfNone == Majority(<<>>) = {}
<1>1. \A b : {i \in DOMAIN <<>> : b \in <<>>[i]} = {} /\ {i \in DOMAIN <<>> : b \notin <<>>[i]} = {}
  OBVIOUS
<1>2. ~(Cardinality({}) > Cardinality({}))
  BY FS_EmptySet
<1>3. \A b \in 0 .. 31 : ~(Cardinality({i \in DOMAIN <<>> : b \in <<>>[i]})
                              > Cardinality({i \in DOMAIN <<>> : b \notin <<>>[i]}))
  BY Zenon, <1>1, <1>2
<1>. QED  BY Zenon, <1>3 DEF Majority

-----------------------------------------------------------------------------
(* The runs on choices of arguments: every bound.                          *)

Matches == match = Match(<<>>, matched[1], matched[2])

Args ==
    /\ filter \in (0 .. 5) \X Nat \X Nat \X Nat \X Nat
    /\ data \in Seq(Item) /\ Len(data) < 2^24 /\ algorithm \in 0 .. 127
    /\ window \in (Nat \ {0}) \X Nat
    /\ gaussian \in (Nat \ {0}) \X (Nat \ {0})
    /\ matched \in Seq(Item) \X Seq(Item)
    /\ match.segments = <<>> \/ Matches

LEMMA ShortItems == Short \subseteq Seq(Item)
<1>1. Hashed \subseteq Item
  BY DEF Hashed, Item
<1>2. ASSUME NEW n \in 0 .. MaxMatched, NEW s \in [1 .. n -> Hashed] PROVE s \in Seq(Item)
  <2>1. n \in Nat /\ s \in [1 .. n -> Item]
    BY <1>1
  <2>. QED  BY <2>1
<1>. QED  BY <1>2 DEF Short

\* As many items as the header can count.
LEMMA FingerprintItems ==
    ASSUME NEW items \in Fingerprints
    PROVE  items \in Seq(Item) /\ Len(items) < 2^24
<1>1. Items \subseteq Item
  BY DEF Items, Item
<1>2. \A n, first, bits : first \in Item /\ bits \in Item => Toggled(n, first, bits) \in [1 .. n -> Item]
  <2>1. \A first, bits : first \in Item /\ bits \in Item => SymDiff(first, bits) \in Item
    BY DEF SymDiff, Item
  <2>. QED  BY <2>1 DEF Toggled
<1>3. FarApart \subseteq Item /\ {31} \in Item
  BY DEF FarApart, Item
<1>4. \E n \in Nat : n < 2^24 /\ items \in [1 .. n -> Item]
  <2>1. CASE items \in UNION {[1 .. n -> Items] : n \in 0 .. MaxItems}
    BY <1>1, <2>1, MaxItemsAssumption
  <2>2. CASE \E n \in 0 .. MaxToggled, bits \in FarApart :
               items = Toggled(n, bits, bits) \/ items = Toggled(n, {31}, bits)
    <3>1. PICK n \in 0 .. MaxToggled, bits \in FarApart :
             items = Toggled(n, bits, bits) \/ items = Toggled(n, {31}, bits)
      BY <2>2
    <3>2. bits \in Item /\ {31} \in Item
      BY <1>3
    <3>3. items \in [1 .. n -> Item]
      BY ZenonT(60), <1>2, <3>1, <3>2
    <3>. QED  BY <3>1, <3>3, MaxItemsAssumption
  <2>. QED  BY <2>1, <2>2 DEF Fingerprints
<1>. QED  BY <1>4

LEMMA InitArgs == Init => Args
<1>. SUFFICES ASSUME Nothing PROVE Args
  BY DEF Init
<1>1. matched \in Seq(Item) \X Seq(Item)
  <2>1. <<>> \in Seq(Item)
    OBVIOUS
  <2>2. << <<>>, <<>> >> \in Seq(Item) \X Seq(Item)
    BY Zenon, <2>1
  <2>. QED  BY Zenon, <2>2 DEF Nothing
<1>2. data \in Seq(Item) /\ Len(data) < 2^24 /\ algorithm \in 0 .. 127
  <2>1. <<>> \in Seq(Item) /\ Len(<<>>) < 2^24 /\ 0 \in 0 .. 127
    OBVIOUS
  <2>. QED  BY Zenon, <2>1 DEF Nothing
<1>. QED  BY <1>1, <1>2 DEF Nothing, Args

LEMMA StepArgs == Args /\ [Next]_vars => Args'
<1>. SUFFICES ASSUME Args, [Next]_vars PROVE Args'
  OBVIOUS
<1>1. ASSUME ChooseFilter PROVE Args'
  <2>1. filter' \in (0 .. 5) \X Nat \X Nat \X Nat \X Nat
    BY <1>1 DEF ChooseFilter
  <2>2. UNCHANGED <<data, algorithm, window, gaussian, matched, match>>
    BY Zenon, <1>1 DEF ChooseFilter
  <2>. QED  BY SMTT(30), <2>1, <2>2 DEF Args, Matches
<1>2. CASE ChooseFingerprint
  <2>1. /\ data' \in Fingerprints
        /\ algorithm' \in {1, 127}
        /\ UNCHANGED <<filter, window, gaussian, matched, match>>
    BY <1>2 DEF ChooseFingerprint
  <2>2. data' \in Seq(Item) /\ (Len(data) < 2^24)'
    BY <2>1, FingerprintItems
  <2>3. algorithm' \in 0 .. 127
    BY <2>1
  <2>. QED  BY <2>1, <2>2, <2>3 DEF Args, Matches
<1>3. CASE ChooseWindow
  <2>1. window' \in (1 .. MaxSide) \X (0 .. MaxWindow) /\ gaussian' \in (1 .. MaxVariance) \X (1 .. MaxPasses)
    BY Zenon, <1>3 DEF ChooseWindow
  <2>2. window' \in (Nat \ {0}) \X Nat
    BY <2>1
  <2>3. gaussian' \in (Nat \ {0}) \X (Nat \ {0})
    BY <2>1
  <2>4. UNCHANGED <<filter, data, algorithm, matched, match>>
    BY Zenon, <1>3 DEF ChooseWindow
  <2>. QED  BY <2>2, <2>3, <2>4 DEF Args, Matches
<1>4. ASSUME ChooseMatch PROVE Args'
  <2>1. /\ match.segments = <<>>
        /\ match' = Match(match.segments, matched'[1], matched'[2])
        /\ matched' \in (Short \X Short) \cup {Shifted(b, cut) : b \in Blocks, cut \in {0, 7}}
        /\ UNCHANGED <<filter, data, algorithm, window, gaussian>>
    BY <1>4 DEF ChooseMatch, Nothing
  <2>2. matched' \in Seq(Item) \X Seq(Item)
    <3>1. CASE matched' \in Short \X Short
      BY <3>1, ShortItems
    <3>2. CASE matched' \in {Shifted(b, cut) : b \in Blocks, cut \in {0, 7}}
      BY <3>2, BlocksAssumption DEF Item
    <3>. QED  BY <2>1, <3>1, <3>2
  <2>3. Matches'
    BY Zenon, <2>1 DEF Matches
  <2>. QED  BY <2>1, <2>2, <2>3 DEF Args
<1>5. CASE UNCHANGED vars
  BY <1>5 DEF vars, Args, Matches
<1>. QED  BY <1>1, <1>2, <1>3, <1>4, <1>5 DEF Next

LEMMA Arguments == Spec => []Args
BY InitArgs, StepArgs, PTL DEF Spec

\* The parts of each filter tile its rectangle, within any bounds.
THEOREM FiltersTileAlways == Spec => []FiltersTile
<1>1. Args => FiltersTile
  BY FiltersCover DEF Args, FiltersTile
<1>. QED  BY <1>1, Arguments, PTL

\* What is encoded is decoded again, for fingerprints of every number of items
\* that the header has room for.
THEOREM RoundTripAlways == Spec => []RoundTrip
<1>1. ASSUME Args PROVE RoundTrip
  BY ZenonT(60), <1>1, DecodeInvertsEncode DEF Args, RoundTrip, Whole, Decoded
<1>. QED  BY <1>1, Arguments, PTL

\* The first characters say as much as the header of all.
THEOREM HeaderAgreesAlways == Spec => []HeaderAgrees
<1>1. ASSUME Args PROVE HeaderAgrees
  BY <1>1, HeaderOfFirst DEF Args, HeaderAgrees, Whole, Decoded
<1>. QED  BY <1>1, Arguments, PTL

\* No encoded fingerprint that was cut decodes.
THEOREM TruncatedIsRefusedAlways == Spec => []TruncatedIsRefused
<1>1. ASSUME Args PROVE TruncatedIsRefused
  BY <1>1, TruncatedFails DEF Args, TruncatedIsRefused
<1>. QED  BY <1>1, Arguments, PTL

\* What follows a fingerprint makes no difference.
THEOREM TrailingIsIgnoredAlways == Spec => []TrailingIsIgnored
<1>1. ASSUME Args PROVE TrailingIsIgnored
  <2>1. Trailing \subseteq Seq(Byte)
    <3>1. {} \in Byte /\ 0 .. 7 \in Byte /\ {0} \in Byte /\ {7} \in Byte
      BY DEF Byte
    <3>. QED  BY <3>1 DEF Trailing
  <2>. QED  BY <1>1, <2>1, DecodeInvertsEncode DEF Args, TrailingIsIgnored, Whole, Decoded
<1>. QED  BY <1>1, Arguments, PTL

\* The hash of a context is the majority of its items, which the raw and the
\* encoded fingerprint have too.
THEOREM HashIsMajorityAlways == Spec => []HashIsMajority
<1>1. ASSUME Args PROVE HashIsMajority
  <2>1. data \in Seq(Item) /\ Len(data) < 2^24 /\ algorithm \in 0 .. 127
    BY <1>1 DEF Args
  <2>2. Decode(GetFingerprint(data, algorithm), TRUE) = Whole(data, algorithm)
    <3>1. Decode(Encode(data, algorithm, TRUE), TRUE) = Whole(data, algorithm)
      BY Zenon, <2>1, DecodeInvertsEncode
    <3>. QED  BY Zenon, <3>1 DEF GetFingerprint, Encode
  <2>3. SimHash(data) = Majority(data)
    BY Zenon, <2>1, HashIsOfMost
  <2>4. Whole(data, algorithm).fingerprint = data /\ Whole(data, algorithm).size = Len(data)
    BY DEF Whole
  <2>. QED  BY Zenon, <2>2, <2>3, <2>4, HashOfNone DEF HashIsMajority, ViewsAgree,
         GetFingerprintHash, HashFingerprint, GetRawFingerprint, GetRawFingerprintSize
<1>. QED  BY <1>1, Arguments, PTL

\* The sums of the box filter are those of the reflected windows, within any
\* bounds.
THEOREM BoxFilterReflectsAlways == Spec => []BoxFilterReflects
<1>1. Args => BoxFilterReflects
  BY BoxSumsAreReflected DEF Args, BoxFilterReflects
<1>. QED  BY <1>1, Arguments, PTL

\* The widths of the passes are the best choice, within any bounds.
THEOREM PassesAreNearestAlways == Spec => []PassesAreNearest
<1>1. Args => PassesAreNearest
  BY WidthsAreNearest DEF Args, PassesAreNearest
<1>. QED  BY <1>1, Arguments, PTL

\* The histogram counts the pairs of items with equal first bits, for
\* fingerprints within any bounds.
THEOREM HistogramCountsPairsAlways == Spec => []HistogramCountsPairs
<1>1. ASSUME Args PROVE HistogramCountsPairs
  <2>. DEFINE fp1 == matched[1]
              fp2 == matched[2]
              h == Histogram(fp1, fp2)
              m == Len(fp1)
              n == Len(fp2)
              pairs == {p \in (DOMAIN fp1) \X (DOMAIN fp2) :
                          fp1[p[1]] \cap 20 .. 31 = fp2[p[2]] \cap 20 .. 31}
  <2>1. fp1 \in Seq(Item) /\ fp2 \in Seq(Item)
    BY <1>1 DEF Args
  <2>2. /\ m \in Nat /\ n \in Nat /\ DOMAIN fp1 = 1 .. m /\ DOMAIN fp2 = 1 .. n
    BY <2>1
  <2>3. /\ DOMAIN h = 0 .. m + n - 1
        /\ \A d \in DOMAIN h : h[d] = Cardinality(Pairs(fp1, fp2, d))
    BY <2>1, HistogramIsOfPairs
  <2>. HIDE DEF h
  <2>4. ASSUME NEW p \in pairs PROVE Shift(p[1], p[2]) \in DOMAIN h
    <3>1. p[1] \in 1 .. m /\ p[2] \in 1 .. n
      BY <2>2
    <3>2. Shift(p[1], p[2]) = p[1] - p[2] + n
      BY DEF Shift
    <3>. HIDE DEF m, n
    <3>. QED  BY <2>2, <2>3, <3>1, <3>2
  <2>5. ASSUME NEW d \in DOMAIN h
        PROVE  h[d] = Cardinality({p \in pairs : Shift(p[1], p[2]) = d})
    <3>1. {p \in pairs : Shift(p[1], p[2]) = d} = Pairs(fp1, fp2, d)
      BY Zenon DEF Pairs, Shift
    <3>. QED  BY <2>3, <3>1
  <2>. QED  BY Zenon, <2>4, <2>5 DEF HistogramCountsPairs, h
<1>. QED  BY <1>1, Arguments, PTL

\* The segments of a match are on the diagonal of the best shift, for
\* fingerprints within any bounds.
THEOREM BestAlignmentWinsAlways == Spec => []BestAlignmentWins
<1>1. ASSUME Args PROVE BestAlignmentWins
  <2>. DEFINE fp1 == matched[1]
              fp2 == matched[2]
              h == Histogram(fp1, fp2)
              o == OverlapOf(fp1, fp2)
              b == Aligned(fp1, fp2)
  <2>1. fp1 \in Seq(Item) /\ fp2 \in Seq(Item)
    BY <1>1 DEF Args
  <2>2. Len(fp2) \in Nat /\ DOMAIN h \subseteq Int
    <3>. DEFINE N == Len(fp1) + Len(fp2) - 1
    <3>1. DOMAIN h = 0 .. N
      BY <2>1, HistogramIsOfPairs
    <3>2. N \in Int /\ Len(fp2) \in Nat
      BY <2>1
    <3>. HIDE DEF N, h
    <3>. QED  BY <3>1, <3>2
  <2>3. (\E d \in DOMAIN h : h[d] > 1) =>
          /\ b \in DOMAIN h /\ IsPeak(h, b) /\ h[b] > 1 /\ \A e \in DOMAIN h : h[e] <= h[b]
          /\ Overlaps(o) /\ o.offset1 - o.offset2 = b - Len(fp2)
    BY <2>1, AlignmentIsBest
  <2>. HIDE DEF h, o, b
  <2>4. ASSUME NEW s \in Range(match.segments)
        PROVE  LET d == s.pos1 - s.pos2 + Len(fp2)
               IN h[d] > 1 /\ \A e \in DOMAIN h : h[e] <= h[d]
    <3>1. match.segments # <<>>
      BY <2>4 DEF Range
    <3>2. match.segments = Match(<<>>, fp1, fp2).segments
      BY <1>1, <3>1 DEF Args, Matches
    <3>3. /\ \E d \in DOMAIN h : h[d] > 1
          /\ Good(o, BitCounts(fp1, fp2, o), o.size, match.segments)
      BY <2>1, <3>1, <3>2, SegmentsAreGood DEF h, o
    <3>4. PICK k \in DOMAIN match.segments : s = match.segments[k]
      BY DEF Range
    <3>5. Lies(o, o.size, s)
      BY <3>3, <3>4 DEF Good
    <3>6. /\ s.pos1 \in Nat /\ s.pos2 \in Nat /\ s.pos1 - s.pos2 = o.offset1 - o.offset2
      BY <3>5 DEF Lies, Segment
    <3>7. b \in Int /\ h[b] > 1 /\ o.offset1 - o.offset2 = b - Len(fp2)
      BY <2>2, <2>3, <3>3
    <3>8. s.pos1 - s.pos2 + Len(fp2) = b
      BY <2>2, <3>6, <3>7
    <3>. QED  BY <2>3, <3>3, <3>8
  <2>5. (\E d \in DOMAIN h : h[d] > 1) => \E d \in DOMAIN h : IsPeak(h, d)
    BY <2>3
  <2>. QED  BY Zenon, <2>4, <2>5 DEF BestAlignmentWins, h
<1>. QED  BY <1>1, Arguments, PTL

\* The segments of a match lie in both fingerprints, in order, and cover an
\* overlap of near items, for fingerprints within any bounds.
THEOREM SegmentsTileAlways == Spec => []SegmentsTile
<1>1. ASSUME Args PROVE SegmentsTile
  <2>. DEFINE fp1 == matched[1]
              fp2 == matched[2]
              o == OverlapOf(fp1, fp2)
              bit_counts == BitCounts(fp1, fp2, o)
              segments == match.segments
              near == {i \in 1 .. o.size : bit_counts[i] < 10}
              m == Len(fp1)
              n == Len(fp2)
  <2>1. fp1 \in Seq(Item) /\ fp2 \in Seq(Item) /\ m \in Nat /\ n \in Nat
    BY SMTT(30), <1>1 DEF Args
  <2>2. o = Overlap(fp1, fp2, BestAlignment(Histogram(fp1, fp2)))
    BY Zenon DEF OverlapOf, Aligned
  <2>3. CASE segments = <<>>
    BY <2>3 DEF SegmentsTile
  <2>4. CASE segments # <<>>
    <3>1. segments = Match(<<>>, fp1, fp2).segments
      BY <1>1, <2>4 DEF Args, Matches
    <3>2. /\ \E d \in DOMAIN Histogram(fp1, fp2) : Histogram(fp1, fp2)[d] > 1
          /\ Good(o, bit_counts, o.size, segments)
      BY <2>1, <2>4, <3>1, SegmentsAreGood
    <3>3. Overlaps(o) /\ o.offset1 + o.size <= m /\ o.offset2 + o.size <= n
      BY <2>1, <3>2, AlignmentIsBest
    <3>. HIDE DEF o, bit_counts, m, n
    <3>4. o.offset1 \in Nat /\ o.offset2 \in Nat /\ o.size \in Nat /\ o.size > 0
      BY <3>3 DEF Overlaps
    <3>5. ASSUME NEW k \in DOMAIN segments
          PROVE  /\ segments[k].duration > 0
                 /\ EndOf(segments[k]) <= m
                 /\ segments[k].pos2 + segments[k].duration <= n
                 /\ k > 1 => EndOf(segments[k - 1]) <= segments[k].pos1
      <4>. DEFINE s == segments[k]
      <4>1. Lies(o, o.size, s) /\ (k > 1 => EndOf(segments[k - 1]) <= s.pos1)
        BY <3>2 DEF Good, InOrder
      <4>. HIDE DEF s
      <4>2. /\ s.pos1 \in Nat /\ s.pos2 \in Nat /\ s.duration \in Nat /\ s.duration > 0
            /\ s.pos1 - s.pos2 = o.offset1 - o.offset2
            /\ s.pos1 + s.duration <= o.offset1 + o.size
        BY <4>1 DEF Lies, Segment, EndOf
      <4>3. s.pos1 + s.duration <= m /\ s.pos2 + s.duration <= n
        BY SMTT(30), <2>1, <3>3, <3>4, <4>2
      <4>. QED  BY <4>1, <4>2, <4>3 DEF EndOf, s
    <3>6. ASSUME near = 1 .. o.size
          PROVE  Covers(o, o.size, segments)
      <4>1. AllNear(bit_counts, 0, o.size)
        BY <3>6 DEF AllNear
      <4>. QED  BY <3>2, <3>4, <4>1 DEF Good
    <3>7. near # {}
      BY <2>4, <3>2 DEF Good, SomeNear
    <3>8. /\ \A k \in DOMAIN segments :
               /\ segments[k].duration > 0
               /\ segments[k].pos1 + segments[k].duration <= m
               /\ segments[k].pos2 + segments[k].duration <= n
               /\ k > 1 => segments[k - 1].pos1 + segments[k - 1].duration <= segments[k].pos1
      BY Zenon, <3>5 DEF EndOf
    <3>9. near = 1 .. o.size =>
            /\ segments[1].pos1 = o.offset1
            /\ segments[Len(segments)].pos1 + segments[Len(segments)].duration = o.offset1 + o.size
            /\ \A k \in 2 .. Len(segments) :
                 segments[k - 1].pos1 + segments[k - 1].duration = segments[k].pos1
      BY Zenon, <3>6 DEF EndOf, Covers
    <3>10. near = {i \in 1 .. o.size : bit_counts[i] < kDefaultMatchThreshold}
      BY DEF kDefaultMatchThreshold
    <3>. HIDE DEF near
    <3>. QED  BY Zenon, <2>2, <3>7, <3>8, <3>9, <3>10 DEF SegmentsTile, m, n, bit_counts
  <2>. QED  BY <2>3, <2>4
<1>. QED  BY <1>1, Arguments, PTL
=============================================================================
