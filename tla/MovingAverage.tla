---------------------------- MODULE MovingAverage ----------------------------
(***************************************************************************)
(* src/src/moving_average.h: MovingAverage<int16_t>, the average of the    *)
(* last WINDOW values kept in a ring with a running sum.  A value has      *)
(* HALF * 2 possible values, as int16_t has 2 ^ 16.                        *)
(***************************************************************************)
EXTENDS Integers

CONSTANTS
    WINDOW,    \* m_size
    HALF       \* 2 ^ (width - 1): values are in -HALF .. HALF - 1

ASSUME WindowAssumption == WINDOW \in Nat \ {0} /\ HALF \in Nat \ {0}

\* Conversion to the value type keeps the low bits.
Wrap(x) == ((x + HALF) % (2 * HALF)) - HALF

\* Integer division of C truncates toward zero.
CDiv(x, y) == IF x >= 0 THEN x \div y ELSE -((-x) \div y)

NewAverage ==
    [ring |-> [i \in 0 .. WINDOW - 1 |-> 0], offset |-> 0, sum |-> 0, count |-> 0]

\* The slot of the next value, which is then the oldest one.
NextSlot(slot) == (slot + 1) % WINDOW

\* The sum loses the value that the new one replaces.
SumAllValues(m, x) == m.sum + x
NewSum(m, x) == m.sum + x - m.ring[m.offset]

AddValue(m, x) ==
    [ ring   |-> [m.ring EXCEPT ![m.offset] = x],
      offset |-> NextSlot(m.offset),
      sum    |-> NewSum(m, x),
      count  |-> IF m.count < WINDOW THEN m.count + 1 ELSE m.count ]

GetAverage(m) == IF m.count = 0 THEN 0 ELSE Wrap(CDiv(m.sum, m.count))
=============================================================================
