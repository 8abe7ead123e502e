------------------------ MODULE RollingIntegralImage ------------------------
(***************************************************************************)
(* src/src/utils/rolling_integral_image.h: RollingIntegralImage, a         *)
(* summed-area table that keeps only its last rows.  The cells are         *)
(* integers here where the code has doubles.                               *)
(***************************************************************************)
EXTENDS Integers

CONSTANTS
    MAX_ROWS,    \* the constructor's max_rows; one more row is kept
    COLUMNS      \* the length of every row

ImageAssumption == MAX_ROWS \in Nat /\ COLUMNS \in Nat \ {0}

SlotsTooFew == MAX_ROWS - 1
Slots == MAX_ROWS + 1    \* m_max_rows

NoRow == [c \in 0 .. COLUMNS - 1 |-> 0]

NewImage == [data |-> [i \in 0 .. Slots - 1 |-> NoRow], num_rows |-> 0]

GetRow(image, i) == image.data[i % Slots]

\* std::partial_sum
PartialSum(row) ==
    LET sum[c \in 0 .. COLUMNS - 1] == row[c] + (IF c = 0 THEN 0 ELSE sum[c - 1])
    IN sum

AddRow(image, row) ==
    LET sums == PartialSum(row)
        last == IF image.num_rows > 0 THEN GetRow(image, image.num_rows - 1) ELSE NoRow
    IN [ data |-> [image.data EXCEPT ![image.num_rows % Slots] =
                      [c \in 0 .. COLUMNS - 1 |-> sums[c] + last[c]]],
         num_rows |-> image.num_rows + 1 ]

\* Row r may be the first or the last boundary of an area: it was added and,
\* as far as it is needed, not yet overwritten.
BoundaryKeptTooLong(image, r) ==
    r <= image.num_rows /\ (image.num_rows > Slots => r >= image.num_rows - Slots)
BoundaryKept(image, r) ==
    r <= image.num_rows /\ (image.num_rows > Slots => r > image.num_rows - Slots)

\* The assertions of Area on its rows and columns.
AreaAllowed(image, r1, c1, r2, c2) ==
    /\ BoundaryKept(image, r1) /\ BoundaryKept(image, r2)
    /\ c1 <= COLUMNS /\ c2 <= COLUMNS
    /\ (r1 # r2 /\ c1 # c2) => (r1 < r2 /\ c1 < c2)

\* Row r of the table, with a zero row and a zero column before the first.
Corner(image, r, c) ==
    IF r = 0 \/ c = 0 THEN 0 ELSE GetRow(image, r - 1)[c - 1]

\* The sum of the rows r1 .. r2 - 1 in the columns c1 .. c2 - 1.
Area(image, r1, c1, r2, c2) ==
    IF r1 = r2 \/ c1 = c2
      THEN 0
      ELSE Corner(image, r2, c2) - Corner(image, r1, c2)
           - Corner(image, r2, c1) + Corner(image, r1, c1)
=============================================================================
