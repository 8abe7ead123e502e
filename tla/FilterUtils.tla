----------------------------- MODULE FilterUtils -----------------------------
(***************************************************************************)
(* src/src/filter_utils.h and filter.h: the six filters of a classifier.   *)
(* Each compares the sum a of some cells of a rectangle of the image with  *)
(* the sum b of its other cells.  The comparison, a logarithm of doubles,  *)
(* is left out: the value of a filter is the pair of the two sums.         *)
(*                                                                         *)
(* A rectangle is <<r1, c1, r2, c2>>; Rectangles gives the ones that add   *)
(* to a and to b.                                                          *)
(***************************************************************************)
EXTENDS Integers

ThirdRoundedUp(n) == (n + 2) \div 3
Third(n) == n \div 3

\* Filter0 .. Filter5 at row x, on h columns from y and w rows.
Rectangles(type, x, y, w, h) ==
    LET w2 == w \div 2
        h2 == h \div 2
        w3 == Third(w)
        h3 == Third(h)
    IN CASE type = 0 -> << {<<x, y, x + w, y + h>>}, {} >>
         [] type = 1 -> << {<<x, y + h2, x + w, y + h>>},
                           {<<x, y, x + w, y + h2>>} >>
         [] type = 2 -> << {<<x + w2, y, x + w, y + h>>},
                           {<<x, y, x + w2, y + h>>} >>
         [] type = 3 -> << {<<x, y + h2, x + w2, y + h>>, <<x + w2, y, x + w, y + h2>>},
                           {<<x, y, x + w2, y + h2>>, <<x + w2, y + h2, x + w, y + h>>} >>
         [] type = 4 -> << {<<x, y + h3, x + w, y + 2 * h3>>},
                           {<<x, y, x + w, y + h3>>, <<x, y + 2 * h3, x + w, y + h>>} >>
         [] type = 5 -> << {<<x + w3, y, x + 2 * w3, y + h>>},
                           {<<x, y, x + w3, y + h>>, <<x + 2 * w3, y, x + w, y + h>>} >>

-----------------------------------------------------------------------------
\* The cells of a rectangle, <<row, column>>.
Cells(rect) == (rect[1] .. rect[3] - 1) \X (rect[2] .. rect[4] - 1)

\* Every cell of the w x h rectangle at (x, y) counts once, either in a or in
\* b, and no cell outside it counts, also where the halves and the thirds of
\* its sides are not whole; no rectangle is turned inside out.
Tiles(type, x, y, w, h) ==
    LET parts == Rectangles(type, x, y, w, h)
        rects == parts[1] \cup parts[2]
    IN /\ \A r \in rects : r[1] <= r[3] /\ r[2] <= r[4]
       /\ UNION {Cells(r) : r \in rects} = Cells(<<x, y, x + w, y + h>>)
       /\ \A r, s \in rects : r # s => Cells(r) \cap Cells(s) = {}
       /\ parts[1] \cap parts[2] \subseteq {r \in rects : Cells(r) = {}}
=============================================================================
