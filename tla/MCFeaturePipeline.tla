-------------------------- MODULE MCFeaturePipeline --------------------------
(* A ring of 4 for sums over 3 vectors, and an image that keeps 4 + 1 rows of 2
   cells with a classifier as wide as the constructor allows.  Vectors are
   consumed until the ring and the image have wrapped, and a start finds them
   in each state.

   The image only adds and subtracts, so rows whose cells are different powers
   of two tell all sums of cells apart. *)
EXTENDS FeaturePipeline

MCClassifiers ==
    << [type |-> 2, y |-> 0, height |-> 2, width |-> 3],
       [type |-> 3, y |-> 0, height |-> 2, width |-> 2] >>

MCWeighted(sum) == [c \in 0 .. 1 |-> 2 ^ (2 * sum[1] + c)]
=============================================================================
