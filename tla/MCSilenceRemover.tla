-------------------------- MODULE MCSilenceRemover --------------------------
(* SilenceRemover with a window of 2 or 3 samples of 3 bits: -4 .. 3.  The
   streams are longer than the window, so that the ring wraps. *)
EXTENDS SilenceRemover

\* Without -4, whose magnitude does not fit.
MCSamples == {-3, 0, 1, 3}
MCAllSamples == {-4, 0, 3}
=============================================================================
