-------------------------- MODULE MCAudioProcessor --------------------------
(* AudioProcessor with a buffer of 8 frames.  Filters are 3 frames long at
   and above the target rate's period, 6 for the rate 6, so that they fit. *)
EXTENDS AudioProcessor
=============================================================================
