--------------------------- MODULE MCAudioSlicer ---------------------------
(* AudioSlicer on frames of 5 samples, 2 apart.  Every chunk length up to 7
   reaches each branch: 5 is not a multiple of 2, so the buffer runs through
   every size from 0 to 4 and the compaction happens at several places. *)
EXTENDS AudioSlicer
=============================================================================
