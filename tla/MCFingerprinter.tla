-------------------------- MODULE MCFingerprinter --------------------------
(* Frames of 5 samples that overlap by 3, sums of 2 frames, items of 2 sums:
   the first item takes 9 samples, each further one 2; streams of all lengths
   up to 24, also after other streams. *)
EXTENDS Fingerprinter
=============================================================================
