--------------------------- MODULE FeaturePipeline ---------------------------
(***************************************************************************)
(* src/src/fingerprinter.cpp: the second half of the pipeline,             *)
(*                                                                         *)
(*   ChromaFilter -> ChromaNormalizer -> FingerprintCalculator             *)
(*                                                                         *)
(* A vector of features that completes a sum makes the filter call the     *)
(* calculator, which adds a row to its image.  ChromaNormalizer keeps      *)
(* nothing and changes each row alone.                                     *)
(***************************************************************************)
EXTENDS ChromaFilter

CONSTANTS
    MAX_ROWS, COLUMNS, Classifiers,    \* see FingerprintCalculator
    Weighted(_)    \* the row that comes of a sum, given as its vectors

VARIABLES
    image, fingerprint, rows, cleared    \* see FingerprintCalculator

Calculator == INSTANCE FingerprintCalculator WITH MaxTotal <- MaxStream

ASSUME CalculatorAssumption ==
    /\ Calculator!ImageAssumption
    /\ Calculator!WidthAssumption
    /\ Calculator!ClassifiersAssumption

\* What comes of a sum, of the vectors after the v-th, is a row of the image.
ASSUME RowAssumption ==
    /\ MaxStream \in Nat
    /\ \A v \in 0 .. MaxStream :
          Weighted([j \in 1 .. LENGTH |-> v + j]) \in [0 .. COLUMNS - 1 -> Int]

calculator == <<image, fingerprint, rows, cleared>>
pipeline == <<vars, calculator>>

PipelineInit == Init /\ Calculator!Init

\* What Fingerprinter::Start does to the two.
StartResetsFilter == Reset /\ UNCHANGED calculator
Start == Reset /\ Calculator!Reset

ConsumeVector ==
    /\ Consume
    /\ IF results' > results
         THEN Calculator!Consume(Weighted(result'))
         ELSE UNCHANGED calculator

ClearFingerprint ==
    /\ Calculator!ClearFingerprint
    /\ UNCHANGED vars

PipelineNext == Start \/ ConsumeVector \/ ClearFingerprint

PipelineSpec == PipelineInit /\ [][PipelineNext]_pipeline

-----------------------------------------------------------------------------
\* fingerprinter_configuration.h, delay(): the k-th item of a stream is made
\* of exactly the LENGTH + width - 1 vectors from its k-th on, and is there
\* with the last of them: neither stage holds back more, and neither brings
\* along a vector from before the last start.
RowsOfStream ==
    LET vectors == consumed - base
        held == LENGTH - 1 + Calculator!MaxFilterWidth - 1
    IN /\ rows = [k \in 1 .. results |-> Weighted([j \in 1 .. LENGTH |-> base + k - 1 + j])]
       /\ Len(cleared \o fingerprint) = IF vectors < held THEN 0 ELSE vectors - held

\* The properties of the calculator, on the rows that the filter gives it.
ItemsOfWholeStream == Calculator!ItemsOfWholeStream
AreaIsSum == Calculator!AreaIsSum
AssertionsHold == Calculator!AssertionsHold
=============================================================================
