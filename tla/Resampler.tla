----------------------------- MODULE Resampler -----------------------------
(***************************************************************************)
(* src/src/avresample/resample2.c: which source frames av_resample reads   *)
(* for each sample it writes, where it stops and what it keeps for the     *)
(* next call.  The filter coefficients are left out: a sample is the       *)
(* phase of the filter and the frames under its taps.                      *)
(*                                                                         *)
(* The configuration of audio_processor.cpp is built in: no compensation,  *)
(* no linear interpolation, a cutoff of 0.8.                               *)
(***************************************************************************)
EXTENDS Integers, Sequences, FiniteSetsExt

CONSTANTS
    TARGET,        \* output rate, src_incr
    PHASES,        \* 1 << phase_shift
    FILTER_SIZE    \* filter_size

ASSUME ResamplerAssumption ==
    /\ TARGET \in Nat \ {0} /\ PHASES \in Nat \ {0} /\ FILTER_SIZE \in Nat \ {0}

Abs(x) == IF x < 0 THEN -x ELSE x

\* ceil(filter_size / factor), factor = min(0.8 * out_rate / in_rate, 1).
FilterLength(in) ==
    IF 4 * TARGET >= 5 * in
      THEN FILTER_SIZE
      ELSE (5 * in * FILTER_SIZE + 4 * TARGET - 1) \div (4 * TARGET)

\* av_resample_init: index and frac in units of 1 / PHASES of a source frame
\* and 1 / TARGET of that; the filter of the first sample is centred on it.
ResampleInit(in) ==
    [ index |-> -PHASES * ((FilterLength(in) - 1) \div 2),
      frac |-> 0,
      incr |-> in * PHASES,
      taps |-> FilterLength(in) ]

\* index >> phase_shift
SampleIndex(index) == index \div PHASES

\* One iteration of the loop: index and frac move on by incr / TARGET.
Advance(c) ==
    LET frac == c.frac + (c.incr % TARGET)
        carry == IF frac >= TARGET THEN 1 ELSE 0
    IN [c EXCEPT !.index = @ + c.incr \div TARGET + carry,
                 !.frac = frac - carry * TARGET]

\* The context after k iterations (Resampler_proofs shows that it is).
AfterNoCarry(c, k) ==
    [c EXCEPT !.index = @ + k * (c.incr \div TARGET),
              !.frac = (@ + k * c.incr) % TARGET]
After(c, k) ==
    [c EXCEPT !.index = @ + (c.frac + k * c.incr) \div TARGET,
              !.frac = (@ + k * c.incr) % TARGET]

\* The break of the loop: the filter would read past the source.
OutOfSource(c, srcSize) ==
    SampleIndex(c.index) >= 0 /\ SampleIndex(c.index) + c.taps > srcSize

OutputSize(c, srcSize, dstSize) ==
    Min({dstSize} \cup
        {k \in 0 .. dstSize - 1 : OutOfSource(After(c, k), srcSize)})

\* One sample; before its first frame the source is mirrored.
Output(c, src) ==
    [ phase |-> c.index % PHASES,
      taps |-> [i \in 0 .. c.taps - 1 |->
                  LET at == SampleIndex(c.index) + i
                  IN src[1 + IF SampleIndex(c.index) < 0 THEN Abs(at) % Len(src) ELSE at]] ]

\* What av_resample writes, consumes and leaves in the context.
AvResample(c, src, dstSize) ==
    LET n == OutputSize(c, Len(src), dstSize)
        last == After(c, n)
    IN [ out |-> [k \in 1 .. n |-> Output(After(c, k - 1), src)],
         consumed |-> SampleIndex(IF last.index > 0 THEN last.index ELSE 0),
         ctx |-> [last EXCEPT !.index = IF @ >= 0 THEN @ % PHASES ELSE @] ]
=============================================================================
