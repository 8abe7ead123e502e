--------------------------- MODULE Fingerprinter ---------------------------
(***************************************************************************)
(* src/src/fingerprinter.cpp: Fingerprinter owns the pipeline              *)
(*                                                                         *)
(*   AudioProcessor -> [SilenceRemover ->] FFT -> Chroma -> ChromaFilter   *)
(*     -> ChromaNormalizer -> FingerprintCalculator                        *)
(*                                                                         *)
(* and its methods are the calls of chromaprint.h.  Each stage appears by  *)
(* what it keeps between two calls; AudioSlicer, ChromaFilter and          *)
(* FingerprintCalculator, in modules of their own, are each a sliding      *)
(* window, whatever the chunks that they are fed.  Chroma and              *)
(* ChromaNormalizer keep nothing.                                          *)
(*                                                                         *)
(* The streams are mono at the target rate, which is what fpcalc feeds.    *)
(* Samples are numbered from 1 through all streams.  What a stage makes of *)
(* samples is the set of their numbers.                                    *)
(***************************************************************************)
EXTENDS Integers, Sequences, SequencesExt, FiniteSetsExt

CONSTANTS
    BUFFER,             \* AudioProcessor's kMaxBufferSize
    FRAME, OVERLAP,     \* frame_size() and frame_overlap()
    COEFFICIENTS,       \* num_filter_coefficients()
    WIDTH,              \* max_filter_width()
    REMOVE_SILENCE,     \* remove_silence()
    MaxFeed,            \* bound: samples in one call of Consume
    MaxStream,          \* bound: samples of all streams
    MaxQuiet            \* bound: samples before the first loud one

ASSUME ConfigurationAssumption ==
    /\ BUFFER \in Nat \ {0} /\ FRAME \in Nat \ {0} /\ OVERLAP \in 0 .. FRAME - 1
    /\ COEFFICIENTS \in Nat \ {0} /\ WIDTH \in Nat \ {0}
    /\ REMOVE_SILENCE \in BOOLEAN

ASSUME BoundsAssumption == MaxFeed \in Nat /\ MaxStream \in Nat /\ MaxQuiet \in Nat

VARIABLES
    buffer,         \* m_audio_processor: samples it holds back
    silent,         \* m_silence_remover: m_start
    window,         \* m_fft: samples of the frames to come
    frames,         \* m_chroma_filter: vectors of the sums to come
    rows,           \* m_fingerprint_calculator: sums of the items to come
    fingerprint,    \* m_fingerprint_calculator: its items
    fed,            \* history: samples consumed, of all streams
    base,           \* history: how many of them before the last Start
    quiet,          \* input: samples of this stream before the average is loud
    from,           \* history: the first sample of this stream let through, or 0
    cleared         \* history: the items of this stream cleared so far

stages == <<buffer, silent, window, frames, rows, fingerprint>>
history == <<fed, base, quiet, from, cleared>>
vars == <<stages, history>>

\* fingerprinter_configuration.h
item_duration == FRAME - OVERLAP
delay == ((COEFFICIENTS - 1) + (WIDTH - 1)) * item_duration + OVERLAP

-----------------------------------------------------------------------------
\* A stage that makes something of each `size` of its inputs, a window that
\* moves on by `step`, and keeps the inputs from the next window on; the
\* number of windows in n inputs.
Count(n, size, step) == IF n < size THEN 0 ELSE ((n - size) \div step) + 1
Slide(inputs, size, step) ==
    LET n == Count(Len(inputs), size, step)
    IN [out  |-> [k \in 1 .. n |-> SubSeq(inputs, (k - 1) * step + 1, (k - 1) * step + size)],
        rest |-> SubSeq(inputs, n * step + 1, Len(inputs))]

Map(s, Op(_)) == [k \in DOMAIN s |-> Op(s[k])]

\* A sum of vectors, or an item of rows, is the set of the samples that went in.
Merged(sets) == UNION ToSet(sets)

\* What the stages keep of a stream that has just started.
NothingKept == window' = <<>> /\ frames' = <<>> /\ rows' = <<>>

\* After chromaprint_new and the first Start; feeding before it is misuse.
Init ==
    /\ buffer = <<>> /\ window = <<>> /\ frames = <<>> /\ rows = <<>> /\ fingerprint = <<>>
    /\ silent = REMOVE_SILENCE
    /\ fed = 0 /\ base = 0 /\ from = 0 /\ cleared = <<>>
    /\ quiet \in 0 .. MaxQuiet

StartKeepsFrames ==
    /\ buffer' = <<>> /\ fingerprint' = <<>>
    /\ window' = <<>> /\ rows' = <<>>
    /\ base' = fed /\ from' = 0 /\ cleared' = <<>>
    /\ quiet' \in 0 .. MaxQuiet
    /\ UNCHANGED <<silent, frames, fed>>
\* Every stage is reset but the silence remover.
Start ==
    /\ buffer' = <<>> /\ fingerprint' = <<>>
    /\ NothingKept
    /\ base' = fed /\ from' = 0 /\ cleared' = <<>>
    /\ quiet' \in 0 .. MaxQuiet
    /\ UNCHANGED <<silent, fed>>

\* The silence remover lets the first loud sample through and all after it.
Loud(p) == p > base + quiet
SinceFirst(samples, loud) ==
    IF loud = {} THEN <<>> ELSE SubSeq(samples, Min(loud), Len(samples))
LetThroughNext(samples) ==
    IF silent THEN SinceFirst(samples, {i \in DOMAIN samples : Loud(samples[i] - 1)})
              ELSE samples
LetThrough(samples) ==
    IF silent THEN SinceFirst(samples, {i \in DOMAIN samples : Loud(samples[i])})
              ELSE samples

\* The consumers of the audio processor, one after the other: what each one
\* makes of its input is the input of the next.
Process(samples) ==
    \E heard \in {LetThrough(samples)} :
    \E cut \in {Slide(window \o heard, FRAME, item_duration)} :
    \E sum \in {Slide(frames \o Map(cut.out, ToSet), COEFFICIENTS, 1)} :
    \E row \in {Slide(rows \o Map(sum.out, Merged), WIDTH, 1)} :
       /\ silent' = (silent /\ heard = <<>>)
       /\ from' = IF from = 0 /\ heard # <<>> THEN heard[1] ELSE from
       /\ window' = cut.rest
       /\ frames' = sum.rest
       /\ rows' = row.rest
       /\ fingerprint' = fingerprint \o Map(row.out, Merged)

\* How many of n samples ConsumeAligned passes on: it empties the buffer
\* whenever that is full.  Its calls of the consumer are taken as one.
PassedOn(n) == BUFFER * (n \div BUFFER)

Consume(n) ==
    LET input == buffer \o [i \in 1 .. n |-> fed + i]
        passed == PassedOn(Len(input))
    IN /\ fed + n <= MaxStream
       /\ fed' = fed + n
       /\ Process(SubSeq(input, 1, passed))
       /\ buffer' = SubSeq(input, passed + 1, Len(input))
       /\ UNCHANGED <<base, quiet, cleared>>

Finish ==
    /\ Process(buffer)
    /\ buffer' = <<>>
    /\ UNCHANGED <<fed, base, quiet, cleared>>

\* The stages go on: the next item may come with the next sample.
ClearFingerprint ==
    /\ fingerprint' = <<>>
    /\ cleared' = cleared \o fingerprint
    /\ UNCHANGED <<buffer, silent, window, frames, rows, fed, base, quiet, from>>

\* "silence_threshold": it makes other samples loud, of those that the
\* silence remover did not listen to yet.
SetOption ==
    /\ silent
    /\ quiet' \in fed - Len(buffer) - base .. MaxQuiet
    /\ UNCHANGED <<stages, fed, base, from, cleared>>

Next ==
    \/ Start
    \/ \E n \in 0 .. MaxFeed : Consume(n)
    \/ Finish
    \/ ClearFingerprint
    \/ SetOption

Spec == Init /\ [][Next]_vars

-----------------------------------------------------------------------------
TypeOK ==
    /\ Len(buffer) < BUFFER
    /\ Len(window) < FRAME /\ Len(frames) < COEFFICIENTS /\ Len(rows) < WIDTH
    /\ silent => REMOVE_SILENCE /\ from = 0

\* Items a stream of n samples has.
ItemCount(n) == IF n < delay THEN 0 ELSE (n - delay) \div item_duration

\* The samples of the k-th item of a stream that starts with sample s.
ItemSamples(s, k) ==
    s + (k - 1) * item_duration .. s + k * item_duration + delay - 1

\* The fingerprint is a function of the samples fed since Start, and of
\* nothing fed before: however they were cut and whenever the fingerprint was
\* finished or cleared in between, the items so far are the windows of
\* delay + item_duration samples, one every item_duration.
FingerprintOfStream ==
    LET given == IF from = 0 THEN 0 ELSE fed - Len(buffer) - from + 1
    IN cleared \o fingerprint = [k \in 1 .. ItemCount(given) |-> ItemSamples(from, k)]

\* chromaprint.h:238: Finish is to "process any remaining buffered audio
\* data": all items that the samples fed so far can give are there.
FinishProcessesAll ==
    [][Finish /\ from' # 0 =>
        Len(cleared' \o fingerprint') = ItemCount(fed' - from' + 1)]_vars

\* No stream loses a sample after its leading silence, and the first one
\* loses all of that, wherever the chunks begin.
OnlySilenceRemoved ==
    from # 0 =>
        /\ from > base /\ from <= base + quiet + 1
        /\ REMOVE_SILENCE /\ base = 0 => from = quiet + 1

\* chromaprint.h:93: the algorithm removes leading silence, of every stream.
LeadingSilenceRemoved ==
    REMOVE_SILENCE /\ from # 0 => from > base + quiet
=============================================================================
