--------------------------- MODULE SilenceRemover ---------------------------
(***************************************************************************)
(* src/src/silence_remover.cpp: SilenceRemover holds back the samples of a *)
(* stream until the moving average of their absolute values exceeds the    *)
(* threshold, and lets all later ones through.                             *)
(*                                                                         *)
(* One step per turn of the loop of Consume; `input` is what is left of    *)
(* the chunk of the call in progress.                                      *)
(***************************************************************************)
EXTENDS MovingAverage, Sequences

CONSTANTS
    Samples,       \* the values of the samples
    Thresholds,    \* the values given to set_threshold
    MaxChunk,      \* bound: samples in one call of Consume
    MaxStream      \* bound: samples over all calls

VARIABLES
    start,         \* m_start: nothing was let through yet
    threshold,     \* m_threshold
    average,       \* m_average
    input,         \* the samples of the call that are not dealt with
    seen,          \* history: all samples dealt with, of all streams
    streamAt,      \* history: how many of them came before the last Reset
    given          \* history: what the consumer got of the current stream

vars == <<start, threshold, average, input, seen, streamAt, given>>

Init ==
    /\ start = TRUE
    /\ threshold \in Thresholds
    /\ average = NewAverage
    /\ input = <<>> /\ seen = <<>> /\ streamAt = 0 /\ given = <<>>

Idle == input = <<>>

set_threshold(value) ==
    /\ Idle
    /\ threshold' = value
    /\ UNCHANGED <<start, average, input, seen, streamAt, given>>

\* Only mono streams; the moving average goes on from the last stream.
Reset(num_channels) ==
    /\ Idle
    /\ IF num_channels # 1
         THEN UNCHANGED vars
         ELSE /\ start' = TRUE
              /\ streamAt' = Len(seen) /\ given' = <<>>
              /\ UNCHANGED <<threshold, average, input, seen>>

Consume(chunk) ==
    /\ Idle
    /\ Len(seen) + Len(chunk) <= MaxStream
    /\ input' = chunk
    /\ UNCHANGED <<start, threshold, average, seen, streamAt, given>>

\* std::abs of the promoted sample, converted back by the parameter's type.
Magnitude(x) == Wrap(IF x < 0 THEN -x ELSE x)

LouderThan(m) == GetAverage(m) > threshold

\* A turn of the loop: the first loud sample ends it and is let through.
Listen ==
    /\ ~Idle /\ start
    /\ average' = AddValue(average, Magnitude(Head(input)))
    /\ IF LouderThan(average')
         THEN start' = FALSE /\ UNCHANGED <<input, seen>>
         ELSE input' = Tail(input) /\ seen' = Append(seen, Head(input)) /\ UNCHANGED start
    /\ UNCHANGED <<threshold, streamAt, given>>

PassOnNonZero ==
    /\ ~Idle /\ ~start
    /\ given' = given \o SelectSeq(input, LAMBDA x : x # 0)
    /\ seen' = seen \o input
    /\ input' = <<>>
    /\ UNCHANGED <<start, threshold, average, streamAt>>

\* The rest of the chunk goes to the consumer in one call.
PassOn ==
    /\ ~Idle /\ ~start
    /\ given' = given \o input
    /\ seen' = seen \o input
    /\ input' = <<>>
    /\ UNCHANGED <<start, threshold, average, streamAt>>

Chunks == UNION {[1 .. n -> Samples] : n \in 0 .. MaxChunk}

Next ==
    \/ \E value \in Thresholds : set_threshold(value)
    \/ \E num_channels \in {1, 2} : Reset(num_channels)
    \/ \E chunk \in Chunks : Consume(chunk)
    \/ Listen
    \/ PassOn

Spec == Init /\ [][Next]_vars

-----------------------------------------------------------------------------
TypeOK ==
    /\ start \in BOOLEAN /\ threshold \in Thresholds
    /\ average.offset \in 0 .. WINDOW - 1 /\ average.count \in 0 .. WINDOW

\* The samples the average was fed, in order: those dealt with while the
\* stream was silent.
Quiet == SubSeq(seen, streamAt + 1, Len(seen) - Len(given))

\* What the stream lost is a prefix of it: from the first sample let through
\* on nothing is removed, wherever the chunks begin.
OnlyLeadingRemoved ==
    /\ start => given = <<>>
    /\ SubSeq(seen, streamAt + 1, Len(seen)) = Quiet \o given

\* The definition the ring and the running sum stand for: the mean of the
\* absolute values of the last WINDOW samples of the stream, in exact
\* arithmetic.
Abs(x) == IF x < 0 THEN -x ELSE x

AbsSum(s) ==
    LET sum[n \in 0 .. Len(s)] == IF n = 0 THEN 0 ELSE sum[n - 1] + Abs(s[n])
    IN sum[Len(s)]

Last(s) == SubSeq(s, IF Len(s) > WINDOW THEN Len(s) - WINDOW + 1 ELSE 1, Len(s))

MeanOfLast(s) == AbsSum(Last(s)) \div Len(Last(s))

\* Until the first Reset a stream's sample is held back exactly if the mean
\* of the last WINDOW magnitudes, its own included, is not above the threshold.
FirstStreamTrimmed ==
    [][streamAt = 0 /\ ~Idle /\ start =>
        LET loud == MeanOfLast(Append(seen, Head(input))) > threshold
        IN IF loud THEN start' = FALSE /\ input' = input
                   ELSE start' = TRUE /\ input' = Tail(input)]_vars
=============================================================================
