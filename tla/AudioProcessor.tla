--------------------------- MODULE AudioProcessor ---------------------------
(***************************************************************************)
(* src/src/audio_processor.cpp: AudioProcessor groups the samples of a     *)
(* stream into frames of one sample per channel, mixes each frame down to  *)
(* one sample, buffers BUFFER of them and hands them, resampled to the     *)
(* target rate, to its consumer.                                           *)
(*                                                                         *)
(* A sample is its position in the stream, a frame the sequence of the  *)
(* samples that were mixed.  One step per turn of the loop of              *)
(* ConsumeAligned, which Consume calls at most twice: first for the frame  *)
(* completed from the samples left over from the last call ("carry"), then *)
(* for the complete frames of the rest ("body").                           *)
(***************************************************************************)
EXTENDS Resampler, SequencesExt

CONSTANTS
    BUFFER,           \* kMaxBufferSize, of both buffers
    MIN_RATE,         \* kMinSampleRate
    HAS_RESAMPLER,    \* USE_INTERNAL_AVRESAMPLE
    Rates, Channels,  \* arguments of Reset
    Feeds,            \* bound: samples in one call of Consume
    MaxStream         \* bound: samples of one stream

ASSUME BufferAssumption == BUFFER \in Nat \ {0}

\* A full buffer holds a whole filter, and the samples that fill one reach
\* past the half of it that lies before the first: with 32768 frames and
\* filters of 16 taps, true of every rate from kMinSampleRate to many MHz.
ASSUME RatesAssumption ==
    /\ Rates \subseteq Int /\ MIN_RATE \in Nat /\ Channels \subseteq Int /\ Feeds \subseteq Nat
    /\ \A rate \in Rates : rate > MIN_RATE =>
          /\ FilterLength(rate) <= BUFFER
          /\ TARGET * ((FilterLength(rate) - 1) \div 2 + 1) <= BUFFER * rate

VARIABLES
    pc,            \* "idle", or "carry" or "body" inside Consume
    buffer,        \* the first m_buffer_offset frames of m_buffer
    leftover,      \* m_leftover: the samples of an incomplete frame
    channels,      \* m_num_channels; 0 before the first Reset
    ctx,           \* m_resample_ctx, or NoContext
    work,          \* the frames ConsumeAligned still has to load
    tail,          \* what Consume has after them
    received,      \* history: samples of the current stream handed over
    passed,        \* history: frames of the stream taken out of buffer
    produced,      \* history: samples of the stream given to the consumer
    batch,         \* history: the last ones given to it
    shortStart,    \* history: the first of them were made of too few frames
    dropped        \* history: frames were thrown away

vars == <<pc, buffer, leftover, channels, ctx, work, tail,
          received, passed, produced, batch, shortStart, dropped>>

\* A null context has no taps.
NoContext == [index |-> 0, frac |-> 0, incr |-> 0, taps |-> 0]

Init ==
    /\ pc = "idle"
    /\ buffer = <<>> /\ leftover = <<>> /\ work = <<>> /\ tail = <<>>
    /\ channels = 0 /\ ctx = NoContext
    /\ received = 0 /\ passed = 0 /\ produced = 0
    /\ batch = <<>> /\ shortStart = FALSE /\ dropped = FALSE

-----------------------------------------------------------------------------
\* The complete frames of a run of samples, and the samples after them.
Frames(s) ==
    [f \in 1 .. Len(s) \div channels |-> SubSeq(s, (f - 1) * channels + 1, f * channels)]
Rest(s) == SubSeq(s, (Len(s) - (Len(s) % channels)) + 1, Len(s))

\* What a call of Resample makes of the buffer b: the samples for the
\* consumer, the frames it takes out of b, the resampler's next context.
Resampled(b) ==
    IF ctx = NoContext
      THEN [out |-> b, consumed |-> Len(b), ctx |-> ctx]
      ELSE AvResample(ctx, b, BUFFER)

\* "Resampling overread input buffer": remaining is clamped to 0.
TakenOneLess(b) == Max({0, Min({Resampled(b).consumed, Len(b)}) - 1})
Taken(b) == Min({Resampled(b).consumed, Len(b)})

RemainingAll(b) == b
Remaining(b) == SubSeq(b, Taken(b) + 1, Len(b))

Resample(b) ==
    /\ buffer' = Remaining(b)
    /\ ctx' = Resampled(b).ctx
    /\ batch' = Resampled(b).out
    /\ passed' = passed + Taken(b)
    /\ produced' = produced + Len(Resampled(b).out)
    /\ shortStart' = (shortStart \/ (ctx # NoContext /\ produced = 0 /\ Len(b) < ctx.taps))

NewStreamKeepsLeftover(context) ==
    /\ buffer' = <<>> /\ leftover' = leftover
    /\ ctx' = context
    /\ received' = 0 /\ passed' = 0 /\ produced' = 0
    /\ batch' = <<>> /\ shortStart' = FALSE /\ dropped' = FALSE
NewStream(context) ==
    /\ buffer' = <<>> /\ leftover' = <<>>
    /\ ctx' = context
    /\ received' = 0 /\ passed' = 0 /\ produced' = 0
    /\ batch' = <<>> /\ shortStart' = FALSE /\ dropped' = FALSE

\* Rejected arguments change nothing; without a resampler another rate is
\* rejected too, after the buffers were cleared.
Reset(rate, n) ==
    /\ pc = "idle"
    /\ n > 0 /\ rate > MIN_RATE
    /\ IF HAS_RESAMPLER
         THEN /\ NewStream(IF rate = TARGET THEN NoContext ELSE ResampleInit(rate))
              /\ channels' = n
         ELSE /\ NewStream(NoContext)
              /\ channels' = IF rate = TARGET THEN n ELSE channels
    /\ UNCHANGED <<pc, work, tail>>

Rejected(rate, n) ==
    /\ pc = "idle"
    /\ n <= 0 \/ rate <= MIN_RATE
    /\ UNCHANGED vars

-----------------------------------------------------------------------------
\* ConsumeAligned(s minus its Rest), with the Rest to follow.
StartBody(s) ==
    /\ work' = Frames(s)
    /\ tail' = Rest(s)
    /\ pc' = "body"

\* Consume(n): the samples of the last call's incomplete frame come first.
Consume(n) ==
    LET input == [i \in 1 .. n |-> received + i]
        taken == Min({n, channels - Len(leftover)})
        first == leftover \o SubSeq(input, 1, taken)
    IN /\ pc = "idle" /\ channels > 0
       /\ received + n <= MaxStream
       /\ received' = received + n
       /\ \/ /\ leftover = <<>>
             /\ StartBody(input)
             /\ UNCHANGED leftover
          \/ /\ leftover # <<>> /\ Len(first) < channels
             /\ leftover' = first
             /\ UNCHANGED <<pc, work, tail>>
          \/ /\ leftover # <<>> /\ Len(first) = channels
             /\ work' = <<first>>
             /\ tail' = SubSeq(input, taken + 1, n)
             /\ pc' = "carry"
             /\ UNCHANGED leftover
       /\ UNCHANGED <<buffer, channels, ctx, passed, produced, batch, shortStart, dropped>>

\* The frames that still fit into m_buffer.
RoomOneLess == BUFFER - Len(buffer) - 1
Room == BUFFER - Len(buffer)

\* One turn of the loop of ConsumeAligned: load as many frames as fit; a full
\* buffer is resampled, and if nothing of it was consumed the rest of the
\* input is given up ("Resampling failed?").
LoadFrames ==
    LET n == Min({Len(work), Room})
        loaded == buffer \o SubSeq(work, 1, n)
        left == SubSeq(work, n + 1, Len(work))
    IN /\ pc \in {"carry", "body"} /\ work # <<>>
       /\ \/ /\ Len(loaded) < BUFFER
             /\ buffer' = loaded /\ work' = left
             /\ UNCHANGED <<ctx, passed, produced, batch, shortStart, dropped>>
          \/ /\ Len(loaded) = BUFFER
             /\ Resample(loaded)
             /\ work' = IF Len(buffer') = BUFFER THEN <<>> ELSE left
             /\ dropped' = (dropped \/ (work' # left))
       /\ UNCHANGED <<pc, leftover, channels, tail, received>>

CarryDoneKeepsLeftover ==
    /\ pc = "carry" /\ work = <<>>
    /\ StartBody(tail)
    /\ UNCHANGED <<buffer, leftover, channels, ctx, received, passed, produced, batch,
                   shortStart, dropped>>

CarryDone ==
    /\ pc = "carry" /\ work = <<>>
    /\ leftover' = <<>>
    /\ StartBody(tail)
    /\ UNCHANGED <<buffer, channels, ctx, received, passed, produced, batch,
                   shortStart, dropped>>

BodyDone ==
    /\ pc = "body" /\ work = <<>>
    /\ leftover' = IF tail # <<>> THEN tail ELSE leftover
    /\ tail' = <<>>
    /\ pc' = "idle"
    /\ UNCHANGED <<buffer, channels, ctx, work, received, passed, produced, batch,
                   shortStart, dropped>>

\* One call of Resample, however much is buffered; leftover is not touched.
Flush ==
    /\ pc = "idle" /\ buffer # <<>>
    /\ Resample(buffer)
    /\ UNCHANGED <<pc, leftover, channels, work, tail, received, dropped>>

Next ==
    \/ \E rate \in Rates, n \in Channels : Reset(rate, n)
    \/ \E rate \in Rates, n \in Channels : Rejected(rate, n)
    \/ \E n \in Feeds : Consume(n)
    \/ LoadFrames
    \/ CarryDone
    \/ BodyDone
    \/ Flush

Loading == LoadFrames \/ CarryDone \/ BodyDone

Spec == Init /\ [][Next]_vars /\ WF_vars(Loading)

-----------------------------------------------------------------------------
\* Frame number f of a stream of c channels, counted from 0.
FrameOf(c, f) == [i \in 1 .. c |-> f * c + i]

\* The samples after the last complete frame, and the frames of the stream
\* that were passed on, are buffered, or are still to be loaded.
Held == IF pc = "idle" THEN leftover ELSE tail
Complete == passed + Len(buffer) + Len(work)

TypeOK ==
    /\ pc \in {"idle", "carry", "body"}
    /\ channels \in Channels \cup {0}
    /\ Len(buffer) < BUFFER
    /\ Len(leftover) < channels \/ leftover = <<>>
    /\ ctx = NoContext \/ (ctx.frac \in 0 .. TARGET - 1 /\ ctx.index < PHASES)

\* No sample is lost, repeated or reordered, and none changes its channel,
\* wherever the caller cut the stream: the frames passed on are followed by
\* those in the buffer, these by the ones still to be loaded, and these by the
\* samples left over, up to the last one received.
BufferIsNext ==
    \A f \in 1 .. Len(buffer) : buffer[f] = FrameOf(channels, passed + f - 1)

WorkIsNext ==
    \A f \in 1 .. Len(work) : work[f] = FrameOf(channels, passed + Len(buffer) + f - 1)

HeldIsNext ==
    /\ \A i \in 1 .. Len(Held) : Held[i] = Complete * channels + i
    /\ received = Complete * channels + Len(Held)

NothingMisplaced == BufferIsNext /\ WorkIsNext /\ HeldIsNext

\* Sample number n of the resampled stream is centred on frame
\* n * rate / TARGET, whatever calls of av_resample it came from: the context
\* carries the position from call to call without a drift.
Position(n) == -PHASES * ((ctx.taps - 1) \div 2) + (n * ctx.incr) \div TARGET

NoDrift ==
    ctx # NoContext /\ ~shortStart =>
        /\ passed * PHASES + ctx.index = Position(produced)
        /\ ctx.frac = (produced * ctx.incr) % TARGET

\* The consumer gets the same samples, made of the same frames, however the
\* stream was cut and whenever it was flushed.  (A stream whose first flush
\* comes before one filter length of frames mirrors what it has.)
BatchIsIdeal ==
    ~shortStart =>
        \A j \in 1 .. Len(batch) :
            LET n == produced - Len(batch) + j - 1
            IN IF ctx = NoContext
                 THEN batch[j] = FrameOf(channels, n)
                 ELSE /\ batch[j].phase = Position(n) % PHASES
                      /\ batch[j].taps = [i \in 0 .. ctx.taps - 1 |->
                                            FrameOf(channels, Abs(SampleIndex(Position(n)) + i))]

\* A full buffer can always be resampled in part: no input is given up.
NothingDropped == ~dropped

\* Consume returns: each turn of the loop loads a frame or makes room for one.
ConsumeReturns == [](pc # "idle" => <>(pc = "idle"))

\* A further sample can be made of what is in the buffer.
WindowLeft ==
    IF ctx = NoContext THEN buffer # <<>> ELSE ~OutOfSource(ctx, Len(buffer))

\* audio_processor.h: Flush processes "any buffered input that was not
\* processed before".  For a rate below the target it does not: it calls
\* Resample once, which stops when the output buffer is full.
FlushProcessesAll == [][Flush => ~WindowLeft']_vars

\* What Flush does: it leaves complete windows behind only where it has filled
\* the output buffer, which takes a rate below the target.
FlushStopsAtFullOutput ==
    [][Flush => ~WindowLeft' \/ (Len(batch') = BUFFER /\ ctx.incr < TARGET * PHASES)]_vars
=============================================================================
