# chromaprint in TLA+

A formal model of [chromaprint](https://acoustid.org/chromaprint): the library that turns audio
into fingerprints, and `fpcalc`, the program that reads audio files and prints them. The modules
follow the sources under `src/`; `PROJECT.json` names, for each definition, the lines it stands
for.

    tlc -config MCAudioSlicer.cfg MCAudioSlicer.tla     # model-check one run
    tlapm AudioSlicer_proofs.tla                        # check the proofs of one module

## 1. The system

chromaprint is a sequential library: a chain of objects, each of which consumes what the one
before produces and calls the next one synchronously.

    fpcalc ── FFmpegAudioReader
      │  chromaprint_start / feed / finish / get_fingerprint / clear_fingerprint
    Fingerprinter
      └ AudioProcessor ─► [SilenceRemover ─►] FFT (AudioSlicer) ─► Chroma ─► ChromaFilter
          (resampler)        ─► ChromaNormalizer ─► FingerprintCalculator (RollingIntegralImage)

The caller cuts the audio into chunks of its own choice, may finish, clear and go on, and uses one
context for many streams. Nothing runs concurrently and nothing is persisted. What is hard is that
**every stage keeps something between two calls**, each in its own way: samples left over, ring
buffers, a fractional position, a fingerprint so far. The fingerprint must not depend on where the
chunks end nor on what was fed before the last start; tests try a handful of chunk sizes.

| component | state | operations | correct when |
|---|---|---|---|
| `AudioProcessor`, `av_resample` | left-over samples, sample buffer, position of the resampler | `Reset`, `Consume`, `Flush` | no sample is lost, repeated or moved to another channel; output sample *n* is centred on the same source frame however the input was cut; a flush processes what can be |
| `SilenceRemover`, `MovingAverage` | ring and sum of the last magnitudes, "still silent" | `Consume`, `Reset`, `set_threshold` | exactly the samples before the first loud one are removed from each stream |
| `AudioSlicer` (in `FFT`) | buffer of two frames, begin and end | `Process`, `Reset` | frame *k* is the window at *k · increment*, nothing is written past the buffer |
| `Chroma`, `ChromaNormalizer` | none | `Consume` | numeric |
| `ChromaFilter` | ring of 8 vectors, offset, count | `Consume`, `Reset` | each sum is over the last vectors of this stream |
| `FingerprintCalculator`, `RollingIntegralImage`, filters | the last 257 rows of a summed-area table, the items | `Consume`, `ClearFingerprint`, `Reset` | the items are those of the whole stream although the image forgets its rows |
| `Fingerprinter`, C API | the chain; whether it removes silence | `Start`, `Consume`, `Finish`, `ClearFingerprint`, `SetOption` | the fingerprint is a function of the samples since `Start` |
| `fpcalc` | counters of the stream and the chunk, the flags of `ProcessFile` | the loop over files, reads and chunks | overlapping chunks together give the file's fingerprint; each result carries its place; the exit status tells what was printed; it ends |
| `FFmpegAudioReader` | FFmpeg contexts, packet, frame, converter, end-of-file flags | `Open`, `Read`, `Close` | reads all frames of each file; files do not influence each other |
| `FingerprintMatcher` | offsets, histogram, alignments, segments | `Match` | finds the alignment; segments lie in both fingerprints, are adjacent when merged |
| compressor, decompressor, Base64 | bit arrays | `Compress`, `Decompress`, header | round trip; malformed input is rejected |
| `SimHash`, `GaussianFilter`, `Gradient` | none | functions | equal to their definitions |

## 2. The modules

| module | models | notes |
|---|---|---|
| `Framing` | what cutting a stream into overlapping frames promises | abstract; no code |
| `AudioSlicer` | `audio/audio_slicer.h` | refines `Framing` |
| `AudioSlicer_proofs` | proofs about it | |
| `Resampler` | `avresample/resample2.c` | which source frames each output sample uses |
| `AudioProcessor`, `AudioProcessor_proofs` | `audio_processor.cpp`, and proofs: of the resampler and its position, and of the frames | extends `Resampler` |
| `MovingAverage`, `SilenceRemover`, `SilenceRemover_proofs` | `moving_average.h`, `silence_remover.cpp`, and proofs | |
| `ChromaFilter` | `chroma_filter.cpp` | |
| `RollingIntegralImage`, `FilterUtils`, `FingerprintCalculator` | `rolling_integral_image.h`, `filter_utils.h`, `fingerprint_calculator.cpp` | the calculator extends the two others |
| `FeaturePipeline`, `FeaturePipeline_proofs` | the calls from the filter to the calculator, and proofs about the filter and about both | composes `ChromaFilter` with `FingerprintCalculator` as an `INSTANCE` |
| `Fingerprinter`, `Fingerprinter_proofs` | `fingerprinter.cpp`, configuration, the C API, and proofs | composes what the stages promise |
| `FingerprintCodec` | compressor, decompressor, bit arrays, Base64, the encode and decode calls of the C API | pure functions |
| `Fpcalc`, `Fpcalc_proofs` | `cmd/fpcalc.cpp`, and proofs | runs `Fingerprinter` as an `INSTANCE` |
| `AudioSource` | what a reader of audio files promises | abstract; no code |
| `FFmpegAudioReader`, `FFmpegAudioReader_proofs` | `audio/ffmpeg_audio_reader.h` and the converter around it, and proofs | refines `AudioSource`; FFmpeg is external |
| `GaussianFilter` | `utils/gaussian_filter.h` | pure functions |
| `FingerprintMatcher` | `fingerprint_matcher.cpp`, `utils/gradient.h` | extends `GaussianFilter`; pure functions |
| `SimHash` | `simhash.cpp` | pure function |
| `MC*` | constants for TLC | |
| `MCFunctions_proofs` | proofs about the pure functions | extends `MCFunctions`, whose properties it states |

**Data.** A sample is its position in the stream (or, where its value matters, a small integer), so
that every property can say *which* samples a frame, a sum or an item was made of. Mixing channels,
the filter taps, the FFT, notes and norms become the sequence or set of the samples that went in.
Two stages keep values: the silence remover, whose point is their magnitude and its integer type,
and the rolling image, whose point is that differences of sums are sums.

**Steps.** A call is one step, except where the code hands data on in the middle of it: `Process`
of the slicer is one step per frame handed over (`SliceKeep`, `SliceDrop`, `SliceDirect` are the
three branches, `Store` the final copy); `ConsumeAligned` one step per turn of its loop, within
`Consume` (`pc` is `"carry"` for the frame completed from left-overs, then `"body"`);
`SilenceRemover::Consume` one step per sample it listens to, then `PassOn`; `ProcessFile` one step
per call it makes of the library. History variables, marked in each module, record what a property
refers to; no guard reads one but to apply a bound.

**Fingerprinter** represents each stage by what it keeps between calls and by the window that it
slides over its input (`Slide`): the slicer by `FRAME` and `FRAME - OVERLAP`, the chroma filter by
its coefficients and 1, the calculator by its widest filter and 1. That those components *are* such
windows whatever chunks they get is what their own modules check, and for the first two prove. Its
streams are mono at the target rate, so that the audio processor is a buffer; that is also all that
`fpcalc` feeds it, since the reader is told the library's rate and channels. The samples at which
the moving average gets loud are an input (`quiet`), since it depends on values.

**FingerprintCodec** has items and bytes as the sets of their one bits, so that XOR is the symmetric
difference. The generated, unrolled loops of the bit arrays are tables: of the terms (element, mask,
shift) of each statement of a turn (`PackTurn5`), and of how many of them the tail for each number
of left-over elements has (`PackTails5`). `RoundTrip` depends on each number in them: with any one
made smaller by one it fails in `functions`, but for terms that only concern the last normal code,
which is always 0. Base64 is one line on where a bit goes. `chromaprint.cpp`
encodes and decodes with it; input that no compressor wrote (beyond truncated and extended
fingerprints) is not enumerated.

**FeaturePipeline** joins two components that also stand alone: a vector that completes a sum
makes `ChromaFilter` call the calculator within the same call. `ChromaNormalizer` between them keeps
nothing; together with the sum it is the constant `Weighted`, the row that comes of the vectors.

**FFmpegAudioReader** numbers the samples of a file in the output format, so that one can see which
are given, lost, or heard through the wrong converter (0). `Open` is one step, with the number of its
calls that succeed; within `Read` each call of FFmpeg is a step (`ReadPacket`, `Send`, `Receive`,
`Convert`), beside one in which it fails. The demuxer gives the packets of several streams, the
decoder may delay its frames, the converter holds back `LAG` samples. `avcodec_send_packet` never
returns `EAGAIN` here, because `Read` asks for a packet only when the decoder has no frame to give.
Room in the buffer is counted in samples, as the code passes it to the converter; the buffer is
allocated at line 342 for the channels of the codec, while the converter writes those of the output:
`fpcalc` asks for 1 (`fpcalc.cpp:436`), never more than the codec has, and other numbers are not
modelled. A file that meets the converter of another one counts as not opened in the refinement; what happens
to it is the run `reader_second_file`.

**FingerprintMatcher** has items as the sets of their one bits; distances are cardinalities, and
scores, means and gradients are fractions or integers multiplied out. The noise of `rand()`, at most
0.001 per distance, is left out: in the code it may decide between two equal gradients, where the
model takes the first. The segments of the match before are an argument of `Match`, since it may
return before it clears them.

**Fpcalc** takes of FFmpeg what `ProcessFile` sees: a file has a number of packets or is endless,
and a read gives some samples, maybe none, or fails. Durations are in samples, without the rounding
to seconds and milliseconds. `size_t` subtractions wrap (`Minus`, modulo `SIZE_T`).

## 3. The runs

| run | distinct states | shows |
|---|---|---|
| `slicer` | 28,422 | whatever the chunks: the buffer is never overrun, each frame is the next window, none is missing when `Process` returns; `Framing` is implemented, liveness included; the inductive invariant of the proofs |
| `processor` | 31,048 | no sample lost, repeated or moved; no drift of the resampler over calls; every batch is the ideal one; input is never given up; `Consume` returns; `Flush` leaves complete windows behind only where it filled its output buffer |
| `silence` | 209,989 | only leading samples are removed; the first stream is trimmed at the exact mean (samples above the lowest value) |
| `features` | 1,398 | sums are over the last vectors of the stream; the calculator holds the row of every sum and no other; items as of the whole stream; areas that the assertions allow are sums of cells; no area the items use is one they forbid |
| `functions` | 4,500 | the six filters cover their rectangle once, odd sides included; a fingerprint survives encoding and decoding, its header can be read alone, a truncated one is refused, trailing bytes are ignored; the hash is the majority; the box filter is the mean over reflected data, its number of passes the nearest; the histogram counts the pairs that agree, and the alignment with the most wins; segments lie in both fingerprints, in order, and do not overlap |
| `fingerprinter` | 9,113 | the fingerprint since `Start`, with what was cleared, is the sequence of windows that `delay()` and `item_duration()` state |
| `fpcalc` | 137,340 | overlapping chunks give each item of the file once; results carry their place; chunks no shorter than the frames are cut exactly; exit status; termination on endless streams |
| `reader` | 3,383 | between demuxer and caller no sample is lost, repeated or from another stream; `AudioSource` is implemented; a program that reads on comes to the end |
| `processor_upsample` | violation | below the target rate `Flush` leaves complete windows unprocessed |
| `fingerprinter_restart` | violation | the second stream of a context keeps its leading silence |
| `matcher_merge` | violation | segments are merged over others that did not match |
| `reader_second_file` | violation | a file is read with the converter of the one before |

Three more configurations show a counterexample and are not among the runs:
`MCSilenceRemoverLowest.cfg` (a sample of the lowest value counts as silence),
`MCFpcalcShortChunks.cfg` (with chunks shorter than a frame of the reader, `ChunksOfThisDuration` is
false: the remainder wraps and there is no further split) and `MCFFmpegAudioReaderOptions.cfg` (the
options of the user reach the first file only).

**Bounds.** Every bound is a constant with `bound` in its comment, or a set in an `MC` module.

- *Slicer*: 5 and 2 have no common divisor, so the buffer takes every fill from 0 to 4; chunks up
  to 7 are longer than a frame; 14 samples are five frames and several compactions. A restart may
  happen anywhere. The proofs lift the bounds.
- *Processor*: a buffer of 8, chunks up to 17 (more than two buffers), 1 and 3 channels, streams of
  30 samples; rates half of, equal to, slightly above and half above the target, with a filter of up
  to 6 frames (it fits the buffer, as the real one does); up to `MIN_RATE` everything is rejected.
  Only at the rate below the target does the output buffer fill before the input is used up.
- *Silence remover*: a window of 2 in streams of 5 samples, so that the ring wraps; 3-bit samples
  stand for 16-bit ones.
- *Features*: a ring of 4 for 3 vectors, so that it wraps three times in 12 vectors, and an image
  of 4 + 1 rows for up to 10 rows, so that rows are reused, with the widest classifier that the
  constructor's assertion admits. `Start` may come at any point.
- *Functions*: filters of up to 7 by 7, all remainders of halves and thirds; fingerprints of up to 3
  items out of 8, with distances between bits from 1 to 32 and up to 12 exceptional ones, and of up to
  4 (`MaxToggled`) items with two bits far apart each, so that the bit arrays have full turns and
  every tail and each bit of an exceptional code comes at each place in them; all truncations of
  each, binary and Base64; box
  filters of width up to 16 on up to 7 values, so that the window is longer than the data and
  reflects more than once; 1 to 4 passes and variances up to 70 (3 and 64 in the code). For the
  matcher all pairs of up to 3 items with two hashes, and pairs of up to 70 items made of blocks that
  match, nearly match or do not, shifted by 7 or not: these have gradient peaks, segments that are
  dropped and segments that are merged. An offset has 6 bits, so that 62 items are too long.
- *Fingerprinter*: the first item needs 9 samples, 24 are fed over any number of streams.
- *Fpcalc*: chunks of 4, 5 and 8 samples where an item lasts 2 (a multiple and not), limits within
  and at the end of chunks, frames of 0, 2, 3 and 7 samples, longer than some chunks and not than
  others; two files on one context; failing reads
  and opens everywhere.
- *Reader*: two opens of six small files: one in the output format with packets of another stream
  between, one to be converted, one whose decoder delays a frame, one stretched beyond the buffer of
  4 samples (8192 in the code), one of frames shorter than what the converter holds back, one
  without audio. Each call may fail.

Where `CHECK_DEADLOCK` is off the system may stop: `fpcalc` exits, the reader's program after
its last file, and the run of the functions is one choice of arguments. All other runs check deadlock.

**Fairness.** The library has no threads; a call runs until it returns, so the steps inside a call
are weakly fair (`Slicing`, `Loading`), and no caller is obliged to call (`Process`, `Consume`,
`Flush` have no fairness). In `Fpcalc` the program's own steps are weakly fair, failures of the
reader are not, and an endless stream gives some audio again and again (strong fairness of
`ReadFrame`): without that, a device that only ever delivers empty frames keeps the program
waiting, in the code too. In `FFmpegAudioReader` the steps within `Read` are weakly fair (`Reading`),
and so is calling it again, as the loop at `fpcalc.cpp:291` does; no call has to fail and no file has
to be opened. `AudioSource` asks for no more than that a call returns.

## 4. What is proved

For every value of the constants, under the assumptions named in the component's module:

- **`AudioSlicer_proofs`** (`SIZE >= 1`, `INCREMENT` in `1 .. SIZE`). The invariant `IInv` joins
  the types, the room in the buffer (`NoOverrun`), `StartsOnGrid`, the contents of the buffer
  (`BufferIsContiguous`), and two facts about where the input and the last frame end.
  `NoOverrun` is inductive only together with the guard of the loops; that a frame is the right
  window needs the grid and the contents; that no frame is missing when `Process` returns needs
  the last two. From it: `TypeCorrect`, `BufferSafe`, `ChunksDoNotMatter`, `FramesAreWindows` and
  `ImplementsFraming` (every step is a step of `Framing` or a stutter).
- **`AudioProcessor_proofs`** (`RatesAssumption`: a full buffer holds a filter, and the output that
  it has room for reaches past the first half of one). `PositionIsKept` is `NoDrift`,
  `NoInputGivenUp` is `NothingDropped`. The core is `OneCall`, on a call of `av_resample` with any
  context that `Reset` made: it stops at a full output or at the first filter that reaches past the
  source (`WhereItStops`, the minimum of a set), the step before was within it and no step is longer
  than a filter (`StepIsShort`), so what it consumes is not cut off at the end of the buffer; and
  what it consumes and keeps add up to where it was. The invariant adds to the two properties the
  rate that a context belongs to, its range, and that it is past the mirrored frames once a sample
  was made. `Resampler` computes the position after *k* iterations of `av_resample` in closed form;
  `LoopStart` and `LoopStep` show that it is what the loop computes one carry at a time.
  The second half of the module is about the frames: `TypeCorrect` is the type invariant,
  `SamplesAreKept` is `NothingMisplaced`, `SamplesAreIdeal` is `BatchIsIdeal`. `FInv` adds to the
  invariant above that the buffer, the frames to be loaded and the samples left over are the next
  ones of the stream, and what the phases of a call imply (`Phases`: the body of a call starts without left-over samples). `OneOutput` joins the
  two: a filter within the source, at a position that did not drift, covers the frames around that
  position; only before the first of them is it mirrored, and then the first one is number 0.
  `FlushLeavesLittle` is `FlushStopsAtFullOutput`: `WhereItStops` leaves a full output as the only
  other end of the one call in `Flush`, and at rates from the target on each output sample uses up
  at least one of the buffered frames, so that the input ends first.
- **`SilenceRemover_proofs`** (any window, threshold and samples). `RemovedIsPrefix` is
  `OnlyLeadingRemoved`: what was given is the end of what was dealt with and begins in this stream,
  and nothing is given while it is silent. `FirstStreamIsTrimmed` is `FirstStreamTrimmed`, for samples
  that are not the lowest value of their type (`MCSilenceRemoverLowest.cfg` shows that the lowest one breaks it). `Fed` says
  what the ring, its offset, count and running sum are after a stream: which slot holds the magnitude
  of which sample (`Slot`), and the sum of the last ones; `FedAdd` is the step, with the sum of one
  element more at the end (`AbsSumAppend`) and one less at the begin (`AbsSumTail`), by induction
  with the least element of a set of numbers (`NatInduct`). `AverageIs` adds that the mean of
  magnitudes that fit the type fits it, so that no conversion changes it. `Hears` is the invariant:
  until the first `Reset` the average was fed all that was held back.
- **`FeaturePipeline_proofs`** (`LENGTH` in `1 .. RING`, and the assumptions of the calculator).
  First the filter alone: `EachSumIsLastWindow` says nothing of the ring; `RingHoldsLast` says which
  vectors the slots before the offset hold, `SizeCounts` how many are of this stream, and the
  arithmetic modulo `RING` is in lemmas on one trip around it. Then both: `RowsAreOfStream` says that
  the rows of the calculator are the sums of this stream, in order, and the number of items is
  `delay()` behind. A step of the pipeline is a step of the filter (`PipelineIsFilter`), and `PInv`
  adds that a call of the calculator appends one row and that items begin with the first row that
  fills the widest classifier. `AreasAreAllowed` is `AssertionsHold`: the rectangles of each filter
  stay within the one it is placed on (`FilterStaysWithin`), no filter is wider than
  `MaxFilterWidth`, the maximum of a set (`WidthBounds`), and the image keeps as many rows
  (`WindowIsKept`). It needs of the configuration that each filter lies within the columns
  (`ClassifiersAssumption`); TLC checks the assumption on the classifiers of the run.
  The last part is about the values. `AreasAreSums` is `AreaIsSum`, `ItemsAreOfRows` is
  `ItemsOfWholeStream`. Neither says what the image holds: `ImageKept` does, of each row that was not
  overwritten the sums of all cells before and above (`Holds`); `AddedHolds` is the step, and needs
  that two rows less than `Slots` apart have different slots (`OtherSlot`). `RowAssumption` says
  that what the normalizer makes of a sum is a row of integers. Sums over a set are a recursive
  function that takes out one element after the other, whichever `CHOOSE` gives; `TakeOut` shows
  that any may be taken first and `TotalOfTwo` that disjoint sets add up, by the least size of a
  counterexample in the place of an induction rule (`FiniteInduct`). With them the four corners of a
  rectangle give its sum (`FourCorners`), `std::partial_sum` the sums along a row (`PartialSumIs`),
  and the one or two rectangles of a part of a filter, which do not overlap (`FewRectangles`), the
  sum of its cells (`PartSum`). `ItemsRight` is the invariant of the items: a new one is computed
  inside the window that is kept (`NewItem`), and a row more changes none before (`ItemStays`).
  The cells are integers, as in the model; how the sums of doubles round is not part of it.
- **`Fingerprinter_proofs`** (`ConfigurationAssumption`: no size is 0, `OVERLAP < FRAME`).
  `FingerprintOfStream` says nothing of a state in the middle of a stream: the
  invariant `IInv` adds that the buffer is the end of what was fed, that what each stage keeps is the
  end of what it was given and less than a window (`Holds`), and how many windows it has passed on.
  `SlideOfStream` is the lemma on chunks: a stage that keeps the end of a stream and is given the
  next piece passes on the next windows of the whole stream and keeps its end. It rests on `CountSum`
  (windows counted in two calls are those counted in one), `PartsJoined` and `PartOfPart`; that a
  window of windows is a window of the samples is `MergedBlocks`, and `StagesMove` goes through the
  three stages. `ItemsAreOfStream`, `SilenceOnly`, `FinishLeavesNothing` and `TypeCorrect` follow.
  (`FinishProcessesAll` is in no run: without what `Finish` does, `AllAudioFingerprinted` fails in
  the run `fpcalc`.)
- **`Fpcalc_proofs`** (`FingerprinterAssumption`, and `SizesAssumption`: a `size_t` counts all the audio
  that is fed, and the limits are values of it). `ExitIsTrue` is `ExitTellsResults`, `ClaimsAreTrue` is
  `ResultsMatchClaim`, and `WholeFileIsFingerprinted` is `AllAudioFingerprinted` where no silence
  remover is used (with one, the start of each stream may be missing: that theorem has
  `~REMOVE_SILENCE` as its hypothesis, the others do not). All that is used of the fingerprinter is
  what `Fingerprinter_proofs` shows of each of its calls, as the instance `P`; `FpFeed`, `FpFinish`,
  `FpStart` and `FpClear` say it once. None of the three is inductive. `ResultsInv` ties
  `got_results` and `first_chunk` to what was printed, at every step of `ProcessFile`. `StreamInv`
  ties `stream_size` to what was fed and to the rest of the frame, so that the subtraction from the
  limit does not wrap (`NoWrap`). `ChunkInv` has the heart: `ts` is where the chunk begins less the
  overlap, and the items cleared so far are as many as the audio before the chunk makes
  (`Given`, `ItemCount`), so that those of the chunk are the ones that need a sample of it: hence
  `ItemsClaimed`. `extra_chunk_limit` is not 0 in the first chunk only, and a first chunk that has an
  item is at least that long (`FirstIsLong`), so the printed duration does not wrap either; the
  remainder of a chunk may, and does (`MCFpcalcShortChunks.cfg`), and none of the three relies on it.
  `WholeInv` says that what was printed is what was cleared, and at the end all items.
  `ChunksAreCut` is `ChunksAreExact`: where no frame is longer than a chunk the remainder does not
  wrap either, if the limit of a chunk and the delay together are a `size_t` (`LimitsFit`). Its
  invariant `SizeInv` follows the size of the chunk and the rest of the frame through the steps.
- **`FFmpegAudioReader_proofs`** (`ReaderAssumption`, `FilesAssumption`: the lag of a converter is at
  most `MIN_BUFFER`; a file has a rate, and a decoded frame a length). `NothingIsLost` is
  `NothingLost`; `ImplementsAudioSource` is the safety part of `ImplementsSource`. `NothingLost` is
  not inductive: `Open` leaves a converter that fits a later file only if that file would have
  needed one anyway (`ConverterInv`), and a packet is read only when the last one was sent
  (`PhaseInv`). That a finished file was given to its end needs what the flags say of the demuxer
  and the decoder (`EndInv`), and that the converter never holds more than its lag, for which the
  buffer has room (`RoomInv`). The parts of a file are flattened sequences: `FlattenSeq` is a
  recursive function, so what it makes of joined sequences is proved by induction, with the least
  element of a set of numbers in the place of an induction rule (`NatInduct`, `FlattenConcat`).
- **`MCFunctions_proofs`** (data of every size). The functions are proved for all their arguments,
  and then of the specification of the run `functions`, whose invariant `Args` says what arguments
  those are. `ReflectIterator` is the walk on reflected indices, forwards and back (`ForwardStep`,
  `BackStep`, `AtOnData`); in the middle loop, which does not reflect, neither iterator is at the
  end of the data (`PlainTurnsAreSafe`). `BoxSumsAreReflected` is about the whole filter: after each
  turn its two iterators, its sum and its output are a closed form (`FirstWindow`, `AfterTurns`), in
  which the sum is the number of steps of the walk in the window that are at the single one of the
  data (`Hits`; a turn adds a step at one end and takes one away at the other, `HitsMore`,
  `HitsLess`). The loops are recursive functions; that their values are the closed form is proved
  with the least element of a set of numbers in the place of an induction rule (`NatInduct`,
  `SameValues`). `WidthsAreNearest` has the variance of `m` narrow passes (`VarianceIs`), linear in
  `m`, so that the nearest to a zero that is a quotient is the rounded one (`RoundIsNearest`).
  `FiltersCover`: the parts of each of the six filters tile its rectangle.
  The matcher: items have the same hash exactly if they have the same first twelve bits
  (`HashAgrees`); `std::sort` is modelled as insertion, and what is proved of it is that it returns
  the same entries in increasing order (`SortedIs`). So the pairs of entries that the scan counts and
  the pairs of items at a shift are in bijection (`CountedArePairs`, `HistogramIsOfPairs`). The last
  of the largest values of a histogram is a peak, so the best peak is the best shift, and at one that
  has a pair the fingerprints overlap (`OverlapIs`, `AlignmentIsBest`). The ends of the parts are
  increasing (`PeaksRise`, `EndsAre`), so each part has an item, and `Good` is an invariant of the
  loop over them (`TakePartIs`, one lemma per branch: left out, appended, merged), which says of the
  segments what `SegmentsTile` says, of the part of the overlap that was looked at
  (`SegmentsAreGood`). That merged segments are adjacent is false (section 5) and no part of `Good`.
  The codec, for every fingerprint of less than 2^24 items, as many as the header can count: the scan
  of the bits of an item, the loops over the items and the unpacking are recursive functions, and
  `Agrees` is what holds between them after every bit: there is an exceptional bit for each code that
  needs one (`Paired`), there are as many zeros as items, and the distances unpack to the items so
  far and to what of the next has been scanned (`PushAgrees`, `ItemAgrees`, `AllBitsIs`). The unrolled
  loops with their tails put every bit where a formula (`Pack`, `Unpack`) says: a term at its place
  in a turn fills its span with the bits from there (`TermFits`, `TermIs`), the tails have the terms
  of the elements that are left (`TermsAre`), and so every statement is right, whatever the number
  of elements (`UnrolledIs`, `PacksByBits`, `UnpacksByBits`). A packed code is unpacked from the bytes it lies in, whatever is in the others (`UnpackIs`), and the first
  characters of Base64 are the first bytes (`Base64Prefix`). So the decompressor, which reads all that
  follows the header as codes first, finds those of the items up to the last zero (`UpToItemFinds`)
  if they are there, and too few zeros if any byte of them is missing (`UpToItemMisses`); these are
  `DecodeInvertsEncode`, `TruncatedFails` and `HeaderOfFirst`. In `HashIsOfMost` the items with a bit
  and those without add up to all (`MoreThanHalf`).
  `BlocksAssumption` says that the constant `Blocks` yields fingerprints, `MaxItemsAssumption` that
  the header can count `MaxItems`; the theorems on all fingerprints use neither.

The theorems on the resampler alone and most of those of `MCFunctions_proofs` are about operators,
the others about a specification. Every invariant that a passing run checks is proved. Only
model-checked: liveness and its part of the refinements, which are out of the prover's reach, and
`EndsAtLimit` of `Fpcalc`, which is liveness too. The codec is proved for algorithms from 0 to 127,
since a larger one is decoded as a negative number, and for the bytes that the compressor writes,
cut or extended; what it makes of other input is neither checked nor proved.

## 5. What the runs found

Four runs end in a counterexample to something the repository says (`findings` of `PROJECT.json`
has the details):

- `audio_processor.cpp:211`: `Flush` resamples once and stops when the output buffer is full, which
  below the target rate can be before the input is used up.
- `fingerprinter.cpp:77`: `Start` never resets the silence remover, so leading silence is removed
  from the first stream of a context only.
- `fingerprint_matcher.cpp:164`: a segment is merged with the last one kept, also when segments that
  did not match lie between; `Segment::merged` asserts that they are adjacent.
- `audio/ffmpeg_audio_reader.h:207`: the converter of a file outlives it, so a later one that needs
  none is still converted, from the wrong format.

The configurations that are not among the runs show three more:

- `silence_remover.cpp:35`: `abs(-32768)` is converted to `int16_t` again, so the loudest sample
  value lowers the average and counts as silence.
- `cmd/fpcalc.cpp:321`: with chunks shorter than a frame of the reader the remainder wraps and the
  stream is not split again. The run `fpcalc` and the theorem `ChunksAreCut` have the other case.
- `audio/ffmpeg_audio_reader.h:147`: `avformat_open_input` takes the options out of `m_input_opts`.

## 6. Not modelled

Spectra, notes, norms, logarithms and the tables of classifiers (arithmetic on doubles and data);
the FFT backends and other vendored code; option parsing, output formats and the rounding of times
in `fpcalc`; the image builder, spectrum and chroma resampler, which no configuration uses; memory
and NULL checks of the C API; error texts and `GetDuration` of the reader; the alphabet of Base64;
the decoder on bytes that no compressor wrote, beyond truncated and extended fingerprints. Calls that
the API forbids (feeding before the first start, which reads an uninitialized channel count).

## 7. Plan

Done: the stages of the pipeline and their composition, `fpcalc`, the codec, the reader, the
matcher, the hash, and the theorems of section 4. What is left, most useful first:

1. `Fpcalc` with `AudioSource` as its reader, so that what `FFmpegAudioReader` implements is what
   `ProcessFile` relies on.
2. An abstract specification of a fingerprinter, of which `Fingerprinter` and a chunked `Fpcalc` are
   implementations; `ChromaFilter` as another implementation of `Framing`.
3. The decoder on arbitrary input: which inputs it refuses.
4. The C API: ownership of results, failures.
