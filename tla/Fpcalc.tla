------------------------------- MODULE Fpcalc -------------------------------
(***************************************************************************)
(* src/src/cmd/fpcalc.cpp: fpcalc reads audio files, feeds them to one     *)
(* fingerprinter and prints a fingerprint of each, or of each of its       *)
(* chunks.                                                                 *)
(*                                                                         *)
(* One step per call of the library that ProcessFile makes; durations are  *)
(* counted in samples (no rounding to seconds) and timestamps from the     *)
(* start of the file (no -ts).  The reader is                              *)
(* what ProcessFile sees of FFmpegAudioReader: a file is a number of       *)
(* packets, or an endless stream, and a Read gives the samples decoded     *)
(* from one packet, maybe none, or fails.                                  *)
(***************************************************************************)
EXTENDS Integers, Sequences, SequencesExt

CONSTANTS
    BUFFER, FRAME, OVERLAP, COEFFICIENTS, WIDTH, REMOVE_SILENCE,
    MaxFeed, MaxStream, MaxQuiet,    \* see Fingerprinter
    SIZE_T,          \* the number of values of a size_t
    Options,         \* the command lines: [stream_limit, chunk_limit, overlap, ignore_errors]
    Files,           \* the number of files
    Packets,         \* how many packets a file may have, or Endless
    Endless,
    FrameSizes       \* the samples one Read may give

\* Those of Fingerprinter.
ASSUME FingerprinterAssumption ==
    /\ BUFFER \in Nat \ {0} /\ FRAME \in Nat \ {0} /\ OVERLAP \in 0 .. FRAME - 1
    /\ COEFFICIENTS \in Nat \ {0} /\ WIDTH \in Nat \ {0}
    /\ REMOVE_SILENCE \in BOOLEAN
    /\ MaxFeed \in Nat /\ MaxStream \in Nat /\ MaxQuiet \in Nat

\* A size_t counts all the audio there is; the limits are counts, too.
ASSUME SizesAssumption ==
    /\ SIZE_T \in Nat /\ MaxStream < SIZE_T
    /\ FrameSizes \subseteq Nat
    /\ Files \in Nat \ {0}
    /\ Options \subseteq [stream_limit : 0 .. SIZE_T - 1, chunk_limit : 0 .. SIZE_T - 1,
                          overlap : BOOLEAN, ignore_errors : BOOLEAN]

VARIABLES
    buffer, silent, window, frames, rows, fingerprint,
    fed, base, quiet, from, cleared,     \* see Fingerprinter
    pc,                  \* the next step of ProcessFile, or "exit"
    options,             \* g_max_duration, g_max_chunk_duration, g_overlap, g_ignore_errors
    file,                \* the number of the file
    packets,             \* external: the packets the reader still has
    stream_size, chunk_size, extra_chunk_limit,
    first_chunk, read_failed, got_results, stream_done,
    frame_size,          \* what is left of the frame after first_part_size
    ts,
    fileAt,              \* history: samples fed before this file
    printed,             \* history: the results printed for this file
    status               \* the exit status, or -1

fp == <<buffer, silent, window, frames, rows, fingerprint, fed, base, quiet, from, cleared>>
locals == <<stream_size, chunk_size, extra_chunk_limit, first_chunk, read_failed,
            got_results, stream_done, frame_size, ts>>
vars == <<fp, pc, options, file, packets, locals, fileAt, printed, status>>

FP == INSTANCE Fingerprinter

chunk_limit == options.chunk_limit
stream_limit == options.stream_limit

Overlapping == chunk_limit > 0 /\ options.overlap
overlap == IF Overlapping THEN FP!delay ELSE 0

Minus(a, b) == (a - b) % SIZE_T    \* of two size_t

Init ==
    /\ FP!Init
    /\ pc = "open" /\ options \in Options /\ file = 1 /\ status = -1
    /\ packets = 0 /\ fileAt = 0 /\ printed = <<>>
    /\ stream_size = 0 /\ chunk_size = 0 /\ extra_chunk_limit = 0
    /\ first_chunk = TRUE /\ read_failed = FALSE /\ got_results = FALSE
    /\ stream_done = FALSE /\ frame_size = 0 /\ ts = 0

Exit(code) ==
    /\ status' = code
    /\ pc' = "exit"

-----------------------------------------------------------------------------
OpenFails ==
    /\ pc = "open"
    /\ Exit(2)
    /\ printed' = <<>>
    /\ UNCHANGED <<fp, options, file, packets, locals, fileAt>>

OpenFile ==
    /\ pc = "open"
    /\ FP!Start
    /\ packets' \in Packets /\ (stream_limit = 0 => packets' # Endless)    \* bound
    /\ stream_size' = 0 /\ chunk_size' = 0
    /\ extra_chunk_limit' = IF Overlapping THEN FP!delay ELSE 0
    /\ first_chunk' = TRUE /\ read_failed' = FALSE /\ got_results' = FALSE
    /\ stream_done' = FALSE /\ frame_size' = 0 /\ ts' = 0
    /\ fileAt' = fed /\ printed' = <<>>
    /\ pc' = "read"
    /\ UNCHANGED <<options, file, status>>

\* reader.IsFinished()
IsFinished == packets = 0

EndOfFile ==
    /\ pc = "read" /\ IsFinished
    /\ pc' = "last_finish"
    /\ UNCHANGED <<fp, options, file, packets, locals, fileAt, printed, status>>

ReadFails ==
    /\ pc = "read" /\ ~IsFinished
    /\ read_failed' = TRUE
    /\ pc' = "last_finish"
    /\ UNCHANGED <<fp, options, file, packets, stream_size, chunk_size, extra_chunk_limit,
                   first_chunk, got_results, stream_done, frame_size, ts, fileAt, printed,
                   status>>

TakePacket ==
    /\ pc = "read" /\ ~IsFinished
    /\ packets' = IF packets = Endless THEN packets ELSE packets - 1

\* A Read that gives n samples is cut to what the stream limit leaves.
CutShort(n) == stream_limit > 0 /\ n > Minus(stream_limit, stream_size)
Allowed(n) == IF CutShort(n) THEN Minus(stream_limit, stream_size) ELSE n

AfterEmptyContinue(n) == "read"
\* Where an empty frame leads: the stream's end, or the next Read.
AfterEmpty(n) == IF CutShort(n) THEN "last_finish" ELSE "read"

ReadNothing(n) ==
    /\ TakePacket
    /\ Allowed(n) = 0
    /\ stream_done' = CutShort(n)
    /\ frame_size' = 0
    /\ pc' = AfterEmpty(n)
    /\ UNCHANGED <<fp, options, file, stream_size, chunk_size, extra_chunk_limit, first_chunk,
                   read_failed, got_results, ts, fileAt, printed, status>>

\* How much the chunk takes before it is done.
RemainingWithoutExtra == Minus(chunk_limit, chunk_size)
RemainingOfChunk == Minus(chunk_limit + extra_chunk_limit, chunk_size)
ChunkDone(size) == chunk_limit > 0 /\ size > RemainingOfChunk

\* The frame's first part is fed at once, the rest when the chunk was printed.
ReadFrame(n) ==
    LET size == Allowed(n)
        first_part_size == IF ChunkDone(size) THEN RemainingOfChunk ELSE size
    IN /\ TakePacket
       /\ size > 0
       /\ stream_done' = CutShort(n)
       /\ stream_size' = stream_size + size
       /\ FP!Consume(first_part_size)
       /\ chunk_size' = chunk_size + first_part_size
       /\ frame_size' = size - first_part_size
       /\ pc' = IF ChunkDone(size) THEN "chunk_finish" ELSE "rest"
       /\ UNCHANGED <<options, file, extra_chunk_limit, first_chunk, read_failed,
                      got_results, ts, fileAt, printed, status>>

-----------------------------------------------------------------------------
ChunkDuration == Minus(chunk_size, extra_chunk_limit) + overlap

\* PrintResult returns, having printed what there is, or nothing after the
\* first chunk.
PrintResultAnyEmpty ==
    IF fingerprint = <<>>
      THEN UNCHANGED printed
      ELSE printed' = Append(printed, [ts |-> ts, duration |-> ChunkDuration,
                                       items |-> fingerprint, at |-> fed - fileAt])
PrintResult ==
    IF fingerprint = <<>>
      THEN /\ ~first_chunk
           /\ UNCHANGED printed
      ELSE printed' = Append(printed, [ts |-> ts, duration |-> ChunkDuration,
                                       items |-> fingerprint, at |-> fed - fileAt])

\* "ERROR: Empty fingerprint"
EmptyFingerprint ==
    /\ pc \in {"chunk_print", "last_print"}
    /\ pc = "last_print" => chunk_size > 0
    /\ fingerprint = <<>> /\ first_chunk
    /\ Exit(2)
    /\ UNCHANGED <<fp, options, file, packets, locals, fileAt, printed>>

ChunkFinish ==
    /\ pc = "chunk_finish"
    /\ FP!Finish
    /\ pc' = "chunk_print"
    /\ UNCHANGED <<options, file, packets, locals, fileAt, printed, status>>

ChunkPrint ==
    /\ pc = "chunk_print"
    /\ PrintResult
    /\ got_results' = TRUE
    /\ ts' = ts + ChunkDuration
    /\ pc' = "chunk_restart"
    /\ UNCHANGED <<fp, options, file, packets, stream_size, chunk_size, extra_chunk_limit,
                   first_chunk, read_failed, stream_done, frame_size, fileAt, status>>

\* Overlapping chunks go on with the stream, others start a new one.
StartChunkAlways == FP!Start
StartChunk == IF options.overlap THEN FP!ClearFingerprint ELSE FP!Start

ExtraOfEveryChunk == extra_chunk_limit
ExtraOfNextChunk == IF first_chunk THEN 0 ELSE extra_chunk_limit

ChunkRestart ==
    /\ pc = "chunk_restart"
    /\ StartChunk
    /\ ts' = ts - (IF options.overlap THEN overlap ELSE 0)
    /\ extra_chunk_limit' = ExtraOfNextChunk
    /\ first_chunk' = FALSE
    /\ chunk_size' = 0
    /\ pc' = "rest"
    /\ UNCHANGED <<options, file, packets, stream_size, read_failed, got_results, stream_done,
                   frame_size, fileAt, printed, status>>

Rest ==
    /\ pc = "rest"
    /\ IF frame_size > 0 THEN FP!Consume(frame_size) ELSE UNCHANGED fp
    /\ chunk_size' = chunk_size + frame_size
    /\ frame_size' = 0
    /\ pc' = IF stream_done THEN "last_finish" ELSE "read"
    /\ UNCHANGED <<options, file, packets, stream_size, extra_chunk_limit, first_chunk,
                   read_failed, got_results, stream_done, ts, fileAt, printed, status>>

-----------------------------------------------------------------------------
LastFinish ==
    /\ pc = "last_finish"
    /\ FP!Finish
    /\ pc' = "last_print"
    /\ UNCHANGED <<options, file, packets, locals, fileAt, printed, status>>

NotEnough ==
    /\ pc = "last_print"
    /\ chunk_size = 0 /\ first_chunk
    /\ Exit(2)
    /\ UNCHANGED <<fp, options, file, packets, locals, fileAt, printed>>

LastPrint ==
    /\ pc = "last_print"
    /\ \/ /\ chunk_size > 0
          /\ PrintResult
          /\ got_results' = TRUE
       \/ /\ chunk_size = 0 /\ ~first_chunk
          /\ UNCHANGED <<printed, got_results>>
    /\ \/ /\ read_failed /\ ~options.ignore_errors
          /\ Exit(IF got_results' THEN 3 ELSE 2)
          /\ UNCHANGED file
       \/ /\ ~read_failed \/ options.ignore_errors
          /\ IF file = Files
               THEN Exit(0) /\ UNCHANGED file
               ELSE pc' = "open" /\ file' = file + 1 /\ UNCHANGED status
    /\ UNCHANGED <<fp, options, packets, stream_size, chunk_size, extra_chunk_limit,
                   first_chunk, read_failed, stream_done, frame_size, ts, fileAt>>

Read == \E n \in FrameSizes : ReadNothing(n) \/ ReadFrame(n)

\* All steps but failures of the reader.
Progress ==
    \/ OpenFile \/ EndOfFile \/ Read
    \/ EmptyFingerprint \/ ChunkFinish \/ ChunkPrint \/ ChunkRestart \/ Rest
    \/ LastFinish \/ NotEnough \/ LastPrint

Next == OpenFails \/ ReadFails \/ Progress

\* The program goes on, and an endless stream always has some more audio.
Fairness ==
    /\ WF_vars(Progress)
    /\ SF_vars(\E n \in FrameSizes : ReadFrame(n))

Spec == Init /\ [][Next]_vars /\ Fairness

-----------------------------------------------------------------------------
TypeOK ==
    /\ FP!TypeOK
    /\ chunk_size \in 0 .. SIZE_T - 1 /\ stream_size \in 0 .. SIZE_T - 1
    /\ extra_chunk_limit \in {0, FP!delay}
    /\ status \in {-1, 0, 2, 3} /\ (status = -1 <=> pc # "exit")

FileDone == (pc = "open" /\ file > 1) \/ pc = "exit"

\* -overlap "to make sure audio on the edges is fingerprinted": the results
\* of a file are, one after the other, the fingerprint of the whole file up
\* to the stream limit, with no item missing and none repeated.
AllAudioFingerprinted ==
    LET length == fed - fileAt
    IN /\ stream_limit > 0 => length <= stream_limit /\ (stream_done => stream_size = stream_limit)
       /\ FileDone /\ (Overlapping \/ chunk_limit = 0) /\ printed # <<>> =>
            FlattenSeq([i \in DOMAIN printed |-> printed[i].items]) =
                [k \in 1 .. FP!ItemCount(length) |-> FP!ItemSamples(fileAt + 1, k)]

\* Each result says where it comes from: all its items lie in the duration
\* printed with it, or start less than an item before; the duration ends with
\* the audio that was fed when it was printed.
ResultsMatchClaim ==
    chunk_limit > 0 =>
        \A i \in DOMAIN printed :
            LET r == printed[i]
            IN /\ r.ts + r.duration = r.at
               /\ \A k \in DOMAIN r.items :
                     r.items[k] \subseteq
                         fileAt + r.ts - FP!item_duration + 2 .. fileAt + r.ts + r.duration

\* A script sees from the exit status whether the last file gave anything:
\* 2 if not, 3 if it did before its end was lost, and never 0 for a file
\* without a fingerprint.
ExitTellsResults ==
    FileDone =>
        /\ status = 2 <=> printed = <<>>
        /\ status = 3 => read_failed
        /\ status \in {0, 3} \/ pc = "open" => got_results

\* -length ends also a stream that does not end by itself, whether or not the
\* limit falls together with the end of a frame or of a chunk.
EndsAtLimit == <>(pc = "exit")

\* fpcalc.cpp:46: -chunk is to "split the input audio into chunks of this
\* duration": no result covers more than the chunk and the overlap.
ChunksOfThisDuration ==
    chunk_limit > 0 =>
        \A i \in DOMAIN printed : printed[i].duration <= chunk_limit + overlap

\* Where no frame of the reader is longer than a chunk, every result covers
\* exactly the chunk and the overlap, the first one with its longer limit too;
\* only the last one may be shorter.
FramesFit == chunk_limit > 0 /\ \A n \in FrameSizes : n <= chunk_limit

ChunksAreExact ==
    FramesFit =>
        \A i \in DOMAIN printed :
            /\ printed[i].duration <= chunk_limit + overlap
            /\ i < Len(printed) => printed[i].duration = chunk_limit + overlap
=============================================================================
