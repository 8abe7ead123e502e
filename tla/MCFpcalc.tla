------------------------------ MODULE MCFpcalc ------------------------------
(* fpcalc on two files or streams of at most 6 packets or endless; an item takes 5
   samples (a delay of 3) and there is one every 2. *)
EXTENDS Fpcalc

MCEndless == 99

Option(stream, chunk, o, ignore) ==
    [stream_limit |-> stream, chunk_limit |-> chunk, overlap |-> o, ignore_errors |-> ignore]

\* Chunks that items do and do not tile, with and without -overlap; -overlap
\* without -chunk; a limit that ends amid a chunk, or with one; chunks that are
\* longer than every frame.
MCOptions ==
    {Option(stream, chunk, o, FALSE) : stream \in {12, 14}, chunk \in {0, 4, 5}, o \in BOOLEAN}
        \cup {Option(12, 5, TRUE, TRUE), Option(7, 4, TRUE, FALSE), Option(0, 4, TRUE, FALSE)}
        \cup {Option(20, 8, o, FALSE) : o \in BOOLEAN}

\* Chunks shorter than the frames of the reader.
MCShortChunks == {Option(24, 4, TRUE, FALSE)}

MCPackets == {0, 3, 6, MCEndless}
=============================================================================
