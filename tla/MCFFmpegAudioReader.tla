-------------------------- MODULE MCFFmpegAudioReader --------------------------
(***************************************************************************)
(* FFmpegAudioReader on small files.                                       *)
(***************************************************************************)
EXTENDS FFmpegAudioReader

Frame(n, samples) == [nb_samples |-> n, samples |-> samples]
Packet(frames) == [audio |-> TRUE, frames |-> frames]
OtherPacket == [audio |-> FALSE, frames |-> <<Frame(1, <<9>>)>>]

\* In the output format already; a packet of three frames is the last of the
\* audio, with packets of another stream before it and after it.
Native == [s16 |-> TRUE, rate |-> 1, delay |-> 0, packets |-> <<
    Packet(<<Frame(2, <<1, 2>>)>>), OtherPacket,
    Packet(<<Frame(1, <<3>>), Frame(2, <<4, 5>>), Frame(1, <<6>>)>>), OtherPacket>>]

\* To be converted, at half the rate; its last packet has two frames.
Converted == [s16 |-> FALSE, rate |-> 2, delay |-> 0, packets |-> <<
    OtherPacket, Packet(<<Frame(4, <<1, 2>>), Frame(5, <<3, 4>>)>>),
    Packet(<<Frame(2, <<5>>), Frame(6, <<6, 7, 8>>)>>)>>]

\* Decoded one frame late.
Delayed == [s16 |-> FALSE, rate |-> 1, delay |-> 1, packets |-> <<
    Packet(<<Frame(2, <<1, 2>>)>>), Packet(<<Frame(2, <<3, 4>>)>>)>>]

\* Converted to twice the samples, more than the buffer holds.
Stretched == [s16 |-> TRUE, rate |-> 3, delay |-> 0, packets |-> <<
    Packet(<<Frame(4, <<1, 2, 3, 4, 5, 6, 7, 8>>)>>),
    Packet(<<Frame(5, <<9, 10, 11, 12, 13, 14, 15, 16, 17, 18>>)>>)>>]

\* Converted, in frames shorter than what the converter holds back.
Short == [s16 |-> FALSE, rate |-> 1, delay |-> 0, packets |-> <<
    Packet(<<Frame(1, <<1>>)>>), Packet(<<Frame(1, <<2>>), Frame(1, <<3>>)>>)>>]

\* No audio.
Silent == [s16 |-> FALSE, rate |-> 1, delay |-> 0, packets |-> <<OtherPacket>>]

MCFiles == {Native, Converted, Delayed, Stretched, Short, Silent}
=============================================================================
