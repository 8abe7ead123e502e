--------------------------- MODULE FFmpegAudioReader ---------------------------
(***************************************************************************)
(* src/src/audio/ffmpeg_audio_reader.h: FFmpegAudioReader opens one file   *)
(* after the other, and Read gives the samples of one decoded frame,       *)
(* converted to the output format, each time it is called.                 *)
(*                                                                         *)
(* A sample is its number in the file, in the output format; 0 is noise.   *)
(* A file has the record fields                                            *)
(*     s16, rate    its sample format is signed 16 bit; its rate and       *)
(*                  channels, taken as one number                          *)
(*     packets      records [audio, frames]: a packet of the audio stream  *)
(*                  or of another one, and the frames it decodes to        *)
(*     delay        the frames that the decoder holds back                 *)
(* and a frame the fields nb_samples and samples: its length, and what it  *)
(* becomes in the output format.                                           *)
(*                                                                         *)
(* FFmpeg is external.  Each call may fail; a demuxer gives the packets in *)
(* their order, a decoder their frames, and a converter holds back LAG     *)
(* samples until it is flushed.                                            *)
(***************************************************************************)
EXTENDS Integers, Sequences, SequencesExt, FiniteSetsExt

CONSTANTS
    Files,         \* the files that may be opened
    OutputRates,   \* SetOutputSampleRate and SetOutputChannels; 0: not set
    MIN_BUFFER,    \* 1024 * 8
    LAG,           \* of a converter, in samples
    MaxOpens       \* bound: calls of Open

ASSUME ReaderAssumption ==
    /\ MIN_BUFFER \in Nat \ {0} /\ LAG \in 0 .. MIN_BUFFER
    /\ MaxOpens \in Nat

ASSUME FilesAssumption ==
    /\ \A f \in Files :
          f \in [s16 : BOOLEAN, rate : Nat \ {0}, delay : Nat,
                packets : Seq([audio : BOOLEAN,
                               frames : Seq([nb_samples : Nat \ {0}, samples : Seq(Nat)])])]
    /\ OutputRates \subseteq Nat

VARIABLES
    opened, has_more_packets, has_more_frames,    \* m_opened, m_has_more_...
    output_rate,    \* m_output_sample_rate, m_output_channels
    input_opts,     \* m_input_opts still has the options of the user
    converter,      \* m_converter: the format it converts from, what it holds
    room,           \* m_convert_buffer_nb_samples
    packet,         \* m_packet: the frames in it; <<>> is a packet of size 0
    frame,          \* m_frame
    position,       \* external: packets read from the file
    decoder,        \* external: the frames in the decoder
    pc,             \* "idle", or the call of FFmpeg that Read makes next
    needs_packet,   \* local variable of Read
    outcome,        \* "closed" when the last Open failed, "failed" when the
                    \* last Read did, else "ok"
    file,           \* history: the file opened last
    opens,          \* history: calls of Open
    given           \* history: the samples that Read gave of this file

flags == <<opened, has_more_packets, has_more_frames>>
opening == <<opened, output_rate, input_opts, file, opens>>    \* set by Open
vars == <<opening, has_more_packets, has_more_frames, converter, room, packet, frame,
          position, decoder, pc, needs_packet, outcome, given>>

NoConverter == [rate |-> 0, s16 |-> TRUE, held |-> <<>>]
NoFrame == [nb_samples |-> 0, samples |-> <<>>]

IsFinished == ~has_more_packets /\ ~has_more_frames

\* The audio in the frames of a sequence of packets, and in a file.
SamplesOf(frames) == FlattenSeq([i \in DOMAIN frames |-> frames[i].samples])
FramesOf(packets) ==
    FlattenSeq([i \in DOMAIN packets |-> IF packets[i].audio THEN packets[i].frames ELSE <<>>])
Audio(f) == SamplesOf(FramesOf(f.packets))

Init ==
    /\ opened = FALSE /\ has_more_packets = TRUE /\ has_more_frames = TRUE
    /\ output_rate \in OutputRates
    /\ input_opts = TRUE
    /\ converter = NoConverter /\ room = 0
    /\ packet = <<>> /\ frame = NoFrame
    /\ position = 0 /\ decoder = <<>>
    /\ pc = "idle" /\ needs_packet = FALSE
    /\ outcome = "closed"
    /\ file \in Files /\ opens = 0 /\ given = <<>>

\* The calls that Open makes, in their order.
OpenCalls == <<"av_packet_alloc", "avformat_open_input", "avformat_find_stream_info",
               "av_find_best_stream", "avcodec_parameters_to_context", "avcodec_open2",
               "av_frame_alloc", "FFmpegAudioProcessor::Init">>

\* Whether the file is to be converted to this rate.
NeedsConverter(f, rate) == ~f.s16 \/ f.rate # rate

NewConverter(f) == [rate |-> f.rate, s16 |-> f.s16, held |-> <<>>]

\* Open, where the first `done` of its calls succeed.  Close comes first: it
\* frees the packet, the frame and what is external, and leaves the flags and
\* the converter.  avformat_open_input takes the options it uses out of
\* m_input_opts.
Open(f, done) ==
    /\ pc = "idle" /\ opens < MaxOpens
    /\ opens' = opens + 1
    /\ packet' = <<>> /\ frame' = NoFrame
    /\ position' = 0 /\ decoder' = <<>>
    /\ input_opts' = (input_opts /\ done < 2)
    /\ output_rate' = IF done >= 7 /\ output_rate = 0 THEN f.rate ELSE output_rate
    /\ done = 7 => NeedsConverter(f, output_rate')
    /\ converter' = IF done >= 7 /\ NeedsConverter(f, output_rate')
                      THEN NewConverter(f) ELSE converter
    /\ IF done = Len(OpenCalls)
         THEN opened' = TRUE /\ has_more_packets' = TRUE /\ has_more_frames' = TRUE
         ELSE UNCHANGED flags
    /\ outcome' = IF done = Len(OpenCalls) THEN "ok" ELSE "closed"
    /\ file' = f /\ given' = <<>>
    /\ UNCHANGED <<room, pc, needs_packet>>

-----------------------------------------------------------------------------
\* Read.  The program reads on until a call fails or the file is finished.
Read ==
    /\ pc = "idle" /\ outcome = "ok"
    /\ opened /\ ~IsFinished
    /\ needs_packet' = FALSE
    /\ pc' = "send"
    /\ UNCHANGED <<opening, has_more_packets, has_more_frames, converter, room,
                   packet, frame, position, decoder, outcome, given>>

Failed(call) ==
    /\ pc = call
    /\ pc' = "idle" /\ outcome' = "failed"
    /\ UNCHANGED <<opening, has_more_packets, has_more_frames, converter, packet, frame,
                   position, decoder, needs_packet, given>>

WantedAny(read) == TRUE
Wanted(read) == read.audio

\* av_read_frame, while a packet is needed; one of another stream is
\* unreferenced.
ReadPacket ==
    /\ pc = "packet"    \* needs_packet, and m_packet is empty
    /\ \/ /\ position = Len(file.packets)    \* AVERROR_EOF
          /\ has_more_packets' = FALSE
          /\ needs_packet' = FALSE /\ pc' = "send"
          /\ UNCHANGED <<position, packet>>
       \/ /\ position < Len(file.packets)
          /\ position' = position + 1
          /\ IF Wanted(file.packets[position'])
               THEN /\ packet' = file.packets[position'].frames
                    /\ needs_packet' = FALSE /\ pc' = "send"
               ELSE UNCHANGED <<packet, needs_packet, pc>>
          /\ UNCHANGED has_more_packets
    /\ UNCHANGED <<opening, has_more_frames, converter, room, frame, decoder, outcome, given>>

ReadPacketFails == Failed("packet") /\ UNCHANGED room

\* avcodec_send_packet.  It does not return AVERROR(EAGAIN), which would keep
\* the packet for the next call of Read: a packet is read only after the
\* decoder had no frame to give, and then it takes one.
Send ==
    /\ pc = "send"
    /\ decoder' = decoder \o packet /\ packet' = <<>>
    /\ pc' = "receive"
    /\ UNCHANGED <<opening, has_more_packets, has_more_frames, converter, room, frame,
                   position, needs_packet, outcome, given>>

SendFails == packet # <<>> /\ Failed("send") /\ UNCHANGED room

\* A frame is due.
Due == Len(decoder) > file.delay

AfterLastFrameOn == TRUE
AfterLastFrame == FALSE

\* avcodec_receive_frame: without a frame that is due, AVERROR(EAGAIN).  There
\* is no AVERROR_EOF, since the decoder is never told that the file has ended.
Receive ==
    /\ pc = "receive"
    /\ \/ /\ Due
          /\ frame' = Head(decoder) /\ decoder' = Tail(decoder)
          /\ pc' = "convert"
          /\ UNCHANGED <<needs_packet, has_more_frames>>
       \/ /\ ~Due /\ has_more_packets
          /\ frame' = NoFrame
          /\ needs_packet' = TRUE /\ pc' = "packet"
          /\ UNCHANGED <<decoder, has_more_frames>>
       \/ /\ ~Due /\ ~has_more_packets
          /\ frame' = NoFrame
          /\ has_more_frames' = AfterLastFrame /\ pc' = "convert"
          /\ UNCHANGED <<decoder, needs_packet>>
    /\ UNCHANGED <<opening, has_more_packets, converter, room, packet, position, outcome, given>>

ReceiveFails == Failed("receive") /\ UNCHANGED room

RoomForFrame(nb_samples) == IF nb_samples > room THEN nb_samples ELSE room

\* av_samples_alloc makes the buffer longer for a longer frame, never shorter.
RoomFor(nb_samples) == IF nb_samples > room THEN Max({MIN_BUFFER, nb_samples}) ELSE room

\* The converter was set up for another format: it takes the data for what
\* they are not.
Stale == converter # NoConverter /\ [s16 |-> converter.s16, rate |-> converter.rate]
                                        # [s16 |-> file.s16, rate |-> file.rate]

Heard(samples) == IF Stale THEN [i \in DOMAIN samples |-> 0] ELSE samples

\* swr_convert gives up to n samples of those it holds.
Give(held, n) ==
    /\ given' = given \o SubSeq(held, 1, Min({n, Len(held)}))
    /\ converter' = [converter EXCEPT !.held = SubSeq(held, Min({n, Len(held)}) + 1, Len(held))]

Convert ==
    /\ pc = "convert"
    /\ \/ /\ frame.nb_samples > 0 /\ converter # NoConverter
          /\ room' = RoomFor(frame.nb_samples)
          /\ LET held == converter.held \o Heard(frame.samples)
             IN Give(held, Min({room', Max({0, Len(held) - LAG})}))
       \/ /\ frame.nb_samples > 0 /\ converter = NoConverter
          /\ given' = given \o frame.samples
          /\ UNCHANGED <<converter, room>>
       \/ /\ frame.nb_samples = 0 /\ converter # NoConverter /\ IsFinished
          /\ Give(converter.held, room)
          /\ UNCHANGED room
       \/ /\ frame.nb_samples = 0 /\ ~(converter # NoConverter /\ IsFinished)
          /\ UNCHANGED <<given, converter, room>>
    /\ pc' = "idle"
    /\ UNCHANGED <<opening, has_more_packets, has_more_frames, packet, frame, position,
                   decoder, needs_packet, outcome>>

\* The allocation or the conversion fails; the size of the buffer has changed.
ConvertFails ==
    /\ converter # NoConverter
    /\ frame.nb_samples > 0 \/ IsFinished
    /\ Failed("convert")
    /\ room' = RoomFor(frame.nb_samples)

-----------------------------------------------------------------------------
\* What Read does until it returns.
Reading == ReadPacket \/ Send \/ Receive \/ Convert
ReadingFails == ReadPacketFails \/ SendFails \/ ReceiveFails \/ ConvertFails

Next ==
    \/ \E f \in Files, done \in 0 .. Len(OpenCalls) : Open(f, done)
    \/ Read
    \/ Reading
    \/ ReadingFails

\* Read runs until it returns, and the program reads on (fpcalc.cpp:291).  No
\* call has to fail, and no file has to be opened.
Spec == Init /\ [][Next]_vars /\ WF_vars(Reading) /\ WF_vars(Read)

-----------------------------------------------------------------------------
\* No sample of the file is lost, repeated or out of order between the
\* demuxer and the caller, nor comes from another stream: what Read gave, what
\* the converter, the frame, the decoder and the packet hold, and the packets
\* to come make up the file.
NothingLost ==
    outcome = "ok" /\ ~Stale =>
        given \o converter.held
              \o (IF pc = "convert" THEN frame.samples ELSE <<>>)
              \o SamplesOf(decoder) \o SamplesOf(packet)
              \o SamplesOf(FramesOf(SubSeq(file.packets, position + 1, Len(file.packets))))
            = Audio(file)

\* What the end of a file can lose: frames that the decoder delays, since it
\* is not drained, and the backlog of frames that became longer than the
\* buffer, since the converter is flushed once.
Whole(f) ==
    /\ f.delay = 0
    /\ \A frames \in Range(FramesOf(f.packets)) : Len(frames.samples) <= MIN_BUFFER

\* The reader is an AudioSource, where a file that meets the converter of
\* another counts as not opened: Read gives the next samples of the file,
\* says that it is finished when all of them were given, including what the
\* converter holds back, and returns.
SourceStatus ==
    IF outcome = "closed" \/ Stale THEN "closed"
    ELSE IF pc # "idle" THEN "reading"
    ELSE IF outcome = "failed" THEN "failed"
    ELSE IF IsFinished THEN "finished" ELSE "open"

SourceGiven == IF outcome = "closed" \/ Stale THEN <<>> ELSE given

Source == INSTANCE AudioSource WITH status <- SourceStatus, given <- SourceGiven

ImplementsSource == Source!Source

\* A program that reads on comes to the end of the file or to a failure: Read
\* does not return forever with nothing.
FileEnds == outcome = "ok" ~> IsFinished \/ outcome # "ok"

\* fpcalc.cpp:39, "Generate fingerprints from audio files/streams.": a file
\* that is opened after another one is read with the converter, or without
\* one, that its own format calls for.
ConverterIsForFile ==
    [][outcome = "ok" /\ opens' # opens /\ outcome' = "ok" => ~Stale']_vars

\* The options of the user (-format, -rate, -channels) are there for each file
\* that is opened, not only for the first.
OptionsReachFile == [][opens' # opens /\ outcome' = "ok" => input_opts]_vars
=============================================================================
