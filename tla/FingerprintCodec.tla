-------------------------- MODULE FingerprintCodec --------------------------
(***************************************************************************)
(* src/src/fingerprint_compressor.cpp, fingerprint_decompressor.cpp, the   *)
(* bit arrays they use, utils/base64.h, and the calls of chromaprint.h     *)
(* that encode and decode a fingerprint.                                   *)
(*                                                                         *)
(* An item, a byte and a Base64 character is the set of its one bits, bit  *)
(* 0 the least significant.  The unrolled loops of the bit arrays, and the *)
(* tail for each number of elements left over, are tables of their terms;  *)
(* those of Base64 are given by where each bit goes; the alphabet of       *)
(* Base64 and characters outside of it are left out.                       *)
(***************************************************************************)
EXTENDS Integers, Sequences, FiniteSets, FiniteSetsExt

kMaxNormalValue == 7

BitsOf(n, width) == {j \in 0 .. width - 1 : ((n \div 2^j) % 2) = 1}
NumberOf(bits) ==
    LET One(j) == IF j \in bits THEN 2^j ELSE 0
    IN One(0) + One(1) + One(2) + One(3) + One(4) + One(5) + One(6) + One(7)

-----------------------------------------------------------------------------
PackedSize(n, width) == (n * width + 7) \div 8

\* The bit arrays are read and written in turns.  A turn of the loop takes
\* `size` elements and makes a new one in each of its statements, an OR of
\* terms; the term <<i, low, high, to>> masks the bits low .. high of element i
\* of the turn and shifts them to the bits from `to` on.
Term(bits, term) == {j - term[2] + term[4] : j \in bits \cap term[2] .. term[3]}

PackTurn3 ==
    << <<<<0, 0, 2, 0>>, <<1, 0, 2, 3>>, <<2, 0, 1, 6>>>>,
       <<<<2, 2, 2, 0>>, <<3, 0, 2, 1>>, <<4, 0, 2, 4>>, <<5, 0, 0, 7>>>>,
       <<<<5, 1, 2, 0>>, <<6, 0, 2, 2>>, <<7, 0, 2, 5>>>> >>

PackTurn5 ==
    << <<<<0, 0, 4, 0>>, <<1, 0, 2, 5>>>>,
       <<<<1, 3, 4, 0>>, <<2, 0, 4, 2>>, <<3, 0, 0, 7>>>>,
       <<<<3, 1, 4, 0>>, <<4, 0, 3, 4>>>>,
       <<<<4, 4, 4, 0>>, <<5, 0, 4, 1>>, <<6, 0, 1, 6>>>>,
       <<<<6, 2, 4, 0>>, <<7, 0, 4, 3>>>> >>

UnpackTurn3 ==
    << <<<<0, 0, 2, 0>>>>, <<<<0, 3, 5, 0>>>>, <<<<0, 6, 7, 0>>, <<1, 0, 0, 2>>>>,
       <<<<1, 1, 3, 0>>>>, <<<<1, 4, 6, 0>>>>, <<<<1, 7, 7, 0>>, <<2, 0, 1, 1>>>>,
       <<<<2, 2, 4, 0>>>>, <<<<2, 5, 7, 0>>>> >>

UnpackTurn5 ==
    << <<<<0, 0, 4, 0>>>>, <<<<0, 5, 7, 0>>, <<1, 0, 1, 3>>>>, <<<<1, 2, 6, 0>>>>,
       <<<<1, 7, 7, 0>>, <<2, 0, 3, 1>>>>, <<<<2, 4, 7, 0>>, <<3, 0, 0, 4>>>>,
       <<<<3, 1, 5, 0>>>>, <<<<3, 6, 7, 0>>, <<4, 0, 2, 2>>>>, <<<<4, 3, 7, 0>>>> >>

\* The elements left over have a tail of their own for each number of them: as
\* many of the statements, each with as many of its terms, as listed here.
PackTails3 == << <<1>>, <<2>>, <<3, 1>>, <<3, 2>>, <<3, 3>>, <<3, 4, 1>>, <<3, 4, 2>> >>
PackTails5Short ==
    << <<1>>, <<2, 1>>, <<2, 2>>, <<2, 3, 1>>, <<2, 3, 2, 1>>, <<2, 3, 2, 1>>, <<2, 3, 2, 3, 1>> >>
PackTails5 ==
    << <<1>>, <<2, 1>>, <<2, 2>>, <<2, 3, 1>>, <<2, 3, 2, 1>>, <<2, 3, 2, 2>>, <<2, 3, 2, 3, 1>> >>
UnpackTails3 == << <<1, 1>>, <<1, 1, 2, 1, 1>> >>
UnpackTails5 == << <<1>>, <<1, 2, 1>>, <<1, 2, 1, 2>>, <<1, 2, 1, 2, 2, 1>> >>

Unrolled(source, size, turn, tails) ==
    LET turns == Len(source) \div size
        rest == Len(source) % size
        Terms(i, k) == IF i < turns THEN Len(turn[k]) ELSE tails[rest][k]
        Statement(i, k) ==
            UNION {Term(source[i * size + turn[k][x][1] + 1], turn[k][x]) : x \in 1 .. Terms(i, k)}
    IN [d \in 1 .. turns * Len(turn) + (IF rest = 0 THEN 0 ELSE Len(tails[rest])) |->
            Statement((d - 1) \div Len(turn), ((d - 1) % Len(turn)) + 1)]

AsBits(codes) == [c \in DOMAIN codes |-> BitsOf(codes[c], 8)]
AsNumbers(bytes) == [b \in DOMAIN bytes |-> NumberOf(bytes[b])]

PackInt3Array(codes) == Unrolled(AsBits(codes), 8, PackTurn3, PackTails3)
PackInt5Array(codes) == Unrolled(AsBits(codes), 8, PackTurn5, PackTails5)
UnpackInt3Array(bytes) == AsNumbers(Unrolled(bytes, 3, UnpackTurn3, UnpackTails3))
UnpackInt5Array(bytes) == AsNumbers(Unrolled(bytes, 5, UnpackTurn5, UnpackTails5))

-----------------------------------------------------------------------------
Exceptional(value) == value >= kMaxNormalValue

\* A one bit adds how far it is from the last one to m_normal_bits, what is
\* more than a code can be to m_exceptional_bits.
PushBit(bits, bit) ==
    LET value == bit - bits.last_bit
    IN [ normal |-> Append(bits.normal, IF Exceptional(value) THEN kMaxNormalValue ELSE value),
         exceptional |-> IF Exceptional(value)
                           THEN Append(bits.exceptional, value - kMaxNormalValue)
                           ELSE bits.exceptional,
         last_bit |-> bit ]

ProcessSubfingerprint(bits, x) ==
    LET scan[bit \in 0 .. 32] ==
            IF bit = 0 THEN bits
            ELSE IF bit - 1 \in x THEN PushBit(scan[bit - 1], bit) ELSE scan[bit - 1]
    IN [scan[32] EXCEPT !.normal = Append(@, 0), !.last_bit = 0]

\* Each item but the first is XORed with the one before.
Changes(data) ==
    [i \in DOMAIN data |-> IF i = 1 THEN data[1] ELSE SymDiff(data[i], data[i - 1])]

AllBits(data) ==
    LET bits[i \in 0 .. Len(data)] ==
            IF i = 0 THEN [normal |-> <<>>, exceptional |-> <<>>, last_bit |-> 0]
                     ELSE ProcessSubfingerprint(bits[i - 1], Changes(data)[i])
    IN bits[Len(data)]

Header(size, algorithm) ==
    <<BitsOf(algorithm, 8), BitsOf(size \div 2^16, 8), BitsOf(size \div 2^8, 8), BitsOf(size, 8)>>

Compress(data, algorithm) ==
    LET bits == AllBits(data)
    IN Header(Len(data), algorithm)
         \o PackInt3Array(bits.normal) \o PackInt5Array(bits.exceptional)

-----------------------------------------------------------------------------
\* A decoded fingerprint; what a failed call leaves its caller with.
Failed == [ok |-> FALSE, size |-> 0, algorithm |-> 0, fingerprint |-> <<>>]

\* m_algorithm is assigned from a char, which is signed.
Signed(byte) == NumberOf(byte) - (IF 7 \in byte THEN 256 ELSE 0)

DecompressHeader(input) ==
    IF Len(input) < 4 THEN Failed
    ELSE [Failed EXCEPT !.ok = TRUE,
             !.algorithm = Signed(input[1]),
             !.size = NumberOf(input[2]) * 2^16 + NumberOf(input[3]) * 2^8 + NumberOf(input[4])]

Positions(codes, code) == {i \in DOMAIN codes : codes[i] = code}

\* The codes up to the zero that ends the last of n items.
UpToEverything(codes, n) == codes
UpToItem(codes, n) ==
    LET last == {i \in Positions(codes, 0) : Cardinality(Positions(codes, 0) \cap 1 .. i) = n}
    IN IF last = {} THEN codes ELSE SubSeq(codes, 1, Max(last))

FoundEnoughOrLess(found, n) == found <= n
FoundEnough(found, n) == found = n

\* A code adds to the bit last set; a zero ends the item.  (Codes of an item
\* that add up to more than 32, a shift that is undefined, come from no
\* compressor.)
UnpackBit(done, bit) ==
    IF bit = 0
      THEN [done EXCEPT !.output = Append(@, done.value), !.last_bit = 0]
      ELSE [done EXCEPT !.last_bit = @ + bit,
                        !.value = SymDiff(@, {done.last_bit + bit - 1})]

UnpackBits(bits) ==
    LET done[j \in 0 .. Len(bits)] ==
            IF j = 0 THEN [output |-> <<>>, value |-> {}, last_bit |-> 0]
                     ELSE UnpackBit(done[j - 1], bits[j])
    IN done[Len(bits)].output

Decompress(input) ==
    LET header == DecompressHeader(input)
        bits == UpToItem(UnpackInt3Array(SubSeq(input, 5, Len(input))), header.size)
        far == Positions(bits, kMaxNormalValue)
        offset == 4 + PackedSize(Len(bits), 3)
        end == offset + PackedSize(Cardinality(far), 5)
        exceptional == UnpackInt5Array(SubSeq(input, offset + 1, end))
        distances == [i \in DOMAIN bits |->
                        IF i \in far THEN bits[i] + exceptional[Cardinality(far \cap 1 .. i)]
                                     ELSE bits[i]]
    IN IF ~header.ok \/ ~FoundEnough(Cardinality(Positions(bits, 0)), header.size)
            \/ Len(input) < end
         THEN Failed
         ELSE [header EXCEPT !.fingerprint = UnpackBits(distances)]

-----------------------------------------------------------------------------
\* Six bits per character, the first in the high bits of the first byte.
Base64Encode(bytes) ==
    [c \in 1 .. (Len(bytes) * 4 + 2) \div 3 |->
        {j \in 0 .. 5 : \E p \in {6 * (c - 1) + (5 - j)} :
            p < 8 * Len(bytes) /\ 7 - (p % 8) \in bytes[(p \div 8) + 1]}]

Base64Decode(text) ==
    [b \in 1 .. (Len(text) * 3) \div 4 |->
        {j \in 0 .. 7 : \E p \in {8 * (b - 1) + (7 - j)} :
            5 - (p % 6) \in text[(p \div 6) + 1]}]

\* chromaprint_encode_fingerprint; chromaprint_get_fingerprint uses Base64.
Encode(data, algorithm, base64) ==
    IF base64 THEN Base64Encode(Compress(data, algorithm)) ELSE Compress(data, algorithm)

\* chromaprint_decode_fingerprint
Decode(encoded, base64) ==
    Decompress(IF base64 THEN Base64Decode(encoded) ELSE encoded)

\* chromaprint_decode_fingerprint_header
HeaderLengthShort == 5
HeaderLength == 6

DecodeHeader(encoded, base64) ==
    LET first == SubSeq(encoded, 1, Min({HeaderLength, Len(encoded)}))
    IN DecompressHeader(IF base64 THEN Base64Decode(first) ELSE first)
=============================================================================
