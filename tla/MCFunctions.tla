----------------------------- MODULE MCFunctions -----------------------------
(* The pure functions of the library; a state is one choice of arguments:

   - the six filters on all rectangles of up to MaxSide rows and columns;
   - fingerprints of up to MaxItems items, for the codec and the hash.  The
     items have one bits that are 1 to 32 apart, on both sides of the 7 that
     makes a distance exceptional, up to four exceptional ones each; in up to
     MaxToggled items they are further apart.  The bit arrays have full turns
     and every tail, with each bit of an exceptional code at each place;
   - box filters up to MaxWindow wide on up to MaxSide values, and the widths
     of Gaussian ones of up to MaxPasses passes, the variance from 1 to
     MaxVariance (64 in the matcher);
   - pairs of fingerprints for the matcher: all pairs of up to MaxMatched
     items out of three, two of which have the same hash, and longer ones that
     differ in the blocks of MCBlocks and are shifted and cut. *)
EXTENDS FilterUtils, SimHash, FingerprintMatcher

CONSTANTS MaxSide, MaxItems, MaxToggled, MaxWindow, MaxPasses, MaxVariance, MaxMatched, Blocks

MCBlocks ==
    LET Lengths == {6, 20, 24} IN
    { <<b>> : b \in {0, 5, 12} \X {24} }
        \cup {<<b, c>> : b \in {0, 20} \X Lengths, c \in {3, 12} \X Lengths}
        \cup {<< <<0, 20>>, <<d, 20>>, <<e, 20>> >> : d \in {4, 20}, e \in {0, 5}}
        \cup {<< <<0, 70>> >>}

VARIABLES
    filter,       \* type, row, column, rows and columns of a filter
    data,         \* a fingerprint
    algorithm,    \* of the fingerprint
    window,       \* size and width of a box filter
    gaussian,     \* variance and passes of a Gaussian one
    matched,      \* two fingerprints
    match         \* what Match makes of them

vars == <<filter, data, algorithm, window, gaussian, matched, match>>

Items == { {}, {0}, {6}, {31}, {0, 7}, {5, 11, 18}, {6, 13, 20, 27}, 0 .. 31 }

\* Items of which each differs from the one before in the same bits.
Toggled(n, first, bits) == [i \in 1 .. n |-> IF i % 2 = 1 THEN first ELSE SymDiff(first, bits)]

\* Two bits so far apart that both codes are exceptional, each bit set in some.
FarApart == { {22, 31}, {8, 31}, {15, 31}, {10, 30}, {19, 30} }

Fingerprints ==
    (UNION {[1 .. n -> Items] : n \in 0 .. MaxItems})
        \cup {Toggled(n, bits, bits) : n \in 0 .. MaxToggled, bits \in FarApart}
        \cup {Toggled(n, {31}, bits) : n \in 0 .. MaxToggled, bits \in FarApart}

\* The header has 24 bits for the number of items.
ASSUME MaxItemsAssumption == MaxItems \in 0 .. 2^24 - 1 /\ MaxToggled \in 0 .. 2^24 - 1

\* What may follow an encoded fingerprint, one or two bytes of it.
Trailing == { <<{}>>, <<0 .. 7>>, <<{0}, {7}>>, <<{}, {}>> }

\* Two items with the hash 1 that differ in the other bits, and one of hash 2.
Hashed == { {20}, {20} \cup 0 .. 11, {21} }

\* A fingerprint whose items all have different hashes, those of each block
\* <<distance, length>> with so many of the other bits.
InBlocks(blocks) ==
    LET bits == FoldLeft(LAMBDA s, b : s \o [i \in 1 .. b[2] |-> b[1]], <<>>, blocks)
    IN [i \in DOMAIN bits |-> {b + 20 : b \in BitsOf(i, 12)} \cup 0 .. bits[i] - 1]

Size(blocks) == FoldLeft(LAMBDA s, b : s + b[2], 0, blocks)

\* One against the same without the other bits, of which `cut` are missing at
\* the begin; the last ones are too long for the matcher.
Shifted(blocks, cut) ==
    << InBlocks(blocks), SubSeq(InBlocks(<< <<0, Size(blocks)>> >>), cut + 1, Size(blocks)) >>

\* The blocks make fingerprints.
ASSUME BlocksAssumption ==
    \A b \in Blocks, cut \in {0, 7} :
        Shifted(b, cut) \in Seq(SUBSET (0 .. 31)) \X Seq(SUBSET (0 .. 31))

Short == UNION {[1 .. n -> Hashed] : n \in 0 .. MaxMatched}

Nothing ==
    /\ filter = <<0, 0, 0, 1, 1>>
    /\ data = <<>> /\ algorithm = 0
    /\ window = <<1, 0>> /\ gaussian = <<1, 1>>
    /\ matched = << <<>>, <<>> >>
    /\ match = [ok |-> TRUE, segments |-> <<>>, merges |-> {}]

Init == Nothing

ChooseFilter ==
    /\ Nothing
    /\ filter' \in (0 .. 5) \X (0 .. 1) \X (0 .. 1) \X (1 .. MaxSide) \X (1 .. MaxSide)
    /\ UNCHANGED <<data, algorithm, window, gaussian, matched, match>>

ChooseFingerprint ==
    /\ Nothing
    /\ data' \in Fingerprints
    /\ algorithm' \in {1, 127}
    /\ UNCHANGED <<filter, window, gaussian, matched, match>>

ChooseWindow ==
    /\ Nothing
    /\ window' \in (1 .. MaxSide) \X (0 .. MaxWindow)
    /\ gaussian' \in (1 .. MaxVariance) \X (1 .. MaxPasses)
    /\ window' = <<1, 0>> \/ gaussian' = <<1, 1>>
    /\ UNCHANGED <<filter, data, algorithm, matched, match>>

ChooseMatch ==
    /\ Nothing
    /\ matched' \in (Short \X Short) \cup {Shifted(b, cut) : b \in Blocks, cut \in {0, 7}}
    /\ match' = Match(match.segments, matched'[1], matched'[2])
    /\ UNCHANGED <<filter, data, algorithm, window, gaussian>>

Next == ChooseFilter \/ ChooseFingerprint \/ ChooseWindow \/ ChooseMatch

Spec == Init /\ [][Next]_vars

-----------------------------------------------------------------------------
\* filter_utils.h: each filter covers its rectangle exactly once.
FiltersTile == Tiles(filter[1], filter[2], filter[3], filter[4], filter[5])

Decoded == [ok |-> TRUE, size |-> Len(data), algorithm |-> algorithm, fingerprint |-> data]

\* What chromaprint_encode_fingerprint makes of a fingerprint,
\* chromaprint_decode_fingerprint gives back, through the distances between
\* the bits, the exceptional ones, the packing by 3 and by 5 bits and Base64.
RoundTrip ==
    \A base64 \in BOOLEAN : Decode(Encode(data, algorithm, base64), base64) = Decoded

\* chromaprint_decode_fingerprint_header reads the size and the algorithm of
\* the whole fingerprint from the first characters alone.
HeaderAgrees ==
    \A base64 \in BOOLEAN :
        DecodeHeader(Encode(data, algorithm, base64), base64)
            = [Decoded EXCEPT !.fingerprint = <<>>]

\* An encoded fingerprint of which anything is missing at the end is refused,
\* also where only the exceptional bits or a few bits of padding are missing
\* (fingerprint_decompressor.cpp, "too short"); none decodes to a shorter one.
TruncatedIsRefused ==
    \A base64 \in BOOLEAN :
        LET encoded == Encode(data, algorithm, base64)
        IN \A n \in 0 .. Len(encoded) - 1 : Decode(SubSeq(encoded, 1, n), base64) = Failed

\* Bytes after the fingerprint change nothing: the decompressor reads them as
\* codes first and has to drop them again.
TrailingIsIgnored ==
    data # <<>> =>
        \A more \in Trailing : Decode(Compress(data, algorithm) \o more, FALSE) = Decoded

\* simhash.cpp, and the calls that read a fingerprint (see ViewsAgree).
HashIsMajority == ViewsAgree(data, algorithm)

\* gaussian_filter.h: the running sum, one value in and one out per turn, is
\* the sum of the window on the data continued by its mirror image.
BoxFilterReflects == SumsReflected(window[1], window[2])

\* gaussian_filter.h: the widths of the passes are the best choice.
PassesAreNearest == NearestVariance(gaussian[1], gaussian[2])

Shift(i, j) == i - j + Len(matched[2])

\* fingerprint_matcher.cpp: the scan of the sorted offsets, which looks only
\* ahead of each item of the first fingerprint, counts for each shift the
\* pairs of items with the same first twelve bits, and no pair falls outside the histogram.
HistogramCountsPairs ==
    LET pairs == {p \in (DOMAIN matched[1]) \X (DOMAIN matched[2]) :
                    matched[1][p[1]] \cap 20 .. 31 = matched[2][p[2]] \cap 20 .. 31}
        h == Histogram(matched[1], matched[2])
    IN /\ \A p \in pairs : Shift(p[1], p[2]) \in DOMAIN h
       /\ \A d \in DOMAIN h : h[d] = Cardinality({p \in pairs : Shift(p[1], p[2]) = d})

\* The segments are on the diagonal of a shift that no other one beats: that
\* a shift has to be a peak never hides the best, not even when it has equals
\* next to it, and there are none only if no shift has two pairs.
BestAlignmentWins ==
    LET h == Histogram(matched[1], matched[2])
    IN match.ok =>
        /\ \A d \in {s.pos1 - s.pos2 + Len(matched[2]) : s \in Range(match.segments)} :
              h[d] > 1 /\ \A e \in DOMAIN h : h[e] <= h[d]
        /\ (\E d \in DOMAIN h : h[d] > 1) => \E d \in DOMAIN h : IsPeak(h, d)

\* The segments lie in both fingerprints, one behind the other.  Where all
\* items of the overlap are near, they are the whole overlap, each item in
\* one segment; where none is, there is no segment.
SegmentsTile ==
    LET segments == match.segments
        o == Overlap(matched[1], matched[2], BestAlignment(Histogram(matched[1], matched[2])))
        near == {i \in 1 .. o.size : BitCounts(matched[1], matched[2], o)[i] < kDefaultMatchThreshold}
        EndOf(s) == s.pos1 + s.duration
    IN /\ \A k \in DOMAIN segments :
            /\ segments[k].duration > 0
            /\ EndOf(segments[k]) <= Len(matched[1])
            /\ segments[k].pos2 + segments[k].duration <= Len(matched[2])
            /\ k > 1 => EndOf(segments[k - 1]) <= segments[k].pos1
       /\ segments # <<>> /\ near = 1 .. o.size =>
            /\ segments[1].pos1 = o.offset1
            /\ EndOf(segments[Len(segments)]) = o.offset1 + o.size
            /\ \A k \in 2 .. Len(segments) : EndOf(segments[k - 1]) = segments[k].pos1
       /\ segments # <<>> => near # {}

\* The assertions of Segment::merged (fingerprint_matcher.h): segments that
\* are merged are adjacent.
MergedAreAdjacent == \A m \in match.merges : Adjacent(m[1], m[2])
=============================================================================
