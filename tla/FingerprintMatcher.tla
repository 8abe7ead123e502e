-------------------------- MODULE FingerprintMatcher --------------------------
(***************************************************************************)
(* src/src/fingerprint_matcher.cpp: FingerprintMatcher::Match finds the    *)
(* shift at which most items of two fingerprints agree in their first      *)
(* bits, and the segments of that alignment in which all of their bits do. *)
(*                                                                         *)
(* An item is the set of its one bits.  Floats are left out: scores are    *)
(* fractions, total over duration, and the data of the smoothing are       *)
(* integers; so is the noise of up to 0.001 that rand() adds to each       *)
(* distance: of two equal gradients next to each other the model takes the *)
(* first, the code may take either.                                        *)
(***************************************************************************)
EXTENDS GaussianFilter, FiniteSetsExt

CONSTANT OFFSET_BITS    \* 19, the bits of an offset in m_offsets

ASSUME OffsetAssumption == OFFSET_BITS \in 1 .. 19

ALIGN_BITS == 12
kDefaultMatchThreshold == 10

offset_mask == 2 ^ OFFSET_BITS - 1

TooLong(fp) == Len(fp) + 1 >= offset_mask

\* ALIGN_STRIP, the first bits of an item
Hash(item) ==
    LET value[i \in 0 .. ALIGN_BITS] ==
            IF i = 0 THEN 0 ELSE 2 * value[i - 1] + IF 32 - i \in item THEN 1 ELSE 0
    IN value[ALIGN_BITS]

\* m_offsets: the hash, the fingerprint it is of and the place in it, sorted
\* as one number.
Entries(fp, source) ==
    [i \in 1 .. Len(fp) |-> [hash |-> Hash(fp[i]), source |-> source, offset |-> i - 1]]

SecondFirst(a, b) ==
    \/ a.hash < b.hash
    \/ a.hash = b.hash /\ a.source > b.source
    \/ a.hash = b.hash /\ a.source = b.source /\ a.offset < b.offset
Before(a, b) ==
    \/ a.hash < b.hash
    \/ a.hash = b.hash /\ a.source < b.source
    \/ a.hash = b.hash /\ a.source = b.source /\ a.offset < b.offset

\* A sorted sequence with one entry more; std::sort is insertion of all of
\* them here, the order alone says what it returns.
Inserted(s, entry) ==
    LET k == Cardinality({i \in DOMAIN s : Before(s[i], entry)})
    IN SubSeq(s, 1, k) \o <<entry>> \o SubSeq(s, k + 1, Len(s))

Sorted(entries) ==
    LET sorted[n \in 0 .. Len(entries)] ==
            IF n = 0 THEN <<>> ELSE Inserted(sorted[n - 1], entries[n])
    IN sorted[Len(entries)]

Offsets(fp1, fp2) == Sorted(Entries(fp1, 1) \o Entries(fp2, 2))

\* The pairs of entries that the scan of m_offsets counts: from each entry of
\* the first fingerprint on, as far as the hash stays the same, those of the
\* second one.
Counted(offsets) ==
    {pair \in (DOMAIN offsets) \X (DOMAIN offsets) :
        LET p == pair[1]
            q == pair[2]
        IN /\ offsets[p].source = 1 /\ offsets[q].source = 2
           /\ p < q /\ \A r \in p + 1 .. q : offsets[r].hash = offsets[p].hash}

Histogram(fp1, fp2) ==
    LET offsets == Offsets(fp1, fp2)
        counted == Counted(offsets)
    IN [d \in 0 .. Len(fp1) + Len(fp2) - 1 |->
          Cardinality({pair \in counted :
            offsets[pair[1]].offset + Len(fp2) - offsets[pair[2]].offset = d})]

\* m_best_alignments: the shifts that more than one pair has and not fewer
\* than the shifts next to it.
IsPeakStrict(h, d) ==
    /\ h[d] > 1
    /\ d > 0 => h[d - 1] < h[d]
    /\ d + 1 \in DOMAIN h => h[d + 1] < h[d]
IsPeak(h, d) ==
    /\ h[d] > 1
    /\ d > 0 => h[d - 1] <= h[d]
    /\ d + 1 \in DOMAIN h => h[d + 1] <= h[d]

\* The first of them after sorting, the only one that is used.
BestAlignment(h) ==
    CHOOSE d \in DOMAIN h :
        /\ IsPeak(h, d)
        /\ \A e \in DOMAIN h : IsPeak(h, e) => (h[e] < h[d] \/ (h[e] = h[d] /\ e <= d))

\* Where the two fingerprints begin to overlap at that shift, and for how long.
Overlap(fp1, fp2, shift) ==
    LET diff == shift - Len(fp2)
        offset1 == IF diff > 0 THEN diff ELSE 0
        offset2 == IF diff < 0 THEN -diff ELSE 0
    IN [offset1 |-> offset1, offset2 |-> offset2,
        size |-> Min({Len(fp1) - offset1, Len(fp2) - offset2})]

\* bit_counts: the numbers of bits that differ
HammingDistance(x, y) == Cardinality((x \ y) \cup (y \ x))
BitCounts(fp1, fp2, o) ==
    [i \in 1 .. o.size |-> HammingDistance(fp1[o.offset1 + i], fp2[o.offset2 + i])]

Absolute(x) == IF x >= 0 THEN x ELSE -x

\* The smoothed distances change by more than 0.15 from item to item: sigma
\* is 8 and there are 3 passes.
Steep(g) == 100 * g > 15 * 2 * FoldLeft(LAMBDA x, w : x * w, 1, Widths(64, 3))

\* gradient_peaks, counted from 0, without the end of the overlap
IsGradientPeak(gradient, size, i) ==
    /\ i > 0 /\ i < size - 1
    /\ Steep(gradient[i + 1])
    /\ gradient[i + 1] >= gradient[i] /\ gradient[i + 1] >= gradient[i + 2]

PeaksOf(gradient, size) ==
    LET Take(peaks, i) ==
            IF IsGradientPeak(gradient, size, i) /\ (peaks = <<>> \/ peaks[Len(peaks)] + 1 < i)
              THEN Append(peaks, i)
              ELSE peaks
        taken[i \in 0 .. size] == IF i = 0 THEN <<>> ELSE Take(taken[i - 1], i - 1)
    IN taken[size]

GradientPeaks(bit_counts) ==
    LET slope == Gradient(GaussianFilter(bit_counts, 64, 3))
    IN PeaksOf([i \in DOMAIN slope |-> Absolute(slope[i])], Len(bit_counts))

\* The ends of the parts of the overlap.
EndsWithoutLast(peaks, size) == IF peaks = <<>> THEN <<size>> ELSE peaks
Ends(peaks, size) == Append(peaks, size)

\* The scores, total / duration, differ by less than 0.7.
Similar(s, t) ==
    10 * Absolute(s.total * t.duration - t.total * s.duration) < 7 * s.duration * t.duration

\* Segment::merged
Merged(s, t) ==
    [pos1 |-> s.pos1, pos2 |-> s.pos2,
     duration |-> s.duration + t.duration, total |-> s.total + t.total]

\* The assertions of Segment::merged.
Adjacent(s, t) == s.pos1 + s.duration = t.pos1 /\ s.pos2 + s.duration = t.pos2

\* The sum of the elements of s after the first `begin` up to `end`.
SumFromTo(s, begin, end) ==
    LET sum[i \in 0 .. end - begin] == IF i = 0 THEN 0 ELSE sum[i - 1] + s[begin + i]
    IN sum[end - begin]

Part(o, bit_counts, begin, end) ==
    [pos1 |-> o.offset1 + begin, pos2 |-> o.offset2 + begin,
     duration |-> end - begin, total |-> SumFromTo(bit_counts, begin, end)]

\* The part of the overlap up to `end`; `merges` is a history of the pairs of
\* segments that were merged.
TakePart(o, bit_counts, m, end) ==
    LET part == Part(o, bit_counts, m.begin, end)
        n == Len(m.segments)
        merge == n > 0 /\ Similar(m.segments[n], part)
    IN IF part.total < kDefaultMatchThreshold * part.duration
         THEN [ begin |-> end,
                merges |-> IF merge THEN m.merges \cup {<<m.segments[n], part>>} ELSE m.merges,
                segments |-> IF merge THEN [m.segments EXCEPT ![n] = Merged(@, part)]
                                      ELSE Append(m.segments, part) ]
         ELSE [m EXCEPT !.begin = end]

TakeParts(o, bit_counts, ends) ==
    LET parts[n \in 0 .. Len(ends)] ==
            IF n = 0 THEN [begin |-> 0, merges |-> {}, segments |-> <<>>]
                     ELSE TakePart(o, bit_counts, parts[n - 1], ends[n])
    IN parts[Len(ends)]

\* m_segments after a call of Match that found m_segments as `before`.
Match(before, fp1, fp2) ==
    LET h == Histogram(fp1, fp2)
        o == Overlap(fp1, fp2, BestAlignment(h))
        bit_counts == BitCounts(fp1, fp2, o)
        parts == TakeParts(o, bit_counts, Ends(GradientPeaks(bit_counts), o.size))
    IN CASE TooLong(fp1) \/ TooLong(fp2) ->
              [ok |-> FALSE, segments |-> before, merges |-> {}]
         [] ~(TooLong(fp1) \/ TooLong(fp2)) /\ \A d \in DOMAIN h : ~IsPeak(h, d) ->
              [ok |-> TRUE, segments |-> <<>>, merges |-> {}]
         [] OTHER ->
              [ok |-> TRUE, segments |-> parts.segments, merges |-> parts.merges]
=============================================================================
