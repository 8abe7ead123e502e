--------------------------- MODULE Fpcalc_proofs ---------------------------
(***************************************************************************)
(* Proofs about Fpcalc: the exit status tells whether there were results,  *)
(* every result says where it comes from, and the results of a file are,   *)
(* one after the other, its fingerprint; for every configuration, command  *)
(* line, number of files and cutting of a file into frames.                *)
(*                                                                         *)
(* What fpcalc relies on is what Fingerprinter_proofs shows of each call:  *)
(* P is that module about the fingerprinter FP of Fpcalc.                  *)
(***************************************************************************)
EXTENDS Fpcalc, SequenceTheorems, WellFoundedInduction, TLAPS

P == INSTANCE Fingerprinter_proofs WITH MaxFeed <- MaxStream

-----------------------------------------------------------------------------
(* The calls of the fingerprinter.                                         *)

LEMMA Configured == P!ConfigurationAssumption /\ P!BoundsAssumption
BY FingerprinterAssumption DEF P!ConfigurationAssumption, P!BoundsAssumption

\* FP and P are the same fingerprinter.
LEMMA SameProcess ==
    ASSUME NEW s
    PROVE  FP!Process(s) <=> P!Process(s)
BY Zenon DEF FP!Process, P!Process, FP!LetThrough, P!LetThrough, FP!Loud, P!Loud,
   FP!SinceFirst, P!SinceFirst, FP!Slide, P!Slide, FP!Count, P!Count,
   FP!item_duration, P!item_duration, FP!Map, P!Map, FP!Merged, P!Merged,
   FP!ToSet, P!ToSet, FP!Min, P!Min

LEMMA SameCalls ==
    /\ FP!Init <=> P!Init
    /\ FP!Start <=> P!Start
    /\ \A n : FP!Consume(n) <=> P!Consume(n)
    /\ FP!Finish <=> P!Finish
    /\ FP!ClearFingerprint <=> P!ClearFingerprint
<1>1. FP!Init <=> P!Init
  BY DEF FP!Init, P!Init
<1>2. FP!Start <=> P!Start
  BY DEF FP!Start, P!Start, FP!NothingKept, P!NothingKept
<1>3. ASSUME NEW n PROVE FP!Consume(n) <=> P!Consume(n)
  BY SameProcess, Zenon DEF FP!Consume, P!Consume, FP!PassedOn, P!PassedOn
<1>4. FP!Finish <=> P!Finish
  BY SameProcess, Zenon DEF FP!Finish, P!Finish
<1>5. FP!ClearFingerprint <=> P!ClearFingerprint
  BY DEF FP!ClearFingerprint, P!ClearFingerprint
<1>. QED  BY <1>1, <1>2, <1>3, <1>4, <1>5, Zenon

LEMMA SameItems ==
    /\ FP!delay = P!delay /\ FP!item_duration = P!item_duration
    /\ \A n : FP!ItemCount(n) = P!ItemCount(n)
    /\ \A s, k : FP!ItemSamples(s, k) = P!ItemSamples(s, k)
<1>1. FP!delay = P!delay /\ FP!item_duration = P!item_duration
  BY DEF FP!delay, P!delay, FP!item_duration, P!item_duration
<1>2. \A n : FP!ItemCount(n) = P!ItemCount(n)
  BY <1>1, Zenon DEF FP!ItemCount, P!ItemCount
<1>3. \A s, k : FP!ItemSamples(s, k) = P!ItemSamples(s, k)
  BY <1>1, Zenon DEF FP!ItemSamples, P!ItemSamples
<1>. QED  BY <1>1, <1>2, <1>3

LEMMA ItemTypes ==
    FP!delay \in Nat /\ FP!item_duration \in Nat \ {0}
<1>1. P!delay \in Nat /\ P!item_duration \in 1 .. FRAME
  BY Configured, P!Lengths, P!ItemType
<1>. QED  BY <1>1, SameItems, FingerprinterAssumption

\* What Fingerprinter_proofs keeps, and that without a silence remover a
\* stream begins with the first sample fed.
FirstIsNext == ~REMOVE_SILENCE /\ from # 0 => from = base + 1
FpInv == P!IInv /\ FirstIsNext

\* The first sample of a stream is one that is passed on only now.
Found ==
    from' = from \/ (from = 0 /\ from' \in Nat /\ from' > fed - Len(buffer))

LEMMA FpTypes ==
    ASSUME FpInv
    PROVE  /\ fed \in Nat /\ base \in Nat /\ from \in Nat /\ Len(buffer) \in Nat
           /\ base + Len(buffer) <= fed
           /\ from # 0 => base < from /\ from + Len(buffer) <= fed
           /\ cleared \in Seq(SUBSET Int) /\ fingerprint \in Seq(SUBSET Int)
<1>1. /\ fed \in Nat /\ base \in 0 .. fed /\ Len(buffer) \in 0 .. BUFFER - 1
      /\ fed - Len(buffer) >= base
  BY DEF FpInv, P!IInv, P!BufferInv, P!Passed
<1>2. from \in Nat /\ (from # 0 => base < from /\ from <= fed - Len(buffer))
  BY DEF FpInv, P!IInv, P!SilenceInv, P!Passed
<1>3. cleared \in Seq(SUBSET Int) /\ fingerprint \in Seq(SUBSET Int)
  BY DEF FpInv, P!IInv, P!StagesInv
<1>4. Len(buffer) \in Nat /\ base \in Nat /\ base <= fed
  BY <1>1, FingerprinterAssumption
<1>5. base + Len(buffer) <= fed
  BY <1>1, <1>4
<1>6. from # 0 => from + Len(buffer) <= fed
  BY <1>1, <1>2, <1>4
<1>. QED  BY <1>1, <1>2, <1>3, <1>4, <1>5, <1>6

\* FirstFound gives both of these.
LEMMA FoundNext ==
    ASSUME FpInv, P!FirstFound, P!IInv', base' = base
    PROVE  Found /\ FirstIsNext'
<1>1. Found
  BY DEF P!FirstFound, P!Passed, Found
<1>2. CASE from' = from
  BY <1>1, <1>2 DEF FpInv, FirstIsNext
<1>3. CASE from = 0 /\ (~REMOVE_SILENCE => from' = P!Passed + 1)
  <2>1. from = 0 /\ ~silent => P!Passed = base
    BY Zenon DEF FpInv, P!IInv, P!SilenceInv
  <2>2. silent => REMOVE_SILENCE
    BY Zenon DEF FpInv, P!IInv, P!SilenceInv
  <2>. QED  BY <1>1, <1>3, <2>1, <2>2, Zenon DEF FirstIsNext
<1>. QED  BY <1>2, <1>3 DEF P!FirstFound

LEMMA FpInit == ASSUME FP!Init PROVE FpInv /\ fed = 0 /\ from = 0 /\ base = 0
<1>1. P!Init
  BY SameCalls
<1>2. P!IInv
  BY <1>1, Configured, P!InitIInv
<1>3. fed = 0 /\ from = 0 /\ base = 0
  BY DEF FP!Init
<1>. QED  BY <1>2, <1>3 DEF FpInv, FirstIsNext

LEMMA FpStart ==
    ASSUME FpInv, FP!Start
    PROVE  /\ FpInv' /\ fed' = fed /\ base' = fed /\ from' = 0
           /\ Len(buffer') = 0 /\ fingerprint' = <<>> /\ cleared' = <<>>
<1>1. P!IInv'
  <2>1. P!Start /\ P!IInv
    BY SameCalls DEF FpInv
  <2>. QED  BY <2>1, Configured, P!StartIInv
<1>2. /\ fed' = fed /\ base' = fed /\ from' = 0
      /\ buffer' = <<>> /\ fingerprint' = <<>> /\ cleared' = <<>>
  BY DEF FP!Start
<1>3. Len(buffer') = 0
  BY <1>2
<1>. QED  BY <1>1, <1>2, <1>3 DEF FpInv, FirstIsNext

LEMMA FpFeed ==
    ASSUME FpInv, NEW n \in Nat, FP!Consume(n)
    PROVE  /\ FpInv' /\ fed' = fed + n /\ fed' <= MaxStream
           /\ base' = base /\ cleared' = cleared
           /\ Len(buffer') <= Len(buffer) + n /\ Found
<1>1. P!Consume(n) /\ P!IInv
  BY SameCalls DEF FpInv
<1>2. P!IInv'
  BY <1>1, Configured, P!ConsumeIInv
<1>3. P!FirstFound /\ P!Passed' >= P!Passed
  BY <1>1, Configured, P!ConsumeFinds
<1>4. fed' = fed + n /\ fed' <= MaxStream /\ base' = base /\ cleared' = cleared
  BY DEF FP!Consume
<1>5. Found /\ FirstIsNext'
  BY <1>2, <1>3, <1>4, FoundNext
<1>6. Len(buffer') <= Len(buffer) + n
  <2>1. Len(buffer') \in Nat
    BY <1>2, FingerprinterAssumption DEF P!IInv, P!BufferInv
  <2>2. fed' - Len(buffer') >= fed - Len(buffer)
    BY <1>3 DEF P!Passed
  <2>. QED  BY <1>4, <2>1, <2>2, FpTypes
<1>. QED  BY <1>2, <1>4, <1>5, <1>6 DEF FpInv

LEMMA FpFinish ==
    ASSUME FpInv, FP!Finish
    PROVE  /\ FpInv' /\ fed' = fed /\ base' = base /\ cleared' = cleared
           /\ Len(buffer') = 0 /\ Found
<1>1. P!Finish /\ P!IInv
  BY SameCalls DEF FpInv
<1>2. P!IInv' /\ P!FirstFound
  BY <1>1, Configured, P!FinishIInv, P!FinishFinds
<1>3. fed' = fed /\ base' = base /\ cleared' = cleared /\ buffer' = <<>>
  BY DEF FP!Finish
<1>4. Found /\ FirstIsNext'
  BY <1>2, <1>3, FoundNext
<1>5. Len(buffer') = 0
  BY <1>3
<1>. QED  BY <1>2, <1>3, <1>4, <1>5 DEF FpInv

LEMMA FpClear ==
    ASSUME FpInv, FP!ClearFingerprint
    PROVE  /\ FpInv' /\ UNCHANGED <<fed, base, from, buffer>>
           /\ fingerprint' = <<>> /\ cleared' = cleared \o fingerprint
<1>1. P!ClearFingerprint /\ P!IInv
  BY SameCalls DEF FpInv
<1>2. P!IInv'
  BY <1>1, Configured, P!ClearIInv
<1>3. /\ UNCHANGED <<fed, base, from, buffer>>
      /\ fingerprint' = <<>> /\ cleared' = cleared \o fingerprint
  BY DEF FP!ClearFingerprint
<1>. QED  BY <1>2, <1>3 DEF FpInv, FirstIsNext

-----------------------------------------------------------------------------
(* The inductive invariant.                                                *)

InFile == pc \notin {"open", "exit"}

Result == [ts : Int, duration : Int, items : Seq(SUBSET Int), at : Int]

\* The steps of ProcessFile, its counters, and what it printed.
TypeInv ==
    /\ options \in Options
    /\ pc \in {"open", "read", "chunk_finish", "chunk_print", "chunk_restart", "rest",
               "last_finish", "last_print", "exit"}
    /\ stream_size \in Nat /\ chunk_size \in Nat /\ frame_size \in Nat
    /\ ts \in Int /\ extra_chunk_limit \in Int
    /\ first_chunk \in BOOLEAN /\ got_results \in BOOLEAN
    /\ file \in Nat \ {0} /\ (status = -1 <=> pc # "exit")
    /\ fed \in Nat /\ fed <= MaxStream /\ fileAt \in Nat /\ fileAt <= fed
    /\ printed \in Seq(Result)

\* The exit status is about the results of this file: within a file there are
\* some from the first chunk on that was printed, and a file that is done
\* without an error has some.
ResultsInv ==
    /\ InFile =>
          /\ got_results <=> printed # <<>>
          /\ first_chunk /\ pc # "chunk_restart" <=> printed = <<>>
    /\ pc = "open" /\ file > 1 => got_results /\ printed # <<>>
    /\ pc = "exit" => ExitTellsResults

\* What is fed is what was read, but for the rest of the frame, and no more
\* than the limit.
StreamInv ==
    /\ InFile => stream_size = (fed - fileAt) + frame_size
    /\ pc \in {"read", "last_finish", "last_print"} => frame_size = 0
    /\ stream_limit > 0 =>
          /\ fed - fileAt <= stream_limit
          /\ InFile => stream_size <= stream_limit
          /\ stream_done => stream_size = stream_limit

\* The sample before the chunk, among all that were fed.
ChunkAt == fed - chunk_size

\* The samples up to the p-th that this stream of the fingerprinter has.
Given(p) == IF from = 0 \/ from > p THEN 0 ELSE p - from + 1

\* A stream is a chunk or the whole file.
OneStream == Overlapping \/ chunk_limit = 0

ChunkInv ==
    InFile =>
        /\ fileAt <= ChunkAt
        /\ Len(buffer) <= chunk_size
        /\ pc \in {"chunk_print", "chunk_restart", "last_print"} => Len(buffer) = 0
        /\ pc \in {"chunk_finish", "chunk_print", "chunk_restart"} => chunk_limit > 0
        /\ base = IF OneStream THEN fileAt ELSE ChunkAt
        /\ Len(cleared) = FP!ItemCount(Given(ChunkAt))
        /\ first_chunk => ChunkAt = fileAt /\ extra_chunk_limit = overlap
        /\ ~first_chunk => extra_chunk_limit = 0 /\ chunk_limit > 0
        /\ ts = IF pc = "chunk_restart" THEN fed - fileAt
                ELSE IF first_chunk THEN 0 ELSE (ChunkAt - fileAt) - overlap

\* A result says where it comes from.
Claimed(r) ==
    /\ r.ts + r.duration = r.at
    /\ \A k \in DOMAIN r.items :
          r.items[k] \subseteq
              fileAt + r.ts - FP!item_duration + 2 .. fileAt + r.ts + r.duration

ClaimInv == \A i \in DOMAIN printed : Claimed(printed[i])

Items(results) == [i \in DOMAIN results |-> results[i].items]

\* The results of a file are what was cleared or, when the last one is there,
\* all items.
WholeInv ==
    OneStream =>
        /\ InFile => FlattenSeq(Items(printed)) =
                         IF pc = "chunk_restart" THEN cleared \o fingerprint ELSE cleared
        /\ ~InFile /\ printed # <<>> =>
              /\ FlattenSeq(Items(printed)) = cleared \o fingerprint
              /\ base = fileAt /\ Len(buffer) = 0

IInv ==
    FpInv /\ TypeInv /\ ResultsInv /\ StreamInv /\ ChunkInv /\ ClaimInv /\ WholeInv

-----------------------------------------------------------------------------
(* The items of a chunk.                                                   *)

LEMMA ItemCountIs ==
    ASSUME NEW n \in Nat
    PROVE  /\ FP!ItemCount(n) \in Nat
           /\ \A k \in 1 .. FP!ItemCount(n) : k * FP!item_duration + FP!delay <= n
           /\ \A k \in Nat \ {0} : k > FP!ItemCount(n) =>
                 n < (k - 1) * FP!item_duration + FP!delay + FP!item_duration
<1>. DEFINE d == FP!item_duration
            D == FP!delay
            q == (n - D) \div d
            c == FP!ItemCount(n)
<1>1. d \in Nat \ {0} /\ D \in Nat
  BY ItemTypes
<1>2. c = IF n < D THEN 0 ELSE q
  BY DEF FP!ItemCount
<1>. HIDE DEF d, D, c
<1>3. ASSUME NEW a \in Nat, NEW b \in Nat, a <= b
      PROVE  a * d \in Nat /\ b * d \in Nat /\ a * d <= b * d
  <2>1. PICK e \in Nat : b = a + e
    <3>1. b - a \in Nat /\ b = a + (b - a)
      BY <1>3
    <3>. QED  BY <3>1
  <2>2. b * d = a * d + e * d /\ a * d \in Nat /\ e * d \in Nat
    BY <1>1, <2>1
  <2>. QED  BY <2>2
<1>4. CASE n < D
  <2>1. c = 0
    BY <1>2, <1>4
  <2>2. ASSUME NEW k \in Nat \ {0} PROVE (k - 1) * d \in Nat
    BY <1>1
  <2>3. ASSUME NEW k \in Nat \ {0} PROVE n < (k - 1) * d + D + d
    <3>. DEFINE u == (k - 1) * d
    <3>1. u \in Nat
      BY <2>2
    <3>. HIDE DEF u
    <3>2. n < u + D + d
      BY <1>1, <1>4, <3>1
    <3>. QED  BY <3>2 DEF u
  <2>. QED  BY <2>1, <2>3 DEF c, d, D
<1>5. CASE ~(n < D)
  <2>1. n - D \in Nat /\ c = q
    BY <1>1, <1>2, <1>5
  <2>2. q \in Int /\ (n - D) % d \in 0 .. d - 1 /\ n - D = d * q + ((n - D) % d)
    <3>. DEFINE x == n - D
    <3>1. x \in Int
      BY <2>1
    <3>. HIDE DEF x
    <3>2. x \div d \in Int /\ x % d \in 0 .. d - 1 /\ x = d * (x \div d) + (x % d)
      BY <1>1, <3>1, Configured, P!Division
    <3>. QED  BY <3>2 DEF x
  <2>3. q \in Nat
    BY <1>1, <2>1
  <2>4. c * d \in Nat /\ c * d <= n - D /\ n - D < c * d + d
    <3>. DEFINE r == (n - D) % d
    <3>1. r \in 0 .. d - 1 /\ n - D = d * c + r /\ c \in Nat
      BY <2>1, <2>2, <2>3
    <3>. HIDE DEF r, q
    <3>2. d * c = c * d /\ c * d \in Nat
      BY <1>1, <3>1
    <3>. QED  BY <1>1, <2>1, <3>1, <3>2
  <2>5. c \in Nat
    BY <2>1, <2>3
  <2>6. ASSUME NEW k \in 1 .. c PROVE k * d + D <= n
    <3>. DEFINE u == k * d
                v == c * d
    <3>1. u \in Nat /\ u <= v
      BY <1>3, <2>5
    <3>2. v \in Nat /\ v <= n - D
      BY <2>4
    <3>. HIDE DEF u, v
    <3>3. u + D <= n
      BY <1>1, <3>1, <3>2
    <3>. QED  BY <3>3 DEF u
  <2>7. ASSUME NEW k \in Nat \ {0}, k > c PROVE n < (k - 1) * d + D + d
    <3>. DEFINE u == (k - 1) * d
                v == c * d
    <3>1. u \in Nat /\ v <= u
      <4>1. k - 1 \in Nat /\ c <= k - 1
        BY <2>5, <2>7
      <4>. QED  BY <1>3, <2>5, <4>1
    <3>2. v \in Nat /\ n - D < v + d
      BY <2>4
    <3>. HIDE DEF u, v
    <3>3. n < u + D + d
      BY <1>1, <3>1, <3>2
    <3>. QED  BY <3>3 DEF u
  <2>. QED  BY <2>5, <2>6, <2>7 DEF c, d, D
<1>. QED  BY <1>4, <1>5

\* All samples that the stream was given.
GivenNow == Given(fed - Len(buffer))

LEMMA ItemsMade ==
    ASSUME FpInv
    PROVE  /\ GivenNow \in Nat
           /\ GivenNow = IF from = 0 THEN 0 ELSE (fed - Len(buffer)) - from + 1
           /\ cleared \o fingerprint
                = [k \in 1 .. FP!ItemCount(GivenNow) |-> FP!ItemSamples(from, k)]
<1>1. GivenNow = IF from = 0 THEN 0 ELSE (fed - Len(buffer)) - from + 1
  BY FpTypes DEF GivenNow, Given
<1>2. GivenNow \in Nat
  BY <1>1, FpTypes
<1>3. P!FingerprintOfStream
  BY Configured, P!IInvIsStream DEF FpInv
<1>4. cleared \o fingerprint
        = [k \in 1 .. P!ItemCount(GivenNow) |-> P!ItemSamples(from, k)]
  BY <1>1, <1>3 DEF P!FingerprintOfStream
<1>. QED  BY <1>1, <1>2, <1>4, SameItems

LEMMA ItemsCounted ==
    ASSUME FpInv
    PROVE  /\ Len(cleared) \in Nat /\ Len(fingerprint) \in Nat
           /\ DOMAIN fingerprint = 1 .. Len(fingerprint)
           /\ Len(cleared \o fingerprint) = Len(cleared) + Len(fingerprint)
           /\ Len(cleared) + Len(fingerprint) = FP!ItemCount(GivenNow)
           /\ \A k \in DOMAIN fingerprint :
                 fingerprint[k] = FP!ItemSamples(from, Len(cleared) + k)
<1>. DEFINE n == FP!ItemCount(GivenNow)
            all == cleared \o fingerprint
<1>1. /\ Len(cleared) \in Nat /\ Len(fingerprint) \in Nat
      /\ DOMAIN fingerprint = 1 .. Len(fingerprint)
      /\ Len(all) = Len(cleared) + Len(fingerprint)
      /\ \A k \in 1 .. Len(fingerprint) : all[Len(cleared) + k] = fingerprint[k]
  BY FpTypes
<1>2. n \in Nat /\ all = [k \in 1 .. n |-> FP!ItemSamples(from, k)]
  BY ItemsMade, ItemCountIs
<1>. HIDE DEF n, all
<1>3. Len(all) = n /\ \A k \in 1 .. n : all[k] = FP!ItemSamples(from, k)
  BY <1>2
<1>4. \A k \in 1 .. Len(fingerprint) : Len(cleared) + k \in 1 .. n
  BY <1>1, <1>3
<1>. QED  BY <1>1, <1>3, <1>4 DEF n, all

LEMMA OptionTypes ==
    ASSUME options \in Options
    PROVE  /\ stream_limit \in Nat /\ stream_limit < SIZE_T
           /\ chunk_limit \in Nat /\ chunk_limit < SIZE_T
           /\ options.overlap \in BOOLEAN /\ options.ignore_errors \in BOOLEAN
           /\ overlap \in Nat
           /\ Overlapping => overlap = FP!delay
           /\ ~Overlapping => overlap = 0
<1>1. options \in [stream_limit : 0 .. SIZE_T - 1, chunk_limit : 0 .. SIZE_T - 1,
                   overlap : BOOLEAN, ignore_errors : BOOLEAN]
  BY SizesAssumption
<1>2. /\ stream_limit \in Nat /\ stream_limit < SIZE_T
      /\ chunk_limit \in Nat /\ chunk_limit < SIZE_T
      /\ options.overlap \in BOOLEAN /\ options.ignore_errors \in BOOLEAN
  BY <1>1, SizesAssumption DEF stream_limit, chunk_limit
<1>3. (Overlapping => overlap = FP!delay) /\ (~Overlapping => overlap = 0)
  BY Zenon DEF overlap
<1>4. overlap \in Nat
  BY <1>3, ItemTypes
<1>. QED  BY <1>2, <1>3, <1>4

\* A difference of counts does not wrap when it is not negative.
LEMMA NoWrap ==
    ASSUME NEW a \in Nat, NEW b \in Nat, b <= a, a < SIZE_T
    PROVE  Minus(a, b) = a - b
BY SizesAssumption DEF Minus

\* A first chunk that has an item is as long as the delay that its limit was
\* extended by.
LEMMA FirstIsLong ==
    ASSUME IInv, InFile, first_chunk, Len(buffer) = 0, fingerprint # <<>>
    PROVE  overlap <= chunk_size
<1>1. options \in Options /\ fed \in Nat /\ chunk_size \in Nat /\ fileAt \in Nat
  BY DEF IInv, TypeInv
<1>2. base = fileAt /\ fileAt = fed - chunk_size
  <2>1. fed - chunk_size = fileAt /\ base = IF OneStream THEN fileAt ELSE fed - chunk_size
    BY DEF IInv, ChunkInv, ChunkAt
  <2>. QED  BY <2>1, Zenon
<1>3. Len(fingerprint) # 0
  BY FpTypes DEF IInv
<1>4. /\ GivenNow \in Nat /\ GivenNow = IF from = 0 THEN 0 ELSE (fed - 0) - from + 1
      /\ Len(cleared) + Len(fingerprint) = FP!ItemCount(GivenNow)
      /\ Len(cleared) \in Nat /\ Len(fingerprint) \in Nat
  BY ItemsMade, ItemsCounted DEF IInv
<1>5. 1 \in 1 .. FP!ItemCount(GivenNow)
  BY <1>3, <1>4
<1>6. 1 * FP!item_duration + FP!delay <= GivenNow
  BY <1>4, <1>5, ItemCountIs
<1>7. FP!delay <= GivenNow /\ GivenNow # 0
  BY <1>4, <1>6, ItemTypes
<1>8. from \in Nat /\ from # 0 /\ base < from
  BY <1>4, <1>7, FpTypes DEF IInv
<1>9. GivenNow <= chunk_size
  <2>1. GivenNow = fed - from + 1
    BY <1>1, <1>4, <1>8
  <2>. QED  BY <1>1, <1>2, <1>8, <2>1
<1>. QED  BY <1>1, <1>4, <1>7, <1>9, OptionTypes, ItemTypes

\* Where a chunk ends is where its duration, added to its timestamp, says.
LEMMA DurationIs ==
    ASSUME IInv, InFile, pc # "chunk_restart", Len(buffer) = 0,
           first_chunk => fingerprint # <<>>
    PROVE  ChunkDuration \in Int /\ ts + ChunkDuration = fed - fileAt
<1>1. /\ options \in Options /\ fed \in Nat /\ fed <= MaxStream
      /\ chunk_size \in Nat /\ fileAt \in Nat /\ first_chunk \in BOOLEAN
  BY DEF IInv, TypeInv
<1>2. /\ fileAt <= fed - chunk_size
      /\ first_chunk => fed - chunk_size = fileAt /\ extra_chunk_limit = overlap /\ ts = 0
      /\ ~first_chunk =>
            extra_chunk_limit = 0 /\ ts = ((fed - chunk_size) - fileAt) - overlap
  BY Zenon DEF IInv, ChunkInv, ChunkAt
<1>3. overlap \in Nat /\ SIZE_T \in Nat /\ MaxStream < SIZE_T /\ MaxStream \in Nat
  BY <1>1, OptionTypes, SizesAssumption, FingerprinterAssumption
<1>4. chunk_size < SIZE_T
  BY <1>1, <1>2, <1>3
<1>5. CASE first_chunk
  <2>1. overlap <= chunk_size
    BY <1>5, FirstIsLong
  <2>2. Minus(chunk_size, extra_chunk_limit) = chunk_size - overlap
    BY <1>1, <1>2, <1>3, <1>4, <1>5, <2>1, NoWrap
  <2>3. ChunkDuration = (chunk_size - overlap) + overlap
    BY <2>2 DEF ChunkDuration
  <2>. QED  BY <1>1, <1>2, <1>3, <1>5, <2>3
<1>6. CASE ~first_chunk
  <2>1. 0 \in Nat /\ 0 <= chunk_size
    BY <1>1
  <2>2. Minus(chunk_size, extra_chunk_limit) = chunk_size - 0
    BY <1>1, <1>2, <1>4, <1>6, <2>1, NoWrap
  <2>3. ChunkDuration = (chunk_size - 0) + overlap
    BY <2>2 DEF ChunkDuration
  <2>. QED  BY <1>1, <1>2, <1>3, <1>6, <2>3
<1>. QED  BY <1>5, <1>6

\* The items of a chunk that has been finished start less than an item before
\* it, or within the overlap, and end within it.
LEMMA ItemsClaimed ==
    ASSUME IInv, InFile, pc # "chunk_restart", Len(buffer) = 0, fingerprint # <<>>,
           NEW k \in DOMAIN fingerprint
    PROVE  fingerprint[k] \subseteq
              fileAt + ts - FP!item_duration + 2 .. fileAt + ts + ChunkDuration
<1>. DEFINE d == FP!item_duration
            D == FP!delay
            K == Len(cleared) + k
            u == (K - 1) * d
            S == fed - chunk_size
<1>1. /\ options \in Options /\ fed \in Nat /\ chunk_size \in Nat /\ fileAt \in Nat
      /\ first_chunk \in BOOLEAN
  BY DEF IInv, TypeInv
<1>2. /\ d \in Nat \ {0} /\ D \in Nat
      /\ ts + ChunkDuration = fed - fileAt /\ ChunkDuration \in Int
  BY ItemTypes, DurationIs
<1>3. /\ K \in Nat \ {0} /\ K <= FP!ItemCount(GivenNow)
      /\ fingerprint[k] = FP!ItemSamples(from, K)
  BY ItemsCounted DEF IInv
<1>4. /\ GivenNow \in Nat /\ GivenNow = IF from = 0 THEN 0 ELSE (fed - 0) - from + 1
      /\ FP!ItemCount(GivenNow) \in Nat
  BY ItemsMade, ItemCountIs DEF IInv
<1>5. K * d + D <= GivenNow
  <2>1. K \in 1 .. FP!ItemCount(GivenNow)
    BY <1>3, <1>4
  <2>. HIDE DEF K
  <2>. QED  BY <1>4, <2>1, ItemCountIs
<1>6. from \in Nat /\ base \in Nat /\ (from # 0 => base < from)
  BY FpTypes DEF IInv
<1>7. u \in Nat /\ K * d = u + d
  <2>. HIDE DEF K, d
  <2>1. K - 1 \in Nat /\ K = (K - 1) + 1
    BY <1>3
  <2>. DEFINE m == K - 1
  <2>2. m \in Nat /\ K = m + 1 /\ d \in Nat
    BY <1>2, <2>1
  <2>. HIDE DEF m
  <2>3. m * d \in Nat /\ (m + 1) * d = m * d + d
    BY <2>2
  <2>. QED  BY <2>2, <2>3 DEF m
<1>. HIDE DEF u
<1>8. from # 0 /\ from + (u + d) + D - 1 <= fed
  <2>1. GivenNow # 0
    BY <1>2, <1>4, <1>5, <1>7
  <2>. HIDE DEF d, D, K
  <2>. QED  BY <1>1, <1>2, <1>4, <1>5, <1>6, <1>7, <2>1
<1>9. fingerprint[k] = from + u .. from + (u + d) + D - 1
  BY <1>3, <1>7 DEF FP!ItemSamples, u
<1>10. fileAt + ts - d + 2 <= from + u
  <2>1. /\ S \in Int /\ fileAt <= S
        /\ Len(cleared) = FP!ItemCount(Given(S))
        /\ base = IF OneStream THEN fileAt ELSE S
        /\ first_chunk => S = fileAt /\ ts = 0
        /\ ~first_chunk => chunk_limit > 0 /\ ts = (S - fileAt) - overlap
    <3>1. S \in Int
      BY <1>1
    <3>. QED  BY <3>1, Zenon DEF IInv, ChunkInv, ChunkAt
  <2>2. Given(S) \in Nat /\ Given(S) = IF from = 0 \/ from > S THEN 0 ELSE S - from + 1
    BY <1>6, <2>1 DEF Given
  <2>3. Given(S) < u + D + d
    <3>1. K > FP!ItemCount(Given(S))
      BY <1>3, <2>1, ItemsCounted DEF IInv
    <3>. HIDE DEF K, S
    <3>. QED  BY <1>3, <2>2, <3>1, ItemCountIs DEF u
  <2>. HIDE DEF d, D, K, S
  <2>4. CASE first_chunk
    BY <1>1, <1>2, <1>6, <1>7, <1>8, <2>1, <2>4
  <2>5. CASE ~first_chunk /\ Overlapping
    <3>1. overlap = D /\ base = fileAt
      BY <1>1, <2>1, <2>5, OptionTypes, Zenon DEF OneStream, D
    <3>2. ts = (S - fileAt) - D
      BY <2>1, <2>5, <3>1
    <3>. QED  BY <1>1, <1>2, <1>6, <1>7, <1>8, <2>1, <2>2, <2>3, <3>2
  <2>6. CASE ~first_chunk /\ ~Overlapping
    <3>1. overlap = 0 /\ base = S
      <4>1. chunk_limit # 0
        BY <1>1, <2>1, <2>6, OptionTypes
      <4>. QED  BY <1>1, <2>1, <2>6, <4>1, OptionTypes, Zenon DEF OneStream
    <3>2. ts = (S - fileAt) - 0
      BY <2>1, <2>6, <3>1
    <3>. QED  BY <1>1, <1>2, <1>6, <1>7, <1>8, <2>1, <3>1, <3>2
  <2>. QED  BY <1>1, <2>4, <2>5, <2>6
<1>11. ts \in Int
  BY DEF IInv, TypeInv
<1>12. fileAt + ts + ChunkDuration = fed
  BY <1>1, <1>2, <1>11
<1>. HIDE DEF d, D
<1>13. from + (u + d) + D - 1 <= fileAt + ts + ChunkDuration
  BY <1>8, <1>12
<1>14. from + u .. from + (u + d) + D - 1 \subseteq
          fileAt + ts - d + 2 .. fileAt + ts + ChunkDuration
  BY <1>1, <1>2, <1>6, <1>7, <1>10, <1>11, <1>13
<1>. QED  BY <1>9, <1>14 DEF d

-----------------------------------------------------------------------------
(* FlattenSeq, a recursive function: that one result more adds its items   *)
(* takes induction, as in FFmpegAudioReader_proofs, in the form of         *)
(* NatInduct.                                                              *)

\* f is the function that FlattenSeq computes, for the first n elements of s.
Flattens(f, s, n) ==
    f = [i \in 1 .. n |-> IF i = 1 THEN s[i] ELSE f[i - 1] \o s[i]]

LEMMA FlattenIs ==
    ASSUME NEW s, Len(s) \in Nat \ {0}
    PROVE FlattenSeq(s) = (CHOOSE f : Flattens(f, s, Len(s)))[Len(s)]
BY DEF FlattenSeq, Flattens

LEMMA NatInduct ==
    ASSUME NEW T \in SUBSET Nat, 0 \in T, \A n \in T : n + 1 \in T
    PROVE  Nat \subseteq T
<1>1. SUFFICES ASSUME NEW m \in Nat, m \notin T PROVE FALSE
  OBVIOUS
<1>2. PICK x \in Nat \ T : \A y \in Nat \ T : ~ (<<y, x>> \in OpToRel(<, Nat))
  BY <1>1, WFMin, NatLessThanWellFounded
<1>3. x # 0 /\ x \in Nat /\ x \notin T
  OBVIOUS
<1>5. x - 1 \in Nat /\ x - 1 < x /\ (x - 1) + 1 = x
  BY <1>3
<1>4. x - 1 \in T
  <2>1. <<x - 1, x>> \in OpToRel(<, Nat)
    BY <1>3, <1>5 DEF OpToRel
  <2>. QED  BY <1>2, <1>5, <2>1
<1>. QED  BY <1>3, <1>4, <1>5

At(f, s, i) == f[i] = IF i = 1 THEN s[i] ELSE f[i - 1] \o s[i]

LEMMA FlattensAt ==
    ASSUME NEW f, NEW s, NEW n, Flattens(f, s, n), NEW i \in 1 .. n
    PROVE  At(f, s, i)
<1>. DEFINE e(j) == IF j = 1 THEN s[j] ELSE f[j - 1] \o s[j]
<1>1. f = [j \in 1 .. n |-> e(j)]
  BY DEF Flattens
<1>2. f[i] = e(i)
  <2>. HIDE DEF e
  <2>. QED  BY <1>1
<1>. QED  BY <1>2 DEF At

LEMMA FlattensFirst ==
    ASSUME NEW f, NEW s, NEW n \in Nat, Flattens(f, s, n), n # 0
    PROVE  f[1] = s[1]
<1>1. 1 \in 1 .. n
  OBVIOUS
<1>2. At(f, s, 1)
  BY <1>1, FlattensAt
<1>. QED  BY <1>2 DEF At

LEMMA FlattensNext ==
    ASSUME NEW f, NEW s, NEW n \in Nat, Flattens(f, s, n), NEW k \in 1 .. n - 1
    PROVE  f[k + 1] = f[k] \o s[k + 1]
<1>1. k + 1 \in 1 .. n /\ k + 1 # 1 /\ (k + 1) - 1 = k
  OBVIOUS
<1>2. At(f, s, k + 1)
  BY <1>1, FlattensAt
<1>. QED  BY <1>1, <1>2 DEF At

LEMMA FlattenExists ==
    ASSUME NEW s
    PROVE  \A n \in Nat : \E f : Flattens(f, s, n)
<1>. DEFINE T == {n \in Nat : \E f : Flattens(f, s, n)}
<1>1. 0 \in T
  <2>. DEFINE g == [i \in 1 .. 0 |-> IF i = 1 THEN s[i] ELSE <<>>[i - 1] \o s[i]]
  <2>1. Flattens(g, s, 0)
    <3>1. \A i \in 1 .. 0 : FALSE
      OBVIOUS
    <3>. QED  BY <3>1, Zenon DEF Flattens
  <2>. QED  BY <2>1
<1>2. ASSUME NEW n \in T PROVE n + 1 \in T
  <2>1. PICK f : Flattens(f, s, n)
    OBVIOUS
  <2>. DEFINE g == [i \in 1 .. n + 1 |-> IF i = 1 THEN s[i] ELSE f[i - 1] \o s[i]]
  <2>2. \A i \in 1 .. n : g[i] = f[i]
    <3>1. \A i \in 1 .. n : i \in 1 .. n + 1
      OBVIOUS
    <3>2. \A i \in 1 .. n : At(f, s, i)
      BY <2>1, FlattensAt
    <3>. QED  BY <3>1, <3>2 DEF At
  <2>3. \A i \in 1 .. n + 1 : g[i] = IF i = 1 THEN s[i] ELSE g[i - 1] \o s[i]
    <3>1. ASSUME NEW i \in 1 .. n + 1, i # 1 PROVE i - 1 \in 1 .. n
      BY <3>1
    <3>. QED  BY <2>2, <3>1
  <2>4. Flattens(g, s, n + 1)
    BY <2>3 DEF Flattens
  <2>. QED  BY <2>4
<1>3. Nat \subseteq T
  <2>. HIDE DEF T
  <2>1. T \in SUBSET Nat
    BY DEF T
  <2>. QED  BY <1>1, <1>2, <2>1, NatInduct
<1>. QED  BY <1>3

LEMMA FlattenUnique ==
    ASSUME NEW s, NEW n \in Nat, NEW f, NEW g, Flattens(f, s, n), Flattens(g, s, n)
    PROVE  f = g
<1>. DEFINE T == {k \in Nat : k \in 1 .. n => f[k] = g[k]}
<1>1. 0 \in T
  OBVIOUS
<1>2. ASSUME NEW k \in T PROVE k + 1 \in T
  <2>1. ASSUME k = 0, k + 1 \in 1 .. n
        PROVE  f[k + 1] = g[k + 1]
    <3>1. k + 1 = 1 /\ n # 0
      BY <2>1
    <3>2. f[1] = s[1]
      BY <3>1, FlattensFirst
    <3>3. g[1] = s[1]
      BY <3>1, FlattensFirst
    <3>. QED  BY <3>1, <3>2, <3>3
  <2>2. ASSUME k # 0, k + 1 \in 1 .. n
        PROVE  f[k + 1] = g[k + 1]
    <3>1. k \in 1 .. n - 1 /\ k \in 1 .. n
      BY <2>2
    <3>2. f[k + 1] = f[k] \o s[k + 1] /\ g[k + 1] = g[k] \o s[k + 1]
      BY <3>1, FlattensNext, Zenon
    <3>. QED  BY <3>1, <3>2
  <2>3. k + 1 \in Nat /\ (k = 0 \/ (k # 0 /\ k + 1 \in 1 .. n) \/ k + 1 \notin 1 .. n)
    OBVIOUS
  <2>4. k + 1 \in 1 .. n => f[k + 1] = g[k + 1]
    BY <2>1, <2>2, <2>3, Zenon
  <2>. QED  BY <2>3, <2>4
<1>3. Nat \subseteq T
  <2>. HIDE DEF T
  <2>1. T \in SUBSET Nat
    BY DEF T
  <2>. QED  BY <1>1, <1>2, <2>1, NatInduct
<1>4. \A k \in 1 .. n : f[k] = g[k]
  BY <1>3
<1>. QED  BY <1>4 DEF Flattens

\* A function that flattens s, at its end.
LEMMA FlattenIsLast ==
    ASSUME NEW s, Len(s) \in Nat \ {0}, NEW f, Flattens(f, s, Len(s))
    PROVE  FlattenSeq(s) = f[Len(s)]
<1>. DEFINE g == CHOOSE h : Flattens(h, s, Len(s))
<1>1. Flattens(g, s, Len(s))
  OBVIOUS
<1>2. f = g
  <2>. HIDE DEF g
  <2>. QED  BY <1>1, FlattenUnique
<1>. QED  BY <1>2, FlattenIs

LEMMA FlattenAppend ==
    ASSUME NEW S, NEW s \in Seq(Seq(S)), NEW x \in Seq(S)
    PROVE  FlattenSeq(Append(s, x)) = FlattenSeq(s) \o x
<1>. DEFINE t == Append(s, x)
            n == Len(s)
<1>1. /\ n \in Nat /\ Len(t) = n + 1 /\ t[n + 1] = x
      /\ \A i \in 1 .. n : t[i] = s[i]
  OBVIOUS
<1>2. PICK f : Flattens(f, t, n + 1)
  <2>1. n + 1 \in Nat
    BY <1>1
  <2>. QED  BY <2>1, FlattenExists, Zenon
<1>. HIDE DEF t, n
<1>3. FlattenSeq(t) = f[n + 1]
  BY <1>1, <1>2, FlattenIsLast
<1>4. CASE n = 0
  <2>1. s = <<>>
    BY <1>4 DEF n
  <2>2. FlattenSeq(s) = <<>>
    BY <2>1 DEF FlattenSeq
  <2>3. f[n + 1] = x
    BY <1>1, <1>2, <1>4 DEF Flattens
  <2>. QED  BY <1>3, <2>2, <2>3 DEF t
<1>5. CASE n # 0
  <2>. DEFINE g == [i \in 1 .. n |-> f[i]]
  <2>1. \A i \in 1 .. n : (i # 1 => i - 1 \in 1 .. n) /\ i \in 1 .. n + 1
    BY <1>1
  <2>2. Flattens(g, s, n)
    <3>1. \A i \in 1 .. n : f[i] = IF i = 1 THEN s[i] ELSE f[i - 1] \o s[i]
      <4>1. \A i \in 1 .. n + 1 : At(f, t, i)
        BY <1>2, FlattensAt
      <4>. QED  BY <1>1, <2>1, <4>1 DEF At
    <3>2. \A i \in 1 .. n : g[i] = IF i = 1 THEN s[i] ELSE g[i - 1] \o s[i]
      BY <2>1, <3>1
    <3>. QED  BY <3>2 DEF Flattens
  <2>3. FlattenSeq(s) = g[n]
    <3>. HIDE DEF g
    <3>. QED  BY <1>1, <1>5, <2>2, FlattenIsLast DEF n
  <2>4. g[n] = f[n]
    BY <1>1, <1>5
  <2>5. f[n + 1] = f[n] \o x
    <3>1. n + 1 \in 1 .. n + 1 /\ n + 1 # 1 /\ (n + 1) - 1 = n
      BY <1>1, <1>5
    <3>. QED  BY <1>1, <1>2, <3>1 DEF Flattens
  <2>. QED  BY <1>3, <2>3, <2>4, <2>5 DEF t
<1>. QED  BY <1>4, <1>5

LEMMA FlattenEmpty == FlattenSeq(<<>>) = <<>>
BY DEF FlattenSeq

LEMMA ItemsAppend ==
    ASSUME NEW s \in Seq(Result), NEW r \in Result
    PROVE  FlattenSeq(Items(Append(s, r))) = FlattenSeq(Items(s)) \o r.items
<1>. DEFINE Q == Seq(SUBSET Int)
<1>1. r.items \in Q /\ \A i \in DOMAIN s : s[i] \in Result
  <2>1. r.items \in Q
    BY DEF Result
  <2>2. \A i \in 1 .. Len(s) : s[i] \in Result
    BY ElementOfSeq, Zenon
  <2>. HIDE DEF Q, Result
  <2>3. DOMAIN s = 1 .. Len(s)
    OBVIOUS
  <2>. QED  BY <2>1, <2>2, <2>3, Zenon
<1>2. \A x \in Result : x.items \in Q
  BY DEF Result
<1>. HIDE DEF Q, Result
<1>3. Items(s) \in Seq(Q)
  BY <1>1, <1>2 DEF Items
<1>4. Items(Append(s, r)) = Append(Items(s), r.items)
  BY DEF Items
<1>. QED  BY <1>1, <1>3, <1>4, FlattenAppend DEF Q

LEMMA ItemsEmpty == FlattenSeq(Items(<<>>)) = <<>>
<1>1. Items(<<>>) = <<>>
  BY DEF Items
<1>. QED  BY <1>1, FlattenEmpty

-----------------------------------------------------------------------------
(* The steps.                                                              *)

LEMMA FpSame == ASSUME FpInv, UNCHANGED fp PROVE FpInv'
BY DEF fp, FpInv, FirstIsNext, P!IInv, P!BufferInv, P!SilenceInv, P!StagesInv,
   P!Passed, P!Through

LEMMA OptionsSame ==
    ASSUME options' = options
    PROVE  /\ stream_limit' = stream_limit /\ chunk_limit' = chunk_limit
           /\ overlap' = overlap
           /\ (Overlapping => Overlapping') /\ (Overlapping' => Overlapping)
           /\ (OneStream => OneStream') /\ (OneStream' => OneStream)
BY Zenon DEF stream_limit, chunk_limit, overlap, Overlapping, OneStream

\* How much of the stream came before the chunk does not change once that is
\* passed on.
LEMMA GivenSame ==
    ASSUME FpInv, Found, ChunkAt' = ChunkAt, fed \in Nat, chunk_size \in Nat,
           Len(buffer) <= chunk_size
    PROVE  Given(ChunkAt)' = Given(ChunkAt)
<1>1. ChunkAt \in Int /\ ChunkAt <= fed - Len(buffer)
  BY FpTypes DEF ChunkAt
<1>. QED  BY <1>1, FpTypes DEF Found, Given

LEMMA NoItems == FP!ItemCount(0) = 0
<1>1. FP!ItemCount(0) \in Nat
  BY ItemCountIs
<1>2. 1 \notin 1 .. FP!ItemCount(0)
  <2>. SUFFICES ASSUME 1 \in 1 .. FP!ItemCount(0) PROVE FALSE
    OBVIOUS
  <2>1. 1 * FP!item_duration + FP!delay <= 0
    BY ItemCountIs
  <2>. QED  BY <2>1, ItemTypes
<1>. QED  BY <1>1, <1>2

\* A step that reads g samples and feeds f, with the chunk not yet done.
LEMMA MovesOn ==
    ASSUME IInv, pc \in {"read", "rest"},
           pc' \in {"read", "rest", "chunk_finish", "last_finish"},
           NEW f \in Nat, NEW g \in Nat,
           FP!Consume(f) \/ (f = 0 /\ UNCHANGED fp),
           chunk_size' = chunk_size + f, stream_size' = stream_size + g,
           frame_size' = (frame_size + g) - f, frame_size' \in Nat,
           pc' \in {"read", "last_finish"} => frame_size' = 0,
           pc' = "chunk_finish" => chunk_limit > 0,
           stream_limit > 0 => /\ stream_size' <= stream_limit
                               /\ stream_done' => stream_size' = stream_limit,
           UNCHANGED <<options, file, extra_chunk_limit, first_chunk, got_results, ts,
                       fileAt, printed, status>>
    PROVE  IInv'
<1>1. /\ options \in Options /\ fed \in Nat /\ fed <= MaxStream /\ chunk_size \in Nat
      /\ fileAt \in Nat /\ fileAt <= fed /\ stream_size \in Nat /\ frame_size \in Nat
      /\ stream_size = (fed - fileAt) + frame_size
      /\ stream_limit \in Nat
  BY OptionTypes DEF IInv, TypeInv, StreamInv, InFile
<1>2. /\ FpInv' /\ fed' = fed + f /\ fed' <= MaxStream /\ base' = base /\ cleared' = cleared
      /\ Len(buffer') <= Len(buffer) + f /\ Found
  <2>1. CASE FP!Consume(f)
    BY <2>1, FpFeed DEF IInv
  <2>2. CASE f = 0 /\ UNCHANGED fp
    <3>1. FpInv'
      BY <2>2, FpSame DEF IInv
    <3>2. /\ fed' = fed /\ base' = base /\ cleared' = cleared
          /\ from' = from /\ buffer' = buffer
      BY <2>2 DEF fp
    <3>3. fed = fed + 0 /\ Len(buffer) <= Len(buffer) + 0
      BY <1>1, FpTypes DEF IInv
    <3>. QED  BY <1>1, <2>2, <3>1, <3>2, <3>3 DEF Found
  <2>. QED  BY <2>1, <2>2
<1>3. TypeInv'
  <2>1. fed' \in Nat /\ fileAt <= fed' /\ chunk_size' \in Nat /\ stream_size' \in Nat
    BY <1>1, <1>2
  <2>2. file \in Nat \ {0} /\ (status = -1 <=> pc # "exit") /\ printed \in Seq(Result)
    BY DEF IInv, TypeInv
  <2>3. /\ ts \in Int /\ extra_chunk_limit \in Int
        /\ first_chunk \in BOOLEAN /\ got_results \in BOOLEAN
    BY DEF IInv, TypeInv
  <2>. QED  BY <1>1, <1>2, <2>1, <2>2, <2>3 DEF TypeInv
<1>4. ResultsInv'
  BY DEF IInv, ResultsInv, InFile
<1>5. StreamInv'
  <2>1. fed' - fileAt <= stream_size' /\ stream_size' = (fed' - fileAt) + frame_size'
    BY <1>1, <1>2
  <2>2. stream_limit > 0 => fed' - fileAt <= stream_limit
    BY <1>1, <1>2, <2>1
  <2>. QED  BY <2>1, <2>2, OptionsSame DEF StreamInv
<1>6. ChunkInv'
  <2>1. /\ fileAt <= ChunkAt /\ Len(buffer) <= chunk_size
        /\ base = IF OneStream THEN fileAt ELSE ChunkAt
        /\ Len(cleared) = FP!ItemCount(Given(ChunkAt))
        /\ first_chunk => ChunkAt = fileAt /\ extra_chunk_limit = overlap
        /\ ~first_chunk => extra_chunk_limit = 0 /\ chunk_limit > 0
        /\ ts = IF first_chunk THEN 0 ELSE (ChunkAt - fileAt) - overlap
    <3>1. InFile /\ pc # "chunk_restart"
      BY DEF InFile
    <3>. QED  BY <3>1, Zenon DEF IInv, ChunkInv
  <2>2. ChunkAt' = ChunkAt
    BY <1>1, <1>2 DEF ChunkAt
  <2>3. Len(buffer') <= chunk_size'
    BY <1>1, <1>2, <2>1, FpTypes DEF IInv
  <2>4. Given(ChunkAt)' = Given(ChunkAt)
    BY <1>1, <1>2, <2>1, <2>2, GivenSame DEF IInv
  <2>5. /\ pc' \notin {"chunk_print", "chunk_restart", "last_print"}
        /\ pc' = "chunk_finish" => chunk_limit' > 0
    BY OptionsSame
  <2>6. FP!ItemCount(Given(ChunkAt))' = FP!ItemCount(Given(ChunkAt))
    BY <2>4 DEF FP!ItemCount, FP!delay, FP!item_duration
  <2>. QED  BY <1>2, <2>1, <2>2, <2>3, <2>5, <2>6, OptionsSame, Zenon DEF ChunkInv
<1>7. ClaimInv'
  BY DEF IInv, ClaimInv, Claimed
<1>8. WholeInv'
  <2>1. InFile /\ InFile' /\ pc # "chunk_restart" /\ pc' # "chunk_restart"
    BY DEF InFile
  <2>. QED  BY <1>2, <2>1, OptionsSame, Zenon DEF IInv, WholeInv
<1>. QED  BY <1>2, <1>3, <1>4, <1>5, <1>6, <1>7, <1>8 DEF IInv

\* A read gives no more than the stream limit leaves, and the limit is
\* reached when it cuts.
LEMMA AllowedIs ==
    ASSUME IInv, InFile, NEW n \in Nat
    PROVE  /\ Allowed(n) \in Nat
           /\ stream_limit > 0 => /\ stream_size + Allowed(n) <= stream_limit
                                  /\ CutShort(n) => stream_size + Allowed(n) = stream_limit
<1>1. options \in Options /\ stream_size \in Nat
  BY DEF IInv, TypeInv
<1>2. stream_limit \in Nat /\ stream_limit < SIZE_T
  BY <1>1, OptionTypes
<1>3. stream_limit > 0 => /\ stream_size <= stream_limit
                          /\ Minus(stream_limit, stream_size) = stream_limit - stream_size
  BY <1>1, <1>2, NoWrap DEF IInv, StreamInv
<1>4. CASE CutShort(n)
  <2>1. stream_limit > 0 /\ Allowed(n) = Minus(stream_limit, stream_size)
    BY <1>4, Zenon DEF CutShort, Allowed
  <2>. QED  BY <1>1, <1>2, <1>3, <2>1
<1>5. CASE ~CutShort(n)
  <2>1. Allowed(n) = n
    BY <1>5, Zenon DEF Allowed
  <2>2. stream_limit > 0 => n <= stream_limit - stream_size
    BY <1>1, <1>2, <1>3, <1>5 DEF CutShort
  <2>. QED  BY <1>1, <1>2, <1>5, <2>1, <2>2
<1>. QED  BY <1>4, <1>5

LEMMA EndsReading ==
    ASSUME IInv, EndOfFile \/ ReadFails
    PROVE  IInv'
<1>1. /\ pc = "read" /\ pc' = "last_finish"
      /\ UNCHANGED <<fp, options, file, stream_size, chunk_size, extra_chunk_limit,
                     first_chunk, got_results, stream_done, frame_size, ts, fileAt,
                     printed, status>>
  BY DEF EndOfFile, ReadFails, locals
<1>2. /\ stream_size \in Nat /\ chunk_size \in Nat /\ frame_size = 0
      /\ stream_limit > 0 => /\ stream_size <= stream_limit
                             /\ stream_done => stream_size = stream_limit
  BY <1>1 DEF IInv, TypeInv, StreamInv, InFile
<1>3. /\ chunk_size' = chunk_size + 0 /\ stream_size' = stream_size + 0
      /\ frame_size' = (frame_size + 0) - 0 /\ frame_size' = 0
  BY <1>1, <1>2
<1>. QED  BY <1>1, <1>2, <1>3, MovesOn

LEMMA ReadNothingIInv ==
    ASSUME IInv, NEW n \in Nat, ReadNothing(n)
    PROVE  IInv'
<1>1. /\ pc = "read" /\ pc' \in {"read", "last_finish"}
      /\ Allowed(n) = 0 /\ stream_done' = CutShort(n) /\ frame_size' = 0
      /\ UNCHANGED <<fp, options, file, stream_size, chunk_size, extra_chunk_limit,
                     first_chunk, got_results, ts, fileAt, printed, status>>
  BY DEF ReadNothing, TakePacket, AfterEmpty
<1>2. stream_size \in Nat /\ chunk_size \in Nat /\ frame_size = 0 /\ InFile
  BY <1>1 DEF IInv, TypeInv, StreamInv, InFile
<1>3. stream_limit > 0 => /\ stream_size' <= stream_limit
                          /\ stream_done' => stream_size' = stream_limit
  BY <1>1, <1>2, AllowedIs
<1>4. /\ chunk_size' = chunk_size + 0 /\ stream_size' = stream_size + 0
      /\ frame_size' = (frame_size + 0) - 0
  BY <1>1, <1>2
<1>. QED  BY <1>1, <1>2, <1>3, <1>4, MovesOn

LEMMA ReadFrameIInv ==
    ASSUME IInv, NEW n \in Nat, ReadFrame(n)
    PROVE  IInv'
<1>. DEFINE size == Allowed(n)
            first_part_size == IF ChunkDone(size) THEN RemainingOfChunk ELSE size
<1>1. /\ pc = "read" /\ stream_done' = CutShort(n)
      /\ stream_size' = stream_size + size
      /\ FP!Consume(first_part_size)
      /\ chunk_size' = chunk_size + first_part_size
      /\ frame_size' = size - first_part_size
      /\ pc' = IF ChunkDone(size) THEN "chunk_finish" ELSE "rest"
      /\ UNCHANGED <<options, file, extra_chunk_limit, first_chunk, got_results, ts,
                     fileAt, printed, status>>
  BY DEF ReadFrame, TakePacket
<1>2. /\ options \in Options /\ stream_size \in Nat /\ chunk_size \in Nat /\ frame_size = 0
      /\ extra_chunk_limit \in Int /\ InFile
  BY <1>1 DEF IInv, TypeInv, StreamInv, InFile
<1>3. /\ size \in Nat
      /\ stream_limit > 0 => /\ stream_size + size <= stream_limit
                             /\ CutShort(n) => stream_size + size = stream_limit
  BY <1>2, AllowedIs
<1>. HIDE DEF size
<1>4. RemainingOfChunk \in Nat
  <2>1. SIZE_T \in Nat \ {0}
    BY SizesAssumption, FingerprinterAssumption
  <2>2. \A a \in Int : a % SIZE_T \in 0 .. SIZE_T - 1
    BY <2>1
  <2>3. (chunk_limit + extra_chunk_limit) - chunk_size \in Int
    BY <1>2, OptionTypes
  <2>. QED  BY <2>1, <2>2, <2>3 DEF RemainingOfChunk, Minus
<1>5. first_part_size \in Nat /\ size - first_part_size \in Nat
  BY <1>3, <1>4 DEF ChunkDone
<1>6. ChunkDone(size) => chunk_limit > 0
  BY DEF ChunkDone
<1>7. pc' \in {"chunk_finish", "rest"} /\ (pc' = "chunk_finish" => chunk_limit > 0)
  BY <1>1, <1>6
<1>. HIDE DEF first_part_size
<1>8. frame_size' = (frame_size + size) - first_part_size
  BY <1>1, <1>2, <1>3
<1>9. stream_limit > 0 => /\ stream_size' <= stream_limit
                          /\ stream_done' => stream_size' = stream_limit
  BY <1>1, <1>3
<1>. QED  BY <1>1, <1>3, <1>5, <1>7, <1>8, <1>9, MovesOn

LEMMA RestIInv ==
    ASSUME IInv, Rest
    PROVE  IInv'
<1>1. /\ pc = "rest" /\ pc' \in {"read", "last_finish"}
      /\ IF frame_size > 0 THEN FP!Consume(frame_size) ELSE UNCHANGED fp
      /\ chunk_size' = chunk_size + frame_size /\ frame_size' = 0
      /\ UNCHANGED <<options, file, stream_size, extra_chunk_limit, first_chunk,
                     got_results, stream_done, ts, fileAt, printed, status>>
  BY DEF Rest
<1>2. /\ stream_size \in Nat /\ frame_size \in Nat
      /\ stream_limit > 0 => /\ stream_size <= stream_limit
                             /\ stream_done => stream_size = stream_limit
  BY <1>1 DEF IInv, TypeInv, StreamInv, InFile
<1>3. FP!Consume(frame_size) \/ (frame_size = 0 /\ UNCHANGED fp)
  <2>1. frame_size > 0 \/ frame_size = 0
    BY <1>2
  <2>. QED  BY <1>1, <1>2, <2>1
<1>4. stream_size' = stream_size + 0 /\ frame_size' = (frame_size + 0) - frame_size
  BY <1>1, <1>2
<1>. QED  BY <1>1, <1>2, <1>3, <1>4, MovesOn

\* The chunk, or the last one, has been fed.
LEMMA FinishesIInv ==
    ASSUME IInv, ChunkFinish \/ LastFinish
    PROVE  IInv'
<1>1. /\ FP!Finish /\ UNCHANGED <<options, file, locals, fileAt, printed, status>>
      /\ \/ pc = "chunk_finish" /\ pc' = "chunk_print"
         \/ pc = "last_finish" /\ pc' = "last_print"
  BY DEF ChunkFinish, LastFinish
<1>2. UNCHANGED <<stream_size, chunk_size, extra_chunk_limit, first_chunk, got_results,
                  stream_done, frame_size, ts>>
  BY <1>1 DEF locals
<1>3. /\ FpInv' /\ fed' = fed /\ base' = base /\ cleared' = cleared
      /\ Len(buffer') = 0 /\ Found
  BY <1>1, FpFinish DEF IInv
<1>4. TypeInv'
  BY <1>1, <1>2, <1>3 DEF IInv, TypeInv
<1>5. ResultsInv'
  BY <1>1, <1>2 DEF IInv, ResultsInv, InFile
<1>6. StreamInv'
  BY <1>1, <1>2, <1>3, OptionsSame DEF IInv, StreamInv, InFile
<1>7. ChunkInv'
  <2>1. /\ fileAt <= ChunkAt /\ Len(buffer) <= chunk_size
        /\ base = IF OneStream THEN fileAt ELSE ChunkAt
        /\ Len(cleared) = FP!ItemCount(Given(ChunkAt))
        /\ first_chunk => ChunkAt = fileAt /\ extra_chunk_limit = overlap
        /\ ~first_chunk => extra_chunk_limit = 0 /\ chunk_limit > 0
        /\ ts = IF first_chunk THEN 0 ELSE (ChunkAt - fileAt) - overlap
        /\ pc = "chunk_finish" => chunk_limit > 0
    <3>1. InFile /\ pc # "chunk_restart"
      BY <1>1 DEF InFile
    <3>. QED  BY <3>1, Zenon DEF IInv, ChunkInv
  <2>2. ChunkAt' = ChunkAt
    BY <1>2, <1>3 DEF ChunkAt
  <2>3. fed \in Nat /\ chunk_size \in Nat
    BY DEF IInv, TypeInv
  <2>4. FP!ItemCount(Given(ChunkAt))' = FP!ItemCount(Given(ChunkAt))
    <3>1. Given(ChunkAt)' = Given(ChunkAt)
      BY <1>3, <2>1, <2>2, <2>3, GivenSame DEF IInv
    <3>. QED  BY <3>1 DEF FP!ItemCount, FP!delay, FP!item_duration
  <2>5. Len(buffer') <= chunk_size'
    BY <1>2, <1>3, <2>3
  <2>6. /\ pc' # "chunk_restart" /\ pc' # "chunk_finish"
        /\ pc' = "chunk_print" => chunk_limit > 0
    BY <1>1, <2>1
  <2>. QED  BY <1>1, <1>2, <1>3, <2>1, <2>2, <2>4, <2>5, <2>6, OptionsSame, Zenon
            DEF ChunkInv
<1>8. ClaimInv'
  BY <1>1 DEF IInv, ClaimInv, Claimed
<1>9. WholeInv'
  <2>1. InFile /\ InFile' /\ pc # "chunk_restart" /\ pc' # "chunk_restart"
    BY <1>1 DEF InFile
  <2>. QED  BY <1>1, <1>3, <2>1, OptionsSame, Zenon DEF IInv, WholeInv
<1>. QED  BY <1>3, <1>4, <1>5, <1>6, <1>7, <1>8, <1>9 DEF IInv

\* What PrintResult prints says where it comes from, and continues what was
\* printed.
LEMMA Prints ==
    ASSUME IInv, pc \in {"chunk_print", "last_print"}, PrintResult,
           UNCHANGED <<fp, options, fileAt>>
    PROVE  /\ printed' \in Seq(Result) /\ printed' # <<>> /\ ClaimInv'
           /\ OneStream => FlattenSeq(Items(printed')) = cleared \o fingerprint
<1>1. InFile /\ pc # "chunk_restart"
  BY DEF InFile
<1>2. /\ Len(buffer) = 0
      /\ first_chunk \in BOOLEAN /\ fed \in Nat /\ fileAt \in Nat /\ ts \in Int
      /\ printed \in Seq(Result) /\ ClaimInv
      /\ first_chunk <=> printed = <<>>
      /\ OneStream => FlattenSeq(Items(printed)) = cleared
  BY <1>1, Zenon DEF IInv, TypeInv, ChunkInv, ResultsInv, WholeInv
<1>3. cleared \in Seq(SUBSET Int) /\ fingerprint \in Seq(SUBSET Int)
  BY FpTypes DEF IInv
<1>4. CASE fingerprint = <<>>
  <2>1. ~first_chunk /\ printed' = printed
    BY <1>4 DEF PrintResult
  <2>2. ClaimInv'
    BY <1>2, <2>1 DEF ClaimInv, Claimed
  <2>3. cleared \o fingerprint = cleared
    BY <1>3, <1>4
  <2>. QED  BY <1>2, <2>1, <2>2, <2>3
<1>5. CASE fingerprint # <<>>
  <2>. DEFINE r == [ts |-> ts, duration |-> ChunkDuration,
                    items |-> fingerprint, at |-> fed - fileAt]
  <2>1. printed' = Append(printed, r)
    BY <1>5 DEF PrintResult
  <2>2. ChunkDuration \in Int /\ ts + ChunkDuration = fed - fileAt
    BY <1>1, <1>2, <1>5, DurationIs
  <2>3. r \in Result
    BY <1>2, <1>3, <2>2 DEF Result
  <2>4. Claimed(r)
    <3>1. \A k \in DOMAIN fingerprint :
             fingerprint[k] \subseteq
                fileAt + ts - FP!item_duration + 2 .. fileAt + ts + ChunkDuration
      BY <1>1, <1>2, <1>5, ItemsClaimed
    <3>. QED  BY <2>2, <3>1 DEF Claimed
  <2>. HIDE DEF r
  <2>5. printed' \in Seq(Result) /\ printed' # <<>>
    BY <1>2, <2>1, <2>3
  <2>6. \A i \in DOMAIN printed' : Claimed(printed'[i])
    <3>. HIDE DEF Result
    <3>1. ASSUME NEW i \in DOMAIN printed' PROVE printed'[i] = r \/ i \in DOMAIN printed
      BY <1>2, <2>1, <2>3
    <3>2. ASSUME NEW i \in DOMAIN printed PROVE printed'[i] = printed[i]
      BY <1>2, <2>1, <2>3
    <3>. QED  BY <1>2, <2>4, <3>1, <3>2, Zenon DEF ClaimInv
  <2>7. ClaimInv'
    BY <2>6 DEF ClaimInv, Claimed
  <2>8. OneStream => FlattenSeq(Items(printed')) = cleared \o fingerprint
    <3>1. FlattenSeq(Items(Append(printed, r))) = FlattenSeq(Items(printed)) \o r.items
      BY <1>2, <2>3, ItemsAppend
    <3>2. r.items = fingerprint
      BY DEF r
    <3>. QED  BY <1>2, <2>1, <3>1, <3>2
  <2>. QED  BY <2>5, <2>7, <2>8
<1>. QED  BY <1>4, <1>5

LEMMA ChunkPrintIInv ==
    ASSUME IInv, ChunkPrint
    PROVE  IInv'
<1>1. /\ pc = "chunk_print" /\ pc' = "chunk_restart" /\ PrintResult
      /\ got_results' = TRUE /\ ts' = ts + ChunkDuration
      /\ UNCHANGED <<fp, options, file, stream_size, chunk_size, extra_chunk_limit,
                     first_chunk, stream_done, frame_size, fileAt, status>>
  BY DEF ChunkPrint
<1>2. UNCHANGED <<fed, base, cleared, fingerprint, from, buffer>>
  BY <1>1 DEF fp
<1>3. /\ printed' \in Seq(Result) /\ printed' # <<>> /\ ClaimInv'
      /\ OneStream => FlattenSeq(Items(printed')) = cleared \o fingerprint
  BY <1>1, Prints
<1>4. InFile /\ InFile'
  BY <1>1 DEF InFile
<1>5. ChunkDuration \in Int /\ ts + ChunkDuration = fed - fileAt
  <2>1. Len(buffer) = 0
    BY <1>1, <1>4, Zenon DEF IInv, ChunkInv
  <2>2. first_chunk => fingerprint # <<>>
    BY <1>1 DEF PrintResult
  <2>. QED  BY <1>1, <1>4, <2>1, <2>2, DurationIs
<1>6. FpInv'
  BY <1>1, FpSame DEF IInv
<1>7. TypeInv'
  BY <1>1, <1>2, <1>3, <1>5 DEF IInv, TypeInv
<1>8. ResultsInv'
  BY <1>1, <1>3 DEF ResultsInv, InFile
<1>9. StreamInv'
  BY <1>1, <1>2, <1>4, OptionsSame DEF IInv, StreamInv
<1>10. ChunkInv'
  <2>1. /\ fileAt <= ChunkAt /\ Len(buffer) <= chunk_size /\ Len(buffer) = 0
        /\ base = IF OneStream THEN fileAt ELSE ChunkAt
        /\ Len(cleared) = FP!ItemCount(Given(ChunkAt)) /\ chunk_limit > 0
        /\ first_chunk => ChunkAt = fileAt /\ extra_chunk_limit = overlap
        /\ ~first_chunk => extra_chunk_limit = 0 /\ chunk_limit > 0
    BY <1>1, <1>4, Zenon DEF IInv, ChunkInv
  <2>2. ChunkAt' = ChunkAt
    BY <1>1, <1>2 DEF ChunkAt
  <2>3. FP!ItemCount(Given(ChunkAt))' = FP!ItemCount(Given(ChunkAt))
    <3>1. Given(ChunkAt)' = Given(ChunkAt)
      BY <1>2, <2>2 DEF Given
    <3>. QED  BY <3>1 DEF FP!ItemCount, FP!delay, FP!item_duration
  <2>4. ts' = fed' - fileAt' /\ Len(buffer)' = Len(buffer) /\ Len(cleared)' = Len(cleared)
    BY <1>1, <1>2, <1>5
  <2>. QED  BY <1>1, <1>2, <2>1, <2>2, <2>3, <2>4, OptionsSame, Zenon DEF ChunkInv
<1>11. WholeInv'
  BY <1>1, <1>2, <1>3, <1>4, OptionsSame, Zenon DEF WholeInv
<1>. QED  BY <1>3, <1>6, <1>7, <1>8, <1>9, <1>10, <1>11 DEF IInv

LEMMA ChunkRestartIInv ==
    ASSUME IInv, ChunkRestart
    PROVE  IInv'
<1>1. /\ pc = "chunk_restart" /\ pc' = "rest" /\ StartChunk
      /\ ts' = ts - (IF options.overlap THEN overlap ELSE 0)
      /\ extra_chunk_limit' = ExtraOfNextChunk
      /\ first_chunk' = FALSE /\ chunk_size' = 0
      /\ UNCHANGED <<options, file, stream_size, got_results, stream_done,
                     frame_size, fileAt, printed, status>>
  BY DEF ChunkRestart
<1>2. InFile /\ InFile'
  BY <1>1 DEF InFile
<1>3. /\ Len(buffer) = 0 /\ chunk_limit > 0 /\ ts = fed - fileAt
      /\ base = IF OneStream THEN fileAt ELSE ChunkAt
      /\ ~first_chunk => extra_chunk_limit = 0
      /\ printed # <<>> /\ got_results
  BY <1>1, <1>2, Zenon DEF IInv, ChunkInv, ResultsInv
<1>4. /\ options \in Options /\ fed \in Nat /\ fileAt \in Nat /\ fileAt <= fed
      /\ first_chunk \in BOOLEAN
  BY DEF IInv, TypeInv
<1>5. /\ options.overlap \in BOOLEAN /\ overlap \in Nat /\ chunk_limit \in Nat
      /\ ~Overlapping => overlap = 0
      /\ options.overlap <=> OneStream
      /\ options.overlap <=> Overlapping
  <2>1. chunk_limit # 0
    BY <1>3, <1>4, OptionTypes
  <2>. QED  BY <1>3, <1>4, <2>1, OptionTypes, Zenon DEF Overlapping, OneStream
<1>6. extra_chunk_limit' = 0
  BY <1>1, <1>3 DEF ExtraOfNextChunk
<1>7. ts' = (fed - fileAt) - overlap /\ ts' \in Int
  <2>1. ~options.overlap => overlap = 0
    BY <1>5
  <2>. QED  BY <1>1, <1>3, <1>4, <1>5, <2>1
<1>8. /\ FpInv' /\ fed' = fed /\ Len(buffer') = 0
      /\ base' = IF OneStream THEN fileAt ELSE fed
      /\ OneStream => cleared' = cleared \o fingerprint
      /\ Len(cleared') = FP!ItemCount(Given(ChunkAt))'
  <2>1. ChunkAt' = fed'
    <3>1. fed' = fed
      BY <1>1, FpStart, FpClear DEF StartChunk, IInv
    <3>. QED  BY <1>1, <1>4, <3>1 DEF ChunkAt
  <2>2. CASE options.overlap
    <3>1. FP!ClearFingerprint
      BY <1>1, <2>2 DEF StartChunk
    <3>2. /\ FpInv' /\ UNCHANGED <<fed, base, from, buffer>>
          /\ cleared' = cleared \o fingerprint
      BY <3>1, FpClear DEF IInv
    <3>3. Given(ChunkAt)' = GivenNow
      <4>1. ChunkAt' = fed - Len(buffer)
        BY <1>3, <1>4, <2>1, <3>2
      <4>. QED  BY <3>2, <4>1, Zenon DEF Given, GivenNow
    <3>4. FP!ItemCount(Given(ChunkAt))' = FP!ItemCount(GivenNow)
      BY <3>3, Zenon DEF FP!ItemCount, FP!delay, FP!item_duration
    <3>5. Len(cleared \o fingerprint) = FP!ItemCount(GivenNow)
      BY ItemsCounted DEF IInv
    <3>. QED  BY <1>3, <1>5, <2>2, <3>2, <3>4, <3>5
  <2>3. CASE ~options.overlap
    <3>1. FP!Start
      BY <1>1, <2>3 DEF StartChunk
    <3>2. /\ FpInv' /\ fed' = fed /\ base' = fed /\ from' = 0
          /\ Len(buffer') = 0 /\ cleared' = <<>>
      BY <3>1, FpStart DEF IInv
    <3>3. FP!ItemCount(Given(ChunkAt))' = FP!ItemCount(0)
      <4>1. Given(ChunkAt)' = 0
        BY <3>2 DEF Given
      <4>. QED  BY <4>1 DEF FP!ItemCount, FP!delay, FP!item_duration
    <3>4. Len(cleared') = 0
      BY <3>2
    <3>. QED  BY <1>5, <2>3, <3>2, <3>3, <3>4, NoItems
  <2>. QED  BY <1>5, <2>2, <2>3
<1>9. TypeInv'
  <2>1. /\ stream_size \in Nat /\ frame_size \in Nat /\ got_results \in BOOLEAN
        /\ file \in Nat \ {0} /\ fed <= MaxStream /\ printed \in Seq(Result)
    BY DEF IInv, TypeInv
  <2>2. status = -1 <=> pc # "exit"
    BY DEF IInv, TypeInv
  <2>3. status' = -1 <=> pc' # "exit"
    BY <1>1, <2>2
  <2>4. chunk_size' \in Nat /\ extra_chunk_limit' \in Int
    <3>1. chunk_size' = 0 /\ extra_chunk_limit' = 0
      BY <1>1, <1>6, Zenon
    <3>. QED  BY <3>1
  <2>5. first_chunk' \in BOOLEAN
    BY <1>1, Zenon
  <2>. HIDE DEF Result
  <2>. QED  BY <1>1, <1>4, <1>7, <1>8, <2>1, <2>3, <2>4, <2>5 DEF TypeInv
<1>10. ResultsInv'
  BY <1>1, <1>3 DEF ResultsInv, InFile
<1>11. StreamInv'
  BY <1>1, <1>2, <1>8, OptionsSame DEF IInv, StreamInv
<1>12. ChunkInv'
  <2>1. ChunkAt' = fed
    BY <1>1, <1>4, <1>8 DEF ChunkAt
  <2>2. fileAt' <= ChunkAt' /\ Len(buffer') <= chunk_size' /\ chunk_limit' > 0
    BY <1>1, <1>3, <1>4, <1>8, <2>1, OptionsSame
  <2>3. base' = IF OneStream' THEN fileAt' ELSE ChunkAt'
    BY <1>1, <1>8, <2>1, OptionsSame, Zenon
  <2>4. ts' = (ChunkAt' - fileAt') - overlap'
    BY <1>1, <1>7, <2>1, OptionsSame
  <2>. QED  BY <1>1, <1>6, <1>8, <2>2, <2>3, <2>4 DEF ChunkInv
<1>13. ClaimInv'
  BY <1>1 DEF IInv, ClaimInv, Claimed
<1>14. WholeInv'
  BY <1>1, <1>2, <1>8, OptionsSame, Zenon DEF IInv, WholeInv
<1>. QED  BY <1>8, <1>9, <1>10, <1>11, <1>12, <1>13, <1>14 DEF IInv

LEMMA OpenFileIInv ==
    ASSUME IInv, OpenFile
    PROVE  IInv'
<1>1. /\ pc = "open" /\ pc' = "read" /\ FP!Start
      /\ stream_size' = 0 /\ chunk_size' = 0
      /\ extra_chunk_limit' = (IF Overlapping THEN FP!delay ELSE 0)
      /\ first_chunk' = TRUE /\ got_results' = FALSE
      /\ stream_done' = FALSE /\ frame_size' = 0 /\ ts' = 0
      /\ fileAt' = fed /\ printed' = <<>>
      /\ options' = options /\ file' = file /\ status' = status
  BY DEF OpenFile
<1>2. InFile'
  BY <1>1 DEF InFile
<1>3. /\ options \in Options /\ fed \in Nat /\ fed <= MaxStream
      /\ file \in Nat \ {0} /\ (status = -1 <=> pc # "exit")
  BY DEF IInv, TypeInv
<1>4. /\ FpInv' /\ fed' = fed /\ base' = fed /\ from' = 0
      /\ Len(buffer') = 0 /\ cleared' = <<>> /\ Len(cleared') = 0
  BY <1>1, FpStart DEF IInv
<1>5. /\ extra_chunk_limit' = overlap /\ overlap \in Nat /\ stream_limit \in Nat
  BY <1>1, <1>3, OptionTypes
<1>6. TypeInv'
  <2>1. printed' \in Seq(Result)
    BY <1>1
  <2>2. status' = -1 <=> pc' # "exit"
    BY <1>1, <1>3
  <2>3. /\ stream_size' \in Nat /\ chunk_size' \in Nat /\ frame_size' \in Nat
        /\ ts' \in Int /\ extra_chunk_limit' \in Int
    BY <1>1, <1>5
  <2>4. fed' \in Nat /\ fed' <= MaxStream /\ fileAt' \in Nat /\ fileAt' <= fed'
    BY <1>1, <1>3, <1>4
  <2>. HIDE DEF Result
  <2>. QED  BY <1>1, <1>3, <2>1, <2>2, <2>3, <2>4 DEF TypeInv
<1>7. ResultsInv'
  BY <1>1 DEF ResultsInv, InFile
<1>8. StreamInv'
  BY <1>1, <1>3, <1>4, <1>5, OptionsSame DEF StreamInv
<1>9. ChunkInv'
  <2>1. ChunkAt' = fed
    BY <1>1, <1>3, <1>4 DEF ChunkAt
  <2>2. FP!ItemCount(Given(ChunkAt))' = FP!ItemCount(0)
    <3>1. Given(ChunkAt)' = 0
      BY <1>4 DEF Given
    <3>. QED  BY <3>1 DEF FP!ItemCount, FP!delay, FP!item_duration
  <2>3. fileAt' <= ChunkAt' /\ Len(buffer') <= chunk_size'
    BY <1>1, <1>3, <1>4, <2>1
  <2>4. base' = fileAt' /\ base' = ChunkAt'
    BY <1>1, <1>4, <2>1
  <2>5. overlap' = overlap
    BY <1>1, OptionsSame
  <2>6. Len(cleared') = FP!ItemCount(Given(ChunkAt))'
    BY <1>4, <2>2, NoItems
  <2>. QED  BY <1>1, <1>5, <2>1, <2>3, <2>4, <2>5, <2>6 DEF ChunkInv
<1>10. ClaimInv'
  BY <1>1 DEF ClaimInv
<1>11. WholeInv'
  BY <1>1, <1>2, <1>4, ItemsEmpty, Zenon DEF WholeInv
<1>. QED  BY <1>4, <1>6, <1>7, <1>8, <1>9, <1>10, <1>11 DEF IInv

\* The program ends without a result of this file.
LEMMA FailsIInv ==
    ASSUME IInv, OpenFails \/ EmptyFingerprint \/ NotEnough
    PROVE  IInv'
<1>1. /\ pc # "exit" /\ pc' = "exit" /\ status' = 2
      /\ UNCHANGED <<fp, options, file, locals, fileAt>>
  BY DEF OpenFails, EmptyFingerprint, NotEnough, Exit
<1>2. printed' = <<>>
  <2>1. CASE OpenFails
    BY <2>1 DEF OpenFails
  <2>2. CASE EmptyFingerprint \/ NotEnough
    <3>1. first_chunk /\ InFile /\ pc # "chunk_restart" /\ printed' = printed
      BY <2>2 DEF EmptyFingerprint, NotEnough, InFile
    <3>. QED  BY <3>1 DEF IInv, ResultsInv
  <2>. QED  BY <2>1, <2>2
<1>3. /\ UNCHANGED <<stream_size, chunk_size, extra_chunk_limit, first_chunk, got_results,
                     stream_done, frame_size, ts>>
      /\ fed' = fed
  BY <1>1 DEF locals, fp
<1>4. FpInv'
  BY <1>1, FpSame DEF IInv
<1>5. TypeInv'
  <2>1. printed' \in Seq(Result)
    BY <1>2
  <2>. HIDE DEF Result
  <2>. QED  BY <1>1, <1>3, <2>1 DEF IInv, TypeInv
<1>6. ResultsInv'
  BY <1>1, <1>2 DEF ResultsInv, InFile, ExitTellsResults, FileDone
<1>7. StreamInv'
  BY <1>1, <1>3, OptionsSame DEF IInv, StreamInv, InFile
<1>8. ChunkInv' /\ ClaimInv' /\ WholeInv'
  BY <1>1, <1>2 DEF ChunkInv, ClaimInv, WholeInv, InFile
<1>. QED  BY <1>4, <1>5, <1>6, <1>7, <1>8 DEF IInv

\* The last result of the file is there: with it all items are.
LEMMA LastPrintIInv ==
    ASSUME IInv, LastPrint
    PROVE  IInv'
<1>1. /\ pc = "last_print"
      /\ \/ PrintResult /\ got_results' = TRUE
         \/ chunk_size = 0 /\ ~first_chunk /\ UNCHANGED <<printed, got_results>>
      /\ \/ /\ read_failed
            /\ pc' = "exit" /\ status' = (IF got_results' THEN 3 ELSE 2)
            /\ file' = file
         \/ pc' = "exit" /\ status' = 0 /\ file' = file
         \/ pc' = "open" /\ file' = file + 1 /\ status' = status
      /\ UNCHANGED <<fp, options, stream_size, chunk_size, extra_chunk_limit,
                     first_chunk, read_failed, stream_done, frame_size, ts, fileAt>>
  BY DEF LastPrint, Exit
<1>2. InFile /\ ~InFile' /\ pc # "chunk_restart"
  BY <1>1 DEF InFile
<1>3. UNCHANGED <<fed, base, cleared, fingerprint, from, buffer>>
  BY <1>1 DEF fp
<1>4. /\ Len(buffer) = 0 /\ Len(cleared) = FP!ItemCount(Given(ChunkAt))
      /\ base = IF OneStream THEN fileAt ELSE ChunkAt
  BY <1>1, <1>2, Zenon DEF IInv, ChunkInv
<1>5. /\ got_results' = TRUE
      /\ printed' \in Seq(Result) /\ printed' # <<>> /\ ClaimInv'
      /\ OneStream => FlattenSeq(Items(printed')) = cleared \o fingerprint
  <2>1. CASE PrintResult /\ got_results' = TRUE
    BY <1>1, <2>1, Prints
  <2>2. CASE chunk_size = 0 /\ ~first_chunk /\ UNCHANGED <<printed, got_results>>
    <3>1. /\ printed \in Seq(Result) /\ ClaimInv
          /\ got_results \in BOOLEAN /\ got_results /\ printed # <<>>
          /\ OneStream => FlattenSeq(Items(printed)) = cleared
      BY <1>2, <2>2, Zenon DEF IInv, TypeInv, ResultsInv, WholeInv
    <3>2. ClaimInv'
      BY <1>1, <2>2, <3>1 DEF ClaimInv, Claimed
    <3>3. cleared \o fingerprint = cleared
      <4>1. ChunkAt = fed - Len(buffer)
        BY <1>4, <2>2 DEF ChunkAt
      <4>2. Given(ChunkAt) = GivenNow
        BY <4>1, Zenon DEF Given, GivenNow
      <4>3. Len(fingerprint) = 0
        BY <1>4, <4>2, ItemsCounted DEF IInv
      <4>. QED  BY <4>3, FpTypes DEF IInv
    <3>. QED  BY <2>2, <3>1, <3>2, <3>3
  <2>. QED  BY <1>1, <2>1, <2>2
<1>6. FpInv'
  BY <1>1, FpSame DEF IInv
<1>7. TypeInv'
  <2>1. file \in Nat \ {0} /\ (status = -1 <=> pc # "exit")
    BY DEF IInv, TypeInv
  <2>2. file' \in Nat \ {0} /\ (status' = -1 <=> pc' # "exit") /\ pc' \in {"open", "exit"}
    BY <1>1, <1>5, <2>1
  <2>. HIDE DEF Result
  <2>. QED  BY <1>1, <1>3, <1>5, <2>2 DEF IInv, TypeInv
<1>8. ResultsInv'
  <2>1. pc' = "exit" => ExitTellsResults'
    BY <1>1, <1>5 DEF ExitTellsResults
  <2>. QED  BY <1>2, <1>5, <2>1 DEF ResultsInv
<1>9. StreamInv'
  BY <1>1, <1>2, <1>3, OptionsSame DEF IInv, StreamInv, InFile
<1>10. ChunkInv'
  BY <1>2 DEF ChunkInv
<1>11. WholeInv'
  BY <1>1, <1>2, <1>3, <1>4, <1>5, OptionsSame, Zenon DEF WholeInv
<1>. QED  BY <1>5, <1>6, <1>7, <1>8, <1>9, <1>10, <1>11 DEF IInv

-----------------------------------------------------------------------------
(* The invariant, and what it implies.                                     *)

LEMMA InitIInv == Init => IInv
<1>. SUFFICES ASSUME Init PROVE IInv
  OBVIOUS
<1>1. /\ FpInv /\ fed = 0
  BY FpInit DEF Init
<1>2. TypeInv
  <2>1. /\ printed \in Seq(Result) /\ MaxStream \in Nat
        /\ ts \in Int /\ extra_chunk_limit \in Int /\ file \in Nat \ {0}
        /\ stream_size \in Nat /\ chunk_size \in Nat /\ frame_size \in Nat
        /\ fileAt = 0
    BY FingerprinterAssumption DEF Init
  <2>2. first_chunk \in BOOLEAN /\ got_results \in BOOLEAN /\ (status = -1 <=> pc # "exit")
    BY DEF Init
  <2>3. fed \in Nat /\ fed <= MaxStream /\ fileAt \in Nat /\ fileAt <= fed
    BY <1>1, <2>1
  <2>. HIDE DEF Result
  <2>. QED  BY <2>1, <2>2, <2>3 DEF Init, TypeInv
<1>3. ResultsInv
  BY DEF Init, ResultsInv, InFile
<1>4. StreamInv
  <2>1. stream_limit \in Nat
    BY OptionTypes DEF Init
  <2>. QED  BY <1>1, <2>1 DEF Init, StreamInv, InFile
<1>5. ChunkInv /\ ClaimInv /\ WholeInv
  BY DEF Init, ChunkInv, ClaimInv, WholeInv, InFile
<1>. QED  BY <1>1, <1>2, <1>3, <1>4, <1>5 DEF IInv

LEMMA StutterIInv == ASSUME IInv, UNCHANGED vars PROVE IInv'
<1>1. /\ UNCHANGED <<fp, pc, options, file, fileAt, printed, status>>
      /\ UNCHANGED <<stream_size, chunk_size, extra_chunk_limit, first_chunk, read_failed,
                     got_results, stream_done, frame_size, ts>>
      /\ UNCHANGED <<fed, base, cleared, fingerprint, from, buffer>>
  BY DEF vars, locals, fp
<1>2. FpInv'
  BY <1>1, FpSame DEF IInv
<1>3. TypeInv' /\ ResultsInv' /\ StreamInv'
  BY <1>1, OptionsSame DEF IInv, TypeInv, ResultsInv, StreamInv, InFile, ExitTellsResults,
     FileDone
<1>4. ChunkInv'
  <2>1. ChunkAt' = ChunkAt
    BY <1>1 DEF ChunkAt
  <2>2. FP!ItemCount(Given(ChunkAt))' = FP!ItemCount(Given(ChunkAt))
    <3>1. Given(ChunkAt)' = Given(ChunkAt)
      BY <1>1, <2>1 DEF Given
    <3>. QED  BY <3>1 DEF FP!ItemCount, FP!delay, FP!item_duration
  <2>. QED  BY <1>1, <2>1, <2>2, OptionsSame, Zenon DEF IInv, ChunkInv, InFile
<1>5. ClaimInv' /\ WholeInv'
  BY <1>1, OptionsSame DEF IInv, ClaimInv, Claimed, WholeInv, InFile, Items
<1>. QED  BY <1>2, <1>3, <1>4, <1>5 DEF IInv

LEMMA StepIInv == IInv /\ [Next]_vars => IInv'
<1>. SUFFICES ASSUME IInv, [Next]_vars PROVE IInv'
  OBVIOUS
<1>1. CASE OpenFails \/ EmptyFingerprint \/ NotEnough
  BY <1>1, FailsIInv
<1>2. CASE OpenFile
  BY <1>2, OpenFileIInv
<1>3. CASE EndOfFile \/ ReadFails
  BY <1>3, EndsReading
<1>4. CASE Read
  <2>1. PICK n \in FrameSizes : ReadNothing(n) \/ ReadFrame(n)
    BY <1>4, Zenon DEF Read
  <2>2. n \in Nat
    BY SizesAssumption
  <2>. QED  BY <2>1, <2>2, ReadNothingIInv, ReadFrameIInv
<1>5. CASE ChunkFinish \/ LastFinish
  BY <1>5, FinishesIInv
<1>6. CASE ChunkPrint
  BY <1>6, ChunkPrintIInv
<1>7. CASE ChunkRestart
  BY <1>7, ChunkRestartIInv
<1>8. CASE Rest
  BY <1>8, RestIInv
<1>9. CASE LastPrint
  BY <1>9, LastPrintIInv
<1>10. CASE UNCHANGED vars
  BY <1>10, StutterIInv
<1>. QED  BY <1>1, <1>2, <1>3, <1>4, <1>5, <1>6, <1>7, <1>8, <1>9, <1>10, Zenon
          DEF Next, Progress

LEMMA IInvTells == IInv => ExitTellsResults
<1>. SUFFICES ASSUME IInv, FileDone
              PROVE  /\ status = 2 <=> printed = <<>>
                     /\ status = 3 => read_failed
                     /\ status \in {0, 3} \/ pc = "open" => got_results
  BY DEF ExitTellsResults
<1>1. CASE pc = "open" /\ file > 1
  <2>1. status = -1 /\ got_results /\ printed # <<>>
    BY <1>1 DEF IInv, TypeInv, ResultsInv
  <2>. QED  BY <1>1, <2>1
<1>2. CASE pc = "exit"
  BY <1>2 DEF IInv, ResultsInv, ExitTellsResults
<1>. QED  BY <1>1, <1>2 DEF FileDone

LEMMA IInvClaims == IInv => ResultsMatchClaim
BY DEF IInv, ClaimInv, Claimed, ResultsMatchClaim

\* Without a silence remover, a stream that has no first sample is empty.
LEMMA StreamOfFile ==
    ASSUME FpInv, ~REMOVE_SILENCE, Len(buffer) = 0
    PROVE  /\ from = 0 => fed = base
           /\ from # 0 => from = base + 1
<1>1. from # 0 => from = base + 1
  BY DEF FpInv, FirstIsNext
<1>2. from = 0 => P!Passed = base
  BY Zenon DEF FpInv, P!IInv, P!SilenceInv
<1>3. P!Passed = fed
  BY FpTypes DEF P!Passed
<1>. QED  BY <1>1, <1>2, <1>3

LEMMA IInvIsWhole == ~REMOVE_SILENCE /\ IInv => AllAudioFingerprinted
<1>. SUFFICES ASSUME ~REMOVE_SILENCE, IInv PROVE AllAudioFingerprinted
  OBVIOUS
<1>. DEFINE length == fed - fileAt
<1>1. stream_limit > 0 =>
         length <= stream_limit /\ (stream_done => stream_size = stream_limit)
  BY DEF IInv, StreamInv
<1>2. ASSUME FileDone, OneStream, printed # <<>>
      PROVE  FlattenSeq(Items(printed))
                = [k \in 1 .. FP!ItemCount(length) |-> FP!ItemSamples(fileAt + 1, k)]
  <2>1. ~InFile
    BY <1>2 DEF FileDone, InFile
  <2>2. /\ FlattenSeq(Items(printed)) = cleared \o fingerprint
        /\ base = fileAt /\ Len(buffer) = 0
    BY <1>2, <2>1, Zenon DEF IInv, WholeInv
  <2>3. FpInv /\ fed \in Nat /\ fileAt \in Nat
    BY DEF IInv, TypeInv
  <2>4. /\ GivenNow = IF from = 0 THEN 0 ELSE (fed - 0) - from + 1
        /\ cleared \o fingerprint
             = [k \in 1 .. FP!ItemCount(GivenNow) |-> FP!ItemSamples(from, k)]
    BY <2>2, <2>3, ItemsMade
  <2>5. GivenNow = length
    BY <2>2, <2>3, <2>4, StreamOfFile
  <2>6. CASE from = 0
    <3>1. length = 0
      BY <2>4, <2>5, <2>6
    <3>2. 1 .. FP!ItemCount(length) = {}
      BY <3>1, NoItems
    <3>. QED  BY <2>2, <2>4, <2>5, <3>2
  <2>7. CASE from # 0
    <3>1. from = fileAt + 1
      BY <2>2, <2>3, <2>7, StreamOfFile
    <3>. QED  BY <2>2, <2>4, <2>5, <3>1
  <2>. QED  BY <2>6, <2>7
<1>. QED  BY <1>1, <1>2, Zenon DEF AllAudioFingerprinted, OneStream, Items

-----------------------------------------------------------------------------
(* The size of a chunk, where no frame is longer than one.                 *)

\* No sum of a chunk's limits wraps.
LimitsFit == \A o \in Options : o.chunk_limit + FP!delay < SIZE_T

\* A chunk holds no more than its limit, with the rest of a frame that was cut
\* for the chunk before; one that is cut holds exactly that; all results but
\* the last of a file are of such chunks.
SizeInv ==
    FramesFit =>
        /\ InFile =>
              /\ pc \in {"read", "last_finish", "last_print"} =>
                    chunk_size <= chunk_limit + extra_chunk_limit
              /\ pc = "rest" => chunk_size + frame_size <= chunk_limit + extra_chunk_limit
              /\ pc \in {"chunk_finish", "chunk_print"} =>
                    chunk_size = chunk_limit + extra_chunk_limit
              /\ pc \in {"chunk_finish", "chunk_print", "chunk_restart"} =>
                    frame_size <= chunk_limit
              /\ \A i \in DOMAIN printed : printed[i].duration = chunk_limit + overlap
        /\ ChunksAreExact

LEMMA SizeTypes ==
    ASSUME IInv
    PROVE  /\ options \in Options /\ chunk_limit \in Nat /\ overlap \in Nat
           /\ chunk_size \in Nat /\ frame_size \in Nat /\ printed \in Seq(Result)
           /\ InFile => extra_chunk_limit \in {0, overlap} /\ extra_chunk_limit \in Nat
<1>1. /\ options \in Options /\ chunk_size \in Nat /\ frame_size \in Nat
      /\ printed \in Seq(Result) /\ first_chunk \in BOOLEAN
  BY Zenon DEF IInv, TypeInv
<1>2. chunk_limit \in Nat /\ overlap \in Nat
  BY <1>1, OptionTypes
<1>3. InFile => extra_chunk_limit \in {0, overlap}
  BY <1>1 DEF IInv, ChunkInv
<1>. HIDE DEF Result
<1>. QED  BY <1>1, <1>2, <1>3

\* The duration of a chunk is its size but for the extra samples of the first.
LEMMA DurationOfSize ==
    ASSUME IInv, InFile, pc # "chunk_restart", Len(buffer) = 0,
           first_chunk => fingerprint # <<>>
    PROVE  ChunkDuration = (chunk_size - extra_chunk_limit) + overlap
<1>1. ChunkDuration \in Int /\ ts + ChunkDuration = fed - fileAt
  BY DurationIs
<1>2. /\ fileAt \in Nat /\ fed \in Nat /\ chunk_size \in Nat /\ first_chunk \in BOOLEAN
      /\ ts \in Int
  BY DEF IInv, TypeInv
<1>3. /\ first_chunk => fed - chunk_size = fileAt /\ extra_chunk_limit = overlap /\ ts = 0
      /\ ~first_chunk =>
            extra_chunk_limit = 0 /\ ts = ((fed - chunk_size) - fileAt) - overlap
  BY Zenon DEF IInv, ChunkInv, ChunkAt
<1>4. overlap \in Nat
  BY SizeTypes
<1>. QED  BY <1>1, <1>2, <1>3, <1>4

\* What is printed next to results of exact chunks.
LEMMA PrintsExact ==
    ASSUME IInv, SizeInv, FramesFit, pc \in {"chunk_print", "last_print"},
           PrintResult \/ UNCHANGED printed, UNCHANGED options
    PROVE  /\ pc = "chunk_print" =>
                 \A i \in DOMAIN printed' : printed'[i].duration = chunk_limit + overlap
           /\ ChunksAreExact'
<1>1. InFile /\ pc # "chunk_restart"
  BY DEF InFile
<1>2. /\ chunk_limit \in Nat /\ overlap \in Nat /\ chunk_size \in Nat
      /\ extra_chunk_limit \in Nat /\ printed \in Seq(Result)
  BY <1>1, SizeTypes
<1>3. /\ \A i \in DOMAIN printed : printed[i].duration = chunk_limit + overlap
      /\ chunk_size <= chunk_limit + extra_chunk_limit
      /\ pc = "chunk_print" => chunk_size = chunk_limit + extra_chunk_limit
  BY <1>1, <1>2 DEF SizeInv
<1>4. chunk_limit' = chunk_limit /\ overlap' = overlap
  BY OptionsSame
<1>5. CASE printed' = printed
  <2>1. \A i \in DOMAIN printed' : printed'[i].duration = chunk_limit + overlap
    BY <1>3, <1>5
  <2>. QED  BY <1>2, <1>4, <2>1 DEF ChunksAreExact
<1>6. CASE PrintResult /\ fingerprint # <<>>
  <2>. DEFINE r == [ts |-> ts, duration |-> ChunkDuration,
                    items |-> fingerprint, at |-> fed - fileAt]
  <2>1. printed' = Append(printed, r)
    BY <1>6 DEF PrintResult
  <2>2. Len(buffer) = 0
    BY <1>1, Zenon DEF IInv, ChunkInv
  <2>3. ChunkDuration = (chunk_size - extra_chunk_limit) + overlap
    BY <1>1, <1>6, <2>2, DurationOfSize
  <2>4. /\ r.duration <= chunk_limit + overlap
        /\ pc = "chunk_print" => r.duration = chunk_limit + overlap
    BY <1>2, <1>3, <2>3
  <2>. HIDE DEF r, Result
  <2>5. /\ Len(printed') = Len(printed) + 1 /\ Len(printed) \in Nat
        /\ DOMAIN printed' = 1 .. Len(printed) + 1 /\ DOMAIN printed = 1 .. Len(printed)
        /\ \A i \in DOMAIN printed : printed'[i] = printed[i]
        /\ printed'[Len(printed) + 1] = r
    BY <1>2, <2>1
  <2>6. ASSUME NEW i \in DOMAIN printed'
        PROVE  \/ i \in DOMAIN printed /\ printed'[i].duration = chunk_limit + overlap
               \/ i = Len(printed') /\ printed'[i].duration = r.duration
    <3>1. i \in DOMAIN printed \/ i = Len(printed) + 1
      BY <2>5
    <3>2. CASE i \in DOMAIN printed
      BY <1>3, <2>5, <3>2
    <3>3. CASE i = Len(printed) + 1
      BY <2>5, <3>3
    <3>. QED  BY <3>1, <3>2, <3>3
  <2>7. \A i \in DOMAIN printed' :
           /\ printed'[i].duration <= chunk_limit + overlap
           /\ i < Len(printed') => printed'[i].duration = chunk_limit + overlap
    <3>1. chunk_limit + overlap \in Int
      BY <1>2
    <3>. QED  BY <2>4, <2>5, <2>6, <3>1
  <2>8. pc = "chunk_print" =>
           \A i \in DOMAIN printed' : printed'[i].duration = chunk_limit + overlap
    BY <2>4, <2>6
  <2>. QED  BY <1>4, <2>7, <2>8 DEF ChunksAreExact
<1>7. PrintResult /\ fingerprint = <<>> => printed' = printed
  BY DEF PrintResult
<1>. QED  BY <1>5, <1>6, <1>7

\* A frame is cut only for a chunk that it fills.
LEMMA ReadFrameSize ==
    ASSUME IInv, SizeInv, LimitsFit, NEW n \in FrameSizes, ReadFrame(n)
    PROVE  SizeInv'
<1>. DEFINE size == Allowed(n)
<1>1. /\ pc = "read" /\ InFile
      /\ chunk_size' = chunk_size + (IF ChunkDone(size) THEN RemainingOfChunk ELSE size)
      /\ frame_size' = size - (IF ChunkDone(size) THEN RemainingOfChunk ELSE size)
      /\ pc' = IF ChunkDone(size) THEN "chunk_finish" ELSE "rest"
      /\ UNCHANGED <<options, extra_chunk_limit, printed>>
  BY DEF ReadFrame, TakePacket, InFile
<1>2. /\ chunk_limit \in Nat /\ overlap \in Nat /\ chunk_size \in Nat
      /\ extra_chunk_limit \in {0, overlap} /\ options \in Options
  BY <1>1, SizeTypes
<1>3. n \in Nat /\ SIZE_T \in Nat
  BY SizesAssumption
<1>4. size \in Nat /\ size <= n
  <2>1. size \in Nat
    BY <1>1, <1>3, AllowedIs
  <2>2. CASE CutShort(n)
    <3>1. n > Minus(stream_limit, stream_size) /\ size = Minus(stream_limit, stream_size)
      BY <2>2, Zenon DEF CutShort, Allowed
    <3>. QED  BY <1>3, <2>1, <3>1
  <2>3. CASE ~CutShort(n)
    BY <1>3, <2>3 DEF Allowed
  <2>. QED  BY <2>1, <2>2, <2>3
<1>. HIDE DEF size
<1>5. chunk_limit' = chunk_limit /\ overlap' = overlap
  BY <1>1, OptionsSame
<1>6. FramesFit' => FramesFit
  BY <1>5 DEF FramesFit
<1>7. ASSUME FramesFit
      PROVE  /\ chunk_size <= chunk_limit + extra_chunk_limit
             /\ \A i \in DOMAIN printed : printed[i].duration = chunk_limit + overlap
             /\ ChunksAreExact /\ size <= chunk_limit /\ chunk_limit > 0
  <2>1. n <= chunk_limit /\ chunk_limit > 0
    BY <1>7 DEF FramesFit
  <2>. QED  BY <1>1, <1>2, <1>3, <1>4, <1>7, <2>1 DEF SizeInv
<1>8. ASSUME FramesFit
      PROVE  RemainingOfChunk = (chunk_limit + extra_chunk_limit) - chunk_size
  <2>1. chunk_limit + FP!delay < SIZE_T /\ overlap <= FP!delay
    BY <1>2, OptionTypes, ItemTypes DEF LimitsFit, chunk_limit
  <2>. DEFINE all == chunk_limit + extra_chunk_limit
  <2>2. all \in Nat /\ all < SIZE_T /\ chunk_size <= all
    BY <1>2, <1>3, <1>7, <1>8, <2>1, ItemTypes
  <2>. HIDE DEF all
  <2>3. Minus(all, chunk_size) = all - chunk_size
    BY <1>2, <2>2, NoWrap
  <2>. QED  BY <2>3 DEF RemainingOfChunk, all
<1>9. ASSUME FramesFit
      PROVE  /\ pc' = "rest" => chunk_size' + frame_size' <= chunk_limit + extra_chunk_limit
             /\ pc' = "chunk_finish" => /\ chunk_size' = chunk_limit + extra_chunk_limit
                                        /\ frame_size' <= chunk_limit
  <2>1. CASE ChunkDone(size)
    <3>1. /\ pc' = "chunk_finish" /\ chunk_size' = chunk_size + RemainingOfChunk
          /\ frame_size' = size - RemainingOfChunk
      BY <1>1, <2>1
    <3>. QED  BY <1>2, <1>4, <1>7, <1>8, <1>9, <3>1
  <2>2. CASE ~ChunkDone(size)
    <3>1. pc' = "rest" /\ chunk_size' = chunk_size + size /\ frame_size' = size - size
      BY <1>1, <2>2
    <3>2. size <= RemainingOfChunk
      <4>1. RemainingOfChunk \in Int
        BY <1>2, <1>8, <1>9
      <4>. QED  BY <1>4, <1>7, <1>9, <2>2, <4>1 DEF ChunkDone
    <3>. QED  BY <1>2, <1>4, <1>7, <1>8, <1>9, <3>1, <3>2
  <2>. QED  BY <2>1, <2>2
<1>10. ChunksAreExact => ChunksAreExact'
  BY <1>1, <1>5, <1>6 DEF ChunksAreExact
<1>11. pc' \in {"chunk_finish", "rest"}
  BY <1>1
<1>. QED  BY <1>1, <1>5, <1>6, <1>7, <1>9, <1>10, <1>11 DEF SizeInv

\* A new chunk begins with the rest of the frame, no more than its limit.
LEMMA RestartSize ==
    ASSUME IInv, SizeInv, ChunkRestart \/ Rest
    PROVE  SizeInv'
<1>1. InFile /\ InFile' /\ UNCHANGED <<options, printed>>
  BY DEF ChunkRestart, Rest, InFile
<1>2. /\ chunk_limit \in Nat /\ overlap \in Nat /\ chunk_size \in Nat /\ frame_size \in Nat
      /\ extra_chunk_limit \in Nat
  BY <1>1, SizeTypes
<1>3. chunk_limit' = chunk_limit /\ overlap' = overlap
  BY <1>1, OptionsSame
<1>4. (FramesFit' => FramesFit) /\ (ChunksAreExact => ChunksAreExact')
  BY <1>1, <1>3 DEF FramesFit, ChunksAreExact
<1>5. CASE ChunkRestart
  <2>1. /\ pc = "chunk_restart" /\ pc' = "rest" /\ chunk_size' = 0
        /\ frame_size' = frame_size /\ extra_chunk_limit' \in {0, extra_chunk_limit}
    BY <1>5 DEF ChunkRestart, ExtraOfNextChunk
  <2>2. FramesFit => frame_size <= chunk_limit
    BY <1>1, <2>1 DEF SizeInv
  <2>3. extra_chunk_limit' \in Nat
    BY <1>2, <2>1
  <2>4. frame_size <= chunk_limit => 0 + frame_size <= chunk_limit + extra_chunk_limit'
    <3>. DEFINE extra == extra_chunk_limit'
    <3>1. extra \in Nat
      BY <2>3
    <3>. HIDE DEF extra
    <3>2. frame_size <= chunk_limit => 0 + frame_size <= chunk_limit + extra
      BY <1>2, <3>1
    <3>. QED  BY <3>2 DEF extra
  <2>5. FramesFit => chunk_size' + frame_size' <= chunk_limit + extra_chunk_limit'
    BY <2>1, <2>2, <2>4
  <2>. QED  BY <1>1, <1>3, <1>4, <2>1, <2>5 DEF SizeInv
<1>6. CASE Rest
  <2>1. /\ pc = "rest" /\ pc' \in {"read", "last_finish"}
        /\ chunk_size' = chunk_size + frame_size /\ extra_chunk_limit' = extra_chunk_limit
    BY <1>6 DEF Rest
  <2>. QED  BY <1>1, <1>3, <1>4, <2>1 DEF SizeInv
<1>. QED  BY <1>5, <1>6

\* All steps.
LEMMA StepSize == LimitsFit /\ IInv /\ SizeInv /\ [Next]_vars => SizeInv'
<1>. SUFFICES ASSUME LimitsFit, IInv, SizeInv, [Next]_vars PROVE SizeInv'
  OBVIOUS
<1>1. ASSUME options' = options
      PROVE  /\ chunk_limit' = chunk_limit /\ overlap' = overlap
             /\ FramesFit' => FramesFit
             /\ ChunksAreExact /\ printed' = printed => ChunksAreExact'
  BY <1>1, OptionsSame DEF FramesFit, ChunksAreExact
<1>2. CASE OpenFails \/ OpenFile \/ EmptyFingerprint \/ NotEnough
  <2>1. /\ options' = options /\ printed' = <<>>
        /\ pc' = "exit" \/ (/\ pc' = "read" /\ chunk_size' = 0
                            /\ extra_chunk_limit' \in {0, overlap})
    <3>1. CASE OpenFails
      BY <3>1 DEF OpenFails, Exit
    <3>2. CASE OpenFile
      BY <3>2 DEF OpenFile, overlap
    <3>3. CASE EmptyFingerprint \/ NotEnough
      <4>1. /\ first_chunk /\ InFile /\ pc # "chunk_restart" /\ printed' = printed
            /\ options' = options /\ pc' = "exit"
        BY <3>3 DEF EmptyFingerprint, NotEnough, InFile, Exit
      <4>2. printed = <<>>
        BY <4>1 DEF IInv, ResultsInv
      <4>. QED  BY <4>1, <4>2
    <3>. QED  BY <1>2, <3>1, <3>2, <3>3
  <2>2. chunk_limit \in Nat /\ overlap \in Nat
    BY SizeTypes
  <2>3. ChunksAreExact' /\ DOMAIN printed' = {}
    BY <2>1 DEF ChunksAreExact
  <2>. QED  BY <1>1, <2>1, <2>2, <2>3 DEF SizeInv, InFile
<1>3. CASE EndOfFile \/ ReadFails \/ ChunkFinish \/ LastFinish \/ UNCHANGED vars
  <2>1. /\ UNCHANGED <<options, printed, chunk_size, extra_chunk_limit, frame_size>>
        /\ \/ pc = "read" /\ pc' = "last_finish"
           \/ pc = "chunk_finish" /\ pc' = "chunk_print"
           \/ pc = "last_finish" /\ pc' = "last_print"
           \/ pc' = pc
    BY <1>3 DEF EndOfFile, ReadFails, ChunkFinish, LastFinish, vars, locals
  <2>. QED  BY <1>1, <2>1 DEF SizeInv, InFile
<1>4. CASE Read
  <2>1. PICK n \in FrameSizes : ReadNothing(n) \/ ReadFrame(n)
    BY <1>4, Zenon DEF Read
  <2>2. CASE ReadNothing(n)
    <3>1. /\ UNCHANGED <<options, printed, chunk_size, extra_chunk_limit>>
          /\ pc = "read" /\ pc' \in {"read", "last_finish"}
      BY <2>2 DEF ReadNothing, TakePacket, AfterEmpty
    <3>. QED  BY <1>1, <3>1 DEF SizeInv, InFile
  <2>. QED  BY <2>1, <2>2, ReadFrameSize
<1>5. CASE ChunkPrint
  <2>1. /\ pc = "chunk_print" /\ pc' = "chunk_restart" /\ PrintResult
        /\ UNCHANGED <<options, frame_size>>
    BY <1>5 DEF ChunkPrint
  <2>2. FramesFit =>
           /\ \A i \in DOMAIN printed' : printed'[i].duration = chunk_limit + overlap
           /\ ChunksAreExact'
    BY <2>1, PrintsExact
  <2>. QED  BY <1>1, <2>1, <2>2 DEF SizeInv, InFile
<1>6. CASE LastPrint
  <2>1. /\ pc = "last_print" /\ pc' \in {"open", "exit"} /\ options' = options
        /\ PrintResult \/ UNCHANGED printed
    BY <1>6 DEF LastPrint, Exit
  <2>2. FramesFit => ChunksAreExact'
    BY <2>1, PrintsExact
  <2>. QED  BY <1>1, <2>1, <2>2 DEF SizeInv, InFile
<1>7. CASE ChunkRestart \/ Rest
  BY <1>7, RestartSize
<1>. QED  BY <1>2, <1>3, <1>4, <1>5, <1>6, <1>7, Zenon DEF Next, Progress

-----------------------------------------------------------------------------
\* IInv is kept by every command line, in every reading of every file.
THEOREM Invariance == Spec => []IInv
<1>. QED  BY InitIInv, StepIInv, PTL DEF Spec

\* A script sees from the exit status whether the last file gave anything, and
\* a file that ends without an error gave something.
THEOREM ExitIsTrue == Spec => []ExitTellsResults
<1>. QED  BY Invariance, IInvTells, PTL

\* Timestamp and duration of every printed result are those of the audio it
\* was made from, also when chunks overlap or the first one was extended.
THEOREM ClaimsAreTrue == Spec => []ResultsMatchClaim
<1>. QED  BY Invariance, IInvClaims, PTL

\* With overlapping chunks, or without chunks, the results of a file are the
\* fingerprint of all that the stream limit lets in, nothing missing and
\* nothing twice; a silence remover would cut the start of each stream.
THEOREM WholeFileIsFingerprinted ==
    ~REMOVE_SILENCE => (Spec => []AllAudioFingerprinted)
<1>. SUFFICES ASSUME ~REMOVE_SILENCE PROVE Spec => []AllAudioFingerprinted
  OBVIOUS
<1>1. IInv => AllAudioFingerprinted
  BY IInvIsWhole
<1>. QED  BY Invariance, <1>1, PTL

\* Where no frame of the reader is longer than a chunk, every chunk is cut
\* where it should be; where one is, none may be (MCFpcalcShortChunks.cfg).
THEOREM ChunksAreCut == LimitsFit => (Spec => []ChunksAreExact)
<1>. SUFFICES ASSUME LimitsFit PROVE Spec => []ChunksAreExact
  OBVIOUS
<1>1. Init => SizeInv
  BY DEF Init, SizeInv, ChunksAreExact, InFile
<1>2. IInv /\ SizeInv /\ [Next]_vars => SizeInv'
  BY StepSize
<1>3. SizeInv => ChunksAreExact
  BY DEF SizeInv, ChunksAreExact
<1>. QED  BY Invariance, <1>1, <1>2, <1>3, PTL DEF Spec
=============================================================================
