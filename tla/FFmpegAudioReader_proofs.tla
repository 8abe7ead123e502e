----------------------- MODULE FFmpegAudioReader_proofs -----------------------
(***************************************************************************)
(* Theorems about FFmpegAudioReader, for all files, buffers and lags: no   *)
(* sample is lost between the demuxer and the caller, and the reader is an *)
(* AudioSource.                                                            *)
(*                                                                         *)
(* First what FlattenSeq makes of sequences joined; it is a recursive      *)
(* function, so this needs induction, in the form of NatInduct: a set of   *)
(* numbers with 0 and the successor of each of its elements has all.  Then *)
(* the parts in which a file is between its packets and the caller, the    *)
(* invariant, its steps, and the mapping to AudioSource.                   *)
(***************************************************************************)
EXTENDS FFmpegAudioReader, TLAPS, WellFoundedInduction, SequenceTheorems

-----------------------------------------------------------------------------
(* FlattenSeq.                                                             *)

\* f is the function that FlattenSeq computes, for the first n elements of s.
Flattens(f, s, n) ==
    f = [i \in 1 .. n |-> IF i = 1 THEN s[i] ELSE f[i - 1] \o s[i]]

LEMMA FlattenIs ==
    ASSUME NEW s, Len(s) \in Nat \ {0}
    PROVE FlattenSeq(s) = (CHOOSE f : Flattens(f, s, Len(s)))[Len(s)]
BY DEF FlattenSeq, Flattens

LEMMA NatInduct ==
    ASSUME NEW T \in SUBSET Nat, 0 \in T, \A n \in T : n + 1 \in T
    PROVE  Nat \subseteq T
<1>1. SUFFICES ASSUME NEW m \in Nat, m \notin T PROVE FALSE
  OBVIOUS
<1>2. PICK x \in Nat \ T : \A y \in Nat \ T : ~ (<<y, x>> \in OpToRel(<, Nat))
  BY <1>1, WFMin, NatLessThanWellFounded
<1>3. x # 0 /\ x \in Nat /\ x \notin T
  OBVIOUS
<1>5. x - 1 \in Nat /\ x - 1 < x /\ (x - 1) + 1 = x
  BY <1>3
<1>4. x - 1 \in T
  <2>1. <<x - 1, x>> \in OpToRel(<, Nat)
    BY <1>3, <1>5 DEF OpToRel
  <2>. QED  BY <1>2, <1>5, <2>1
<1>. QED  BY <1>3, <1>4, <1>5

At(f, s, i) == f[i] = IF i = 1 THEN s[i] ELSE f[i - 1] \o s[i]

LEMMA FlattensAt ==
    ASSUME NEW f, NEW s, NEW n, Flattens(f, s, n), NEW i \in 1 .. n
    PROVE  At(f, s, i)
<1>. DEFINE e(j) == IF j = 1 THEN s[j] ELSE f[j - 1] \o s[j]
<1>1. f = [j \in 1 .. n |-> e(j)]
  BY DEF Flattens
<1>2. f[i] = e(i)
  <2>. HIDE DEF e
  <2>. QED  BY <1>1
<1>. QED  BY <1>2 DEF At

LEMMA FlattensFirst ==
    ASSUME NEW f, NEW s, NEW n \in Nat, Flattens(f, s, n), n # 0
    PROVE  f[1] = s[1]
<1>1. 1 \in 1 .. n
  OBVIOUS
<1>2. At(f, s, 1)
  BY <1>1, FlattensAt
<1>. QED  BY <1>2 DEF At

LEMMA FlattensNext ==
    ASSUME NEW f, NEW s, NEW n \in Nat, Flattens(f, s, n), NEW k \in 1 .. n - 1
    PROVE  f[k + 1] = f[k] \o s[k + 1]
<1>1. k + 1 \in 1 .. n /\ k + 1 # 1 /\ (k + 1) - 1 = k
  OBVIOUS
<1>2. At(f, s, k + 1)
  BY <1>1, FlattensAt
<1>. QED  BY <1>1, <1>2 DEF At

LEMMA FlattenExists ==
    ASSUME NEW s
    PROVE  \A n \in Nat : \E f : Flattens(f, s, n)
<1>. DEFINE T == {n \in Nat : \E f : Flattens(f, s, n)}
<1>1. 0 \in T
  <2>. DEFINE g == [i \in 1 .. 0 |-> IF i = 1 THEN s[i] ELSE <<>>[i - 1] \o s[i]]
  <2>1. Flattens(g, s, 0)
    <3>1. \A i \in 1 .. 0 : FALSE
      OBVIOUS
    <3>. QED  BY <3>1, Zenon DEF Flattens
  <2>. QED  BY <2>1
<1>2. ASSUME NEW n \in T PROVE n + 1 \in T
  <2>1. PICK f : Flattens(f, s, n)
    OBVIOUS
  <2>. DEFINE g == [i \in 1 .. n + 1 |-> IF i = 1 THEN s[i] ELSE f[i - 1] \o s[i]]
  <2>2. \A i \in 1 .. n : g[i] = f[i]
    <3>1. \A i \in 1 .. n : i \in 1 .. n + 1
      OBVIOUS
    <3>2. \A i \in 1 .. n : At(f, s, i)
      BY <2>1, FlattensAt
    <3>. QED  BY <3>1, <3>2 DEF At
  <2>3. \A i \in 1 .. n + 1 : g[i] = IF i = 1 THEN s[i] ELSE g[i - 1] \o s[i]
    <3>1. ASSUME NEW i \in 1 .. n + 1, i # 1 PROVE i - 1 \in 1 .. n
      BY <3>1
    <3>. QED  BY <2>2, <3>1
  <2>4. Flattens(g, s, n + 1)
    BY <2>3 DEF Flattens
  <2>. QED  BY <2>4
<1>3. Nat \subseteq T
  <2>. HIDE DEF T
  <2>1. T \in SUBSET Nat
    BY DEF T
  <2>. QED  BY <1>1, <1>2, <2>1, NatInduct
<1>. QED  BY <1>3

LEMMA FlattenUnique ==
    ASSUME NEW s, NEW n \in Nat, NEW f, NEW g, Flattens(f, s, n), Flattens(g, s, n)
    PROVE  f = g
<1>. DEFINE T == {k \in Nat : k \in 1 .. n => f[k] = g[k]}
<1>1. 0 \in T
  OBVIOUS
<1>2. ASSUME NEW k \in T PROVE k + 1 \in T
  <2>1. ASSUME k = 0, k + 1 \in 1 .. n
        PROVE  f[k + 1] = g[k + 1]
    <3>1. k + 1 = 1 /\ n # 0
      BY <2>1
    <3>2. f[1] = s[1]
      BY <3>1, FlattensFirst
    <3>3. g[1] = s[1]
      BY <3>1, FlattensFirst
    <3>. QED  BY <3>1, <3>2, <3>3
  <2>2. ASSUME k # 0, k + 1 \in 1 .. n
        PROVE  f[k + 1] = g[k + 1]
    <3>1. k \in 1 .. n - 1 /\ k \in 1 .. n
      BY <2>2
    <3>2. f[k + 1] = f[k] \o s[k + 1] /\ g[k + 1] = g[k] \o s[k + 1]
      BY <3>1, FlattensNext, Zenon
    <3>. QED  BY <3>1, <3>2
  <2>3. k + 1 \in Nat /\ (k = 0 \/ (k # 0 /\ k + 1 \in 1 .. n) \/ k + 1 \notin 1 .. n)
    OBVIOUS
  <2>4. k + 1 \in 1 .. n => f[k + 1] = g[k + 1]
    BY <2>1, <2>2, <2>3, Zenon
  <2>. QED  BY <2>3, <2>4
<1>3. Nat \subseteq T
  <2>. HIDE DEF T
  <2>1. T \in SUBSET Nat
    BY DEF T
  <2>. QED  BY <1>1, <1>2, <2>1, NatInduct
<1>4. \A k \in 1 .. n : f[k] = g[k]
  BY <1>3
<1>. QED  BY <1>4 DEF Flattens

\* A function that flattens s, at its end.
LEMMA FlattenIsLast ==
    ASSUME NEW s, Len(s) \in Nat \ {0}, NEW f, Flattens(f, s, Len(s))
    PROVE  FlattenSeq(s) = f[Len(s)]
<1>. DEFINE g == CHOOSE h : Flattens(h, s, Len(s))
<1>1. Flattens(g, s, Len(s))
  OBVIOUS
<1>2. f = g
  <2>. HIDE DEF g
  <2>. QED  BY <1>1, FlattenUnique
<1>. QED  BY <1>2, FlattenIs

LEMMA FlattenAppend ==
    ASSUME NEW S, NEW s \in Seq(Seq(S)), NEW x \in Seq(S)
    PROVE  FlattenSeq(Append(s, x)) = FlattenSeq(s) \o x
<1>. DEFINE t == Append(s, x)
            n == Len(s)
<1>1. /\ n \in Nat /\ Len(t) = n + 1 /\ t[n + 1] = x
      /\ \A i \in 1 .. n : t[i] = s[i]
  OBVIOUS
<1>2. PICK f : Flattens(f, t, n + 1)
  <2>1. n + 1 \in Nat
    BY <1>1
  <2>. QED  BY <2>1, FlattenExists, Zenon
<1>. HIDE DEF t, n
<1>3. FlattenSeq(t) = f[n + 1]
  BY <1>1, <1>2, FlattenIsLast
<1>4. CASE n = 0
  <2>1. s = <<>>
    BY <1>4 DEF n
  <2>2. FlattenSeq(s) = <<>>
    BY <2>1 DEF FlattenSeq
  <2>3. f[n + 1] = x
    BY <1>1, <1>2, <1>4 DEF Flattens
  <2>. QED  BY <1>3, <2>2, <2>3 DEF t
<1>5. CASE n # 0
  <2>. DEFINE g == [i \in 1 .. n |-> f[i]]
  <2>1. \A i \in 1 .. n : (i # 1 => i - 1 \in 1 .. n) /\ i \in 1 .. n + 1
    BY <1>1
  <2>2. Flattens(g, s, n)
    <3>1. \A i \in 1 .. n : f[i] = IF i = 1 THEN s[i] ELSE f[i - 1] \o s[i]
      <4>1. \A i \in 1 .. n + 1 : At(f, t, i)
        BY <1>2, FlattensAt
      <4>. QED  BY <1>1, <2>1, <4>1 DEF At
    <3>2. \A i \in 1 .. n : g[i] = IF i = 1 THEN s[i] ELSE g[i - 1] \o s[i]
      BY <2>1, <3>1
    <3>. QED  BY <3>2 DEF Flattens
  <2>3. FlattenSeq(s) = g[n]
    <3>. HIDE DEF g
    <3>. QED  BY <1>1, <1>5, <2>2, FlattenIsLast DEF n
  <2>4. g[n] = f[n]
    BY <1>1, <1>5
  <2>5. f[n + 1] = f[n] \o x
    <3>1. n + 1 \in 1 .. n + 1 /\ n + 1 # 1 /\ (n + 1) - 1 = n
      BY <1>1, <1>5
    <3>. QED  BY <1>1, <1>2, <3>1 DEF Flattens
  <2>. QED  BY <1>3, <2>3, <2>4, <2>5 DEF t
<1>. QED  BY <1>4, <1>5

\* What FlattenSeq makes of sequences of sequences, and where they end.
LEMMA FlattenEmpty == FlattenSeq(<<>>) = <<>>
BY DEF FlattenSeq

LEMMA FlattenPrefix ==
    ASSUME NEW S, NEW s \in Seq(Seq(S)), NEW k \in 0 .. Len(s) - 1
    PROVE  /\ SubSeq(s, 1, k) \in Seq(Seq(S)) /\ s[k + 1] \in Seq(S)
           /\ SubSeq(s, 1, k + 1) = Append(SubSeq(s, 1, k), s[k + 1])
OBVIOUS

LEMMA FlattenType ==
    ASSUME NEW S, NEW s \in Seq(Seq(S))
    PROVE  FlattenSeq(s) \in Seq(S)
<1>. DEFINE T == {k \in Nat : k <= Len(s) => FlattenSeq(SubSeq(s, 1, k)) \in Seq(S)}
<1>1. 0 \in T
  <2>1. SubSeq(s, 1, 0) = <<>>
    OBVIOUS
  <2>2. <<>> \in Seq(S)
    OBVIOUS
  <2>. QED  BY <2>1, <2>2, FlattenEmpty
<1>2. ASSUME NEW k \in T PROVE k + 1 \in T
  <2>1. SUFFICES ASSUME k + 1 <= Len(s) PROVE FlattenSeq(SubSeq(s, 1, k + 1)) \in Seq(S)
    OBVIOUS
  <2>2. k \in 0 .. Len(s) - 1
    BY <2>1
  <2>. DEFINE p == SubSeq(s, 1, k)
              x == s[k + 1]
  <2>3. p \in Seq(Seq(S)) /\ x \in Seq(S) /\ SubSeq(s, 1, k + 1) = Append(p, x)
    BY <2>2, FlattenPrefix
  <2>4. FlattenSeq(p) \in Seq(S)
    BY <2>2
  <2>. HIDE DEF p, x
  <2>5. FlattenSeq(Append(p, x)) = FlattenSeq(p) \o x
    BY <2>3, FlattenAppend
  <2>6. FlattenSeq(p) \o x \in Seq(S)
    BY <2>3, <2>4, ConcatProperties, Zenon
  <2>. QED  BY <2>3, <2>5, <2>6
<1>3. Nat \subseteq T
  <2>. HIDE DEF T
  <2>1. T \in SUBSET Nat
    BY DEF T
  <2>. QED  BY <1>1, <1>2, <2>1, NatInduct
<1>4. Len(s) \in Nat /\ Len(s) <= Len(s) /\ SubSeq(s, 1, Len(s)) = s
  OBVIOUS
<1>5. Len(s) \in T
  BY <1>3, <1>4
<1>. QED  BY <1>4, <1>5, Zenon

LEMMA FlattenConcat ==
    ASSUME NEW S, NEW r \in Seq(Seq(S)), NEW s \in Seq(Seq(S))
    PROVE  FlattenSeq(r \o s) = FlattenSeq(r) \o FlattenSeq(s)
<1>. DEFINE Joined(k) == FlattenSeq(r \o SubSeq(s, 1, k))
                            = FlattenSeq(r) \o FlattenSeq(SubSeq(s, 1, k))
            T == {k \in Nat : k <= Len(s) => Joined(k)}
<1>0. FlattenSeq(r) \in Seq(S)
  BY FlattenType
<1>1. 0 \in T
  <2>1. SubSeq(s, 1, 0) = <<>> /\ r \o <<>> = r
    OBVIOUS
  <2>2. FlattenSeq(r) \o <<>> = FlattenSeq(r)
    BY <1>0
  <2>. QED  BY <2>1, <2>2, FlattenEmpty
<1>2. ASSUME NEW k \in T PROVE k + 1 \in T
  <2>1. SUFFICES ASSUME k + 1 <= Len(s) PROVE Joined(k + 1)
    OBVIOUS
  <2>2. k \in 0 .. Len(s) - 1
    BY <2>1
  <2>. DEFINE p == SubSeq(s, 1, k)
              x == s[k + 1]
  <2>3. p \in Seq(Seq(S)) /\ x \in Seq(S) /\ SubSeq(s, 1, k + 1) = Append(p, x)
    BY <2>2, FlattenPrefix
  <2>4. FlattenSeq(r \o p) = FlattenSeq(r) \o FlattenSeq(p)
    BY <2>2
  <2>. HIDE DEF p, x
  <2>5. FlattenSeq(Append(p, x)) = FlattenSeq(p) \o x /\ FlattenSeq(p) \in Seq(S)
    BY <2>3, FlattenAppend, FlattenType
  <2>6. r \o Append(p, x) = Append(r \o p, x) /\ r \o p \in Seq(Seq(S))
    <3>. DEFINE Q == Seq(S)
    <3>. HIDE DEF Q
    <3>1. p \in Seq(Q) /\ x \in Q /\ r \in Seq(Q)
      BY <2>3 DEF Q
    <3>2. <<x>> \in Seq(Q) /\ Append(p, x) = p \o <<x>>
      BY <3>1
    <3>3. r \o p \in Seq(Q)
      BY <3>1, ConcatProperties, Zenon
    <3>4. Append(r \o p, x) = (r \o p) \o <<x>>
      BY <3>1, <3>3, AppendIsConcat, Zenon
    <3>5. (r \o p) \o <<x>> = r \o (p \o <<x>>)
      <4>. DEFINE e == <<x>>
      <4>. HIDE DEF e
      <4>1. e \in Seq(Q)
        BY <3>2 DEF e
      <4>. QED  BY <3>1, <4>1, ConcatAssociative DEF e
    <3>. QED  BY <3>2, <3>3, <3>4, <3>5 DEF Q
  <2>7. FlattenSeq(Append(r \o p, x)) = FlattenSeq(r \o p) \o x
    BY <2>3, <2>6, FlattenAppend
  <2>. DEFINE u == FlattenSeq(r)
              v == FlattenSeq(p)
  <2>8. u \in Seq(S) /\ v \in Seq(S) /\ x \in Seq(S)
    BY <1>0, <2>3, <2>5
  <2>9. (u \o v) \o x = u \o (v \o x)
    <3>. HIDE DEF u, v
    <3>. QED  BY <2>8, ConcatAssociative
  <2>. QED  BY <2>3, <2>4, <2>5, <2>6, <2>7, <2>9
<1>3. Nat \subseteq T
  <2>. HIDE DEF T
  <2>1. T \in SUBSET Nat
    BY DEF T
  <2>. QED  BY <1>1, <1>2, <2>1, NatInduct
<1>4. Len(s) \in Nat /\ Len(s) <= Len(s) /\ SubSeq(s, 1, Len(s)) = s
  OBVIOUS
<1>5. Len(s) \in T
  BY <1>3, <1>4
<1>. QED  BY <1>4, <1>5, Zenon

LEMMA FlattenOne ==
    ASSUME NEW S, NEW x \in Seq(S)
    PROVE  FlattenSeq(<<x>>) = x
<1>1. <<>> \in Seq(Seq(S)) /\ Append(<<>>, x) = <<x>> /\ <<>> \o x = x
  OBVIOUS
<1>. QED  BY <1>1, FlattenAppend, FlattenEmpty

-----------------------------------------------------------------------------
FrameSet == [nb_samples : Nat \ {0}, samples : Seq(Nat)]
PacketSet == [audio : BOOLEAN, frames : Seq(FrameSet)]
FileSet == [s16 : BOOLEAN, rate : Nat \ {0}, delay : Nat, packets : Seq(PacketSet)]

LEMMA FileIs ==
    ASSUME NEW f \in Files
    PROVE  /\ f \in FileSet
           /\ f.s16 \in BOOLEAN /\ f.rate \in Nat /\ f.rate # 0 /\ f.delay \in Nat
           /\ f.packets \in Seq(PacketSet) /\ Len(f.packets) \in Nat
<1>1. f \in FileSet
  BY FilesAssumption DEF FileSet, PacketSet, FrameSet
<1>2. f.packets \in Seq(PacketSet)
  BY <1>1 DEF FileSet
<1>3. Len(f.packets) \in Nat
  BY <1>2, LenProperties, Zenon
<1>. QED  BY <1>1, <1>2, <1>3 DEF FileSet

\* The samples of each frame of a sequence, and the frames of each packet.
EachSamples(frames) == [i \in DOMAIN frames |-> frames[i].samples]
EachFrames(packets) ==
    [i \in DOMAIN packets |-> IF packets[i].audio THEN packets[i].frames ELSE <<>>]

LEMMA EachSamplesType ==
    ASSUME NEW d \in Seq(FrameSet)
    PROVE  /\ EachSamples(d) \in Seq(Seq(Nat)) /\ Len(EachSamples(d)) = Len(d)
           /\ \A i \in 1 .. Len(d) : EachSamples(d)[i] = d[i].samples
<1>1. DOMAIN d = 1 .. Len(d) /\ Len(d) \in Nat
  OBVIOUS
<1>2. \A i \in 1 .. Len(d) : d[i].samples \in Seq(Nat)
  <2>1. \A i \in 1 .. Len(d) : d[i] \in FrameSet
    BY ElementOfSeq, Zenon
  <2>. QED  BY <2>1 DEF FrameSet
<1>. QED  BY <1>1, <1>2 DEF EachSamples

LEMMA EachFramesType ==
    ASSUME NEW p \in Seq(PacketSet)
    PROVE  /\ EachFrames(p) \in Seq(Seq(FrameSet)) /\ Len(EachFrames(p)) = Len(p)
           /\ \A i \in 1 .. Len(p) :
                 EachFrames(p)[i] = IF p[i].audio THEN p[i].frames ELSE <<>>
<1>1. DOMAIN p = 1 .. Len(p) /\ Len(p) \in Nat
  OBVIOUS
<1>2. \A i \in 1 .. Len(p) : (IF p[i].audio THEN p[i].frames ELSE <<>>) \in Seq(FrameSet)
  <2>1. \A i \in 1 .. Len(p) : p[i].frames \in Seq(FrameSet)
    <3>1. \A i \in 1 .. Len(p) : p[i] \in PacketSet
      BY ElementOfSeq, Zenon
    <3>. QED  BY <3>1 DEF PacketSet
  <2>2. <<>> \in Seq(FrameSet)
    OBVIOUS
  <2>. QED  BY <2>1, <2>2, Zenon
<1>. QED  BY <1>1, <1>2 DEF EachFrames

\* Sequences that have the elements of two others, one after the other.
LEMMA JoinedIs ==
    ASSUME NEW S, NEW x \in Seq(S), NEW y \in Seq(S), NEW z \in Seq(S),
           Len(x) = Len(y) + Len(z),
           \A i \in 1 .. Len(y) : x[i] = y[i],
           \A i \in 1 .. Len(z) : x[Len(y) + i] = z[i]
    PROVE  x = y \o z
<1>1. Len(y) \in Nat /\ Len(z) \in Nat
  OBVIOUS
<1>2. y \o z \in Seq(S) /\ Len(y \o z) = Len(y) + Len(z)
  OBVIOUS
<1>3. ASSUME NEW i \in 1 .. Len(x) PROVE x[i] = (y \o z)[i]
  <2>1. CASE i <= Len(y)
    BY <1>1, <2>1
  <2>2. CASE i > Len(y)
    <3>1. i - Len(y) \in 1 .. Len(z) /\ Len(y) + (i - Len(y)) = i
      BY <1>1, <2>2
    <3>2. x[i] = z[i - Len(y)]
      BY <3>1
    <3>. QED  BY <1>1, <2>2, <3>1, <3>2
  <2>. QED  BY <1>1, <2>1, <2>2
<1>. QED  BY <1>2, <1>3, SeqEqual

\* An element of a sequence that is two joined.
LEMMA JoinedAt ==
    ASSUME NEW S, NEW y \in Seq(S), NEW z \in Seq(S)
    PROVE  /\ y \o z \in Seq(S) /\ Len(y \o z) = Len(y) + Len(z)
           /\ Len(y) \in Nat /\ Len(z) \in Nat
           /\ \A i \in 1 .. Len(y) : i \in 1 .. Len(y \o z) /\ (y \o z)[i] = y[i]
           /\ \A i \in 1 .. Len(z) : /\ Len(y) + i \in 1 .. Len(y \o z)
                                       /\ (y \o z)[Len(y) + i] = z[i]
OBVIOUS

LEMMA JoinedAtRest ==
    ASSUME NEW S, NEW y \in Seq(S), NEW z \in Seq(S), NEW i \in 1 .. Len(z)
    PROVE  Len(y) + i \in 1 .. Len(y \o z) /\ (y \o z)[Len(y) + i] = z[i]
BY JoinedAt

LEMMA EachSamplesJoined ==
    ASSUME NEW c \in Seq(FrameSet), NEW d \in Seq(FrameSet)
    PROVE  EachSamples(c \o d) = EachSamples(c) \o EachSamples(d)
<1>1. /\ c \o d \in Seq(FrameSet) /\ Len(c \o d) = Len(c) + Len(d)
      /\ \A i \in 1 .. Len(c) : i \in 1 .. Len(c \o d) /\ (c \o d)[i] = c[i]
      /\ \A i \in 1 .. Len(d) : /\ Len(c) + i \in 1 .. Len(c \o d)
                                  /\ (c \o d)[Len(c) + i] = d[i]
  BY JoinedAt
<1>2. \A e \in Seq(FrameSet) :
        /\ EachSamples(e) \in Seq(Seq(Nat)) /\ Len(EachSamples(e)) = Len(e)
        /\ \A i \in 1 .. Len(e) : EachSamples(e)[i] = e[i].samples
  BY EachSamplesType
<1>. DEFINE x == EachSamples(c \o d)
            y == EachSamples(c)
            z == EachSamples(d)
<1>3. /\ x \in Seq(Seq(Nat)) /\ Len(x) = Len(y) + Len(z)
      /\ y \in Seq(Seq(Nat)) /\ z \in Seq(Seq(Nat))
  BY <1>1, <1>2
<1>4. \A i \in 1 .. Len(y) : x[i] = y[i]
  BY <1>1, <1>2
<1>5. ASSUME NEW i \in 1 .. Len(z) PROVE x[Len(y) + i] = z[i]
  <2>1. Len(y) = Len(c) /\ Len(z) = Len(d)
    BY <1>2
  <2>2. i \in 1 .. Len(d) /\ z[i] = d[i].samples
    BY <1>2, <2>1
  <2>3. Len(c) + i \in 1 .. Len(c \o d) /\ (c \o d)[Len(c) + i] = d[i]
    BY <1>1, <2>2
  <2>4. x[Len(c) + i] = (c \o d)[Len(c) + i].samples
    BY <1>1, <1>2, <2>3
  <2>. QED  BY <2>1, <2>2, <2>3, <2>4
<1>. HIDE DEF x, y, z
<1>6. x = y \o z
  <2>. DEFINE Q == Seq(Nat)
  <2>. HIDE DEF Q
  <2>1. x \in Seq(Q) /\ y \in Seq(Q) /\ z \in Seq(Q)
    BY <1>3 DEF Q
  <2>2. \A i \in 1 .. Len(z) : x[Len(y) + i] = z[i]
    BY <1>5, Zenon
  <2>3. Len(x) = Len(y) + Len(z)
    BY <1>3
  <2>. QED  BY <1>4, <2>1, <2>2, <2>3, JoinedIs
<1>. QED  BY <1>6 DEF x, y, z

LEMMA EachFramesJoined ==
    ASSUME NEW c \in Seq(PacketSet), NEW d \in Seq(PacketSet)
    PROVE  EachFrames(c \o d) = EachFrames(c) \o EachFrames(d)
<1>1. /\ c \o d \in Seq(PacketSet) /\ Len(c \o d) = Len(c) + Len(d)
      /\ \A i \in 1 .. Len(c) : i \in 1 .. Len(c \o d) /\ (c \o d)[i] = c[i]
      /\ \A i \in 1 .. Len(d) : /\ Len(c) + i \in 1 .. Len(c \o d)
                                  /\ (c \o d)[Len(c) + i] = d[i]
  BY JoinedAt
<1>. DEFINE of(p) == IF p.audio THEN p.frames ELSE <<>>
<1>2. \A e \in Seq(PacketSet) :
        /\ EachFrames(e) \in Seq(Seq(FrameSet)) /\ Len(EachFrames(e)) = Len(e)
        /\ \A i \in 1 .. Len(e) : EachFrames(e)[i] = of(e[i])
  BY EachFramesType
<1>. DEFINE x == EachFrames(c \o d)
            y == EachFrames(c)
            z == EachFrames(d)
<1>. HIDE DEF of
<1>3. /\ x \in Seq(Seq(FrameSet)) /\ Len(x) = Len(y) + Len(z)
      /\ y \in Seq(Seq(FrameSet)) /\ z \in Seq(Seq(FrameSet))
  BY <1>1, <1>2
<1>4. \A i \in 1 .. Len(y) : x[i] = y[i]
  BY <1>1, <1>2
<1>5. ASSUME NEW i \in 1 .. Len(z) PROVE x[Len(y) + i] = z[i]
  <2>1. Len(y) = Len(c) /\ Len(z) = Len(d)
    BY <1>2
  <2>2. i \in 1 .. Len(d) /\ z[i] = of(d[i])
    BY <1>2, <2>1
  <2>3. Len(c) + i \in 1 .. Len(c \o d) /\ (c \o d)[Len(c) + i] = d[i]
    BY <1>1, <2>2
  <2>4. x[Len(c) + i] = of((c \o d)[Len(c) + i])
    BY <1>1, <1>2, <2>3
  <2>. QED  BY <2>1, <2>2, <2>3, <2>4
<1>. HIDE DEF x, y, z
<1>6. x = y \o z
  <2>. DEFINE Q == Seq(FrameSet)
  <2>. HIDE DEF Q
  <2>1. x \in Seq(Q) /\ y \in Seq(Q) /\ z \in Seq(Q)
    BY <1>3 DEF Q
  <2>2. \A i \in 1 .. Len(z) : x[Len(y) + i] = z[i]
    BY <1>5, Zenon
  <2>3. Len(x) = Len(y) + Len(z)
    BY <1>3
  <2>. QED  BY <1>4, <2>1, <2>2, <2>3, JoinedIs
<1>. QED  BY <1>6 DEF x, y, z

LEMMA SamplesType ==
    ASSUME NEW d \in Seq(FrameSet)
    PROVE  SamplesOf(d) \in Seq(Nat)
<1>1. SamplesOf(d) = FlattenSeq(EachSamples(d))
  BY DEF SamplesOf, EachSamples
<1>. QED  BY <1>1, EachSamplesType, FlattenType

LEMMA SamplesJoined ==
    ASSUME NEW c \in Seq(FrameSet), NEW d \in Seq(FrameSet)
    PROVE  SamplesOf(c \o d) = SamplesOf(c) \o SamplesOf(d)
<1>1. \A e : SamplesOf(e) = FlattenSeq(EachSamples(e))
  BY DEF SamplesOf, EachSamples
<1>2. EachSamples(c) \in Seq(Seq(Nat)) /\ EachSamples(d) \in Seq(Seq(Nat))
  BY EachSamplesType
<1>. QED  BY <1>1, <1>2, EachSamplesJoined, FlattenConcat

LEMMA SamplesOfNone == SamplesOf(<<>>) = <<>>
<1>1. [i \in DOMAIN <<>> |-> <<>>[i].samples] = <<>>
  OBVIOUS
<1>. QED  BY <1>1, FlattenEmpty DEF SamplesOf

LEMMA SamplesOfOne ==
    ASSUME NEW x \in FrameSet
    PROVE  SamplesOf(<<x>>) = x.samples
<1>1. EachSamples(<<x>>) = <<x.samples>> /\ x.samples \in Seq(Nat)
  BY DEF EachSamples, FrameSet
<1>2. SamplesOf(<<x>>) = FlattenSeq(EachSamples(<<x>>))
  BY DEF SamplesOf, EachSamples
<1>. QED  BY <1>1, <1>2, FlattenOne

LEMMA FramesType ==
    ASSUME NEW d \in Seq(PacketSet)
    PROVE  FramesOf(d) \in Seq(FrameSet)
<1>1. FramesOf(d) = FlattenSeq(EachFrames(d))
  BY DEF FramesOf, EachFrames
<1>. QED  BY <1>1, EachFramesType, FlattenType

LEMMA FramesJoined ==
    ASSUME NEW c \in Seq(PacketSet), NEW d \in Seq(PacketSet)
    PROVE  FramesOf(c \o d) = FramesOf(c) \o FramesOf(d)
<1>1. \A e : FramesOf(e) = FlattenSeq(EachFrames(e))
  BY DEF FramesOf, EachFrames
<1>2. EachFrames(c) \in Seq(Seq(FrameSet)) /\ EachFrames(d) \in Seq(Seq(FrameSet))
  BY EachFramesType
<1>. QED  BY <1>1, <1>2, EachFramesJoined, FlattenConcat

LEMMA FramesOfOne ==
    ASSUME NEW x \in PacketSet
    PROVE  FramesOf(<<x>>) = IF x.audio THEN x.frames ELSE <<>>
<1>. DEFINE e == IF x.audio THEN x.frames ELSE <<>>
<1>1. e \in Seq(FrameSet)
  <2>1. x.frames \in Seq(FrameSet) /\ <<>> \in Seq(FrameSet)
    BY DEF PacketSet
  <2>. QED  BY <2>1, Zenon
<1>2. EachFrames(<<x>>) = <<e>>
  BY DEF EachFrames
<1>3. FramesOf(<<x>>) = FlattenSeq(EachFrames(<<x>>))
  BY DEF FramesOf, EachFrames
<1>. HIDE DEF e
<1>4. FlattenSeq(<<e>>) = e
  BY <1>1, FlattenOne
<1>. QED  BY <1>2, <1>3, <1>4 DEF e

LEMMA FramesOfNone == FramesOf(<<>>) = <<>>
<1>1. [i \in DOMAIN <<>> |-> IF <<>>[i].audio THEN <<>>[i].frames ELSE <<>>] = <<>>
  OBVIOUS
<1>. QED  BY <1>1, FlattenEmpty DEF FramesOf

-----------------------------------------------------------------------------
(* What one part of the reader passes to the next.                         *)

Samples == Seq(Nat)

LEMMA Joined ==
    ASSUME NEW a \in Samples, NEW b \in Samples
    PROVE  a \o b \in Samples
BY ConcatProperties DEF Samples

LEMMA JoinedNone ==
    ASSUME NEW a \in Samples
    PROVE  <<>> \in Samples /\ a \o <<>> = a /\ <<>> \o a = a
BY ConcatEmptySeq DEF Samples

\* The operator is there for the provers, which try the equation on everything.
Three(a, b, c) == (a \o b) \o c = a \o (b \o c)

LEMMA JoinedThree ==
    ASSUME NEW a \in Samples, NEW b \in Samples, NEW c \in Samples
    PROVE  Three(a, b, c)
BY ConcatAssociative DEF Samples, Three

\* The parts in their order, as NothingLost joins them.
Parts(g, h, c, d, e, r) == g \o h \o c \o d \o e \o r

LEMMA ReceivedParts ==
    ASSUME NEW g \in Samples, NEW h \in Samples, NEW x \in Samples, NEW d \in Samples,
           NEW e \in Samples, NEW r \in Samples
    PROVE  Parts(g, h, <<>>, x \o d, e, r) = Parts(g, h, x, d, e, r)
<1>. DEFINE u == g \o h
<1>1. u \in Samples /\ u \o <<>> = u
  BY Joined, JoinedNone
<1>. HIDE DEF u
<1>2. u \o (x \o d) = (u \o x) \o d
  BY <1>1, JoinedThree DEF Three
<1>. QED  BY <1>1, <1>2 DEF Parts, u

LEMMA SentParts ==
    ASSUME NEW g \in Samples, NEW h \in Samples, NEW d \in Samples,
           NEW e \in Samples, NEW r \in Samples
    PROVE  Parts(g, h, <<>>, d \o e, <<>>, r) = Parts(g, h, <<>>, d, e, r)
<1>. DEFINE u == g \o h \o <<>>
<1>1. u \in Samples
  BY Joined, JoinedNone
<1>. HIDE DEF u
<1>2. d \o e \in Samples /\ u \o (d \o e) = (u \o d) \o e
  BY <1>1, Joined, JoinedThree DEF Three
<1>3. u \o (d \o e) \in Samples
  BY <1>1, <1>2, Joined, JoinedNone
<1>4. u \o (d \o e) \o <<>> = u \o (d \o e)
  BY <1>3, Joined, JoinedNone
<1>. QED  BY <1>2, <1>4 DEF Parts, u

LEMMA ReadParts ==
    ASSUME NEW g \in Samples, NEW h \in Samples, NEW d \in Samples,
           NEW x \in Samples, NEW r \in Samples
    PROVE  Parts(g, h, <<>>, d, <<>>, x \o r) = Parts(g, h, <<>>, d, x, r)
<1>. DEFINE u == g \o h \o <<>> \o d
<1>1. u \in Samples
  <2>1. g \o h \in Samples /\ <<>> \in Samples
    BY Joined, JoinedNone
  <2>2. g \o h \o <<>> \in Samples
    BY <2>1, Joined, JoinedNone
  <2>. QED  BY <2>2, Joined, JoinedNone
<1>. HIDE DEF u
<1>2. u \o <<>> = u /\ u \o (x \o r) = (u \o x) \o r
  BY <1>1, JoinedNone, JoinedThree DEF Three
<1>. QED  BY <1>2 DEF Parts, u

\* A sequence, cut after k elements.
LEMMA CutIs ==
    ASSUME NEW a \in Samples, NEW k \in 0 .. Len(a)
    PROVE  /\ SubSeq(a, 1, k) \in Samples /\ SubSeq(a, k + 1, Len(a)) \in Samples
           /\ SubSeq(a, 1, k) \o SubSeq(a, k + 1, Len(a)) = a
           /\ Len(SubSeq(a, 1, k)) = k /\ Len(SubSeq(a, k + 1, Len(a))) = Len(a) - k
<1>1. a \in Seq(Nat) /\ Len(a) \in Nat
  BY DEF Samples
<1>2. SubSeq(a, 1, k) \in Seq(Nat) /\ SubSeq(a, k + 1, Len(a)) \in Seq(Nat)
  BY <1>1
<1>3. Len(SubSeq(a, 1, k)) = k /\ Len(SubSeq(a, k + 1, Len(a))) = Len(a) - k
  BY <1>1
<1>4. /\ 1 \in 1 .. Len(a) + 1 /\ k \in 1 - 1 .. Len(a)
      /\ Len(a) \in k .. Len(a)
  BY <1>1
<1>5. SubSeq(a, 1, k) \o SubSeq(a, k + 1, Len(a)) = SubSeq(a, 1, Len(a))
  BY <1>1, <1>4, ConcatAdjacentSubSeq
<1>. QED  BY <1>1, <1>2, <1>3, <1>5, SubSeqFull DEF Samples

\* Of what the converter has and is given, p is given on and q is held.
Passed(g, h, c, p, q, d, e, r) ==
    Parts(g \o p, q, <<>>, d, e, r) = Parts(g, h, c, d, e, r)

LEMMA ConvertedParts ==
    ASSUME NEW g \in Samples, NEW h \in Samples, NEW c \in Samples, NEW d \in Samples,
           NEW e \in Samples, NEW r \in Samples, NEW p \in Samples, NEW q \in Samples,
           p \o q = h \o c
    PROVE  Passed(g, h, c, p, q, d, e, r)
<1>1. (g \o p) \o q = (g \o h) \o c
  <2>1. Three(g, p, q) /\ Three(g, h, c)
    BY JoinedThree
  <2>. QED  BY <2>1 DEF Three
<1>3. g \o p \in Samples /\ (g \o p) \o q \in Samples
  BY Joined
<1>4. ((g \o p) \o q) \o <<>> = (g \o p) \o q
  BY <1>3, JoinedNone
<1>. QED  BY <1>1, <1>4 DEF Parts, Passed

\* Without a converter a frame is given on as it is.
LEMMA PlainParts ==
    ASSUME NEW g \in Samples, NEW c \in Samples, NEW d \in Samples,
           NEW e \in Samples, NEW r \in Samples
    PROVE  Parts(g \o c, <<>>, <<>>, d, e, r) = Parts(g, <<>>, c, d, e, r)
<1>1. g \o <<>> = g /\ g \o c \in Samples
  BY Joined, JoinedNone
<1>2. (g \o c) \o <<>> = g \o c
  BY <1>1, Joined, JoinedNone
<1>. QED  BY <1>1, <1>2 DEF Parts

-----------------------------------------------------------------------------
\* The samples of the packets after the first p.
Rest(f, p) == SamplesOf(FramesOf(SubSeq(f.packets, p + 1, Len(f.packets))))

LEMMA RestOf ==
    ASSUME NEW f \in Files, NEW p \in 0 .. Len(f.packets)
    PROVE  /\ Rest(f, p) \in Samples
           /\ p = Len(f.packets) => Rest(f, p) = <<>>
<1>1. f.packets \in Seq(PacketSet) /\ Len(f.packets) \in Nat
  BY FileIs
<1>2. SubSeq(f.packets, p + 1, Len(f.packets)) \in Seq(PacketSet)
  BY <1>1
<1>3. Rest(f, p) \in Samples
  BY <1>2, FramesType, SamplesType DEF Rest, Samples
<1>4. ASSUME p = Len(f.packets) PROVE Rest(f, p) = <<>>
  <2>1. SubSeq(f.packets, p + 1, Len(f.packets)) = <<>>
    BY <1>1, <1>4
  <2>. QED  BY <2>1, FramesOfNone, SamplesOfNone DEF Rest
<1>. QED  BY <1>3, <1>4

\* The next packet: nothing, or the frames that it decodes to.
NextFrames(f, p) == IF f.packets[p + 1].audio THEN f.packets[p + 1].frames ELSE <<>>

LEMMA RestNext ==
    ASSUME NEW f \in Files, NEW p \in 0 .. Len(f.packets) - 1
    PROVE  /\ NextFrames(f, p) \in Seq(FrameSet)
           /\ p + 1 \in 0 .. Len(f.packets)
           /\ Rest(f, p) = SamplesOf(NextFrames(f, p)) \o Rest(f, p + 1)
<1>. DEFINE n == Len(f.packets)
            t == f.packets
            x == t[p + 1]
            y == SubSeq(t, (p + 1) + 1, n)
<1>1. t \in Seq(PacketSet) /\ n \in Nat /\ p + 1 \in 0 .. n /\ p + 1 \in 1 .. n
  BY FileIs
<1>2. x \in PacketSet
  BY <1>1, ElementOfSeq, Zenon
<1>3. y \in Seq(PacketSet)
  BY <1>1
<1>4. SubSeq(t, p + 1, n) = <<x>> \o y
  <2>1. n \in p + 1 .. n
    BY <1>1
  <2>. QED  BY <1>1, <2>1, SubSeqRecursiveFirst
<1>5. <<x>> \in Seq(PacketSet)
  BY <1>2
<1>6. FramesOf(<<x>>) = NextFrames(f, p)
  BY <1>2, FramesOfOne DEF NextFrames
<1>. HIDE DEF x, y, t, n
<1>7. FramesOf(<<x>> \o y) = FramesOf(<<x>>) \o FramesOf(y)
  BY <1>3, <1>5, FramesJoined
<1>8. FramesOf(<<x>>) \in Seq(FrameSet) /\ FramesOf(y) \in Seq(FrameSet)
  BY <1>3, <1>5, FramesType
<1>9. SamplesOf(FramesOf(<<x>>) \o FramesOf(y))
        = SamplesOf(FramesOf(<<x>>)) \o SamplesOf(FramesOf(y))
  BY <1>8, SamplesJoined
<1>10. Rest(f, p) = SamplesOf(FramesOf(<<x>> \o y))
  BY <1>4 DEF Rest, t, n
<1>11. Rest(f, p + 1) = SamplesOf(FramesOf(y))
  BY DEF Rest, y, t, n
<1>. QED  BY <1>1, <1>6, <1>7, <1>8, <1>9, <1>10, <1>11 DEF n

-----------------------------------------------------------------------------
(* The inductive invariant.                                                *)

ConverterSet == [rate : Nat, s16 : BOOLEAN, held : Seq(Nat)]
Calls == {"packet", "send", "receive", "convert"}

TypeInv ==
    /\ has_more_packets \in BOOLEAN /\ has_more_frames \in BOOLEAN
    /\ output_rate \in Nat
    /\ converter \in ConverterSet
    /\ room \in Nat
    /\ packet \in Seq(FrameSet)
    /\ decoder \in Seq(FrameSet)
    /\ frame \in FrameSet \cup {NoFrame}
    /\ file \in Files
    /\ position \in 0 .. Len(file.packets)
    /\ pc \in Calls \cup {"idle"}
    /\ outcome \in {"closed", "ok", "failed"}
    /\ given \in Seq(Nat)

\* A converter was needed for the rate that the reader still has.
ConverterInv ==
    converter # NoConverter =>
        /\ converter.rate # 0 /\ output_rate # 0
        /\ ~converter.s16 \/ converter.rate # output_rate

\* Only a call that has not failed goes on, and a packet is sent at once.
PhaseInv ==
    /\ pc # "idle" => outcome = "ok"
    /\ outcome = "ok" /\ pc # "send" => packet = <<>>

\* What the flags say of the end of the file.
EndInv ==
    outcome = "ok" =>
        /\ ~has_more_packets => position = Len(file.packets)
        /\ ~has_more_frames =>
              /\ ~has_more_packets /\ ~Due
              /\ pc \in {"convert", "idle"}
              /\ pc = "convert" => frame = NoFrame

Short(frames) == \A i \in 1 .. Len(frames) : Len(frames[i].samples) <= MIN_BUFFER

\* In a file that is Whole the converter holds no more than its lag, and the
\* buffer has room for that.
RoomInv ==
    /\ room = 0 \/ room >= MIN_BUFFER
    /\ outcome = "ok" /\ ~Stale /\ Whole(file) =>
          /\ Len(converter.held) <= LAG
          /\ converter.held # <<>> => room >= MIN_BUFFER
          /\ Short(packet) /\ Short(decoder) /\ Len(frame.samples) <= MIN_BUFFER

IInv == TypeInv /\ ConverterInv /\ PhaseInv /\ EndInv /\ RoomInv /\ NothingLost

-----------------------------------------------------------------------------
(* Each step keeps the invariant.                                          *)

\* What the frame has that is not converted yet.
InFrame == IF pc = "convert" THEN frame.samples ELSE <<>>

Kept == Parts(given, converter.held, InFrame, SamplesOf(decoder), SamplesOf(packet),
              Rest(file, position)) = Audio(file)

LEMMA PartsTyped ==
    ASSUME TypeInv
    PROVE  /\ given \in Samples /\ converter.held \in Samples /\ InFrame \in Samples
           /\ frame.samples \in Samples
           /\ SamplesOf(decoder) \in Samples /\ SamplesOf(packet) \in Samples
           /\ Rest(file, position) \in Samples
<1>1. given \in Samples /\ converter.held \in Samples
  BY DEF TypeInv, ConverterSet, Samples
<1>2. frame.samples \in Samples /\ <<>> \in Samples
  <2>1. <<>> \in Seq(Nat)
    OBVIOUS
  <2>2. frame \in FrameSet \/ frame = NoFrame
    BY DEF TypeInv
  <2>3. frame \in FrameSet => frame.samples \in Seq(Nat)
    BY DEF FrameSet
  <2>4. NoFrame.samples = <<>>
    BY DEF NoFrame
  <2>. QED  BY <2>1, <2>2, <2>3, <2>4 DEF Samples
<1>3. InFrame \in Samples
  BY <1>2, Zenon DEF InFrame
<1>4. SamplesOf(decoder) \in Samples /\ SamplesOf(packet) \in Samples
  BY SamplesType DEF TypeInv, Samples
<1>5. Rest(file, position) \in Samples
  BY RestOf DEF TypeInv
<1>. QED  BY <1>1, <1>2, <1>3, <1>4, <1>5

\* A converter that is there has a rate, with samples or without.
LEMMA ConverterFields ==
    ASSUME NEW c \in ConverterSet, NEW h \in Seq(Nat)
    PROVE  /\ [c EXCEPT !.held = h] \in ConverterSet /\ [c EXCEPT !.held = h].held = h
           /\ [c EXCEPT !.held = h].rate = c.rate /\ [c EXCEPT !.held = h].s16 = c.s16
           /\ c.rate # 0 => [c EXCEPT !.held = h] # NoConverter
<1>1. NoConverter.rate = 0
  BY DEF NoConverter
<1>2. [c EXCEPT !.held = h] \in ConverterSet /\ [c EXCEPT !.held = h].held = h
  BY DEF ConverterSet
<1>3. [c EXCEPT !.held = h].rate = c.rate /\ [c EXCEPT !.held = h].s16 = c.s16
  BY DEF ConverterSet
<1>. QED  BY <1>1, <1>2, <1>3

LEMMA InitIInv == Init => IInv
<1>. SUFFICES ASSUME Init PROVE IInv
  OBVIOUS
<1>1. file \in Files /\ Len(file.packets) \in Nat
  BY FileIs DEF Init
<1>2. output_rate \in Nat
  BY FilesAssumption DEF Init
<1>3. <<>> \in Seq(FrameSet) /\ <<>> \in Seq(Nat)
  OBVIOUS
<1>4. NoConverter \in ConverterSet
  BY <1>3 DEF NoConverter, ConverterSet
<1>5. TypeInv
  BY <1>1, <1>2, <1>3, <1>4 DEF Init, TypeInv, Calls
<1>. QED  BY <1>5 DEF Init, IInv, ConverterInv, PhaseInv, EndInv, RoomInv, NothingLost

LEMMA OpenIInv ==
    ASSUME IInv, NEW f \in Files, NEW done \in 0 .. Len(OpenCalls), Open(f, done)
    PROVE  IInv'
<1>1. /\ f.s16 \in BOOLEAN /\ f.rate \in Nat /\ f.rate # 0 /\ f.packets \in Seq(PacketSet)
      /\ Len(f.packets) \in Nat
  BY FileIs
<1>2. /\ pc = "idle" /\ pc' = "idle" /\ file' = f /\ given' = <<>> /\ packet' = <<>>
      /\ frame' = NoFrame /\ decoder' = <<>> /\ position' = 0 /\ room' = room
  BY DEF Open
<1>3. output_rate' \in Nat
  BY <1>1 DEF Open, IInv, TypeInv
<1>4. <<>> \in Seq(FrameSet) /\ <<>> \in Seq(Nat)
  OBVIOUS
<1>5. NewConverter(f) \in ConverterSet
  BY <1>1, <1>4 DEF NewConverter, ConverterSet
<1>6. converter' = NewConverter(f) \/ converter' = converter
  BY DEF Open
<1>7. outcome' = "ok" <=> done = 8
  BY DEF Open, OpenCalls
<1>8. TypeInv'
  <2>1. converter' \in ConverterSet
    BY <1>5, <1>6 DEF IInv, TypeInv
  <2>2. outcome' \in {"closed", "ok", "failed"}
    BY DEF Open
  <2>3. has_more_packets' \in BOOLEAN /\ has_more_frames' \in BOOLEAN
    BY DEF Open, flags, IInv, TypeInv
  <2>4. position' \in 0 .. Len(file'.packets)
    BY <1>1, <1>2
  <2>5. room' \in Nat
    BY <1>2 DEF IInv, TypeInv
  <2>. QED  BY <1>2, <1>3, <1>4, <2>1, <2>2, <2>3, <2>4, <2>5 DEF TypeInv, Calls
<1>9. ConverterInv'
  <2>1. CASE done >= 7 /\ NeedsConverter(f, output_rate')
    <3>1. converter' = NewConverter(f)
      BY <2>1 DEF Open
    <3>2. output_rate' # 0
      BY <1>1, <2>1 DEF Open
    <3>. QED  BY <1>1, <2>1, <3>1, <3>2 DEF ConverterInv, NewConverter, NeedsConverter
  <2>2. CASE ~(done >= 7 /\ NeedsConverter(f, output_rate'))
    <3>1. converter' = converter
      BY <2>2 DEF Open
    <3>2. converter # NoConverter => output_rate' = output_rate
      BY DEF Open, IInv, ConverterInv
    <3>. QED  BY <3>1, <3>2 DEF IInv, ConverterInv
  <2>. QED  BY <2>1, <2>2
<1>10. PhaseInv'
  BY <1>2 DEF PhaseInv
<1>11. EndInv'
  <2>1. outcome' = "ok" => has_more_packets' = TRUE /\ has_more_frames' = TRUE
    BY <1>7 DEF Open, OpenCalls
  <2>. QED  BY <2>1 DEF EndInv
\* A converter that was left, and fits, would have been made anew.
<1>12. outcome' = "ok" /\ ~Stale' => converter'.held = <<>>
  <2>. SUFFICES ASSUME outcome' = "ok", ~Stale' PROVE converter'.held = <<>>
    OBVIOUS
  <2>1. done = 8
    BY <1>7
  <2>2. CASE NeedsConverter(f, output_rate')
    <3>1. converter' = NewConverter(f)
      BY <2>1, <2>2 DEF Open
    <3>. QED  BY <3>1 DEF NewConverter
  <2>3. CASE ~NeedsConverter(f, output_rate') /\ converter' # NoConverter
    <3>1. converter'.s16 = f.s16 /\ converter'.rate = f.rate
      BY <1>2, <2>3 DEF Stale
    <3>2. ~converter'.s16 \/ converter'.rate # output_rate'
      BY <1>9, <2>3 DEF ConverterInv
    <3>. QED  BY <2>3, <3>1, <3>2 DEF NeedsConverter
  <2>4. CASE converter' = NoConverter
    BY <2>4 DEF NoConverter
  <2>. QED  BY <2>2, <2>3, <2>4
<1>13. RoomInv'
  <2>1. room' = 0 \/ room' >= MIN_BUFFER
    BY <1>2 DEF IInv, RoomInv
  <2>2. Short(packet') /\ Short(decoder') /\ Len(frame'.samples) <= MIN_BUFFER
    BY <1>2, ReaderAssumption DEF Short, NoFrame
  <2>3. outcome' = "ok" /\ ~Stale' => Len(converter'.held) <= LAG
    BY <1>12, ReaderAssumption
  <2>. QED  BY <1>12, <2>1, <2>2, <2>3 DEF RoomInv
<1>14. NothingLost'
  <2>. SUFFICES ASSUME outcome' = "ok", ~Stale' PROVE Kept'
    BY DEF NothingLost, Kept, Parts, InFrame, Rest
  <2>1. Rest(f, 0) = Audio(f)
    <3>1. SubSeq(f.packets, 0 + 1, Len(f.packets)) = f.packets
      BY <1>1
    <3>. QED  BY <3>1 DEF Rest, Audio
  <2>2. Rest(f, 0) \in Samples
    BY <1>1, RestOf
  <2>3. Parts(<<>>, <<>>, <<>>, <<>>, <<>>, Rest(f, 0)) = Rest(f, 0)
    <3>1. <<>> \in Samples /\ <<>> \o <<>> = <<>> /\ <<>> \o Rest(f, 0) = Rest(f, 0)
      BY <2>2, JoinedNone
    <3>. QED  BY <3>1 DEF Parts
  <2>4. InFrame' = <<>>
    BY <1>2 DEF InFrame
  <2>. QED  BY <1>2, <1>12, <2>1, <2>3, <2>4, SamplesOfNone DEF Kept
<1>. QED  BY <1>8, <1>9, <1>10, <1>11, <1>13, <1>14 DEF IInv

LEMMA MaxIs ==
    ASSUME NEW a \in Int, NEW b \in Int
    PROVE  Max({a, b}) = IF a >= b THEN a ELSE b
<1>. DEFINE m == CHOOSE x \in {a, b} : \A y \in {a, b} : x >= y
            k == IF a >= b THEN a ELSE b
<1>1. k \in {a, b} /\ \A y \in {a, b} : k >= y
  OBVIOUS
<1>2. m \in {a, b} /\ \A y \in {a, b} : m >= y
  <2>. HIDE DEF k
  <2>. QED  BY <1>1
<1>. HIDE DEF m, k
<1>3. m = k
  BY <1>1, <1>2
<1>. QED  BY <1>3 DEF Max, m, k

LEMMA MinIs ==
    ASSUME NEW a \in Int, NEW b \in Int
    PROVE  Min({a, b}) = IF a <= b THEN a ELSE b
<1>. DEFINE m == CHOOSE x \in {a, b} : \A y \in {a, b} : x <= y
            k == IF a <= b THEN a ELSE b
<1>1. k \in {a, b} /\ \A y \in {a, b} : k <= y
  OBVIOUS
<1>2. m \in {a, b} /\ \A y \in {a, b} : m <= y
  <2>. HIDE DEF k
  <2>. QED  BY <1>1
<1>. HIDE DEF m, k
<1>3. m = k
  BY <1>1, <1>2
<1>. QED  BY <1>3 DEF Min, m, k

\* The size of the buffer after it was made large enough.
LEMMA RoomIs ==
    ASSUME TypeInv, RoomInv
    PROVE  LET r == RoomFor(frame.nb_samples)
           IN /\ r \in Nat /\ (r = 0 \/ r >= MIN_BUFFER)
              /\ frame.nb_samples > 0 => r >= MIN_BUFFER
<1>. DEFINE n == frame.nb_samples
<1>1. n \in Nat
  BY DEF TypeInv, FrameSet, NoFrame
<1>2. MIN_BUFFER \in Nat /\ room \in Nat /\ (room = 0 \/ room >= MIN_BUFFER)
  BY ReaderAssumption DEF TypeInv, RoomInv
<1>. HIDE DEF n
<1>3. Max({MIN_BUFFER, n}) = IF MIN_BUFFER >= n THEN MIN_BUFFER ELSE n
  BY <1>1, <1>2, MaxIs
<1>. DEFINE r == RoomFor(n)
<1>4. r = IF n > room THEN (IF MIN_BUFFER >= n THEN MIN_BUFFER ELSE n) ELSE room
  BY <1>3 DEF RoomFor
<1>. HIDE DEF r
<1>5. r \in Nat /\ (r = 0 \/ r >= MIN_BUFFER) /\ (n > 0 => r >= MIN_BUFFER)
  BY <1>1, <1>2, <1>4
<1>. QED  BY <1>5 DEF r, n

\* An element of two sequences joined is one of theirs.
LEMMA JoinedIn ==
    ASSUME NEW S, NEW y \in Seq(S), NEW z \in Seq(S), NEW i \in 1 .. Len(y \o z)
    PROVE  \/ i \in 1 .. Len(y) /\ (y \o z)[i] = y[i]
           \/ i - Len(y) \in 1 .. Len(z) /\ (y \o z)[i] = z[i - Len(y)]
OBVIOUS

\* The frames of a packet are among those of the file.
LEMMA NextIsShort ==
    ASSUME NEW f \in Files, NEW p \in 0 .. Len(f.packets) - 1, Whole(f)
    PROVE  Short(NextFrames(f, p))
<1>. DEFINE n == Len(f.packets)
            t == f.packets
            x == t[p + 1]
            y == SubSeq(t, (p + 1) + 1, n)
            z == SubSeq(t, 1, p)
<1>1. t \in Seq(PacketSet) /\ n \in Nat /\ p \in Nat /\ p + 1 \in 1 .. n
  BY FileIs
<1>2. x \in PacketSet
  BY <1>1, ElementOfSeq, Zenon
<1>3. y \in Seq(PacketSet) /\ z \in Seq(PacketSet)
  BY <1>1
<1>4. t = z \o (<<x>> \o y)
  <2>1. n \in p + 1 .. n /\ 1 \in 1 .. n + 1 /\ p \in 1 - 1 .. n /\ n \in p .. n
    BY <1>1
  <2>2. SubSeq(t, p + 1, n) = <<x>> \o y
    BY <1>1, <2>1, SubSeqRecursiveFirst
  <2>3. z \o SubSeq(t, p + 1, n) = SubSeq(t, 1, n)
    BY <1>1, <2>1, ConcatAdjacentSubSeq
  <2>4. SubSeq(t, 1, n) = t
    BY <1>1, SubSeqFull
  <2>. QED  BY <2>2, <2>3, <2>4
<1>5. <<x>> \in Seq(PacketSet)
  BY <1>2
<1>6. FramesOf(<<x>>) = NextFrames(f, p)
  BY <1>2, FramesOfOne DEF NextFrames
<1>. HIDE DEF x, y, z, t, n
<1>7. FramesOf(<<x>> \o y) = FramesOf(<<x>>) \o FramesOf(y)
  BY <1>3, <1>5, FramesJoined
<1>8. <<x>> \o y \in Seq(PacketSet)
  BY <1>3, <1>5
<1>9. FramesOf(t) = FramesOf(z) \o FramesOf(<<x>> \o y)
  BY <1>3, <1>4, <1>8, FramesJoined
<1>. DEFINE a == FramesOf(z)
            b == FramesOf(<<x>>)
            c == FramesOf(y)
            bc == b \o c
<1>10. a \in Seq(FrameSet) /\ b \in Seq(FrameSet) /\ c \in Seq(FrameSet)
  BY <1>3, <1>5, FramesType
<1>11. FramesOf(t) = a \o bc
  BY <1>7, <1>9
<1>. HIDE DEF a, b, c
<1>12. bc \in Seq(FrameSet) /\ \A i \in 1 .. Len(b) : i \in 1 .. Len(bc) /\ bc[i] = b[i]
  BY <1>10, JoinedAt
<1>. HIDE DEF bc
<1>13. ASSUME NEW i \in 1 .. Len(b) PROVE b[i] \in Range(FramesOf(t))
  <2>1. i \in 1 .. Len(bc) /\ bc[i] = b[i]
    BY <1>12
  <2>2. Len(a) + i \in 1 .. Len(a \o bc) /\ (a \o bc)[Len(a) + i] = bc[i]
    <3>1. a \in Seq(FrameSet) /\ bc \in Seq(FrameSet) /\ i \in 1 .. Len(bc)
      BY <1>10, <1>12, <2>1
    <3>. QED  BY <3>1, JoinedAtRest
  <2>3. a \o bc \in Seq(FrameSet)
    BY <1>10, <1>12
  <2>4. Len(a) + i \in DOMAIN (a \o bc)
    BY <2>2, <2>3
  <2>. QED  BY <1>11, <2>1, <2>2, <2>4 DEF Range
<1>14. \A g \in Range(FramesOf(t)) : Len(g.samples) <= MIN_BUFFER
  BY DEF Whole, t
<1>. QED  BY <1>6, <1>13, <1>14 DEF Short, b

LEMMA ReadIInv ==
    ASSUME IInv, Read
    PROVE  IInv'
<1>1. /\ pc = "idle" /\ pc' = "send" /\ outcome = "ok" /\ outcome' = "ok"
      /\ UNCHANGED <<output_rate, file, converter, room, packet, frame, position, decoder,
                     given, has_more_packets, has_more_frames>>
  BY DEF Read, opening
<1>2. ~IsFinished
  BY DEF Read
<1>3. Stale' = Stale
  BY <1>1 DEF Stale
<1>4. TypeInv'
  BY <1>1 DEF IInv, TypeInv, Calls
<1>5. ConverterInv' /\ PhaseInv'
  BY <1>1 DEF IInv, ConverterInv, PhaseInv
<1>6. EndInv'
  <2>1. has_more_frames
    BY <1>1, <1>2 DEF IsFinished, IInv, EndInv
  <2>. QED  BY <1>1, <2>1 DEF IInv, EndInv
<1>7. RoomInv'
  BY <1>1, <1>3 DEF IInv, RoomInv, Short
<1>8. NothingLost'
  BY <1>1, <1>3 DEF IInv, NothingLost
<1>. QED  BY <1>4, <1>5, <1>6, <1>7, <1>8 DEF IInv

\* A call that fails changes no more than the size of the buffer.
LEMMA FailIInv ==
    ASSUME IInv, ReadingFails
    PROVE  IInv'
<1>1. /\ pc' = "idle" /\ outcome' = "failed"
      /\ UNCHANGED <<output_rate, file, converter, packet, frame, position, decoder,
                     given, has_more_packets, has_more_frames>>
  BY DEF ReadingFails, ReadPacketFails, SendFails, ReceiveFails, ConvertFails, Failed,
         opening
<1>2. room' \in Nat /\ (room' = 0 \/ room' >= MIN_BUFFER)
  <2>1. CASE UNCHANGED room
    BY <2>1 DEF IInv, RoomInv, TypeInv
  <2>2. CASE room' = RoomFor(frame.nb_samples)
    BY <2>2, RoomIs DEF IInv
  <2>. QED
    BY <2>1, <2>2
    DEF ReadingFails, ReadPacketFails, SendFails, ReceiveFails, ConvertFails
<1>3. TypeInv'
  BY <1>1, <1>2 DEF IInv, TypeInv
<1>4. ConverterInv'
  BY <1>1 DEF IInv, ConverterInv
<1>5. PhaseInv' /\ EndInv' /\ RoomInv' /\ NothingLost'
  BY <1>1, <1>2 DEF PhaseInv, EndInv, RoomInv, NothingLost
<1>. QED  BY <1>3, <1>4, <1>5 DEF IInv

LEMMA SendIInv ==
    ASSUME IInv, Send
    PROVE  IInv'
<1>1. /\ pc = "send" /\ pc' = "receive" /\ outcome = "ok" /\ outcome' = "ok"
      /\ decoder' = decoder \o packet /\ packet' = <<>>
      /\ UNCHANGED <<output_rate, file, converter, room, frame, position,
                     given, has_more_packets, has_more_frames>>
  BY DEF Send, opening, IInv, PhaseInv
<1>2. decoder \in Seq(FrameSet) /\ packet \in Seq(FrameSet)
  BY DEF IInv, TypeInv
<1>3. decoder' \in Seq(FrameSet) /\ packet' \in Seq(FrameSet)
  BY <1>1, <1>2
<1>4. Stale' = Stale
  BY <1>1 DEF Stale
<1>5. TypeInv'
  BY <1>1, <1>3 DEF IInv, TypeInv, Calls
<1>6. ConverterInv' /\ PhaseInv'
  BY <1>1 DEF IInv, ConverterInv, PhaseInv
<1>7. EndInv'
  <2>1. has_more_frames
    BY <1>1 DEF IInv, EndInv
  <2>. QED  BY <1>1, <2>1 DEF IInv, EndInv
<1>8. RoomInv'
  <2>1. Short(decoder) /\ Short(packet) => Short(decoder') /\ Short(packet')
    <3>1. ASSUME Short(decoder), Short(packet), NEW i \in 1 .. Len(decoder \o packet)
          PROVE  Len((decoder \o packet)[i].samples) <= MIN_BUFFER
      BY <1>2, <3>1, JoinedIn DEF Short
    <3>. QED  BY <1>1, <3>1 DEF Short
  <2>. QED  BY <1>1, <1>4, <2>1 DEF IInv, RoomInv
<1>9. NothingLost'
  <2>. SUFFICES ASSUME ~Stale PROVE Kept'
    BY <1>4 DEF NothingLost, Kept, Parts, InFrame, Rest
  <2>1. Kept
    BY <1>1 DEF IInv, NothingLost, Kept, Parts, InFrame, Rest
  <2>2. InFrame = <<>> /\ InFrame' = <<>>
    BY <1>1 DEF InFrame
  <2>3. SamplesOf(decoder') = SamplesOf(decoder) \o SamplesOf(packet)
    BY <1>1, <1>2, SamplesJoined
  <2>4. SamplesOf(packet') = <<>>
    BY <1>1, SamplesOfNone
  <2>5. /\ given \in Samples /\ converter.held \in Samples
        /\ SamplesOf(decoder) \in Samples /\ SamplesOf(packet) \in Samples
        /\ Rest(file, position) \in Samples
    BY PartsTyped DEF IInv
  <2>6. Parts(given, converter.held, <<>>, SamplesOf(decoder) \o SamplesOf(packet), <<>>,
              Rest(file, position))
          = Parts(given, converter.held, <<>>, SamplesOf(decoder), SamplesOf(packet),
                  Rest(file, position))
    BY <2>5, SentParts
  <2>. QED  BY <1>1, <2>1, <2>2, <2>3, <2>4, <2>6 DEF Kept
<1>. QED  BY <1>5, <1>6, <1>7, <1>8, <1>9 DEF IInv

LEMMA ReadPacketIInv ==
    ASSUME IInv, ReadPacket
    PROVE  IInv'
<1>1. /\ pc = "packet" /\ outcome = "ok" /\ outcome' = "ok" /\ packet = <<>>
      /\ UNCHANGED <<output_rate, file, converter, room, frame, decoder, given,
                     has_more_frames>>
  BY DEF ReadPacket, opening, IInv, PhaseInv
<1>2. /\ file \in Files /\ position \in 0 .. Len(file.packets)
      /\ Len(file.packets) \in Nat
  BY FileIs DEF IInv, TypeInv
<1>3. Stale' = Stale
  BY <1>1 DEF Stale
<1>4. has_more_frames
  BY <1>1 DEF IInv, EndInv
<1>5. CASE position = Len(file.packets)
  <2>1. pc' = "send" /\ has_more_packets' = FALSE /\ UNCHANGED <<position, packet>>
    BY <1>2, <1>5 DEF ReadPacket
  <2>2. TypeInv'
    BY <1>1, <2>1 DEF IInv, TypeInv, Calls
  <2>3. ConverterInv' /\ PhaseInv'
    BY <1>1, <2>1 DEF IInv, ConverterInv, PhaseInv
  <2>4. EndInv'
    BY <1>1, <1>4, <1>5, <2>1 DEF EndInv
  <2>5. RoomInv'
    BY <1>1, <1>3, <2>1 DEF IInv, RoomInv, Short
  <2>6. NothingLost'
    BY <1>1, <1>3, <2>1 DEF IInv, NothingLost
  <2>. QED  BY <2>2, <2>3, <2>4, <2>5, <2>6 DEF IInv
<1>6. CASE position < Len(file.packets)
  <2>. DEFINE next == NextFrames(file, position)
  <2>1. position \in 0 .. Len(file.packets) - 1
    BY <1>2, <1>6
  <2>2. position' = position + 1 /\ has_more_packets' = has_more_packets
    BY <1>2, <1>6 DEF ReadPacket
  <2>3. has_more_packets
    BY <1>1, <1>2, <1>6 DEF IInv, EndInv, TypeInv
  <2>4. /\ pc' \in {"send", "packet"}
        /\ packet' = next
        /\ pc' = "packet" => packet' = <<>>
    <3>1. CASE file.packets[position + 1].audio
      BY <1>2, <1>6, <2>2, <3>1 DEF ReadPacket, Wanted, NextFrames
    <3>2. CASE ~file.packets[position + 1].audio
      BY <1>1, <1>2, <1>6, <2>2, <3>2 DEF ReadPacket, Wanted, NextFrames
    <3>. QED  BY <3>1, <3>2
  <2>5. /\ next \in Seq(FrameSet) /\ position + 1 \in 0 .. Len(file.packets)
        /\ Rest(file, position) = SamplesOf(next) \o Rest(file, position + 1)
    BY <1>2, <2>1, RestNext
  <2>6. Whole(file) => Short(next)
    BY <1>2, <2>1, NextIsShort
  <2>. HIDE DEF next
  <2>7. TypeInv'
    BY <1>1, <2>2, <2>4, <2>5 DEF IInv, TypeInv, Calls
  <2>8. ConverterInv' /\ PhaseInv'
    BY <1>1, <2>4 DEF IInv, ConverterInv, PhaseInv
  <2>9. EndInv'
    BY <1>1, <1>4, <2>2, <2>3 DEF EndInv
  <2>10. RoomInv'
    BY <1>1, <1>3, <2>4, <2>6 DEF IInv, RoomInv, Short
  <2>11. NothingLost'
    <3>. SUFFICES ASSUME ~Stale PROVE Kept'
      BY <1>3 DEF NothingLost, Kept, Parts, InFrame, Rest
    <3>1. Kept
      BY <1>1 DEF IInv, NothingLost, Kept, Parts, InFrame, Rest
    <3>2. InFrame = <<>> /\ InFrame' = <<>>
      BY <1>1, <2>4 DEF InFrame
    <3>3. SamplesOf(packet) = <<>> /\ SamplesOf(packet') = SamplesOf(next)
      BY <1>1, <2>4, SamplesOfNone
    <3>4. /\ given \in Samples /\ converter.held \in Samples
          /\ SamplesOf(decoder) \in Samples /\ SamplesOf(next) \in Samples
          /\ Rest(file, position + 1) \in Samples
      BY <1>2, <2>5, PartsTyped, SamplesType, RestOf DEF IInv, Samples
    <3>5. Parts(given, converter.held, <<>>, SamplesOf(decoder), <<>>,
                SamplesOf(next) \o Rest(file, position + 1))
            = Parts(given, converter.held, <<>>, SamplesOf(decoder), SamplesOf(next),
                    Rest(file, position + 1))
      BY <3>4, ReadParts
    <3>. QED  BY <1>1, <2>2, <2>5, <3>1, <3>2, <3>3, <3>5 DEF Kept
  <2>. QED  BY <2>7, <2>8, <2>9, <2>10, <2>11 DEF IInv
<1>. QED  BY <1>2, <1>5, <1>6

LEMMA ReceiveIInv ==
    ASSUME IInv, Receive
    PROVE  IInv'
<1>1. /\ pc = "receive" /\ outcome = "ok" /\ outcome' = "ok"
      /\ UNCHANGED <<output_rate, file, converter, room, packet, position, given,
                     has_more_packets>>
  BY DEF Receive, opening, IInv, PhaseInv
<1>2. decoder \in Seq(FrameSet) /\ file \in Files /\ file.delay \in Nat
  BY FileIs DEF IInv, TypeInv
<1>3. Stale' = Stale
  BY <1>1 DEF Stale
<1>4. has_more_frames /\ packet = <<>>
  BY <1>1 DEF IInv, EndInv, PhaseInv
<1>5. CASE Due
  <2>1. /\ pc' = "convert" /\ frame' = Head(decoder) /\ decoder' = Tail(decoder)
        /\ has_more_frames' = has_more_frames
    BY <1>5 DEF Receive
  <2>2. decoder # <<>>
    BY <1>2, <1>5 DEF Due
  <2>3. /\ frame' \in FrameSet /\ decoder' \in Seq(FrameSet)
        /\ decoder = <<frame'>> \o decoder'
        /\ frame' = decoder[1] /\ 1 \in 1 .. Len(decoder)
        /\ \A i \in 1 .. Len(decoder') : i + 1 \in 1 .. Len(decoder)
                                         /\ decoder'[i] = decoder[i + 1]
    BY <1>2, <2>1, <2>2
  <2>4. TypeInv'
    BY <1>1, <2>1, <2>3 DEF IInv, TypeInv, Calls
  <2>5. ConverterInv' /\ PhaseInv'
    BY <1>1, <1>4, <2>1 DEF IInv, ConverterInv, PhaseInv
  <2>6. EndInv'
    BY <1>1, <1>4, <2>1 DEF IInv, EndInv
  <2>7. RoomInv'
    <3>1. Short(decoder) => Short(decoder') /\ Len(frame'.samples) <= MIN_BUFFER
      BY <2>3 DEF Short
    <3>. QED  BY <1>1, <1>3, <3>1 DEF IInv, RoomInv
  <2>8. NothingLost'
    <3>. SUFFICES ASSUME ~Stale PROVE Kept'
      BY <1>3 DEF NothingLost, Kept, Parts, InFrame, Rest
    <3>1. Kept
      BY <1>1 DEF IInv, NothingLost, Kept, Parts, InFrame, Rest
    <3>2. InFrame = <<>> /\ InFrame' = frame'.samples
      BY <1>1, <2>1 DEF InFrame
    <3>3. SamplesOf(decoder) = frame'.samples \o SamplesOf(decoder')
      <4>1. <<frame'>> \in Seq(FrameSet)
        BY <2>3
      <4>2. SamplesOf(<<frame'>>) = frame'.samples
        BY <2>3, SamplesOfOne
      <4>. QED  BY <2>3, <4>1, <4>2, SamplesJoined
    <3>4. /\ given \in Samples /\ converter.held \in Samples
          /\ SamplesOf(packet) \in Samples /\ Rest(file, position) \in Samples
      BY PartsTyped DEF IInv
    <3>5. frame'.samples \in Samples /\ SamplesOf(decoder') \in Samples
      BY <2>3, SamplesType DEF FrameSet, Samples
    <3>6. Parts(given, converter.held, <<>>, frame'.samples \o SamplesOf(decoder'),
                SamplesOf(packet), Rest(file, position))
            = Parts(given, converter.held, frame'.samples, SamplesOf(decoder'),
                    SamplesOf(packet), Rest(file, position))
      <4>. DEFINE x == frame'.samples
                  d == SamplesOf(decoder')
      <4>1. x \in Samples /\ d \in Samples
        BY <3>5
      <4>. HIDE DEF x, d
      <4>2. Parts(given, converter.held, <<>>, x \o d, SamplesOf(packet),
                  Rest(file, position))
              = Parts(given, converter.held, x, d, SamplesOf(packet), Rest(file, position))
        BY <3>4, <4>1, ReceivedParts
      <4>. QED  BY <4>2 DEF x, d
    <3>. QED  BY <1>1, <3>1, <3>2, <3>3, <3>6 DEF Kept
  <2>. QED  BY <2>4, <2>5, <2>6, <2>7, <2>8 DEF IInv
<1>6. CASE ~Due
  <2>1. /\ frame' = NoFrame /\ decoder' = decoder
        /\ \/ pc' = "packet" /\ has_more_frames' = has_more_frames
           \/ pc' = "convert" /\ ~has_more_packets
    BY <1>6 DEF Receive
  <2>2. TypeInv'
    <3>1. has_more_frames' \in BOOLEAN
      BY <1>6 DEF Receive, AfterLastFrame, IInv, TypeInv
    <3>. QED  BY <1>1, <2>1, <3>1 DEF IInv, TypeInv, Calls
  <2>3. ConverterInv' /\ PhaseInv'
    BY <1>1, <1>4, <2>1 DEF IInv, ConverterInv, PhaseInv
  <2>4. EndInv'
    <3>1. Due' = Due
      BY <1>1, <2>1 DEF Due
    <3>. QED  BY <1>1, <1>4, <1>6, <2>1, <3>1 DEF IInv, EndInv
  <2>5. RoomInv'
    <3>1. Len(NoFrame.samples) <= MIN_BUFFER
      BY ReaderAssumption DEF NoFrame
    <3>. QED  BY <1>1, <1>3, <2>1, <3>1 DEF IInv, RoomInv, Short
  <2>6. NothingLost'
    <3>1. InFrame = <<>> /\ InFrame' = <<>>
      BY <1>1, <2>1 DEF InFrame, NoFrame
    <3>2. Kept' <=> Kept
      BY <1>1, <2>1, <3>1 DEF Kept
    <3>3. ~Stale => Kept
      BY <1>1 DEF IInv, NothingLost, Kept, Parts, InFrame, Rest
    <3>. QED  BY <1>3, <3>2, <3>3 DEF NothingLost, Kept, Parts, InFrame, Rest
  <2>. QED  BY <2>2, <2>3, <2>4, <2>5, <2>6 DEF IInv
<1>. QED  BY <1>5, <1>6

\* swr_convert: what it gives and what it keeps are what it had.
LEMMA GiveIs ==
    ASSUME TypeInv, NEW held \in Samples, NEW n \in Nat, Give(held, n)
    PROVE  \E k \in 0 .. Len(held) :
              /\ k = IF n <= Len(held) THEN n ELSE Len(held)
              /\ given' = given \o SubSeq(held, 1, k)
              /\ converter' = [converter EXCEPT !.held = SubSeq(held, k + 1, Len(held))]
<1>. DEFINE k == IF n <= Len(held) THEN n ELSE Len(held)
<1>1. Len(held) \in Nat
  BY DEF Samples
<1>2. k \in 0 .. Len(held)
  BY <1>1
<1>3. Min({n, Len(held)}) = k
  BY <1>1, MinIs
<1>4. /\ given' = given \o SubSeq(held, 1, k)
      /\ converter' = [converter EXCEPT !.held = SubSeq(held, k + 1, Len(held))]
  BY <1>3 DEF Give
<1>. QED  BY <1>2, <1>4

\* What a conversion does to the samples, with a converter that is for the file.
Converted ==
    /\ converter' \in ConverterSet
    /\ converter'.rate = converter.rate /\ converter'.s16 = converter.s16
    /\ converter' = NoConverter <=> converter = NoConverter
    /\ given' \in Samples /\ Len(given) <= Len(given')
    /\ ~Stale => Parts(given', converter'.held, <<>>, SamplesOf(decoder), SamplesOf(packet),
                       Rest(file, position))
                  = Parts(given, converter.held, frame.samples, SamplesOf(decoder),
                          SamplesOf(packet), Rest(file, position))
    /\ ~Stale /\ Whole(file) =>
          /\ Len(converter'.held) <= LAG
          /\ converter'.held # <<>> => room' >= MIN_BUFFER
          /\ IsFinished => converter'.held = <<>>

\* Give(held, n) is a conversion when held is what the converter had and the
\* samples of the frame, and no more than the lag is left.
LEMMA GiveConverts ==
    ASSUME TypeInv, ConverterInv, converter # NoConverter,
           NEW held \in Samples, NEW n \in Nat, Give(held, n),
           ~Stale => held = converter.held \o frame.samples,
           ~Stale /\ Whole(file) => /\ Len(held) - n <= LAG
                                    /\ room' >= MIN_BUFFER \/ Len(held) = 0
                                    /\ IsFinished => Len(held) <= n
    PROVE  Converted
<1>1. PICK k \in 0 .. Len(held) :
         /\ k = IF n <= Len(held) THEN n ELSE Len(held)
         /\ given' = given \o SubSeq(held, 1, k)
         /\ converter' = [converter EXCEPT !.held = SubSeq(held, k + 1, Len(held))]
  BY GiveIs
<1>. DEFINE p == SubSeq(held, 1, k)
            q == SubSeq(held, k + 1, Len(held))
<1>2. /\ p \in Samples /\ q \in Samples /\ p \o q = held
      /\ Len(p) = k /\ Len(q) = Len(held) - k
  BY CutIs
<1>3. given' = given \o p /\ converter' = [converter EXCEPT !.held = q]
  BY <1>1
<1>. HIDE DEF p, q
<1>4. /\ given \in Samples /\ converter.held \in Samples /\ frame.samples \in Samples
      /\ SamplesOf(decoder) \in Samples /\ SamplesOf(packet) \in Samples
      /\ Rest(file, position) \in Samples
  BY PartsTyped
<1>5. converter \in ConverterSet /\ converter.rate # 0 /\ q \in Seq(Nat)
  BY <1>2 DEF TypeInv, ConverterInv, Samples
<1>6. /\ converter' \in ConverterSet /\ converter'.held = q
      /\ converter'.rate = converter.rate /\ converter'.s16 = converter.s16
      /\ converter' # NoConverter
  BY <1>3, <1>5, ConverterFields
<1>7. given' \in Samples /\ Len(given) <= Len(given')
  <2>1. given \o p \in Samples /\ Len(given \o p) = Len(given) + Len(p)
    BY <1>2, <1>4, ConcatProperties DEF Samples
  <2>2. Len(given) \in Nat /\ Len(p) \in Nat
    BY <1>2, <1>4 DEF Samples
  <2>. QED  BY <1>3, <2>1, <2>2
<1>8. ASSUME ~Stale
      PROVE  Parts(given', converter'.held, <<>>, SamplesOf(decoder), SamplesOf(packet),
                   Rest(file, position))
             = Parts(given, converter.held, frame.samples, SamplesOf(decoder),
                     SamplesOf(packet), Rest(file, position))
  <2>1. p \o q = converter.held \o frame.samples
    BY <1>2, <1>8
  <2>2. Parts(given \o p, q, <<>>, SamplesOf(decoder), SamplesOf(packet),
              Rest(file, position))
        = Parts(given, converter.held, frame.samples, SamplesOf(decoder),
                SamplesOf(packet), Rest(file, position))
    <3>. DEFINE g == given
                h == converter.held
                c == frame.samples
                d == SamplesOf(decoder)
                e == SamplesOf(packet)
                r == Rest(file, position)
    <3>1. /\ g \in Samples /\ h \in Samples /\ c \in Samples
          /\ d \in Samples /\ e \in Samples /\ r \in Samples
      BY <1>4
    <3>2. p \o q = h \o c
      BY <2>1
    <3>. HIDE DEF g, h, c, d, e, r
    <3>3. Passed(g, h, c, p, q, d, e, r)
      BY <1>2, <3>1, <3>2, ConvertedParts
    <3>. QED  BY <3>3 DEF g, h, c, d, e, r, Passed
  <2>. QED  BY <1>3, <1>6, <2>2
<1>9. ASSUME ~Stale, Whole(file)
      PROVE  /\ Len(q) <= LAG
             /\ q # <<>> => room' >= MIN_BUFFER
             /\ IsFinished => q = <<>>
  <2>1. Len(held) \in Nat /\ LAG \in Nat
    BY ReaderAssumption DEF Samples
  <2>2. Len(q) <= LAG
    BY <1>1, <1>2, <1>9, <2>1
  <2>3. Len(q) = 0 => q = <<>>
    BY <1>2 DEF Samples
  <2>4. Len(held) = 0 \/ Len(held) <= n => Len(q) = 0
    BY <1>1, <1>2, <2>1
  <2>. QED  BY <1>9, <2>2, <2>3, <2>4
<1>. QED  BY <1>6, <1>7, <1>8, <1>9 DEF Converted

LEMMA ConvertIs ==
    ASSUME IInv, Convert
    PROVE  /\ room' \in Nat /\ (room' = 0 \/ room' >= MIN_BUFFER)
           /\ Converted
<1>1. TypeInv /\ ConverterInv /\ RoomInv /\ outcome = "ok" /\ pc = "convert"
  BY DEF IInv, PhaseInv, Convert
<1>2. /\ given \in Samples /\ converter.held \in Samples /\ frame.samples \in Samples
      /\ SamplesOf(decoder) \in Samples /\ SamplesOf(packet) \in Samples
      /\ Rest(file, position) \in Samples
  BY <1>1, PartsTyped
<1>3. /\ frame \in FrameSet => frame.nb_samples > 0
      /\ frame \in FrameSet \/ frame = NoFrame
      /\ NoFrame.nb_samples = 0 /\ NoFrame.samples = <<>>
  BY <1>1 DEF TypeInv, FrameSet, NoFrame
<1>4. /\ MIN_BUFFER \in Nat /\ LAG \in Nat /\ LAG <= MIN_BUFFER
      /\ room \in Nat /\ (room = 0 \/ room >= MIN_BUFFER)
      /\ Len(given) \in Nat /\ Len(converter.held) \in Nat /\ Len(frame.samples) \in Nat
  BY <1>1, <1>2, ReaderAssumption DEF TypeInv, RoomInv, Samples
<1>5. CASE frame.nb_samples > 0 /\ converter # NoConverter
  <2>. DEFINE held == converter.held \o Heard(frame.samples)
              surplus == Max({0, Len(held) - LAG})
              n == Min({room', surplus})
  <2>1. room' = RoomFor(frame.nb_samples) /\ Give(held, n)
    BY <1>5 DEF Convert
  <2>2. room' \in Nat /\ room' >= MIN_BUFFER
    BY <1>1, <1>5, <2>1, RoomIs
  <2>3. Heard(frame.samples) \in Samples
    <3>1. [i \in DOMAIN frame.samples |-> 0] \in Seq(Nat)
      <4>1. DOMAIN frame.samples = 1 .. Len(frame.samples)
        BY <1>2, LenProperties DEF Samples
      <4>2. [i \in 1 .. Len(frame.samples) |-> 0] \in Seq(Nat)
        BY <1>4
      <4>. QED  BY <4>1, <4>2
    <3>. QED  BY <1>2, <3>1, Zenon DEF Heard, Samples
  <2>4. held \in Samples
    BY <1>2, <2>3, Joined
  <2>5. ~Stale => held = converter.held \o frame.samples
    BY DEF Heard
  <2>. HIDE DEF held
  <2>6. Len(held) \in Nat
    BY <2>4 DEF Samples
  <2>7. surplus = IF 0 >= Len(held) - LAG THEN 0 ELSE Len(held) - LAG
    BY <1>4, <2>6, MaxIs
  <2>. HIDE DEF surplus
  <2>8. surplus \in Nat
    BY <1>4, <2>6, <2>7
  <2>9. n = IF room' <= surplus THEN room' ELSE surplus
    BY <2>2, <2>8, MinIs
  <2>. HIDE DEF n
  <2>10. n \in Nat
    BY <2>2, <2>8, <2>9
  <2>11. ~IsFinished
    BY <1>1, <1>3, <1>5 DEF IInv, EndInv, IsFinished
  <2>12. ASSUME ~Stale, Whole(file) PROVE Len(held) - n <= LAG
    <3>1. Len(converter.held) <= LAG /\ Len(frame.samples) <= MIN_BUFFER
      BY <1>1, <2>12 DEF RoomInv
    <3>2. Len(held) = Len(converter.held) + Len(frame.samples)
      BY <1>2, <2>5, <2>12, ConcatProperties DEF Samples
    <3>3. surplus <= MIN_BUFFER
      <4>. DEFINE a == Len(converter.held)
                  b == Len(frame.samples)
      <4>1. a \in Nat /\ b \in Nat /\ a <= LAG /\ b <= MIN_BUFFER
        BY <1>4, <3>1
      <4>2. Len(held) = a + b
        BY <3>2
      <4>. HIDE DEF a, b
      <4>. QED  BY <1>4, <2>7, <4>1, <4>2
    <3>4. n = surplus
      BY <1>4, <2>2, <2>8, <2>9, <3>3
    <3>. QED  BY <1>4, <2>6, <2>7, <3>4
  <2>13. Converted
    BY <1>1, <1>5, <2>1, <2>2, <2>4, <2>5, <2>10, <2>11, <2>12, GiveConverts
  <2>. QED  BY <2>2, <2>13
<1>6. CASE frame.nb_samples > 0 /\ converter = NoConverter
  <2>1. given' = given \o frame.samples /\ UNCHANGED <<converter, room>>
    BY <1>6 DEF Convert
  <2>2. converter.held = <<>>
    BY <1>6 DEF NoConverter
  <2>3. given' \in Samples /\ Len(given) <= Len(given')
    <3>1. /\ given \o frame.samples \in Samples
          /\ Len(given \o frame.samples) = Len(given) + Len(frame.samples)
      BY <1>2, ConcatProperties DEF Samples
    <3>. QED  BY <1>4, <2>1, <3>1
  <2>4. Parts(given', <<>>, <<>>, SamplesOf(decoder), SamplesOf(packet),
              Rest(file, position))
          = Parts(given, <<>>, frame.samples, SamplesOf(decoder), SamplesOf(packet),
                  Rest(file, position))
    BY <1>2, <2>1, PlainParts
  <2>5. Converted
    BY <1>1, <1>4, <2>1, <2>2, <2>3, <2>4 DEF Converted, TypeInv
  <2>. QED  BY <1>4, <2>1, <2>5
<1>7. CASE frame.nb_samples = 0 /\ converter # NoConverter /\ IsFinished
  <2>1. Give(converter.held, room) /\ room' = room
    BY <1>7 DEF Convert
  <2>2. frame.samples = <<>>
    BY <1>3, <1>7
  <2>3. converter.held = converter.held \o frame.samples
    BY <1>2, <2>2, JoinedNone
  <2>4. ASSUME ~Stale, Whole(file)
        PROVE  /\ Len(converter.held) <= room
               /\ room >= MIN_BUFFER \/ Len(converter.held) = 0
    <3>1. /\ Len(converter.held) <= LAG
          /\ converter.held # <<>> => room >= MIN_BUFFER
      BY <1>1, <2>4 DEF RoomInv
    <3>2. converter.held = <<>> => Len(converter.held) = 0
      OBVIOUS
    <3>. QED  BY <1>4, <3>1, <3>2
  <2>5. ~Stale /\ Whole(file) => /\ Len(converter.held) - room <= LAG
                                 /\ room' >= MIN_BUFFER \/ Len(converter.held) = 0
                                 /\ IsFinished => Len(converter.held) <= room
    BY <1>4, <2>1, <2>4
  <2>6. Converted
    BY <1>1, <1>2, <1>4, <1>7, <2>1, <2>3, <2>5, GiveConverts
  <2>. QED  BY <1>4, <2>1, <2>6
<1>8. CASE frame.nb_samples = 0 /\ ~(converter # NoConverter /\ IsFinished)
  <2>1. UNCHANGED <<given, converter, room>>
    BY <1>8 DEF Convert
  <2>2. frame.samples = <<>>
    BY <1>3, <1>8
  <2>3. IsFinished => converter.held = <<>>
    BY <1>8 DEF NoConverter
  <2>4. Converted
    BY <1>1, <1>2, <1>4, <2>1, <2>2, <2>3 DEF Converted, TypeInv, RoomInv
  <2>. QED  BY <1>4, <2>1, <2>4
<1>. QED  BY <1>5, <1>6, <1>7, <1>8 DEF Convert

LEMMA ConvertIInv ==
    ASSUME IInv, Convert
    PROVE  IInv'
<1>1. /\ pc = "convert" /\ pc' = "idle" /\ outcome = "ok" /\ outcome' = "ok"
      /\ UNCHANGED <<output_rate, file, packet, frame, position, decoder,
                     has_more_packets, has_more_frames>>
  BY DEF Convert, opening, IInv, PhaseInv
<1>2. TypeInv
  BY DEF IInv
<1>3. /\ converter \in ConverterSet /\ given \in Samples /\ converter.held \in Samples
      /\ frame.samples \in Samples
  BY <1>2, PartsTyped DEF TypeInv
<1>4. PhaseInv' /\ EndInv'
  BY <1>1 DEF IInv, PhaseInv, EndInv, Due
\* What each branch does: some samples are given, the others held.
<1>5. /\ room' \in Nat /\ (room' = 0 \/ room' >= MIN_BUFFER)
      /\ Converted
  BY <1>1, <1>2, ConvertIs DEF IInv
<1>6. /\ converter' \in ConverterSet
      /\ converter'.rate = converter.rate /\ converter'.s16 = converter.s16
      /\ converter' = NoConverter <=> converter = NoConverter
      /\ Stale' <=> Stale
  BY <1>1, <1>5 DEF Converted, Stale
<1>7. TypeInv'
  <2>1. given' \in Seq(Nat)
    BY <1>5 DEF Converted, Samples
  <2>. QED  BY <1>1, <1>2, <1>5, <1>6, <2>1 DEF TypeInv, Calls
<1>8. ConverterInv'
  BY <1>1, <1>6 DEF IInv, ConverterInv
<1>9. RoomInv'
  <2>. SUFFICES ASSUME ~Stale, Whole(file)
                PROVE  /\ Len(converter'.held) <= LAG
                       /\ converter'.held # <<>> => room' >= MIN_BUFFER
    BY <1>1, <1>5, <1>6 DEF IInv, RoomInv
  <2>. QED  BY <1>5 DEF Converted
<1>10. NothingLost'
  <2>. SUFFICES ASSUME ~Stale PROVE Kept'
    BY <1>6 DEF NothingLost, Kept, Parts, InFrame, Rest
  <2>1. Kept
    BY <1>1 DEF IInv, NothingLost, Kept, Parts, InFrame, Rest
  <2>2. InFrame = frame.samples /\ InFrame' = <<>>
    BY <1>1 DEF InFrame
  <2>. QED  BY <1>1, <1>5, <2>1, <2>2 DEF Converted, Kept
<1>. QED  BY <1>4, <1>7, <1>8, <1>9, <1>10 DEF IInv

LEMMA StepIInv == IInv /\ [Next]_vars => IInv'
<1>. SUFFICES ASSUME IInv, [Next]_vars PROVE IInv'
  OBVIOUS
<1>1. CASE \E f \in Files, done \in 0 .. Len(OpenCalls) : Open(f, done)
  BY <1>1, OpenIInv
<1>2. CASE Read
  BY <1>2, ReadIInv
<1>3. CASE Reading
  BY <1>3, ReadPacketIInv, SendIInv, ReceiveIInv, ConvertIInv DEF Reading
<1>4. CASE ReadingFails
  BY <1>4, FailIInv
<1>5. CASE UNCHANGED vars
  BY <1>5 DEF vars, opening, IInv, TypeInv, ConverterInv, PhaseInv, EndInv, RoomInv,
              NothingLost, Stale, Due, Short
<1>. QED  BY <1>1, <1>2, <1>3, <1>4, <1>5 DEF Next

\* ffmpeg_audio_reader.h, Open and Read: in every state the flags, the
\* converter, the buffer and the position agree, and no sample is lost.
THEOREM Invariance == Spec => []IInv
BY InitIInv, StepIInv, PTL DEF Spec

\* FFmpegAudioReader::Read: what it gave, what the converter, the frame, the
\* decoder and the packet hold and the packets to come make up the file, for all
\* files, buffers and converters and wherever a call fails.
THEOREM NothingIsLost == Spec => []NothingLost
<1>1. IInv => NothingLost
  BY DEF IInv
<1>. QED  BY <1>1, Invariance, PTL

-----------------------------------------------------------------------------
(* The reader implements AudioSource, but for ReadReturns.                 *)

LEMMA InitSource == Init => Source!SourceInit
BY DEF Init, Source!SourceInit, SourceStatus, SourceGiven

\* A call of Open gives an open source, or none.
LEMMA OpenSource ==
    ASSUME IInv, NEW f \in Files, NEW done \in 0 .. Len(OpenCalls), Open(f, done)
    PROVE  Source!SourceNext
<1>1. /\ pc = "idle" /\ pc' = "idle" /\ file' = f /\ given' = <<>>
      /\ outcome' \in {"ok", "closed"}
      /\ outcome' = "ok" => has_more_packets'
  BY DEF Open
<1>2. SourceStatus # "reading"
  BY <1>1 DEF SourceStatus
<1>3. CASE outcome' = "ok" /\ ~Stale'
  <2>1. SourceStatus' = "open" /\ SourceGiven' = <<>>
    BY <1>1, <1>3 DEF SourceStatus, SourceGiven, IsFinished
  <2>. QED  BY <1>1, <1>2, <2>1 DEF Source!SourceNext, Source!Open
<1>4. CASE ~(outcome' = "ok" /\ ~Stale')
  <2>1. SourceStatus' = "closed" /\ SourceGiven' = <<>>
    BY <1>1, <1>4 DEF SourceStatus, SourceGiven
  <2>. QED  BY <1>1, <1>2, <2>1 DEF Source!SourceNext, Source!OpenFails
<1>. QED  BY <1>3, <1>4

\* What was given is the beginning of the file.
Begins(g, a) == \E t \in Samples : a = g \o t

LEMMA PartsBegin ==
    ASSUME NEW g \in Samples, NEW h \in Samples, NEW c \in Samples, NEW d \in Samples,
           NEW e \in Samples, NEW r \in Samples
    PROVE  Begins(g, Parts(g, h, c, d, e, r))
<1>. DEFINE t2 == h \o c
            t3 == t2 \o d
            t4 == t3 \o e
            t5 == t4 \o r
<1>1. t2 \in Samples /\ Three(g, h, c)
  BY Joined, JoinedThree
<1>. HIDE DEF t2
<1>2. t3 \in Samples /\ Three(g, t2, d)
  BY <1>1, Joined, JoinedThree
<1>. HIDE DEF t3
<1>3. t4 \in Samples /\ Three(g, t3, e)
  BY <1>2, Joined, JoinedThree
<1>. HIDE DEF t4
<1>4. t5 \in Samples /\ Three(g, t4, r)
  BY <1>3, Joined, JoinedThree
<1>. HIDE DEF t5
<1>5. /\ (g \o h) \o c = g \o t2 /\ (g \o t2) \o d = g \o t3
      /\ (g \o t3) \o e = g \o t4 /\ (g \o t4) \o r = g \o t5
  BY <1>1, <1>2, <1>3, <1>4 DEF Three, t2, t3, t4, t5
<1>6. Parts(g, h, c, d, e, r) = g \o t5
  BY <1>5 DEF Parts
<1>. QED  BY <1>4, <1>6 DEF Begins

LEMMA BeginIs ==
    ASSUME NEW g \in Samples, NEW t \in Samples
    PROVE  /\ SubSeq(g \o t, 1, Len(g)) = g
           /\ Len(g) \in Nat /\ Len(g \o t) \in Nat /\ Len(g) <= Len(g \o t)
<1>1. g \in Seq(Nat) /\ t \in Seq(Nat) /\ g \o t \in Seq(Nat)
  BY Joined DEF Samples
<1>2. Len(g) \in Nat /\ Len(t) \in Nat /\ Len(g \o t) = Len(g) + Len(t)
  BY <1>1
<1>3. \A i \in 1 .. Len(g) : (g \o t)[i] = g[i]
  BY <1>1
<1>4. SubSeq(g \o t, 1, Len(g)) = g
  <2>1. /\ SubSeq(g \o t, 1, Len(g)) \in Seq(Nat)
        /\ Len(SubSeq(g \o t, 1, Len(g))) = Len(g)
        /\ \A i \in 1 .. Len(g) : SubSeq(g \o t, 1, Len(g))[i] = (g \o t)[i]
    BY <1>1, <1>2
  <2>. QED  BY <1>1, <1>3, <2>1, SeqEqual
<1>. QED  BY <1>2, <1>4

\* A call of Read that comes to its end.
LEMMA ReturnSource ==
    ASSUME IInv, IInv', Convert, ~Stale
    PROVE  Source!SourceNext
<1>1. /\ pc = "convert" /\ pc' = "idle" /\ outcome = "ok" /\ outcome' = "ok"
      /\ UNCHANGED <<file, packet, position, decoder, has_more_packets, has_more_frames>>
  BY DEF Convert, opening, IInv, PhaseInv
<1>2. Converted
  BY ConvertIs
<1>3. ~Stale' /\ (IsFinished' <=> IsFinished)
  BY <1>1, <1>2 DEF Converted, Stale, IsFinished
<1>4. /\ SourceStatus = "reading" /\ SourceStatus' \in {"open", "finished"}
      /\ SourceStatus' = "finished" => IsFinished
      /\ SourceGiven = given /\ SourceGiven' = given'
  BY <1>1, <1>3 DEF SourceStatus, SourceGiven
<1>. DEFINE a == Audio(file)
            g == given'
<1>5. Parts(g, converter'.held, <<>>, SamplesOf(decoder), SamplesOf(packet),
            Rest(file, position)) = a
  <2>1. Kept
    BY <1>1 DEF IInv, NothingLost, Kept, Parts, InFrame, Rest
  <2>2. InFrame = frame.samples
    BY <1>1 DEF InFrame
  <2>. QED  BY <1>2, <2>1, <2>2 DEF Converted, Kept
<1>6. /\ g \in Samples /\ converter'.held \in Samples /\ <<>> \in Samples
      /\ SamplesOf(decoder) \in Samples /\ SamplesOf(packet) \in Samples
      /\ Rest(file, position) \in Samples
  <2>1. converter'.held \in Samples
    BY <1>2 DEF Converted, ConverterSet, Samples
  <2>. QED  BY <1>2, <2>1, PartsTyped, JoinedNone DEF IInv, Converted
<1>7. given \in Samples /\ Len(given) \in Nat /\ Len(given) <= Len(g)
  BY <1>2, PartsTyped DEF IInv, Converted, Samples
<1>. HIDE DEF a, g
<1>8. PICK t \in Samples : a = g \o t
  <2>. DEFINE h == converter'.held
              d == SamplesOf(decoder)
              e == SamplesOf(packet)
              r == Rest(file, position)
              none == <<>>
  <2>1. h \in Samples /\ d \in Samples /\ e \in Samples /\ r \in Samples /\ none \in Samples
    BY <1>6
  <2>2. a = Parts(g, h, none, d, e, r)
    BY <1>5
  <2>. HIDE DEF h, d, e, r, none
  <2>3. Begins(g, Parts(g, h, none, d, e, r))
    BY <1>6, <2>1, PartsBegin
  <2>. QED  BY <2>2, <2>3 DEF Begins
<1>9. g = SubSeq(a, 1, Len(g)) /\ Len(g) \in Nat /\ Len(a) \in Nat /\ Len(g) <= Len(a)
  BY <1>6, <1>8, BeginIs
<1>10. ASSUME IsFinished, Whole(file) PROVE g = a
  <2>1. converter'.held = <<>>
    BY <1>2, <1>10 DEF Converted
  <2>2. position = Len(file.packets) /\ ~Due /\ packet = <<>>
    BY <1>1, <1>10 DEF IsFinished, IInv, EndInv, PhaseInv
  <2>3. decoder = <<>>
    <3>1. decoder \in Seq(FrameSet) /\ file.delay = 0
      BY <1>10 DEF IInv, TypeInv, Whole
    <3>. QED  BY <2>2, <3>1 DEF Due
  <2>4. Rest(file, position) = <<>>
    BY SMTT(30), <2>2, RestOf DEF IInv, TypeInv
  <2>5. Parts(g, <<>>, <<>>, <<>>, <<>>, <<>>) = g
    BY <1>6, JoinedNone DEF Parts
  <2>. QED  BY <1>5, <2>1, <2>2, <2>3, <2>4, <2>5, SamplesOfNone
<1>. DEFINE n == Len(g) - Len(given)
<1>11. n \in 0 .. Len(a) /\ n <= Len(a) - Len(given) /\ Len(given) + n = Len(g)
  BY <1>7, <1>9
<1>. HIDE DEF n
<1>12. Source!Return(n)
  <2>1. SourceGiven' = SubSeq(Audio(file), 1, Len(SourceGiven) + n)
    BY <1>4, <1>9, <1>11 DEF a, g
  <2>2. n <= Len(Audio(file)) - Len(SourceGiven)
    BY <1>4, <1>11 DEF a
  <2>3. SourceStatus' = "finished" /\ Whole(file) => SourceGiven' = Audio(file)
    BY <1>4, <1>10 DEF a, g
  <2>. QED  BY <1>1, <1>4, <2>1, <2>2, <2>3 DEF Source!Return
<1>. QED  BY <1>11, <1>12 DEF Source!SourceNext, a

LEMMA StepSource ==
    IInv /\ IInv' /\ [Next]_vars => [Source!SourceNext]_(Source!sourceVars)
<1>. SUFFICES ASSUME IInv, IInv', [Next]_vars
              PROVE  Source!SourceNext \/ UNCHANGED <<SourceStatus, file, SourceGiven>>
  BY DEF Source!sourceVars
<1>1. CASE \E f \in Files, done \in 0 .. Len(OpenCalls) : Open(f, done)
  BY <1>1, OpenSource
<1>2. CASE Read
  <2>1. /\ pc = "idle" /\ pc' = "send" /\ outcome = "ok" /\ outcome' = "ok" /\ ~IsFinished
        /\ UNCHANGED <<file, converter, given>>
    BY <1>2 DEF Read, opening
  <2>2. Stale' = Stale
    BY <2>1 DEF Stale
  <2>3. CASE Stale
    BY <2>1, <2>2, <2>3 DEF SourceStatus, SourceGiven
  <2>4. CASE ~Stale
    <3>1. SourceStatus = "open" /\ SourceStatus' = "reading" /\ SourceGiven' = SourceGiven
      BY <2>1, <2>2, <2>4 DEF SourceStatus, SourceGiven
    <3>. QED  BY <2>1, <3>1 DEF Source!SourceNext, Source!Read
  <2>. QED  BY <2>3, <2>4
<1>3. CASE ReadPacket \/ Send \/ Receive
  <2>1. /\ pc # "idle" /\ pc' # "idle" /\ outcome' = outcome
        /\ UNCHANGED <<file, converter, given>>
    BY <1>3 DEF ReadPacket, Send, Receive, opening
  <2>2. Stale' = Stale
    BY <2>1 DEF Stale
  <2>. QED  BY <2>1, <2>2 DEF SourceStatus, SourceGiven
<1>4. CASE Convert /\ Stale
  <2>1. Stale' /\ file' = file
    BY <1>4, ConvertIs DEF Convert, opening, Converted, Stale
  <2>. QED  BY <1>4, <2>1 DEF SourceStatus, SourceGiven
<1>5. CASE Convert /\ ~Stale
  BY <1>5, ReturnSource
<1>6. CASE ReadingFails
  <2>1. /\ pc # "idle" /\ pc' = "idle" /\ outcome' = "failed"
        /\ UNCHANGED <<file, converter, given>>
    BY <1>6 DEF ReadingFails, ReadPacketFails, SendFails, ReceiveFails, ConvertFails,
                Failed, opening
  <2>2. outcome = "ok" /\ Stale' = Stale
    BY <2>1 DEF IInv, PhaseInv, Stale
  <2>3. CASE Stale
    BY <2>1, <2>2, <2>3 DEF SourceStatus, SourceGiven
  <2>4. CASE ~Stale
    <3>1. SourceStatus = "reading" /\ SourceStatus' = "failed" /\ SourceGiven' = SourceGiven
      BY <2>1, <2>2, <2>4 DEF SourceStatus, SourceGiven
    <3>. QED  BY <2>1, <3>1 DEF Source!SourceNext, Source!Fail
  <2>. QED  BY <2>3, <2>4
<1>7. CASE UNCHANGED vars
  BY <1>7 DEF vars, opening, SourceStatus, SourceGiven, Stale, IsFinished
<1>. QED  BY <1>1, <1>2, <1>3, <1>4, <1>5, <1>6, <1>7 DEF Next, Reading

\* The safety part of ImplementsSource: every step of the reader is one of
\* AudioSource, or changes nothing that a user of the reader sees.
THEOREM ImplementsAudioSource ==
    Spec => Source!SourceInit /\ [][Source!SourceNext]_(Source!sourceVars)
BY InitSource, Invariance, StepSource, PTL DEF Spec
=============================================================================
