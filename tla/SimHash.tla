-------------------------------- MODULE SimHash --------------------------------
(***************************************************************************)
(* src/src/simhash.cpp, and the calls of the C API that read the           *)
(* fingerprint of a context: raw, encoded, or hashed.  An item is the set  *)
(* of its one bits.                                                        *)
(***************************************************************************)
EXTENDS FingerprintCodec

\* In how many items each bit is one.
Counts(fingerprint) ==
    [b \in 0 .. 31 |-> Cardinality({i \in DOMAIN fingerprint : b \in fingerprint[i]})]

\* threshold, of which only more than so many ones make a one
HalfRoundedUp(size) == (size + 1) \div 2
Half(size) == size \div 2

SimHash(fingerprint) ==
    {b \in 0 .. 31 : Counts(fingerprint)[b] > Half(Len(fingerprint))}

\* chromaprint_get_fingerprint, _get_raw_fingerprint, _get_raw_fingerprint_size
\* and _get_fingerprint_hash of a context that holds this fingerprint.
GetFingerprint(fingerprint, algorithm) == Base64Encode(Compress(fingerprint, algorithm))
GetRawFingerprint(fingerprint) == fingerprint
GetRawFingerprintSize(fingerprint) == Len(fingerprint)
GetFingerprintHash(fingerprint) == IF fingerprint = <<>> THEN {} ELSE SimHash(fingerprint)

\* chromaprint_hash_fingerprint
HashFingerprint(fingerprint) == SimHash(fingerprint)

-----------------------------------------------------------------------------
\* The bits that are one in more items than they are zero in.
Majority(fingerprint) ==
    {b \in 0 .. 31 :
        Cardinality({i \in DOMAIN fingerprint : b \in fingerprint[i]})
            > Cardinality({i \in DOMAIN fingerprint : b \notin fingerprint[i]})}

\* The hash of a context is the majority of its items, bit by bit: a tie is a
\* zero, also where half of an odd size was rounded down.  The raw items and
\* those decoded from the encoded fingerprint have the same hash and number.
ViewsAgree(fingerprint, algorithm) ==
    LET decoded == Decode(GetFingerprint(fingerprint, algorithm), TRUE)
    IN /\ GetFingerprintHash(fingerprint) = Majority(fingerprint)
       /\ HashFingerprint(decoded.fingerprint) = HashFingerprint(GetRawFingerprint(fingerprint))
       /\ HashFingerprint(decoded.fingerprint) = Majority(fingerprint)
       /\ decoded.size = GetRawFingerprintSize(fingerprint)
=============================================================================
