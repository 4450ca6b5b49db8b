------------------------------- MODULE PowHash -------------------------------
(***************************************************************************)
(* The proof-of-work hash of a header (civiclight.c): SHA-256 twice, then  *)
(* the old algorithm or, from the activation time on, the one with         *)
(* yespower; alone, from a midstate, and for two headers at a time with    *)
(* hand-padded blocks.  yespower is any function of 32 bytes here: that    *)
(* its two lanes agree with it is YespowerLanes' subject.                  *)
(***************************************************************************)
EXTENDS Pbkdf2

CONSTANTS Headers,     \* the headers hashed, 80 bytes each
          Yespower(_)  \* the 32 bytes of a hash

ASSUME HeadersAssumption == \A h \in Headers : h \in Seq(0..255) /\ Len(h) = 80

VARIABLES powIn,       \* the two headers hashed
          powOut       \* the hashes by every path, empty before

powvars == <<powIn, powOut>>

CIVICLIGHT_V2_ACTIVATION_TIME == 1784797200

sha256d_local(m) == sha256_full(sha256_full(m))

\* A block padded by hand: one compression for each of the two lanes
Transform2(st0, st1, blk0, blk1) == <<Digest(Compress(st0, blk0)), Digest(Compress(st1, blk1))>>
sha256_32_2way(in0, in1) ==
    LET blk(in) == in \o [k \in 1..32 |-> CASE k = 1 -> 128 [] k = 31 -> 1 [] OTHER -> 0]
    IN  Transform2(Iv, Iv, blk(in0), blk(in1))
sha256d_80_2way_midstate(h0, h1, mid) ==
    LET blk(h) == SubSeq(h, 65, 80)
                    \o [k \in 1..48 |-> CASE k = 1 -> 128 [] k = 47 -> 2 [] k = 48 -> 128 [] OTHER -> 0]
        d == Transform2(mid.state, mid.state, blk(h0), blk(h1))
    IN  sha256_32_2way(d[1], d[2])
sha256d_80_midstate(h, mid) ==
    sha256_full(sha256_final(sha256_update(mid, SubSeq(h, 65, 80))))

civiclight_core_v1(in) ==
    LET hash1 == sha256_full(in) IN sha256_full(Tuple([k \in 1..32 |-> XorByte(hash1[k], 90)]))
civiclight_core_v2(in) ==
    LET hash1 == sha256_full(in) IN sha256_full(XorBytes(Yespower(hash1), hash1))
civiclight_core_v2_2way(in0, in1) ==
    LET hash1 == sha256_32_2way(in0, in1)
    IN  sha256_32_2way(XorBytes(Yespower(hash1[1]), hash1[1]), XorBytes(Yespower(hash1[2]), hash1[2]))

\* nTime: bytes 68 to 71, the lowest first
extract_ntime(h) == h[69] + 256 * h[70] + 65536 * h[71] + 16777216 * h[72]
IsV2(h) == extract_ntime(h) >= CIVICLIGHT_V2_ACTIVATION_TIME
Core(h, in) == IF IsV2(h) THEN civiclight_core_v2(in) ELSE civiclight_core_v1(in)

civiclight_powhash(h) == Core(h, sha256d_local(h))
civiclight_powhash_from_midstate(h, mid) == Core(h, sha256d_80_midstate(h, mid))
civiclight_powhash_2way_midstate_First(h0, h1, mid) ==
    LET i == sha256d_80_2way_midstate(h0, h1, mid)
    IN  IF IsV2(h0) THEN civiclight_core_v2_2way(i[1], i[2])
        ELSE <<Core(h0, i[1]), Core(h1, i[2])>>
civiclight_powhash_2way_midstate(h0, h1, mid) ==
    LET i == sha256d_80_2way_midstate(h0, h1, mid)
    IN  IF IsV2(h0) /\ IsV2(h1) THEN civiclight_core_v2_2way(i[1], i[2])
        ELSE <<Core(h0, i[1]), Core(h1, i[2])>>
Midstate(h) == sha256_update(sha256_ctx_init, SubSeq(h, 1, 64))
civiclight_hash_2way(h0, h1) ==
    IF SubSeq(h0, 1, 64) # SubSeq(h1, 1, 64)
    THEN <<civiclight_powhash(h0), civiclight_powhash(h1)>>
    ELSE civiclight_powhash_2way_midstate(h0, h1, Midstate(h0))

---------------------------------------------------------------------------
PowInit == powIn \in Headers \X Headers /\ powOut = <<>>

PowHashes ==
    /\ powOut = <<>>
    /\ powOut' = LET h0 == powIn[1]    h1 == powIn[2] IN
                 [two |-> civiclight_hash_2way(h0, h1),
                  one |-> <<civiclight_powhash(h0), civiclight_powhash(h1)>>,
                  mid |-> <<civiclight_powhash_from_midstate(h0, Midstate(h0)),
                            civiclight_powhash_from_midstate(h1, Midstate(h1))>>]
    /\ UNCHANGED powIn
PowSpec == PowInit /\ [][PowHashes]_powvars

---------------------------------------------------------------------------
(* Two headers hashed at a time have the hashes each has alone and from a  *)
(* midstate, and those are the algorithm's by its own definition: also     *)
(* when only one of them is past the activation time, and when their first *)
(* blocks differ.                                                          *)
PathsAgree ==
    powOut # <<>> =>
        /\ powOut.two = powOut.one /\ powOut.mid = powOut.one
        /\ \A k \in 1..2 :
              LET d == Sha(Sha(Sha(powIn[k])))
              IN  powOut.one[k] = Sha(IF IsV2(powIn[k]) THEN XorBytes(Yespower(d), d)
                                      ELSE Tuple([j \in 1..32 |-> XorByte(d[j], 90)]))
=============================================================================
