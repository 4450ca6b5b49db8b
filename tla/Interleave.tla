----------------------------- MODULE Interleave -----------------------------
(***************************************************************************)
(* simd-utils/intrlv.h: interleaving the data of 2 to 16 hash lanes for    *)
(* vector code, re-interleaving it between widths, taking lanes out again, *)
(* and broadcasting a byte-swapped block header.  A word is 32 bits and is *)
(* an identity (its lane and index), so that a buffer tells where every    *)
(* word of it came from.  A buffer is a sequence of words, a vector four   *)
(* (or eight) of them; the unrolled copies of the source are groups, one   *)
(* per 128 bits of a lane.                                                 *)
(***************************************************************************)
EXTENDS Integers, Sequences, SequencesExt

CONSTANT Sizes        \* bit_len of the lanes

VARIABLES ilvArch, ilvBits, ilvLay, ilvSrc, ilvBufs, ilvOut, ilvGood
ilvVars == << ilvArch, ilvBits, ilvLay, ilvSrc, ilvBufs, ilvOut, ilvGood >>

Junk == << -1, -1 >>
Lane(l) == [i \in 1..40 |-> << l, i - 1 >>]
Swap(word) == << word[1] + 100, word[2] >>
Header == [i \in 1..20 |-> << 50, i - 1 >>]
SwapAll(v) == [i \in DOMAIN v |-> Swap(v[i])]

\* The i-th vector of width words of a buffer; reading on is reading junk
Vec(b, i, width) == [c \in 1..width |-> IF i * width + c \in DOMAIN b THEN b[i * width + c] ELSE Junk]
V(b, i) == Vec(b, i, 4)

unpacklo32(a, b) == << a[1], b[1], a[2], b[2] >>
unpackhi32(a, b) == << a[3], b[3], a[4], b[4] >>
unpacklo64(a, b) == << a[1], a[2], b[1], b[2] >>
unpackhi64(a, b) == << a[3], a[4], b[3], b[4] >>
shuffle2_32(a, b, c) == IF c = 136 THEN << a[1], a[3], b[1], b[3] >> ELSE << a[2], a[4], b[2], b[4] >>
\* 256-bit unpacks work in each 128-bit half; unpack128 takes halves
Halves(Op(_, _), a, b) == Op(V(a, 0), V(b, 0)) \o Op(V(a, 1), V(b, 1))
unpacklo128(a, b) == V(a, 0) \o V(b, 0)
unpackhi128(a, b) == V(a, 1) \o V(b, 1)

\* count groups of vectors, one after the other
Groups(count, G(_)) == FlattenSeq([g \in 1..count |-> FlattenSeq(G(g - 1))])
\* the places at which a function looks at bit_len
Blocks(b) == IF b <= 256 THEN 2 ELSE IF b <= 512 THEN 4 ELSE IF b <= 640 THEN 5 ELSE 8
WideBlocks(b) == IF b <= 1024 THEN Blocks(b) ELSE 10
NoCut(b) == IF b <= 256 THEN 2 ELSE IF b <= 512 THEN 4 ELSE 8

---------------------------------------------------------------------------
\* Copies of single words, 64-bit pairs or vectors: row after row of lanes
Weave(lanes, width, count) == Groups(count, LAMBDA g : [l \in DOMAIN lanes |-> Vec(lanes[l], g, width)])
Unweave(b, n, width, count) == [l \in 1..n |-> Groups(count, LAMBDA g : << Vec(b, n * g + l - 1, width) >>)]

ILEAVE_4x32_NoHigh(S) ==
    LET T == unpacklo32(S[1], S[2])   S0 == unpackhi32(S[1], S[2])
        S1 == unpacklo32(S[3], S[4])  S2 == unpacklo32(S[3], S[4])
    IN  << unpacklo64(T, S1), unpackhi64(T, S1), unpacklo64(S0, S2), unpackhi64(S0, S2) >>
ILEAVE_4x32(S) ==
    LET T == unpacklo32(S[1], S[2])   S0 == unpackhi32(S[1], S[2])
        S1 == unpacklo32(S[3], S[4])  S2 == unpackhi32(S[3], S[4])
    IN  << unpacklo64(T, S1), unpackhi64(T, S1), unpacklo64(S0, S2), unpackhi64(S0, S2) >>
Unpacked32(S) == [i \in 1..4 |-> << Halves(unpacklo32, S[2 * i - 1], S[2 * i]), Halves(unpackhi32, S[2 * i - 1], S[2 * i]) >>]
Unpacked64(P) == [i \in 1..2 |-> [k \in 1..4 |->
    LET v == P[2 * i - 1][(k + 1) \div 2]    w == P[2 * i][(k + 1) \div 2]
    IN  IF k % 2 = 1 THEN Halves(unpacklo64, v, w) ELSE Halves(unpackhi64, v, w)]]
Unpacked128(Q) == [k \in 1..4 |-> << unpacklo128(Q[1][k], Q[2][k]), unpackhi128(Q[1][k], Q[2][k]) >>]
ILEAVE_8x32(S) == FlattenSeq(Unpacked128(Unpacked64(Unpacked32(S))))

\* One block of lanes f+1..f+4, and of every step-th vector of a buffer
Quad(lanes, f, g) == ILEAVE_4x32([l \in 1..4 |-> V(lanes[f + l], g)])
QuadOf(b, from, step) == ILEAVE_4x32([l \in 1..4 |-> V(b, from + (l - 1) * step)])
\* Eight and sixteen lanes: quads of lanes, their rows next to each other
Quads(lanes, g) == LET q == [f \in 1..(Len(lanes) \div 4) |-> Quad(lanes, 4 * (f - 1), g)]
                   IN  [p \in 1..Len(lanes) |-> q[((p - 1) % Len(q)) + 1][((p - 1) \div Len(q)) + 1]]
QuadsBack(b, n, count) ==
    [l \in 1..n |-> Groups(count, LAMBDA g : << QuadOf(b, n * g + ((l - 1) \div 4), n \div 4)[((l - 1) % 4) + 1] >>)]
\* STOR_DEST_8x32 in the order dst 0, 4, 1, 5, 2, 6, 3, 7
Stored(D) == << D[1], D[3], D[5], D[7], D[2], D[4], D[6], D[8] >>

intrlv_2x32(lanes, b) == Weave(lanes, 1, 4 * Blocks(b))
dintrlv_2x32(x, b) == Unweave(x, 2, 1, 4 * Blocks(b))
intrlv_4x32(lanes, b) == Groups(Blocks(b), LAMBDA g : Quad(lanes, 0, g))
intrlv_4x32_512(lanes) == Groups(4, LAMBDA g : Quad(lanes, 0, g))
dintrlv_4x32(x, b) == QuadsBack(x, 4, Blocks(b))
dintrlv_4x32_512(x) == QuadsBack(x, 4, 4)
\* vst4q_u32 and vld4q_u32 store and load four vectors word by word
vst4q_u32(v) == [i \in 1..4 |-> << v[1][i], v[2][i], v[3][i], v[4][i] >>]
neon_intrlv_4x32(lanes, b) == Groups(Blocks(b), LAMBDA g : vst4q_u32([l \in 1..4 |-> V(lanes[l], g)]))
neon_intrlv_4x32_512(lanes) == Groups(4, LAMBDA g : vst4q_u32([l \in 1..4 |-> V(lanes[l], g)]))
\* the last block is stored over the one before it
neon_dintrlv_4x32(x, b) ==
    LET d == Unweave(x, 4, 1, 4 * Blocks(b))
    IN  IF b <= 640 THEN d ELSE [l \in 1..4 |-> SubSeq(d[l], 1, 24) \o SubSeq(d[l], 29, 32)]
neon_dintrlv_4x32_512(x) == Unweave(x, 4, 1, 16)
scalar_intrlv_4x32(lanes, b) == Weave(lanes, 1, 4 * Blocks(b))
scalar_intrlv_4x32_512(lanes) == Weave(lanes, 1, 16)
scalar_dintrlv_4x32(x, b) == Unweave(x, 4, 1, 4 * Blocks(b))
scalar_dintrlv_4x32_512(x) == Unweave(x, 4, 1, 16)

intrlv_8x32_256(lanes) == FlattenSeq(Stored(ILEAVE_8x32([l \in 1..8 |-> Vec(lanes[l], 0, 8)])))
intrlv_8x32_512(lanes) == Groups(2, LAMBDA g : Stored(ILEAVE_8x32([l \in 1..8 |-> Vec(lanes[l], g, 8)])))
dintrlv_8x32_256(x) == Stored(ILEAVE_8x32([l \in 1..8 |-> Vec(x, l - 1, 8)]))
Joined(D) == [l \in 1..8 |-> D[1][l] \o D[2][l]]
dintrlv_8x32_512(x) == Joined([g \in 1..2 |-> Stored(ILEAVE_8x32([l \in 1..8 |-> Vec(x, 8 * g + l - 9, 8)]))])
intrlv_8x32(lanes, b) == Groups(Blocks(b), LAMBDA g : Quads(lanes, g))
dintrlv_8x32(x, b) == QuadsBack(x, 8, Blocks(b))
intrlv_16x32(lanes, b) == Groups(Blocks(b), LAMBDA g : Quads(lanes, g))
intrlv_16x32_512(lanes) == Groups(4, LAMBDA g : Quads(lanes, g))
dintrlv_16x32(x, b) == QuadsBack(x, 16, Blocks(b))
dintrlv_16x32_512(x) == QuadsBack(x, 16, 4)

\* 64-bit lanes: the low halves of all pairs of lanes, then the high ones
WordPairs(lanes, g) ==
    LET n == Len(lanes) \div 2
        P(Op(_, _)) == [p \in 1..n |-> Op(V(lanes[2 * p - 1], g), V(lanes[2 * p], g))]
    IN  P(unpacklo64) \o P(unpackhi64)
PairOf_Low(x, n, l, g) ==
    LET i == n * g + ((l - 1) \div 2) IN unpacklo64(V(x, i), V(x, i + (n \div 2)))
PairOf(x, n, l, g) ==
    LET i == n * g + ((l - 1) \div 2)
        Op(a, b) == IF l % 2 = 1 THEN unpacklo64(a, b) ELSE unpackhi64(a, b)
    IN  Op(V(x, i), V(x, i + (n \div 2)))
PairsBack(x, n, count) == [l \in 1..n |-> Groups(count, LAMBDA g : << PairOf(x, n, l, g) >>)]
intrlv_2x64(lanes, b) == Groups(Blocks(b), LAMBDA g : WordPairs(lanes, g))
dintrlv_2x64(x, b) == PairsBack(x, 2, Blocks(b))
neon_intrlv_2x64(lanes, b) == Weave(lanes, 2, 2 * Blocks(b))
neon_dintrlv_2x64(x, b) == Unweave(x, 2, 2, 2 * Blocks(b))
scalar_intrlv_2x64(lanes, b) == Weave(lanes, 2, 2 * Blocks(b))
scalar_dintrlv_2x64(x, b) == Unweave(x, 2, 2, 2 * Blocks(b))
intrlv_4x64(lanes, b) == Groups(Blocks(b), LAMBDA g : WordPairs(lanes, g))
intrlv_4x64_512(lanes) == Groups(4, LAMBDA g : WordPairs(lanes, g))
dintrlv_4x64(x, b) == PairsBack(x, 4, Blocks(b))
dintrlv_4x64_512(x) == PairsBack(x, 4, 4)
intrlv_8x64(lanes, b) == Groups(Blocks(b), LAMBDA g : WordPairs(lanes, g))
intrlv_8x64_512(lanes) == Groups(4, LAMBDA g : WordPairs(lanes, g))
dintrlv_8x64(x, b) == PairsBack(x, 8, Blocks(b))
dintrlv_8x64_512(x) == PairsBack(x, 8, 4)

intrlv_2x128(lanes, b) == Weave(lanes, 4, WideBlocks(b))
intrlv_2x128_512(lanes) == Weave(lanes, 4, 4)
dintrlv_2x128(x, b) == Unweave(x, 2, 4, Blocks(b))
dintrlv_2x128_512(x) == Unweave(x, 2, 4, 4)
intrlv_4x128(lanes, b) == Weave(lanes, 4, WideBlocks(b))
intrlv_4x128_512(lanes) == Weave(lanes, 4, 4)
dintrlv_4x128(x, b) == Unweave(x, 4, 4, Blocks(b))
dintrlv_4x128_512(x) == Unweave(x, 4, 4, 4)
\* at 640 bits the third vector of the second lane is left out
intrlv_2x256(lanes, b) ==
    IF b <= 512 THEN Weave(lanes, 8, Blocks(b) \div 2)
    ELSE IF b <= 640 THEN Weave(lanes, 8, 2) \o Vec(lanes[1], 2, 8)
    ELSE Weave(lanes, 8, 4)
dintrlv_2x256(x, b) == Unweave(x, 2, 8, NoCut(b) \div 2)

\* extr_lane_*: at most 512 bits of one lane (counted from 0)
Strided(x, n, width, lane, b) ==
    FlattenSeq([i \in 1..((IF b <= 256 THEN 8 ELSE 16) \div width) |-> Vec(x, lane + n * (i - 1), width)])
extr_lane_2x32(x, lane, b) == Strided(x, 2, 1, lane, b)
extr_lane_4x32(x, lane, b) == Strided(x, 4, 1, lane, b)
extr_lane_8x32(x, lane, b) == Strided(x, 8, 1, lane, b)
extr_lane_16x32(x, lane, b) == Strided(x, 16, 1, lane, b)
extr_lane_2x64(x, lane, b) == Strided(x, 2, 2, lane, b)
extr_lane_4x64(x, lane, b) == Groups(IF b <= 256 THEN 2 ELSE 4, LAMBDA g : << PairOf(x, 4, lane + 1, g) >>)
extr_lane_8x64(x, lane, b) == Groups(IF b <= 256 THEN 2 ELSE 4, LAMBDA g : << PairOf(x, 8, lane + 1, g) >>)

---------------------------------------------------------------------------
\* Re-interleaving
Shuffles(x, a, b) == << shuffle2_32(V(x, a), V(x, b), 136), shuffle2_32(V(x, a), V(x, b), 221) >>
Unpacks(x, a, b) == << unpacklo32(V(x, a), V(x, b)), unpackhi32(V(x, a), V(x, b)) >>
Turned(x, a, b) == << unpacklo64(V(x, a), V(x, b)), unpackhi64(V(x, a), V(x, b)) >>

rintrlv_4x64_4x32(x, b) == Groups(2 * NoCut(b), LAMBDA g : Shuffles(x, 2 * g, 2 * g + 1))
rintrlv_8x64_8x32(x, b) ==
    Groups(2 * NoCut(b), LAMBDA g : LET p == Shuffles(x, 4 * g, 4 * g + 1)
                                        q == Shuffles(x, 4 * g + 2, 4 * g + 3)
                                    IN  << p[1], q[1], p[2], q[2] >>)
rintrlv_4x32_4x64(x, b) == Groups(2 * Blocks(b), LAMBDA g : Unpacks(x, 2 * g, 2 * g + 1))
rintrlv_8x32_8x64(x, b) ==
    Groups(2 * Blocks(b), LAMBDA g : Unpacks(x, 4 * g, 4 * g + 2) \o Unpacks(x, 4 * g + 1, 4 * g + 3))
RLEAVE_8X32_4X128(x, g, half) ==
    [l \in 1..4 |-> [i \in 1..4 |-> Vec(x, 32 * g + 8 * (i - 1) + 4 * half + l - 1, 1)[1]]]
rintrlv_8x32_4x128(x, b) == [h \in 1..2 |-> Groups(Blocks(b), LAMBDA g : RLEAVE_8X32_4X128(x, g, h - 1))]
rintrlv_2x128_4x64(xs, b) ==
    Groups(Blocks(b), LAMBDA g : LET p == Turned(xs[1], 2 * g, 2 * g + 1)
                                     q == Turned(xs[2], 2 * g, 2 * g + 1)
                                 IN  << p[1], q[1], p[2], q[2] >>)
rintrlv_4x64_2x128(x, b) ==
    [h \in 1..2 |-> Groups(Blocks(b), LAMBDA g : Turned(x, 4 * g + h - 1, 4 * g + h + 1))]
rintrlv_4x128_8x64(xs, b) ==
    Groups(Blocks(b), LAMBDA g : LET T(j, i) == Turned(xs[j], 4 * g + i, 4 * g + i + 1)
                                     P(e) == << T(1, 0)[e], T(1, 2)[e], T(2, 0)[e], T(2, 2)[e] >>
                                 IN  P(1) \o P(2))
rintrlv_8x64_4x128(x, b) ==
    [h \in 1..2 |-> Groups(Blocks(b), LAMBDA g : LET i == 8 * g + 2 * (h - 1)
                                                 IN  Turned(x, i, i + 4) \o Turned(x, i + 1, i + 5))]
\* lanes j and j + 4 in turns of 128 bits, whatever the name says
rintrlv_8x64_2x256(x, b) ==
    [j \in 1..4 |-> Groups(Blocks(b), LAMBDA g :
        LET i == 8 * g + ((j - 1) \div 2)
            e == ((j - 1) % 2) + 1
        IN  << Turned(x, i, i + 4)[e], Turned(x, i + 2, i + 6)[e] >>)]
rintrlv_2x256_8x64(xs, b) ==
    Groups(Blocks(b), LAMBDA g : LET i == 4 * (g \div 2) + (g % 2)
                                     P(e) == [j \in 1..4 |-> Turned(xs[j], i, i + 2)[e]]
                                 IN  P(1) \o P(2))

---------------------------------------------------------------------------
\* Broadcasting an 80 byte header: every chunk of it n times.  The VBMI
\* builds swap and pick with one table of byte numbers.
Chunk(v, i, width) == SubSeq(v, i * width + 1, (i + 1) * width)
Copies(chunk, n) == FlattenSeq([l \in 1..n |-> chunk])
Spread(h, n, width) == FlattenSeq([c \in 1..(20 \div width) |-> Copies(Chunk(h, c - 1, width), n)])
permutexvar_epi8(c, v) ==
    [q \in 1..(Len(c) \div 4) |->
        LET p == c[4 * q] IN IF [i \in 1..4 |-> c[4 * (q - 1) + i]] = << p + 3, p + 2, p + 1, p >>
                             THEN Swap(v[(p \div 4) + 1]) ELSE Junk]
Picks(h, n, tables) ==
    FlattenSeq([s \in 1..5 |-> FlattenSeq([t \in DOMAIN tables |-> Copies(permutexvar_epi8(tables[t], V(h, s - 1)), n)])])
By32 == << <<3, 2, 1, 0>>, <<7, 6, 5, 4>>, <<11, 10, 9, 8>>, <<15, 14, 13, 12>> >>
By64 == << By32[1] \o By32[2], By32[3] \o By32[4] >>
By128 == << By64[1] \o By64[2] >>

v128_bswap32_80(h) == SwapAll(h)
scalar_bswap32_80(h) == [i \in 1..20 |-> Swap(h[i])]
\* the last four rows repeat the third vector
v128_bswap32_intrlv80_4x32(h) ==
    LET t == SwapAll(h) IN Spread(SubSeq(t, 1, 16) \o SubSeq(t, 9, 12), 4, 1)
mm256_bswap32_intrlv80_8x32(h) == Spread(SwapAll(h), 8, 1)
vbmi_bswap32_intrlv80_8x32(h) == Picks(h, 8, By32)
mm512_bswap32_intrlv80_16x32(h) == Spread(SwapAll(h), 16, 1)
vbmi_bswap32_intrlv80_16x32(h) == Picks(h, 16, By32)
v128_bswap32_intrlv80_2x64(h) == Spread(SwapAll(h), 2, 2)
mm256_intrlv80_4x64(h) == Spread(h, 4, 2)
mm256_bswap32_intrlv80_4x64(h) == Spread(SwapAll(h), 4, 2)
vbmi_bswap32_intrlv80_4x64(h) == Picks(h, 4, By64)
mm512_intrlv80_8x64(h) == Spread(h, 8, 2)
mm512_bswap32_intrlv80_8x64(h) == Spread(SwapAll(h), 8, 2)
vbmi_bswap32_intrlv80_8x64(h) == Picks(h, 8, By64)
mm512_bswap32_intrlv80_4x128(h) == Spread(SwapAll(h), 4, 4)
vbmi_bswap32_intrlv80_4x128(h) == Picks(h, 4, By128)

---------------------------------------------------------------------------
\* A layout: the words of a turn, and the lanes of each of its buffers
Layout1(n, width) == [width |-> width, of |-> << [l \in 1..n |-> l] >>]
Layouts ==
    [name \in {"2x32", "4x32", "8x32", "16x32", "2x64", "4x64", "8x64", "2x128", "4x128", "2x256",
               "2x128s", "4x128s", "2x256s", "far", "plain"} |->
        CASE name = "2x32" -> Layout1(2, 1)   [] name = "4x32" -> Layout1(4, 1)
          [] name = "8x32" -> Layout1(8, 1)   [] name = "16x32" -> Layout1(16, 1)
          [] name = "2x64" -> Layout1(2, 2)   [] name = "4x64" -> Layout1(4, 2)
          [] name = "8x64" -> Layout1(8, 2)   [] name = "2x128" -> Layout1(2, 4)
          [] name = "4x128" -> Layout1(4, 4)  [] name = "2x256" -> Layout1(2, 8)
          [] name = "2x128s" -> [width |-> 4, of |-> << <<1, 2>>, <<3, 4>> >>]
          [] name = "4x128s" -> [width |-> 4, of |-> << <<1, 2, 3, 4>>, <<5, 6, 7, 8>> >>]
          [] name = "2x256s" -> [width |-> 8, of |-> << <<1, 2>>, <<3, 4>>, <<5, 6>>, <<7, 8>> >>]
          [] name = "far" -> [width |-> 4, of |-> << <<1, 5>>, <<2, 6>>, <<3, 7>>, <<4, 8>> >>]
          [] name = "plain" -> Layout1(1, 4)]
LanesIn(name) == Len(FlattenSeq(Layouts[name].of))
LanesOn(of) == [l \in DOMAIN of |-> Lane(of[l])]

\* The functions a build has, by layout: with bit_len, and of one size
Interleavers(arch, name, b) ==
    LET s == LanesOn(Layouts[name].of[1])
        Each(F(_, _)) == [j \in DOMAIN Layouts[name].of |-> F(LanesOn(Layouts[name].of[j]), b)]
        At512(set) == IF b = 512 THEN set ELSE {}
    IN  CASE name = "2x32" -> {<< intrlv_2x32(s, b) >>}
          [] name = "4x32" /\ arch = "sse2" -> {<< intrlv_4x32(s, b) >>} \cup At512({<< intrlv_4x32_512(s) >>})
          [] name = "4x32" /\ arch = "neon" -> {<< neon_intrlv_4x32(s, b) >>} \cup At512({<< neon_intrlv_4x32_512(s) >>})
          [] name = "4x32" /\ arch = "scalar" -> {<< scalar_intrlv_4x32(s, b) >>} \cup At512({<< scalar_intrlv_4x32_512(s) >>})
          [] name = "2x64" /\ arch = "neon" -> {<< neon_intrlv_2x64(s, b) >>}
          [] name = "2x64" /\ arch = "scalar" -> {<< scalar_intrlv_2x64(s, b) >>}
          [] arch # "sse2" -> {}
          [] name = "8x32" -> {<< intrlv_8x32(s, b) >>} \cup At512({<< intrlv_8x32_512(s) >>})
                                \cup (IF b = 256 THEN {<< intrlv_8x32_256(s) >>} ELSE {})
          [] name = "16x32" -> {<< intrlv_16x32(s, b) >>} \cup At512({<< intrlv_16x32_512(s) >>})
          [] name = "2x64" -> {<< intrlv_2x64(s, b) >>}
          [] name = "4x64" -> {<< intrlv_4x64(s, b) >>} \cup At512({<< intrlv_4x64_512(s) >>})
          [] name = "8x64" -> {<< intrlv_8x64(s, b) >>} \cup At512({<< intrlv_8x64_512(s) >>})
          [] name = "2x128" -> {<< intrlv_2x128(s, b) >>} \cup At512({<< intrlv_2x128_512(s) >>})
          [] name = "4x128" -> {<< intrlv_4x128(s, b) >>} \cup At512({<< intrlv_4x128_512(s) >>})
          [] name = "2x256" -> {<< intrlv_2x256(s, b) >>}
          [] name = "2x128s" -> {Each(intrlv_2x128)}
          [] name = "4x128s" -> {Each(intrlv_4x128)}
          [] name = "2x256s" -> {Each(intrlv_2x256)}
          [] OTHER -> {}
Broadcasts(arch) ==
    {<< "plain", IF arch = "scalar" THEN scalar_bswap32_80(Header) ELSE v128_bswap32_80(Header) >>}
      \cup (IF arch = "scalar" THEN {} ELSE {<< "4x32", v128_bswap32_intrlv80_4x32(Header) >>,
                                             << "2x64", v128_bswap32_intrlv80_2x64(Header) >>})
      \cup (IF arch # "sse2" THEN {} ELSE
            {"8x32"} \X {mm256_bswap32_intrlv80_8x32(Header), vbmi_bswap32_intrlv80_8x32(Header)}
        \cup {"16x32"} \X {mm512_bswap32_intrlv80_16x32(Header), vbmi_bswap32_intrlv80_16x32(Header)}
        \cup {"4x64"} \X {mm256_bswap32_intrlv80_4x64(Header), vbmi_bswap32_intrlv80_4x64(Header)}
        \cup {"8x64"} \X {mm512_bswap32_intrlv80_8x64(Header), vbmi_bswap32_intrlv80_8x64(Header)}
        \cup {"4x128"} \X {mm512_bswap32_intrlv80_4x128(Header), vbmi_bswap32_intrlv80_4x128(Header)})
Reinterleavers(name, xs, b) ==
    CASE name = "4x64" -> {<< "4x32", << rintrlv_4x64_4x32(xs[1], b) >> >>, << "2x128s", rintrlv_4x64_2x128(xs[1], b) >>}
      [] name = "8x64" -> {<< "8x32", << rintrlv_8x64_8x32(xs[1], b) >> >>, << "4x128s", rintrlv_8x64_4x128(xs[1], b) >>,
                           << "far", rintrlv_8x64_2x256(xs[1], b) >>}
      [] name = "4x32" -> {<< "4x64", << rintrlv_4x32_4x64(xs[1], b) >> >>}
      [] name = "8x32" -> {<< "8x64", << rintrlv_8x32_8x64(xs[1], b) >> >>, << "4x128s", rintrlv_8x32_4x128(xs[1], b) >>}
      [] name = "2x128s" -> {<< "4x64", << rintrlv_2x128_4x64(xs, b) >> >>}
      [] name = "4x128s" -> {<< "8x64", << rintrlv_4x128_8x64(xs, b) >> >>}
      [] name = "2x256s" -> {<< "8x64", << rintrlv_2x256_8x64(xs, b) >> >>}
      [] OTHER -> {}
Deinterleavers(arch, name, x, b) ==
    LET At512(set) == IF b = 512 THEN set ELSE {}
    IN  CASE name = "2x32" -> {dintrlv_2x32(x, b)}
          [] name = "4x32" /\ arch = "sse2" -> {dintrlv_4x32(x, b)} \cup At512({dintrlv_4x32_512(x)})
          [] name = "4x32" /\ arch = "neon" -> {neon_dintrlv_4x32(x, b)} \cup At512({neon_dintrlv_4x32_512(x)})
          [] name = "4x32" -> {scalar_dintrlv_4x32(x, b)} \cup At512({scalar_dintrlv_4x32_512(x)})
          [] name = "8x32" -> {dintrlv_8x32(x, b)} \cup At512({dintrlv_8x32_512(x)})
                                \cup (IF b = 256 THEN {dintrlv_8x32_256(x)} ELSE {})
          [] name = "16x32" -> {dintrlv_16x32(x, b)} \cup At512({dintrlv_16x32_512(x)})
          [] name = "2x64" /\ arch = "neon" -> {neon_dintrlv_2x64(x, b)}
          [] name = "2x64" /\ arch = "scalar" -> {scalar_dintrlv_2x64(x, b)}
          [] name = "2x64" -> {dintrlv_2x64(x, b)}
          [] name = "4x64" -> {dintrlv_4x64(x, b)} \cup At512({dintrlv_4x64_512(x)})
          [] name = "8x64" -> {dintrlv_8x64(x, b)} \cup At512({dintrlv_8x64_512(x)})
          [] name = "2x128" -> {dintrlv_2x128(x, b)} \cup At512({dintrlv_2x128_512(x)})
          [] name = "4x128" -> {dintrlv_4x128(x, b)} \cup At512({dintrlv_4x128_512(x)})
          [] name = "2x256" -> {dintrlv_2x256(x, b)}
          [] OTHER -> {}
Extracted(name, x, lane, b) ==
    CASE name = "2x32" -> extr_lane_2x32(x, lane, b)   [] name = "4x32" -> extr_lane_4x32(x, lane, b)
      [] name = "8x32" -> extr_lane_8x32(x, lane, b)   [] name = "16x32" -> extr_lane_16x32(x, lane, b)
      [] name = "2x64" -> extr_lane_2x64(x, lane, b)   [] name = "4x64" -> extr_lane_4x64(x, lane, b)
      [] name = "8x64" -> extr_lane_8x64(x, lane, b)

---------------------------------------------------------------------------
IlvInit ==
    /\ ilvArch \in {"sse2", "neon", "scalar"} /\ ilvBits \in Sizes /\ ilvLay = "none"
    /\ ilvSrc = << >> /\ ilvBufs = << >> /\ ilvOut = << >> /\ ilvGood = 0

IntrlvLanes ==
    /\ ilvLay = "none"
    /\ \E name \in DOMAIN Layouts : \E bufs \in Interleavers(ilvArch, name, ilvBits) :
         /\ ilvLay' = name /\ ilvBufs' = bufs /\ ilvSrc' = [l \in 1..LanesIn(name) |-> Lane(l)]
         /\ ilvBits > 1024 => Layouts[name].width = 4
         /\ ilvGood' = IF Layouts[name].width = 8 /\ ilvBits = 640 THEN 16 ELSE 4 * WideBlocks(ilvBits)
    /\ UNCHANGED << ilvArch, ilvBits, ilvOut >>

\* An 80 byte header to all lanes, swapped or (the mm*_intrlv80 pair) as it is
Broadcast ==
    /\ ilvLay = "none" /\ ilvBits = 640
    /\ \/ \E f \in Broadcasts(ilvArch) :
            /\ ilvLay' = f[1] /\ ilvBufs' = << f[2] >> /\ ilvSrc' = [l \in 1..LanesIn(f[1]) |-> SwapAll(Header)]
            /\ ilvGood' = IF f[1] = "4x32" THEN 16 ELSE 20
       \/ /\ ilvArch = "sse2"
          /\ \E f \in {<< "4x64", mm256_intrlv80_4x64(Header) >>, << "8x64", mm512_intrlv80_8x64(Header) >>} :
                ilvLay' = f[1] /\ ilvBufs' = << f[2] >> /\ ilvSrc' = [l \in 1..LanesIn(f[1]) |-> Header] /\ ilvGood' = 20
    /\ UNCHANGED << ilvArch, ilvBits, ilvOut >>

Reinterleave ==
    /\ ilvLay # "none" /\ ilvArch = "sse2" /\ ilvBits <= 1024
    /\ \E f \in Reinterleavers(ilvLay, ilvBufs, ilvBits) : ilvLay' = f[1] /\ ilvBufs' = f[2]
    /\ UNCHANGED << ilvArch, ilvBits, ilvSrc, ilvOut, ilvGood >>

Deinterleave ==
    /\ ilvLay # "none" /\ ilvBits <= 1024
    /\ \E o \in Deinterleavers(ilvArch, ilvLay, ilvBufs[1], ilvBits) : ilvOut' = o
    /\ UNCHANGED << ilvArch, ilvBits, ilvLay, ilvSrc, ilvBufs, ilvGood >>

Extract ==
    /\ ilvLay \in {"2x32", "4x32", "8x32", "16x32", "2x64", "4x64", "8x64"}
    /\ \E l \in DOMAIN ilvSrc : ilvOut' = [c \in {l} |-> Extracted(ilvLay, ilvBufs[1], l - 1, ilvBits)]
    /\ UNCHANGED << ilvArch, ilvBits, ilvLay, ilvSrc, ilvBufs, ilvGood >>

IlvNext == IntrlvLanes \/ Broadcast \/ Reinterleave \/ Deinterleave \/ Extract
IlvSpec == IlvInit /\ [][IlvNext]_ilvVars

---------------------------------------------------------------------------
\* Where word i (from 0) of the l-th lane of a buffer belongs
Place(name, n, l, i) ==
    LET width == Layouts[name].width IN (i \div width) * n * width + (l - 1) * width + (i % width) + 1

\* Whatever sequence of interleaving, broadcasting and re-interleaving led
\* to it, every word of every lane stands where the layout of the buffer
\* has it.  Two functions fall short of that after 16 words (ilvGood).
LayoutKept ==
    \A j \in DOMAIN ilvBufs :
        LET of == Layouts[ilvLay].of[j]
        IN  \A l \in DOMAIN of : \A i \in 0..(ilvGood - 1) :
                LET p == Place(ilvLay, Len(of), l, i)
                IN  p \in DOMAIN ilvBufs[j] /\ ilvBufs[j][p] = ilvSrc[of[l]][i + 1]

\* Taking lanes out again, all or one, gives back the lanes that went in
\* (the NEON dintrlv_4x32 of 1024 bits stores its last block over the one
\* before it: 24 words).
LanesComeBack ==
    \A l \in DOMAIN ilvOut :
        LET n == IF ilvArch = "neon" /\ ilvLay = "4x32" /\ ilvBits = 1024 THEN 24 ELSE ilvGood
        IN  \A i \in 1..n : i \in DOMAIN ilvOut[l] => ilvOut[l][i] = ilvSrc[l][i]
====
