---------------------------- MODULE Sha256Rounds ----------------------------
(***************************************************************************)
(* The SHA-256 compression function as the builds of the miner compute it: *)
(* with the SHA instructions of x86 in one and in two lanes, split at the  *)
(* nonce into prehash and final rounds, with those of ARM, and portably in *)
(* sph_sha2.c and yespower_sha256.c.  One step does four rounds in every   *)
(* lane.  The registers, the order of their updates, the message schedule  *)
(* and the reuse of the xor in the majority are kept; words, rotations and *)
(* the low digits of the round constants are those of a word of Bits bits. *)
(***************************************************************************)
EXTENDS YespowerCell

CONSTANT ShaSeeds      \* seeds of the chaining values and messages compressed

VARIABLES shaBuild,    \* the code that runs
          shaIn,       \* per lane: the chaining value and the message block
          shaReg,      \* per lane: the registers of that code
          shaQuad,     \* groups of four rounds done; 17 when the result is stored
          shaOut       \* per lane: the chaining value stored

shavars == <<shaBuild, shaIn, shaReg, shaQuad, shaOut>>

AndOf[a \in 0..(W - 1), b \in 0..(W - 1)] ==
    IF a * b = 0 THEN 0 ELSE 2 * AndOf[a \div 2, b \div 2] + ((a * b) % 2)
ROTR(x, n) == Rol(x, Bits * n - n)
SHR(x, n) == x \div (2 ^ n)
BSG2_0(x) == XorOf[XorOf[ROTR(x, 2), ROTR(x, 13)], ROTR(x, 22)]
BSG2_1(x) == XorOf[XorOf[ROTR(x, 6), ROTR(x, 11)], ROTR(x, 25)]
SSG2_0(x) == XorOf[XorOf[ROTR(x, 7), ROTR(x, 18)], SHR(x, 3)]
SSG2_1(x) == XorOf[XorOf[ROTR(x, 17), ROTR(x, 19)], SHR(x, 10)]
CH(x, y, z) == XorOf[AndOf[XorOf[y, z], x], z]
MAJ(x, y, y_xor_z) == XorOf[y, AndOf[XorOf[x, y], y_xor_z]]

\* The last hexadecimal digits of the sixty-four round constants
K256 == << 8, 1, 15, 5, 11, 1, 4, 5,   8, 1, 14, 3, 4, 14, 7, 4,
           1, 6, 6, 12, 15, 10, 12, 10,  2, 13, 8, 7, 3, 7, 1, 7,
           5, 8, 12, 3, 4, 11, 14, 5,  1, 11, 0, 3, 9, 4, 5, 0,
           6, 8, 12, 5, 3, 10, 15, 3,  14, 15, 4, 8, 10, 11, 7, 2 >>
K4(q) == [k \in 1..4 |-> K256[4 * q + k] % W]

---------------------------------------------------------------------------
\* The standard: the schedule of 64 words, the rounds, the sum with the input
MajOf(a, b, c) == XorOf[XorOf[AndOf[a, b], AndOf[a, c]], AndOf[b, c]]
ChOf(e, f, g) == XorOf[AndOf[e, f], AndOf[W - 1 - e, g]]
Fips(v, kw) ==
    LET t1 == v[8] + BSG2_1(v[5]) + ChOf(v[5], v[6], v[7]) + kw
        t2 == BSG2_0(v[1]) + MajOf(v[1], v[2], v[3])
    IN  <<(t1 + t2) % W, v[1], v[2], v[3], (v[4] + t1) % W, v[5], v[6], v[7]>>
FipsSchedule(m) ==
    FoldLeft(LAMBDA w, t : Append(w, (SSG2_1(w[t - 2]) + w[t - 7] + SSG2_0(w[t - 15]) + w[t - 16]) % W),
             m, [t \in 1..48 |-> t + 16])
FipsRounds(in, n) ==
    LET w == FipsSchedule(in.msg)
    IN  FoldLeft(LAMBDA v, t : Fips(v, w[t] + K256[t]), in.state, [t \in 1..n |-> t])

---------------------------------------------------------------------------
\* x86: a register is lanes 0..3; STATE0 holds F, E, B, A and STATE1 H, G, D, C.
\* The instructions: two rounds, and the two halves of the schedule.
Shuffle(a, p) == [k \in DOMAIN p |-> a[p[k] + 1]]
Rnds2(cdgh, abef, wk) ==
    Shuffle(FoldLeft(Fips, <<abef[4], abef[3], cdgh[4], cdgh[3], abef[2], abef[1], cdgh[2], cdgh[1]>>,
                     <<wk[1], wk[2]>>), <<5, 4, 1, 0>>)
Msg1(a, b) == [k \in 1..4 |-> (a[k] + SSG2_0(IF k < 4 THEN a[k + 1] ELSE b[1])) % W]
Msg2(a, b) ==
    LET x == (a[1] + SSG2_1(b[3])) % W
        y == (a[2] + SSG2_1(b[4])) % W
    IN  <<x, y, (a[3] + SSG2_1(x)) % W, (a[4] + SSG2_1(y)) % W>>
Alignr(a, b, n) == SubSeq(b \o a, n + 1, n + 4)

\* Entering and leaving the register order of the instructions
NiLoad(st) ==
    LET tmp == Shuffle(Col(st, 1), <<1, 0, 3, 2>>)
        rev == Shuffle(Col(st, 2), <<3, 2, 1, 0>>)
    IN  [abef |-> Alignr(tmp, rev, 2), cdgh |-> <<rev[1], rev[2], tmp[3], tmp[4]>>]
NiStore(abef, cdgh) ==
    LET tmp == Shuffle(abef, <<3, 2, 1, 0>>)
        dch == Shuffle(cdgh, <<1, 0, 3, 2>>)
    IN  <<tmp[1], tmp[2], dch[3], dch[4]>> \o Alignr(dch, tmp, 2)

Blocks4(m) == [k \in 1..4 |-> Col(m, k)]
NiStart(in) == NiLoad(in.state) @@ [tmsg |-> Blocks4(in.msg)]

\* two instructions, between which STATE0 and STATE1 change roles
NiRounds(r, wk) ==
    FoldLeft(LAMBDA x, w : [x EXCEPT !.abef = Rnds2(x.cdgh, x.abef, w), !.cdgh = x.abef],
             r, <<wk, Shuffle(wk, <<2, 3, 0, 0>>)>>)

\* After the rounds q: the next four words are finished, the last four begun
Nth(q) == (q % 4) + 1
sha256_generic_qround_OldWords(q, m) ==
    LET begun == IF q \in 1..12 THEN [m EXCEPT ![Nth(q + 3)] = Msg1(@, m[Nth(q)])] ELSE m
    IN  IF q \in 3..14
        THEN [begun EXCEPT ![Nth(q + 1)] =
                Msg2(Plus(@, Alignr(m[Nth(q)], begun[Nth(q + 3)], 1)), m[Nth(q)])]
        ELSE begun
sha256_generic_qround(q, m) ==
    LET done == IF q \in 3..14
                THEN [m EXCEPT ![Nth(q + 1)] =
                        Msg2(Plus(@, Alignr(m[Nth(q)], m[Nth(q + 3)], 1)), m[Nth(q)])]
                ELSE m
    IN  IF q \in 1..12 THEN [done EXCEPT ![Nth(q + 3)] = Msg1(@, m[Nth(q)])] ELSE done

sha256_opt_rounds(q, r, k) ==
    [NiRounds(r, Plus(r.tmsg[Nth(q)], k)) EXCEPT !.tmsg = sha256_generic_qround(q, @)]

\* Two lanes, the round constants of both in TMP_X, which then takes the words
\* of lane X that the schedule shifts in
sha256_ni2x_rounds(q, regs) ==
    LET TMP_X == K4(q)
    IN  [l \in DOMAIN regs |-> sha256_opt_rounds(q, regs[l], TMP_X)]

---------------------------------------------------------------------------
\* The block with the nonce: prehash does its first four rounds with the nonce
\* zero, once for all nonces; final adds the nonce to A and E and goes on,
\* leaving out what the zero words 5 to 14 of that block do not change.
prehash_3rounds(in) ==
    NiRounds(NiLoad(in.state), Plus([Col(in.msg, 1) EXCEPT ![4] = 0], K4(0)))
FinalStart(in) ==
    LET mid == prehash_3rounds(in)
        n == in.msg[4]
    IN  [mid EXCEPT !.abef = Plus(@, <<0, n, 0, n>>)]
           @@ [tmsg |-> [Blocks4(in.msg) EXCEPT ![3] = "unset"]]
FinalWords(q, m) ==
    CASE q = 2 -> m
      [] q = 3 -> [m EXCEPT ![1] = Msg2(@, m[4])]
      [] q = 5 -> [m EXCEPT ![3] = Msg2(Alignr(m[2], m[1], 1), m[2]), ![1] = Msg1(@, m[2])]
      [] OTHER -> sha256_generic_qround(q, m)
x2sha_final_rounds(q, r) ==
    IF q = 0 THEN r
    ELSE [NiRounds(r, IF q = 2 THEN K4(2) ELSE Plus(r.tmsg[Nth(q)], K4(q))) EXCEPT
            !.tmsg = FinalWords(q, @)]

---------------------------------------------------------------------------
\* ARM: the words plus constants of the next rounds are added a turn ahead
Hash4(abcd, efgh, wk) == FoldLeft(Fips, abcd \o efgh, wk)
Su1(t, b, c) == Msg2(Plus(t, Alignr(c, b, 1)), c)
NeonStart(in) == [abcd |-> Col(in.state, 1), efgh |-> Col(in.state, 2),
                  msg |-> Blocks4(in.msg), tmp |-> Plus(Col(in.msg, 1), K4(0))]
sha256_neon_rounds(q, r) ==
    LET v == Hash4(r.abcd, r.efgh, r.tmp)
        su0 == Msg1(r.msg[Nth(q)], r.msg[Nth(q + 1)])
    IN  [abcd |-> Col(v, 1), efgh |-> Col(v, 2),
         tmp |-> IF q < 15 THEN Plus(r.msg[Nth(q + 1)], K4(q + 1)) ELSE r.tmp,
         msg |-> IF q < 12
                 THEN [r.msg EXCEPT ![Nth(q)] = Su1(su0, r.msg[Nth(q + 2)], r.msg[Nth(q + 3)])]
                 ELSE r.msg]
sha256_neon_x2sha_rounds(q, regs) == [l \in DOMAIN regs |-> sha256_neon_rounds(q, regs[l])]

---------------------------------------------------------------------------
\* Portable: the eight variables stay in place and change roles, and the xor
\* of the majority's last two arguments is the xor of its first two before
Role(t, i) == ((64 + i - t) % 8) + 1
RND(r, t, kw) ==
    LET a == r.v[Role(t, 0)]    e == r.v[Role(t, 4)]
        t1 == r.v[Role(t, 7)] + BSG2_1(e) + CH(e, r.v[Role(t, 5)], r.v[Role(t, 6)]) + kw
        t2 == BSG2_0(a) + MAJ(a, r.v[Role(t, 1)], r.yxz)
    IN  [r EXCEPT !.v[Role(t, 3)] = (@ + t1) % W, !.v[Role(t, 7)] = (t1 + t2) % W,
                  !.yxz = XorOf[a, r.v[Role(t, 1)]]]

\* sph_sha2.c: a ring of sixteen words, each renewed right before its round
SphStart(in) == [v |-> in.state, w |-> in.msg, yxz |-> XorOf[in.state[2], in.state[3]]]
SHA2_MEXP2(w, t) ==
    [w EXCEPT ![(t % 16) + 1] = (SSG2_1(w[((t - 2) % 16) + 1]) + w[((t - 7) % 16) + 1]
                                 + SSG2_0(w[((t - 15) % 16) + 1]) + @) % W]
SHA2_STEP1(r, t) == RND(r, t, r.w[t + 1] + K256[t + 1])
SHA2_STEP2(r, t) ==
    LET w == SHA2_MEXP2(r.w, t)
    IN  RND([r EXCEPT !.w = w], t, w[(t % 16) + 1] + K256[t + 1])
SHA2_ROUND_BODY(q, r) ==
    FoldLeft(LAMBDA x, t : IF t < 16 THEN SHA2_STEP1(x, t) ELSE SHA2_STEP2(x, t),
             r, [k \in 1..4 |-> 4 * q + k - 1])

\* yespower_sha256.c: sixteen rounds, then the next sixteen words; the xor is
\* taken anew at the start of every sixteen rounds
YpStart(in) == [v |-> in.state, w |-> in.msg, yxz |-> 0]
MSCH(w, t) == Append(w, (SSG2_1(w[t - 2]) + w[t - 7] + SSG2_0(w[t - 15]) + w[t - 16]) % W)
SHA256_Transform(q, r) ==
    LET fresh == IF q % 4 = 0 THEN [r EXCEPT !.yxz = XorOf[r.v[2], r.v[3]]] ELSE r
        after == FoldLeft(LAMBDA x, t : RND(x, t, x.w[t + 1] + K256[t + 1]),
                          fresh, [k \in 1..4 |-> 4 * q + k - 1])
    IN  IF q % 4 = 3 /\ q < 15
        THEN [after EXCEPT !.w = FoldLeft(MSCH, @, [k \in 1..16 |-> 4 * q + 4 + k])]
        ELSE after

---------------------------------------------------------------------------
ShaBuilds == {"ni", "ni2x", "final", "neon", "neon2x", "sph", "yespower"}
ShaLanes(b) == IF b \in {"ni2x", "final", "neon2x"} THEN {"X", "Y"} ELSE {"X"}

\* Blocks compressed: any words; for the final rounds the last block of a
\* header, whose words 5 to 14 are zero, with the lanes differing in the nonce
ShaWord(seed, k) == (seed * k * k + 3 * k + seed) % W
ShaInput(b, seed, l) ==
    LET own == IF l = "Y" THEN 5 ELSE 0
    IN  [state |-> [k \in 1..8 |-> ShaWord(seed + IF b = "final" THEN 0 ELSE own, k + 1)],
         msg |-> [k \in 1..16 |-> IF b # "final" THEN ShaWord(seed + own, 2 * k)
                                  ELSE IF k = 4 THEN ShaWord(seed + own, 7)
                                  ELSE IF k \in 6..15 THEN 0
                                  ELSE ShaWord(seed, k)]]

ShaStart(b, in) ==
    CASE b \in {"ni", "ni2x"} -> NiStart(in)
      [] b = "final" -> FinalStart(in)
      [] b \in {"neon", "neon2x"} -> NeonStart(in)
      [] b = "sph" -> SphStart(in)
      [] b = "yespower" -> YpStart(in)

\* The eight working variables in the registers of a build, in their roles
Working(b, r) ==
    CASE b \in {"ni", "ni2x", "final"} -> NiStore(r.abef, r.cdgh)
      [] b \in {"neon", "neon2x"} -> r.abcd \o r.efgh
      [] OTHER -> r.v

ShaInit == \E b \in ShaBuilds, seed \in ShaSeeds :
    /\ shaBuild = b
    /\ shaIn = [l \in ShaLanes(b) |-> ShaInput(b, seed, l)]
    /\ shaReg = [l \in ShaLanes(b) |-> ShaStart(b, ShaInput(b, seed, l))]
    /\ shaQuad = 0
    /\ shaOut = [l \in ShaLanes(b) |-> ShaInput(b, seed, l).state]

FourRounds ==
    /\ shaQuad < 16
    /\ shaReg' = CASE shaBuild = "ni" -> [shaReg EXCEPT !["X"] = sha256_opt_rounds(shaQuad, @, K4(shaQuad))]
                   [] shaBuild = "ni2x" -> sha256_ni2x_rounds(shaQuad, shaReg)
                   [] shaBuild = "final" -> [l \in DOMAIN shaReg |-> x2sha_final_rounds(shaQuad, shaReg[l])]
                   [] shaBuild = "neon" -> [shaReg EXCEPT !["X"] = sha256_neon_rounds(shaQuad, @)]
                   [] shaBuild = "neon2x" -> sha256_neon_x2sha_rounds(shaQuad, shaReg)
                   [] shaBuild = "sph" -> [shaReg EXCEPT !["X"] = SHA2_ROUND_BODY(shaQuad, @)]
                   [] shaBuild = "yespower" -> [shaReg EXCEPT !["X"] = SHA256_Transform(shaQuad, @)]
    /\ shaQuad' = shaQuad + 1
    /\ UNCHANGED <<shaBuild, shaIn, shaOut>>

\* The chaining value added and stored in the order of the standard
AddSaved ==
    /\ shaQuad = 16
    /\ shaOut' = [l \in DOMAIN shaReg |-> Plus(shaIn[l].state, Working(shaBuild, shaReg[l]))]
    /\ shaQuad' = 17
    /\ UNCHANGED <<shaBuild, shaIn, shaReg>>

ShaNext == FourRounds \/ AddSaved
ShaSpec == ShaInit /\ [][ShaNext]_shavars

---------------------------------------------------------------------------
(* After every four rounds each lane of every build has the working        *)
(* variables of the standard, and in the end its chaining value: the       *)
(* schedule computed in place, the words left out of the final rounds, the *)
(* nonce added late, the constants one lane leaves for the other, the      *)
(* rotated variables and the xor carried from round to round (and begun    *)
(* anew by yespower_sha256.c) lose nothing.                                *)
RoundsAgree ==
    \A l \in DOMAIN shaReg :
        IF shaQuad = 17
        THEN shaOut[l] = Plus(shaIn[l].state, FipsRounds(shaIn[l], 64))
        ELSE (shaBuild # "final" \/ shaQuad > 0) =>
                Working(shaBuild, shaReg[l]) =
                    LET v == FipsRounds(shaIn[l], 4 * shaQuad)
                    IN  IF shaBuild \in {"sph", "yespower"}
                        THEN [k \in 1..8 |-> v[((k - 1 + 4 * shaQuad) % 8) + 1]]
                        ELSE v
=============================================================================
