------------------------------- MODULE Pbkdf2 --------------------------------
(***************************************************************************)
(* HMAC and PBKDF2 over the SHA-256 of yespower (yespower_sha256.c): the   *)
(* generic loop, and the short way for one iteration and whole blocks of   *)
(* key, in which the padding is laid out once and only the block number    *)
(* and the inner hash change in two buffers.                               *)
(***************************************************************************)
EXTENDS ShaStream

CONSTANT KdfCalls      \* [pass, salt, c, dk]: the calls of YP_PBKDF2_SHA256

ASSUME KdfAssumption ==
    \A call \in KdfCalls : /\ call.pass \in Seq(0..255) /\ call.salt \in Seq(0..255)
                           /\ call.c \in Nat \ {0} /\ call.dk \in Nat

VARIABLES kdfIn, kdfOut
kdfvars == <<kdfIn, kdfOut>>

\* Exclusive or, bit by bit
XorBit(a, b, w) == w * (((a \div w) + (b \div w)) % 2)
XorByte(a, b) == XorBit(a, b, 128) + XorBit(a, b, 64) + XorBit(a, b, 32) + XorBit(a, b, 16)
                 + XorBit(a, b, 8) + XorBit(a, b, 4) + XorBit(a, b, 2) + XorBit(a, b, 1)
XorBytes(s, t) == Tuple([k \in 1..32 |-> XorByte(s[k], t[k])])

\* Blocks of 32 bytes one after the other, the last one cut
LaidOut(blocks, dk) == Tuple([p \in 1..dk |-> blocks[((p - 1) \div 32) + 1][((p - 1) % 32) + 1]])

---------------------------------------------------------------------------
\* The standards (RFC 2104, RFC 8018)
Hmac(key, m) ==
    LET k0 == IF Len(key) > 64 THEN Sha(key) ELSE key
        pad(b) == Tuple([i \in 1..64 |-> XorByte(b, IF i <= Len(k0) THEN k0[i] ELSE 0)])
    IN  Sha(pad(92) \o Sha(pad(54) \o m))
Iterated(pass, first, c) ==          \* the exclusive or of all iterates
    LET U[j \in 1..c] == IF j = 1 THEN first ELSE Hmac(pass, U[j - 1])
        T[j \in 1..c] == IF j = 1 THEN U[1] ELSE XorBytes(T[j - 1], U[j])
    IN  T[c]
DerivedKey(pass, salt, c, dk) ==
    LET F == Tuple([i \in 1..((dk + 31) \div 32) |-> Iterated(pass, Hmac(pass, salt \o Be32(i)), c)])
    IN  LaidOut(F, dk)

---------------------------------------------------------------------------
\* HMAC: the contexts of the inner and the outer hash
_HMAC_SHA256_Init(K) ==
    LET fresh == YP_SHA256_Init(sha256_ctx_init)
        key == IF Len(K) > 64 THEN YpFinal(YpUpdate(fresh, K)) ELSE K
        pad(b) == Tuple([i \in 1..64 |-> IF i <= Len(key) THEN XorByte(b, key[i]) ELSE b])
    IN  [ictx |-> YpUpdate(fresh, pad(54)), octx |-> YpUpdate(fresh, pad(92))]
_HMAC_SHA256_Update(h, data) == [h EXCEPT !.ictx = YpUpdate(@, data)]
_HMAC_SHA256_Final(h) == YpFinal(YpUpdate(h.octx, YpFinal(h.ictx)))

\* All but the last compression: the padding is left in the buffer
SHA256_Pad_Almost(ctx) ==
    LET r == (ctx.count \div 8) % 64
        len == Be64(ctx.count)
        padded == YpUpdate(ctx, SubSeq(<<128>> \o Zeros(63), 1, 56 - r))
    IN  YpUpdate([padded EXCEPT !.buf = Patch(@, 63, <<len[8]>>)], SubSeq(len, 1, 7))

\* One iteration, whole blocks of key
FastBlock(ictx, octx, at, i) ==
    LET inner == Digest(Compress(ictx.state, Patch(ictx.buf, at, Be32(i))))
    IN  Digest(Compress(octx.state, Patch(octx.buf, 0, inner)))
FastBlocks(ictx, octx, at, dk) ==
    LET blocks == Tuple([i \in 1..(dk \div 32) |-> FastBlock(ictx, octx, at, i)]) IN LaidOut(blocks, dk)
KdfFast_OuterCount(h0, dk) ==
    FastBlocks(SHA256_Pad_Almost(YpUpdate(h0.ictx, Zeros(4))), SHA256_Pad_Almost(h0.octx),
               (h0.ictx.count \div 8) % 64, dk)
KdfFast(h0, dk) ==
    FastBlocks(SHA256_Pad_Almost(YpUpdate(h0.ictx, Zeros(4))),
               SHA256_Pad_Almost([h0.octx EXCEPT !.count = @ + 256]),
               (h0.ictx.count \div 8) % 64, dk)

\* Any number of iterations
Iterate(Ph, U1, c) ==
    LET done[j \in 1..c] ==
          IF j = 1 THEN [u |-> U1, t |-> U1]
          ELSE LET was == done[j - 1]
                   u == _HMAC_SHA256_Final(_HMAC_SHA256_Update(Ph, was.u))
               IN  [u |-> u, t |-> XorBytes(was.t, u)]
    IN  done[c].t
KdfGeneric(Ph, PSh, c, dk) ==
    LET T == Tuple([i \in 1..((dk + 31) \div 32) |->
                       Iterate(Ph, _HMAC_SHA256_Final(_HMAC_SHA256_Update(PSh, Be32(i))), c)])
    IN  LaidOut(T, dk)

\* The second test of the code cannot fail after the first: both are kept
YP_PBKDF2_SHA256(pass, salt, c, dk) ==
    LET at == Len(salt) % 64        \* the inner block before the block number
        after == (at + 4) % 64
        Ph == _HMAC_SHA256_Init(pass)
    IN
    IF c = 1 /\ dk % 32 = 0 /\ at <= 51 /\ ~(after < at) /\ after < 56
    THEN KdfFast(_HMAC_SHA256_Update(Ph, salt), dk)
    ELSE KdfGeneric(Ph, _HMAC_SHA256_Update(Ph, salt), c, dk)

---------------------------------------------------------------------------
KdfInit == kdfIn \in KdfCalls /\ kdfOut = <<>>
Derive == /\ kdfOut = <<>>
          /\ kdfOut' = YP_PBKDF2_SHA256(kdfIn.pass, kdfIn.salt, kdfIn.c, kdfIn.dk)
          /\ UNCHANGED kdfIn
KdfSpec == KdfInit /\ [][Derive]_kdfvars

---------------------------------------------------------------------------
(* A key is PBKDF2's, by either way through the code: one padded buffer    *)
(* serves every block of the short way, salts of 52 to 63 bytes modulo 64, *)
(* whose padding does not fit one block, go the generic way, and a key     *)
(* longer than a block is hashed first.                                    *)
KeyIsPbkdf2 == kdfOut # <<>> => kdfOut = DerivedKey(kdfIn.pass, kdfIn.salt, kdfIn.c, kdfIn.dk)
=============================================================================
