----------------------------- MODULE ShaStream ------------------------------
(***************************************************************************)
(* SHA-256 over a stream of chunks in the three codes of the miner         *)
(* (sha256-hash.c, yespower_sha256.c, sph_sha2.c with md_helper.c).        *)
(* Buffers keep their 64 bytes and counts their units.  Sha256Rounds is    *)
(* about the compression function; here a chaining value is the sequence   *)
(* of the blocks compressed so far, and what the code makes of it in the   *)
(* end is the constant Digest: two streams with the same blocks have the   *)
(* same digest, whatever the function.  A buffer starts with junk: no code *)
(* clears it, and what was there before is any constant.                   *)
(***************************************************************************)
EXTENDS Integers, Sequences

CONSTANTS Message,     \* the bytes streamed
          Chunks,      \* lengths of the pieces they arrive in
          Leftover,    \* what a fresh buffer happens to hold
          Digest(_)    \* the 32 bytes of a chaining value

ASSUME MessageAssumption == /\ Message \in Seq(0..255)
                            /\ \A n \in Chunks : n \in Nat
                            /\ Leftover \in [1..64 -> 0..255]

VARIABLES strCode,     \* "sha256", "yp" or "sph"
          strCtx,      \* the context: chaining value, buffer, count
          strLen,      \* bytes fed so far
          strOut       \* the digest, empty before

strvars == <<strCode, strCtx, strLen, strOut>>

\* A function on 1..n, evaluated to a sequence
Tuple(f) == <<>> \o f
Zeros(n) == [k \in 1..n |-> 0]

Iv == <<>>
Compress(state, block) == Append(state, block)
Chain(state, bytes) ==                        \* bytes: whole blocks
    state \o [i \in 1..(Len(bytes) \div 64) |-> SubSeq(bytes, 64 * i - 63, 64 * i)]
Be32(n) == <<(n \div 16777216) % 256, (n \div 65536) % 256, (n \div 256) % 256, n % 256>>
Be64(n) == Be32((n \div 65536) \div 65536) \o Be32(n)
Patch(buf, at, bytes) ==
    Tuple([k \in 1..64 |-> IF k - 1 \in at..(at + Len(bytes) - 1) THEN bytes[k - at] ELSE buf[k]])

\* The standard: the message, a one bit, zeros up to 56 modulo 64, the bit count
Padded(m) == m \o <<128>> \o Zeros((119 - (Len(m) % 64)) % 64) \o Be64(8 * Len(m))
Sha(m) == Digest(Chain(Iv, Padded(m)))

---------------------------------------------------------------------------
\* sha256-hash.c: the count is in bytes
sha256_ctx_init == [state |-> Iv, buf |-> Leftover, count |-> 0]

Absorb(ctx, r, data, added) ==
    LET filled == Patch(ctx.buf, r, SubSeq(data, 1, 64 - r))
        rest == SubSeq(data, 65 - r, Len(data))
        tail == SubSeq(rest, 64 * (Len(rest) \div 64) + 1, Len(rest))
    IN  IF Len(data) < 64 - r
        THEN [ctx EXCEPT !.buf = Patch(@, r, data), !.count = @ + added]
        ELSE [state |-> Chain(Compress(ctx.state, filled), rest),
              buf |-> Patch(filled, 0, tail), count |-> ctx.count + added]
sha256_update(ctx, data) == Absorb(ctx, ctx.count % 64, data, Len(data))

\* The block with the bit count ends the message
LastBlock(state, buf, bits) == Compress(state, Patch(buf, 56, Be64(bits)))
sha256_final_TwoBlocks(ctx) ==
    LET ptr == (ctx.count % 64) + 1
        marked == Patch(ctx.buf, ptr - 1, <<128>>)
    IN  Digest(IF ptr >= 56
               THEN LastBlock(Compress(ctx.state, Patch(marked, ptr, Zeros(64 - ptr))), Zeros(64), 8 * ctx.count)
               ELSE LastBlock(ctx.state, Patch(marked, ptr, Zeros(56 - ptr)), 8 * ctx.count))

sha256_final(ctx) ==
    LET ptr == (ctx.count % 64) + 1
        marked == Patch(ctx.buf, ptr - 1, <<128>>)
    IN  Digest(IF ptr > 56
               THEN LastBlock(Compress(ctx.state, Patch(marked, ptr, Zeros(64 - ptr))), Zeros(64), 8 * ctx.count)
               ELSE LastBlock(ctx.state, Patch(marked, ptr, Zeros(56 - ptr)), 8 * ctx.count))
sha256_full(data) == sha256_final(sha256_update(sha256_ctx_init, data))

---------------------------------------------------------------------------
\* yespower_sha256.c: the count is in bits
YP_SHA256_Init(ctx) == [ctx EXCEPT !.state = Iv, !.count = 0]
YpUpdate(ctx, data) ==
    IF data = <<>> THEN ctx
    ELSE Absorb(ctx, (ctx.count \div 8) % 64, data, 8 * Len(data))
SHA256_Pad(ctx) ==
    LET r == (ctx.count \div 8) % 64
        pad == <<128>> \o Zeros(63)
    IN  IF r < 56
        THEN LastBlock(ctx.state, Patch(ctx.buf, r, SubSeq(pad, 1, 56 - r)), ctx.count)
        ELSE LastBlock(Compress(ctx.state, Patch(ctx.buf, r, SubSeq(pad, 1, 64 - r))), Zeros(64), ctx.count)
YpFinal(ctx) == Digest(SHA256_Pad(ctx))

---------------------------------------------------------------------------
\* md_helper.c: byte by byte up to the end of the buffer, or, for 128 bytes and
\* more, blocks straight from the data when it is aligned
sha224_short(ctx, data) == Absorb(ctx, ctx.count % 64, data, Len(data))
sph_sha256(ctx, data, aligned) ==
    LET current == ctx.count % 64
        t == IF current > 0 THEN 64 - current ELSE 0
        first == IF t > 0 THEN sha224_short(ctx, SubSeq(data, 1, t)) ELSE ctx
        rest == SubSeq(data, t + 1, Len(data))
        tail == SubSeq(rest, 64 * (Len(rest) \div 64) + 1, Len(rest))
    IN  IF Len(data) < 128 THEN sha224_short(ctx, data)
        ELSE IF ~aligned THEN sha224_short(first, rest)
        ELSE [state |-> Chain(first.state, rest), buf |-> Patch(first.buf, 0, tail),
              count |-> first.count + Len(rest)]
sha224_close(ctx) ==
    LET current == (ctx.count % 64) + 1
        marked == Patch(ctx.buf, current - 1, <<128>>)
    IN  Digest(IF current > 56
               THEN LastBlock(Compress(ctx.state, Patch(marked, current, Zeros(64 - current))), Zeros(64), 8 * ctx.count)
               ELSE LastBlock(ctx.state, Patch(marked, current, Zeros(56 - current)), 8 * ctx.count))

---------------------------------------------------------------------------
StrInit == /\ strCode \in {"sha256", "yp", "sph"}
           /\ strCtx = sha256_ctx_init
           /\ strLen = 0
           /\ strOut = <<>>

StrUpdate(n) ==
    /\ strOut = <<>>
    /\ strLen + n <= Len(Message)
    /\ \E aligned \in BOOLEAN :
          strCtx' = LET data == SubSeq(Message, strLen + 1, strLen + n) IN
                    CASE strCode = "sha256" -> sha256_update(strCtx, data)
                      [] strCode = "yp" -> YpUpdate(strCtx, data)
                      [] strCode = "sph" -> sph_sha256(strCtx, data, aligned)
    /\ strLen' = strLen + n
    /\ UNCHANGED <<strCode, strOut>>

StrFinal ==
    /\ strOut = <<>>
    /\ strOut' = CASE strCode = "sha256" -> sha256_final(strCtx)
                   [] strCode = "yp" -> YpFinal(strCtx)
                   [] strCode = "sph" -> sha224_close(strCtx)
    /\ UNCHANGED <<strCode, strCtx, strLen>>

StrNext == (\E n \in Chunks : StrUpdate(n)) \/ StrFinal
StrSpec == StrInit /\ [][StrNext]_strvars

---------------------------------------------------------------------------
(* A digest is the standard's digest of the bytes fed, however they were   *)
(* cut: whatever a buffer kept of earlier blocks is overwritten, the       *)
(* padding takes a second block from 56 bytes on, and the direct path of   *)
(* md_helper.c leaves the same context as the buffered one.                *)
StreamIsPadded == strOut # <<>> => strOut = Sha(SubSeq(Message, 1, strLen))
=============================================================================
