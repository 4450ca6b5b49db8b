----------------------------- MODULE MCHashing ------------------------------
(* Small instances of the hash kernels and encodings.  They share no state: a behaviour  *)
(* is one of a single part, and the variables of the others are idle.      *)
EXTENDS YespowerLanes, Interleave, Sha256Rounds, PowHash, Encodings, Targets

VARIABLE part

YIdle == build = "1way" /\ stage = "free" /\ k = <<>> /\ ref = <<>> /\ hashes = 0
IlvIdle == /\ ilvArch = "sse2" /\ ilvBits = 256 /\ ilvLay = "none"
           /\ ilvSrc = <<>> /\ ilvBufs = <<>> /\ ilvOut = <<>> /\ ilvGood = 0
ShaIdle == shaBuild = "ni" /\ shaIn = <<>> /\ shaReg = <<>> /\ shaOut = <<>> /\ shaQuad = 0
StrIdle == strCode = "sha256" /\ strCtx = <<>> /\ strLen = 0 /\ strOut = <<>>
KdfIdle == kdfIn = <<>> /\ kdfOut = <<>>
PowIdle == powIn = <<>> /\ powOut = <<>>
EncIdle == encIn = <<>> /\ encOut = <<>>
TrgIdle == trgIn = <<>> /\ trgOut = <<>>

\* Bytes, and a compression and a digest that mix them
Byte(j) == (j * 7 + 3) % 256
SomeMessage == Tuple([j \in 1..216 |-> Byte(j)])
SomeLeftover == Tuple([j \in 1..64 |-> 255])
Eight(b, at) == b[at] + 3 * b[at + 1] + 7 * b[at + 2] + 13 * b[at + 3]
                + 29 * b[at + 4] + 61 * b[at + 5] + 127 * b[at + 6] + 251 * b[at + 7]
Stir(h, b) == (h * 17 + (h \div 4096) + Eight(b, 1) + 5 * Eight(b, 9) + 11 * Eight(b, 17) + 23 * Eight(b, 25)
                 + 47 * Eight(b, 33) + 97 * Eight(b, 41) + 197 * Eight(b, 49) + 397 * Eight(b, 57)) % 65521
SomeDigest(state) ==
    LET stirred[n \in 0..Len(state)] == IF n = 0 THEN 1 ELSE Stir(stirred[n - 1], state[n])
        h == stirred[Len(state)]
    IN  Tuple([j \in 1..32 |-> (h * (2 * j + 1) + (h \div 100) + j) % 256])
SomeYespower(h) == Tuple([j \in 1..32 |-> (h[j] * h[33 - j] + 13 * j + h[1]) % 256])

\* Passwords around a block, salts around the end of the padding
SomeCalls == {[pass |-> SubSeq(SomeMessage, 1, p), salt |-> SubSeq(SomeMessage, 101, 100 + n), c |-> c, dk |-> dk] :
                 p \in {0, 32, 64, 65}, n \in {0, 32, 51, 52, 64, 115, 116}, c \in {1, 2, 3}, dk \in {32, 40, 64}}

\* Headers: one of two first blocks, a merkle root's end, nTime, nBits, nonce
Le32(n) == <<n % 256, (n \div 256) % 256, (n \div 65536) % 256, n \div 16777216>>
RawHeader(first, ntime, nonce) ==
    SubSeq(SomeMessage, first + 1, first + 68) \o Le32(ntime) \o <<255, 255, 0, 30>> \o Le32(nonce)
Times == {CIVICLIGHT_V2_ACTIVATION_TIME + d : d \in {-65536, -1, 0, 1, 256}}
SomeHeaders == {RawHeader(f, t, n) : f \in {0, 64}, t \in Times, n \in {0, 7}}

\* The smallest and the largest values of a limb
EdgeLimbs == {0, 1, Limb - 1}
SomeDifficulties == {<<n, d>> \in (1..7) \X (1..5) : d < H * n}

KInit == /\ part \in {"mix", "interleave", "rounds", "stream", "kdf", "pow", "encodings", "targets"}
         /\ IF part = "mix" THEN YInit ELSE YIdle
         /\ IF part = "interleave" THEN IlvInit ELSE IlvIdle
         /\ IF part = "rounds" THEN ShaInit ELSE ShaIdle
         /\ IF part = "stream" THEN StrInit ELSE StrIdle
         /\ IF part = "kdf" THEN KdfInit ELSE KdfIdle
         /\ IF part = "pow" THEN PowInit ELSE PowIdle
         /\ IF part = "encodings" THEN EncInit ELSE EncIdle
         /\ IF part = "targets" THEN TrgInit ELSE TrgIdle

KNext == /\ UNCHANGED part
         /\ \/ part = "mix" /\ YNext /\ UNCHANGED <<ilvVars, shavars, strvars, kdfvars, powvars, encvars, trgvars>>
            \/ part = "interleave" /\ IlvNext /\ UNCHANGED <<yvars, shavars, strvars, kdfvars, powvars, encvars, trgvars>>
            \/ part = "rounds" /\ ShaNext /\ UNCHANGED <<yvars, ilvVars, strvars, kdfvars, powvars, encvars, trgvars>>
            \/ part = "stream" /\ StrNext /\ UNCHANGED <<yvars, ilvVars, shavars, kdfvars, powvars, encvars, trgvars>>
            \/ part = "kdf" /\ Derive /\ UNCHANGED <<yvars, ilvVars, shavars, strvars, powvars, encvars, trgvars>>
            \/ part = "pow" /\ PowHashes /\ UNCHANGED <<yvars, ilvVars, shavars, strvars, kdfvars, encvars, trgvars>>
            \/ part = "encodings" /\ EncNext /\ UNCHANGED <<yvars, ilvVars, shavars, strvars, kdfvars, powvars, trgvars>>
            \/ part = "targets" /\ TrgNext /\ UNCHANGED <<yvars, ilvVars, shavars, strvars, kdfvars, powvars, encvars>>

KSpec == KInit /\ [][KNext]_<<yvars, ilvVars, shavars, strvars, kdfvars, powvars, encvars, trgvars, part>>
=============================================================================
