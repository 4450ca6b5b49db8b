------------------------------ MODULE Encodings ------------------------------
(***************************************************************************)
(* Hexadecimal text (util.c): hex2bin, which decodes eight characters at a *)
(* time in one 64-bit word and the rest one by one, bin2hex and bebin2hex. *)
(* A string is the sequence of its bytes, a 64-bit word that of its bytes, *)
(* lowest first.                                                           *)
(***************************************************************************)
EXTENDS Integers, Sequences, SequencesExt
LOCAL INSTANCE Bitwise

VARIABLES encIn,       \* what is encoded or decoded
          encOut       \* what came out, empty before

encvars == <<encIn, encOut>>

ZeroBytes(n) == [k \in 1..n |-> 0]

\* chunk + ONES * c: what overflows a byte is carried into the next one
AddToAll(chunk, c) ==
    FoldLeft(LAMBDA a, b : LET s == b + c + a.carry
                           IN  [sum |-> Append(a.sum, s % 256), carry |-> s \div 256],
             [sum |-> <<>>, carry |-> 0], chunk).sum
\* the HIGH bits of chunk + ONES * (0x7f - c)
Above(chunk, c) == LET s == AddToAll(chunk, 127 - c) IN [k \in DOMAIN s |-> s[k] >= 128]
\* the HIGH bits of ~((chunk | HIGH) - ONES * c): nothing is borrowed
Below(chunk, c) == [k \in DOMAIN chunk |-> chunk[k] % 128 < c]

\* The bytes hex_swar_invalid_mask marks: outside 0-9 and, in either case, a-f
hex_swar_invalid_mask_Colon(chunk) ==
    LET norm == [k \in DOMAIN chunk |-> chunk[k] | 32] IN
    {k \in DOMAIN chunk : /\ Above(chunk, 58)[k] \/ Below(chunk, 48)[k]
                          /\ Above(norm, 102)[k] \/ Below(norm, 97)[k]}
hex_swar_invalid_mask(chunk) ==
    LET norm == [k \in DOMAIN chunk |-> chunk[k] | 32] IN
    {k \in DOMAIN chunk : /\ Above(chunk, 57)[k] \/ Below(chunk, 48)[k]
                          /\ Above(norm, 102)[k] \/ Below(norm, 97)[k]}

hex_decode_nibble_branchless(c) == (c % 16) + ((c \div 64) % 2) * 9
DecodedByte(hi, lo) ==
    ((16 * hex_decode_nibble_branchless(hi)) | hex_decode_nibble_branchless(lo)) % 256

\* The character test of the scalar tail
TailOk(c) == c \in 48..57 \/ c \in 97..102 \/ c \in 65..70

\* One turn of either loop of hex2bin: width characters from place i + 1
HexTurn(str, a) ==
    LET width == IF a.i + 8 <= Len(str) THEN 8 ELSE 2
        chunk == SubSeq(str, a.i + 1, a.i + width)
        valid == IF width = 8 THEN hex_swar_invalid_mask(chunk) = {}
                 ELSE TailOk(chunk[1]) /\ TailOk(chunk[2])
        bytes == [k \in 1..(width \div 2) |-> DecodedByte(chunk[2 * k - 1], chunk[2 * k])]
    IN  IF ~a.ok \/ a.i = Len(str) THEN a
        ELSE IF ~valid THEN [a EXCEPT !.ok = FALSE]
        ELSE [ok |-> TRUE, i |-> a.i + width,
              p |-> [k \in DOMAIN a.p |-> IF k - a.i \div 2 \in DOMAIN bytes
                                          THEN bytes[k - a.i \div 2] ELSE a.p[k]]]

hex2bin(old, str) ==
    IF Len(str) % 2 # 0 \/ Len(str) \div 2 > Len(old) THEN [ok |-> FALSE, p |-> old]
    ELSE LET end == FoldLeft(LAMBDA a, t : HexTurn(str, a),
                             [ok |-> TRUE, i |-> 0, p |-> ZeroBytes(Len(old))], str)
         IN  [ok |-> end.ok, p |-> end.p]

\* %02x
LowerCase(v) == IF v < 10 THEN 48 + v ELSE 87 + v
bin2hex(p) == [i \in 1..(2 * Len(p)) |->
                  LET b == p[(i + 1) \div 2]
                  IN  LowerCase(IF i % 2 = 1 THEN b \div 16 ELSE b % 16)]
bebin2hex(p) == bin2hex(Reverse(p))

---------------------------------------------------------------------------
\* Characters next to every boundary of the digits and letters, two beyond ASCII
Characters == {1, 47, 48, 57, 58, 64, 65, 70, 71, 96, 97, 102, 103, 127, 128, 195}
Texts == {[[i \in 1..n |-> 54] EXCEPT ![p] = c, ![p + 1] = e] :
             n \in {8}, p \in {1, 4, 7}, c \in Characters, e \in Characters}
           \cup {[[i \in 1..n |-> 98] EXCEPT ![p] = c] :
             n \in {2, 7, 10, 16, 18}, p \in {1, 2}, c \in Characters}
           \cup {[[i \in 1..10 |-> 67] EXCEPT ![p] = c] : p \in {8, 9, 10}, c \in Characters}
Binaries == {[k \in 1..n |-> (b + 61 * (k - 1)) % 256] :
             n \in {4, 5}, b \in {0, 9, 10, 15, 16, 159, 160, 255}}

EncInit ==
    /\ encOut = <<>>
    /\ \/ encIn \in {[kind |-> "text", str |-> s] : s \in Texts}
       \/ encIn \in {[kind |-> "bytes", p |-> b] : b \in Binaries}

Buffer == [k \in 1..8 |-> 170]      \* what the destination held before
Decode == /\ encIn.kind = "text"
          /\ encOut' = hex2bin(Buffer, encIn.str)
Encode == /\ encIn.kind = "bytes"
          /\ encOut' = [le |-> bin2hex(encIn.p), be |-> bebin2hex(encIn.p)]

EncNext == encOut = <<>> /\ (Decode \/ Encode) /\ UNCHANGED encIn

---------------------------------------------------------------------------
\* The value of a hexadecimal digit, by its place in the two alphabets
DigitValue(c) == CASE c \in 48..57 -> c - 48 [] c \in 65..70 -> c - 55 [] c \in 97..102 -> c - 87
AllDigits(str) == \A i \in DOMAIN str : str[i] \in (48..57) \cup (65..70) \cup (97..102)
Fits(str) == Len(str) % 2 = 0 /\ Len(str) <= 2 * Len(Buffer)
InAscii(str) == \A i \in DOMAIN str : str[i] < 128

(* hex2bin decodes every string of an even number of hexadecimal digits     *)
(* that fits, in the word loop, in the tail and across the two, fills the   *)
(* rest with zeros, refuses every other string of ASCII, leaves the buffer  *)
(* of a string that does not fit alone, and undoes bin2hex.  (Bytes from    *)
(* 0xba on overflow in the mask's sums and pass for digits: only the tail   *)
(* refuses them.)                                                           *)
HexDecodes ==
    encOut # <<>> =>
        /\ encIn.kind = "text" =>
              LET str == encIn.str IN
              /\ InAscii(str) => (encOut.ok <=> Fits(str) /\ AllDigits(str))
              /\ ~Fits(str) => encOut.p = Buffer
              /\ Fits(str) /\ AllDigits(str) =>
                    /\ encOut.ok
                    /\ \A k \in DOMAIN Buffer :
                          encOut.p[k] = IF 2 * k <= Len(str)
                                        THEN 16 * DigitValue(str[2 * k - 1]) + DigitValue(str[2 * k])
                                        ELSE 0
        /\ encIn.kind = "bytes" =>
              /\ hex2bin(ZeroBytes(Len(encIn.p)), encOut.le) = [ok |-> TRUE, p |-> encIn.p]
              /\ hex2bin(ZeroBytes(Len(encIn.p)), encOut.be) = [ok |-> TRUE, p |-> Reverse(encIn.p)]
=============================================================================
