------------------------------- MODULE Codec -------------------------------
(***************************************************************************)
(* The base64url codec of c-server/src/crypto.c, on bytes 0 .. 255 and     *)
(* characters 0 .. 63, the places in base64url_table; Pad is '='.          *)
(* The bound of base64url_encode on its output is left out: its callers    *)
(* give it room.                                                           *)
(***************************************************************************)
EXTENDS Integers, SequencesExt

Pad == 64

Byte == 0 .. 255

\* base64url_decode gives up storing after this many bytes.
DecodeCap == 3

\* The number whose digits in the base are the elements of ds.
Number(base, ds) == FoldLeft(LAMBDA n, d : base * n + d, 0, ds)

\* The four characters of one to three bytes.
EncodeGroup(bytes) ==
    LET b == Number(256, [i \in 1 .. 3 |-> IF i <= Len(bytes) THEN bytes[i] ELSE 0])
    IN  << b \div 2^18, (b \div 2^12) % 64,
           IF Len(bytes) < 2 THEN Pad ELSE (b \div 64) % 64,
           IF Len(bytes) < 3 THEN Pad ELSE b % 64 >>

base64url_encode(bytes) ==
    LET groups == (Len(bytes) + 2) \div 3
    IN  FlattenSeq([g \in 1 .. groups |->
            EncodeGroup(SubSeq(bytes, 3 * g - 2, IF 3 * g < Len(bytes) THEN 3 * g ELSE Len(bytes)))])

\* The characters before the first that is none of the table.
Digits(chars) ==
    LET bad == {i \in 1 .. Len(chars) : chars[i] = Pad}
    IN  IF bad = {} THEN chars
        ELSE SubSeq(chars, 1, (CHOOSE i \in bad : \A j \in bad : i <= j) - 1)

\* The three bytes of a group: the digits it has, not moved up when they are
\* fewer than four.
DecodeGroup(digits) ==
    LET b == Number(64, digits)
    IN  << (b \div 65536) % 256, (b \div 256) % 256, b % 256 >>

\* The bytes base64url_decode stores: of all groups the first DecodeCap.
base64url_decode(chars) ==
    LET in == Digits(chars)
        groups == (Len(in) + 3) \div 4
        decoded == FlattenSeq([g \in 1 .. groups |->
            DecodeGroup(SubSeq(in, 4 * g - 3, IF 4 * g < Len(in) THEN 4 * g ELSE Len(in)))])
    IN  SubSeq(decoded, 1, IF Len(decoded) < DecodeCap THEN Len(decoded) ELSE DecodeCap)
=============================================================================
