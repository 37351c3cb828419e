----------------------------- MODULE Serializer -----------------------------
(***************************************************************************)
(* serializer.c: objects as frames, and the way back of runtime.c.  A frame *)
(* is a header, a payload and the CRC of the payload; a CRC stands for the *)
(* payload it was computed from, so that two payloads never share one.     *)
(* The decode functions of serializer.c all answer NULL or -1: only the    *)
(* runtime reads frames, and it has no reader for bytes.                   *)
(***************************************************************************)
EXTENDS Naturals, SequencesExt

CONSTANTS
    NUL,        \* the zero byte, which ends a C string
    Ruined      \* a payload after a byte of it changed

Kinds == {"vector", "list", "string", "map"}

\* A map is written without its entries.
Written(o) == IF o.kind = "map" THEN [o EXCEPT !.elems = <<>>] ELSE o

serializer_encode(o) == [payload |-> Written(o), crc |-> Written(o)]

\* Mutant: the frame is taken without a look at its CRC.
AlwaysValid(f) == TRUE

serializer_validate(f) == f.crc = f.payload

\* string_append stops at the first zero byte.
CString(s) == SubSeq(s, 1, SelectInSeq(s, LAMBDA c : c = NUL) - 1)

Text(s) == IF Contains(s, NUL) THEN CString(s) ELSE s

\* What a load makes of a payload: in a vector or a list a push that fails is not
\* noticed, and once one fails for want of memory so do those after it; a string has
\* its room before it is filled, a map is not filled.
Restored(p, enough) ==
    IF p.kind = "string" THEN {Text(p.elems)}
    ELSE IF enough THEN {p.elems}
    ELSE Prefixes(p.elems)
=============================================================================
