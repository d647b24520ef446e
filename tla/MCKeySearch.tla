---------------------------- MODULE MCKeySearch ----------------------------
(***************************************************************************)
(* KeySearch for TLC, scaled down: bytes of 3 bits, words of two bytes, so *)
(* blocks of four, a cipher of three rounds with the shifts 1 and 2, eight *)
(* keys.  Bytes 5 and 6 are printable, 7 is not, 1 to 4 are the paddings.  *)
(***************************************************************************)
EXTENDS KeySearch, Bitwise

XorTable == [x \in Word |-> [y \in Word |-> x ^^ y]]
BitXor(x, y) == XorTable[x][y]

(* The lower byte comes first in memory. *)
LittleEndian(b) == b[1] + ByteSize * b[2]
BytesOfWord(w)  == <<w % ByteSize, w \div ByteSize>>

Prose(n, last) == [i \in 1..n |-> IF i = n THEN last ELSE 5 + (i % 2)]

MCTexts   == {Prose(n, 5) : n \in {0, 2, 3, 4, 7, 12, 13}} \cup {Prose(12, 7)}
MCHttp    == <<1, 5, 5>>
MCTerminator == <<6, 6>>
MCHeaders == {<<>>, <<1, 5, 5, 2, 6, 6>>}
=============================================================================
