------------------------------ MODULE Padding ------------------------------
(***************************************************************************)
(* PKCS#5 padding: task 4 pads a file to whole blocks before it is         *)
(* enciphered, task 6 takes the padding off what it deciphered.            *)
(***************************************************************************)
EXTENDS Integers, Sequences

CONSTANTS ByteSize,    \* 2^8
          BlockSize    \* TEA_BLOCK_SIZE: 8

Byte == 0..(ByteSize - 1)

ASSUME BlockAssumption == ByteSize \in Nat /\ BlockSize \in Nat \ {0} /\ BlockSize < ByteSize

(* 1 to BlockSize bytes that hold their own number.  The case that the     *)
(* code handles apart, pad_len = 0, does not occur: a remainder is less    *)
(* than BlockSize.                                                         *)
pkcs5_pad(data) ==
  LET pad_len == BlockSize - (Len(data) % BlockSize)
  IN data \o [i \in 1..pad_len |-> pad_len]

(* How many bytes of data are left without their padding: all of them if   *)
(* the last byte is no length of a padding, or the bytes before it differ. *)
(* Data that is not empty has at least a block: what the caller passes is  *)
(* whole blocks.                                                           *)
remove_pkcs5_padding(data) ==
  LET n == Len(data)
      padding_value == data[n]
  IN IF /\ n > 0
        /\ padding_value \in 1..BlockSize
        /\ \A i \in 1..padding_value : data[n + 1 - i] = padding_value
     THEN n - padding_value
     ELSE n
=============================================================================
