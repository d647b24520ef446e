-------------------------------- MODULE Tea --------------------------------
(***************************************************************************)
(* The Tiny Encryption Algorithm that task 4 enciphers with and task 6     *)
(* deciphers with: task4_174/tea.c and task6_174/TEA-2.c.                  *)
(*                                                                         *)
(* A block is two words <<y, z>>; the state of the loop is <<y, z, sum>>.  *)
(* The bitwise exclusive or is a parameter: the cipher can be deciphered   *)
(* whatever it is.                                                         *)
(***************************************************************************)
EXTENDS Integers

CONSTANTS WordSize,      \* 2^32: the words are unsigned and wrap
          Rounds,        \* n = 32
          Delta,         \* 0x9E3779B9
          StartSum,      \* 0xC6EF3720, where the sum of decipher starts
          LeftFactor,    \* 2^4: << 4 multiplies by it
          RightFactor,   \* 2^5: >> 5 divides by it
          Exclusive(_, _) \* ^

Word == 0..(WordSize - 1)

ASSUME SizeAssumption ==
  /\ WordSize \in Nat \ {0} /\ Rounds \in Nat /\ Delta \in Word
  /\ LeftFactor \in Nat \ {0} /\ RightFactor \in Nat \ {0}
ASSUME ExclusiveAssumption == \A x, y \in Word : Exclusive(x, y) \in Word

(* "sum = delta<<5, in general sum = delta * n" (TEA-2.c:65)               *)
ASSUME StartSumAssumption == StartSum = (Rounds * Delta) % WordSize

State == Word \X Word \X Word
Block == Word \X Word
Key   == [0..3 -> Word]

Plus(x, y)  == (x + y) % WordSize
Minus(x, y) == (x - y) % WordSize

(* (x << 4) + p ^ x + sum ^ (x >> 5) + q, where + binds tighter than ^: x  *)
(* mixed with the sum and two words of the key.                            *)
Mix(x, sum, p, q) ==
  Exclusive(Exclusive(Plus(x * LeftFactor, p), Plus(x, sum)), Plus(x \div RightFactor, q))

(* The body of the loop of encipher: z is mixed with the new y.            *)
Round(k) == [s \in State |->
  LET sum == Plus(s[3], Delta)
      y   == Plus(s[1], Mix(s[2], sum, k[0], k[1]))
      z   == Plus(s[2], Mix(y, sum, k[2], k[3]))
  IN <<y, z, sum>>]

(* Bug: the two halves in the order of encipher. *)
Unround_SameOrder(k) == [s \in State |->
  LET y == Minus(s[1], Mix(s[2], s[3], k[0], k[1]))
      z == Minus(s[2], Mix(y, s[3], k[2], k[3]))
  IN <<y, z, Minus(s[3], Delta)>>]

(* The body of the loop of decipher. *)
Unround(k) == [s \in State |->
  LET z == Minus(s[2], Mix(s[1], s[3], k[2], k[3]))
      y == Minus(s[1], Mix(z, s[3], k[0], k[1]))
  IN <<y, z, Minus(s[3], Delta)>>]

(* The states of the two loops, from before the first round to the last.   *)
EncipherStates(v, k) ==
  LET st[n \in 0..Rounds] == IF n = 0 THEN <<v[1], v[2], 0>> ELSE Round(k)[st[n - 1]]
  IN st

DecipherStates(v, k) ==
  LET st[n \in 0..Rounds] == IF n = 0 THEN <<v[1], v[2], StartSum>> ELSE Unround(k)[st[n - 1]]
  IN st

encipher(v, k) == LET s == EncipherStates(v, k)[Rounds] IN <<s[1], s[2]>>
decipher(v, k) == LET s == DecipherStates(v, k)[Rounds] IN <<s[1], s[2]>>
=============================================================================
