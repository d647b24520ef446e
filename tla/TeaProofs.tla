----------------------------- MODULE TeaProofs -----------------------------
(***************************************************************************)
(* Deciphering undoes enciphering, for every number of rounds, every word  *)
(* size and every key.                                                     *)
(***************************************************************************)
EXTENDS Tea, SetInduction

-----------------------------------------------------------------------------
(* Words *)

LEMMA ModBounds ==
  ASSUME NEW a \in Int
  PROVE  a % WordSize \in Word
BY SizeAssumption DEF Word

LEMMA ModUnique ==
  ASSUME NEW a \in Int, NEW r \in Word, NEW q \in Int, a = q * WordSize + r
  PROVE  a % WordSize = r
BY SizeAssumption DEF Word

LEMMA ModDivides ==
  ASSUME NEW a \in Int
  PROVE  \E q \in Int : a = q * WordSize + (a % WordSize)
<1>1. a \div WordSize \in Int /\ a = (a \div WordSize) * WordSize + (a % WordSize)
  BY SizeAssumption
<1> QED
  BY <1>1

(* Subtracting what was added to a word gives the word back.               *)
LEMMA MinusPlus ==
  ASSUME NEW x \in Word, NEW m \in Word
  PROVE  Minus(Plus(x, m), m) = x
<1>1. x \in Int /\ m \in Int /\ WordSize \in Int
  BY SizeAssumption DEF Word
<1> DEFINE r == Plus(x, m)
<1>2. CASE x + m < WordSize
  <2>1. x + m \in Word /\ x + m = 0 * WordSize + (x + m)
    BY <1>1, <1>2, SizeAssumption DEF Word
  <2>2. r = x + m
    BY <1>1, <2>1, ModUnique DEF Plus
  <2>3. r - m = 0 * WordSize + x
    BY <1>1, <2>2
  <2> QED
    BY <1>1, <2>2, <2>3, ModUnique DEF Minus
<1>3. CASE ~(x + m < WordSize)
  <2> DEFINE sum == x + m
             rest == x + m - WordSize
  <2>1. rest \in Word /\ sum \in Int /\ sum = 1 * WordSize + rest
    BY <1>1, <1>3, SizeAssumption DEF Word
  <2>2. sum % WordSize = rest
    <3> HIDE DEF sum, rest
    <3> QED
      BY <2>1, ModUnique
  <2>3. r = rest
    BY <2>2 DEF Plus
  <2>4. r - m \in Int /\ r - m = (-1) * WordSize + x
    BY <1>1, <2>3
  <2>5. (r - m) % WordSize = x
    <3> HIDE DEF r
    <3> QED
      BY <1>1, <2>4, ModUnique
  <2> QED
    BY <2>5 DEF Minus
<1> QED
  BY <1>2, <1>3

LEMMA PlusWord ==
  ASSUME NEW x \in Int, NEW m \in Int
  PROVE  Plus(x, m) \in Word /\ Minus(x, m) \in Word
BY ModBounds DEF Plus, Minus

LEMMA MixWord ==
  ASSUME NEW x \in Word, NEW sum \in Word, NEW p \in Word, NEW q \in Word
  PROVE  Mix(x, sum, p, q) \in Word
<1>1. {x, sum, p, q} \subseteq Int
  BY SizeAssumption DEF Word
<1>2. x * LeftFactor \in Int /\ x \div RightFactor \in Int
  BY <1>1, SizeAssumption
<1>3. /\ Plus(x * LeftFactor, p) \in Word
      /\ Plus(x, sum) \in Word
      /\ Plus(x \div RightFactor, q) \in Word
  BY <1>1, <1>2, PlusWord
<1> QED
  BY <1>3, ExclusiveAssumption DEF Mix

(* The sum of the next round. *)
LEMMA NextSum ==
  ASSUME NEW n \in Nat
  PROVE  Plus((n * Delta) % WordSize, Delta) = ((n + 1) * Delta) % WordSize
<1>1. Delta \in Int /\ WordSize \in Int /\ WordSize > 0 /\ n * Delta \in Int
  BY SizeAssumption DEF Word
<1> DEFINE a == n * Delta
           r == a % WordSize
           s == (r + Delta) % WordSize
<1>2. (n + 1) * Delta = a + Delta
  BY <1>1
<1> HIDE DEF a
<1>0. a \in Int
  BY <1>1 DEF a
<1>3. PICK q \in Int : a = q * WordSize + r
  BY <1>0, ModDivides
<1>4. r \in Int
  BY <1>0, ModBounds, SizeAssumption DEF Word
<1> HIDE DEF r
<1>5. PICK t \in Int : r + Delta = t * WordSize + s
  BY <1>1, <1>4, ModDivides
<1>6. s \in Word
  BY <1>1, <1>4, ModBounds
<1> HIDE DEF s
<1>7. a + Delta = (q + t) * WordSize + s
  BY <1>1, <1>3, <1>4, <1>5, <1>6 DEF Word
<1>8. a + Delta \in Int /\ q + t \in Int
  BY <1>1, <1>3, <1>4, <1>5 DEF a
<1>9. (a + Delta) % WordSize = s
  BY <1>6, <1>7, <1>8, ModUnique
<1> QED
  BY <1>2, <1>9 DEF a, r, s, Plus

-----------------------------------------------------------------------------
(* Rounds *)

LEMMA RoundTyped ==
  ASSUME NEW k \in Key, NEW s \in State
  PROVE  Round(k)[s] \in State /\ Unround(k)[s] \in State
<1>1. /\ {s[1], s[2], s[3]} \subseteq Word
      /\ {k[0], k[1], k[2], k[3]} \subseteq Word
  BY DEF State, Key
<1>2. Word \subseteq Int
  BY SizeAssumption DEF Word
<1>3. Round(k)[s] \in State
  <2> DEFINE sum == Plus(s[3], Delta)
             y   == Plus(s[1], Mix(s[2], sum, k[0], k[1]))
             z   == Plus(s[2], Mix(y, sum, k[2], k[3]))
  <2>1. sum \in Word
    BY <1>1, <1>2, PlusWord, SizeAssumption
  <2> HIDE DEF sum
  <2>2. Mix(s[2], sum, k[0], k[1]) \in Word
    BY <1>1, <2>1, MixWord
  <2>3. y \in Word
    BY <1>1, <1>2, <2>2, PlusWord
  <2> HIDE DEF y
  <2>4. Mix(y, sum, k[2], k[3]) \in Word
    BY <1>1, <2>1, <2>3, MixWord
  <2>5. z \in Word
    BY <1>1, <1>2, <2>4, PlusWord
  <2> HIDE DEF z
  <2>6. <<y, z, sum>> \in State
    BY <2>1, <2>3, <2>5 DEF State
  <2> QED
    BY <2>6 DEF Round, y, z, sum
<1>4. Unround(k)[s] \in State
  <2> DEFINE z == Minus(s[2], Mix(s[1], s[3], k[2], k[3]))
             y == Minus(s[1], Mix(z, s[3], k[0], k[1]))
             sum == Minus(s[3], Delta)
  <2>1. sum \in Word
    BY <1>1, <1>2, PlusWord, SizeAssumption
  <2> HIDE DEF sum
  <2>2. Mix(s[1], s[3], k[2], k[3]) \in Word
    BY <1>1, MixWord
  <2>3. z \in Word
    BY <1>1, <1>2, <2>2, PlusWord
  <2> HIDE DEF z
  <2>4. Mix(z, s[3], k[0], k[1]) \in Word
    BY <1>1, <2>3, MixWord
  <2>5. y \in Word
    BY <1>1, <1>2, <2>4, PlusWord
  <2> HIDE DEF y
  <2>6. <<y, z, sum>> \in State
    BY <2>1, <2>3, <2>5 DEF State
  <2> QED
    BY <2>6 DEF Unround, y, z, sum
<1> QED
  BY <1>3, <1>4

(* A round of decipher takes a round of encipher back (tea.c:7-9,          *)
(* TEA-2.c:69-71): it subtracts in the opposite order, and what it mixes   *)
(* for the second half is the half it has just restored.                   *)
THEOREM UnroundUndoesRound ==
  ASSUME NEW k \in Key, NEW s \in State
  PROVE  Unround(k)[Round(k)[s]] = s
<1> DEFINE sum == Plus(s[3], Delta)
           my  == Mix(s[2], sum, k[0], k[1])
           y   == Plus(s[1], my)
           mz  == Mix(y, sum, k[2], k[3])
           z   == Plus(s[2], mz)
<1>1. /\ s[1] \in Word /\ s[2] \in Word /\ s[3] \in Word
      /\ k[0] \in Word /\ k[1] \in Word /\ k[2] \in Word /\ k[3] \in Word
      /\ s = <<s[1], s[2], s[3]>>
  BY DEF State, Key
<1>2. Word \subseteq Int
  BY SizeAssumption DEF Word
<1>3. sum \in Word /\ Minus(sum, Delta) = s[3]
  BY <1>1, <1>2, PlusWord, MinusPlus, SizeAssumption
<1> HIDE DEF sum
<1>4. my \in Word
  BY <1>1, <1>3, MixWord
<1> HIDE DEF my
<1>5. y \in Word /\ Minus(y, my) = s[1]
  BY <1>1, <1>2, <1>4, PlusWord, MinusPlus
<1> HIDE DEF y
<1>6. mz \in Word
  BY <1>1, <1>3, <1>5, MixWord
<1> HIDE DEF mz
<1>7. z \in Word /\ Minus(z, mz) = s[2]
  BY <1>1, <1>2, <1>6, PlusWord, MinusPlus
<1> HIDE DEF z
<1>8. Round(k)[s] = <<y, z, sum>>
  BY DEF Round, y, z, sum, my, mz
<1>9. <<y, z, sum>> \in State
  BY <1>3, <1>5, <1>7 DEF State
<1>10. Unround(k)[<<y, z, sum>>] =
         <<Minus(y, Mix(Minus(z, mz), sum, k[0], k[1])), Minus(z, mz), Minus(sum, Delta)>>
  BY <1>9 DEF Unround, mz
<1>11. Unround(k)[<<y, z, sum>>] = <<s[1], s[2], s[3]>>
  BY <1>3, <1>5, <1>7, <1>10 DEF my
<1> QED
  BY <1>1, <1>8, <1>11

(* g are the states of a loop that repeats f, N times from state s0.       *)
IsLoop(g, f, s0, N) == g = [n \in 0..N |-> IF n = 0 THEN s0 ELSE f[g[n - 1]]]

(* This recursive definition has a solution, by induction on the number of *)
(* rounds.                                                                 *)
LEMMA LoopDefined ==
  ASSUME NEW f \in [State -> State], NEW s0 \in State, NEW N \in Nat
  PROVE  \E g : IsLoop(g, f, s0, N)
<1> DEFINE Good(g, m) == IsLoop(g, f, s0, m)
           S == {m \in Nat : \E g \in [0..m -> State] : Good(g, m)}
<1>1. 0 \in S
  <2> DEFINE g == [n \in 0..0 |-> s0]
  <2>1. g \in [0..0 -> State] /\ Good(g, 0)
    BY DEF IsLoop
  <2> QED
    BY <2>1
<1>2. ASSUME NEW m \in Nat, m \in S
      PROVE  m + 1 \in S
  <2>1. PICK g \in [0..m -> State] : Good(g, m)
    BY <1>2
  <2> DEFINE h == [n \in 0..(m + 1) |-> IF n = m + 1 THEN f[g[m]] ELSE g[n]]
  <2>2. g[m] \in State /\ f[g[m]] \in State
    BY <2>1
  <2>3. h \in [0..(m + 1) -> State]
    BY <2>1, <2>2
  <2>4. ASSUME NEW n \in 0..(m + 1)
        PROVE  h[n] = IF n = 0 THEN s0 ELSE f[h[n - 1]]
    <3>1. CASE n = m + 1
      <4>1. n # 0 /\ n - 1 = m /\ n - 1 \in 0..(m + 1) /\ m # m + 1
        BY <3>1
      <4>2. h[n] = f[g[m]] /\ h[n - 1] = g[m]
        BY <3>1, <4>1
      <4> QED
        BY <4>1, <4>2
    <3>2. CASE n # m + 1
      <4>1. n \in 0..m /\ (n # 0 => n - 1 \in 0..(m + 1) /\ n - 1 # m + 1)
        BY <3>2
      <4>2. h[n] = g[n] /\ (n # 0 => h[n - 1] = g[n - 1])
        BY <3>2, <4>1
      <4>3. g[n] = IF n = 0 THEN s0 ELSE f[g[n - 1]]
        BY <2>1, <4>1 DEF IsLoop
      <4> QED
        BY <4>2, <4>3
    <3> QED
      BY <3>1, <3>2
  <2>5. Good(h, m + 1)
    BY <2>4 DEF IsLoop
  <2> HIDE DEF Good, h
  <2> QED
    BY <2>3, <2>5
<1>3. N \in S
  <2>1. \A m \in Nat : m \in S => m + 1 \in S
    BY <1>2
  <2> HIDE DEF S
  <2> QED
    BY <1>1, <2>1, NumberInduction
<1> QED
  BY <1>3

(* And every solution has these states. *)
LEMMA LoopStates ==
  ASSUME NEW f \in [State -> State], NEW s0 \in State, NEW N \in Nat,
         NEW st, IsLoop(st, f, s0, N)
  PROVE  /\ st \in [0..N -> State]
         /\ st[0] = s0
         /\ \A n \in 1..N : st[n] = f[st[n - 1]]
<1> DEFINE next(n) == IF n = 0 THEN s0 ELSE f[st[n - 1]]
<1>6. st = [n \in 0..N |-> next(n)]
  BY DEF IsLoop
<1> HIDE DEF next
<1>5. DOMAIN st = 0..N /\ \A n \in 0..N : st[n] = next(n)
  BY <1>6
<1>7. st[0] = s0
  BY <1>5 DEF next
<1>8. \A n \in 1..N : st[n] = f[st[n - 1]]
  <2> SUFFICES ASSUME NEW n \in 1..N PROVE st[n] = f[st[n - 1]]
    OBVIOUS
  <2>1. n \in 0..N /\ n # 0
    OBVIOUS
  <2> QED
    BY <1>5, <2>1 DEF next
<1> DEFINE T == {n \in Nat : n \in 0..N => st[n] \in State}
<1>9. 0 \in T
  BY <1>7
<1>10. \A n \in Nat : n \in T => n + 1 \in T
  <2> SUFFICES ASSUME NEW n \in Nat, n \in T, n + 1 \in 0..N PROVE st[n + 1] \in State
    OBVIOUS
  <2>1. n + 1 \in 1..N /\ n \in 0..N /\ (n + 1) - 1 = n
    OBVIOUS
  <2>2. st[n] \in State
    BY <2>1
  <2>3. st[n + 1] = f[st[n]]
    BY <1>8, <2>1
  <2> QED
    BY <2>2, <2>3
<1>11. \A n \in 0..N : st[n] \in State
  <2>1. Nat \subseteq T
    <3> HIDE DEF T
    <3> QED
      BY <1>9, <1>10, NumberInduction
  <2>2. \A n \in 0..N : n \in T
    BY <2>1
  <2> QED
    BY <2>2
<1>12. st \in [0..N -> State]
  BY <1>6, <1>11
<1> QED
  BY <1>7, <1>8, <1>12

(* The functions that the two loops repeat. *)
LEMMA RoundFunctions ==
  ASSUME NEW k \in Key
  PROVE  Round(k) \in [State -> State] /\ Unround(k) \in [State -> State]
<1>1. \A s \in State : Round(k)[s] \in State /\ Unround(k)[s] \in State
  BY RoundTyped
<1>2. Round(k) = [s \in State |-> Round(k)[s]] /\ Unround(k) = [s \in State |-> Unround(k)[s]]
  BY DEF Round, Unround
<1> QED
  BY <1>1, <1>2

LEMMA EncipherLoop ==
  ASSUME NEW k \in Key, NEW v \in Block
  PROVE  LET st == EncipherStates(v, k)
         IN /\ st \in [0..Rounds -> State]
            /\ st[0] = <<v[1], v[2], 0>>
            /\ \A n \in 1..Rounds : st[n] = Round(k)[st[n - 1]]
<1>1. <<v[1], v[2], 0>> \in State
  BY SizeAssumption DEF Block, State, Word
<1>2. Rounds \in Nat
  BY SizeAssumption
<1> DEFINE f  == Round(k)
           s0 == <<v[1], v[2], 0>>
           st == EncipherStates(v, k)
<1>3. st = CHOOSE g : IsLoop(g, f, s0, Rounds)
  BY DEF EncipherStates, IsLoop
<1>4. f \in [State -> State]
  BY RoundFunctions
<1> HIDE DEF f, s0, st
<1>5. s0 \in State
  BY <1>1 DEF s0
<1>6. \E g : IsLoop(g, f, s0, Rounds)
  BY <1>2, <1>4, <1>5, LoopDefined
<1>7. IsLoop(st, f, s0, Rounds)
  BY <1>3, <1>6
<1>8. /\ st \in [0..Rounds -> State]
      /\ st[0] = s0
      /\ \A n \in 1..Rounds : st[n] = f[st[n - 1]]
  BY <1>2, <1>4, <1>5, <1>7, LoopStates
<1> QED
  BY <1>8 DEF f, s0, st

LEMMA DecipherLoop ==
  ASSUME NEW k \in Key, NEW v \in Block
  PROVE  LET st == DecipherStates(v, k)
         IN /\ st \in [0..Rounds -> State]
            /\ st[0] = <<v[1], v[2], StartSum>>
            /\ \A n \in 1..Rounds : st[n] = Unround(k)[st[n - 1]]
<1>0. StartSum \in Word
  BY StartSumAssumption, SizeAssumption, ModBounds DEF Word
<1>1. <<v[1], v[2], StartSum>> \in State
  BY <1>0 DEF Block, State
<1>2. Rounds \in Nat
  BY SizeAssumption
<1> DEFINE f  == Unround(k)
           s0 == <<v[1], v[2], StartSum>>
           st == DecipherStates(v, k)
<1>3. st = CHOOSE g : IsLoop(g, f, s0, Rounds)
  BY DEF DecipherStates, IsLoop
<1>4. f \in [State -> State]
  BY RoundFunctions
<1> HIDE DEF f, s0, st
<1>5. s0 \in State
  BY <1>1 DEF s0
<1>6. \E g : IsLoop(g, f, s0, Rounds)
  BY <1>2, <1>4, <1>5, LoopDefined
<1>7. IsLoop(st, f, s0, Rounds)
  BY <1>3, <1>6
<1>8. /\ st \in [0..Rounds -> State]
      /\ st[0] = s0
      /\ \A n \in 1..Rounds : st[n] = f[st[n - 1]]
  BY <1>2, <1>4, <1>5, <1>7, LoopStates
<1> QED
  BY <1>8 DEF f, s0, st

-----------------------------------------------------------------------------
(* The whole cipher *)

LEMMA CipherTyped ==
  ASSUME NEW k \in Key, NEW v \in Block
  PROVE  encipher(v, k) \in Block /\ decipher(v, k) \in Block
<1>1. EncipherStates(v, k)[Rounds] \in State /\ DecipherStates(v, k)[Rounds] \in State
  BY EncipherLoop, DecipherLoop, SizeAssumption
<1> QED
  BY <1>1 DEF encipher, decipher, State, Block

(* The sum of encipher after n rounds: "sum = delta * n" (TEA-2.c:65).     *)
LEMMA SumAfter ==
  ASSUME NEW k \in Key, NEW v \in Block
  PROVE  \A n \in 0..Rounds : EncipherStates(v, k)[n][3] = (n * Delta) % WordSize
<1> DEFINE st == EncipherStates(v, k)
           S == {n \in Nat : n \in 0..Rounds => st[n][3] = (n * Delta) % WordSize}
<1>1. 0 \in S
  <2>1. 0 * Delta = 0 /\ 0 % WordSize = 0
    BY SizeAssumption DEF Word
  <2> QED
    BY <2>1, EncipherLoop
<1>2. \A n \in Nat : n \in S => n + 1 \in S
  <2> SUFFICES ASSUME NEW n \in Nat, n \in S, n + 1 \in 0..Rounds
               PROVE  st[n + 1][3] = ((n + 1) * Delta) % WordSize
    OBVIOUS
  <2>1. n + 1 \in 1..Rounds /\ n \in 0..Rounds /\ (n + 1) - 1 = n
    BY SizeAssumption
  <2>2. st[n + 1] = Round(k)[st[n]] /\ st[n] \in State
    BY <2>1, EncipherLoop
  <2>3. st[n + 1][3] = Plus(st[n][3], Delta)
    <3> HIDE DEF st
    <3> QED
      BY <2>2 DEF Round
  <2> QED
    BY <2>1, <2>3, NextSum
<1>3. Nat \subseteq S
  <2> HIDE DEF S
  <2> QED
    BY <1>1, <1>2, NumberInduction
<1> QED
  BY <1>3

(* Deciphering a block under the key it was enciphered with gives the      *)
(* block back, whatever the number of rounds, the constant delta and the   *)
(* mixing, as long as the sum of decipher starts where that of encipher    *)
(* ends (tea.c:4-12, TEA-2.c:58-76).                                       *)
THEOREM DecipherUndoesEncipher ==
  ASSUME NEW k \in Key, NEW v \in Block
  PROVE  decipher(encipher(v, k), k) = v
<1> DEFINE e == EncipherStates(v, k)
           w == encipher(v, k)
           d == DecipherStates(w, k)
           S == {n \in Nat : n \in 0..Rounds => d[n] = e[Rounds - n]}
<1>0. Rounds \in Nat /\ w \in Block
  BY SizeAssumption, CipherTyped
<1>1. /\ e \in [0..Rounds -> State] /\ e[0] = <<v[1], v[2], 0>>
      /\ \A n \in 1..Rounds : e[n] = Round(k)[e[n - 1]]
  BY EncipherLoop
<1>2. /\ d \in [0..Rounds -> State] /\ d[0] = <<w[1], w[2], StartSum>>
      /\ \A n \in 1..Rounds : d[n] = Unround(k)[d[n - 1]]
  <2> HIDE DEF w
  <2> QED
    BY <1>0, DecipherLoop
<1>3. w = <<e[Rounds][1], e[Rounds][2]>>
  BY DEF encipher
<1>4. e[Rounds][3] = StartSum
  BY <1>0, SumAfter, StartSumAssumption
<1>5. e[Rounds] \in State
  BY <1>0, <1>1
<1> HIDE DEF e, w, d
<1>6. e[Rounds] = <<w[1], w[2], StartSum>>
  BY <1>3, <1>4, <1>5 DEF State
<1>7. 0 \in S
  BY <1>0, <1>2, <1>6
<1>8. \A n \in Nat : n \in S => n + 1 \in S
  <2> SUFFICES ASSUME NEW n \in Nat, n \in S, n + 1 \in 0..Rounds
               PROVE  d[n + 1] = e[Rounds - (n + 1)]
    OBVIOUS
  <2> DEFINE m == Rounds - (n + 1)
  <2>1. /\ n \in 0..Rounds /\ n + 1 \in 1..Rounds /\ (n + 1) - 1 = n
        /\ m \in 0..Rounds /\ m + 1 \in 1..Rounds /\ (m + 1) - 1 = m /\ Rounds - n = m + 1
    BY <1>0
  <2>2. d[n + 1] = Unround(k)[e[m + 1]]
    BY <1>2, <2>1
  <2> HIDE DEF m
  <2>3. e[m + 1] = Round(k)[e[m]] /\ e[m] \in State
    BY <1>1, <2>1
  <2> QED
    BY <2>2, <2>3, UnroundUndoesRound DEF m
<1>9. Nat \subseteq S
  <2> HIDE DEF S
  <2> QED
    BY <1>7, <1>8, NumberInduction
<1>10. d[Rounds] = e[0]
  BY <1>0, <1>9
<1>11. decipher(w, k) = <<v[1], v[2]>>
  BY <1>1, <1>10 DEF decipher, d
<1> QED
  BY <1>11 DEF w, Block

(* The constants of the code satisfy the assumption: 32 deltas, modulo     *)
(* 2^32, are 0xC6EF3720 (TEA-2.c:61-63).                                   *)
THEOREM StartSumOfTheCode == (32 * 2654435769) % 4294967296 = 3337565984
OBVIOUS
=============================================================================
