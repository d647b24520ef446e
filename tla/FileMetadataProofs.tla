------------------------- MODULE FileMetadataProofs -------------------------
(***************************************************************************)
(* The passes of task 2, for every file and every size of the numbers.     *)
(***************************************************************************)
EXTENDS FileMetadata, SetInduction, SequenceTheorems, FiniteSetTheorems

LEMMA SizeFacts ==
  /\ CharSize \in Nat /\ CharSize > 0 /\ HashSize \in Nat /\ HashSize > 0
  /\ CharSize \div 2 \in Int /\ CharSize = 2 * (CharSize \div 2) /\ HashSize \div 2 \in Int
BY CharAssumption

-----------------------------------------------------------------------------
(* Numbers that wrap *)

LEMMA HashRange ==
  ASSUME NEW a \in Int
  PROVE  a % HashSize \in 0..(HashSize - 1)
BY SizeFacts

LEMMA HashUnique ==
  ASSUME NEW a \in Int, NEW r \in 0..(HashSize - 1), NEW q \in Int, a = q * HashSize + r
  PROVE  a % HashSize = r
BY SizeFacts

LEMMA HashDivides ==
  ASSUME NEW a \in Int
  PROVE  \E q \in Int : a = q * HashSize + (a % HashSize)
<1>1. a \div HashSize \in Int /\ a = (a \div HashSize) * HashSize + (a % HashSize)
  BY SizeFacts
<1> QED
  BY <1>1

LEMMA CharRange ==
  ASSUME NEW x \in Int
  PROVE  Char(x) \in -(CharSize \div 2)..(CharSize \div 2 - 1)
<1> DEFINE y == x + CharSize \div 2
<1>1. y \in Int
  BY SizeFacts
<1> HIDE DEF y
<1>2. y % CharSize \in 0..(CharSize - 1)
  BY <1>1, SizeFacts
<1> QED
  BY <1>2, SizeFacts DEF Char, y

(* Numbers that differ by a multiple of HashSize have the same bits. *)
LEMMA SameBits ==
  ASSUME NEW a \in Int, NEW b \in Int, NEW q \in Int, a = b + q * HashSize
  PROVE  a % HashSize = b % HashSize
<1>1. PICK t \in Int : b = t * HashSize + (b % HashSize)
  BY HashDivides
<1> DEFINE r == b % HashSize
<1>2. r \in 0..(HashSize - 1)
  BY HashRange
<1> HIDE DEF r
<1>3. a = (t + q) * HashSize + r /\ t + q \in Int
  BY <1>1, <1>2, SizeFacts DEF r
<1>4. a % HashSize = r
  BY <1>2, <1>3, HashUnique
<1> QED
  BY <1>4 DEF r

(* The conversion to int keeps the bits. *)
LEMMA IntBits ==
  ASSUME NEW x \in Int
  PROVE  ToInt(x) \in Int /\ \E q \in Int : ToInt(x) = x + q * HashSize
<1> DEFINE y == x + HashSize \div 2
           r == y % HashSize
<1>1. y \in Int
  BY SizeFacts
<1>2. PICK q \in Int : y = q * HashSize + r
  BY <1>1, HashDivides
<1>3. r \in Int
  <2> HIDE DEF y
  <2> QED
    BY <1>1, HashRange, SizeFacts
<1>4. ToInt(x) = r - HashSize \div 2
  BY DEF ToInt
<1> HIDE DEF r
<1> DEFINE p == -q
<1>5. p \in Int /\ ToInt(x) = x + p * HashSize
  BY <1>2, <1>3, <1>4, SizeFacts
<1>6. ToInt(x) \in Int
  BY <1>3, <1>4, SizeFacts
<1> HIDE DEF p
<1> QED
  BY <1>5, <1>6

(* One step of the two hashes: equal bits stay equal. *)
LEMMA NextBits ==
  ASSUME NEW h \in Int, NEW c \in Int
  PROVE  ToInt(h * 33 + Char(c)) % HashSize = HashNext(h % HashSize, c)
<1> DEFINE d == Char(c)
           r == h % HashSize
           x == h * 33 + d
           y == r * 33 + d
<1>1. d \in Int
  BY CharRange, SizeFacts
<1> HIDE DEF d
<1>2. r \in Int
  BY HashRange, SizeFacts
<1>3. PICK t \in Int : h = t * HashSize + r
  BY HashDivides
<1> HIDE DEF r
<1>4. x \in Int /\ y \in Int
  BY <1>1, <1>2
<1>5. PICK q \in Int : ToInt(x) = x + q * HashSize
  BY <1>4, IntBits
<1>6. x = y + (33 * t) * HashSize
  BY <1>1, <1>2, <1>3, SizeFacts
<1>7. ToInt(x) \in Int
  BY <1>4, IntBits
<1>8. ToInt(x) = y + (33 * t + q) * HashSize /\ 33 * t + q \in Int
  <2> HIDE DEF x, y
  <2>1. (33 * t) * HashSize + q * HashSize = (33 * t + q) * HashSize
    BY SizeFacts
  <2> QED
    BY <1>4, <1>5, <1>6, <2>1, SizeFacts
<1> HIDE DEF x, y
<1>9. ToInt(x) % HashSize = y % HashSize
  BY <1>4, <1>7, <1>8, SameBits
<1> QED
  BY <1>9 DEF x, y, d, r, HashNext

-----------------------------------------------------------------------------
(* Along a text *)

(* at are the values of the definition in Along. *)
IsAlong(at, f, start, text) ==
  at = [n \in 0..Len(text) |-> IF n = 0 THEN start ELSE f[<<at[n - 1], text[n]>>]]

(* The definition has a solution, by induction on the length of the text.  *)
LEMMA AlongDefined ==
  ASSUME NEW f, NEW start, NEW text, Len(text) \in Nat
  PROVE  \E at : IsAlong(at, f, start, text)
<1> DEFINE Good(g, m) == g = [n \in 0..m |-> IF n = 0 THEN start ELSE f[<<g[n - 1], text[n]>>]]
           S == {m \in Nat : \E g : Good(g, m)}
<1>1. 0 \in S
  <2> DEFINE g == [n \in 0..0 |-> start]
  <2>1. Good(g, 0)
    OBVIOUS
  <2> QED
    BY <2>1
<1>2. ASSUME NEW m \in Nat, m \in S
      PROVE  m + 1 \in S
  <2>1. PICK g : Good(g, m)
    BY <1>2
  <2> DEFINE h == [n \in 0..(m + 1) |-> IF n = m + 1 THEN f[<<g[m], text[m + 1]>>] ELSE g[n]]
  <2>2. ASSUME NEW n \in 0..(m + 1)
        PROVE  h[n] = IF n = 0 THEN start ELSE f[<<h[n - 1], text[n]>>]
    <3>1. CASE n = m + 1
      <4>1. n # 0 /\ n - 1 = m /\ n - 1 \in 0..(m + 1) /\ m # m + 1
        BY <3>1
      <4>2. h[n] = f[<<g[m], text[n]>>] /\ h[n - 1] = g[m]
        BY <3>1, <4>1
      <4> QED
        BY <4>1, <4>2
    <3>2. CASE n # m + 1
      <4>1. n \in 0..m /\ (n # 0 => n - 1 \in 0..(m + 1) /\ n - 1 # m + 1)
        BY <3>2
      <4>2. h[n] = g[n] /\ (n # 0 => h[n - 1] = g[n - 1])
        BY <3>2, <4>1
      <4>3. g[n] = IF n = 0 THEN start ELSE f[<<g[n - 1], text[n]>>]
        BY <2>1, <4>1
      <4> QED
        BY <4>2, <4>3
    <3> QED
      BY <3>1, <3>2
  <2>3. Good(h, m + 1)
    BY <2>2
  <2> HIDE DEF Good, h
  <2> QED
    BY <2>3
<1>3. Len(text) \in S
  <2>1. \A m \in Nat : m \in S => m + 1 \in S
    BY <1>2
  <2> HIDE DEF S
  <2> QED
    BY <1>1, <2>1, NumberInduction
<1> QED
  BY <1>3 DEF IsAlong

(* Two solutions for texts that agree up to n agree up to n.               *)
LEMMA AlongUnique ==
  ASSUME NEW f, NEW start, NEW s, NEW t, NEW a, NEW b,
         Len(s) \in Nat, Len(t) \in Nat, Len(s) <= Len(t),
         \A i \in 1..Len(s) : s[i] = t[i],
         IsAlong(a, f, start, s), IsAlong(b, f, start, t)
  PROVE  \A n \in 0..Len(s) : a[n] = b[n]
<1> DEFINE va(n) == IF n = 0 THEN start ELSE f[<<a[n - 1], s[n]>>]
           vb(n) == IF n = 0 THEN start ELSE f[<<b[n - 1], t[n]>>]
           T == {n \in Nat : n \in 0..Len(s) => a[n] = b[n]}
<1>1. a = [n \in 0..Len(s) |-> va(n)] /\ b = [n \in 0..Len(t) |-> vb(n)]
  BY DEF IsAlong
<1> HIDE DEF va, vb
<1>2. /\ \A n \in 0..Len(s) : a[n] = va(n)
      /\ \A n \in 0..Len(t) : b[n] = vb(n)
  BY <1>1
<1>3. 0 \in T
  <2>1. va(0) = start /\ vb(0) = start
    BY DEF va, vb
  <2>2. 0 \in 0..Len(s) /\ 0 \in 0..Len(t)
    OBVIOUS
  <2> QED
    BY <1>2, <2>1, <2>2
<1>4. \A n \in Nat : n \in T => n + 1 \in T
  <2> SUFFICES ASSUME NEW n \in Nat, n \in T, n + 1 \in 0..Len(s) PROVE a[n + 1] = b[n + 1]
    OBVIOUS
  <2>1. n \in 0..Len(s) /\ n + 1 \in 1..Len(s) /\ n + 1 \in 0..Len(t)
    OBVIOUS
  <2>2. a[n] = b[n] /\ s[n + 1] = t[n + 1]
    BY <2>1
  <2>3. va(n + 1) = f[<<a[n], s[n + 1]>>] /\ vb(n + 1) = f[<<b[n], t[n + 1]>>]
    BY DEF va, vb
  <2> QED
    BY <1>2, <2>1, <2>2, <2>3
<1>5. Nat \subseteq T
  <2> HIDE DEF T
  <2> QED
    BY <1>3, <1>4, NumberInduction
<1> SUFFICES ASSUME NEW n \in 0..Len(s) PROVE a[n] = b[n]
  OBVIOUS
<1>6. n \in T
  BY <1>5
<1> QED
  BY <1>6

(* One more character is one more step. *)
LEMMA AlongStep ==
  ASSUME NEW f, NEW start, NEW text \in Seq(Int), NEW n \in Nat, n < Len(text)
  PROVE  Along(f, start, SubSeq(text, 1, n + 1))
           = f[<<Along(f, start, SubSeq(text, 1, n)), text[n + 1]>>]
<1> DEFINE s == SubSeq(text, 1, n)
           t == SubSeq(text, 1, n + 1)
<1>1. /\ s \in Seq(Int) /\ Len(s) = n /\ \A i \in 1..n : s[i] = text[i]
      /\ t \in Seq(Int) /\ Len(t) = n + 1 /\ \A i \in 1..(n + 1) : t[i] = text[i]
  <2>1. Len(text) \in Nat /\ 1 \in 1..(Len(text) + 1) /\ n \in 0..Len(text) /\ n + 1 \in 0..Len(text)
    BY LenProperties
  <2>2. \A i \in 1..(n + 1) : text[i] \in Int
    BY <2>1, LenProperties, ElementOfSeq
  <2>3. s = [i \in 1..n |-> text[i]] /\ t = [i \in 1..(n + 1) |-> text[i]]
    BY <2>1, <2>2
  <2> QED
    BY <2>2, <2>3, SeqDef
<1> HIDE DEF s, t
<1> DEFINE A(at) == IsAlong(at, f, start, s)
           B(at) == IsAlong(at, f, start, t)
           a == CHOOSE at : A(at)
           b == CHOOSE at : B(at)
<1>2. A(a) /\ B(b)
  <2>1. Len(s) \in Nat /\ Len(t) \in Nat
    BY <1>1
  <2>2. \E at : IsAlong(at, f, start, s)
    BY <2>1, AlongDefined
  <2>3. \E at : IsAlong(at, f, start, t)
    BY <2>1, AlongDefined
  <2> QED
    BY <2>2, <2>3
<1>3. Along(f, start, s) = a[n] /\ Along(f, start, t) = b[n + 1]
  BY <1>1 DEF Along, IsAlong
<1> HIDE DEF a, b
<1>4. a[n] = b[n]
  <2>1. ASSUME NEW i \in 1..Len(s) PROVE s[i] = t[i]
    <3>1. i \in 1..n /\ i \in 1..(n + 1)
      BY <1>1
    <3> QED
      BY <1>1, <3>1
  <2>2. \A i \in 0..Len(s) : a[i] = b[i]
    <3>1. Len(s) \in Nat /\ Len(t) \in Nat /\ Len(s) <= Len(t)
      BY <1>1
    <3>2. IsAlong(a, f, start, s) /\ IsAlong(b, f, start, t)
      BY <1>2
    <3> HIDE DEF A, B
    <3> QED
      BY <2>1, <3>1, <3>2, AlongUnique
  <2> QED
    BY <1>1, <2>2
<1>5. b[n + 1] = f[<<b[n], t[n + 1]>>]
  <2> DEFINE v(i) == IF i = 0 THEN start ELSE f[<<b[i - 1], t[i]>>]
  <2>1. b = [i \in 0..Len(t) |-> v(i)]
    BY <1>2 DEF IsAlong
  <2>2. v(n + 1) = f[<<b[n], t[n + 1]>>] /\ n + 1 \in 0..Len(t)
    BY <1>1
  <2> HIDE DEF v
  <2> QED
    BY <2>1, <2>2
<1>6. t[n + 1] = text[n + 1]
  BY <1>1
<1> QED
  BY <1>3, <1>4, <1>5, <1>6 DEF s, t

LEMMA AlongNothing ==
  ASSUME NEW f, NEW start, NEW text, Len(text) = 0
  PROVE  Along(f, start, text) = start
<1> DEFINE A(at) == IsAlong(at, f, start, text)
           a == CHOOSE at : A(at)
<1>1. A(a)
  <2>1. Len(text) \in Nat
    OBVIOUS
  <2>2. \E at : A(at)
    BY <2>1, AlongDefined
  <2> QED
    BY <2>2
<1>2. Along(f, start, text) = a[0]
  BY DEF Along, IsAlong
<1> HIDE DEF a
<1>3. a[0] = start
  <2> DEFINE v(i) == IF i = 0 THEN start ELSE f[<<a[i - 1], text[i]>>]
  <2>1. a = [i \in 0..Len(text) |-> v(i)]
    BY <1>1 DEF IsAlong
  <2>2. v(0) = start /\ 0 \in 0..Len(text)
    OBVIOUS
  <2> HIDE DEF v
  <2> QED
    BY <2>1, <2>2
<1> QED
  BY <1>2, <1>3

(* A text without a zero byte is all in front of it. *)
LEMMA NoZero ==
  ASSUME NEW text \in Seq(Int), \A i \in 1..Len(text) : text[i] # 0
  PROVE  UpToZero(text) = text
<1> DEFINE P(n) == (\A i \in 1..n : text[i] # 0) /\ (n < Len(text) => text[n + 1] = 0)
           n == CHOOSE k \in 0..Len(text) : P(k)
<1>1. Len(text) \in 0..Len(text) /\ P(Len(text))
  BY LenProperties
<1>2. n \in 0..Len(text) /\ P(n)
  <2> HIDE DEF P
  <2> QED
    BY <1>1
<1>3. UpToZero(text) = SubSeq(text, 1, n)
  BY DEF UpToZero
<1> HIDE DEF n
<1>4. n = Len(text)
  <2> SUFFICES ASSUME n < Len(text) PROVE FALSE
    BY <1>2
  <2>1. n + 1 \in 1..Len(text)
    BY <1>2
  <2> QED
    BY <1>2, <2>1
<1>5. SubSeq(text, 1, Len(text)) = [i \in 1..Len(text) |-> text[i]]
  BY LenProperties
<1>6. text = [i \in 1..Len(text) |-> text[i]]
  BY LenProperties
<1> QED
  BY <1>3, <1>4, <1>5, <1>6

(* What is appended behind a text does not change its beginning. *)
LEMMA SameBeginning ==
  ASSUME NEW text \in Seq(Int), NEW b \in Int, NEW n \in 0..Len(text)
  PROVE  SubSeq(Append(text, b), 1, n) = SubSeq(text, 1, n)
<1> DEFINE t == Append(text, b)
<1>1. t \in Seq(Int) /\ Len(t) = Len(text) + 1 /\ \A i \in 1..Len(text) : t[i] = text[i]
  BY AppendProperties
<1>2. Len(text) \in Nat
  BY LenProperties
<1> HIDE DEF t
<1>3. SubSeq(t, 1, n) = [i \in 1..n |-> t[i]] /\ SubSeq(text, 1, n) = [i \in 1..n |-> text[i]]
  BY <1>1, <1>2
<1>4. \A i \in 1..n : t[i] = text[i]
  BY <1>1, <1>2
<1>5. SubSeq(t, 1, n) = SubSeq(text, 1, n)
  BY <1>3, <1>4
<1> QED
  BY <1>5 DEF t

(* The numbers of the two loops over a beginning of the text. *)
LEMMA SumStep ==
  ASSUME NEW text \in Seq(Int), NEW n \in Nat, n < Len(text),
         NEW s \in Int, s = Along(Addition, 0, SubSeq(text, 1, n))
  PROVE  s + text[n + 1] = Along(Addition, 0, SubSeq(text, 1, n + 1))
<1>1. n + 1 \in 1..Len(text)
  BY LenProperties
<1>2. text[n + 1] \in Int
  BY <1>1, ElementOfSeq
<1>3. Along(Addition, 0, SubSeq(text, 1, n + 1)) = Addition[<<s, text[n + 1]>>]
  BY AlongStep
<1> QED
  BY <1>2, <1>3 DEF Addition

IntHash(text) == Along(IntHashNext, ToInt(5381), text)

LEMMA HashStep ==
  ASSUME NEW text \in Seq(Int), NEW n \in Nat, n < Len(text),
         NEW h \in Int, IntHash(SubSeq(text, 1, n)) \in Int,
         h = IntHash(SubSeq(text, 1, n)) % HashSize
  PROVE  /\ IntHash(SubSeq(text, 1, n + 1)) \in Int
         /\ HashNext(h, text[n + 1]) = IntHash(SubSeq(text, 1, n + 1)) % HashSize
<1> DEFINE g == IntHash(SubSeq(text, 1, n))
           c == text[n + 1]
<1>1. n + 1 \in 1..Len(text)
  BY LenProperties
<1>2. c \in Int
  BY <1>1, ElementOfSeq
<1>3. IntHash(SubSeq(text, 1, n + 1)) = IntHashNext[<<g, c>>]
  BY AlongStep DEF IntHash
<1>4. g \in Int /\ h = g % HashSize
  OBVIOUS
<1> HIDE DEF g, c
<1>5. IntHashNext[<<g, c>>] = ToInt(g * 33 + Char(c))
  BY <1>2, <1>4 DEF IntHashNext
<1>6. ToInt(g * 33 + Char(c)) \in Int
  <2> DEFINE x == g * 33 + Char(c)
  <2>0. Char(c) \in Int
    BY <1>2, CharRange, SizeFacts
  <2>1. x \in Int
    BY <1>4, <2>0
  <2> HIDE DEF x
  <2>2. ToInt(x) \in Int
    BY <2>1, IntBits
  <2> QED
    BY <2>2 DEF x
<1>7. ToInt(g * 33 + Char(c)) % HashSize = HashNext(g % HashSize, c)
  BY <1>2, <1>4, NextBits
<1> QED
  BY <1>3, <1>4, <1>5, <1>6, <1>7 DEF c

-----------------------------------------------------------------------------
(* The inductive invariant *)

(* Before the passes the record is empty; the sum is that of the bytes     *)
(* read so far, then that of all; the hash is that of the bytes before the *)
(* stream's position, none of which is zero.                               *)
SumSoFar ==
  /\ pass \in {"open", "size"} => metadata.size = 0 /\ metadata.sum = 0
  /\ pass = "sum" => position <= metadata.size /\ metadata.sum = Along(Addition, 0, First(position))
  /\ pass \notin {"open", "size", "sum"} => metadata.sum = Along(Addition, 0, First(metadata.size))
  /\ metadata.size <= Len(file)

HashSoFar ==
  pass = "hash" => /\ \A i \in 1..position : file[i] # 0
                   /\ IntHash(First(position)) \in Int
                   /\ hash = IntHash(First(position)) % HashSize

OutputSoFar ==
  /\ status = Running <=> pass # "done"
  /\ pass \notin {"fwrite", "done"} => output = Old
  /\ pass = "fwrite" => output = Piece
  /\ status = 0 => output # Old
  /\ \/ output \in {Old, Piece}
     \/ output = Whole(metadata) /\ pass = "done" /\ status = 0

MetaInv == TypeOK /\ SumSoFar /\ HashSoFar /\ OutputSoFar

LEMMA FileFacts ==
  ASSUME TypeOK
  PROVE  /\ file \in Seq(Int) /\ Len(file) \in Nat
         /\ \A i \in 1..Len(file) : file[i] \in Byte
         /\ Byte \subseteq Nat
         /\ position \in Nat /\ position <= Len(file)
<1>1. file \in Seq(Byte) /\ position \in 0..Len(file)
  BY DEF TypeOK
<1>2. Byte \subseteq Nat
  BY SizeFacts DEF Byte
<1>3. Len(file) \in Nat /\ \A i \in 1..Len(file) : file[i] \in Byte
  BY <1>1, LenProperties, ElementOfSeq
<1>4. file \in Seq(Int)
  <2>1. Byte \subseteq Int
    BY <1>2
  <2> QED
    BY <1>1, <2>1, SeqMonotonic
<1> QED
  BY <1>1, <1>2, <1>3, <1>4

LEMMA InitMetaInv ==
  ASSUME Init
  PROVE  MetaInv
<1>1. file \in Seq(Byte) /\ Len(file) \in Nat
  BY ContentAssumption, LenProperties DEF Init
<1>2. TypeOK
  <2>1. 0 \in 0..(HashSize - 1)
    BY SizeFacts
  <2>2. 0 \in -(CharSize \div 2)..(CharSize \div 2 - 1)
    BY SizeFacts
  <2>3. metadata \in [size : Nat, sum : Nat, hash : 0..(HashSize - 1),
                     count : [Letter -> -(CharSize \div 2)..(CharSize \div 2 - 1)]]
    BY <2>1, <2>2 DEF Init
  <2> QED
    BY <1>1, <2>1, <2>3 DEF Init, TypeOK, Old
<1>3. SumSoFar
  BY <1>1 DEF Init, SumSoFar
<1> QED
  BY <1>2, <1>3 DEF Init, MetaInv, HashSoFar, OutputSoFar, Old, Running

-----------------------------------------------------------------------------
(* The steps *)

(* A character is read, unless the stream is at the end of the file.       *)
LEMMA ReadFacts ==
  ASSUME TypeOK
  PROVE  /\ position < Len(file) => Fgetc = file[position + 1] /\ Fgetc \in Byte /\ Fgetc # EOF
         /\ Fgetc # EOF => position < Len(file)
<1>1. CASE position < Len(file)
  <2>1. position + 1 \in 1..Len(file)
    BY <1>1, FileFacts
  <2>2. Fgetc = file[position + 1] /\ Fgetc \in Byte
    BY <1>1, <2>1, FileFacts DEF Fgetc
  <2>3. Fgetc # EOF
    BY <2>2, FileFacts DEF EOF
  <2> QED
    BY <1>1, <2>2, <2>3
<1>2. CASE ~(position < Len(file))
  BY <1>2 DEF Fgetc
<1> QED
  BY <1>1, <1>2

LEMMA HashNextRange ==
  ASSUME NEW h \in Int, NEW c \in Int
  PROVE  HashNext(h, c) \in 0..(HashSize - 1)
<1> DEFINE x == h * 33 + Char(c)
<1>1. Char(c) \in Int
  BY CharRange, SizeFacts
<1>2. x \in Int
  BY <1>1
<1> HIDE DEF x
<1>3. x % HashSize \in 0..(HashSize - 1)
  BY <1>2, HashRange
<1> QED
  BY <1>3 DEF HashNext, x

Counter == -(CharSize \div 2)..(CharSize \div 2 - 1)
Record == [size : Nat, sum : Nat, hash : 0..(HashSize - 1), count : [Letter -> Counter]]

LEMMA TypeStep ==
  ASSUME MetaInv, [Next]_vars
  PROVE  TypeOK'
<1>1. /\ TypeOK /\ metadata \in Record /\ hash \in 0..(HashSize - 1) /\ position \in 0..Len(file)
      /\ file \in Seq(Byte) /\ Len(file) \in Nat
      /\ output.kind \in {"old", "piece", "record"} /\ status \in {Running, 0, 1}
  BY FileFacts DEF MetaInv, TypeOK, Record, Counter
<1> SUFFICES /\ file' \in Seq(Byte) /\ position' \in 0..Len(file')
             /\ pass' \in {"open", "size", "sum", "hash", "count", "write", "fwrite", "done"}
             /\ metadata' \in Record
             /\ hash' \in 0..(HashSize - 1)
             /\ output'.kind \in {"old", "piece", "record"} /\ status' \in {Running, 0, 1}
  BY DEF TypeOK, Record, Counter
<1>2. CASE Grow
  <2>1. PICK b \in Added : file' = Append(file, b)
    BY <1>2 DEF Grow
  <2>2. b \in Byte
    BY ContentAssumption
  <2>3. file' \in Seq(Byte) /\ Len(file') = Len(file) + 1
    BY <1>1, <2>1, <2>2, AppendProperties
  <2>4. position' \in 0..Len(file')
    BY <1>1, <1>2, <2>3 DEF Grow
  <2> QED
    BY <1>1, <1>2, <2>3, <2>4 DEF Grow, TypeOK
<1>3. CASE Open
  BY <1>1, <1>3 DEF Open, Exit, TypeOK
<1>4. CASE Measure
  <2>1. metadata' \in Record
    BY <1>1, <1>4 DEF Measure, Record
  <2>2. position' \in 0..Len(file')
    BY <1>1, <1>4 DEF Measure, Rewind
  <2> QED
    BY <1>1, <1>4, <2>1, <2>2 DEF Measure
<1>5. CASE SumChar
  <2>1. CASE position < metadata.size
    <3>1. position < Len(file) /\ Fgetc \in Nat
      <4>1. pass = "sum" /\ metadata.size <= Len(file) /\ metadata.size \in Nat
        BY <1>1, <1>5 DEF SumChar, MetaInv, SumSoFar, Record
      <4>2. position < Len(file)
        BY <1>1, <2>1, <4>1
      <4> QED
        BY <1>1, <4>2, ReadFacts, FileFacts
    <3>2. metadata' = [metadata EXCEPT !.sum = @ + Fgetc] /\ position' = position + 1
      BY <1>5, <2>1 DEF SumChar
    <3>3. metadata' \in Record
      BY <1>1, <3>1, <3>2 DEF Record
    <3>4. position' \in 0..Len(file')
      BY <1>1, <1>5, <3>1, <3>2 DEF SumChar
    <3> QED
      BY <1>1, <1>5, <2>1, <3>3, <3>4 DEF SumChar
  <2>2. CASE ~(position < metadata.size)
    <3>1. hash' \in 0..(HashSize - 1)
      BY <1>5, <2>2, HashRange DEF SumChar, HashStart
    <3> QED
      BY <1>1, <1>5, <2>2, <3>1 DEF SumChar, Rewind
  <2> QED
    BY <2>1, <2>2
<1>6. CASE HashChar
  <2>1. CASE Fgetc \in {0, EOF}
    <3>1. metadata' \in Record
      BY <1>1, <1>6, <2>1 DEF HashChar, Record
    <3> QED
      BY <1>1, <1>6, <2>1, <3>1 DEF HashChar, Rewind
  <2>2. CASE ~(Fgetc \in {0, EOF})
    <3>1. position < Len(file) /\ Fgetc \in Int /\ hash \in Int
      BY <1>1, <2>2, ReadFacts, FileFacts, SizeFacts
    <3>2. hash' \in 0..(HashSize - 1)
      BY <1>6, <2>2, <3>1, HashNextRange DEF HashChar
    <3>3. position' \in 0..Len(file')
      BY <1>1, <1>6, <2>2, <3>1 DEF HashChar
    <3> QED
      BY <1>1, <1>6, <2>2, <3>2, <3>3 DEF HashChar
  <2> QED
    BY <2>1, <2>2
<1>7. CASE CountChar
  <2>1. CASE Fgetc = EOF
    BY <1>1, <1>7, <2>1 DEF CountChar, Rewind
  <2>2. CASE Fgetc # EOF
    <3>1. position' \in 0..Len(file')
      BY <1>1, <1>7, <2>2, ReadFacts DEF CountChar
    <3>2. metadata' \in Record
      <4>1. CASE LetterOf(Fgetc) \in Letter
        <5> DEFINE l == LetterOf(Fgetc)
                   old == metadata.count
                   new == Char(old[l] + 1)
        <5>1. metadata' = [metadata EXCEPT !.count = [old EXCEPT ![l] = new]]
          BY <1>1, <1>7, <2>2, <4>1 DEF CountChar, Record
        <5>2. old \in [Letter -> Counter]
          BY <1>1 DEF Record
        <5>3. old[l] \in Int
          BY <4>1, <5>2, SizeFacts DEF Counter
        <5>4. new \in Counter
          BY <5>3, CharRange DEF Counter
        <5> HIDE DEF old, new, l
        <5>5. [old EXCEPT ![l] = new] \in [Letter -> Counter]
          BY <5>2, <5>4
        <5> QED
          BY <1>1, <5>1, <5>5 DEF Record
      <4>2. CASE LetterOf(Fgetc) \notin Letter
        BY <1>1, <1>7, <2>2, <4>2 DEF CountChar
      <4> QED
        BY <4>1, <4>2
    <3> QED
      BY <1>1, <1>7, <2>2, <3>1, <3>2 DEF CountChar
  <2> QED
    BY <2>1, <2>2
<1>8. CASE OpenOutput
  BY <1>1, <1>8 DEF OpenOutput, Exit, Piece
<1>9. CASE WriteRecord
  BY <1>1, <1>9 DEF WriteRecord, Exit, Piece, Whole
<1>10. CASE UNCHANGED vars
  BY <1>1, <1>10 DEF vars, TypeOK
<1> QED
  BY <1>2, <1>3, <1>4, <1>5, <1>6, <1>7, <1>8, <1>9, <1>10 DEF Next, Program

(* What the steps that do not read leave alone. *)
LEMMA FirstKept ==
  ASSUME MetaInv, [Next]_vars, NEW n \in Nat, n <= Len(file)
  PROVE  /\ SubSeq(file', 1, n) = SubSeq(file, 1, n)
         /\ n <= Len(file')
         /\ \A i \in 1..n : file'[i] = file[i]
<1>1. file \in Seq(Int) /\ Len(file) \in Nat
  BY FileFacts DEF MetaInv
<1>2. CASE Grow
  <2>1. PICK b \in Added : file' = Append(file, b)
    BY <1>2 DEF Grow
  <2>2. b \in Int
    BY ContentAssumption, SizeFacts DEF Byte
  <2>3. Len(file') = Len(file) + 1 /\ \A i \in 1..Len(file) : file'[i] = file[i]
    BY <1>1, <2>1, <2>2, AppendProperties
  <2>4. SubSeq(file', 1, n) = SubSeq(file, 1, n)
    BY <1>1, <2>1, <2>2, SameBeginning
  <2> QED
    BY <1>1, <2>3, <2>4
<1>3. CASE ~Grow
  <2>1. file' = file
    BY <1>3 DEF Next, Program, vars, Open, Measure, SumChar, HashChar, CountChar, OpenOutput, WriteRecord
  <2> QED
    BY <2>1
<1> QED
  BY <1>2, <1>3

LEMMA SumSoFarStep ==
  ASSUME MetaInv, [Next]_vars
  PROVE  SumSoFar'
<1>1. /\ TypeOK /\ SumSoFar
      /\ file \in Seq(Int) /\ Len(file) \in Nat /\ position \in Nat /\ position <= Len(file)
      /\ metadata \in Record /\ metadata.size \in Nat /\ metadata.size <= Len(file)
      /\ metadata.sum \in Nat
  BY FileFacts DEF MetaInv, TypeOK, Record, Counter, SumSoFar
<1>2. /\ SubSeq(file', 1, position) = First(position)
      /\ SubSeq(file', 1, metadata.size) = First(metadata.size)
      /\ metadata.size <= Len(file')
  BY <1>1, FirstKept DEF First
<1>3. CASE /\ UNCHANGED <<position, pass>> /\ metadata'.size = metadata.size
           /\ metadata'.sum = metadata.sum
  BY <1>1, <1>2, <1>3 DEF SumSoFar, First
<1>4. CASE Grow \/ UNCHANGED vars
  BY <1>3, <1>4 DEF Grow, vars
<1>5. CASE Open
  <2>1. /\ metadata' = metadata /\ pass = "open" /\ pass' \in {"size", "done"}
    BY <1>5 DEF Open, Exit
  <2>2. Along(Addition, 0, SubSeq(file', 1, 0)) = 0
    <3> DEFINE t == SubSeq(file', 1, 0)
    <3>1. Len(t) = 0
      BY <1>1, FirstKept, LenProperties
    <3> HIDE DEF t
    <3>2. Along(Addition, 0, t) = 0
      BY <3>1, AlongNothing
    <3> QED
      BY <3>2 DEF t
  <2>3. metadata.size = 0 /\ metadata.sum = 0
    BY <1>1, <2>1 DEF SumSoFar
  <2> QED
    BY <1>2, <2>1, <2>2, <2>3 DEF SumSoFar, First
<1>6. CASE Measure
  <2>1. /\ metadata'.size = Len(file) /\ metadata'.sum = 0
        /\ pass' = "sum" /\ position' = 0 /\ file' = file
    BY <1>1, <1>6 DEF Measure, Rewind, Record
  <2>2. Along(Addition, 0, SubSeq(file, 1, 0)) = 0
    <3> DEFINE t == SubSeq(file, 1, 0)
    <3>1. Len(t) = 0
      BY <1>1, LenProperties
    <3> HIDE DEF t
    <3>2. Along(Addition, 0, t) = 0
      BY <3>1, AlongNothing
    <3> QED
      BY <3>2 DEF t
  <2> QED
    BY <1>1, <2>1, <2>2 DEF SumSoFar, First
<1>7. CASE SumChar
  <2>1. CASE position < metadata.size
    <3>1. position < Len(file) /\ Fgetc = file[position + 1]
      BY <1>1, <2>1, ReadFacts
    <3>2. /\ metadata'.size = metadata.size /\ metadata'.sum = metadata.sum + file[position + 1]
          /\ position' = position + 1 /\ pass = "sum" /\ pass' = "sum" /\ file' = file
      BY <1>1, <1>7, <2>1, <3>1 DEF SumChar, Record
    <3>3. metadata.sum = Along(Addition, 0, SubSeq(file, 1, position))
      BY <1>1, <3>2 DEF SumSoFar, First
    <3>4. metadata.sum + file[position + 1] = Along(Addition, 0, SubSeq(file, 1, position + 1))
      BY <1>1, <3>1, <3>3, SumStep
    <3> QED
      BY <1>1, <2>1, <3>2, <3>4 DEF SumSoFar, First
  <2>2. CASE ~(position < metadata.size)
    <3>1. /\ metadata' = metadata /\ pass = "sum" /\ pass' = "hash" /\ file' = file
      BY <1>7, <2>2 DEF SumChar
    <3>2. position = metadata.size
      BY <1>1, <2>2, <3>1 DEF SumSoFar
    <3> QED
      BY <1>1, <3>1, <3>2 DEF SumSoFar, First
  <2> QED
    BY <2>1, <2>2
<1>8. CASE HashChar \/ CountChar \/ OpenOutput \/ WriteRecord
  <2>1. /\ pass \notin {"open", "size", "sum"} /\ pass' \notin {"open", "size", "sum"}
        /\ metadata'.size = metadata.size /\ metadata'.sum = metadata.sum
    BY <1>1, <1>8 DEF HashChar, CountChar, OpenOutput, WriteRecord, Exit, Record
  <2> QED
    BY <1>1, <1>2, <2>1 DEF SumSoFar, First
<1> QED
  BY <1>4, <1>5, <1>6, <1>7, <1>8 DEF Next, Program

LEMMA HashSoFarStep ==
  ASSUME MetaInv, [Next]_vars
  PROVE  HashSoFar'
<1>1. /\ TypeOK /\ HashSoFar
      /\ file \in Seq(Int) /\ Len(file) \in Nat /\ position \in Nat /\ position <= Len(file)
      /\ hash \in Int
  BY FileFacts, SizeFacts DEF MetaInv, TypeOK
<1>2. /\ SubSeq(file', 1, position) = First(position)
      /\ \A i \in 1..position : file'[i] = file[i]
  BY <1>1, FirstKept DEF First
<1>3. CASE Grow \/ UNCHANGED vars
  <2>1. UNCHANGED <<position, pass, hash>>
    BY <1>3 DEF Grow, vars
  <2> QED
    BY <1>1, <1>2, <2>1 DEF HashSoFar, First
<1>4. CASE SumChar
  <2>1. CASE position < metadata.size
    BY <1>4, <2>1 DEF SumChar, HashSoFar
  <2>2. CASE ~(position < metadata.size)
    <3>1. position' = 0 /\ hash' = HashStart /\ file' = file
      BY <1>4, <2>2 DEF SumChar, Rewind
    <3>2. IntHash(SubSeq(file, 1, 0)) = ToInt(5381)
      <4> DEFINE t == SubSeq(file, 1, 0)
      <4>1. Len(t) = 0
        BY <1>1, LenProperties
      <4> HIDE DEF t
      <4>2. IntHash(t) = ToInt(5381)
        BY <4>1, AlongNothing DEF IntHash
      <4> QED
        BY <4>2 DEF t
    <3>3. ToInt(5381) \in Int /\ ToInt(5381) % HashSize = 5381 % HashSize
      <4>1. PICK q \in Int : ToInt(5381) = 5381 + q * HashSize
        BY IntBits
      <4>2. ToInt(5381) \in Int
        BY IntBits
      <4> QED
        BY <4>1, <4>2, SameBits
    <3> QED
      BY <3>1, <3>2, <3>3 DEF HashSoFar, First, HashStart
  <2> QED
    BY <2>1, <2>2
<1>5. CASE HashChar
  <2>1. CASE Fgetc \in {0, EOF}
    BY <1>5, <2>1 DEF HashChar, HashSoFar
  <2>2. CASE ~(Fgetc \in {0, EOF})
    <3>1. position < Len(file) /\ Fgetc = file[position + 1] /\ file[position + 1] # 0
      BY <1>1, <2>2, ReadFacts
    <3>2. /\ hash' = HashNext(hash, file[position + 1]) /\ position' = position + 1
          /\ file' = file /\ pass = "hash"
      BY <1>5, <2>2, <3>1 DEF HashChar
    <3>3. /\ IntHash(SubSeq(file, 1, position)) \in Int
          /\ hash = IntHash(SubSeq(file, 1, position)) % HashSize
          /\ \A i \in 1..position : file[i] # 0
      BY <1>1, <3>2 DEF HashSoFar, First
    <3>4. /\ IntHash(SubSeq(file, 1, position + 1)) \in Int
          /\ HashNext(hash, file[position + 1]) = IntHash(SubSeq(file, 1, position + 1)) % HashSize
      BY <1>1, <3>1, <3>3, HashStep
    <3>5. \A i \in 1..(position + 1) : file[i] # 0
      BY <1>1, <3>1, <3>3
    <3> QED
      BY <3>2, <3>4, <3>5 DEF HashSoFar, First
  <2> QED
    BY <2>1, <2>2
<1>6. CASE Open \/ Measure \/ CountChar \/ OpenOutput \/ WriteRecord
  <2>1. pass' # "hash"
    BY <1>6 DEF Open, Measure, CountChar, OpenOutput, WriteRecord, Exit
  <2> QED
    BY <2>1 DEF HashSoFar
<1> QED
  BY <1>3, <1>4, <1>5, <1>6 DEF Next, Program

LEMMA OutputSoFarStep ==
  ASSUME MetaInv, [Next]_vars
  PROVE  OutputSoFar'
<1>1. OutputSoFar
  BY DEF MetaInv
<1>2. CASE Grow \/ UNCHANGED vars
  BY <1>1, <1>2 DEF Grow, vars, OutputSoFar
<1>3. CASE Open
  BY <1>1, <1>3 DEF Open, Exit, OutputSoFar, Running
<1>4. CASE Measure \/ SumChar \/ HashChar \/ CountChar
  <2>1. /\ UNCHANGED <<output, status>> /\ pass \notin {"fwrite", "done"}
        /\ pass' \notin {"fwrite", "done"}
    BY <1>4 DEF Measure, SumChar, HashChar, CountChar
  <2> QED
    BY <1>1, <2>1 DEF OutputSoFar
<1>5. CASE OpenOutput
  BY <1>1, <1>5 DEF OpenOutput, Exit, OutputSoFar, Running, Old, Piece
<1>6. CASE WriteRecord
  <2>1. /\ pass' = "done" /\ metadata' = metadata /\ output = Piece
        /\ \/ output' \in {Whole(metadata), Piece} /\ status' = 0
           \/ output' = output /\ status' = 1
    BY <1>1, <1>6 DEF WriteRecord, Exit, OutputSoFar
  <2>2. Piece # Old /\ Whole(metadata) # Old
    BY DEF Piece, Old, Whole
  <2> QED
    BY <2>1, <2>2 DEF OutputSoFar, Running
<1> QED
  BY <1>2, <1>3, <1>4, <1>5, <1>6 DEF Next, Program

THEOREM MetaInvariant == Spec => []MetaInv
<1>1. Init => MetaInv
  BY InitMetaInv
<1>2. MetaInv /\ [Next]_vars => MetaInv'
  BY TypeStep, SumSoFarStep, HashSoFarStep, OutputSoFarStep DEF MetaInv
<1> QED
  BY <1>1, <1>2, PTL DEF Spec

(* The record, the hash and the positions stay in their ranges, and the    *)
(* letter counts in the range of a char (source.c:7-14).                   *)
THEOREM RecordTypes == Spec => []TypeOK
<1>1. MetaInv => TypeOK
  BY DEF MetaInv
<1> QED
  BY <1>1, MetaInvariant, PTL

(* For every file, however it grows: the sum of task2_sum.c is that of the *)
(* bytes its size counts.                                                  *)
THEOREM SumMatchesSize == Spec => []SumOfSize
<1>1. MetaInv => SumOfSize
  BY DEF MetaInv, SumSoFar, SumOfSize
<1> QED
  BY <1>1, MetaInvariant, PTL

(* For every text and every width of the numbers: the unsigned hash of     *)
(* task 2 and the int one of task 4 have the same bits, with negative      *)
(* characters and whatever overflows (task2_hash.c:8-14, dbj2.c:8-14).     *)
THEOREM HashesAgree == Spec => []SameHash
<1>1. ASSUME MetaInv PROVE SameHash
  <2> SUFFICES ASSUME pass = "hash" PROVE hash = dbj2(First(position)) % HashSize
    BY DEF SameHash
  <2> DEFINE t == First(position)
  <2>1. file \in Seq(Int) /\ Len(file) \in Nat /\ position \in Nat /\ position <= Len(file)
    BY <1>1, FileFacts DEF MetaInv
  <2>2. (\A i \in 1..position : file[i] # 0) /\ hash = IntHash(t) % HashSize
    BY <1>1 DEF MetaInv, HashSoFar
  <2>3. t \in Seq(Int) /\ Len(t) = position /\ \A i \in 1..position : t[i] = file[i]
    BY <2>1, SubSeqProperties DEF First
  <2> HIDE DEF t
  <2>4. \A i \in 1..Len(t) : t[i] # 0
    BY <2>2, <2>3
  <2>5. UpToZero(t) = t
    BY <2>3, <2>4, NoZero
  <2> QED
    BY <2>2, <2>5 DEF IntHash, dbj2, t
<1> QED
  BY <1>1, MetaInvariant, PTL

(* Exit status 0 and the file on the disk: as OutputOfThisRun says.        *)
THEOREM OutputHonest == Spec => []OutputOfThisRun
<1>1. ASSUME MetaInv PROVE OutputOfThisRun
  <2>1. Old.kind = "old" /\ Piece.kind = "piece" /\ Whole(metadata).record = metadata
    BY DEF Old, Piece, Whole
  <2> QED
    BY <1>1, <2>1 DEF MetaInv, OutputSoFar, OutputOfThisRun
<1> QED
  BY <1>1, MetaInvariant, PTL
-----------------------------------------------------------------------------
(* The hash in closed form *)

LEMMA PowerStart == PowerOf33(0) = 1 % HashSize
<1> DEFINE t == [i \in 1..0 |-> 33]
<1>1. Len(t) = 0
  OBVIOUS
<1> HIDE DEF t
<1>2. Along(Multiply, 1 % HashSize, t) = 1 % HashSize
  BY <1>1, AlongNothing
<1> QED
  BY <1>2 DEF PowerOf33, t

LEMMA PowerStep ==
  ASSUME NEW n \in Nat, PowerOf33(n) \in Int
  PROVE  PowerOf33(n + 1) \in Int /\ PowerOf33(n + 1) = (PowerOf33(n) * 33) % HashSize
<1> DEFINE s == [i \in 1..n |-> 33]
           t == [i \in 1..(n + 1) |-> 33]
<1>1. /\ t \in Seq(Int) /\ Len(t) = n + 1 /\ t[n + 1] = 33
      /\ SubSeq(t, 1, n) = s /\ SubSeq(t, 1, n + 1) = t
  <2>1. t \in Seq(Int) /\ Len(t) = n + 1 /\ t[n + 1] = 33
    OBVIOUS
  <2>2. SubSeq(t, 1, n) = [i \in 1..n |-> t[i]] /\ SubSeq(t, 1, n + 1) = [i \in 1..(n + 1) |-> t[i]]
    BY <2>1
  <2>3. \A i \in 1..(n + 1) : t[i] = 33
    OBVIOUS
  <2>4. [i \in 1..n |-> t[i]] = s
    BY <2>3
  <2>5. [i \in 1..(n + 1) |-> t[i]] = t
    OBVIOUS
  <2> QED
    BY <2>1, <2>2, <2>4, <2>5
<1> HIDE DEF s, t
<1>2. Along(Multiply, 1 % HashSize, SubSeq(t, 1, n + 1))
        = Multiply[<<Along(Multiply, 1 % HashSize, SubSeq(t, 1, n)), t[n + 1]>>]
  BY <1>1, AlongStep
<1>3. PowerOf33(n + 1) = Multiply[<<PowerOf33(n), 33>>]
  BY <1>1, <1>2 DEF PowerOf33, s, t
<1> DEFINE p == PowerOf33(n)
<1>4. p \in Int
  OBVIOUS
<1> HIDE DEF p
<1>5. Multiply[<<p, 33>>] = (p * 33) % HashSize
  BY <1>4 DEF Multiply
<1>6. (p * 33) % HashSize \in Int
  <2> DEFINE x == p * 33
  <2>1. x \in Int
    BY <1>4
  <2> HIDE DEF x
  <2>2. x % HashSize \in Int
    BY <2>1, HashRange
  <2> QED
    BY <2>2 DEF x
<1> QED
  BY <1>3, <1>5, <1>6 DEF p

LEMMA PowerTyped == \A n \in Nat : PowerOf33(n) \in Int
<1> DEFINE S == {n \in Nat : PowerOf33(n) \in Int}
<1>1. 0 \in S
  BY PowerStart, HashRange
<1>2. \A n \in Nat : n \in S => n + 1 \in S
  BY PowerStep
<1> HIDE DEF S
<1>3. Nat \subseteq S
  BY <1>1, <1>2, NumberInduction
<1> QED
  BY <1>3 DEF S

(* A power of 33 is 33 times the one before, up to multiples of HashSize. *)
LEMMA PowerBits ==
  ASSUME NEW n \in Nat
  PROVE  \E q \in Int : PowerOf33(n + 1) = 33 * PowerOf33(n) + q * HashSize
<1> DEFINE p == PowerOf33(n)
           x == p * 33
           r == x % HashSize
<1>1. p \in Int /\ PowerOf33(n + 1) = r
  BY PowerTyped, PowerStep
<1> HIDE DEF p
<1>2. x \in Int
  BY <1>1
<1>3. r \in Int /\ \E q \in Int : x = q * HashSize + r
  <2> HIDE DEF x
  <2> QED
    BY <1>2, HashRange, HashDivides
<1>4. PICK q \in Int : x = q * HashSize + r
  BY <1>3
<1> HIDE DEF r
<1> DEFINE u == -q
<1>5. u \in Int /\ r = 33 * p + u * HashSize
  BY <1>1, <1>3, <1>4, SizeFacts
<1> HIDE DEF u
<1> QED
  BY <1>1, <1>5 DEF p

(* The terms of a text, and of the text with one character more. *)
LEMMA TermsTyped ==
  ASSUME NEW text \in Seq(Int)
  PROVE  /\ Len(text) \in Nat /\ Terms(text) \in Seq(Int) /\ Len(Terms(text)) = Len(text)
         /\ \A i \in 1..Len(text) : Terms(text)[i] = PowerOf33(Len(text) - i) * Char(text[i])
<1>1. Len(text) \in Nat /\ \A i \in 1..Len(text) : text[i] \in Int
  BY LenProperties, ElementOfSeq
<1>2. ASSUME NEW i \in 1..Len(text) PROVE PowerOf33(Len(text) - i) * Char(text[i]) \in Int
  <2>1. Len(text) - i \in Nat
    BY <1>1
  <2>2. PowerOf33(Len(text) - i) \in Int
    BY <2>1, PowerTyped
  <2>3. Char(text[i]) \in Int
    <3>1. text[i] \in Int
      BY <1>1
    <3>2. Char(text[i]) \in -(CharSize \div 2)..(CharSize \div 2 - 1)
      BY <3>1, CharRange
    <3> QED
      BY <3>2, SizeFacts
  <2> QED
    BY <2>2, <2>3
<1> DEFINE v(i) == PowerOf33(Len(text) - i) * Char(text[i])
<1>3. Terms(text) = [i \in 1..Len(text) |-> v(i)] /\ \A i \in 1..Len(text) : v(i) \in Int
  BY <1>2 DEF Terms
<1> HIDE DEF v
<1>4. Terms(text) \in Seq(Int) /\ Len(Terms(text)) = Len(text) /\ \A i \in 1..Len(text) : Terms(text)[i] = v(i)
  BY <1>1, <1>3
<1> QED
  BY <1>1, <1>4 DEF v

SumOf(text, k) == Along(Addition, 0, SubSeq(text, 1, k))

LEMMA SumOfStep ==
  ASSUME NEW text \in Seq(Int), NEW n \in Nat, n < Len(text)
  PROVE  SumOf(text, n + 1) = Addition[<<SumOf(text, n), text[n + 1]>>]
BY AlongStep DEF SumOf

LEMMA SumOfNothing ==
  ASSUME NEW text \in Seq(Int)
  PROVE  SumOf(text, 0) = 0
<1> DEFINE t == SubSeq(text, 1, 0)
<1>1. Len(t) = 0
  BY LenProperties
<1> HIDE DEF t
<1>2. Along(Addition, 0, t) = 0
  BY <1>1, AlongNothing
<1> QED
  BY <1>2 DEF SumOf, t

(* Up to multiples of HashSize, the terms of a text are 33 times as much   *)
(* with one character behind it.                                           *)
LEMMA SumsBits ==
  ASSUME NEW n \in Nat, NEW s \in Seq(Int), NEW t \in Seq(Int), Len(s) = n, Len(t) = n + 1,
         \A i \in 1..n : s[i] = t[i]
  PROVE  /\ SumOf(Terms(s), n) \in Int /\ SumOf(Terms(t), n) \in Int
         /\ \E q \in Int : SumOf(Terms(t), n) = 33 * SumOf(Terms(s), n) + q * HashSize
<1> DEFINE A(k) == SumOf(Terms(s), k)
           B(k) == SumOf(Terms(t), k)
           P(k) == A(k) \in Int /\ B(k) \in Int /\ \E q \in Int : B(k) = 33 * A(k) + q * HashSize
           S == {k \in Nat : k <= n => P(k)}
<1>1. /\ Terms(s) \in Seq(Int) /\ Len(Terms(s)) = n
      /\ \A i \in 1..n : Terms(s)[i] = PowerOf33(n - i) * Char(s[i])
  BY TermsTyped
<1>2. /\ Terms(t) \in Seq(Int) /\ Len(Terms(t)) = n + 1
      /\ \A i \in 1..(n + 1) : Terms(t)[i] = PowerOf33(n + 1 - i) * Char(t[i])
  <2>1. \A i \in 1..Len(t) : Terms(t)[i] = PowerOf33(Len(t) - i) * Char(t[i])
    BY TermsTyped
  <2>2. Terms(t) \in Seq(Int) /\ Len(Terms(t)) = n + 1
    BY TermsTyped
  <2> QED
    BY <2>1, <2>2
<1>3. 0 \in S
  <2>1. A(0) = 0 /\ B(0) = 0
    BY <1>1, <1>2, SumOfNothing
  <2>2. 0 = 33 * 0 + 0 * HashSize
    BY SizeFacts
  <2> HIDE DEF A, B
  <2> QED
    BY <2>1, <2>2
<1>4. ASSUME NEW k \in Nat, k \in S PROVE k + 1 \in S
  <2> SUFFICES ASSUME k + 1 <= n PROVE P(k + 1)
    BY <1>4
  <2> DEFINE c == Char(t[k + 1])
             a == Terms(s)[k + 1]
             b == Terms(t)[k + 1]
             p == PowerOf33(n - (k + 1))
             m == n - (k + 1)
  <2>1. P(k)
    BY <1>4
  <2>2. k + 1 \in 1..n /\ k + 1 \in 1..(n + 1) /\ m \in Nat /\ n + 1 - (k + 1) = m + 1
    OBVIOUS
  <2>3. c \in Int
    <3>1. t[k + 1] \in Int
      BY <2>2, ElementOfSeq
    <3> QED
      BY <3>1, CharRange, SizeFacts
  <2>4. p \in Int /\ \E q \in Int : PowerOf33(m + 1) = 33 * p + q * HashSize
    BY <2>2, PowerTyped, PowerBits
  <2>5. a = p * c
    BY <1>1, <2>2
  <2>6. b = PowerOf33(m + 1) * c
    <3>1. Terms(t)[k + 1] = PowerOf33(n + 1 - (k + 1)) * Char(t[k + 1])
      BY <1>2, <2>2
    <3> QED
      BY <2>2, <3>1
  <2>7. A(k + 1) = Addition[<<A(k), a>>] /\ B(k + 1) = Addition[<<B(k), b>>]
    <3>1. k < Len(Terms(s)) /\ k < Len(Terms(t))
      BY <1>1, <1>2
    <3> QED
      BY <1>1, <1>2, <3>1, SumOfStep
  <2>8. PICK q \in Int : PowerOf33(m + 1) = 33 * p + q * HashSize
    BY <2>4
  <2>9. PICK u \in Int : B(k) = 33 * A(k) + u * HashSize
    BY <2>1
  <2>10. A(k) \in Int /\ B(k) \in Int
    BY <2>1
  <2> DEFINE ak == A(k)
             bk == B(k)
             w == q * c + u
  <2>11. ak \in Int /\ bk \in Int /\ bk = 33 * ak + u * HashSize
    BY <2>9, <2>10
  <2>12. A(k + 1) = Addition[<<ak, a>>] /\ B(k + 1) = Addition[<<bk, b>>]
    BY <2>7
  <2>13. b = (33 * p + q * HashSize) * c
    BY <2>6, <2>8
  <2>14. p \in Int
    BY <2>4
  <2> HIDE DEF A, B, a, b, c, p, m, ak, bk
  <2>15. a \in Int /\ b \in Int
    BY <2>3, <2>5, <2>13, <2>14, SizeFacts
  <2>16. A(k + 1) = ak + a /\ B(k + 1) = bk + b
    BY <2>11, <2>12, <2>15 DEF Addition
  <2>17. w \in Int
    BY <2>3
  <2>18. b = 33 * a + (q * c) * HashSize
    BY <2>3, <2>5, <2>13, <2>14, SizeFacts
  <2>19. (q * c) * HashSize + u * HashSize = w * HashSize
    BY <2>3, SizeFacts
  <2>20. bk + b = 33 * (ak + a) + w * HashSize
    <3> DEFINE x == (q * c) * HashSize
               y == u * HashSize
               z == w * HashSize
    <3>1. x \in Int /\ y \in Int /\ z \in Int
      BY <2>3, <2>17, SizeFacts
    <3>2. bk = 33 * ak + y /\ b = 33 * a + x /\ x + y = z
      BY <2>11, <2>18, <2>19
    <3> HIDE DEF x, y, z
    <3>3. bk + b = 33 * (ak + a) + z
      BY <2>11, <2>15, <3>1, <3>2
    <3> QED
      BY <3>3 DEF z
  <2> HIDE DEF w
  <2>21. A(k + 1) \in Int /\ B(k + 1) \in Int /\ B(k + 1) = 33 * A(k + 1) + w * HashSize
    <3>1. A(k + 1) \in Int /\ B(k + 1) \in Int
      BY <2>11, <2>15, <2>16
    <3> QED
      BY <2>16, <2>20, <3>1
  <2> QED
    BY <2>17, <2>21
<1>5. n \in S
  <2>1. \A k \in Nat : k \in S => k + 1 \in S
    BY <1>4
  <2> HIDE DEF S
  <2> QED
    BY <1>3, <2>1, NumberInduction
<1> QED
  BY <1>5

(* The closed form of a text with one character more is one step of the    *)
(* loop (task2_hash.c:10).                                                 *)
LEMMA ClosedStep ==
  ASSUME NEW n \in Nat, NEW s \in Seq(Int), NEW t \in Seq(Int), Len(s) = n, Len(t) = n + 1,
         \A i \in 1..n : s[i] = t[i]
  PROVE  Djb2(t) = HashNext(Djb2(s), t[n + 1])
<1> DEFINE H == HashSize
           c == Char(t[n + 1])
           a == SumOf(Terms(s), n)
           b == SumOf(Terms(t), n)
           p == PowerOf33(n)
           p1 == PowerOf33(n + 1)
           z == PowerOf33(0)
           e == Terms(t)[n + 1]
<1>1. a \in Int /\ b \in Int /\ \E q \in Int : b = 33 * a + q * H
  BY SumsBits
<1>2. PICK q \in Int : b = 33 * a + q * H
  BY <1>1
<1>3. p \in Int /\ p1 \in Int /\ z \in Int
  BY PowerTyped
<1>4. PICK u \in Int : p1 = 33 * p + u * H
  BY PowerBits
<1>5. \E w \in Int : z = 1 + w * H
  <2>1. PICK w \in Int : 1 = w * H + (1 % H)
    BY HashDivides
  <2>2. z = 1 % H
    BY PowerStart
  <2> DEFINE r == 1 % H
  <2>3. z = r /\ 1 = w * H + r /\ r \in Int
    BY <1>3, <2>1, <2>2
  <2> HIDE DEF r, z
  <2> DEFINE y == -w
  <2>4. y \in Int /\ z = 1 + y * H
    BY <2>3, SizeFacts
  <2> HIDE DEF y
  <2> QED
    BY <2>4
<1>6. PICK w \in Int : z = 1 + w * H
  BY <1>5
<1>7. /\ Terms(s) \in Seq(Int) /\ Len(Terms(s)) = n
      /\ Terms(t) \in Seq(Int) /\ Len(Terms(t)) = n + 1
      /\ e = z * c
  <2>1. \A i \in 1..Len(t) : Terms(t)[i] = PowerOf33(Len(t) - i) * Char(t[i])
    BY TermsTyped
  <2>2. n + 1 \in 1..Len(t) /\ Len(t) - (n + 1) = 0
    OBVIOUS
  <2>3. e = PowerOf33(Len(t) - (n + 1)) * Char(t[n + 1])
    BY <2>1, <2>2
  <2>4. e = z * c
    BY <2>2, <2>3
  <2>5. Terms(s) \in Seq(Int) /\ Len(Terms(s)) = n /\ Terms(t) \in Seq(Int) /\ Len(Terms(t)) = n + 1
    BY TermsTyped
  <2> QED
    BY <2>4, <2>5
<1>8. c \in Int
  <2>1. n + 1 \in 1..Len(t)
    OBVIOUS
  <2>2. t[n + 1] \in Int
    BY <2>1, ElementOfSeq
  <2> QED
    BY <2>2, CharRange, SizeFacts
<1>9. Along(Addition, 0, Terms(s)) = a
  BY <1>7, SubSeqFull DEF SumOf
<1>10. Along(Addition, 0, Terms(t)) = Addition[<<b, e>>]
  <2>1. n < Len(Terms(t))
    BY <1>7
  <2>2. Along(Addition, 0, SubSeq(Terms(t), 1, n + 1)) = Addition[<<b, e>>]
    <3>1. SumOf(Terms(t), n + 1) = Addition[<<b, e>>]
      BY <1>7, <2>1, SumOfStep
    <3> QED
      BY <3>1 DEF SumOf
  <2>3. SubSeq(Terms(t), 1, n + 1) = Terms(t)
    BY <1>7, SubSeqFull
  <2> QED
    BY <2>2, <2>3
<1>11. HashStart \in Int
  BY HashRange DEF HashStart
<1> DEFINE d == HashStart
           x == d * p + a
           r == x % H
<1>12. Djb2(s) = r
  BY <1>9 DEF Djb2
<1>13. Djb2(t) = (d * p1 + Along(Addition, 0, Terms(t))) % H
  BY DEF Djb2
<1>14. HashNext(Djb2(s), t[n + 1]) = (r * 33 + c) % H
  BY <1>12 DEF HashNext
<1>15. d \in Int
  BY <1>11
<1> HIDE DEF a, b, c, d, e, p, p1, z
<1>16. x \in Int
  BY <1>1, <1>3, <1>15
<1>17. r \in Int /\ \E v \in Int : x = v * H + r
  <2> HIDE DEF x
  <2>1. x % HashSize \in 0..(HashSize - 1)
    BY <1>16, HashRange
  <2>2. \E v \in Int : x = v * HashSize + (x % HashSize)
    BY <1>16, HashDivides
  <2>3. r \in Int
    BY <2>1, SizeFacts
  <2>4. \E v \in Int : x = v * H + r
    BY ONLY <2>2 DEF H, r
  <2> QED
    BY <2>3, <2>4
<1>18. PICK v \in Int : x = v * H + r
  BY <1>17
<1> HIDE DEF r
<1>19. e \in Int /\ e = c + (w * c) * H
  BY <1>3, <1>6, <1>7, <1>8, SizeFacts
<1>20. Along(Addition, 0, Terms(t)) = b + e
  BY <1>1, <1>10, <1>19 DEF Addition
<1> DEFINE y == d * p1 + (b + e)
           g == r * 33 + c
           k == d * u + q + w * c + 33 * v
<1>21. y \in Int /\ g \in Int /\ k \in Int
  BY <1>1, <1>3, <1>8, <1>15, <1>17, <1>19
<1>22. y = g + k * H
  <2>1. d * p1 = 33 * (d * p) + (d * u) * H
    BY <1>3, <1>4, <1>15, SizeFacts
  <2> DEFINE m1 == d * p
             m2 == (d * u) * H
             m3 == q * H
             m4 == (w * c) * H
             m5 == v * H
             m6 == d * p1
             m7 == k * H
  <2>2. m1 \in Int /\ m2 \in Int /\ m3 \in Int /\ m4 \in Int /\ m5 \in Int /\ m6 \in Int /\ m7 \in Int
    BY <1>3, <1>8, <1>15, <1>21, SizeFacts
  <2>3. m2 + m3 + m4 + 33 * m5 = m7
    BY <1>8, <1>15, SizeFacts
  <2>4. /\ m6 = 33 * m1 + m2 /\ b = 33 * a + m3 /\ e = c + m4
        /\ m1 + a = m5 + r
    BY <1>2, <1>18, <1>19, <2>1
  <2> HIDE DEF m1, m2, m3, m4, m5, m6, m7
  <2>5. a \in Int /\ b \in Int /\ c \in Int /\ e \in Int /\ r \in Int
    BY <1>1, <1>8, <1>17, <1>19
  <2>6. m6 + (b + e) = (r * 33 + c) + m7
    BY ONLY <2>2, <2>3, <2>4, <2>5
  <2> QED
    BY <2>6 DEF m6, m7
<1>23. y % H = g % H
  <2> HIDE DEF y, g, k
  <2> QED
    BY <1>21, <1>22, SameBits
<1> QED
  BY <1>13, <1>14, <1>20, <1>23

LEMMA ClosedStart ==
  ASSUME NEW text \in Seq(Int)
  PROVE  Djb2(SubSeq(text, 1, 0)) = HashStart
<1> DEFINE t == SubSeq(text, 1, 0)
<1>1. t \in Seq(Int) /\ Len(t) = 0
  BY LenProperties
<1> HIDE DEF t
<1>2. Len(Terms(t)) = 0
  BY <1>1, TermsTyped
<1>3. Along(Addition, 0, Terms(t)) = 0
  BY <1>2, AlongNothing
<1> DEFINE d == HashStart
           z == PowerOf33(0)
<1>4. Djb2(t) = (d * z + 0) % HashSize
  BY <1>1, <1>3 DEF Djb2
<1>5. d \in 0..(HashSize - 1) /\ z \in Int /\ z = 1 % HashSize
  <2>1. HashStart \in 0..(HashSize - 1)
    BY HashRange DEF HashStart
  <2>2. 0 \in Nat
    OBVIOUS
  <2>3. PowerOf33(0) \in Int
    BY <2>2, PowerTyped
  <2> QED
    BY <2>1, <2>3, PowerStart
<1>6. PICK w \in Int : 1 = w * HashSize + (1 % HashSize)
  BY HashDivides
<1>7. 1 = w * HashSize + z
  BY <1>5, <1>6
<1> HIDE DEF d, z
<1> DEFINE x == d * z + 0
           k == -(d * w)
<1>8. x \in Int /\ k \in Int /\ d \in Int
  BY <1>5, SizeFacts
<1>9. x = d + k * HashSize
  <2>1. z = 1 - w * HashSize
    BY <1>5, <1>7, SizeFacts
  <2>2. d * (1 - w * HashSize) = d + k * HashSize
    BY <1>8, SizeFacts
  <2> QED
    BY <1>5, <1>8, <2>1, <2>2
<1> HIDE DEF x, k
<1>10. x % HashSize = d % HashSize
  BY <1>8, <1>9, SameBits
<1>11. d % HashSize = d
  BY <1>5, SizeFacts
<1> QED
  BY <1>4, <1>10, <1>11 DEF d, t, x

(* The loop over the first n + 1 characters, from that over the first n. *)
LEMMA ClosedLoop ==
  ASSUME NEW text \in Seq(Int), NEW n \in Nat, n < Len(text)
  PROVE  Djb2(SubSeq(text, 1, n + 1)) = HashNext(Djb2(SubSeq(text, 1, n)), text[n + 1])
<1> DEFINE s == SubSeq(text, 1, n)
           t == SubSeq(text, 1, n + 1)
<1>1. /\ s \in Seq(Int) /\ Len(s) = n /\ \A i \in 1..n : s[i] = text[i]
      /\ t \in Seq(Int) /\ Len(t) = n + 1 /\ \A i \in 1..(n + 1) : t[i] = text[i]
  <2>1. Len(text) \in Nat /\ n \in 0..Len(text) /\ n + 1 \in 0..Len(text)
    BY LenProperties
  <2>2. \A i \in 1..(n + 1) : text[i] \in Int
    BY <2>1, LenProperties, ElementOfSeq
  <2>3. s = [i \in 1..n |-> text[i]] /\ t = [i \in 1..(n + 1) |-> text[i]]
    BY <2>1, <2>2
  <2> QED
    BY <2>2, <2>3, SeqDef
<1> HIDE DEF s, t
<1>2. \A i \in 1..n : s[i] = t[i]
  <2> TAKE i \in 1..n
  <2>1. i \in 1..(n + 1)
    OBVIOUS
  <2> QED
    BY <1>1, <2>1
<1>3. Djb2(t) = HashNext(Djb2(s), t[n + 1])
  BY <1>1, <1>2, ClosedStep
<1>4. t[n + 1] = text[n + 1]
  BY <1>1
<1> QED
  BY <1>3, <1>4 DEF s, t

(* A text is cut in front of its first zero byte. *)
LEMMA FirstZero ==
  ASSUME NEW text \in Seq(Int), NEW k \in Nat, k < Len(text),
         \A i \in 1..k : text[i] # 0, text[k + 1] = 0
  PROVE  UpToZero(text) = SubSeq(text, 1, k)
<1> DEFINE P(m) == (\A i \in 1..m : text[i] # 0) /\ (m < Len(text) => text[m + 1] = 0)
           n == CHOOSE m \in 0..Len(text) : P(m)
<1>1. Len(text) \in Nat /\ k \in 0..Len(text) /\ P(k)
  BY LenProperties
<1>2. n \in 0..Len(text) /\ P(n)
  <2> HIDE DEF P
  <2> QED
    BY <1>1
<1>3. UpToZero(text) = SubSeq(text, 1, n)
  BY DEF UpToZero
<1> HIDE DEF n
<1>4. ~(n < k)
  <2> SUFFICES ASSUME n < k PROVE FALSE
    OBVIOUS
  <2>1. n + 1 \in 1..k /\ n < Len(text)
    BY <1>1, <1>2
  <2> QED
    BY <1>2, <2>1
<1>5. ~(k < n)
  <2> SUFFICES ASSUME k < n PROVE FALSE
    OBVIOUS
  <2>1. k + 1 \in 1..n
    BY <1>1, <1>2
  <2> QED
    BY <1>2, <2>1
<1>6. n = k
  BY <1>1, <1>2, <1>4, <1>5
<1> QED
  BY <1>3, <1>6

-----------------------------------------------------------------------------
(* The letters *)

LEMMA CharUnique ==
  ASSUME NEW a \in Int, NEW r \in 0..(CharSize - 1), NEW q \in Int, a = q * CharSize + r
  PROVE  a % CharSize = r
BY SizeFacts

LEMMA CharNext ==
  ASSUME NEW x \in Int
  PROVE  Char(Char(x) + 1) = Char(x + 1)
<1> DEFINE C == CharSize
           h == CharSize \div 2
           y == x + h
           r == y % C
           y1 == x + 1 + h
           z == (r - h) + 1 + h
<1>1. C \in Nat /\ C > 0 /\ h \in Int
  BY SizeFacts
<1>2. Char(x) = r - h /\ Char(x + 1) = (y1 % C) - h /\ Char(Char(x) + 1) = (z % C) - h
  BY DEF Char
<1> HIDE DEF C, h
<1>3. y \in Int /\ y1 = y + 1
  BY <1>1
<1> HIDE DEF y, y1
<1>4. r \in 0..(C - 1) /\ y = (y \div C) * C + r /\ y \div C \in Int
  BY <1>1, <1>3
<1> DEFINE q == y \div C
<1>5. q \in Int /\ y = q * C + r
  BY <1>4
<1> HIDE DEF q, r
<1>6. z = r + 1
  BY <1>1, <1>4
<1> HIDE DEF z
<1>7. y1 % C = z % C
  <2>1. CASE r + 1 = C
    <3>1. y1 = (q + 1) * C + 0
      BY <1>1, <1>3, <1>4, <1>5, <2>1
    <3>2. y1 % C = 0
      BY <1>1, <1>3, <1>5, <3>1
    <3>3. z % C = 0
      BY <1>1, <1>6, <2>1
    <3> QED
      BY <3>2, <3>3
  <2>2. CASE r + 1 # C
    <3>1. y1 = q * C + (r + 1) /\ r + 1 \in 0..(C - 1)
      BY <1>1, <1>3, <1>4, <1>5, <2>2
    <3>2. y1 % C = r + 1
      <4> DEFINE r1 == r + 1
      <4>1. y1 \in Int /\ y1 = q * CharSize + r1 /\ r1 \in 0..(CharSize - 1)
        BY <1>1, <1>3, <3>1 DEF C
      <4> HIDE DEF r1
      <4>2. y1 % CharSize = r1
        BY <1>5, <4>1, CharUnique
      <4> QED
        BY <4>2 DEF r1, C
    <3>3. z % C = r + 1
      BY <1>1, <1>6, <3>1
    <3> QED
      BY <3>2, <3>3
  <2> QED
    BY <2>1, <2>2
<1> QED
  BY <1>2, <1>7

Places(text, n, l) == {i \in 1..n : LetterOf(text[i]) = l}

LEMMA PlacesStep ==
  ASSUME NEW text, NEW n \in Nat, NEW l
  PROVE  /\ Cardinality(Places(text, n, l)) \in Nat
         /\ Cardinality(Places(text, n + 1, l))
              = Cardinality(Places(text, n, l)) + IF LetterOf(text[n + 1]) = l THEN 1 ELSE 0
<1> DEFINE p == Places(text, n, l)
           p1 == Places(text, n + 1, l)
<1>1. IsFiniteSet(p) /\ n + 1 \notin p /\ Cardinality(p) \in Nat
  <2>1. IsFiniteSet(1..n)
    BY FS_Interval
  <2>2. p \subseteq 1..n
    BY DEF Places
  <2>3. IsFiniteSet(p)
    BY <2>1, <2>2, FS_Subset
  <2>4. n + 1 \notin 1..n
    OBVIOUS
  <2> QED
    BY <2>2, <2>3, <2>4, FS_CardinalityType
<1>2. CASE LetterOf(text[n + 1]) = l
  <2>1. p1 = p \cup {n + 1}
    <3>1. \A i : i \in 1..(n + 1) <=> i \in 1..n \/ i = n + 1
      OBVIOUS
    <3> QED
      BY <1>2, <3>1 DEF Places
  <2> HIDE DEF p, p1
  <2>2. Cardinality(p \cup {n + 1}) = Cardinality(p) + 1
    BY <1>1, FS_AddElement
  <2> QED
    BY <1>1, <1>2, <2>1, <2>2 DEF p, p1
<1>3. CASE LetterOf(text[n + 1]) # l
  <2>1. p1 = p
    <3>1. \A i : i \in 1..(n + 1) <=> i \in 1..n \/ i = n + 1
      OBVIOUS
    <3> QED
      BY <1>3, <3>1 DEF Places
  <2> HIDE DEF p, p1
  <2> QED
    BY <1>1, <1>3, <2>1 DEF p, p1
<1> QED
  BY <1>2, <1>3
-----------------------------------------------------------------------------
(* What the record says of the file *)

HashOf(n)    == metadata.hash = Djb2(UpToZero(First(n)))
CountedTo(n) == \A l \in Letter : metadata.count[l] = Char(Cardinality(Places(file, n, l)))

Counting == pass \in {"open", "size", "sum", "hash"} => CountedTo(0)

(* The hash is that of what was read so far; when the letters are counted  *)
(* it is that of a beginning of the file no shorter than the size, and the *)
(* counters are those of what was read so far.                             *)
RecordInv ==
  /\ pass = "hash" => hash = Djb2(First(position))
  /\ Counting
  /\ pass = "count" => CountedTo(position) /\ \E h \in metadata.size..Len(file) : HashOf(h)
  /\ PassesAgree

LEMMA InitRecord ==
  ASSUME Init
  PROVE  RecordInv
<1>1. pass = "open" /\ output = Old /\ metadata.count = [l \in Letter |-> 0]
  BY DEF Init
<1>2. ASSUME NEW l \in Letter PROVE metadata.count[l] = Char(Cardinality(Places(file, 0, l)))
  <2>1. Places(file, 0, l) = {}
    BY DEF Places
  <2>2. Cardinality({}) = 0
    BY FS_EmptySet
  <2>3. Char(0) = 0
    BY SizeFacts DEF Char
  <2> QED
    BY <1>1, <2>1, <2>2, <2>3
<1> QED
  BY <1>1, <1>2 DEF RecordInv, Counting, CountedTo, PassesAgree, Passed

(* A beginning of the file stays what it was, whatever is appended.        *)
LEMMA BeginningKept ==
  ASSUME MetaInv, [Next]_vars, NEW n \in Nat, n <= Len(file)
  PROVE  /\ First(n)' = First(n)
         /\ \A l : Places(file', n, l) = Places(file, n, l)
<1>1. SubSeq(file', 1, n) = SubSeq(file, 1, n) /\ \A i \in 1..n : file'[i] = file[i]
  BY FirstKept
<1>2. \A l : Places(file', n, l) = Places(file, n, l)
  BY <1>1 DEF Places
<1> QED
  BY <1>1, <1>2 DEF First

LEMMA DescriptionKept ==
  ASSUME MetaInv, [Next]_vars, NEW n \in Nat, n <= Len(file),
         metadata'.hash = metadata.hash, metadata'.count = metadata.count
  PROVE  HashOf(n)' = HashOf(n) /\ CountedTo(n)' = CountedTo(n)
<1>1. First(n)' = First(n) /\ \A l : Places(file', n, l) = Places(file, n, l)
  BY BeginningKept
<1>2. HashOf(n)' = HashOf(n)
  BY <1>1 DEF HashOf
<1>3. CountedTo(n)' = CountedTo(n)
  BY <1>1 DEF CountedTo
<1> QED
  BY <1>2, <1>3

LEMMA RecordFacts ==
  ASSUME MetaInv
  PROVE  /\ file \in Seq(Int) /\ Len(file) \in Nat /\ position \in Nat /\ position <= Len(file)
         /\ metadata \in Record /\ metadata.size \in Nat /\ metadata.size <= Len(file)
         /\ pass \notin {"fwrite", "done"} => output = Old
BY FileFacts DEF MetaInv, TypeOK, Record, Counter, SumSoFar, OutputSoFar

(* The file does not shrink. *)
LEMMA Longer ==
  ASSUME MetaInv, [Next]_vars
  PROVE  Len(file') \in Nat /\ Len(file) <= Len(file')
<1>1. Len(file) \in Nat
  BY RecordFacts
<1>2. TypeOK'
  BY TypeStep
<1>3. Len(file') \in Nat
  BY <1>2, LenProperties DEF TypeOK
<1>4. Len(file) <= Len(file')
  BY <1>1, FirstKept
<1> QED
  BY <1>3, <1>4

(* Steps that leave the hash and the counters alone, and do not go on to   *)
(* the next pass over the characters.                                      *)
LEMMA RecordKept ==
  ASSUME MetaInv, RecordInv, [Next]_vars,
         metadata'.hash = metadata.hash, metadata'.count = metadata.count,
         pass' = "hash" => pass = "hash" /\ UNCHANGED <<hash, position>>,
         pass' = "count" => pass = "count" /\ UNCHANGED position /\ metadata'.size = metadata.size,
         pass' \in {"open", "size", "sum", "hash"} => pass \in {"open", "size", "sum", "hash"},
         Passed' => Passed /\ metadata'.size = metadata.size
  PROVE  RecordInv'
<1>1. /\ Len(file) \in Nat /\ position \in Nat /\ position <= Len(file)
      /\ metadata.size \in Nat /\ metadata.size <= Len(file)
      /\ Len(file') \in Nat /\ Len(file) <= Len(file')
  BY RecordFacts, Longer
<1>2. (pass = "hash" => hash = Djb2(First(position)))'
  <2>1. First(position)' = First(position) \/ ~(UNCHANGED position)
    <3>1. SubSeq(file', 1, position) = SubSeq(file, 1, position)
      BY <1>1, FirstKept
    <3> QED
      BY <3>1 DEF First
  <2> QED
    BY <2>1 DEF RecordInv
<1>3. Counting'
  <2>1. CountedTo(0)' = CountedTo(0)
    BY <1>1, DescriptionKept
  <2> QED
    BY <2>1 DEF RecordInv, Counting
<1>4. (pass = "count" => CountedTo(position) /\ \E h \in metadata.size..Len(file) : HashOf(h))'
  <2> SUFFICES ASSUME pass' = "count"
               PROVE  (CountedTo(position) /\ \E h \in metadata.size..Len(file) : HashOf(h))'
    OBVIOUS
  <2>1. /\ CountedTo(position) /\ position' = position /\ metadata'.size = metadata.size
    BY DEF RecordInv
  <2>2. PICK h \in metadata.size..Len(file) : HashOf(h)
    BY DEF RecordInv
  <2>3. \A l : Places(file', position, l) = Places(file, position, l)
    BY <1>1, BeginningKept
  <2>4. CountedTo(position)'
    BY <2>1, <2>3 DEF CountedTo
  <2>5. h \in Nat /\ h <= Len(file) /\ h \in metadata.size..Len(file')
    BY <1>1
  <2>6. HashOf(h)'
    BY <2>2, <2>5, DescriptionKept
  <2> QED
    BY <2>1, <2>4, <2>5, <2>6
<1>5. PassesAgree'
  <2> SUFFICES ASSUME Passed'
               PROVE  (\E h \in metadata.size..Len(file) : \E c \in h..Len(file) :
                         HashOf(h) /\ CountedTo(c))'
    BY DEF PassesAgree, HashOf, CountedTo, Places
  <2>1. PICK h \in metadata.size..Len(file) : \E c \in h..Len(file) : HashOf(h) /\ CountedTo(c)
    BY DEF RecordInv, PassesAgree, HashOf, CountedTo, Places
  <2>2. PICK c \in h..Len(file) : HashOf(h) /\ CountedTo(c)
    BY <2>1
  <2>3. /\ h \in Nat /\ h <= Len(file) /\ h \in metadata.size..Len(file')
        /\ c \in Nat /\ c <= Len(file) /\ c \in h..Len(file')
    BY <1>1
  <2>4. HashOf(h)' /\ CountedTo(c)'
    BY <2>2, <2>3, DescriptionKept
  <2>5. metadata'.size = metadata.size
    OBVIOUS
  <2> QED
    BY <2>3, <2>4, <2>5
<1> QED
  BY <1>2, <1>3, <1>4, <1>5 DEF RecordInv

(* The hash begins: nothing is read. *)
LEMMA RecordSum ==
  ASSUME MetaInv, RecordInv, SumChar
  PROVE  RecordInv'
<1>0. [Next]_vars
  BY DEF Next, Program
<1>1. output = Old /\ output' = Old /\ metadata \in Record /\ file' = file /\ pass = "sum"
  BY RecordFacts DEF SumChar
<1>2. CASE position < metadata.size
  <2>1. /\ metadata'.hash = metadata.hash /\ metadata'.count = metadata.count /\ pass' = "sum"
    BY <1>1, <1>2 DEF SumChar, Record
  <2>2. ~Passed'
    BY <1>1, <2>1 DEF Passed
  <2> QED
    BY <1>0, <1>1, <2>1, <2>2, RecordKept
<1>3. CASE ~(position < metadata.size)
  <2>1. metadata' = metadata /\ pass' = "hash" /\ position' = 0 /\ hash' = HashStart
    BY <1>3 DEF SumChar, Rewind
  <2>2. Djb2(SubSeq(file, 1, 0)) = HashStart
    BY RecordFacts, ClosedStart
  <2>3. (pass = "hash" => hash = Djb2(First(position)))'
    BY <1>1, <2>1, <2>2 DEF First
  <2>4. CountedTo(0)'
    BY <1>1, <2>1 DEF RecordInv, Counting, CountedTo
  <2>5. ~Passed'
    BY <1>1, <2>1 DEF Passed
  <2> QED
    BY <2>1, <2>3, <2>4, <2>5 DEF RecordInv, Counting, PassesAgree
<1> QED
  BY <1>2, <1>3

(* One more character, or the end of the hash: at the end of the file or   *)
(* in front of a zero byte.                                                *)
LEMMA RecordHash ==
  ASSUME MetaInv, RecordInv, HashChar
  PROVE  RecordInv'
<1>1. output = Old /\ output' = Old /\ metadata \in Record /\ file' = file /\ pass = "hash"
  BY RecordFacts DEF HashChar
<1>2. /\ file \in Seq(Int) /\ Len(file) \in Nat /\ position \in Nat /\ position <= Len(file)
      /\ metadata.size \in Nat /\ metadata.size <= Len(file)
  BY RecordFacts
<1>3. /\ hash = Djb2(First(position)) /\ CountedTo(0)
      /\ \A i \in 1..position : file[i] # 0
  BY <1>1 DEF RecordInv, Counting, MetaInv, HashSoFar
<1>4. TypeOK
  BY DEF MetaInv
<1>5. CASE Fgetc \in {0, EOF}
  <2>1. /\ metadata'.hash = hash /\ metadata'.count = metadata.count /\ metadata'.size = metadata.size
        /\ pass' = "count" /\ position' = 0
    BY <1>1, <1>5 DEF HashChar, Rewind, Record
  <2>2. CountedTo(0)'
    BY <1>1, <1>3, <2>1 DEF CountedTo
  <2>3. hash = Djb2(UpToZero(First(Len(file))))
    <3>1. First(Len(file)) = file
      BY <1>2, SubSeqFull DEF First
    <3>2. CASE position < Len(file)
      <4>1. Fgetc = file[position + 1] /\ Fgetc # EOF
        BY <1>4, <3>2, ReadFacts
      <4>2. file[position + 1] = 0
        BY <1>5, <4>1
      <4>3. UpToZero(file) = SubSeq(file, 1, position)
        BY <1>2, <1>3, <3>2, <4>2, FirstZero
      <4> QED
        BY <1>3, <3>1, <4>3 DEF First
    <3>3. CASE ~(position < Len(file))
      <4>1. position = Len(file)
        BY <1>2, <3>3
      <4>2. UpToZero(file) = file
        BY <1>2, <1>3, <4>1, NoZero
      <4> QED
        BY <1>3, <3>1, <4>1, <4>2
    <3> QED
      BY <3>2, <3>3
  <2>4. HashOf(Len(file))'
    BY <1>1, <2>1, <2>3 DEF HashOf, First
  <2>5. Len(file) \in metadata'.size..Len(file')
    BY <1>1, <1>2, <2>1
  <2>6. (pass = "count" => CountedTo(position) /\ \E h \in metadata.size..Len(file) : HashOf(h))'
    <3>1. CountedTo(position)'
      BY <2>1, <2>2 DEF CountedTo
    <3>2. \E h \in metadata'.size..Len(file') : HashOf(h)'
      <4>1. HashOf(Len(file))' <=> metadata'.hash = Djb2(UpToZero(SubSeq(file', 1, Len(file))))
        BY <1>1 DEF HashOf, First
      <4> QED
        BY <2>4, <2>5, <4>1 DEF HashOf, First
    <3> QED
      BY <3>1, <3>2
  <2>7. ~Passed'
    BY <1>1, <2>1 DEF Passed
  <2> QED
    BY <2>1, <2>6, <2>7 DEF RecordInv, Counting, PassesAgree
<1>6. CASE ~(Fgetc \in {0, EOF})
  <2>1. position < Len(file) /\ Fgetc = file[position + 1]
    BY <1>4, <1>6, ReadFacts
  <2>2. /\ hash' = HashNext(hash, file[position + 1]) /\ position' = position + 1
        /\ metadata' = metadata /\ pass' = "hash"
    BY <1>1, <1>6, <2>1 DEF HashChar
  <2>3. Djb2(SubSeq(file, 1, position + 1)) = HashNext(Djb2(SubSeq(file, 1, position)), file[position + 1])
    BY <1>2, <2>1, ClosedLoop
  <2>4. hash' = Djb2(First(position))'
    BY <1>1, <1>3, <2>2, <2>3 DEF First
  <2>5. CountedTo(0)'
    BY <1>1, <1>3, <2>2 DEF CountedTo
  <2>6. ~Passed'
    BY <1>1, <2>2 DEF Passed
  <2> QED
    BY <2>2, <2>4, <2>5, <2>6 DEF RecordInv, Counting, PassesAgree
<1> QED
  BY <1>5, <1>6

(* One more character is counted if it is a letter, or all are. *)
LEMMA RecordCount ==
  ASSUME MetaInv, RecordInv, CountChar
  PROVE  RecordInv'
<1>1. output = Old /\ output' = Old /\ metadata \in Record /\ file' = file /\ pass = "count"
  BY RecordFacts DEF CountChar
<1>2. /\ file \in Seq(Int) /\ Len(file) \in Nat /\ position \in Nat /\ position <= Len(file)
      /\ metadata.size \in Nat /\ metadata.size <= Len(file)
  BY RecordFacts
<1>3. CountedTo(position) /\ \E h \in metadata.size..Len(file) : HashOf(h)
  BY <1>1 DEF RecordInv
<1>4. PICK h \in metadata.size..Len(file) : HashOf(h)
  BY <1>3
<1>5. TypeOK
  BY DEF MetaInv
<1>6. CASE Fgetc = EOF
  <2>1. metadata' = metadata /\ pass' = "write"
    BY <1>6 DEF CountChar
  <2>2. position = Len(file)
    <3>1. ~(position < Len(file))
      BY <1>5, <1>6, ReadFacts
    <3> QED
      BY <1>2, <3>1
  <2>3. HashOf(h) /\ CountedTo(Len(file)) /\ Len(file) \in h..Len(file)
    BY <1>2, <1>3, <1>4, <2>2
  <2>4. PassesAgree'
    <3>1. metadata.hash = Djb2(UpToZero(SubSeq(file, 1, h)))
      BY <2>3 DEF HashOf, First
    <3>2. \A l \in Letter : metadata.count[l] = Char(Cardinality({i \in 1..Len(file) : LetterOf(file[i]) = l}))
      BY <2>3 DEF CountedTo, Places
    <3> QED
      BY <1>1, <1>4, <2>1, <2>3, <3>1, <3>2 DEF PassesAgree, First
  <2> QED
    BY <2>1, <2>4 DEF RecordInv, Counting
<1>7. CASE Fgetc # EOF
  <2>1. position < Len(file) /\ Fgetc = file[position + 1]
    BY <1>5, <1>7, ReadFacts
  <2> DEFINE k == LetterOf(file[position + 1])
             old == metadata.count
             count == IF k \in Letter THEN [old EXCEPT ![k] = Char(old[k] + 1)] ELSE old
  <2>2. /\ metadata'.hash = metadata.hash /\ metadata'.size = metadata.size
        /\ metadata'.count = count
        /\ position' = position + 1 /\ pass' = "count"
    <3>1. position' = position + 1 /\ pass' = "count"
      BY <1>1, <1>7 DEF CountChar
    <3>2. CASE k \in Letter
      <4>1. metadata' = [metadata EXCEPT !.count = [old EXCEPT ![k] = Char(old[k] + 1)]]
        BY <1>1, <1>7, <2>1, <3>2 DEF CountChar, Record
      <4> QED
        BY <1>1, <3>1, <3>2, <4>1 DEF Record
    <3>3. CASE k \notin Letter
      BY <1>1, <1>7, <2>1, <3>1, <3>3 DEF CountChar
    <3> QED
      BY <3>2, <3>3
  <2>3. old \in [Letter -> Counter]
    BY <1>1 DEF Record
  <2>4. ASSUME NEW l \in Letter
        PROVE  count[l] = Char(Cardinality(Places(file, position + 1, l)))
    <3> DEFINE m == Cardinality(Places(file, position, l))
    <3>1. /\ m \in Nat
          /\ Cardinality(Places(file, position + 1, l)) = m + IF k = l THEN 1 ELSE 0
      BY <1>2, PlacesStep
    <3>2. old[l] = Char(m)
      BY <1>3 DEF CountedTo
    <3> HIDE DEF m, old, k
    <3>3. CASE k = l
      <4>1. count[l] = Char(old[l] + 1)
        BY <2>3, <3>3
      <4>2. Char(Char(m) + 1) = Char(m + 1)
        BY <3>1, CharNext
      <4> QED
        BY <3>1, <3>2, <3>3, <4>1, <4>2
    <3>4. CASE k # l
      <4>1. count[l] = old[l]
        BY <2>3, <3>4
      <4>2. Cardinality(Places(file, position + 1, l)) = m
        BY <3>1, <3>4
      <4> QED
        BY <3>2, <4>1, <4>2
    <3> QED
      BY <3>3, <3>4
  <2> HIDE DEF count, old, k
  <2>5. CountedTo(position)'
    BY <1>1, <2>2, <2>4 DEF CountedTo
  <2>6. \E g \in metadata'.size..Len(file') : HashOf(g)'
    BY <1>1, <1>4, <2>2 DEF HashOf, First
  <2>7. ~Passed'
    BY <1>1, <2>2 DEF Passed
  <2> QED
    BY <2>2, <2>5, <2>6, <2>7 DEF RecordInv, Counting, PassesAgree
<1> QED
  BY <1>6, <1>7

LEMMA RecordStep ==
  ASSUME MetaInv, RecordInv, [Next]_vars
  PROVE  RecordInv'
<1>1. metadata \in Record /\ (pass \notin {"fwrite", "done"} => output = Old)
  BY RecordFacts
<1>2. CASE Grow \/ UNCHANGED vars
  <2>1. UNCHANGED <<position, pass, metadata, hash, output>>
    BY <1>2 DEF Grow, vars
  <2> QED
    BY <2>1, RecordKept DEF Passed
<1>3. CASE Open
  <2>1. /\ UNCHANGED <<metadata, output>> /\ pass = "open" /\ pass' \in {"size", "done"}
    BY <1>3 DEF Open, Exit
  <2>2. ~Passed'
    BY <1>1, <2>1 DEF Passed
  <2> QED
    BY <2>1, <2>2, RecordKept
<1>4. CASE Measure
  <2>1. /\ metadata'.hash = metadata.hash /\ metadata'.count = metadata.count
        /\ UNCHANGED output /\ pass = "size" /\ pass' = "sum"
    BY <1>1, <1>4 DEF Measure, Record
  <2>2. ~Passed'
    BY <1>1, <2>1 DEF Passed
  <2> QED
    BY <2>1, <2>2, RecordKept
<1>5. CASE OpenOutput \/ WriteRecord
  <2>1. /\ UNCHANGED metadata /\ pass \in {"write", "fwrite"} /\ pass' \in {"fwrite", "done"}
    BY <1>5 DEF OpenOutput, WriteRecord, Exit
  <2>2. Passed
    BY <2>1 DEF Passed
  <2> QED
    BY <2>1, <2>2, RecordKept
<1> QED
  BY <1>2, <1>3, <1>4, <1>5, RecordSum, RecordHash, RecordCount DEF Next, Program

(* For every file that grows in whatever way between two characters, every *)
(* width of the numbers and every alphabet: the hash in the record is that *)
(* of a beginning of the file, in closed form and up to its first zero     *)
(* byte, and the letter counts are those of a beginning that is no shorter *)
(* (task2_hash.c:3-15, task2_count.c:2-16).                                *)
THEOREM PassesDescribeFile == Spec => []PassesAgree
<1>1. Init => RecordInv
  BY InitRecord
<1>2. MetaInv /\ RecordInv /\ [Next]_vars => RecordInv'
  BY RecordStep
<1>3. RecordInv => PassesAgree
  BY DEF RecordInv
<1> QED
  BY <1>1, <1>2, <1>3, MetaInvariant, PTL DEF Spec
=============================================================================
