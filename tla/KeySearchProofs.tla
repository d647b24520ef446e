-------------------------- MODULE KeySearchProofs --------------------------
(***************************************************************************)
(* Theorems about KeySearch: what padding and blocks do to any data, and   *)
(* what the client saves, for every text, key, header and cut.             *)
(***************************************************************************)
EXTENDS KeySearch, TeaProofs, SequenceTheorems, FiniteSetTheorems

-----------------------------------------------------------------------------
(* Numbers of blocks *)

LEMMA BlockFacts ==
  /\ BlockSize \in Nat /\ BlockSize > 0 /\ BlockSize < ByteSize /\ ByteSize \in Nat
  /\ HalfBlock \in Nat /\ BlockSize = 2 * HalfBlock /\ HalfBlock >= 1
<1>1. BlockSize \in Nat /\ BlockSize > 0 /\ BlockSize < ByteSize /\ ByteSize \in Nat
  BY BlockAssumption
<1>2. BlockSize = 2 * HalfBlock
  BY PackAssumption
<1>3. HalfBlock \in Int
  BY <1>1 DEF HalfBlock
<1> QED
  BY <1>1, <1>2, <1>3

LEMMA DivMod ==
  ASSUME NEW a \in Nat
  PROVE  /\ a \div BlockSize \in Nat /\ a % BlockSize \in 0..(BlockSize - 1)
         /\ a = (a \div BlockSize) * BlockSize + (a % BlockSize)
BY BlockAssumption

LEMMA DivUnique ==
  ASSUME NEW a \in Nat, NEW q \in Int, NEW r \in 0..(BlockSize - 1), a = q * BlockSize + r
  PROVE  a \div BlockSize = q /\ a % BlockSize = r
BY BlockAssumption

(* The whole blocks of n bytes. *)
LEMMA AlignedFacts ==
  ASSUME NEW n \in Nat
  PROVE  /\ n \div BlockSize \in Nat /\ Aligned(n) \in Nat
         /\ Aligned(n) = (n \div BlockSize) * BlockSize
         /\ Aligned(n) <= n /\ n < Aligned(n) + BlockSize
<1>1. /\ n \div BlockSize \in Nat /\ n % BlockSize \in 0..(BlockSize - 1)
      /\ n = (n \div BlockSize) * BlockSize + (n % BlockSize)
  BY DivMod
<1>2. BlockSize \in Nat
  BY BlockFacts
<1> QED
  BY <1>1, <1>2 DEF Aligned

LEMMA AlignedBlocks ==
  ASSUME NEW q \in Nat
  PROVE  q * BlockSize \in Nat /\ (q * BlockSize) \div BlockSize = q /\ Aligned(q * BlockSize) = q * BlockSize
<1>1. BlockSize \in Nat /\ 0 \in 0..(BlockSize - 1) /\ q \in Int
  BY BlockFacts
<1>2. q * BlockSize \in Nat /\ q * BlockSize = q * BlockSize + 0
  BY <1>1
<1> DEFINE a == q * BlockSize
<1>3. a \div BlockSize = q
  <2>1. a \in Nat /\ a = q * BlockSize + 0
    BY <1>2
  <2> HIDE DEF a
  <2> QED
    BY <1>1, <2>1, DivUnique
<1> QED
  BY <1>2, <1>3 DEF Aligned

(* Fewer whole blocks are at least a block shorter. *)
LEMMA BlockLess ==
  ASSUME NEW a \in Nat, NEW q \in Nat, a * BlockSize < q * BlockSize
  PROVE  a * BlockSize + BlockSize <= q * BlockSize
<1>1. BlockSize \in Nat /\ BlockSize > 0
  BY BlockFacts
<1>2. a < q
  <2> SUFFICES ASSUME q <= a PROVE q * BlockSize <= a * BlockSize
    BY <1>1
  <2>1. a - q \in Nat /\ a = q + (a - q)
    OBVIOUS
  <2>2. a * BlockSize = q * BlockSize + (a - q) * BlockSize /\ (a - q) * BlockSize \in Nat
    BY <1>1, <2>1
  <2> QED
    BY <1>1, <2>2
<1>3. PICK d \in Nat : q = a + 1 + d
  <2>1. q - a - 1 \in Nat /\ q = a + 1 + (q - a - 1)
    BY <1>2
  <2> QED
    BY <2>1
<1>4. q * BlockSize = a * BlockSize + BlockSize + d * BlockSize /\ d * BlockSize \in Nat
  BY <1>1, <1>3
<1>5. a * BlockSize \in Nat
  BY <1>1
<1> QED
  BY <1>1, <1>4, <1>5

-----------------------------------------------------------------------------
(* Padding *)

(* What pkcs5_pad adds can be told apart and is taken off again: whole     *)
(* blocks, the data in front, then between one and BlockSize bytes that    *)
(* hold their number, also behind data of whole blocks; and                *)
(* remove_pkcs5_padding finds the length of the data                       *)
(* (task4_threads.c:34-62, task6_174/main.c:28-47).                        *)
THEOREM PaddingRemoved ==
  ASSUME NEW data \in Seq(Byte)
  PROVE  LET p == pkcs5_pad(data)
         IN /\ p \in Seq(Byte)
            /\ \E q \in Nat : Len(p) = q * BlockSize
            /\ Len(p) - Len(data) \in 1..BlockSize
            /\ \A i \in 1..Len(data) : p[i] = data[i]
            /\ \A i \in (Len(data) + 1)..Len(p) : p[i] = Len(p) - Len(data)
            /\ remove_pkcs5_padding(p) = Len(data)
<1> DEFINE n == Len(data)
           pad == BlockSize - (n % BlockSize)
           tail == [i \in 1..pad |-> pad]
           p == pkcs5_pad(data)
<1>0. BlockSize \in Nat /\ BlockSize > 0 /\ BlockSize < ByteSize /\ ByteSize \in Nat
  BY BlockFacts
<1>1. n \in Nat
  BY LenProperties
<1>2. /\ n \div BlockSize \in Nat /\ n % BlockSize \in 0..(BlockSize - 1)
      /\ n = (n \div BlockSize) * BlockSize + (n % BlockSize)
  <2> HIDE DEF n
  <2> QED
    BY <1>1, DivMod
<1>3. pad \in 1..BlockSize /\ pad \in Byte /\ pad \in Nat
  BY <1>0, <1>2 DEF Byte
<1>4. tail \in Seq(Byte) /\ Len(tail) = pad
  <2> HIDE DEF pad
  <2> QED
    BY <1>3
<1>5. p = data \o tail
  BY DEF pkcs5_pad
<1>6. /\ p \in Seq(Byte) /\ Len(p) = n + pad
      /\ \A i \in 1..(n + pad) : p[i] = IF i <= n THEN data[i] ELSE tail[i - n]
  <2> HIDE DEF tail, pad, p
  <2> QED
    BY <1>4, <1>5, ConcatProperties
<1>7. Len(p) = (n \div BlockSize + 1) * BlockSize /\ n \div BlockSize + 1 \in Nat
  <2> DEFINE q == n \div BlockSize
             r == n % BlockSize
  <2>1. Len(p) = n + (BlockSize - r) /\ n = q * BlockSize + r /\ q \in Nat /\ r \in Nat
    BY <1>2, <1>6
  <2> HIDE DEF n, q, r, p
  <2>2. q * BlockSize \in Nat /\ (q + 1) * BlockSize = q * BlockSize + BlockSize
    BY <1>0, <2>1
  <2>3. Len(p) = (q + 1) * BlockSize /\ q + 1 \in Nat
    BY <1>0, <2>1, <2>2
  <2> QED
    BY <2>3 DEF q
<1>8. \A i \in 1..n : p[i] = data[i]
  <2> HIDE DEF n, pad, p
  <2>1. \A i \in 1..n : i \in 1..(n + pad) /\ i <= n
    BY <1>1, <1>3
  <2> QED
    BY <1>6, <2>1
<1>9. \A i \in 1..pad : p[n + i] = pad
  <2> TAKE i \in 1..pad
  <2>1. n + i \in 1..(n + pad) /\ ~(n + i <= n) /\ (n + i) - n = i
    BY <1>1, <1>3
  <2>2. p[n + i] = tail[i]
    BY <1>6, <2>1
  <2> QED
    BY <1>3, <2>2
<1> HIDE DEF p, tail
<1>10. p[Len(p)] = pad
  BY <1>3, <1>6, <1>9
<1>11. \A i \in 1..pad : p[Len(p) + 1 - i] = pad
  <2> HIDE DEF pad
  <2> TAKE i \in 1..pad
  <2>1. (pad + 1 - i) \in 1..pad /\ Len(p) + 1 - i = n + (pad + 1 - i)
    BY <1>1, <1>3, <1>6
  <2> QED
    BY <1>9, <2>1
<1>12. remove_pkcs5_padding(p) = Len(p) - pad
  <2> HIDE DEF pad
  <2>1. Len(p) > 0
    BY <1>1, <1>3, <1>6
  <2> QED
    BY <1>3, <1>10, <1>11, <2>1 DEF remove_pkcs5_padding
<1>13. Len(p) - pad = n /\ Len(p) - n = pad
  <2> HIDE DEF pad, n
  <2> QED
    BY <1>1, <1>3, <1>6
<1>14. \A i \in (n + 1)..Len(p) : p[i] = Len(p) - n
  <2> SUFFICES ASSUME NEW i \in (n + 1)..Len(p) PROVE p[i] = pad
    BY <1>13
  <2> DEFINE j == i - n
  <2> HIDE DEF n, pad
  <2>1. j \in 1..pad /\ n + j = i
    BY <1>1, <1>3, <1>6
  <2> HIDE DEF j
  <2> QED
    BY <1>9, <2>1
<1> QED
  BY <1>3, <1>6, <1>7, <1>8, <1>12, <1>13, <1>14 DEF p

-----------------------------------------------------------------------------
(* Blocks *)

(* Byte i of q blocks is byte j of block b. *)
LEMMA IndexSplit ==
  ASSUME NEW q \in Nat, NEW i \in 1..(q * BlockSize)
  PROVE  /\ (i - 1) \div BlockSize \in 0..(q - 1)
         /\ ((i - 1) % BlockSize) + 1 \in 1..BlockSize
         /\ i = ((i - 1) \div BlockSize) * BlockSize + (((i - 1) % BlockSize) + 1)
<1> DEFINE a == i - 1
           b == a \div BlockSize
           r == a % BlockSize
<1>0. BlockSize \in Nat /\ BlockSize > 0 /\ q * BlockSize \in Nat
  BY BlockFacts
<1>1. a \in Nat /\ a < q * BlockSize
  BY <1>0
<1>2. b \in Nat /\ r \in 0..(BlockSize - 1) /\ a = b * BlockSize + r
  <2> HIDE DEF a
  <2> QED
    BY <1>1, DivMod
<1> HIDE DEF b, r
<1>3. b < q
  <2> SUFFICES ASSUME q <= b PROVE FALSE
    BY <1>2
  <2>1. CASE q = b
    BY <1>0, <1>1, <1>2, <2>1
  <2>2. CASE q < b
    <3>1. b * BlockSize \in Nat /\ b * BlockSize < q * BlockSize
      BY <1>0, <1>1, <1>2
    <3>2. b * BlockSize + BlockSize <= q * BlockSize
      BY <1>2, <3>1, BlockLess
    <3>3. PICK d \in Nat : b = q + d
      <4>1. b - q \in Nat /\ b = q + (b - q)
        BY <1>2
      <4> QED
        BY <4>1
    <3>4. b * BlockSize = q * BlockSize + d * BlockSize /\ d * BlockSize \in Nat
      BY <1>0, <3>3
    <3> QED
      BY <1>0, <3>1, <3>4
  <2> QED
    BY <1>2, <2>1, <2>2
<1>4. i = b * BlockSize + (r + 1) /\ r + 1 \in 1..BlockSize
  <2>1. b * BlockSize \in Nat
    BY <1>0, <1>2
  <2> QED
    BY <1>0, <1>2, <2>1
<1> QED
  BY <1>2, <1>3, <1>4 DEF b, r

LEMMA IndexJoin ==
  ASSUME NEW q \in Nat, NEW b \in 0..(q - 1), NEW j \in 1..BlockSize
  PROVE  /\ b * BlockSize + j \in 1..(q * BlockSize)
         /\ ((b * BlockSize + j) - 1) \div BlockSize = b
         /\ (((b * BlockSize + j) - 1) % BlockSize) + 1 = j
<1>0. BlockSize \in Nat /\ BlockSize > 0 /\ b * BlockSize \in Nat /\ q * BlockSize \in Nat
  BY BlockFacts
<1> DEFINE a == (b * BlockSize + j) - 1
           r == j - 1
<1>1. a \in Nat /\ r \in 0..(BlockSize - 1) /\ a = b * BlockSize + r /\ b \in Int
  BY <1>0
<1>2. a \div BlockSize = b /\ a % BlockSize = r
  <2> HIDE DEF a, r
  <2> QED
    BY <1>1, DivUnique
<1>3. b * BlockSize + BlockSize <= q * BlockSize
  <2>1. PICK d \in Nat : q = b + 1 + d
    <3>1. q - b - 1 \in Nat /\ q = b + 1 + (q - b - 1)
      OBVIOUS
    <3> QED
      BY <3>1
  <2>2. q * BlockSize = b * BlockSize + BlockSize + d * BlockSize /\ d * BlockSize \in Nat
    BY <1>0, <2>1
  <2> QED
    BY <1>0, <2>2
<1>4. b * BlockSize + j \in 1..(q * BlockSize)
  BY <1>0, <1>3
<1> QED
  BY <1>2, <1>4

(* The two words of a block of bytes, and the bytes of two words.          *)
LEMMA WordsTyped ==
  ASSUME NEW data, NEW b \in Nat,
         \A j \in 1..BlockSize : data[b * BlockSize + j] \in Byte
  PROVE  /\ WordsAt(data, b) \in Block
         /\ \A j \in 1..BlockSize : ByteOf(WordsAt(data, b), j) = data[b * BlockSize + j]
<1> DEFINE lo == [j \in 1..HalfBlock |-> data[b * BlockSize + j]]
           hi == [j \in 1..HalfBlock |-> data[b * BlockSize + HalfBlock + j]]
<1>0. /\ HalfBlock \in Nat /\ BlockSize = 2 * HalfBlock /\ HalfBlock >= 1
      /\ BlockSize \in Nat /\ b * BlockSize \in Nat
  BY BlockFacts
<1>1. \A j \in 1..HalfBlock : /\ j \in 1..BlockSize /\ HalfBlock + j \in 1..BlockSize
                              /\ b * BlockSize + HalfBlock + j = b * BlockSize + (HalfBlock + j)
  BY <1>0
<1>2. lo \in WordBytes /\ hi \in WordBytes
  BY <1>1 DEF WordBytes
<1>3. /\ Pack(lo) \in Word /\ Unpack(Pack(lo)) = lo
      /\ Pack(hi) \in Word /\ Unpack(Pack(hi)) = hi
  <2> HIDE DEF lo, hi
  <2> QED
    BY <1>2, PackAssumption
<1>4. WordsAt(data, b) = <<Pack(lo), Pack(hi)>>
  BY DEF WordsAt
<1>5. ASSUME NEW j \in 1..BlockSize
      PROVE  ByteOf(WordsAt(data, b), j) = data[b * BlockSize + j]
  <2>1. CASE j <= HalfBlock
    <3>1. ByteOf(WordsAt(data, b), j) = lo[j]
      <4> HIDE DEF lo, hi
      <4> QED
        BY <1>3, <1>4, <2>1 DEF ByteOf
    <3>2. j \in 1..HalfBlock
      BY <1>0, <2>1
    <3> QED
      BY <3>1, <3>2
  <2>2. CASE ~(j <= HalfBlock)
    <3>1. ByteOf(WordsAt(data, b), j) = hi[j - HalfBlock]
      <4> HIDE DEF lo, hi
      <4> QED
        BY <1>3, <1>4, <2>2 DEF ByteOf
    <3>2. j - HalfBlock \in 1..HalfBlock /\ b * BlockSize + HalfBlock + (j - HalfBlock) = b * BlockSize + j
      BY <1>0, <2>2
    <3>3. hi[j - HalfBlock] = data[b * BlockSize + HalfBlock + (j - HalfBlock)]
      BY <3>2
    <3> QED
      BY <3>1, <3>2, <3>3
  <2> QED
    BY <2>1, <2>2
<1>6. <<Pack(lo), Pack(hi)>> \in Block
  <2> HIDE DEF lo, hi
  <2> QED
    BY <1>3 DEF Block
<1> QED
  BY <1>4, <1>5, <1>6

LEMMA BytesTyped ==
  ASSUME NEW w \in Block, NEW j \in 1..BlockSize
  PROVE  ByteOf(w, j) \in Byte
<1>1. Unpack(w[1]) \in WordBytes /\ Unpack(w[2]) \in WordBytes
  BY PackAssumption DEF Block
<1>2. j <= HalfBlock => j \in 1..HalfBlock
  BY BlockFacts
<1>3. ~(j <= HalfBlock) => j - HalfBlock \in 1..HalfBlock
  BY BlockFacts
<1> QED
  BY <1>1, <1>2, <1>3 DEF ByteOf, WordBytes

(* The words of a block whose bytes are those of two words. *)
LEMMA WordsBack ==
  ASSUME NEW data, NEW b \in Nat, NEW w \in Block,
         \A j \in 1..BlockSize : data[b * BlockSize + j] = ByteOf(w, j)
  PROVE  WordsAt(data, b) = w
<1> DEFINE lo == [j \in 1..HalfBlock |-> data[b * BlockSize + j]]
           hi == [j \in 1..HalfBlock |-> data[b * BlockSize + HalfBlock + j]]
<1>0. /\ HalfBlock \in Nat /\ BlockSize = 2 * HalfBlock /\ HalfBlock >= 1
      /\ BlockSize \in Nat /\ b * BlockSize \in Nat
  BY BlockFacts
<1>1. /\ w = <<w[1], w[2]>>
      /\ Unpack(w[1]) \in WordBytes /\ Pack(Unpack(w[1])) = w[1]
      /\ Unpack(w[2]) \in WordBytes /\ Pack(Unpack(w[2])) = w[2]
  BY PackAssumption DEF Block
<1>2. \A j \in 1..HalfBlock : data[b * BlockSize + j] = Unpack(w[1])[j]
  <2> TAKE j \in 1..HalfBlock
  <2>1. j \in 1..BlockSize /\ j <= HalfBlock
    BY <1>0
  <2> QED
    BY <2>1 DEF ByteOf
<1>3. \A j \in 1..HalfBlock : data[b * BlockSize + HalfBlock + j] = Unpack(w[2])[j]
  <2> TAKE j \in 1..HalfBlock
  <2>1. /\ HalfBlock + j \in 1..BlockSize /\ ~(HalfBlock + j <= HalfBlock)
        /\ (HalfBlock + j) - HalfBlock = j
        /\ b * BlockSize + HalfBlock + j = b * BlockSize + (HalfBlock + j)
    BY <1>0
  <2>2. data[b * BlockSize + (HalfBlock + j)] = ByteOf(w, HalfBlock + j)
    BY <2>1
  <2> QED
    BY <2>1, <2>2 DEF ByteOf
<1>4. lo = Unpack(w[1]) /\ hi = Unpack(w[2])
  BY <1>1, <1>2, <1>3 DEF WordBytes
<1> QED
  BY <1>1, <1>4 DEF WordsAt

LEMMA SeqOfFunction ==
  ASSUME NEW n \in Nat, NEW f \in [1..n -> Byte]
  PROVE  f \in Seq(Byte) /\ Len(f) = n
<1>1. f \in Seq(Byte)
  BY SeqDef
<1>2. DOMAIN f = 1..n /\ DOMAIN f = 1..Len(f) /\ Len(f) \in Nat
  BY <1>1, LenProperties
<1> QED
  BY <1>1, <1>2

(* A file enciphered or deciphered block by block. *)
LEMMA EncryptedBlocks ==
  ASSUME NEW data \in Seq(Byte), NEW k \in Key
  PROVE  LET e == Encrypted(data, k)
         IN /\ e \in Seq(Byte)
            /\ Len(e) = Aligned(Len(data))
            /\ \A b \in 0..(Len(data) \div BlockSize - 1) : \A j \in 1..BlockSize :
                 /\ data[b * BlockSize + j] \in Byte
                 /\ e[b * BlockSize + j] = ByteOf(encipher(WordsAt(data, b), k), j)
<1> DEFINE q == Len(data) \div BlockSize
           w == [b \in 0..(q - 1) |-> encipher(WordsAt(data, b), k)]
           at(i) == ByteOf(w[(i - 1) \div BlockSize], ((i - 1) % BlockSize) + 1)
           e == Encrypted(data, k)
<1>0. /\ Len(data) \in Nat /\ q \in Nat /\ Aligned(Len(data)) = q * BlockSize
      /\ q * BlockSize \in Nat /\ q * BlockSize <= Len(data)
      /\ \A i \in 1..Len(data) : data[i] \in Byte
  <2>1. Len(data) \in Nat /\ \A i \in 1..Len(data) : data[i] \in Byte
    BY LenProperties
  <2> QED
    BY <2>1, AlignedFacts
<1>1. ASSUME NEW b \in 0..(q - 1)
      PROVE  /\ \A j \in 1..BlockSize : data[b * BlockSize + j] \in Byte
             /\ WordsAt(data, b) \in Block
             /\ w[b] \in Block /\ w[b] = encipher(WordsAt(data, b), k)
  <2>1. \A j \in 1..BlockSize : b * BlockSize + j \in 1..(q * BlockSize)
    <3> HIDE DEF q
    <3> QED
      BY <1>0, IndexJoin
  <2>2. \A j \in 1..BlockSize : data[b * BlockSize + j] \in Byte
    <3> HIDE DEF q
    <3>1. \A i \in 1..(q * BlockSize) : i \in 1..Len(data)
      BY <1>0
    <3> QED
      BY <1>0, <2>1, <3>1
  <2>3. b \in Nat
    <3> HIDE DEF q
    <3> QED
      BY <1>0
  <2>4. WordsAt(data, b) \in Block
    BY <2>2, <2>3, WordsTyped
  <2> QED
    BY <2>2, <2>4, CipherTyped
<1>2. e = [i \in 1..(q * BlockSize) |-> at(i)]
  BY <1>0 DEF Encrypted
<1>3. \A i \in 1..(q * BlockSize) : at(i) \in Byte
  <2> TAKE i \in 1..(q * BlockSize)
  <2> HIDE DEF q, w
  <2>1. (i - 1) \div BlockSize \in 0..(q - 1) /\ ((i - 1) % BlockSize) + 1 \in 1..BlockSize
    BY <1>0, IndexSplit
  <2>2. w[(i - 1) \div BlockSize] \in Block
    BY <1>1, <2>1
  <2> QED
    BY <2>1, <2>2, BytesTyped
<1>4. e \in Seq(Byte) /\ Len(e) = q * BlockSize
  <2> DEFINE n == q * BlockSize
  <2>1. n \in Nat /\ e = [i \in 1..n |-> at(i)] /\ \A i \in 1..n : at(i) \in Byte
    BY <1>0, <1>2, <1>3
  <2> HIDE DEF n, at, e
  <2>2. e \in [1..n -> Byte]
    BY <2>1
  <2>3. e \in Seq(Byte) /\ Len(e) = n
    BY <2>1, <2>2, SeqOfFunction
  <2> QED
    BY <2>3 DEF n
<1>5. ASSUME NEW b \in 0..(q - 1), NEW j \in 1..BlockSize
      PROVE  e[b * BlockSize + j] = ByteOf(encipher(WordsAt(data, b), k), j)
  <2>1. /\ b * BlockSize + j \in 1..(q * BlockSize)
        /\ ((b * BlockSize + j) - 1) \div BlockSize = b
        /\ (((b * BlockSize + j) - 1) % BlockSize) + 1 = j
    <3> HIDE DEF q
    <3> QED
      BY <1>0, IndexJoin
  <2>2. e[b * BlockSize + j] = at(b * BlockSize + j)
    <3> HIDE DEF q, at, e
    <3> QED
      BY <1>2, <2>1
  <2>3. at(b * BlockSize + j) = ByteOf(w[b], j)
    BY <2>1
  <2> QED
    BY <1>1, <2>2, <2>3
<1> QED
  BY <1>0, <1>1, <1>4, <1>5

LEMMA DecryptedBlocks ==
  ASSUME NEW data \in Seq(Byte), NEW k \in Key
  PROVE  LET e == Decrypted(data, k)
         IN /\ e \in Seq(Byte)
            /\ Len(e) = Aligned(Len(data))
            /\ \A b \in 0..(Len(data) \div BlockSize - 1) : \A j \in 1..BlockSize :
                 /\ data[b * BlockSize + j] \in Byte
                 /\ e[b * BlockSize + j] = ByteOf(decipher(WordsAt(data, b), k), j)
<1> DEFINE q == Len(data) \div BlockSize
           w == [b \in 0..(q - 1) |-> decipher(WordsAt(data, b), k)]
           at(i) == ByteOf(w[(i - 1) \div BlockSize], ((i - 1) % BlockSize) + 1)
           e == Decrypted(data, k)
<1>0. /\ Len(data) \in Nat /\ q \in Nat /\ Aligned(Len(data)) = q * BlockSize
      /\ q * BlockSize \in Nat /\ q * BlockSize <= Len(data)
      /\ \A i \in 1..Len(data) : data[i] \in Byte
  <2>1. Len(data) \in Nat /\ \A i \in 1..Len(data) : data[i] \in Byte
    BY LenProperties
  <2> QED
    BY <2>1, AlignedFacts
<1>1. ASSUME NEW b \in 0..(q - 1)
      PROVE  /\ \A j \in 1..BlockSize : data[b * BlockSize + j] \in Byte
             /\ WordsAt(data, b) \in Block
             /\ w[b] \in Block /\ w[b] = decipher(WordsAt(data, b), k)
  <2>1. \A j \in 1..BlockSize : b * BlockSize + j \in 1..(q * BlockSize)
    <3> HIDE DEF q
    <3> QED
      BY <1>0, IndexJoin
  <2>2. \A j \in 1..BlockSize : data[b * BlockSize + j] \in Byte
    <3> HIDE DEF q
    <3>1. \A i \in 1..(q * BlockSize) : i \in 1..Len(data)
      BY <1>0
    <3> QED
      BY <1>0, <2>1, <3>1
  <2>3. b \in Nat
    <3> HIDE DEF q
    <3> QED
      BY <1>0
  <2>4. WordsAt(data, b) \in Block
    BY <2>2, <2>3, WordsTyped
  <2> QED
    BY <2>2, <2>4, CipherTyped
<1>2. e = [i \in 1..(q * BlockSize) |-> at(i)]
  BY <1>0 DEF Decrypted
<1>3. \A i \in 1..(q * BlockSize) : at(i) \in Byte
  <2> TAKE i \in 1..(q * BlockSize)
  <2> HIDE DEF q, w
  <2>1. (i - 1) \div BlockSize \in 0..(q - 1) /\ ((i - 1) % BlockSize) + 1 \in 1..BlockSize
    BY <1>0, IndexSplit
  <2>2. w[(i - 1) \div BlockSize] \in Block
    BY <1>1, <2>1
  <2> QED
    BY <2>1, <2>2, BytesTyped
<1>4. e \in Seq(Byte) /\ Len(e) = q * BlockSize
  <2> DEFINE n == q * BlockSize
  <2>1. n \in Nat /\ e = [i \in 1..n |-> at(i)] /\ \A i \in 1..n : at(i) \in Byte
    BY <1>0, <1>2, <1>3
  <2> HIDE DEF n, at, e
  <2>2. e \in [1..n -> Byte]
    BY <2>1
  <2>3. e \in Seq(Byte) /\ Len(e) = n
    BY <2>1, <2>2, SeqOfFunction
  <2> QED
    BY <2>3 DEF n
<1>5. ASSUME NEW b \in 0..(q - 1), NEW j \in 1..BlockSize
      PROVE  e[b * BlockSize + j] = ByteOf(decipher(WordsAt(data, b), k), j)
  <2>1. /\ b * BlockSize + j \in 1..(q * BlockSize)
        /\ ((b * BlockSize + j) - 1) \div BlockSize = b
        /\ (((b * BlockSize + j) - 1) % BlockSize) + 1 = j
    <3> HIDE DEF q
    <3> QED
      BY <1>0, IndexJoin
  <2>2. e[b * BlockSize + j] = at(b * BlockSize + j)
    <3> HIDE DEF q, at, e
    <3> QED
      BY <1>2, <2>1
  <2>3. at(b * BlockSize + j) = ByteOf(w[b], j)
    BY <2>1
  <2> QED
    BY <1>1, <2>2, <2>3
<1> QED
  BY <1>0, <1>1, <1>4, <1>5


LEMMA BlockCount ==
  ASSUME NEW a \in Nat, NEW q \in Nat, a * BlockSize <= q * BlockSize
  PROVE  a <= q
<1>1. BlockSize \in Nat /\ BlockSize > 0 /\ a * BlockSize \in Nat /\ q * BlockSize \in Nat
  BY BlockFacts
<1> SUFFICES ASSUME q < a PROVE FALSE
  OBVIOUS
<1>2. PICK d \in Nat : a = q + 1 + d
  <2>1. a - q - 1 \in Nat /\ a = q + 1 + (a - q - 1)
    OBVIOUS
  <2> QED
    BY <2>1
<1>3. a * BlockSize = q * BlockSize + BlockSize + d * BlockSize /\ d * BlockSize \in Nat
  BY <1>1, <1>2
<1> QED
  BY <1>1, <1>3

(* The beginning of a sequence of bytes. *)
LEMMA Beginning ==
  ASSUME NEW s \in Seq(Byte), NEW m \in 0..Len(s)
  PROVE  /\ SubSeq(s, 1, m) \in Seq(Byte) /\ Len(SubSeq(s, 1, m)) = m
         /\ \A i \in 1..m : SubSeq(s, 1, m)[i] = s[i]
<1>1. Len(s) \in Nat /\ \A i \in 1..Len(s) : s[i] \in Byte
  BY LenProperties
<1>2. m \in Int /\ 1 \in Int /\ \A i \in 1..m : s[i] \in Byte
  BY <1>1
<1>3. /\ SubSeq(s, 1, m) \in Seq(Byte)
      /\ Len(SubSeq(s, 1, m)) = IF 1 <= m THEN m - 1 + 1 ELSE 0
      /\ \A i \in 1..(m - 1 + 1) : SubSeq(s, 1, m)[i] = s[1 + i - 1]
  BY <1>2, SubSeqProperties
<1> QED
  BY <1>1, <1>3

(* Deciphering the first m bytes of an enciphered file gives the whole     *)
(* blocks among its first m bytes: the blocks do not depend on each other, *)
(* and what is behind the last whole block is lost (task4_threads.c:239-243*)
(* against task6_174/main.c:197-239).                                      *)
THEOREM CutTransfer ==
  ASSUME NEW data \in Seq(Byte), NEW q \in Nat, Len(data) = q * BlockSize,
         NEW k \in Key, NEW m \in 0..Len(data)
  PROVE  Decrypted(SubSeq(Encrypted(data, k), 1, m), k) = SubSeq(data, 1, Aligned(m))
<1> DEFINE c == Encrypted(data, k)
           p == SubSeq(c, 1, m)
           a == m \div BlockSize
           d == Decrypted(p, k)
           r == SubSeq(data, 1, Aligned(m))
<1>0. /\ q * BlockSize \in Nat /\ m \in Nat /\ m <= q * BlockSize
      /\ Len(data) \div BlockSize = q /\ Aligned(Len(data)) = q * BlockSize
  <2>1. q * BlockSize \in Nat
    BY BlockFacts
  <2>2. (q * BlockSize) \div BlockSize = q /\ Aligned(q * BlockSize) = q * BlockSize
    BY AlignedBlocks
  <2> QED
    BY <2>1, <2>2
<1>1. a \in Nat /\ Aligned(m) = a * BlockSize /\ a * BlockSize \in Nat /\ a * BlockSize <= m
  BY <1>0, AlignedFacts
<1>2. /\ c \in Seq(Byte) /\ Len(c) = q * BlockSize
      /\ \A b \in 0..(q - 1) : \A j \in 1..BlockSize :
           /\ data[b * BlockSize + j] \in Byte
           /\ c[b * BlockSize + j] = ByteOf(encipher(WordsAt(data, b), k), j)
  BY <1>0, EncryptedBlocks
<1> HIDE DEF c, a
<1>3. p \in Seq(Byte) /\ Len(p) = m /\ \A i \in 1..m : p[i] = c[i]
  BY <1>0, <1>2, Beginning
<1> HIDE DEF p
<1>4. /\ d \in Seq(Byte) /\ Len(d) = a * BlockSize
      /\ \A b \in 0..(a - 1) : \A j \in 1..BlockSize :
           d[b * BlockSize + j] = ByteOf(decipher(WordsAt(p, b), k), j)
  BY <1>1, <1>3, DecryptedBlocks DEF a
<1> HIDE DEF d
<1>5. r \in Seq(Byte) /\ Len(r) = a * BlockSize /\ \A i \in 1..(a * BlockSize) : r[i] = data[i]
  <2>1. a * BlockSize \in 0..Len(data)
    BY <1>0, <1>1
  <2> QED
    BY <1>1, <2>1, Beginning
<1> HIDE DEF r
<1>6. a <= q
  <2>1. a * BlockSize <= q * BlockSize
    BY <1>0, <1>1
  <2> QED
    BY <1>1, <2>1, BlockCount
<1>7. ASSUME NEW b \in 0..(a - 1), NEW j \in 1..BlockSize
      PROVE  d[b * BlockSize + j] = data[b * BlockSize + j]
  <2> DEFINE v == WordsAt(data, b)
             w == encipher(v, k)
  <2>1. b \in Nat /\ b \in 0..(q - 1)
    BY <1>1, <1>6
  <2>2. /\ v \in Block
        /\ \A i \in 1..BlockSize : ByteOf(v, i) = data[b * BlockSize + i]
    BY <1>2, <2>1, WordsTyped
  <2>3. w \in Block
    BY <2>2, CipherTyped
  <2>4. \A i \in 1..BlockSize : p[b * BlockSize + i] = ByteOf(w, i)
    <3> TAKE i \in 1..BlockSize
    <3>1. b * BlockSize + i \in 1..(a * BlockSize)
      BY <1>1, IndexJoin
    <3>2. b * BlockSize + i \in 1..m
      BY <1>0, <1>1, <3>1
    <3> QED
      BY <1>2, <1>3, <2>1, <3>2
  <2> HIDE DEF w
  <2>5. WordsAt(p, b) = w
    BY <2>1, <2>3, <2>4, WordsBack
  <2> HIDE DEF v
  <2>6. decipher(w, k) = v
    BY <2>2, DecipherUndoesEncipher DEF w
  <2> QED
    BY <1>4, <2>2, <2>5, <2>6
<1>8. ASSUME NEW i \in 1..(a * BlockSize) PROVE d[i] = r[i]
  <2> DEFINE b == (i - 1) \div BlockSize
             j == ((i - 1) % BlockSize) + 1
  <2>1. b \in 0..(a - 1) /\ j \in 1..BlockSize /\ i = b * BlockSize + j
    BY <1>1, IndexSplit
  <2> HIDE DEF b, j
  <2>2. d[b * BlockSize + j] = data[b * BlockSize + j]
    BY <1>7, <2>1
  <2> QED
    BY <1>5, <2>1, <2>2
<1>9. d = r
  <2>1. Len(d) = Len(r) /\ \A i \in 1..Len(d) : d[i] = r[i]
    BY <1>4, <1>5, <1>8
  <2> QED
    BY <1>4, <1>5, <2>1, SeqEqual
<1> QED
  BY <1>9 DEF d, r, p, c

-----------------------------------------------------------------------------
(* The client *)

(* Nothing is found or saved before the search, which begins with key 0.   *)
BeforeSearch ==
  /\ pc \notin {"report", "done"} => ~found_key
  /\ pc \notin {"decrypt", "validate", "report", "done"} => key_byte = 0
  /\ ~found_key => saved = NoFile

(* What the client has of the stream before it looks at it. *)
Received == pc \in {"connect", "recv"} => Len(file_data) <= sent

(* The copy is the file under the key that is being tried, or was taken;   *)
(* and what was saved is the copy without its padding.                     *)
CopyOf(key) == decrypted = Decrypted(file_data, KeyOf(key))
Tried == pc = "validate" => CopyOf(key_byte)
Taken == found_key => /\ CopyOf(successful_key)
                      /\ remove_pkcs5_padding(decrypted) < Len(decrypted)
                      /\ saved \in {NoFile, SubSeq(decrypted, 1, remove_pkcs5_padding(decrypted))}

Sent == stream = header \o Encrypted(pkcs5_pad(text), KeyOf(skey))

SearchInv == TypeOK /\ BeforeSearch /\ Received /\ Tried /\ Taken /\ Sent

LEMMA KeyTyped ==
  ASSUME NEW byte \in 0..(KeyLimit - 1)
  PROVE  KeyOf(byte) \in Key
<1>1. byte \in Byte
  BY LimitAssumption, BlockFacts DEF Byte
<1>2. [j \in 1..HalfBlock |-> byte] \in WordBytes
  BY <1>1 DEF WordBytes
<1>3. Pack([j \in 1..HalfBlock |-> byte]) \in Word
  BY <1>2, PackAssumption
<1> QED
  BY <1>3 DEF KeyOf, Key

LEMMA TextBytes ==
  ASSUME NEW t \in Texts
  PROVE  /\ t \in Seq(Byte) /\ Len(t) \in Nat
         /\ \A i \in 1..Len(t) : t[i] \in Byte /\ t[i] > BlockSize
<1>1. t \in Seq((BlockSize + 1)..(ByteSize - 1))
  BY TextAssumption
<1>2. Len(t) \in Nat /\ t \in [1..Len(t) -> (BlockSize + 1)..(ByteSize - 1)]
  BY <1>1, LenProperties
<1>3. \A x \in (BlockSize + 1)..(ByteSize - 1) : x \in Byte /\ x > BlockSize
  BY BlockFacts DEF Byte
<1>4. t \in [1..Len(t) -> Byte]
  BY <1>2, <1>3
<1> QED
  BY <1>2, <1>3, <1>4, SeqOfFunction

LEMMA CipherBytes ==
  ASSUME NEW t \in Texts, NEW key \in Keys
  PROVE  Encrypted(pkcs5_pad(t), KeyOf(key)) \in Seq(Byte)
<1>1. pkcs5_pad(t) \in Seq(Byte)
  BY TextBytes, PaddingRemoved
<1>2. KeyOf(key) \in Key
  BY LimitAssumption, KeyTyped
<1> QED
  BY <1>1, <1>2, EncryptedBlocks

LEMMA InitSearch ==
  ASSUME Init
  PROVE  SearchInv
<1>1. Encrypted(pkcs5_pad(text), KeyOf(skey)) \in Seq(Byte)
  BY CipherBytes DEF Init
<1> DEFINE c == Encrypted(pkcs5_pad(text), KeyOf(skey))
<1>2. stream \in Seq(Byte)
  <2>1. header \in Seq(Byte) /\ stream = header \o c
    BY HeaderAssumption DEF Init
  <2> HIDE DEF c
  <2>2. c \in Seq(Byte)
    BY <1>1 DEF c
  <2> QED
    BY <2>1, <2>2, ConcatProperties
<1>3. Len(stream) \in Nat
  BY <1>2, LenProperties
<1>4. <<>> \in Seq(Byte) /\ Len(<<>>) = 0
  BY EmptySeq
<1>5. 0 \in 0..(KeyLimit - 1) /\ 0 \in 0..KeyLimit
  BY LimitAssumption, BlockFacts
<1>6. TypeOK
  <2>1. text \in Texts /\ skey \in Keys /\ header \in Headers
    BY DEF Init
  <2>2. sent \in 0..Len(stream) /\ open \in BOOLEAN
    BY <1>3 DEF Init
  <2>3. /\ pc \in {"connect", "recv", "extract", "prepare", "decrypt", "validate", "report", "done"}
        /\ status \in {"running", "exit 0", "exit 1", "crashed"}
        /\ (status = "running") = (pc # "done")
        /\ pc \notin {"decrypt", "validate"}
    BY DEF Init
  <2>4. file_data \in Seq(Byte) /\ decrypted \in Seq(Byte)
    BY <1>4 DEF Init
  <2>5. key_byte \in 0..KeyLimit /\ successful_key \in 0..(KeyLimit - 1)
    BY <1>5 DEF Init
  <2>6. found_key \in BOOLEAN /\ saved = NoFile
    BY DEF Init
  <2> QED
    BY <1>2, <2>1, <2>2, <2>3, <2>4, <2>5, <2>6 DEF TypeOK
<1>7. BeforeSearch
  BY DEF Init, BeforeSearch
<1>8. Received
  BY <1>4 DEF Init, Received
<1>9. Tried /\ Taken
  BY DEF Init, Tried, Taken
<1>10. Sent
  BY DEF Init, Sent
<1> QED
  BY <1>6, <1>7, <1>8, <1>9, <1>10 DEF SearchInv

(* What strstr leaves of a sequence of bytes are bytes. *)
LEMMA BodyBytes ==
  ASSUME NEW data \in Seq(Byte), NEW body \in Bodies(data)
  PROVE  body \in Seq(Byte)
<1>1. Len(data) \in Nat /\ \A j \in 1..Len(data) : data[j] \in Byte
  BY LenProperties
<1>2. Len(Terminator) \in Nat
  BY HeaderAssumption, LenProperties
<1>3. PICK i \in 1..(Len(data) - Len(Terminator) + 1) :
        body = SubSeq(data, i + Len(Terminator), Len(data))
  BY DEF Bodies
<1>4. /\ i + Len(Terminator) \in Int /\ Len(data) \in Int
      /\ \A j \in (i + Len(Terminator))..Len(data) : data[j] \in Byte
  BY <1>1, <1>2
<1> QED
  BY <1>3, <1>4, SubSeqProperties

LEMMA SavedBytes ==
  ASSUME NEW data \in Seq(Byte), remove_pkcs5_padding(data) < Len(data)
  PROVE  SubSeq(data, 1, remove_pkcs5_padding(data)) \in Seq(Byte)
<1>1. Len(data) \in Nat /\ \A j \in 1..Len(data) : data[j] \in Byte
  BY LenProperties
<1>2. remove_pkcs5_padding(data) \in Int
  BY <1>1, BlockFacts DEF remove_pkcs5_padding, Byte
<1>3. \A j \in 1..remove_pkcs5_padding(data) : data[j] \in Byte
  BY <1>1, <1>2
<1> QED
  BY <1>2, <1>3, SubSeqProperties

(* Steps that leave the copy and what was found alone. *)
LEMMA SearchFrame ==
  ASSUME SearchInv, UNCHANGED <<text, skey, header, stream, file_data, Search>>,
         pc' \notin {"decrypt", "validate"},
         pc' \in {"report", "done"} \/ pc \notin {"decrypt", "validate", "report", "done"}
  PROVE  BeforeSearch' /\ Tried' /\ Taken' /\ Sent'
<1> USE DEF Search
<1>1. BeforeSearch'
  BY DEF SearchInv, BeforeSearch
<1>2. Tried'
  BY DEF Tried
<1>3. Taken'
  BY DEF SearchInv, Taken, CopyOf
<1>4. Sent'
  BY DEF SearchInv, Sent
<1> QED
  BY <1>1, <1>2, <1>3, <1>4

LEMMA ServerStep ==
  ASSUME SearchInv, Send \/ Close
  PROVE  SearchInv'
<1> USE DEF SearchInv, fixed, ClientFrame
<1>1. Len(stream) \in Nat /\ Len(file_data) \in Nat
  BY LenProperties DEF TypeOK
<1>2. UNCHANGED <<text, skey, header, stream, pc, file_data, decrypted, key_byte,
                  found_key, successful_key, status, saved>>
  BY DEF Send, Close
<1>3. sent' \in 0..Len(stream) /\ open' \in BOOLEAN /\ (pc = "recv" => Len(file_data) <= sent')
  <2>0. sent \in 0..Len(stream) /\ open \in BOOLEAN /\ (pc = "recv" => Len(file_data) <= sent)
    BY DEF TypeOK, Received
  <2>1. CASE Send
    <3>1. PICK n \in (sent + 1)..Len(stream) : sent' = n
      BY <2>1 DEF Send
    <3>2. open' = open
      BY <2>1 DEF Send
    <3> QED
      BY <1>1, <2>0, <3>1, <3>2
  <2>2. CASE Close
    <3>1. open' = FALSE /\ (sent' = sent \/ (pc = "recv" /\ sent' = Len(file_data)))
      BY <2>2 DEF Close
    <3>2. open' \in BOOLEAN
      BY <3>1
    <3>3. CASE sent' = sent
      BY <2>0, <3>2, <3>3
    <3>4. CASE pc = "recv" /\ sent' = Len(file_data)
      <4>1. Len(file_data) <= sent /\ sent <= Len(stream) /\ sent \in Nat
        BY <1>1, <2>0, <3>4
      <4>2. sent' \in 0..Len(stream) /\ Len(file_data) <= sent'
        BY <1>1, <3>4, <4>1
      <4> QED
        BY <3>2, <4>2
    <3> QED
      BY <3>1, <3>3, <3>4
  <2> QED
    BY <2>1, <2>2
<1>4. TypeOK'
  BY <1>2, <1>3 DEF TypeOK
<1>5. Received'
  BY <1>2, <1>3 DEF Received, Send, Close
<1>6. BeforeSearch' /\ Tried' /\ Taken' /\ Sent'
  BY <1>2 DEF BeforeSearch, Tried, Taken, Sent, CopyOf
<1> QED
  BY <1>4, <1>5, <1>6

LEMMA ReceiveStep ==
  ASSUME SearchInv, Connect \/ Recv \/ RecvEnds
  PROVE  SearchInv'
<1> USE DEF SearchInv, server, Search, Goto, Exit
<1>1. CASE Connect
  <2>1. UNCHANGED <<text, skey, header, stream, sent, open, file_data, Search>>
    BY <1>1 DEF Connect
  <2>2. /\ pc = "connect"
        /\ \/ pc' = "recv" /\ status' = status
           \/ pc' = "done" /\ status' = "exit 1"
    BY <1>1 DEF Connect
  <2>3. TypeOK'
    BY <2>1, <2>2 DEF TypeOK
  <2>4. Received'
    BY <2>1, <2>2 DEF Received
  <2>5. BeforeSearch' /\ Tried' /\ Taken' /\ Sent'
    BY <2>1, <2>2, SearchFrame
  <2> QED
    BY <2>3, <2>4, <2>5
<1>2. CASE Recv
  <2>1. UNCHANGED <<text, skey, header, stream, sent, open, Search>> /\ pc = "recv"
    BY <1>2 DEF Recv
  <2>2. CASE pc' = "done" /\ status' = "exit 1" /\ UNCHANGED file_data
    <3>1. TypeOK'
      BY <2>1, <2>2 DEF TypeOK
    <3>2. Received'
      BY <2>2 DEF Received
    <3>3. BeforeSearch' /\ Tried' /\ Taken' /\ Sent'
      BY <2>1, <2>2, SearchFrame
    <3> QED
      BY <3>1, <3>2, <3>3
  <2>3. ASSUME NEW n \in 1..BufferSize, Len(file_data) + n <= sent,
               file_data' = file_data \o SubSeq(stream, Len(file_data) + 1, Len(file_data) + n),
               pc' = "recv", status' = status
        PROVE  SearchInv'
    <3> DEFINE old == Len(file_data)
               part == SubSeq(stream, old + 1, old + n)
    <3>1. /\ old \in Nat /\ Len(stream) \in Nat /\ sent \in Nat /\ sent <= Len(stream)
          /\ n \in Nat /\ \A i \in 1..Len(stream) : stream[i] \in Byte
      <4>1. stream \in Seq(Byte) /\ file_data \in Seq(Byte) /\ sent \in 0..Len(stream)
        BY DEF TypeOK
      <4>2. /\ Len(stream) \in Nat /\ Len(file_data) \in Nat
            /\ \A i \in 1..Len(stream) : stream[i] \in Byte
        BY <4>1, LenProperties
      <4> QED
        BY <4>1, <4>2, LimitAssumption
    <3>2. old + 1 \in Int /\ old + n \in Int /\ \A i \in (old + 1)..(old + n) : stream[i] \in Byte
      BY <2>3, <3>1
    <3>3. part \in Seq(Byte) /\ Len(part) = n
      <4>1. /\ part \in Seq(Byte)
            /\ Len(part) = IF old + 1 <= old + n THEN (old + n) - (old + 1) + 1 ELSE 0
        <5> HIDE DEF old
        <5> QED
          BY <3>2, SubSeqProperties
      <4> QED
        BY <3>1, <4>1
    <3>4. file_data' \in Seq(Byte) /\ Len(file_data') = old + n
      <4> HIDE DEF part
      <4>1. file_data \in Seq(Byte) /\ file_data' = file_data \o part
        BY <2>3 DEF TypeOK, part
      <4> QED
        BY <3>3, <4>1, ConcatProperties
    <3>5. TypeOK'
      BY <2>1, <2>3, <3>4 DEF TypeOK
    <3>6. Received'
      BY <2>1, <2>3, <3>4 DEF Received
    <3>7. BeforeSearch' /\ Tried' /\ Taken' /\ Sent'
      BY <2>1, <2>3 DEF BeforeSearch, Tried, Taken, Sent
    <3> QED
      BY <3>5, <3>6, <3>7
  <2> QED
    BY <1>2, <2>2, <2>3 DEF Recv
<1>3. CASE RecvEnds
  <2>1. UNCHANGED <<text, skey, header, stream, sent, open, file_data, Search>> /\ pc = "recv"
    BY <1>3 DEF RecvEnds
  <2>2. \/ pc' = "extract" /\ status' = status
        \/ pc' = "done" /\ status' = "exit 1"
    BY <1>3 DEF RecvEnds
  <2>3. TypeOK'
    BY <2>1, <2>2 DEF TypeOK
  <2>4. Received'
    BY <2>2 DEF Received
  <2>5. BeforeSearch' /\ Tried' /\ Taken' /\ Sent'
    BY <2>1, <2>2, SearchFrame
  <2> QED
    BY <2>3, <2>4, <2>5
<1> QED
  BY <1>1, <1>2, <1>3

LEMMA PrepareStep ==
  ASSUME SearchInv, Extract \/ Prepare
  PROVE  SearchInv'
<1> USE DEF SearchInv, server, Search, Goto, Exit
<1>1. CASE Extract
  <2>1. UNCHANGED <<text, skey, header, stream, sent, open, Search>> /\ pc = "extract"
    BY <1>1 DEF Extract
  <2>2. \/ pc' = "prepare" /\ status' = status
        \/ pc' = "done" /\ status' \in {"exit 1", "crashed"}
    BY <1>1 DEF Extract
  <2>3. file_data' \in Seq(Byte)
    BY <1>1, BodyBytes DEF Extract, TypeOK
  <2>4. TypeOK'
    BY <2>1, <2>2, <2>3 DEF TypeOK
  <2>5. Received'
    BY <2>2 DEF Received
  <2>6. BeforeSearch' /\ Tried' /\ Taken' /\ Sent'
    BY <2>1, <2>2 DEF BeforeSearch, Tried, Taken, Sent
  <2> QED
    BY <2>4, <2>5, <2>6
<1>2. CASE Prepare
  <2>1. UNCHANGED <<text, skey, header, stream, sent, open, file_data, Search>> /\ pc = "prepare"
    BY <1>2 DEF Prepare
  <2>2. \/ pc' = "decrypt" /\ status' = status
        \/ pc' = "done" /\ status' = "exit 1"
    BY <1>2 DEF Prepare
  <2>3. ~found_key /\ key_byte = 0 /\ key_byte < KeyLimit
    BY <2>1, LimitAssumption, BlockFacts DEF BeforeSearch
  <2>4. TypeOK'
    BY <2>1, <2>2, <2>3 DEF TypeOK
  <2>5. Received'
    BY <2>2 DEF Received
  <2>6. BeforeSearch' /\ Tried' /\ Taken' /\ Sent'
    BY <2>1, <2>2, <2>3 DEF BeforeSearch, Tried, Taken, Sent
  <2> QED
    BY <2>4, <2>5, <2>6
<1> QED
  BY <1>1, <1>2

LEMMA SearchStep ==
  ASSUME SearchInv, TryKey \/ Validate \/ Report
  PROVE  SearchInv'
<1> USE DEF SearchInv, server, Goto, Exit
<1>1. CASE TryKey
  <2>1. /\ UNCHANGED <<text, skey, header, stream, sent, open, file_data, key_byte, found_key,
                       successful_key, saved, status>>
        /\ pc = "decrypt" /\ pc' = "validate"
        /\ decrypted' = Decrypted(file_data, KeyOf(key_byte))
    BY <1>1 DEF TryKey
  <2>2. key_byte \in 0..(KeyLimit - 1) /\ ~found_key
    BY <2>1, LimitAssumption DEF TypeOK
  <2>3. decrypted' \in Seq(Byte)
    <3>1. KeyOf(key_byte) \in Key /\ file_data \in Seq(Byte)
      BY <2>2, KeyTyped DEF TypeOK
    <3> QED
      BY <2>1, <3>1, DecryptedBlocks
  <2>4. TypeOK'
    BY <2>1, <2>3 DEF TypeOK
  <2>5. BeforeSearch' /\ Received' /\ Sent'
    BY <2>1 DEF BeforeSearch, Received, Sent
  <2>6. Tried'
    BY <2>1 DEF Tried, CopyOf
  <2>7. Taken'
    BY <2>1, <2>2 DEF Taken
  <2> QED
    BY <2>4, <2>5, <2>6, <2>7
<1>2. CASE Validate
  <2> DEFINE likely == is_likely_valid_text(decrypted)
             actual_size == remove_pkcs5_padding(decrypted)
             take == likely /\ actual_size < Len(decrypted)
  <2>1. /\ UNCHANGED <<text, skey, header, stream, sent, open, file_data, decrypted, status>>
        /\ pc = "validate"
        /\ successful_key' = IF likely THEN key_byte ELSE successful_key
    BY <1>2 DEF Validate
  <2>2. key_byte \in 0..(KeyLimit - 1) /\ ~found_key /\ decrypted \in Seq(Byte)
    BY <2>1, LimitAssumption DEF TypeOK
  <2>3. successful_key' \in 0..(KeyLimit - 1)
    BY <2>1, <2>2 DEF TypeOK
  <2>4. CASE take
    <3>1. /\ saved' \in {NoFile, SubSeq(decrypted, 1, actual_size)}
          /\ found_key' = TRUE /\ pc' = "report" /\ key_byte' = key_byte
      BY <1>2, <2>4 DEF Validate
    <3>2. successful_key' = key_byte /\ actual_size < Len(decrypted)
      BY <2>1, <2>4
    <3>3. SubSeq(decrypted, 1, actual_size) \in Seq(Byte)
      BY <2>2, <3>2, SavedBytes
    <3>4. TypeOK'
      <4> HIDE DEF actual_size, likely, take
      <4> QED
        BY <2>1, <2>2, <2>3, <3>1, <3>3 DEF TypeOK
    <3>5. BeforeSearch' /\ Received' /\ Sent' /\ Tried'
      BY <2>1, <3>1 DEF BeforeSearch, Received, Sent, Tried
    <3>6. CopyOf(successful_key)'
      BY <2>1, <3>2 DEF Tried, CopyOf
    <3>7. Taken'
      BY <2>1, <3>1, <3>2, <3>6 DEF Taken
    <3> QED
      BY <3>4, <3>5, <3>7
  <2>5. CASE ~take
    <3>1. /\ UNCHANGED <<saved, found_key>> /\ key_byte' = key_byte + 1
          /\ pc' = IF key_byte' = KeyLimit THEN "report" ELSE "decrypt"
      BY <1>2, <2>5 DEF Validate
    <3>2. /\ key_byte' \in 0..KeyLimit
          /\ pc' = "decrypt" => key_byte' < KeyLimit
      BY <2>2, <3>1, LimitAssumption, BlockFacts
    <3>3. TypeOK'
      <4>1. pc' \in {"report", "decrypt"}
        BY <3>1
      <4> HIDE DEF actual_size, likely, take
      <4> QED
        BY <2>1, <2>2, <2>3, <3>1, <3>2, <4>1 DEF TypeOK
    <3>4. BeforeSearch' /\ Received' /\ Sent' /\ Tried' /\ Taken'
      BY <2>1, <2>2, <3>1 DEF BeforeSearch, Received, Sent, Tried, Taken
    <3> QED
      BY <3>3, <3>4
  <2> QED
    BY <2>4, <2>5
<1>3. CASE Report
  <2>1. /\ UNCHANGED <<text, skey, header, stream, sent, open, file_data, Search>>
        /\ pc = "report" /\ pc' = "done" /\ status' = "exit 0"
    BY <1>3 DEF Report
  <2>2. TypeOK'
    BY <2>1 DEF TypeOK, Search
  <2>3. Received'
    BY <2>1 DEF Received
  <2>4. BeforeSearch' /\ Tried' /\ Taken' /\ Sent'
    BY <2>1, SearchFrame
  <2> QED
    BY <2>2, <2>3, <2>4
<1> QED
  BY <1>1, <1>2, <1>3

(* The invariant. *)
LEMMA SearchInductive == Spec => []SearchInv
<1>1. Init => SearchInv
  BY InitSearch
<1>2. SearchInv /\ [Next]_vars => SearchInv'
  <2> SUFFICES ASSUME SearchInv, [Next]_vars PROVE SearchInv'
    OBVIOUS
  <2>1. CASE Next
    BY <2>1, ServerStep, ReceiveStep, PrepareStep, SearchStep DEF Next, Client
  <2>2. CASE UNCHANGED vars
    BY <2>2 DEF vars, server, SearchInv, TypeOK, BeforeSearch, Received, Tried, Taken, Sent, CopyOf
  <2> QED
    BY <2>1, <2>2
<1> QED
  BY <1>1, <1>2, PTL DEF Spec

(* The state of server and client is of its type; the search stays below   *)
(* KEY_LIMIT, and nothing is found before it ends.                         *)
THEOREM SearchTypes == Spec => []TypeOK
<1>1. SearchInv => TypeOK
  BY DEF SearchInv
<1> QED
  BY <1>1, SearchInductive, PTL

LEMMA SubSeqOfStream ==
  ASSUME NEW a \in Seq(Byte), NEW c \in Seq(Byte)
  PROVE  SubSeq(a \o c, Len(a) + 1, Len(a \o c)) = c
<1> DEFINE s == a \o c
           t == SubSeq(s, Len(a) + 1, Len(s))
<1>1. Len(a) \in Nat /\ Len(c) \in Nat /\ \A i \in 1..Len(c) : c[i] \in Byte
  BY LenProperties
<1>2. /\ Len(s) = Len(a) + Len(c)
      /\ \A i \in 1..(Len(a) + Len(c)) : s[i] = IF i <= Len(a) THEN a[i] ELSE c[i - Len(a)]
  BY ConcatProperties
<1> HIDE DEF s
<1>3. \A i \in 1..Len(c) : s[Len(a) + i] = c[i]
  <2> TAKE i \in 1..Len(c)
  <2>1. Len(a) + i \in 1..(Len(a) + Len(c)) /\ ~(Len(a) + i <= Len(a)) /\ (Len(a) + i) - Len(a) = i
    BY <1>1
  <2> QED
    BY <1>2, <2>1
<1>4. \A i \in (Len(a) + 1)..Len(s) : s[i] \in Byte
  <2> TAKE i \in (Len(a) + 1)..Len(s)
  <2>1. i - Len(a) \in 1..Len(c) /\ Len(a) + (i - Len(a)) = i
    BY <1>1, <1>2
  <2>2. s[i] = c[i - Len(a)]
    BY <1>3, <2>1
  <2> QED
    BY <1>1, <2>1, <2>2
<1>5. /\ t \in Seq(Byte)
      /\ Len(t) = IF Len(a) + 1 <= Len(s) THEN Len(s) - (Len(a) + 1) + 1 ELSE 0
      /\ \A i \in 1..(Len(s) - (Len(a) + 1) + 1) : t[i] = s[(Len(a) + 1) + i - 1]
  <2>1. Len(a) + 1 \in Int /\ Len(s) \in Int
    BY <1>1, <1>2
  <2> QED
    BY <1>4, <2>1, SubSeqProperties
<1> HIDE DEF t
<1>6. Len(t) = Len(c)
  BY <1>1, <1>2, <1>5
<1>7. \A i \in 1..Len(t) : t[i] = c[i]
  <2> TAKE i \in 1..Len(t)
  <2>1. i \in 1..Len(c) /\ i \in 1..(Len(s) - (Len(a) + 1) + 1) /\ (Len(a) + 1) + i - 1 = Len(a) + i
    BY <1>1, <1>2, <1>6
  <2> QED
    BY <1>3, <1>5, <2>1
<1>8. t = c
  BY <1>5, <1>6, <1>7, SeqEqual
<1> QED
  BY <1>8 DEF t, s

LEMMA WholeOrNothing ==
  ASSUME SearchInv
  PROVE  NoPartialText
<1> SUFFICES ASSUME found_key, successful_key = skey, IsPrefix(file_data, Cipher)
             PROVE  file_data = Cipher /\ saved \in {NoFile, text}
  BY DEF NoPartialText
<1> DEFINE padded == pkcs5_pad(text)
           k == KeyOf(skey)
           c == Encrypted(padded, k)
           m == Len(file_data)
           n == Len(text)
           size == Len(padded)
           left == remove_pkcs5_padding(decrypted)
<1>1. text \in Texts /\ skey \in Keys /\ header \in Headers /\ file_data \in Seq(Byte)
  BY DEF SearchInv, TypeOK
<1>2. /\ text \in Seq(Byte) /\ n \in Nat
      /\ \A i \in 1..n : text[i] > BlockSize
  BY <1>1, TextBytes
<1>3. /\ padded \in Seq(Byte)
      /\ size - n \in 1..BlockSize
      /\ \A i \in 1..n : padded[i] = text[i]
      /\ remove_pkcs5_padding(padded) = n
  BY <1>2, PaddingRemoved
<1>4. PICK q \in Nat : size = q * BlockSize
  BY <1>2, PaddingRemoved
<1>5. k \in Key
  BY <1>1, LimitAssumption, KeyTyped
<1> HIDE DEF padded, k
<1>6. c \in Seq(Byte) /\ Len(c) = size
  <2>1. c \in Seq(Byte) /\ Len(c) = Aligned(size)
    BY <1>3, <1>5, EncryptedBlocks
  <2> QED
    BY <1>4, <2>1, AlignedBlocks
<1>7. Cipher = c
  <2>1. stream = header \o c
    BY DEF SearchInv, Sent, padded, k
  <2>2. header \in Seq(Byte)
    BY <1>1, HeaderAssumption
  <2> HIDE DEF c
  <2> QED
    BY <1>6, <2>1, <2>2, SubSeqOfStream DEF Cipher
<1>8. m \in 0..size /\ file_data = SubSeq(c, 1, m)
  <2>1. m \in Nat /\ size \in Nat /\ file_data = SubSeq(file_data, 1, m)
    BY <1>1, <1>3, LenProperties, SubSeqFull
  <2>2. m <= Len(c) /\ SubSeq(file_data, 1, m) = SubSeq(c, 1, m)
    BY <1>7 DEF IsPrefix
  <2> QED
    BY <1>6, <2>1, <2>2
(* The copy is the beginning of the padded text. *)
<1>9. decrypted = SubSeq(padded, 1, Aligned(m))
  <2>1. decrypted = Decrypted(file_data, k)
    BY DEF SearchInv, Taken, CopyOf, k
  <2> HIDE DEF m
  <2>2. m \in 0..Len(padded)
    BY <1>8
  <2>3. Decrypted(SubSeq(c, 1, m), k) = SubSeq(padded, 1, Aligned(m))
    BY <1>3, <1>4, <1>5, <2>2, CutTransfer
  <2> QED
    BY <1>8, <2>1, <2>3
<1>10. /\ Aligned(m) \in Nat /\ Aligned(m) <= m /\ m \div BlockSize \in Nat
       /\ Aligned(m) = (m \div BlockSize) * BlockSize
  <2> HIDE DEF m
  <2>1. m \in Nat
    BY <1>8
  <2> QED
    BY <2>1, AlignedFacts
<1> DEFINE a == Aligned(m)
<1>11. Len(decrypted) = a /\ \A i \in 1..a : decrypted[i] = padded[i]
  <2>1. a \in 0..Len(padded)
    BY <1>8, <1>10
  <2> HIDE DEF a
  <2> QED
    BY <1>3, <1>9, <2>1, Beginning DEF a
<1>12. left < a /\ saved \in {NoFile, SubSeq(decrypted, 1, left)}
  BY <1>11 DEF SearchInv, Taken
(* Its last byte is a padding, and so no byte of the text. *)
<1>13. a > 0 /\ decrypted[a] \in 1..BlockSize
  <2> HIDE DEF a
  <2>1. a \in Nat
    BY <1>10 DEF a
  <2> QED
    BY <1>11, <1>12, <2>1 DEF remove_pkcs5_padding
<1>14. a > n
  <2> SUFFICES ASSUME a <= n PROVE FALSE
    BY <1>2, <1>10
  <2>1. a \in 1..n /\ a \in 1..a
    BY <1>2, <1>10, <1>13
  <2>2. decrypted[a] = text[a] /\ text[a] > BlockSize
    BY <1>2, <1>3, <1>11, <2>1
  <2> QED
    BY <1>13, <2>2, BlockFacts
(* So it is in the last block. *)
<1>15. a = size
  <2>1. a <= size /\ size \in Nat
    BY <1>4, <1>8, <1>10
  <2> SUFFICES ASSUME a < size PROVE FALSE
    BY <1>10, <2>1
  <2>2. (m \div BlockSize) * BlockSize < q * BlockSize
    BY <1>4, <1>10
  <2>3. a + BlockSize <= size
    BY <1>4, <1>10, <2>2, BlockLess
  <2> QED
    BY <1>2, <1>3, <1>10, <1>14, <2>1, <2>3, BlockFacts
<1>16. m = size
  BY <1>8, <1>10, <1>15
<1>17. file_data = Cipher
  <2>1. SubSeq(c, 1, Len(c)) = c
    BY <1>6, SubSeqFull
  <2> QED
    BY <1>6, <1>7, <1>8, <1>16, <2>1
<1>18. decrypted = padded
  <2>1. SubSeq(padded, 1, size) = padded
    BY <1>3, SubSeqFull
  <2> QED
    BY <1>9, <1>15, <2>1
<1>19. SubSeq(decrypted, 1, left) = text
  <2>1. left = n /\ n \in 0..Len(padded)
    BY <1>2, <1>3, <1>18, <1>12, <1>15, BlockFacts
  <2>2. /\ SubSeq(padded, 1, n) \in Seq(Byte) /\ Len(SubSeq(padded, 1, n)) = n
        /\ \A i \in 1..n : SubSeq(padded, 1, n)[i] = padded[i]
    BY <1>3, <2>1, Beginning
  <2>3. \A i \in 1..Len(text) : SubSeq(padded, 1, n)[i] = text[i]
    BY <1>3, <2>2
  <2>4. SubSeq(padded, 1, n) = text
    BY <1>2, <2>2, <2>3, SeqEqual
  <2> QED
    BY <1>18, <2>1, <2>4
<1> QED
  BY <1>12, <1>17, <1>19

(* A transfer that was cut short anywhere, between the bytes of a block or *)
(* between blocks, never leaves a part of the text in decrypted.txt under  *)
(* the right key (task6_174/main.c:28-47, 197-263).                        *)
THEOREM NothingPartialSaved == Spec => []NoPartialText
<1>1. SearchInv => NoPartialText
  BY WholeOrNothing
<1> QED
  BY <1>1, SearchInductive, PTL

(* Under the server's key, the whole ciphertext is the padded text. *)
LEMMA WholeCopy ==
  ASSUME SearchInv, file_data = Cipher, CopyOf(skey)
  PROVE  /\ decrypted = pkcs5_pad(text)
         /\ text \in Seq(Byte)
<1> DEFINE padded == pkcs5_pad(text)
           k == KeyOf(skey)
           c == Encrypted(padded, k)
<1>1. text \in Seq(Byte) /\ skey \in Keys /\ header \in Seq(Byte)
  BY TextBytes, HeaderAssumption DEF SearchInv, TypeOK
<1>2. padded \in Seq(Byte)
  BY <1>1, PaddingRemoved
<1>3. PICK q \in Nat : Len(padded) = q * BlockSize
  BY <1>1, PaddingRemoved
<1>4. k \in Key
  BY <1>1, LimitAssumption, KeyTyped
<1>5. stream = header \o c
  BY DEF SearchInv, Sent
<1> HIDE DEF padded, k
<1>6. Aligned(Len(padded)) = Len(padded)
  BY <1>3, AlignedBlocks
<1>7. c \in Seq(Byte) /\ Len(c) = Len(padded)
  BY <1>2, <1>4, <1>6, EncryptedBlocks
<1>8. file_data = c
  <2> HIDE DEF c
  <2> QED
    BY <1>1, <1>5, <1>7, SubSeqOfStream DEF Cipher
<1>9. Len(padded) \in 0..Len(padded)
  BY <1>2, LenProperties
<1>10. Decrypted(SubSeq(c, 1, Len(padded)), k) = SubSeq(padded, 1, Aligned(Len(padded)))
  BY <1>2, <1>3, <1>4, <1>9, CutTransfer
<1>11. SubSeq(c, 1, Len(padded)) = c /\ SubSeq(padded, 1, Len(padded)) = padded
  BY <1>2, <1>7, SubSeqFull
<1>12. decrypted = padded
  BY <1>6, <1>8, <1>10, <1>11 DEF CopyOf, k
<1> QED
  BY <1>1, <1>12 DEF padded

(* How many of the first n places of a set are in it. *)
LEMMA IntervalSize ==
  ASSUME NEW n \in Nat
  PROVE  IsFiniteSet(1..n) /\ Cardinality(1..n) = n
<1>1. 1 \in Int /\ n \in Int
  OBVIOUS
<1>2. IsFiniteSet(1..n) /\ Cardinality(1..n) = IF 1 > n THEN 0 ELSE n - 1 + 1
  BY <1>1, FS_Interval
<1> QED
  BY <1>2

(* A text that the test of the search must accept. *)
LongText == Range(text) \subseteq Printable /\ Len(text) >= 3 * BlockSize

LEMMA LongAccepted ==
  ASSUME NEW t \in Texts, Range(t) \subseteq Printable, Len(t) >= 3 * BlockSize
  PROVE  /\ is_likely_valid_text(pkcs5_pad(t))
         /\ remove_pkcs5_padding(pkcs5_pad(t)) < Len(pkcs5_pad(t))
<1> DEFINE p == pkcs5_pad(t)
           n == Len(t)
           size == IF Len(p) < 4 * BlockSize THEN Len(p) ELSE 4 * BlockSize
           good == {i \in 1..size : p[i] \in Printable}
<1>0. BlockSize \in Nat /\ BlockSize > 0 /\ t \in Seq(Byte) /\ n \in Nat
  BY BlockFacts, TextBytes
<1>1. /\ p \in Seq(Byte) /\ Len(p) - n \in 1..BlockSize /\ remove_pkcs5_padding(p) = n
      /\ \A i \in 1..n : p[i] = t[i]
  BY <1>0, PaddingRemoved
<1>2. PICK q \in Nat : Len(p) = q * BlockSize
  BY <1>0, PaddingRemoved
<1>3. Len(p) \in Nat /\ Len(p) > n
  BY <1>0, <1>1, LenProperties
<1> HIDE DEF p
<1>4. Len(p) >= 4 * BlockSize
  <2>1. 3 * BlockSize < q * BlockSize /\ 3 \in Nat
    BY <1>0, <1>2, <1>3
  <2>2. 3 * BlockSize + BlockSize <= q * BlockSize
    BY <2>1, BlockLess
  <2> QED
    BY <1>0, <1>2, <2>2
<1>5. size = 4 * BlockSize /\ 3 * BlockSize \in Nat /\ 4 * BlockSize \in Nat
  BY <1>0, <1>3, <1>4
<1>6. \A i \in 1..n : t[i] \in Printable
  BY <1>0, LenProperties DEF Range
<1>7. 1..(3 * BlockSize) \subseteq good
  <2> SUFFICES ASSUME NEW i \in 1..(3 * BlockSize) PROVE i \in good
    OBVIOUS
  <2>1. i \in 1..n /\ i \in 1..size
    BY <1>0, <1>5
  <2> HIDE DEF size, n
  <2> QED
    BY <1>1, <1>6, <2>1
<1>8. IsFiniteSet(1..size)
  <2> HIDE DEF size
  <2> QED
    BY <1>5, IntervalSize
<1>9. IsFiniteSet(good) /\ Cardinality(good) \in Nat
  <2>1. good \subseteq 1..size
    OBVIOUS
  <2> HIDE DEF good, size
  <2> QED
    BY <1>8, <2>1, FS_Subset, FS_CardinalityType
<1>10. 3 * BlockSize <= Cardinality(good)
  <2> HIDE DEF good, size
  <2>1. Cardinality(1..(3 * BlockSize)) <= Cardinality(good)
    BY <1>7, <1>9, FS_Subset
  <2> QED
    BY <1>5, <2>1, IntervalSize
<1>11. 4 * Cardinality(good) >= 3 * size
  <2> HIDE DEF good
  <2> QED
    BY <1>0, <1>5, <1>9, <1>10
<1>12. is_likely_valid_text(p)
  BY <1>11 DEF is_likely_valid_text
<1> QED
  BY <1>1, <1>3, <1>12 DEF p

(* The search does not run past the server's key. *)
NotPast == file_data = Cipher /\ LongText =>
  /\ pc \in {"decrypt", "validate"} => key_byte <= skey
  /\ (pc = "report" \/ status = "exit 0") => (found_key /\ successful_key <= skey)

LEMMA NotPastInit == ASSUME Init PROVE NotPast
BY DEF Init, NotPast

LEMMA NotPastStep ==
  ASSUME SearchInv, NotPast, [Next]_vars
  PROVE  NotPast'
<1> SUFFICES ASSUME (file_data = Cipher)', LongText'
             PROVE  /\ pc' \in {"decrypt", "validate"} => key_byte' <= skey'
                    /\ (pc' = "report" \/ status' = "exit 0") => (found_key' /\ successful_key' <= skey')
  BY DEF NotPast
<1>1. /\ skey \in Nat /\ skey < KeyLimit /\ KeyLimit \in Nat
      /\ (status = "running" \/ pc = "done")
  <2>1. skey \in Keys /\ (status = "running" <=> pc # "done")
    BY DEF SearchInv, TypeOK
  <2>2. KeyLimit \in Nat /\ skey \in 0..(KeyLimit - 1)
    BY <2>1, LimitAssumption, BlockFacts
  <2> QED
    BY <2>1, <2>2
<1>2. UNCHANGED <<text, skey, header, stream>>
  BY DEF Next, vars, server, fixed, Send, Close, Client, Connect, Recv, RecvEnds, Extract, Prepare,
         TryKey, Validate, Report
<1>3. LongText
  BY <1>2 DEF LongText
<1> USE DEF Goto, Exit, Search, server, fixed, ClientFrame
<1>4. CASE Send \/ Close \/ UNCHANGED vars
  <2>1. UNCHANGED <<file_data, pc, key_byte, found_key, successful_key, status>>
    BY <1>4 DEF Send, Close, vars
  <2> QED
    BY <1>2, <1>3, <2>1 DEF NotPast, Cipher
<1>5. CASE Connect \/ Recv \/ RecvEnds \/ Extract
  <2>1. pc' \notin {"decrypt", "validate", "report"} /\ pc # "done"
    BY <1>5 DEF Connect, Recv, RecvEnds, Extract
  <2>2. status = "running"
    BY <1>1, <2>1
  <2>3. status' # "exit 0"
    BY <1>5, <2>2 DEF Connect, Recv, RecvEnds, Extract
  <2> QED
    BY <2>1, <2>3
<1>6. CASE Prepare
  <2>1. pc = "prepare" /\ key_byte' = key_byte /\ pc' # "report"
    BY <1>6 DEF Prepare
  <2>2. status = "running"
    BY <1>1, <2>1
  <2>3. status' # "exit 0"
    BY <1>6, <2>2 DEF Prepare
  <2>4. key_byte = 0
    BY <2>1 DEF SearchInv, BeforeSearch
  <2>5. key_byte' <= skey'
    BY <1>1, <1>2, <2>1, <2>4
  <2> QED
    BY <2>1, <2>3, <2>5
<1>7. CASE TryKey
  <2>1. /\ UNCHANGED <<file_data, key_byte, status>>
        /\ pc = "decrypt" /\ pc' = "validate"
    BY <1>7 DEF TryKey
  <2>2. key_byte <= skey /\ status = "running"
    BY <1>1, <1>2, <1>3, <2>1 DEF NotPast, Cipher
  <2> QED
    BY <1>2, <2>1, <2>2
<1>8. CASE Validate
  <2> DEFINE likely == is_likely_valid_text(decrypted)
             take == likely /\ remove_pkcs5_padding(decrypted) < Len(decrypted)
  <2>1. /\ UNCHANGED <<file_data, status>> /\ pc = "validate"
        /\ successful_key' = IF likely THEN key_byte ELSE successful_key
    BY <1>8 DEF Validate
  <2>2. /\ file_data = Cipher /\ status = "running"
        /\ key_byte <= skey /\ key_byte \in Nat
    BY <1>1, <1>2, <1>3, <2>1 DEF NotPast, Cipher, SearchInv, TypeOK
  <2>3. CASE take
    <3>1. found_key' = TRUE /\ pc' = "report"
      BY <1>8, <2>3 DEF Validate
    <3>2. successful_key' = key_byte
      BY <2>1, <2>3
    <3> QED
      BY <1>2, <2>2, <3>1, <3>2
  <2>4. CASE ~take
    <3>1. key_byte # skey
      <4> SUFFICES ASSUME key_byte = skey PROVE FALSE
        OBVIOUS
      <4>1. CopyOf(skey)
        BY <2>1 DEF SearchInv, Tried
      <4>2. decrypted = pkcs5_pad(text)
        BY <2>2, <4>1, WholeCopy
      <4>3. text \in Texts
        BY DEF SearchInv, TypeOK
      <4>4. take
        BY <1>3, <4>2, <4>3, LongAccepted DEF LongText
      <4> QED
        BY <2>4, <4>4
    <3>2. key_byte' = key_byte + 1 /\ pc' = IF key_byte' = KeyLimit THEN "report" ELSE "decrypt"
      BY <1>8, <2>4 DEF Validate
    <3>3. key_byte' <= skey /\ key_byte' # KeyLimit
      BY <1>1, <2>2, <3>1, <3>2
    <3> QED
      BY <1>2, <2>1, <2>2, <3>2, <3>3
  <2> QED
    BY <2>3, <2>4
<1>9. CASE Report
  <2>1. UNCHANGED <<file_data, found_key, successful_key>> /\ pc = "report" /\ pc' = "done"
    BY <1>9 DEF Report
  <2> QED
    BY <1>2, <1>3, <2>1 DEF NotPast, Cipher
<1> QED
  BY <1>4, <1>5, <1>6, <1>7, <1>8, <1>9 DEF Next, Client

(* Every text of printable characters of three blocks or more is found,    *)
(* under its own key or one that is tried before it, whatever the cipher's *)
(* constants and the other keys do (task6_174/main.c:14-26, 222-266).      *)
THEOREM LongTextsFound == Spec => []RightKeyFound
<1>1. Init => NotPast
  BY NotPastInit
<1>2. SearchInv /\ NotPast /\ [Next]_vars => NotPast'
  BY NotPastStep
<1>3. NotPast => RightKeyFound
  BY DEF NotPast, RightKeyFound, AllReceived, LongText
<1> QED
  BY <1>1, <1>2, <1>3, SearchInductive, PTL DEF Spec

(* A short text and its padding do not look like text. *)
LEMMA ShortRefused ==
  ASSUME NEW t \in Texts, 4 * Len(t) < 3 * BlockSize
  PROVE  ~is_likely_valid_text(pkcs5_pad(t))
<1> DEFINE p == pkcs5_pad(t)
           n == Len(t)
           size == IF Len(p) < 4 * BlockSize THEN Len(p) ELSE 4 * BlockSize
           good == {i \in 1..size : p[i] \in Printable}
<1>0. BlockSize \in Nat /\ BlockSize > 0 /\ t \in Seq(Byte) /\ n \in Nat
  BY BlockFacts, TextBytes
<1>1. /\ p \in Seq(Byte) /\ Len(p) - n \in 1..BlockSize
      /\ \A i \in (n + 1)..Len(p) : p[i] = Len(p) - n
  BY <1>0, PaddingRemoved
<1>2. PICK q \in Nat : Len(p) = q * BlockSize
  BY <1>0, PaddingRemoved
<1>3. Len(p) \in Nat /\ Len(p) > n
  BY <1>0, <1>1, LenProperties
<1> HIDE DEF p
<1>4. Len(p) >= BlockSize
  <2>1. 0 * BlockSize < q * BlockSize /\ 0 \in Nat
    BY <1>0, <1>2, <1>3
  <2>2. 0 * BlockSize + BlockSize <= q * BlockSize
    BY <2>1, BlockLess
  <2> QED
    BY <1>0, <1>2, <2>2
<1>5. size \in Nat /\ size >= BlockSize /\ size <= Len(p)
  BY <1>0, <1>3, <1>4
<1>6. good \subseteq 1..n
  <2> SUFFICES ASSUME NEW i \in good PROVE i \in 1..n
    OBVIOUS
  <2>1. i \in 1..size /\ p[i] \in Printable
    OBVIOUS
  <2> HIDE DEF good, size
  <2>2. i \in 1..Len(p)
    BY <1>3, <1>5, <2>1
  <2>3. CASE i \in (n + 1)..Len(p)
    <3>1. p[i] \in 1..BlockSize
      BY <1>1, <2>3
    <3> QED
      BY <2>1, <3>1, PrintableAssumption
  <2>4. CASE i \notin (n + 1)..Len(p)
    BY <1>0, <1>3, <2>2, <2>4
  <2> QED
    BY <2>3, <2>4
<1>7. Cardinality(good) \in Nat /\ Cardinality(good) <= n
  <2> HIDE DEF good, n
  <2>1. IsFiniteSet(1..n) /\ Cardinality(1..n) = n
    BY <1>0, IntervalSize
  <2> QED
    BY <1>6, <2>1, FS_Subset, FS_CardinalityType
<1>8. ~(4 * Cardinality(good) >= 3 * size)
  <2> HIDE DEF good, size
  <2> QED
    BY <1>0, <1>5, <1>7
<1>9. ~is_likely_valid_text(p)
  BY <1>8 DEF is_likely_valid_text
<1> QED
  BY <1>9 DEF p

(* What is taken looks like text. *)
Readable == found_key => is_likely_valid_text(decrypted)

LEMMA ReadableStep ==
  ASSUME SearchInv, Readable, [Next]_vars
  PROVE  Readable'
<1> USE DEF Goto, Exit, Search, server, fixed, ClientFrame
<1>1. CASE UNCHANGED <<found_key, decrypted>>
  BY <1>1 DEF Readable
<1>2. CASE TryKey
  <2>1. ~found_key /\ found_key' = found_key
    BY <1>2 DEF TryKey, SearchInv, TypeOK
  <2> QED
    BY <2>1 DEF Readable
<1>3. CASE Validate
  BY <1>3 DEF Validate, Readable
<1>4. CASE Send \/ Close \/ Connect \/ Recv \/ RecvEnds \/ Extract \/ Prepare \/ Report \/ UNCHANGED vars
  <2>1. UNCHANGED <<found_key, decrypted>>
    BY <1>4 DEF Send, Close, Connect, Recv, RecvEnds, Extract, Prepare, Report, vars
  <2> QED
    BY <1>1, <2>1
<1> QED
  BY <1>2, <1>3, <1>4 DEF Next, Client

(* For every cipher and every length: a text that leaves more than a       *)
(* quarter of its block to the padding is lost, under its own key          *)
(* (main.c:17-25).                                                         *)
THEOREM ShortTextsLost == Spec => []ShortRejected
<1>1. Init => Readable
  BY DEF Init, Readable
<1>2. SearchInv /\ Readable /\ [Next]_vars => Readable'
  BY ReadableStep
<1>3. ASSUME SearchInv, Readable PROVE ShortRejected
  <2> SUFFICES ASSUME AllReceived, 4 * Len(text) < 3 * BlockSize, found_key, successful_key = skey
               PROVE  FALSE
    BY DEF ShortRejected
  <2>1. decrypted = pkcs5_pad(text)
    BY <1>3, WholeCopy DEF AllReceived, SearchInv, Taken
  <2>2. text \in Texts
    BY <1>3 DEF SearchInv, TypeOK
  <2>3. ~is_likely_valid_text(decrypted)
    BY <2>1, <2>2, ShortRefused
  <2> QED
    BY <1>3, <2>3 DEF Readable
<1> QED
  BY <1>1, <1>2, <1>3, SearchInductive, PTL DEF Spec
-----------------------------------------------------------------------------
(* The header *)

(* What the client cuts off: a header begins with HTTP, holds no zero byte *)
(* and ends with its first empty line.                                     *)
HttpHeader(h) ==
  /\ Len(h) > Len(Http) /\ \A i \in 1..Len(Http) : h[i] = Http[i]
  /\ \A i \in 1..Len(h) : h[i] # 0
  /\ Len(Terminator) <= Len(h)
  /\ \A i \in 1..(Len(h) - Len(Terminator) + 1) :
       SubSeq(h, i, i + Len(Terminator) - 1) = Terminator <=> i = Len(h) - Len(Terminator) + 1

HttpServer == \A h \in Headers : h = <<>> \/ HttpHeader(h)

(* What was received is the beginning of the stream, all of it that was    *)
(* sent when the receiving ends; behind the header nothing of it is lost.  *)
FromStream == pc \in {"connect", "recv", "extract"} =>
                /\ Len(file_data) <= Len(stream)
                /\ \A i \in 1..Len(file_data) : file_data[i] = stream[i]
AllTaken == pc = "extract" => ~open /\ Len(file_data) = sent
Closed   == pc \in {"prepare", "decrypt", "validate", "report"} => ~open
Headless == header = <<>> => ~IsPrefix(Http, stream)

BodyInv == FromStream /\ AllTaken /\ Closed /\ Headless /\ BodyOnly

LEMMA BodyInit ==
  ASSUME Init, SearchInv
  PROVE  BodyInv
<1>1. pc = "connect" /\ file_data = <<>> /\ (header = <<>> => ~IsPrefix(Http, stream))
  BY DEF Init
<1>2. stream \in Seq(Byte) /\ Len(stream) \in Nat
  BY LenProperties DEF SearchInv, TypeOK
<1>3. FromStream
  BY <1>1, <1>2 DEF FromStream
<1> QED
  BY <1>1, <1>3 DEF BodyInv, AllTaken, Closed, Headless, BodyOnly

(* A step that leaves the server and the file alone, and the client where  *)
(* it was with them.                                                       *)
LEMMA BodyKept ==
  ASSUME BodyInv, UNCHANGED <<header, stream, file_data>>,
         sent' = sent \/ pc' = "done" \/ pc' \in {"connect", "recv"},
         open' = open \/ open' = FALSE \/ pc' \in {"connect", "recv"},
         pc' \in {"connect", "recv"} => pc \in {"connect", "recv"},
         pc' = "extract" => pc = "extract",
         pc' \in {"prepare", "decrypt", "validate", "report"}
           => pc \in {"prepare", "decrypt", "validate", "report"}
  PROVE  BodyInv'
<1>1. FromStream'
  BY DEF BodyInv, FromStream
<1>2. AllTaken'
  BY DEF BodyInv, AllTaken
<1>3. Closed'
  BY DEF BodyInv, Closed
<1>4. Headless'
  BY DEF BodyInv, Headless
<1>5. BodyOnly'
  BY DEF BodyInv, BodyOnly
<1> QED
  BY <1>1, <1>2, <1>3, <1>4, <1>5 DEF BodyInv

(* The server sends or closes: not if it has closed already. *)
LEMMA BodyServer ==
  ASSUME SearchInv, BodyInv, Send \/ Close
  PROVE  BodyInv'
<1>1. /\ UNCHANGED <<header, stream, file_data, pc>>
      /\ open /\ pc # "connect"
  BY DEF Send, Close, fixed, ClientFrame
<1>2. pc \notin {"extract", "prepare", "decrypt", "validate", "report"}
  BY <1>1 DEF BodyInv, AllTaken, Closed
<1>3. pc \in {"recv", "done"}
  BY <1>1, <1>2 DEF SearchInv, TypeOK
<1>4. open' = open \/ open' = FALSE
  BY DEF Send, Close
<1> QED
  BY <1>1, <1>3, <1>4, BodyKept

(* One more piece of the stream. *)
LEMMA BodyRecv ==
  ASSUME SearchInv, BodyInv, Recv
  PROVE  BodyInv'
<1>1. UNCHANGED <<header, stream, sent, open>> /\ pc = "recv"
  BY DEF Recv, server
<1>2. /\ stream \in Seq(Byte) /\ file_data \in Seq(Byte)
      /\ Len(stream) \in Nat /\ Len(file_data) \in Nat /\ sent \in Nat /\ sent <= Len(stream)
      /\ \A i \in 1..Len(stream) : stream[i] \in Byte
  <2>1. stream \in Seq(Byte) /\ file_data \in Seq(Byte) /\ sent \in 0..Len(stream)
    BY DEF SearchInv, TypeOK
  <2>2. Len(stream) \in Nat /\ Len(file_data) \in Nat /\ \A i \in 1..Len(stream) : stream[i] \in Byte
    BY <2>1, LenProperties
  <2> QED
    BY <2>1, <2>2
<1>3. CASE pc' = "done" /\ UNCHANGED file_data
  BY <1>1, <1>3, BodyKept
<1>4. ASSUME NEW n \in 1..BufferSize, Len(file_data) + n <= sent, pc' = "recv",
             file_data' = file_data \o SubSeq(stream, Len(file_data) + 1, Len(file_data) + n)
      PROVE  BodyInv'
  <2> DEFINE old == Len(file_data)
             part == SubSeq(stream, old + 1, old + n)
  <2>1. old \in Nat /\ n \in Nat /\ n >= 1 /\ old + n <= Len(stream)
    BY <1>2, <1>4, LimitAssumption
  <2>2. \A i \in 1..old : file_data[i] = stream[i]
    BY <1>1 DEF BodyInv, FromStream
  <2> HIDE DEF old
  <2>3. old + 1 \in Int /\ old + n \in Int /\ \A i \in (old + 1)..(old + n) : stream[i] \in Byte
    BY <1>2, <2>1
  <2>4. /\ part \in Seq(Byte) /\ Len(part) = n
        /\ \A i \in 1..n : part[i] = stream[old + i]
    <3>1. /\ part \in Seq(Byte)
          /\ Len(part) = IF old + 1 <= old + n THEN (old + n) - (old + 1) + 1 ELSE 0
          /\ \A i \in 1..((old + n) - (old + 1) + 1) : part[i] = stream[(old + 1) + i - 1]
      BY <2>3, SubSeqProperties
    <3> HIDE DEF part
    <3>2. Len(part) = n
      BY <2>1, <3>1
    <3>3. \A i \in 1..n : i \in 1..((old + n) - (old + 1) + 1) /\ (old + 1) + i - 1 = old + i
      BY <2>1
    <3> QED
      BY <3>1, <3>2, <3>3
  <2>5. file_data' = file_data \o part
    BY <1>4 DEF old
  <2> HIDE DEF part
  <2>6. /\ Len(file_data \o part) = old + n
        /\ \A i \in 1..(old + n) :
             (file_data \o part)[i] = IF i <= old THEN file_data[i] ELSE part[i - old]
    BY <1>2, <2>4, ConcatProperties DEF old
  <2>7. \A i \in 1..(old + n) : (file_data \o part)[i] = stream[i]
    <3> TAKE i \in 1..(old + n)
    <3>1. CASE i <= old
      <4>1. i \in 1..old
        BY <2>1, <3>1
      <4> QED
        BY <2>2, <2>6, <3>1, <4>1
    <3>2. CASE ~(i <= old)
      <4>1. i - old \in 1..n /\ old + (i - old) = i
        BY <2>1, <3>2
      <4> QED
        BY <2>4, <2>6, <3>2, <4>1
    <3> QED
      BY <3>1, <3>2
  <2>8. FromStream'
    BY <1>1, <2>1, <2>5, <2>6, <2>7 DEF FromStream
  <2>9. AllTaken' /\ Closed' /\ BodyOnly'
    BY <1>4 DEF AllTaken, Closed, BodyOnly
  <2>10. Headless'
    BY <1>1 DEF BodyInv, Headless
  <2> QED
    BY <2>8, <2>9, <2>10 DEF BodyInv
<1> QED
  BY <1>3, <1>4 DEF Recv, Goto, Exit

LEMMA BodyRecvEnds ==
  ASSUME SearchInv, BodyInv, RecvEnds
  PROVE  BodyInv'
<1>1. /\ UNCHANGED <<header, stream, sent, open, file_data>>
      /\ pc = "recv" /\ ~open /\ Len(file_data) = sent /\ pc' \in {"extract", "done"}
  BY DEF RecvEnds, server, Goto, Exit
<1>2. FromStream'
  BY <1>1 DEF BodyInv, FromStream
<1>3. AllTaken' /\ Closed' /\ BodyOnly' /\ Headless'
  BY <1>1 DEF BodyInv, AllTaken, Closed, BodyOnly, Headless
<1> QED
  BY <1>2, <1>3 DEF BodyInv

(* Two sequences that hold the same, one of them a piece of the stream. *)
LEMMA SameAsPiece ==
  ASSUME NEW s \in Seq(Byte), NEW t, NEW a \in Nat, NEW n \in Nat, a + n <= Len(s),
         t \in Seq(Byte), Len(t) = n, \A i \in 1..n : t[i] = s[a + i]
  PROVE  t = SubSeq(s, a + 1, a + n)
<1> DEFINE u == SubSeq(s, a + 1, a + n)
<1>1. Len(s) \in Nat /\ \A i \in 1..Len(s) : s[i] \in Byte
  BY LenProperties
<1>2. a + 1 \in Int /\ a + n \in Int /\ \A i \in (a + 1)..(a + n) : s[i] \in Byte
  BY <1>1
<1>3. /\ u \in Seq(Byte)
      /\ Len(u) = IF a + 1 <= a + n THEN (a + n) - (a + 1) + 1 ELSE 0
      /\ \A i \in 1..((a + n) - (a + 1) + 1) : u[i] = s[(a + 1) + i - 1]
  BY <1>2, SubSeqProperties
<1> HIDE DEF u
<1>4. Len(u) = n
  BY <1>3
<1>5. \A i \in 1..n : i \in 1..((a + n) - (a + 1) + 1) /\ (a + 1) + i - 1 = a + i
  OBVIOUS
<1>6. Len(t) = Len(u) /\ \A i \in 1..Len(t) : t[i] = u[i]
  BY <1>3, <1>4, <1>5
<1>7. t = u
  BY <1>3, <1>6, SeqEqual
<1> QED
  BY <1>7 DEF u

(* Two pieces of the same length that hold the same. *)
LEMMA SamePieces ==
  ASSUME NEW s, NEW t, NEW a \in Nat, NEW n \in Nat,
         \A i \in 1..n : s[a + i] \in Byte /\ t[a + i] = s[a + i]
  PROVE  SubSeq(s, a + 1, a + n) = SubSeq(t, a + 1, a + n)
<1> DEFINE u == SubSeq(s, a + 1, a + n)
           v == SubSeq(t, a + 1, a + n)
<1>1. a + 1 \in Int /\ a + n \in Int
  OBVIOUS
<1>2. \A i \in (a + 1)..(a + n) : s[i] \in Byte /\ t[i] = s[i]
  <2> TAKE i \in (a + 1)..(a + n)
  <2>1. i - a \in 1..n /\ a + (i - a) = i
    OBVIOUS
  <2> QED
    BY <2>1
<1>3. /\ u \in Seq(Byte)
      /\ Len(u) = IF a + 1 <= a + n THEN (a + n) - (a + 1) + 1 ELSE 0
      /\ \A i \in 1..((a + n) - (a + 1) + 1) : u[i] = s[(a + 1) + i - 1]
  BY <1>1, <1>2, SubSeqProperties
<1>4. /\ v \in Seq(Byte)
      /\ Len(v) = IF a + 1 <= a + n THEN (a + n) - (a + 1) + 1 ELSE 0
      /\ \A i \in 1..((a + n) - (a + 1) + 1) : v[i] = t[(a + 1) + i - 1]
  <2>1. \A i \in (a + 1)..(a + n) : t[i] \in Byte
    BY <1>2
  <2> QED
    BY <1>1, <2>1, SubSeqProperties
<1> HIDE DEF u, v
<1>5. Len(u) = n /\ Len(v) = n
  BY <1>3, <1>4
<1>6. \A i \in 1..n : i \in 1..((a + n) - (a + 1) + 1) /\ (a + 1) + i - 1 = a + i
  OBVIOUS
<1>7. \A i \in 1..Len(u) : u[i] = v[i]
  BY <1>3, <1>4, <1>5, <1>6
<1>8. u = v
  BY <1>3, <1>4, <1>5, <1>7, SeqEqual
<1> QED
  BY <1>8 DEF u, v

(* In a stream that begins with the whole header, strstr stops at its end. *)
LEMMA FirstTerminator ==
  ASSUME NEW h \in Seq(Byte), HttpHeader(h), NEW data \in Seq(Byte), Len(h) <= Len(data),
         \A i \in 1..Len(h) : data[i] = h[i]
  PROVE  Bodies(data) = {SubSeq(data, Len(h) + 1, Len(data))}
<1> DEFINE T == Len(Terminator)
           n == Len(data)
           e == Len(h) - T + 1
           at == {i \in 1..(n - T + 1) : /\ SubSeq(data, i, i + T - 1) = Terminator
                                         /\ \A j \in 1..i : data[j] # 0}
<1>1. T \in Nat /\ n \in Nat /\ Len(h) \in Nat /\ T <= Len(h) /\ \A i \in 1..Len(h) : h[i] \in Byte
  <2>1. Terminator \in Seq(Byte)
    BY HeaderAssumption
  <2> QED
    BY <2>1, LenProperties DEF HttpHeader
<1>2. T >= 1
  <2> SUFFICES ASSUME T = 0 PROVE FALSE
    BY <1>1
  <2>1. 1 \in 1..(Len(h) - T + 1) /\ Len(h) - T + 1 = Len(h) + 1
    BY <1>1
  <2>2. Len(h) > 0
    <3>1. Http \in Seq(Byte) /\ Len(h) > Len(Http)
      BY HeaderAssumption DEF HttpHeader
    <3> QED
      BY <1>1, <3>1, LenProperties
  <2>3. SubSeq(h, 1, 1 + T - 1) = SubSeq(h, Len(h) + 1, Len(h) + 1 + T - 1)
    <3>1. SubSeq(h, 1, 0) = <<>> /\ SubSeq(h, Len(h) + 1, Len(h)) = <<>>
      BY <1>1, SubSeqEmpty
    <3>2. 1 + T - 1 = 0 /\ Len(h) + 1 + T - 1 = Len(h)
      BY <1>1
    <3> QED
      BY <3>1, <3>2
  <2>4. Len(h) + 1 \in 1..(Len(h) - T + 1)
    BY <1>1, <2>1
  <2>5. /\ SubSeq(h, 1, 1 + T - 1) = Terminator <=> 1 = Len(h) - T + 1
        /\ SubSeq(h, Len(h) + 1, Len(h) + 1 + T - 1) = Terminator <=> Len(h) + 1 = Len(h) - T + 1
    BY <2>1, <2>4 DEF HttpHeader
  <2> QED
    BY <1>1, <2>1, <2>2, <2>3, <2>5
<1>3. e \in 1..(n - T + 1) /\ e - 1 \in Nat /\ e + T - 1 = Len(h)
  BY <1>1
<1>4. ASSUME NEW i \in 1..e PROVE SubSeq(data, i, i + T - 1) = SubSeq(h, i, i + T - 1)
  <2> DEFINE a == i - 1
  <2>1. a \in Nat /\ i = a + 1 /\ i + T - 1 = a + T /\ a + T <= Len(h)
    BY <1>1, <1>3
  <2> HIDE DEF a
  <2>2. \A k \in 1..T : data[a + k] \in Byte /\ h[a + k] = data[a + k]
    <3> TAKE k \in 1..T
    <3>1. a + k \in 1..Len(h)
      BY <1>1, <2>1
    <3> QED
      BY <1>1, <3>1
  <2>3. SubSeq(data, a + 1, a + T) = SubSeq(h, a + 1, a + T)
    BY <1>1, <2>1, <2>2, SamePieces
  <2> QED
    BY <2>1, <2>3
<1>5. e \in at
  <2>1. SubSeq(data, e, e + T - 1) = Terminator
    <3>1. e \in 1..e
      BY <1>3
    <3>2. SubSeq(h, e, e + T - 1) = Terminator
      BY <1>1, <3>1 DEF HttpHeader
    <3> HIDE DEF e
    <3> QED
      BY <1>4, <3>1, <3>2
  <2>2. \A j \in 1..e : data[j] # 0
    <3> TAKE j \in 1..e
    <3>1. j \in 1..Len(h)
      BY <1>1, <1>2
    <3> QED
      BY <3>1 DEF HttpHeader
  <2> HIDE DEF e
  <2> QED
    BY <1>3, <2>1, <2>2
<1>6. \A i \in at : e <= i
  <2> SUFFICES ASSUME NEW i \in at, ~(e <= i) PROVE FALSE
    OBVIOUS
  <2>1. i \in 1..e /\ i \in 1..(Len(h) - T + 1) /\ i # Len(h) - T + 1
    BY <1>1, <1>3
  <2>2. SubSeq(h, i, i + T - 1) = Terminator
    <3> HIDE DEF e
    <3> QED
      BY <1>4, <2>1
  <2> QED
    BY <2>1, <2>2 DEF HttpHeader
<1>7. {i \in at : \A j \in at : i <= j} = {e}
  <2>1. at \subseteq Int /\ e \in Int
    BY <1>1
  <2> HIDE DEF at, e
  <2>2. ASSUME NEW i \in at, \A j \in at : i <= j PROVE i = e
    BY <1>5, <1>6, <2>1, <2>2
  <2> QED
    BY <1>5, <1>6, <2>2
<1>8. e + T = Len(h) + 1
  BY <1>1
<1>9. Bodies(data) = {SubSeq(data, i + T, n) : i \in {i \in at : \A j \in at : i <= j}}
  BY DEF Bodies
<1> HIDE DEF at, e
<1>10. Bodies(data) = {SubSeq(data, e + T, n)}
  BY <1>7, <1>9
<1> QED
  BY <1>8, <1>10

(* The header is cut off, if it arrived; without one nothing is.           *)
LEMMA BodyExtract ==
  ASSUME HttpServer, SearchInv, BodyInv, Extract
  PROVE  BodyInv'
<1>1. /\ UNCHANGED <<header, stream, sent, open, text, skey>>
      /\ pc = "extract" /\ pc' \in {"prepare", "done"}
  BY DEF Extract, server, Goto, Exit
<1>2. /\ ~open /\ Len(file_data) = sent
      /\ Len(file_data) <= Len(stream) /\ \A i \in 1..Len(file_data) : file_data[i] = stream[i]
  BY <1>1 DEF BodyInv, AllTaken, FromStream
<1>3. /\ stream \in Seq(Byte) /\ file_data \in Seq(Byte) /\ header \in Headers
      /\ Len(stream) \in Nat /\ Len(file_data) \in Nat
  BY LenProperties DEF SearchInv, TypeOK
<1>4. FromStream' /\ AllTaken' /\ Closed' /\ Headless'
  BY <1>1, <1>2 DEF BodyInv, FromStream, AllTaken, Closed, Headless
<1>5. /\ header \in Seq(Byte) /\ Len(header) \in Nat /\ Len(header) <= Len(stream)
      /\ \A i \in 1..Len(header) : stream[i] = header[i]
  <2>1. header \in Seq(Byte)
    BY <1>3, HeaderAssumption
  <2>2. Encrypted(pkcs5_pad(text), KeyOf(skey)) \in Seq(Byte)
    BY CipherBytes DEF SearchInv, TypeOK
  <2> DEFINE c == Encrypted(pkcs5_pad(text), KeyOf(skey))
  <2>3. stream = header \o c
    BY DEF SearchInv, Sent
  <2> HIDE DEF c
  <2>4. /\ Len(header \o c) = Len(header) + Len(c) /\ Len(header) \in Nat /\ Len(c) \in Nat
        /\ \A i \in 1..(Len(header) + Len(c)) :
             (header \o c)[i] = IF i <= Len(header) THEN header[i] ELSE c[i - Len(header)]
    <3>1. c \in Seq(Byte)
      BY <2>2 DEF c
    <3> QED
      BY <2>1, <3>1, ConcatProperties, LenProperties
  <2>5. \A i \in 1..Len(header) : i \in 1..(Len(header) + Len(c)) /\ i <= Len(header)
    BY <2>4
  <2>6. Len(header) <= Len(header) + Len(c)
    BY <2>4
  <2> QED
    BY <2>1, <2>3, <2>4, <2>5, <2>6
<1>6. BodyOnly'
  <2> SUFFICES ASSUME pc' = "prepare", sent >= Len(header)
               PROVE  file_data' = SubSeq(stream, Len(header) + 1, sent)
    BY <1>1 DEF BodyOnly
  <2> DEFINE n == sent - Len(header)
  <2>1. n \in Nat /\ sent = Len(header) + n /\ Len(header) + n <= Len(stream)
    BY <1>2, <1>3, <1>5
  <2> HIDE DEF n
  <2>2. CASE header = <<>>
    <3>1. Len(header) = 0
      BY <2>2
    <3>2. ~HasHeader
      <4> SUFFICES ASSUME HasHeader PROVE FALSE
        OBVIOUS
      <4>1. ~IsPrefix(Http, stream)
        BY <2>2 DEF BodyInv, Headless
      <4>2. /\ Len(Http) < Len(file_data)
            /\ SubSeq(Http, 1, Len(Http)) = SubSeq(file_data, 1, Len(Http))
        BY DEF HasHeader, IsPrefix
      <4>3. Http \in Seq(Byte) /\ Len(Http) \in Nat
        BY HeaderAssumption, LenProperties
      <4>4. \A i \in 1..Len(Http) : file_data[0 + i] \in Byte /\ stream[0 + i] = file_data[0 + i]
        <5> TAKE i \in 1..Len(Http)
        <5>1. i \in 1..Len(file_data) /\ 0 + i = i
          BY <1>3, <4>2, <4>3
        <5>2. file_data[i] \in Byte
          BY <1>3, <5>1, LenProperties
        <5> QED
          BY <1>2, <5>1, <5>2
      <4>5. SubSeq(file_data, 0 + 1, 0 + Len(Http)) = SubSeq(stream, 0 + 1, 0 + Len(Http))
        BY <4>3, <4>4, SamePieces
      <4>6. 0 + 1 = 1 /\ 0 + Len(Http) = Len(Http) /\ Len(Http) <= Len(stream)
        BY <1>2, <1>3, <4>2, <4>3
      <4> QED
        BY <4>1, <4>2, <4>5, <4>6 DEF IsPrefix
    <3>3. file_data' = file_data
      BY <3>2 DEF Extract
    <3>4. \A i \in 1..n : file_data[i] = stream[Len(header) + i]
      <4> TAKE i \in 1..n
      <4>1. i \in 1..Len(file_data) /\ Len(header) + i = i
        BY <1>2, <1>3, <2>1, <3>1
      <4> QED
        BY <1>2, <4>1
    <3>5. Len(file_data) = n
      BY <1>2, <2>1, <3>1
    <3>6. file_data = SubSeq(stream, Len(header) + 1, Len(header) + n)
      BY <1>3, <1>5, <2>1, <3>4, <3>5, SameAsPiece
    <3> QED
      BY <2>1, <3>3, <3>6
  <2>3. CASE header # <<>>
    <3>1. HttpHeader(header)
      BY <1>3, <2>3 DEF HttpServer
    <3>2. Len(header) <= Len(file_data)
      BY <1>2, <1>3, <1>5
    <3>3. \A i \in 1..Len(header) : file_data[i] = header[i]
      <4> TAKE i \in 1..Len(header)
      <4>1. i \in 1..Len(file_data)
        BY <1>3, <1>5, <3>2
      <4> QED
        BY <1>2, <1>5, <4>1
    <3>4. Bodies(file_data) = {SubSeq(file_data, Len(header) + 1, Len(file_data))}
      BY <1>3, <1>5, <3>1, <3>2, <3>3, FirstTerminator
    <3>5. HasHeader
      <4>1. Http \in Seq(Byte) /\ Len(Http) \in Nat /\ Len(Http) < Len(header)
        BY <3>1, HeaderAssumption, LenProperties DEF HttpHeader
      <4>2. \A i \in 1..Len(Http) : Http[0 + i] \in Byte /\ file_data[0 + i] = Http[0 + i]
        <5> TAKE i \in 1..Len(Http)
        <5>1. i \in 1..Len(header) /\ 0 + i = i
          BY <1>5, <4>1
        <5>2. Http[i] \in Byte
          BY <4>1, LenProperties
        <5>3. header[i] = Http[i]
          BY <3>1 DEF HttpHeader
        <5> QED
          BY <3>3, <5>1, <5>2, <5>3
      <4>3. SubSeq(Http, 0 + 1, 0 + Len(Http)) = SubSeq(file_data, 0 + 1, 0 + Len(Http))
        BY <4>1, <4>2, SamePieces
      <4>4. 0 + 1 = 1 /\ 0 + Len(Http) = Len(Http) /\ Len(Http) < Len(file_data)
        BY <1>3, <1>5, <3>2, <4>1
      <4>5. Len(Http) <= Len(file_data)
        BY <1>3, <4>1, <4>4
      <4> QED
        BY <4>3, <4>4, <4>5 DEF HasHeader, IsPrefix
    <3>6. file_data' = SubSeq(file_data, Len(header) + 1, Len(file_data))
      <4>1. Bodies(file_data) # {}
        BY <3>4
      <4>2. pc' # "done"
        OBVIOUS
      <4>3. \E body \in Bodies(file_data) : file_data' = body
        BY <3>5, <4>1, <4>2 DEF Extract, Exit
      <4> QED
        BY <3>4, <4>3
    <3>7. \A i \in 1..n : /\ file_data[Len(header) + i] \in Byte
                          /\ stream[Len(header) + i] = file_data[Len(header) + i]
      <4> TAKE i \in 1..n
      <4>1. Len(header) + i \in 1..Len(file_data)
        BY <1>2, <1>5, <2>1
      <4>2. file_data[Len(header) + i] \in Byte
        BY <1>3, <4>1, LenProperties
      <4> QED
        BY <1>2, <4>1, <4>2
    <3>8. SubSeq(file_data, Len(header) + 1, Len(header) + n) = SubSeq(stream, Len(header) + 1, Len(header) + n)
      BY <1>5, <2>1, <3>7, SamePieces
    <3> QED
      BY <1>2, <2>1, <3>6, <3>8
  <2> QED
    BY <2>2, <2>3
<1> QED
  BY <1>4, <1>6 DEF BodyInv

LEMMA BodyStep ==
  ASSUME HttpServer, SearchInv, BodyInv, [Next]_vars
  PROVE  BodyInv'
<1>1. CASE Send \/ Close
  BY <1>1, BodyServer
<1>2. CASE Connect
  <2>1. UNCHANGED <<header, stream, sent, open, file_data>> /\ pc = "connect" /\ pc' \in {"recv", "done"}
    BY <1>2 DEF Connect, server, Goto, Exit
  <2> QED
    BY <2>1, BodyKept
<1>3. CASE Recv
  BY <1>3, BodyRecv
<1>4. CASE RecvEnds
  BY <1>4, BodyRecvEnds
<1>5. CASE Extract
  BY <1>5, BodyExtract
<1>6. CASE Prepare \/ TryKey \/ Validate \/ Report
  <2>1. /\ UNCHANGED <<header, stream, sent, open, file_data>>
        /\ pc \in {"prepare", "decrypt", "validate", "report"}
        /\ pc' \in {"decrypt", "validate", "report", "done"}
    BY <1>6 DEF Prepare, TryKey, Validate, Report, server, Goto, Exit
  <2> QED
    BY <2>1, BodyKept
<1>7. CASE UNCHANGED vars
  BY <1>7, BodyKept DEF vars, server
<1> QED
  BY <1>1, <1>2, <1>3, <1>4, <1>5, <1>6, <1>7 DEF Next, Client

(* However the stream is cut into pieces, what the keys are tried on is    *)
(* what the server sent behind its header, if that header has the form the *)
(* client looks for (main.c:162-192); with a stray terminator behind it,   *)
(* too, and without a header as well.                                      *)
THEOREM HeaderNeverSearched ==
  ASSUME HttpServer
  PROVE  Spec => []BodyOnly
<1>1. Init /\ SearchInv => BodyInv
  BY BodyInit
<1>2. SearchInv /\ BodyInv /\ [Next]_vars => BodyInv'
  BY BodyStep
<1>3. BodyInv => BodyOnly
  BY DEF BodyInv
<1> QED
  BY <1>1, <1>2, <1>3, SearchInductive, PTL DEF Spec
=============================================================================
