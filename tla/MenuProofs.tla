----------------------------- MODULE MenuProofs -----------------------------
(***************************************************************************)
(* Theorems about MenuInput: for every set of lines that keeps the         *)
(* discipline, each answer is what was typed for its own prompt.           *)
(***************************************************************************)
EXTENDS MenuInput, SetInduction, SequenceTheorems

-----------------------------------------------------------------------------
(* The beginning of a sequence *)

Stops(s, set, n) == /\ \A i \in 1..n : s[i] \in set
                    /\ n < Len(s) => s[n + 1] \notin set

LEMMA StrspnIs ==
  ASSUME NEW s, Len(s) \in Nat, NEW set, NEW n \in 0..Len(s), Stops(s, set, n)
  PROVE  strspn(s, set) = n
<1> DEFINE P(k) == Stops(s, set, k)
<1>1. strspn(s, set) = CHOOSE k \in 0..Len(s) : P(k)
  BY DEF strspn, Stops
<1>2. ASSUME NEW k \in 0..Len(s), P(k)
      PROVE  k = n
  <2>1. ~(k < n)
    <3> SUFFICES ASSUME k < n PROVE FALSE
      OBVIOUS
    <3>1. k + 1 \in 1..n /\ k < Len(s)
      OBVIOUS
    <3> QED
      BY <1>2, <3>1 DEF Stops
  <2>2. ~(n < k)
    <3> SUFFICES ASSUME n < k PROVE FALSE
      OBVIOUS
    <3>1. n + 1 \in 1..k /\ n < Len(s)
      OBVIOUS
    <3> QED
      BY <1>2, <3>1 DEF Stops
  <2> QED
    BY <2>1, <2>2
<1>3. P(n)
  OBVIOUS
<1> HIDE DEF P
<1> QED
  BY <1>1, <1>2, <1>3

LEMMA StrspnStops ==
  ASSUME NEW s, Len(s) \in Nat, NEW set
  PROVE  strspn(s, set) \in 0..Len(s) /\ Stops(s, set, strspn(s, set))
<1> DEFINE T == {n \in 0..Len(s) : n < Len(s) => s[n + 1] \notin set}
<1>1. T \subseteq Nat /\ Len(s) \in T
  OBVIOUS
<1>2. PICK x \in T : \A y \in T : ~(y < x)
  <2> HIDE DEF T
  <2> QED
    BY <1>1, LeastNumber
<1>3. ASSUME NEW i \in 1..x
      PROVE  s[i] \in set
  <2>1. i - 1 \in 0..Len(s) /\ i - 1 < x /\ i - 1 < Len(s) /\ (i - 1) + 1 = i
    BY <1>2
  <2>2. i - 1 \notin T
    BY <1>2, <2>1
  <2> QED
    BY <2>1, <2>2
<1>4. x \in 0..Len(s) /\ Stops(s, set, x)
  BY <1>2, <1>3 DEF Stops
<1> HIDE DEF T
<1> QED
  BY <1>4, StrspnIs

(* A character behind a sequence changes nothing, if it is not in the set, *)
(* or the sequence has one before it that is not.                          *)
LEMMA SpanAppend ==
  ASSUME NEW S, NEW t \in Seq(S), NEW e \in S, NEW set,
         e \notin set \/ ~(Range(t) \subseteq set)
  PROVE  /\ Span(Append(t, e), set) = Span(t, set)
         /\ Rest(Append(t, e), set) = Append(Rest(t, set), e)
<1> DEFINE s == Append(t, e)
           n == strspn(t, set)
<1>1. Len(t) \in Nat /\ s \in Seq(S) /\ Len(s) = Len(t) + 1 /\ s[Len(t) + 1] = e
  BY AppendProperties, LenProperties
<1>2. \A i \in 1..Len(t) : s[i] = t[i] /\ t[i] \in S
  BY AppendProperties, ElementOfSeq
<1>3. n \in 0..Len(t) /\ Stops(t, set, n)
  BY <1>1, StrspnStops
<1> HIDE DEF n, s
<1>4. Stops(s, set, n)
  <2>1. \A i \in 1..n : s[i] \in set
    BY <1>1, <1>2, <1>3 DEF Stops
  <2>2. CASE n < Len(t)
    BY <1>1, <1>2, <1>3, <2>1, <2>2 DEF Stops
  <2>3. CASE n = Len(t)
    <3>1. Range(t) \subseteq set
      <4>1. \A i \in 1..Len(t) : t[i] \in set
        BY <1>3, <2>3 DEF Stops
      <4> QED
        BY <4>1, LenProperties DEF Range
    <3> QED
      BY <1>1, <2>1, <2>3, <3>1 DEF Stops
  <2> QED
    BY <1>1, <1>3, <2>2, <2>3
<1>5. strspn(s, set) = n
  BY <1>1, <1>3, <1>4, StrspnIs
<1>6. SubSeq(s, 1, n) = SubSeq(t, 1, n)
  <2>1. /\ SubSeq(s, 1, n) \in Seq(S) /\ SubSeq(t, 1, n) \in Seq(S)
        /\ Len(SubSeq(s, 1, n)) = Len(SubSeq(t, 1, n))
        /\ \A i \in 1..Len(SubSeq(s, 1, n)) : SubSeq(s, 1, n)[i] = SubSeq(t, 1, n)[i]
    <3>1. \A i \in 1..n : s[i] \in S /\ t[i] \in S /\ s[i] = t[i]
      BY <1>1, <1>2, <1>3
    <3>2. \A i \in 1..(n - 1 + 1) : SubSeq(s, 1, n)[i] = s[1 + i - 1] /\ SubSeq(t, 1, n)[i] = t[1 + i - 1]
      BY <1>1, <1>3, <3>1, SubSeqProperties
    <3>3. Len(SubSeq(s, 1, n)) = n /\ Len(SubSeq(t, 1, n)) = n
      BY <1>1, <1>3, <3>1, SubSeqProperties
    <3>4. SubSeq(s, 1, n) \in Seq(S) /\ SubSeq(t, 1, n) \in Seq(S)
      BY <1>1, <1>3, <3>1, SubSeqProperties
    <3> QED
      BY <1>1, <1>3, <3>1, <3>2, <3>3, <3>4
  <2> QED
    BY <2>1, SeqEqual
<1>7. SubSeq(s, n + 1, Len(s)) = Append(SubSeq(t, n + 1, Len(t)), e)
  <2> DEFINE u == SubSeq(t, n + 1, Len(t))
  <2>1. \A i \in (n + 1)..Len(s) : s[i] \in S
    BY <1>1, <1>3, ElementOfSeq
  <2>2. /\ SubSeq(s, n + 1, Len(s)) \in Seq(S)
        /\ Len(SubSeq(s, n + 1, Len(s))) = Len(t) + 1 - n
        /\ \A i \in 1..(Len(t) + 1 - n) : SubSeq(s, n + 1, Len(s))[i] = s[n + i]
    <3>1. n + 1 \in Int /\ Len(s) \in Int /\ n + 1 <= Len(s)
      BY <1>1, <1>3
    <3>2. SubSeq(s, n + 1, Len(s)) \in Seq(S)
      BY <2>1, <3>1, SubSeqProperties
    <3>3. Len(SubSeq(s, n + 1, Len(s))) = Len(s) - (n + 1) + 1
      BY <2>1, <3>1, SubSeqProperties
    <3>4. \A i \in 1..(Len(s) - (n + 1) + 1) : SubSeq(s, n + 1, Len(s))[i] = s[(n + 1) + i - 1]
      BY <2>1, <3>1, SubSeqProperties
    <3>5. \A i \in 1..(Len(t) + 1 - n) : i \in 1..(Len(s) - (n + 1) + 1) /\ (n + 1) + i - 1 = n + i
      BY <1>1, <1>3
    <3> QED
      BY <1>1, <1>3, <3>2, <3>3, <3>4, <3>5
  <2>3. /\ u \in Seq(S) /\ Len(u) = Len(t) - n
        /\ \A i \in 1..(Len(t) - n) : u[i] = t[n + i]
    <3>1. n + 1 \in Int /\ Len(t) \in Int /\ \A i \in (n + 1)..Len(t) : t[i] \in S
      BY <1>1, <1>2, <1>3
    <3>2. u \in Seq(S)
      BY <3>1, SubSeqProperties
    <3>3. Len(u) = IF n + 1 <= Len(t) THEN Len(t) - (n + 1) + 1 ELSE 0
      BY <3>1, SubSeqProperties
    <3>4. \A i \in 1..(Len(t) - (n + 1) + 1) : u[i] = t[(n + 1) + i - 1]
      BY <3>1, SubSeqProperties
    <3>5. \A i \in 1..(Len(t) - n) : i \in 1..(Len(t) - (n + 1) + 1) /\ (n + 1) + i - 1 = n + i
      BY <1>1, <1>3
    <3> QED
      BY <1>1, <1>3, <3>2, <3>3, <3>4, <3>5
  <2> HIDE DEF u
  <2>4. /\ Append(u, e) \in Seq(S) /\ Len(Append(u, e)) = Len(t) - n + 1
        /\ Append(u, e)[Len(t) - n + 1] = e
        /\ \A i \in 1..(Len(t) - n) : Append(u, e)[i] = u[i]
    BY <2>3, AppendProperties
  <2>5. ASSUME NEW i \in 1..(Len(t) + 1 - n)
        PROVE  SubSeq(s, n + 1, Len(s))[i] = Append(u, e)[i]
    <3>1. CASE i = Len(t) + 1 - n
      <4>1. n + i = Len(t) + 1 /\ i = Len(t) - n + 1
        BY <1>1, <1>3, <3>1
      <4> QED
        BY <1>1, <2>2, <2>4, <4>1
    <3>2. CASE i # Len(t) + 1 - n
      <4>1. i \in 1..(Len(t) - n) /\ n + i \in 1..Len(t)
        BY <1>1, <1>3, <3>2
      <4> QED
        BY <1>2, <2>2, <2>3, <2>4, <4>1
    <3> QED
      BY <3>1, <3>2
  <2>6. SubSeq(s, n + 1, Len(s)) = Append(u, e)
    <3>1. Len(SubSeq(s, n + 1, Len(s))) = Len(Append(u, e))
      BY <1>1, <1>3, <2>2, <2>4
    <3> QED
      BY <2>2, <2>4, <2>5, <3>1, SeqEqual
  <2> QED
    BY <2>6 DEF u
<1> QED
  BY <1>5, <1>6, <1>7 DEF Span, Rest, s, n

(* A sequence with nothing outside the set is its own beginning.           *)
LEMMA SpanWhole ==
  ASSUME NEW S, NEW t \in Seq(S), NEW set, Range(t) \subseteq set
  PROVE  Span(t, set) = t /\ Rest(t, set) = <<>>
<1>1. Len(t) \in Nat /\ DOMAIN t = 1..Len(t)
  BY LenProperties
<1>2. Stops(t, set, Len(t))
  BY <1>1 DEF Stops, Range
<1>3. strspn(t, set) = Len(t)
  BY <1>1, <1>2, StrspnIs
<1>4. SubSeq(t, 1, Len(t)) = t
  BY SubSeqFull
<1>5. SubSeq(t, Len(t) + 1, Len(t)) = <<>>
  BY <1>1, SubSeqEmpty
<1> QED
  BY <1>3, <1>4, <1>5 DEF Span, Rest

(* The beginning and the rest consist of what the sequence consists of,    *)
(* the beginning of what is in the set.                                    *)
LEMMA SpanParts ==
  ASSUME NEW S, NEW t \in Seq(S), NEW set
  PROVE  /\ Span(t, set) \in Seq(S) /\ Span(t, set) \in Seq(set)
         /\ Rest(t, set) \in Seq(S) /\ Range(Rest(t, set)) \subseteq Range(t)
<1> DEFINE n == strspn(t, set)
<1>1. Len(t) \in Nat /\ DOMAIN t = 1..Len(t) /\ \A i \in 1..Len(t) : t[i] \in S
  BY LenProperties, ElementOfSeq
<1>2. n \in 0..Len(t) /\ \A i \in 1..n : t[i] \in set
  BY <1>1, StrspnStops DEF Stops
<1> HIDE DEF n
<1>3. SubSeq(t, 1, n) \in Seq(S) /\ SubSeq(t, 1, n) \in Seq(set)
  <2>1. 1 \in Int /\ n \in Int /\ \A i \in 1..n : t[i] \in S
    BY <1>1, <1>2
  <2>2. SubSeq(t, 1, n) \in Seq(S)
    BY <2>1, SubSeqProperties
  <2>3. SubSeq(t, 1, n) \in Seq(set)
    BY <1>2, <2>1, SubSeqProperties
  <2> QED
    BY <2>2, <2>3
<1>4. ASSUME NEW T, \A i \in 1..Len(t) : t[i] \in T
      PROVE  SubSeq(t, n + 1, Len(t)) \in Seq(T)
  <2>1. n + 1 \in Int /\ Len(t) \in Int /\ \A i \in (n + 1)..Len(t) : t[i] \in T
    BY <1>1, <1>2, <1>4
  <2> QED
    BY <2>1, SubSeqProperties
<1>5. SubSeq(t, n + 1, Len(t)) \in Seq(S)
  BY <1>1, <1>4
<1>6. SubSeq(t, n + 1, Len(t)) \in Seq(Range(t))
  <2>1. \A i \in 1..Len(t) : t[i] \in Range(t)
    BY <1>1 DEF Range
  <2> QED
    BY <1>4, <2>1
<1>7. Range(SubSeq(t, n + 1, Len(t))) \subseteq Range(t)
  BY <1>6, RangeOfSeq
<1> QED
  BY <1>3, <1>5, <1>7 DEF Span, Rest, n

LEMMA AppendRange ==
  ASSUME NEW S, NEW t \in Seq(S), NEW e \in S
  PROVE  Range(Append(t, e)) = Range(t) \cup {e}
<1>1. /\ Len(t) \in Nat /\ DOMAIN t = 1..Len(t)
      /\ Append(t, e) \in Seq(S) /\ Len(Append(t, e)) = Len(t) + 1
      /\ \A i \in 1..Len(t) : Append(t, e)[i] = t[i]
      /\ Append(t, e)[Len(t) + 1] = e
  BY LenProperties, AppendProperties
<1>2. DOMAIN Append(t, e) = 1..(Len(t) + 1)
  BY <1>1, LenProperties
<1>3. Range(Append(t, e)) \subseteq Range(t) \cup {e}
  BY <1>1, <1>2 DEF Range
<1>4. Range(t) \cup {e} \subseteq Range(Append(t, e))
  BY <1>1, <1>2 DEF Range
<1> QED
  BY <1>3, <1>4

-----------------------------------------------------------------------------
(* Reading a line *)

Char == InLine \cup {LineEnd}

LEMMA CharFacts ==
  /\ LineEnd \in Char /\ LineEnd \in White /\ LineEnd \notin InLine
  /\ LineEnd \notin Graphic /\ LineEnd \notin Digit
  /\ White \cap Digit = {} /\ InLine \subseteq Char /\ Lines = Seq(InLine)
  /\ Digit \subseteq Int /\ -1 \notin 1..9
BY DEF Char, InLine, Graphic, Digit, White, LineEnd, Blank, Letter, Lines

(* scanf finds in a line with its end what it finds in the line, and       *)
(* leaves the end of the line.                                             *)
LEMMA ScanLine ==
  ASSUME NEW l \in Lines, ~(Range(l) \subseteq White), NEW kind
  PROVE  /\ Found(kind, Append(l, LineEnd)) = Found(kind, l)
         /\ Behind(kind, Append(l, LineEnd)) = Append(Behind(kind, l), LineEnd)
         /\ Found(kind, l) \in Seq(InLine)
         /\ Behind(kind, l) \in Seq(InLine)
         /\ kind # "word" => Found(kind, l) \in Seq(Digit)
<1> DEFINE set == IF kind = "word" THEN Graphic ELSE Digit
           t == Rest(l, White)
<1>1. l \in Seq(Char) /\ l \in Seq(InLine)
  BY CharFacts, SeqMonotonic
<1>2. LineEnd \notin set
  BY CharFacts
<1>3. Rest(Append(l, LineEnd), White) = Append(t, LineEnd)
  BY <1>1, CharFacts, SpanAppend
<1>4. t \in Seq(Char) /\ t \in Seq(InLine)
  BY <1>1, SpanParts
<1> HIDE DEF t, set
<1>5. /\ Span(Append(t, LineEnd), set) = Span(t, set)
      /\ Rest(Append(t, LineEnd), set) = Append(Rest(t, set), LineEnd)
  BY <1>2, <1>4, CharFacts, SpanAppend
<1>6. /\ Span(t, set) \in Seq(InLine) /\ Span(t, set) \in Seq(set)
      /\ Rest(t, set) \in Seq(InLine)
  BY <1>4, SpanParts
<1> QED
  BY <1>3, <1>5, <1>6 DEF Found, Behind, t, set

(* What is left of a line is thrown away to its end.                       *)
LEMMA ClearLine ==
  ASSUME NEW l \in Seq(InLine)
  PROVE  clear_input_buffer(Append(l, LineEnd)) = <<>>
<1>1. l \in Seq(Char) /\ Range(l) \subseteq InLine
  BY CharFacts, SeqMonotonic, RangeOfSeq
<1>2. Rest(l, InLine) = <<>>
  BY <1>1, SpanWhole
<1>3. Rest(Append(l, LineEnd), InLine) = Append(<<>>, LineEnd)
  <2>1. LineEnd \in Char /\ LineEnd \notin InLine
    BY CharFacts
  <2>2. Rest(Append(l, LineEnd), InLine) = Append(Rest(l, InLine), LineEnd)
    BY <1>1, <2>1, SpanAppend
  <2> QED
    BY <1>2, <2>2
<1>4. Append(<<>>, LineEnd) # <<>> /\ Tail(Append(<<>>, LineEnd)) = <<>>
  OBVIOUS
<1> QED
  BY <1>3, <1>4 DEF clear_input_buffer

(* There is nothing to be found in white space.                            *)
LEMMA ScanWhite ==
  ASSUME NEW s \in Seq(Char), Range(s) \subseteq White, NEW kind
  PROVE  Rest(s, White) = <<>> /\ Found(kind, s) = <<>> /\ Behind(kind, s) = <<>>
<1>1. Rest(s, White) = <<>>
  BY SpanWhole
<1>2. <<>> \in Seq(Char) /\ \A set : Range(<<>>) \subseteq set
  BY EmptySeq DEF Range
<1>3. \A set : Span(<<>>, set) = <<>> /\ Rest(<<>>, set) = <<>>
  BY <1>2, SpanWhole
<1> QED
  BY <1>1, <1>3 DEF Found, Behind

(* A choice of two characters at most is read in one piece, which leaves   *)
(* no more than the end of its line.                                       *)
LEMMA PieceLine ==
  ASSUME NEW l \in Lines, Len(l) \in 1..2, input = Append(l, LineEnd)
  PROVE  /\ Span(Piece, InLine) = l
         /\ Range(SubSeq(input, Len(Piece) + 1, Len(input))) \subseteq White
<1>1. l \in Seq(Char) /\ l \in Seq(InLine) /\ LineEnd \in Char /\ LineEnd \notin InLine
  BY CharFacts, SeqMonotonic
<1>2. /\ input \in Seq(Char) /\ Len(input) = Len(l) + 1
      /\ \A i \in 1..Len(l) : input[i] = l[i]
      /\ input[Len(l) + 1] = LineEnd
  BY <1>1, AppendProperties
<1>3. input[1] # LineEnd
  <2>1. input[1] = l[1] /\ l[1] \in InLine
    BY <1>1, <1>2, ElementOfSeq
  <2> QED
    BY <1>1, <2>1
<1>4. Piece = SubSeq(input, 1, 2)
  BY <1>2, <1>3 DEF Piece
<1>5. Range(l) \subseteq InLine
  BY <1>1, RangeOfSeq
<1>6. Span(l, InLine) = l
  BY <1>1, <1>5, SpanWhole
<1>7. CASE Len(l) = 1
  <2>1. Piece = input
    BY <1>2, <1>4, <1>7, SubSeqFull
  <2>2. Span(input, InLine) = l
    BY <1>1, <1>6, SpanAppend
  <2>3. SubSeq(input, Len(Piece) + 1, Len(input)) = <<>>
    BY <1>2, <1>7, <2>1, SubSeqEmpty
  <2>4. Range(<<>>) \subseteq White
    BY EmptySeq DEF Range
  <2> QED
    BY <2>1, <2>2, <2>3, <2>4
<1>8. CASE Len(l) = 2
  <2>1. \A i \in 1..2 : input[i] \in Char
    BY <1>2, <1>8, ElementOfSeq
  <2>2. /\ SubSeq(input, 1, 2) \in Seq(Char) /\ Len(SubSeq(input, 1, 2)) = 2
        /\ \A i \in 1..2 : SubSeq(input, 1, 2)[i] = input[i]
    <3>1. SubSeq(input, 1, 2) \in Seq(Char)
      BY <2>1, SubSeqProperties
    <3>2. Len(SubSeq(input, 1, 2)) = 2 - 1 + 1
      BY <2>1, SubSeqProperties
    <3>3. \A i \in 1..(2 - 1 + 1) : SubSeq(input, 1, 2)[i] = input[1 + i - 1]
      BY <2>1, SubSeqProperties
    <3>4. 2 - 1 + 1 = 2 /\ \A i \in 1..2 : 1 + i - 1 = i
      OBVIOUS
    <3> QED
      BY <3>1, <3>2, <3>3, <3>4
  <2>3. Piece = l
    <3>1. \A i \in 1..2 : SubSeq(input, 1, 2)[i] = l[i]
      BY <1>2, <1>8, <2>2
    <3> QED
      BY <1>1, <1>4, <1>8, <2>2, <3>1, SeqEqual
  <2>4. SubSeq(input, 3, 3) \in Seq(White)
    <3>1. \A i \in 3..3 : input[i] \in White
      BY <1>2, <1>8, CharFacts
    <3>2. 3 \in Int
      OBVIOUS
    <3> QED
      BY <3>1, <3>2, SubSeqProperties
  <2>5. Len(Piece) + 1 = 3 /\ Len(input) = 3
    BY <1>2, <1>8, <2>3
  <2> QED
    BY <1>6, <2>3, <2>4, <2>5, RangeOfSeq
<1> QED
  BY <1>7, <1>8

-----------------------------------------------------------------------------
(* The inductive invariant *)

(* While a line is waiting, it is all there is to read, and it was typed   *)
(* for the prompt that is shown.                                           *)
OneLine == line # NoLine => /\ input = Append(line, LineEnd)
                            /\ line \in Prompted
                            /\ ~(Range(line) \subseteq White)

(* What is left of earlier lines is no answer: at the menu there is no     *)
(* digit in it, in a choice nothing but white space.                       *)
NoRemainder == line = NoLine => IF reads = <<>> THEN Range(input) \cap Digit = {}
                                ELSE Range(input) \subseteq White

MenuInv == TypeOK /\ OneLine /\ NoRemainder /\ TakenAsTyped

LEMMA TypeFacts ==
  ASSUME TypeOK
  PROVE  /\ input \in Seq(Char) /\ line \in Lines /\ open \in BOOLEAN
         /\ reads # <<>> => /\ Head(reads).kind \in {"word", "number"}
                            /\ Head(reads).clear \in BOOLEAN
                            /\ Tail(reads) \in Seq({Word(TRUE), Word(FALSE), Number(TRUE), Number(FALSE)})
<1> DEFINE R == {Word(TRUE), Word(FALSE), Number(TRUE), Number(FALSE)}
<1>1. ASSUME NEW r \in R
      PROVE  r.kind \in {"word", "number"} /\ r.clear \in BOOLEAN
  <2>1. ASSUME NEW b \in BOOLEAN
        PROVE  /\ Word(b).kind = "word" /\ Word(b).clear = b
               /\ Number(b).kind = "number" /\ Number(b).clear = b
    BY DEF Word, Number
  <2>2. \E b \in BOOLEAN : r = Word(b) \/ r = Number(b)
    OBVIOUS
  <2> QED
    BY <2>1, <2>2
<1>2. reads \in Seq(R) /\ input \in Seq(Char) /\ line \in Lines /\ open \in BOOLEAN
  BY DEF TypeOK, Char
<1> HIDE DEF R
<1>3. reads # <<>> => Head(reads) \in R /\ Tail(reads) \in Seq(R)
  BY <1>2, HeadTailProperties
<1> QED
  BY <1>1, <1>2, <1>3 DEF R

LEMMA ScriptTypes ==
  ASSUME NEW c \in 1..9, NEW script \in Scripts[c]
  PROVE  script \in Seq({Word(TRUE), Word(FALSE), Number(TRUE), Number(FALSE)})
<1> DEFINE R == {Word(TRUE), Word(FALSE), Number(TRUE), Number(FALSE)}
           wc == Word(TRUE)
           wn == Word(FALSE)
           nc == Number(TRUE)
           nn == Number(FALSE)
<1>1. wc \in R /\ wn \in R /\ nc \in R /\ nn \in R
  OBVIOUS
<1>2. script \in {<<wn, wn, nn, nn>>, <<wc>>, <<wc, wc, nc, nc>>, <<nc>>, <<>>, <<wc, nc, nc>>}
  <2> HIDE DEF wc, wn, nc, nn
  <2> DEFINE S == CASE c = 1 -> {<<wn, wn, nn, nn>>}
                    [] c = 2 -> {<<wc>>, <<wc, wc, nc, nc>>}
                    [] c = 3 -> {<<nc>>}
                    [] c \in {4, 7} -> {<<>>, <<wc>>}
                    [] c = 5 -> {<<wc>>}
                    [] c = 6 -> {<<wc>>, <<wc, nc, nc>>}
                    [] OTHER -> {<<>>}
  <2>1. Scripts[c] = S
    BY Zenon DEF Scripts, wc, wn, nc, nn
  <2>2. script \in S
    BY <2>1
  <2> QED
    BY <2>2
<1> HIDE DEF R, wc, wn, nc, nn
<1>3. \A a, b, d, e \in R : /\ <<a>> \in Seq(R) /\ <<a, b, d>> \in Seq(R)
                           /\ <<a, b, d, e>> \in Seq(R) /\ <<>> \in Seq(R)
  OBVIOUS
<1>4. script \in Seq(R)
  BY <1>1, <1>2, <1>3
<1> QED
  BY <1>4 DEF R

(* The lines a prompt accepts are lines. *)
LEMMA PromptedLines == Prompted \subseteq Lines
BY LinesAssumption DEF Prompted

LEMMA InitMenu == Init => MenuInv
<1> SUFFICES ASSUME Init PROVE MenuInv
  OBVIOUS
<1>1. NoLine \in Lines
  BY DEF NoLine, Lines, InLine
<1>2. Range(<<>>) = {}
  BY EmptySeq DEF Range
<1>3. TypeOK
  BY <1>1 DEF Init, TypeOK, Nothing
<1>4. OneLine /\ NoRemainder
  BY <1>2 DEF Init, OneLine, NoRemainder
<1>5. TakenAsTyped
  BY DEF Init, TakenAsTyped, Nothing
<1> QED
  BY <1>3, <1>4, <1>5 DEF MenuInv

(* While the program waits there is no line, and nothing but white space.  *)
LEMMA WaitsWhite ==
  ASSUME MenuInv, Waits
  PROVE  line = NoLine /\ Range(input) \subseteq White
<1>1. input \in Seq(Char) /\ line \in Lines
  BY TypeFacts DEF MenuInv
<1>2. Range(<<>>) = {}
  BY EmptySeq DEF Range
<1>3. Range(input) \subseteq White
  BY <1>2 DEF Waits
<1>4. line = NoLine
  <2> SUFFICES ASSUME line # NoLine PROVE FALSE
    OBVIOUS
  <2>1. input = Append(line, LineEnd) /\ ~(Range(line) \subseteq White)
    BY DEF MenuInv, OneLine
  <2>2. line \in Seq(Char) /\ LineEnd \in Char
    BY <1>1, CharFacts, SeqMonotonic
  <2>3. Range(input) = Range(line) \cup {LineEnd}
    BY <2>1, <2>2, AppendRange
  <2> QED
    BY <1>3, <2>1, <2>3
<1> QED
  BY <1>3, <1>4

LEMMA TypeStep == MenuInv /\ Type => MenuInv'
<1> SUFFICES ASSUME MenuInv, Type PROVE MenuInv'
  OBVIOUS
<1>1. line = NoLine /\ Range(input) \subseteq White /\ input \in Seq(Char)
  BY WaitsWhite, TypeFacts DEF Type, MenuInv
<1>2. Rest(input, White) = <<>>
  BY <1>1, SpanWhole
<1>3. PICK l \in Prompted : /\ input' = Rest(input, White) \o Append(l, LineEnd)
                            /\ line' = IF Range(l) \subseteq White THEN line ELSE l
  BY DEF Type
<1>4. l \in Lines /\ l \in Seq(Char) /\ LineEnd \in Char
  BY PromptedLines, CharFacts, SeqMonotonic
<1>5. Append(l, LineEnd) \in Seq(Char) /\ Range(Append(l, LineEnd)) = Range(l) \cup {LineEnd}
  BY <1>4, AppendProperties, AppendRange
<1>6. input' = Append(l, LineEnd)
  BY <1>2, <1>3, <1>5, ConcatEmptySeq
<1>7. UNCHANGED <<open, reads, took, state>> /\ Prompted' = Prompted
  BY DEF Type, Prompted
<1>8. TypeOK'
  <2>1. input' \in Seq(Char) /\ line' \in Lines
    BY <1>1, <1>3, <1>4, <1>5, <1>6, TypeFacts DEF MenuInv
  <2> QED
    BY <1>7, <2>1 DEF MenuInv, TypeOK, Char
<1>9. OneLine'
  BY <1>1, <1>3, <1>6, <1>7 DEF OneLine
<1>10. NoRemainder'
  <2> SUFFICES ASSUME line' = NoLine
               PROVE  Range(input') \subseteq White
    BY <1>7, CharFacts DEF NoRemainder
  <2>1. Range(l) \subseteq White
    <3>1. Range(NoLine) \subseteq White
      BY DEF NoLine, Range, White
    <3> QED
      BY <1>3, <3>1
  <2> QED
    BY <1>5, <1>6, <2>1, CharFacts
<1>11. TakenAsTyped'
  BY <1>7 DEF MenuInv, TakenAsTyped
<1> QED
  BY <1>8, <1>9, <1>10, <1>11 DEF MenuInv

LEMMA EndStep == MenuInv /\ EndInput => MenuInv'
<1> SUFFICES ASSUME MenuInv, EndInput PROVE MenuInv'
  OBVIOUS
<1>1. UNCHANGED <<input, line, reads, took, state>> /\ open' = FALSE /\ Prompted' = Prompted
  BY DEF EndInput, Prompted
<1> QED
  BY <1>1 DEF MenuInv, TypeOK, OneLine, NoRemainder, TakenAsTyped

(* A part of a sequence consists of what the sequence consists of.         *)
LEMMA PartRange ==
  ASSUME NEW S, NEW s \in Seq(S), NEW a \in Nat \ {0}, NEW b \in 0..Len(s)
  PROVE  /\ SubSeq(s, a, b) \in Seq(S) /\ SubSeq(s, a, b) \in Seq(Range(s))
         /\ Range(SubSeq(s, a, b)) \subseteq Range(s)
<1>1. Len(s) \in Nat /\ DOMAIN s = 1..Len(s)
  BY LenProperties
<1>2. \A i \in a..b : s[i] \in S /\ s[i] \in Range(s)
  BY <1>1, ElementOfSeq DEF Range
<1>3. a \in Int /\ b \in Int
  BY <1>1
<1>4. SubSeq(s, a, b) \in Seq(S)
  BY <1>2, <1>3, SubSeqProperties
<1>5. SubSeq(s, a, b) \in Seq(Range(s))
  BY <1>2, <1>3, SubSeqProperties
<1> QED
  BY <1>4, <1>5, RangeOfSeq

LEMMA PieceTyped ==
  ASSUME input \in Seq(Char), input # <<>>
  PROVE  /\ Len(Piece) \in Nat /\ Piece \in Seq(Char) /\ Piece \in Seq(Range(input))
<1>1. Len(input) \in Nat \ {0}
  BY EmptySeq
<1>2. PICK n \in 1..Len(input) : Piece = SubSeq(input, 1, n)
  <2>1. CASE input[1] = LineEnd \/ Len(input) = 1
    <3>1. Piece = SubSeq(input, 1, 1)
      BY <2>1 DEF Piece
    <3> QED
      BY <1>1, <3>1
  <2>2. CASE ~(input[1] = LineEnd \/ Len(input) = 1)
    <3>1. Piece = SubSeq(input, 1, 2)
      BY <2>2 DEF Piece
    <3>2. Len(input) # 1
      BY <2>2
    <3>3. 2 \in 1..Len(input)
      <4>1. \A k \in Nat \ {0} : k # 1 => 2 \in 1..k
        OBVIOUS
      <4> QED
        BY <1>1, <3>2, <4>1, Zenon
    <3> QED
      BY <3>1, <3>3
  <2> QED
    BY <2>1, <2>2
<1>3. Piece \in Seq(Char) /\ Piece \in Seq(Range(input))
  BY <1>1, <1>2, PartRange
<1> QED
  BY <1>3, LenProperties

LEMMA ChooseTypes ==
  ASSUME NEW c, Choose(c), state = "menu"
  PROVE  /\ reads' \in Seq({Word(TRUE), Word(FALSE), Number(TRUE), Number(FALSE)})
         /\ state' \in {"menu", "ended", "dangling"}
<1>1. state' \in {"menu", "ended", "dangling"}
  BY DEF Choose
<1>2. CASE c \in 1..9
  BY <1>2, ScriptTypes DEF Choose
<1>3. CASE c \notin 1..9
  BY <1>3, EmptySeq DEF Choose
<1> QED
  BY <1>1, <1>2, <1>3

LEMMA SelectStep == MenuInv /\ get_user_selection => MenuInv'
<1> SUFFICES ASSUME MenuInv, get_user_selection PROVE MenuInv'
  OBVIOUS
<1>1. /\ input \in Seq(Char) /\ line \in Lines /\ open \in BOOLEAN
      /\ state = "menu" /\ reads = <<>> /\ line' = NoLine /\ open' = open
  BY TypeFacts DEF MenuInv, get_user_selection
<1>2. NoLine \in Lines
  BY DEF NoLine, Lines, InLine
<1>3. OneLine'
  BY <1>1 DEF OneLine
<1>4. CASE input = <<>>
  <2>1. took' = Error /\ Choose(-1) /\ input' = <<>>
    BY <1>4 DEF get_user_selection
  <2>2. /\ reads' \in Seq({Word(TRUE), Word(FALSE), Number(TRUE), Number(FALSE)})
        /\ state' \in {"menu", "ended", "dangling"}
    BY <1>1, <2>1, ChooseTypes
  <2>3. TypeOK'
    BY <1>1, <1>2, <2>1, <2>2 DEF TypeOK, Error, Char
  <2>4. NoRemainder'
    <3>1. Range(<<>>) = {}
      BY EmptySeq DEF Range
    <3> QED
      BY <2>1, <3>1 DEF NoRemainder
  <2>5. TakenAsTyped'
    BY <2>1 DEF TakenAsTyped, Error
  <2> QED
    BY <1>3, <2>3, <2>4, <2>5 DEF MenuInv
<1>5. CASE input # <<>>
  <2> DEFINE inp == Span(Piece, InLine)
             rest == SubSeq(input, Len(Piece) + 1, Len(input))
             c == FoldLeft(LAMBDA n, d : 10 * n + d, 0, inp)
  <2>1. /\ input' = rest
        /\ IF IsChoice(inp)
           THEN took' = [kind |-> "choice", value |-> inp, from |-> line] /\ Choose(c)
           ELSE UNCHANGED <<reads, took, state>>
    BY <1>5 DEF get_user_selection
  <2>2. Len(Piece) \in Nat /\ Piece \in Seq(Char) /\ Piece \in Seq(Range(input))
    BY <1>1, <1>5, PieceTyped
  <2>3. inp \in Seq(InLine) /\ inp \in Seq(Range(input))
    BY <2>2, SpanParts
  <2>4. rest \in Seq(Char) /\ Range(rest) \subseteq Range(input)
    <3>1. Len(Piece) + 1 \in Nat \ {0} /\ Len(input) \in 0..Len(input)
      BY <1>1, <2>2, LenProperties
    <3> QED
      BY <1>1, <3>1, PartRange
  <2>5. CASE Range(input) \cap Digit = {}
    <3>1. ~IsChoice(inp)
      <4> SUFFICES ASSUME inp # <<>>, Range(inp) \subseteq Digit PROVE FALSE
        BY DEF IsChoice
      <4>1. Range(inp) \subseteq Range(input)
        BY <2>3, RangeOfSeq
      <4>2. Len(inp) \in Nat \ {0} /\ DOMAIN inp = 1..Len(inp)
        BY <2>3, EmptySeq, LenProperties
      <4>3. inp[1] \in Range(inp)
        BY <4>2 DEF Range
      <4> QED
        BY <2>5, <4>1, <4>3
    <3> HIDE DEF inp, rest, c
    <3>2. UNCHANGED <<reads, took, state>> /\ input' = rest
      BY <2>1, <3>1
    <3>3. TypeOK'
      BY <1>1, <1>2, <2>4, <3>2 DEF MenuInv, TypeOK, Char
    <3>4. NoRemainder'
      BY <1>1, <2>4, <2>5, <3>2 DEF NoRemainder
    <3>5. TakenAsTyped'
      BY <3>2 DEF MenuInv, TakenAsTyped
    <3> QED
      BY <1>3, <3>3, <3>4, <3>5 DEF MenuInv
  <2>6. CASE Range(input) \cap Digit # {}
    <3>1. line # NoLine
      BY <1>1, <2>6 DEF MenuInv, NoRemainder
    <3>2. input = Append(line, LineEnd) /\ line \in MenuLines
      BY <1>1, <3>1 DEF MenuInv, OneLine, Prompted
    <3>3. Len(line) \in 1..2
      <4>1. line \in Seq(Char) /\ Len(line) \in Nat /\ DOMAIN line = 1..Len(line)
        BY <1>1, CharFacts, SeqMonotonic, LenProperties
      <4>2. Range(input) = Range(line) \cup {LineEnd}
        BY <3>2, <4>1, AppendRange, CharFacts
      <4>3. Range(line) \cap Digit # {}
        BY <2>6, <4>2, CharFacts
      <4>4. Len(line) <= 2
        BY <3>2, <4>3, DisciplineAssumption
      <4>5. Len(line) # 0
        <5> SUFFICES ASSUME Len(line) = 0 PROVE FALSE
          OBVIOUS
        <5>1. DOMAIN line = {}
          BY <4>1
        <5> QED
          BY <4>3, <5>1 DEF Range
      <4> QED
        BY <4>1, <4>4, <4>5
    <3>4. inp = line /\ Range(rest) \subseteq White
      BY <1>1, <3>2, <3>3, PieceLine
    <3> HIDE DEF inp, rest, c
    <3>5. Range(input') \cap Digit = {} /\ Range(input') \subseteq White /\ input' \in Seq(Char)
      BY <2>1, <2>4, <3>4, CharFacts
    <3>6. NoRemainder'
      BY <3>5 DEF NoRemainder
    <3>7. CASE IsChoice(inp)
      <4>1. took' = [kind |-> "choice", value |-> line, from |-> line] /\ Choose(c)
        BY <2>1, <3>4, <3>7
      <4>2. /\ reads' \in Seq({Word(TRUE), Word(FALSE), Number(TRUE), Number(FALSE)})
            /\ state' \in {"menu", "ended", "dangling"}
        BY <1>1, <4>1, ChooseTypes
      <4>3. line \in Seq(Digit) \ {<<>>}
        <5>1. line # <<>> /\ Range(line) \subseteq Digit
          BY <3>4, <3>7 DEF IsChoice
        <5>2. line \in Seq(Range(line))
          BY <1>1, SeqOfRange DEF Lines
        <5> QED
          BY <5>1, <5>2, SeqMonotonic
      <4>4. TypeOK'
        BY <1>1, <1>2, <3>5, <4>1, <4>2, <4>3 DEF TypeOK, Char
      <4>5. TakenAsTyped'
        BY <3>1, <4>1 DEF TakenAsTyped
      <4> QED
        BY <1>3, <3>6, <4>4, <4>5 DEF MenuInv
    <3>8. CASE ~IsChoice(inp)
      <4>1. UNCHANGED <<reads, took, state>>
        BY <2>1, <3>8
      <4>2. TypeOK'
        BY <1>1, <1>2, <3>5, <4>1 DEF MenuInv, TypeOK, Char
      <4>3. TakenAsTyped'
        BY <4>1 DEF MenuInv, TakenAsTyped
      <4> QED
        BY <1>3, <3>6, <4>2, <4>3 DEF MenuInv
    <3> QED
      BY <3>7, <3>8
  <2> QED
    BY <2>5, <2>6
<1> QED
  BY <1>4, <1>5

LEMMA ScanStep == MenuInv /\ Scanf => MenuInv'
<1> SUFFICES ASSUME MenuInv, Scanf PROVE MenuInv'
  OBVIOUS
<1> DEFINE r == Head(reads)
           value == Found(r.kind, input)
           left == Behind(r.kind, input)
<1>1. /\ state = "menu" /\ reads # <<>> /\ reads' = Tail(reads) /\ line' = NoLine
      /\ UNCHANGED <<open, state>>
      /\ input' = IF r.clear THEN clear_input_buffer(left) ELSE left
      /\ took' = IF value = <<>> THEN Nothing ELSE [kind |-> r.kind, value |-> value, from |-> line]
  BY DEF Scanf
<1>2. /\ input \in Seq(Char) /\ line \in Lines /\ open \in BOOLEAN
      /\ r.kind \in {"word", "number"} /\ r.clear \in BOOLEAN
      /\ reads' \in Seq({Word(TRUE), Word(FALSE), Number(TRUE), Number(FALSE)})
  BY <1>1, TypeFacts DEF MenuInv
<1>3. NoLine \in Lines
  BY DEF NoLine, Lines, InLine
<1>4. OneLine'
  BY <1>1 DEF OneLine
<1>5. ASSUME Range(input') \subseteq White
      PROVE  NoRemainder'
  BY <1>5, CharFacts DEF NoRemainder
<1>6. Range(<<>>) = {} /\ <<>> \in Seq(Char)
  BY EmptySeq DEF Range
<1>7. CASE line = NoLine
  <2>1. Range(input) \subseteq White
    BY <1>1, <1>7 DEF MenuInv, NoRemainder
  <2>2. value = <<>> /\ left = <<>>
    BY <1>2, <2>1, ScanWhite
  <2>3. clear_input_buffer(<<>>) = <<>>
    <3>1. Rest(<<>>, InLine) = <<>>
      <4>1. Range(<<>>) \subseteq InLine
        BY <1>6
      <4> QED
        BY <1>6, <4>1, SpanWhole
    <3> QED
      BY <3>1 DEF clear_input_buffer
  <2> HIDE DEF value, left, r
  <2>4. input' = <<>> /\ took' = Nothing
    BY <1>1, <2>2, <2>3
  <2>5. TypeOK'
    <3>1. took'.kind = "nothing"
      BY <2>4 DEF Nothing
    <3>2. input' \in Seq(Char) /\ line' \in Lines /\ open' \in BOOLEAN /\ state' = "menu"
      BY <1>1, <1>2, <1>3, <1>6, <2>4
    <3> QED
      BY <1>2, <3>1, <3>2 DEF TypeOK, Char
  <2>6. TakenAsTyped'
    BY <2>4 DEF TakenAsTyped, Nothing
  <2> QED
    BY <1>4, <1>5, <1>6, <2>4, <2>5, <2>6 DEF MenuInv
<1>8. CASE line # NoLine
  <2>1. input = Append(line, LineEnd) /\ line \in Prompted /\ ~(Range(line) \subseteq White)
    BY <1>8 DEF MenuInv, OneLine
  <2>2. /\ value = Found(r.kind, line)
        /\ left = Append(Behind(r.kind, line), LineEnd)
        /\ Found(r.kind, line) \in Seq(InLine)
        /\ Behind(r.kind, line) \in Seq(InLine)
        /\ r.kind # "word" => Found(r.kind, line) \in Seq(Digit)
    BY <1>2, <2>1, ScanLine
  <2>3. input' \in Seq(Char) /\ Range(input') \subseteq White
    <3>1. CASE r.clear
      <4>1. clear_input_buffer(Append(Behind(r.kind, line), LineEnd)) = <<>>
        BY <2>2, ClearLine
      <4> HIDE DEF value, left, r
      <4>2. input' = <<>>
        BY <1>1, <2>2, <3>1, <4>1
      <4> QED
        BY <1>6, <4>2
    <3>2. CASE ~r.clear
      <4>1. Range(Behind(r.kind, line)) \subseteq White
        <5>1. CASE r.kind = "word"
          <6>1. line \in WordLines
            BY <1>1, <2>1, <3>2, <5>1 DEF Prompted
          <6> QED
            BY <5>1, <6>1, DisciplineAssumption
        <5>2. CASE r.kind = "number"
          <6>1. line \in NumberLines
            BY <1>1, <2>1, <3>2, <5>2 DEF Prompted
          <6> QED
            BY <5>2, <6>1, DisciplineAssumption
        <5> QED
          BY <1>2, <5>1, <5>2
      <4>2. Behind(r.kind, line) \in Seq(Char) /\ LineEnd \in Char
        BY <2>2, CharFacts, SeqMonotonic
      <4>3. /\ Append(Behind(r.kind, line), LineEnd) \in Seq(Char)
            /\ Range(Append(Behind(r.kind, line), LineEnd)) = Range(Behind(r.kind, line)) \cup {LineEnd}
        BY <4>2, AppendProperties, AppendRange
      <4> HIDE DEF value, left, r
      <4>4. input' = Append(Behind(r.kind, line), LineEnd)
        BY <1>1, <2>2, <3>2
      <4> QED
        BY <4>1, <4>3, <4>4, CharFacts
    <3> QED
      BY <1>2, <3>1, <3>2
  <2> HIDE DEF value, left, r
  <2>4. TypeOK'
    <3>1. /\ took'.kind \in {"nothing", "error", "choice", "word", "number"}
          /\ took'.kind \in {"choice", "number"} => took'.value \in Seq(Digit) \ {<<>>}
      <4>1. CASE value = <<>>
        BY <1>1, <4>1 DEF Nothing
      <4>2. CASE value # <<>>
        BY <1>1, <1>2, <2>2, <4>2
      <4> QED
        BY <4>1, <4>2
    <3> QED
      BY <1>1, <1>2, <1>3, <2>3, <3>1 DEF TypeOK, Char
  <2>5. TakenAsTyped'
    <3>1. CASE value = <<>>
      BY <1>1, <3>1 DEF TakenAsTyped, Nothing
    <3>2. CASE value # <<>>
      BY <1>1, <1>2, <1>8, <2>2, <3>2 DEF TakenAsTyped
    <3> QED
      BY <3>1, <3>2
  <2> QED
    BY <1>4, <1>5, <2>3, <2>4, <2>5 DEF MenuInv
<1> QED
  BY <1>7, <1>8

(* What is waiting to be read is one whole line, typed for the prompt that *)
(* is shown, or holds no answer: the lines of the user never mix.          *)
THEOREM LinesApart == Spec => []MenuInv
<1>1. MenuInv /\ [Next]_vars => MenuInv'
  <2> SUFFICES ASSUME MenuInv, [Next]_vars PROVE MenuInv'
    OBVIOUS
  <2>1. CASE UNCHANGED vars
    <3>1. UNCHANGED <<input, open, line, reads, took, state>> /\ Prompted' = Prompted
      BY <2>1 DEF vars, Prompted
    <3> QED
      BY <3>1 DEF MenuInv, TypeOK, OneLine, NoRemainder, TakenAsTyped
  <2> QED
    BY <2>1, TypeStep, EndStep, SelectStep, ScanStep DEF Next
<1> QED
  BY <1>1, InitMenu, PTL DEF Spec

(* The types of what was typed and taken: a choice is a number.            *)
THEOREM InputTypes == Spec => []TypeOK
<1>1. MenuInv => TypeOK
  BY DEF MenuInv
<1> QED
  BY <1>1, LinesApart, PTL

(* Every answer is what the user typed for its own prompt, for all lines   *)
(* that keep the discipline.                                               *)
THEOREM AnswersInStep == Spec => []TakenAsTyped
<1>1. MenuInv => TakenAsTyped
  BY DEF MenuInv
<1> QED
  BY <1>1, LinesApart, PTL
=============================================================================
