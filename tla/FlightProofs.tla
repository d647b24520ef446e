---------------------------- MODULE FlightProofs ----------------------------
(***************************************************************************)
(* Theorems about FlightManager: any sequence of choices keeps the lists   *)
(* of flights and of passengers well formed, and what FlightLookups prints *)
(* is what they hold.                                                      *)
(***************************************************************************)
EXTENDS FlightLookups, SetInduction, SequenceTheorems, FiniteSetTheorems, FunctionTheorems

-----------------------------------------------------------------------------
(* Following pointers *)

(* Repeat is the last of the values that f goes through.                   *)
LEMMA RepeatIs ==
  ASSUME NEW f, NEW x, NEW n \in Nat, NEW v,
         \A i \in 0..n : v[i] = IF i = 0 THEN x ELSE f[v[i - 1]]
  PROVE  Repeat(f, x, n) = v[n]
<1> DEFINE Good(g) == g = [i \in 0..n |-> IF i = 0 THEN x ELSE f[g[i - 1]]]
           at == CHOOSE g : Good(g)
           w  == [i \in 0..n |-> v[i]]
<1>1. Good(w)
  <2>1. ASSUME NEW i \in 0..n
        PROVE  w[i] = IF i = 0 THEN x ELSE f[w[i - 1]]
    <3>1. i # 0 => i - 1 \in 0..n
      OBVIOUS
    <3> QED
      BY <3>1
  <2> QED
    BY <2>1
<1>2. Good(at)
  <2> HIDE DEF Good, w
  <2> QED
    BY <1>1
<1>3. \A i \in 0..n : at[i] = IF i = 0 THEN x ELSE f[at[i - 1]]
  <2> HIDE DEF at
  <2>1. at = [i \in 0..n |-> IF i = 0 THEN x ELSE f[at[i - 1]]]
    BY <1>2
  <2> QED
    BY <2>1
<1>4. Repeat(f, x, n) = at[n]
  BY DEF Repeat
<1> HIDE DEF at, Good
<1> DEFINE T == {i \in Nat : i \in 0..n => at[i] = v[i]}
<1>5. 0 \in T
  BY <1>3
<1>6. ASSUME NEW i \in Nat, i \in T
      PROVE  i + 1 \in T
  <2> SUFFICES ASSUME i + 1 \in 0..n PROVE at[i + 1] = v[i + 1]
    OBVIOUS
  <2>1. i \in 0..n /\ (i + 1) - 1 = i /\ i + 1 # 0
    OBVIOUS
  <2>2. at[i] = v[i]
    BY <1>6, <2>1
  <2>3. at[i + 1] = f[at[i]] /\ v[i + 1] = f[v[i]]
    BY <1>3, <2>1
  <2> QED
    BY <2>2, <2>3
<1>7. n \in T
  <2> HIDE DEF T
  <2> QED
    BY <1>5, <1>6, NumberInduction
<1> QED
  BY <1>4, <1>7

(* The i-th element of s, or Nil. *)
At(s, i) == IF i \in 1..Len(s) THEN s[i] ELSE Nil

(* From start on, next leads through s and then to Nil. *)
Chain(next, start, s) ==
  /\ start = At(s, 1)
  /\ \A i \in 1..Len(s) : next[s[i]] = At(s, i + 1)

Distinct(s) == \A i, j \in 1..Len(s) : s[i] = s[j] => i = j

LEMMA Numbers == \A n \in Nat : IsFiniteSet(1..n) /\ Cardinality(1..n) = n
<1> SUFFICES ASSUME NEW n \in Nat PROVE IsFiniteSet(1..n) /\ Cardinality(1..n) = n
  OBVIOUS
<1>1. 1 \in Int /\ n \in Int
  OBVIOUS
<1>2. IsFiniteSet(1..n) /\ Cardinality(1..n) = IF 1 > n THEN 0 ELSE n - 1 + 1
  BY <1>1, FS_Interval
<1> QED
  BY <1>2

(* No more nodes are in a list than there are.                             *)
LEMMA DistinctLength ==
  ASSUME NEW N \in Nat, NEW s \in Seq(1..N), Distinct(s)
  PROVE  Len(s) <= N
<1>1. s \in [1..Len(s) -> 1..N] /\ Len(s) \in Nat
  BY LenProperties
<1>2. \A n \in Nat : IsFiniteSet(1..n) /\ Cardinality(1..n) = n
  BY Numbers
<1>3. Cardinality(1..Len(s)) = Len(s) /\ Cardinality(1..N) = N /\ IsFiniteSet(1..N)
  BY <1>1, <1>2
<1>4. s \in Injection(1..Len(s), 1..N)
  BY <1>1 DEF Distinct, Injection, IsInjective
<1> QED
  BY <1>3, <1>4, FS_Injection

(* Walk finds the list that the pointers form.                             *)
LEMMA WalkIs ==
  ASSUME NEW N \in Nat, NEW next, DOMAIN next = 1..N, NEW start,
         NEW s \in Seq(1..N), Distinct(s), Chain(next, start, s)
  PROVE  Walk(next, start) = s
<1> DEFINE after(t) == IF t = <<>> THEN start ELSE next[t[Len(t)]]
           more == [t \in Seq(DOMAIN next) |-> IF after(t) = Nil THEN t ELSE Append(t, after(t))]
           Short(i) == IF i <= Len(s) THEN i ELSE Len(s)
           v == [i \in 0..(N + 1) |-> SubSeq(s, 1, Short(i))]
<1>1. Len(s) \in Nat /\ Len(s) <= N /\ Cardinality(DOMAIN next) = N
  BY LenProperties, DistinctLength, Numbers
<1>2. ASSUME NEW k \in 0..Len(s)
      PROVE  /\ SubSeq(s, 1, k) \in Seq(1..N) /\ Len(SubSeq(s, 1, k)) = k
             /\ k > 0 => SubSeq(s, 1, k)[k] = s[k]
  <2>1. \A i \in 1..k : s[i] \in 1..N
    BY <1>1, ElementOfSeq
  <2>2. k \in Int /\ k - 1 + 1 = k /\ 1 + k - 1 = k
    BY <1>1
  <2> QED
    BY <2>1, <2>2, SubSeqProperties
<1>3. ASSUME NEW k \in 0..Len(s)
      PROVE  more[SubSeq(s, 1, k)] = SubSeq(s, 1, Short(k + 1))
  <2> DEFINE t == SubSeq(s, 1, k)
  <2>1. after(t) = At(s, k + 1)
    <3>1. CASE k = 0
      <4>1. t = <<>>
        BY <3>1, SubSeqEmpty
      <4> QED
        BY <3>1, <4>1 DEF Chain
    <3>2. CASE k # 0
      <4>1. t # <<>> /\ Len(t) = k /\ t[k] = s[k]
        BY <1>2, <3>2, EmptySeq
      <4>2. k \in 1..Len(s)
        BY <1>1, <3>2
      <4> QED
        BY <4>1, <4>2 DEF Chain
    <3> QED
      BY <3>1, <3>2
  <2>2. t \in Seq(DOMAIN next)
    BY <1>2
  <2>3. more[t] = IF after(t) = Nil THEN t ELSE Append(t, after(t))
    BY <2>2
  <2> HIDE DEF after, more
  <2>4. CASE k = Len(s)
    <3>1. Short(k + 1) = k /\ At(s, k + 1) = Nil
      BY <1>1, <2>4 DEF At
    <3> QED
      BY <2>1, <2>3, <3>1
  <2>5. CASE k # Len(s)
    <3>1. k + 1 \in 1..Len(s) /\ Short(k + 1) = k + 1 /\ 1 \in 1..Len(s)
      BY <1>1, <2>5
    <3>2. At(s, k + 1) = s[k + 1] /\ s[k + 1] \in 1..N
      BY <3>1, ElementOfSeq DEF At
    <3>3. SubSeq(s, 1, k + 1) = SubSeq(s, 1, k) \o <<s[k + 1]>>
      <4>1. (k + 1) - 1 = k /\ k + 1 \in 1..Len(s)
        BY <1>1, <3>1
      <4> QED
        BY <3>1, <4>1, SubSeqRecursiveSecond
    <3>4. Append(t, s[k + 1]) = t \o <<s[k + 1]>>
      BY <1>2, <3>2, AppendIsConcat
    <3> QED
      BY <2>1, <2>3, <3>1, <3>2, <3>3, <3>4 DEF Nil
  <2> QED
    BY <2>4, <2>5
<1>4. ASSUME NEW i \in 0..(N + 1)
      PROVE  v[i] = IF i = 0 THEN <<>> ELSE more[v[i - 1]]
  <2>1. CASE i = 0
    <3>1. Short(i) = 0 /\ SubSeq(s, 1, 0) = <<>>
      BY <1>1, <2>1, SubSeqEmpty
    <3> QED
      BY <2>1, <3>1
  <2>2. CASE i # 0
    <3>1. /\ i - 1 \in 0..(N + 1) /\ Short(i - 1) \in 0..Len(s)
          /\ Short(Short(i - 1) + 1) = Short(i)
      BY <1>1, <2>2
    <3>2. more[SubSeq(s, 1, Short(i - 1))] = SubSeq(s, 1, Short(Short(i - 1) + 1))
      BY <1>3, <3>1
    <3>3. v[i] = SubSeq(s, 1, Short(i)) /\ v[i - 1] = SubSeq(s, 1, Short(i - 1))
      BY <3>1
    <3> HIDE DEF more, v, Short
    <3> QED
      BY <2>2, <3>1, <3>2, <3>3
  <2> QED
    BY <2>1, <2>2
<1>5. Repeat(more, <<>>, N + 1) = v[N + 1]
  <2> HIDE DEF more, v
  <2>1. N + 1 \in Nat
    OBVIOUS
  <2> QED
    BY <1>4, <2>1, RepeatIs
<1>6. Walk(next, start) = Repeat(more, <<>>, N + 1)
  BY <1>1 DEF Walk
<1>7. v[N + 1] = s
  <2>1. Short(N + 1) = Len(s) /\ N + 1 \in 0..(N + 1)
    BY <1>1
  <2>2. v[N + 1] = SubSeq(s, 1, Len(s))
    BY <2>1
  <2> QED
    BY <2>2, SubSeqFull
<1> QED
  BY <1>5, <1>6, <1>7

(* Find stops at the first node of the list that is wanted, or at its end. *)
LEMMA FindIs ==
  ASSUME NEW N \in Nat, NEW next, DOMAIN next = 1..N, NEW start, NEW wanted,
         NEW s \in Seq(1..N), Distinct(s), Chain(next, start, s)
  PROVE  LET r == Find(next, start, wanted)
         IN \/ r = Nil /\ \A i \in 1..Len(s) : s[i] \notin wanted
            \/ \E k \in 1..Len(s) : r = s[k] /\ s[k] \in wanted
<1> DEFINE go == [a \in DOMAIN next \cup {Nil} |-> IF a \in wanted \cup {Nil} THEN a ELSE next[a]]
           Good(k) == k \in 1..(Len(s) + 1) /\ (k <= Len(s) => s[k] \in wanted)
<1>1. Len(s) \in Nat /\ Len(s) <= N /\ Cardinality(DOMAIN next) = N
  BY LenProperties, DistinctLength, Numbers
<1>2. PICK k \in Nat : Good(k) /\ \A j \in Nat : Good(j) => ~(j < k)
  <2> DEFINE T == {j \in Nat : Good(j)}
  <2>1. Len(s) + 1 \in T
    BY <1>1
  <2>2. \E j \in T : \A i \in T : ~(i < j)
    <3> HIDE DEF Good
    <3> QED
      BY <2>1, LeastNumber
  <2> QED
    BY <2>2
<1>3. \A j \in 1..Len(s) : j < k => s[j] \notin wanted
  BY <1>1, <1>2
<1> DEFINE Place(i) == IF i + 1 <= k THEN i + 1 ELSE k
           v == [i \in 0..N |-> At(s, Place(i))]
<1>4. ASSUME NEW i \in 0..N
      PROVE  v[i] = IF i = 0 THEN start ELSE go[v[i - 1]]
  <2>1. CASE i = 0
    <3>1. Place(i) = 1
      BY <1>2, <2>1
    <3> QED
      BY <2>1, <3>1 DEF Chain
  <2>2. CASE i # 0
    <3>1. i - 1 \in 0..N /\ (i - 1) + 1 = i
      BY <2>2
    <3>2. v[i] = At(s, Place(i)) /\ v[i - 1] = At(s, Place(i - 1))
      BY <3>1
    <3>3. CASE i < k
      <4>1. Place(i - 1) = i /\ Place(i) = i + 1 /\ i \in 1..Len(s)
        BY <1>1, <1>2, <2>2, <3>1, <3>3
      <4>2. s[i] \in 1..N /\ s[i] \notin wanted
        BY <1>3, <3>3, <4>1, ElementOfSeq
      <4>3. At(s, i) = s[i] /\ go[s[i]] = next[s[i]] /\ next[s[i]] = At(s, i + 1)
        BY <4>1, <4>2 DEF At, Chain, Nil
      <4> HIDE DEF go, v, Place
      <4> QED
        BY <2>2, <3>2, <4>1, <4>3
    <3>4. CASE ~(i < k)
      <4>1. Place(i - 1) = k /\ Place(i) = k
        BY <1>1, <1>2, <2>2, <3>1, <3>4
      <4>2. At(s, k) \in (wanted \cap 1..N) \cup {Nil}
        BY <1>1, <1>2, ElementOfSeq DEF At
      <4>3. go[At(s, k)] = At(s, k)
        BY <4>2
      <4> HIDE DEF go, v, Place
      <4> QED
        BY <2>2, <3>2, <4>1, <4>3
    <3> QED
      BY <3>3, <3>4
  <2> QED
    BY <2>1, <2>2
<1>5. Repeat(go, start, N) = v[N]
  <2> HIDE DEF go, v
  <2> QED
    BY <1>4, RepeatIs
<1>6. Find(next, start, wanted) = Repeat(go, start, N)
  BY <1>1 DEF Find
<1>7. v[N] = At(s, k)
  <2>1. Place(N) = k /\ N \in 0..N
    BY <1>1, <1>2
  <2> QED
    BY <2>1
<1>8. CASE k = Len(s) + 1
  <2>1. At(s, k) = Nil
    BY <1>1, <1>8 DEF At
  <2>2. \A i \in 1..Len(s) : s[i] \notin wanted
    BY <1>1, <1>3, <1>8
  <2> QED
    BY <1>5, <1>6, <1>7, <2>1, <2>2
<1>9. CASE k # Len(s) + 1
  <2>1. k \in 1..Len(s) /\ s[k] \in wanted
    BY <1>1, <1>2, <1>9
  <2> QED
    BY <1>5, <1>6, <1>7, <2>1 DEF At
<1> QED
  BY <1>8, <1>9

LEMMA MinIs ==
  ASSUME NEW T, T \subseteq Nat, T # {}
  PROVE  Min(T) \in T /\ \A y \in T : Min(T) <= y
<1>1. PICK x \in T : \A y \in T : ~(y < x)
  BY LeastNumber
<1>2. \A y \in T : x <= y
  BY <1>1
<1> QED
  BY <1>2 DEF Min

-----------------------------------------------------------------------------
(* The shape of the memory *)

FlightNode == [id : KnownIds \cup {""}, to : KnownPlaces \cup {""}, seats : Int,
               passengers : PassengerAddr \cup {Nil},
               prev : FlightAddr \cup {Nil}, next : FlightAddr \cup {Nil}]
PassengerNode == [seat : Int, who : KnownPeople \cup {Nobody}, next : PassengerAddr \cup {Nil}]

Heap == [flight : [FlightAddr -> FlightNode], person : [PassengerAddr -> PassengerNode],
         head : FlightAddr \cup {Nil}, tail : FlightAddr \cup {Nil}, count : Int, failed : BOOLEAN]

NextFlights(h)    == [a \in FlightAddr |-> h.flight[a].next]
PrevFlights(h)    == [a \in FlightAddr |-> h.flight[a].prev]
NextPassengers(h) == [a \in PassengerAddr |-> h.person[a].next]

Has(s, a) == \E i \in 1..Len(s) : s[i] = a

(* The flights that are allocated form the list L, in both directions. *)
FlightList(h, L) ==
  /\ L \in Seq(FlightAddr) /\ Distinct(L)
  /\ Chain(NextFlights(h), h.head, L)
  /\ \A i \in 1..Len(L) : h.flight[L[i]].prev = At(L, i - 1)
  /\ h.tail = At(L, Len(L)) /\ h.count = Len(L)
  /\ \A a \in FlightAddr : h.flight[a] # NoFlight <=> Has(L, a)
  /\ \A i \in 1..Len(L) : h.flight[L[i]].id # ""

(* s are the passengers of flight f, in the order of their seats. *)
SeatList(h, f, s) ==
  /\ Chain(NextPassengers(h), h.flight[f].passengers, s)
  /\ \A i \in 1..Len(s) : h.person[s[i]].seat \in 1..h.flight[f].seats
  /\ \A i, j \in 1..Len(s) : i < j => h.person[s[i]].seat < h.person[s[j]].seat

(* G are the passengers of each flight.  Who is allocated is in one of     *)
(* these lists, or one of the loose ones that are being moved.             *)
SeatLists(h, G, loose) ==
  /\ G \in [FlightAddr -> Seq(PassengerAddr)]
  /\ \A f \in FlightAddr : SeatList(h, f, G[f])
  /\ \A f, g \in FlightAddr : f # g => \A p \in PassengerAddr : ~(Has(G[f], p) /\ Has(G[g], p))
  /\ \A f \in FlightAddr, p \in loose : ~Has(G[f], p)
  /\ \A p \in PassengerAddr : h.person[p] # NoPassenger <=> p \in loose \/ \E f \in FlightAddr : Has(G[f], p)

Shape(h, L, G) == h \in Heap /\ FlightList(h, L) /\ SeatLists(h, G, {})

LEMMA Addresses ==
  /\ FlightAddr = 1..FlightNodes /\ PassengerAddr = 1..PassengerNodes
  /\ FlightNodes \in Nat /\ PassengerNodes \in Nat
  /\ Nil \notin FlightAddr /\ Nil \notin PassengerAddr /\ Nil = 0
BY HeapAssumption DEF FlightAddr, PassengerAddr, Nil

LEMMA NoNodes == NoFlight \in FlightNode /\ NoPassenger \in PassengerNode
BY DEF NoFlight, NoPassenger, FlightNode, PassengerNode

(* Nobody is twice in a list of seats. *)
LEMMA SeatsDistinct ==
  ASSUME NEW h \in Heap, NEW f \in FlightAddr, NEW s \in Seq(PassengerAddr), SeatList(h, f, s)
  PROVE  Distinct(s)
<1> SUFFICES ASSUME NEW i \in 1..Len(s), NEW j \in 1..Len(s), s[i] = s[j], i # j PROVE FALSE
  BY DEF Distinct
<1>1. Len(s) \in Nat
  BY LenProperties
<1>2. s[i] \in PassengerAddr /\ h.person[s[i]].seat \in Int
  BY ElementOfSeq DEF Heap, PassengerNode
<1>3. i < j \/ j < i
  BY <1>1
<1> QED
  BY <1>2, <1>3 DEF SeatList

(* The lists are the ones the operators of the model walk. *)
LEMMA FlightsAre ==
  ASSUME NEW h \in Heap, NEW L, FlightList(h, L)
  PROVE  FlightsOf(h) = L
<1>1. DOMAIN NextFlights(h) = 1..FlightNodes /\ FlightsOf(h) = Walk(NextFlights(h), h.head)
  BY Addresses DEF NextFlights, FlightsOf
<1>2. L \in Seq(1..FlightNodes) /\ Distinct(L) /\ Chain(NextFlights(h), h.head, L)
  BY Addresses DEF FlightList
<1> QED
  BY <1>1, <1>2, Addresses, WalkIs

LEMMA PassengersAre ==
  ASSUME NEW h \in Heap, NEW f \in FlightAddr, NEW s \in Seq(PassengerAddr), SeatList(h, f, s)
  PROVE  PassengersOf(h, f) = s
<1> DEFINE next == NextPassengers(h)
<1>1. DOMAIN next = 1..PassengerNodes /\ PassengersOf(h, f) = Walk(next, h.flight[f].passengers)
  BY Addresses DEF NextPassengers, PassengersOf, PassengersFrom
<1>2. s \in Seq(1..PassengerNodes) /\ Distinct(s) /\ Chain(next, h.flight[f].passengers, s)
  BY Addresses, SeatsDistinct DEF SeatList
<1> HIDE DEF next
<1> QED
  BY <1>1, <1>2, Addresses, WalkIs

(* The flight of an id is in the list, if the list has one. *)
LEMMA FlightFound ==
  ASSUME NEW h \in Heap, NEW L, FlightList(h, L), NEW id
  PROVE  LET f == FindFlight(h, id)
         IN \/ f = Nil /\ \A i \in 1..Len(L) : h.flight[L[i]].id # id
            \/ f \in FlightAddr /\ Has(L, f) /\ h.flight[f].id = id
<1> DEFINE wanted == {a \in FlightAddr : h.flight[a].id = id}
<1>1. DOMAIN NextFlights(h) = 1..FlightNodes /\ FindFlight(h, id) = Find(NextFlights(h), h.head, wanted)
  BY Addresses DEF NextFlights, FindFlight
<1>2. L \in Seq(1..FlightNodes) /\ Distinct(L) /\ Chain(NextFlights(h), h.head, L)
  BY Addresses DEF FlightList
<1> DEFINE r == Find(NextFlights(h), h.head, wanted)
<1>3. \/ r = Nil /\ \A i \in 1..Len(L) : L[i] \notin wanted
      \/ \E k \in 1..Len(L) : r = L[k] /\ L[k] \in wanted
  <2> HIDE DEF wanted
  <2> QED
    BY <1>1, <1>2, Addresses, FindIs
<1>4. \A i \in 1..Len(L) : L[i] \in FlightAddr
  BY ElementOfSeq DEF FlightList
<1> QED
  BY <1>1, <1>3, <1>4 DEF Has

LEMMA SeatFound ==
  ASSUME NEW h \in Heap, NEW f \in FlightAddr, NEW s \in Seq(PassengerAddr), SeatList(h, f, s), NEW seat
  PROVE  LET p == FindSeat(h, f, seat)
         IN \/ p = Nil /\ \A i \in 1..Len(s) : h.person[s[i]].seat # seat
            \/ p \in PassengerAddr /\ Has(s, p) /\ h.person[p].seat = seat
<1> DEFINE wanted == {a \in PassengerAddr : h.person[a].seat = seat}
           next == NextPassengers(h)
           r == Find(next, h.flight[f].passengers, wanted)
<1>1. DOMAIN next = 1..PassengerNodes /\ FindSeat(h, f, seat) = r
  BY Addresses DEF NextPassengers, FindSeat
<1>2. s \in Seq(1..PassengerNodes) /\ Distinct(s) /\ Chain(next, h.flight[f].passengers, s)
  BY Addresses, SeatsDistinct DEF SeatList
<1>3. \/ r = Nil /\ \A i \in 1..Len(s) : s[i] \notin wanted
      \/ \E k \in 1..Len(s) : r = s[k] /\ s[k] \in wanted
  <2> HIDE DEF wanted, next
  <2> QED
    BY <1>1, <1>2, Addresses, FindIs
<1>4. \A i \in 1..Len(s) : s[i] \in PassengerAddr
  BY ElementOfSeq
<1> QED
  BY <1>1, <1>3, <1>4 DEF Has

-----------------------------------------------------------------------------
(* add_flight *)

LEMMA AppendAt ==
  ASSUME NEW S, NEW s \in Seq(S), NEW a \in S
  PROVE  /\ Append(s, a) \in Seq(S) /\ Len(Append(s, a)) = Len(s) + 1
         /\ \A i \in Int : At(Append(s, a), i) = IF i = Len(s) + 1 THEN a ELSE At(s, i)
         /\ \A i \in 1..(Len(s) + 1) : Append(s, a)[i] = IF i = Len(s) + 1 THEN a ELSE s[i]
         /\ \A b : Has(Append(s, a), b) <=> Has(s, b) \/ b = a
<1>1. Len(s) \in Nat
  BY LenProperties
<1>2. /\ Append(s, a) \in Seq(S) /\ Len(Append(s, a)) = Len(s) + 1
      /\ \A i \in 1..Len(s) : Append(s, a)[i] = s[i]
      /\ Append(s, a)[Len(s) + 1] = a
  BY AppendProperties
<1> DEFINE t == Append(s, a)
<1> HIDE DEF t
<1>3. \A i \in 1..(Len(s) + 1) : t[i] = IF i = Len(s) + 1 THEN a ELSE s[i]
  BY <1>1, <1>2 DEF t
<1>4. \A i \in Int : At(t, i) = IF i = Len(s) + 1 THEN a ELSE At(s, i)
  BY <1>1, <1>2 DEF At, t
<1>5. \A b : Has(t, b) <=> Has(s, b) \/ b = a
  <2>1. ASSUME NEW b, Has(s, b) PROVE Has(t, b)
    BY <1>1, <1>2, <2>1 DEF Has, t
  <2>2. Has(t, a)
    BY <1>1, <1>2 DEF Has, t
  <2>3. ASSUME NEW b, Has(t, b), b # a PROVE Has(s, b)
    <3>1. PICK i \in 1..(Len(s) + 1) : t[i] = b
      BY <1>2, <2>3 DEF Has, t
    <3>2. i \in 1..Len(s) /\ s[i] = b
      BY <1>1, <1>3, <2>3, <3>1
    <3> QED
      BY <3>2 DEF Has
  <2> QED
    BY <2>1, <2>2, <2>3
<1> QED
  BY <1>2, <1>3, <1>4, <1>5 DEF t

(* Writing one field of a memory or of a node. *)
LEMMA HeapWrite ==
  ASSUME NEW h \in Heap
  PROVE  /\ \A v \in [FlightAddr -> FlightNode] : [h EXCEPT !.flight = v] \in Heap
         /\ \A v \in [PassengerAddr -> PassengerNode] : [h EXCEPT !.person = v] \in Heap
         /\ \A v \in FlightAddr \cup {Nil} : [h EXCEPT !.head = v] \in Heap /\ [h EXCEPT !.tail = v] \in Heap
         /\ \A v \in Int : [h EXCEPT !.count = v] \in Heap
         /\ [h EXCEPT !.failed = TRUE] \in Heap
<1>1. \A v \in [FlightAddr -> FlightNode] : [h EXCEPT !.flight = v] \in Heap
  BY DEF Heap
<1>2. \A v \in [PassengerAddr -> PassengerNode] : [h EXCEPT !.person = v] \in Heap
  BY DEF Heap
<1>3. \A v \in FlightAddr \cup {Nil} : [h EXCEPT !.head = v] \in Heap
  BY DEF Heap
<1>4. \A v \in FlightAddr \cup {Nil} : [h EXCEPT !.tail = v] \in Heap
  BY DEF Heap
<1>5. \A v \in Int : [h EXCEPT !.count = v] \in Heap
  BY DEF Heap
<1>6. [h EXCEPT !.failed = TRUE] \in Heap
  BY DEF Heap
<1> QED
  BY <1>1, <1>2, <1>3, <1>4, <1>5, <1>6

LEMMA FlightWrite ==
  ASSUME NEW n \in FlightNode
  PROVE  /\ \A v \in KnownIds : [n EXCEPT !.id = v] \in FlightNode
         /\ \A v \in KnownPlaces : [n EXCEPT !.to = v] \in FlightNode
         /\ \A v \in Int : [n EXCEPT !.seats = v] \in FlightNode
         /\ \A v \in PassengerAddr \cup {Nil} : [n EXCEPT !.passengers = v] \in FlightNode
         /\ \A v \in FlightAddr \cup {Nil} : [n EXCEPT !.prev = v] \in FlightNode
         /\ \A v \in FlightAddr \cup {Nil} : [n EXCEPT !.next = v] \in FlightNode
<1>1. \A v \in KnownIds : [n EXCEPT !.id = v] \in FlightNode
  BY DEF FlightNode
<1>2. \A v \in KnownPlaces : [n EXCEPT !.to = v] \in FlightNode
  BY DEF FlightNode
<1>3. \A v \in Int : [n EXCEPT !.seats = v] \in FlightNode
  BY DEF FlightNode
<1>4. \A v \in PassengerAddr \cup {Nil} : [n EXCEPT !.passengers = v] \in FlightNode
  BY DEF FlightNode
<1>5. \A v \in FlightAddr \cup {Nil} : [n EXCEPT !.prev = v] \in FlightNode
  BY DEF FlightNode
<1>6. \A v \in FlightAddr \cup {Nil} : [n EXCEPT !.next = v] \in FlightNode
  BY DEF FlightNode
<1> QED
  BY <1>1, <1>2, <1>3, <1>4, <1>5, <1>6

LEMMA PassengerWrite ==
  ASSUME NEW n \in PassengerNode
  PROVE  /\ \A v \in Int : [n EXCEPT !.seat = v] \in PassengerNode
         /\ \A v \in PassengerAddr \cup {Nil} : [n EXCEPT !.next = v] \in PassengerNode
<1>1. \A v \in Int : [n EXCEPT !.seat = v] \in PassengerNode
  BY DEF PassengerNode
<1>2. \A v \in PassengerAddr \cup {Nil} : [n EXCEPT !.next = v] \in PassengerNode
  BY DEF PassengerNode
<1> QED
  BY <1>1, <1>2

(* What add_flight does with a node a that malloc gives it. *)
Placed(h, r, a, id, to, seats) ==
  /\ r \in Heap
  /\ r.person = h.person /\ r.failed = h.failed /\ r.count = h.count + 1
  /\ r.head = (IF h.head = Nil THEN a ELSE h.head) /\ r.tail = a
  /\ r.flight[a].id = id /\ r.flight[a].seats = seats /\ r.flight[a].passengers = Nil
  /\ r.flight[a].prev = h.tail /\ r.flight[a].next = Nil
  /\ \A b \in FlightAddr \ {a} :
       r.flight[b] = IF b = h.tail THEN [h.flight[b] EXCEPT !.next = a] ELSE h.flight[b]

NewNode(id, to, seats) == [NoFlight EXCEPT !.id = id, !.to = to, !.seats = seats]

LEMMA NewFlight ==
  ASSUME NEW id \in KnownIds, NEW to \in KnownPlaces, NEW seats \in Int
  PROVE  LET node == NewNode(id, to, seats)
         IN /\ node \in FlightNode /\ node.id = id /\ node.seats = seats
            /\ node.passengers = Nil /\ node.prev = Nil /\ node.next = Nil
<1> DEFINE n1   == [NoFlight EXCEPT !.id = id]
           n2   == [n1 EXCEPT !.to = to]
           node == NewNode(id, to, seats)
<1>1. NoFlight \in FlightNode
  BY NoNodes
<1>2. node = [n2 EXCEPT !.seats = seats]
  BY <1>1 DEF FlightNode, NewNode
<1>3. n1 \in FlightNode
  BY <1>1, FlightWrite
<1> HIDE DEF n1
<1>4. n2 \in FlightNode
  BY <1>3, FlightWrite
<1> HIDE DEF n2
<1>5. node \in FlightNode
  BY <1>2, <1>4, FlightWrite
<1>6. NoFlight.passengers = Nil /\ NoFlight.prev = Nil /\ NoFlight.next = Nil
  BY DEF NoFlight
<1>7. node.id = id /\ node.seats = seats /\ node.passengers = Nil /\ node.prev = Nil /\ node.next = Nil
  BY <1>1, <1>6 DEF FlightNode, NewNode
<1> QED
  BY <1>5, <1>7

LEMMA AddFlightCases ==
  ASSUME NEW h \in Heap, NEW id \in KnownIds, NEW to \in KnownPlaces, NEW seats \in Int,
         h.head = Nil <=> h.tail = Nil
  PROVE  LET r == add_flight(h, id, to, seats)
         IN \/ r = h /\ (h.failed \/ FindFlight(h, id) # Nil)
            \/ r = OutOfMemory(h)
            \/ \E a \in FlightAddr : h.flight[a] = NoFlight /\ Placed(h, r, a, id, to, seats)
<1> DEFINE fresh == {a \in FlightAddr : h.flight[a] = NoFlight}
           a     == Min(fresh)
           node  == NewNode(id, to, seats)
           r     == add_flight(h, id, to, seats)
<1>1. CASE h.failed \/ FindFlight(h, id) # Nil
  BY <1>1 DEF add_flight
<1>2. CASE ~(h.failed \/ FindFlight(h, id) # Nil) /\ fresh = {}
  BY <1>2 DEF add_flight
<1>3. CASE ~(h.failed \/ FindFlight(h, id) # Nil) /\ fresh # {}
  <2>1. a \in fresh
    <3>1. fresh \subseteq Nat
      BY Addresses
    <3> QED
      BY <1>3, <3>1, MinIs
  <2>2. a \in FlightAddr /\ h.flight[a] = NoFlight
    BY <2>1
  <2>4. r = IF h.head = Nil
            THEN [h EXCEPT !.flight[a] = node, !.head = a, !.tail = a, !.count = @ + 1]
            ELSE [h EXCEPT !.flight[h.tail].next = a, !.flight[a] = [node EXCEPT !.prev = h.tail],
                           !.tail = a, !.count = @ + 1]
    BY <1>3 DEF add_flight, NewNode
  <2>0. h.count + 1 \in Int /\ h.flight \in [FlightAddr -> FlightNode]
    BY DEF Heap
  <2> HIDE DEF a, r
  <2>5. CASE h.head = Nil
    <3> DEFINE fl == [h.flight EXCEPT ![a] = node]
               h1 == [h EXCEPT !.flight = fl]
               h2 == [h1 EXCEPT !.head = a]
               h3 == [h2 EXCEPT !.tail = a]
    <3>1. r = [h EXCEPT !.flight[a] = node, !.head = a, !.tail = a, !.count = @ + 1]
      BY <2>4, <2>5
    <3>2. node \in FlightNode /\ node.id = id /\ node.seats = seats /\ node.passengers = Nil /\ node.prev = Nil /\ node.next = Nil
      BY NewFlight
    <3> HIDE DEF node
    <3>3. r = [h3 EXCEPT !.count = h.count + 1]
      BY <3>1 DEF Heap
    <3>4. /\ r.person = h.person /\ r.failed = h.failed /\ r.count = h.count + 1
          /\ r.head = a /\ r.tail = a /\ r.flight = fl
      BY <3>1 DEF Heap
    <3>5. fl \in [FlightAddr -> FlightNode] /\ fl[a] = node /\ \A b \in FlightAddr \ {a} : fl[b] = h.flight[b]
      BY <2>0, <2>2, <3>2
    <3> HIDE DEF fl
    <3>6. h1 \in Heap
      BY <3>5, HeapWrite
    <3> HIDE DEF h1
    <3>7. h2 \in Heap
      BY <2>2, <3>6, HeapWrite
    <3> HIDE DEF h2
    <3>8. h3 \in Heap
      BY <2>2, <3>7, HeapWrite
    <3> HIDE DEF h3
    <3>9. r \in Heap
      BY <2>0, <3>3, <3>8, HeapWrite
    <3>10. h.tail = Nil /\ h.tail \notin FlightAddr
      BY <2>5, Addresses
    <3>11. Placed(h, r, a, id, to, seats)
      BY <2>2, <2>5, <3>2, <3>4, <3>5, <3>9, <3>10 DEF Placed
    <3> QED
      BY <2>2, <3>11 DEF r
  <2>6. CASE h.head # Nil
    <3>1. h.tail \in FlightAddr /\ h.tail # Nil
      BY <2>6 DEF Heap
    <3> DEFINE t == h.tail
               last == [h.flight[t] EXCEPT !.next = a]
               new == [node EXCEPT !.prev = t]
               f1 == [h.flight EXCEPT ![t] = last]
               fl == [f1 EXCEPT ![a] = new]
               h1 == [h EXCEPT !.flight = fl]
               h2 == [h1 EXCEPT !.tail = a]
    <3>2. r = [h EXCEPT !.flight[t].next = a, !.flight[a] = new, !.tail = a, !.count = @ + 1]
      BY <2>4, <2>6
    <3>3. /\ new \in FlightNode /\ new.id = id /\ new.seats = seats
          /\ new.passengers = Nil /\ new.prev = t /\ new.next = Nil
      <4>1. node \in FlightNode /\ node.id = id /\ node.seats = seats /\ node.passengers = Nil /\ node.next = Nil
        BY NewFlight
      <4> HIDE DEF node
      <4>2. new \in FlightNode
        BY <3>1, <4>1, FlightWrite
      <4> QED
        BY <4>1, <4>2 DEF FlightNode
    <3> HIDE DEF new
    <3>4. r = [h2 EXCEPT !.count = h.count + 1]
      BY <3>1, <3>2 DEF Heap
    <3>5. /\ r.person = h.person /\ r.failed = h.failed /\ r.count = h.count + 1
          /\ r.head = h.head /\ r.tail = a /\ r.flight = fl
      BY <3>1, <3>2 DEF Heap
    <3>6. last \in FlightNode
      BY <2>0, <2>2, <3>1, FlightWrite
    <3> HIDE DEF last
    <3>7. /\ fl \in [FlightAddr -> FlightNode] /\ fl[a] = new
          /\ \A b \in FlightAddr \ {a} : fl[b] = IF b = t THEN last ELSE h.flight[b]
      BY <2>0, <2>2, <3>1, <3>3, <3>6
    <3> HIDE DEF fl
    <3>8. h1 \in Heap
      BY <3>7, HeapWrite
    <3> HIDE DEF h1
    <3>9. h2 \in Heap
      BY <2>2, <3>8, HeapWrite
    <3> HIDE DEF h2
    <3>10. r \in Heap
      BY <2>0, <3>4, <3>9, HeapWrite
    <3>11. \A b \in FlightAddr \ {a} : fl[b] = IF b = t THEN [h.flight[b] EXCEPT !.next = a] ELSE h.flight[b]
      BY <3>7 DEF last
    <3> HIDE DEF t
    <3>12. Placed(h, r, a, id, to, seats)
      BY <2>6, <3>3, <3>5, <3>7, <3>10, <3>11 DEF Placed, t
    <3> QED
      BY <2>2, <3>12 DEF r
  <2> QED
    BY <2>5, <2>6 DEF r
<1> QED
  BY <1>1, <1>2, <1>3

(* What the lists do not depend on. *)
LEMMA SeatsKept ==
  ASSUME NEW h, NEW r, NEW G, NEW loose, SeatLists(h, G, loose), r.person = h.person,
         \A f \in FlightAddr : \/ r.flight[f].passengers = h.flight[f].passengers /\ r.flight[f].seats = h.flight[f].seats
                               \/ r.flight[f].passengers = Nil /\ G[f] = <<>>
  PROVE  SeatLists(r, G, loose)
<1>1. ASSUME NEW f \in FlightAddr
      PROVE  SeatList(r, f, G[f])
  <2>1. SeatList(h, f, G[f])
    BY DEF SeatLists
  <2>2. CASE r.flight[f].passengers = h.flight[f].passengers /\ r.flight[f].seats = h.flight[f].seats
    BY <2>1, <2>2 DEF SeatList, NextPassengers
  <2>3. CASE r.flight[f].passengers = Nil /\ G[f] = <<>>
    <3>1. At(G[f], 1) = Nil /\ 1..Len(G[f]) = {}
      BY <2>3 DEF At
    <3> QED
      BY <2>3, <3>1 DEF SeatList, Chain
  <2> QED
    BY <2>2, <2>3
<1> QED
  BY <1>1 DEF SeatLists

LEMMA OutOfMemoryShape ==
  ASSUME NEW h, NEW L, NEW G, Shape(h, L, G)
  PROVE  /\ Shape(OutOfMemory(h), L, G) /\ OutOfMemory(h).failed
         /\ \A x : FindFlight(OutOfMemory(h), x) = FindFlight(h, x)
<1> DEFINE r == OutOfMemory(h)
<1>1. /\ r \in Heap /\ r.flight = h.flight /\ r.person = h.person /\ r.head = h.head
      /\ r.tail = h.tail /\ r.count = h.count /\ r.failed
  <2>1. h \in Heap
    BY DEF Shape
  <2>2. r \in Heap
    BY <2>1, HeapWrite DEF OutOfMemory
  <2> QED
    BY <2>1, <2>2 DEF OutOfMemory, Heap
<1> HIDE DEF r
<1>2. FlightList(r, L)
  BY <1>1 DEF Shape, FlightList, NextFlights
<1>3. SeatLists(r, G, {})
  BY <1>1, SeatsKept DEF Shape
<1> QED
  BY <1>1, <1>2, <1>3 DEF Shape, r, FindFlight

LEMMA FlightsElements ==
  ASSUME NEW h \in Heap, NEW L, FlightList(h, L)
  PROVE  /\ L \in Seq(FlightAddr) /\ Len(L) \in Nat
         /\ \A i \in 1..Len(L) : L[i] \in FlightAddr /\ L[i] # Nil /\ Has(L, L[i])
         /\ \A i \in Int : At(L, i) \in FlightAddr \cup {Nil} /\ (At(L, i) = Nil <=> i \notin 1..Len(L))
         /\ h.head = Nil <=> Len(L) = 0
         /\ h.tail = Nil <=> Len(L) = 0
<1>1. L \in Seq(FlightAddr) /\ Len(L) \in Nat
  BY LenProperties DEF FlightList
<1>2. \A i \in 1..Len(L) : L[i] \in FlightAddr /\ L[i] # Nil /\ Has(L, L[i])
  BY <1>1, ElementOfSeq, Addresses DEF Has
<1>3. \A i \in Int : At(L, i) \in FlightAddr \cup {Nil} /\ (At(L, i) = Nil <=> i \notin 1..Len(L))
  BY <1>2 DEF At
<1>4. h.head = At(L, 1) /\ h.tail = At(L, Len(L))
  BY DEF FlightList, Chain
<1> QED
  BY <1>1, <1>2, <1>3, <1>4

LEMMA NamesDiffer == "" \notin KnownIds
<1>1. \A i \in DOMAIN SampleFlights : SampleFlights[i].id \in STRING \ {""}
  <2>1. SampleFlights \in Seq([id : STRING \ {""}, to : STRING, seats : Int])
    BY SampleAssumption
  <2>2. DOMAIN SampleFlights = 1..Len(SampleFlights)
    BY <2>1, LenProperties
  <2>3. \A i \in 1..Len(SampleFlights) : SampleFlights[i] \in [id : STRING \ {""}, to : STRING, seats : Int]
    BY <2>1, ElementOfSeq
  <2> QED
    BY <2>2, <2>3
<1>2. "" \notin Ids
  BY InputAssumption
<1> QED
  BY <1>1, <1>2 DEF KnownIds

(* A new flight goes to the end of the list. *)
LEMMA PlacedShape ==
  ASSUME NEW h, NEW L, NEW G, Shape(h, L, G), NEW r, NEW a \in FlightAddr, h.flight[a] = NoFlight,
         NEW id \in KnownIds, NEW to, NEW seats, Placed(h, r, a, id, to, seats)
  PROVE  Shape(r, Append(L, a), G)
<1> DEFINE K == Append(L, a)
<1>1. h \in Heap /\ r \in Heap /\ FlightList(h, L) /\ SeatLists(h, G, {}) /\ ~Has(L, a)
  BY DEF Shape, Placed, FlightList
<1>2. /\ Len(L) \in Nat /\ L \in Seq(FlightAddr)
      /\ \A i \in 1..Len(L) : L[i] \in FlightAddr /\ L[i] # Nil /\ L[i] # a
      /\ h.head = Nil <=> Len(L) = 0
  BY <1>1, FlightsElements
<1>3. /\ K \in Seq(FlightAddr) /\ Len(K) = Len(L) + 1
      /\ \A i \in Int : At(K, i) = IF i = Len(L) + 1 THEN a ELSE At(L, i)
      /\ \A i \in 1..(Len(L) + 1) : K[i] = IF i = Len(L) + 1 THEN a ELSE L[i]
      /\ \A b : Has(K, b) <=> Has(L, b) \/ b = a
  BY <1>2, AppendAt
<1> HIDE DEF K
<1>4. Distinct(K)
  <2> SUFFICES ASSUME NEW i \in 1..(Len(L) + 1), NEW j \in 1..(Len(L) + 1), K[i] = K[j] PROVE i = j
    BY <1>3 DEF Distinct
  <2>1. (i = Len(L) + 1 \/ i \in 1..Len(L)) /\ (j = Len(L) + 1 \/ j \in 1..Len(L))
    BY <1>2
  <2>2. Distinct(L)
    BY <1>1 DEF FlightList
  <2> QED
    BY <1>2, <1>3, <2>1, <2>2 DEF Distinct
<1>5. r.head = At(K, 1)
  <2>1. h.head = At(L, 1) /\ r.head = (IF h.head = Nil THEN a ELSE h.head)
    BY <1>1 DEF FlightList, Chain, Placed
  <2> QED
    BY <1>2, <1>3, <2>1
<1>6. ASSUME NEW i \in 1..Len(L)
      PROVE  /\ r.flight[L[i]].next = At(K, i + 1)
             /\ r.flight[L[i]].prev = h.flight[L[i]].prev /\ r.flight[L[i]].id = h.flight[L[i]].id
  <2>1. h.tail = L[Len(L)] /\ h.flight[L[i]].next = At(L, i + 1) /\ h.flight[L[i]] \in FlightNode
    <3>1. h.tail = At(L, Len(L)) /\ NextFlights(h)[L[i]] = At(L, i + 1)
      BY <1>1 DEF FlightList, Chain
    <3>2. NextFlights(h)[L[i]] = h.flight[L[i]].next /\ h.flight[L[i]] \in FlightNode
      BY <1>1, <1>2 DEF NextFlights, Heap
    <3>3. Len(L) \in 1..Len(L)
      BY <1>2
    <3> QED
      BY <3>1, <3>2, <3>3 DEF At
  <2>2. r.flight[L[i]] = IF L[i] = h.tail THEN [h.flight[L[i]] EXCEPT !.next = a] ELSE h.flight[L[i]]
    BY <1>2 DEF Placed
  <2>3. L[i] = h.tail <=> i = Len(L)
    <3>1. Len(L) \in 1..Len(L)
      BY <1>2
    <3>2. Distinct(L)
      BY <1>1 DEF FlightList
    <3> QED
      BY <2>1, <3>1, <3>2 DEF Distinct
  <2>4. r.flight[L[i]].next = IF i = Len(L) THEN a ELSE At(L, i + 1)
    BY <2>1, <2>2, <2>3 DEF FlightNode
  <2>5. r.flight[L[i]].prev = h.flight[L[i]].prev /\ r.flight[L[i]].id = h.flight[L[i]].id
    BY <2>1, <2>2 DEF FlightNode
  <2> QED
    BY <1>2, <1>3, <2>4, <2>5
<1>7. \A i \in 1..Len(K) : NextFlights(r)[K[i]] = At(K, i + 1)
  <2> SUFFICES ASSUME NEW i \in 1..Len(K) PROVE NextFlights(r)[K[i]] = At(K, i + 1)
    OBVIOUS
  <2>1. CASE i = Len(L) + 1
    <3>1. K[i] = a /\ r.flight[a].next = Nil /\ At(K, i + 1) = Nil
      BY <1>2, <1>3, <2>1 DEF Placed, At
    <3> QED
      BY <3>1 DEF NextFlights
  <2>2. CASE i # Len(L) + 1
    <3>1. i \in 1..Len(L) /\ K[i] = L[i] /\ L[i] \in FlightAddr
      BY <1>2, <1>3, <2>2
    <3> QED
      BY <1>6, <3>1 DEF NextFlights
  <2> QED
    BY <2>1, <2>2
<1>8. \A i \in 1..Len(K) : r.flight[K[i]].prev = At(K, i - 1) /\ r.flight[K[i]].id # ""
  <2> SUFFICES ASSUME NEW i \in 1..Len(K) PROVE r.flight[K[i]].prev = At(K, i - 1) /\ r.flight[K[i]].id # ""
    OBVIOUS
  <2>1. CASE i = Len(L) + 1
    <3>1. K[i] = a /\ r.flight[a].prev = h.tail /\ r.flight[a].id = id /\ At(K, i - 1) = At(L, Len(L))
      BY <1>2, <1>3, <2>1 DEF Placed
    <3>2. h.tail = At(L, Len(L)) /\ id # ""
      BY <1>1, NamesDiffer DEF FlightList
    <3> QED
      BY <3>1, <3>2
  <2>2. CASE i # Len(L) + 1
    <3>1. i \in 1..Len(L) /\ K[i] = L[i] /\ L[i] \in FlightAddr /\ At(K, i - 1) = At(L, i - 1)
      BY <1>2, <1>3, <2>2
    <3>2. h.flight[L[i]].prev = At(L, i - 1) /\ h.flight[L[i]].id # ""
      BY <1>1, <3>1 DEF FlightList
    <3> QED
      BY <1>6, <3>1, <3>2
  <2> QED
    BY <2>1, <2>2
<1>9. r.tail = At(K, Len(K)) /\ r.count = Len(K)
  <2>1. Len(L) + 1 \in Int /\ At(K, Len(L) + 1) = a
    BY <1>2, <1>3
  <2> QED
    BY <1>1, <1>3, <2>1 DEF FlightList, Placed
<1>10. \A b \in FlightAddr : r.flight[b] # NoFlight <=> Has(K, b)
  <2> SUFFICES ASSUME NEW b \in FlightAddr PROVE r.flight[b] # NoFlight <=> Has(K, b)
    OBVIOUS
  <2>1. CASE b = a
    <3>1. r.flight[a].id # NoFlight.id
      BY NamesDiffer DEF Placed, NoFlight
    <3> QED
      BY <1>3, <2>1, <3>1
  <2>2. CASE b # a /\ b = h.tail
    <3>1. Len(L) \in 1..Len(L) /\ b = L[Len(L)] /\ Has(L, b)
      BY <1>1, <1>2, <2>2, Addresses DEF FlightList, At, Has
    <3>2. r.flight[b].id # NoFlight.id
      BY <1>1, <1>6, <3>1 DEF FlightList, NoFlight
    <3> QED
      BY <1>3, <3>1, <3>2
  <2>3. CASE b # a /\ b # h.tail
    <3>1. r.flight[b] = h.flight[b]
      BY <2>3 DEF Placed
    <3> QED
      BY <1>1, <1>3, <2>3, <3>1 DEF FlightList
  <2> QED
    BY <2>1, <2>2, <2>3
<1>11. FlightList(r, K)
  BY <1>3, <1>4, <1>5, <1>7, <1>8, <1>9, <1>10 DEF FlightList, Chain
<1>12. SeatLists(r, G, {})
  <2>1. ASSUME NEW f \in FlightAddr
        PROVE  \/ r.flight[f].passengers = h.flight[f].passengers /\ r.flight[f].seats = h.flight[f].seats
               \/ r.flight[f].passengers = Nil /\ G[f] = <<>>
    <3>1. CASE f = a
      <4>1. h.flight[a].passengers = At(G[a], 1) /\ h.flight[a].passengers = Nil /\ G[a] \in Seq(PassengerAddr)
        <5>1. SeatList(h, a, G[a]) /\ G[a] \in Seq(PassengerAddr)
        BY <1>1 DEF SeatLists
      <5>2. h.flight[a].passengers = At(G[a], 1)
        BY <5>1 DEF SeatList, Chain
      <5>3. NoFlight.passengers = Nil
        BY DEF NoFlight
      <5> QED
        BY <5>1, <5>2, <5>3
      <4>2. G[a] = <<>>
        <5>1. Len(G[a]) \in Nat
          BY <4>1, LenProperties
        <5>2. 1 \in 1..Len(G[a]) => G[a][1] \in PassengerAddr
          BY <4>1, ElementOfSeq
        <5>3. Len(G[a]) = 0
          BY <4>1, <5>1, <5>2, Addresses DEF At
        <5> QED
          BY <4>1, <5>3, EmptySeq
      <4> QED
        BY <3>1, <4>2 DEF Placed
    <3>2. CASE f # a
      <4>1. r.flight[f] = h.flight[f] \/ r.flight[f] = [h.flight[f] EXCEPT !.next = a]
        BY <3>2 DEF Placed
      <4>2. h.flight[f] \in FlightNode
        BY <1>1 DEF Heap
      <4> QED
        BY <4>1, <4>2 DEF FlightNode
    <3> QED
      BY <3>1, <3>2
  <2> QED
    BY <1>1, <2>1, SeatsKept DEF Placed
<1> QED
  BY <1>1, <1>11, <1>12 DEF Shape, K

(* A flight is found if the list has one of that id. *)
LEMMA FlightKnown ==
  ASSUME NEW h \in Heap, NEW L, FlightList(h, L), NEW id
  PROVE  FindFlight(h, id) # Nil <=> \E b \in FlightAddr : Has(L, b) /\ h.flight[b].id = id
<1>1. \A i \in 1..Len(L) : L[i] \in FlightAddr
  BY FlightsElements
<1> DEFINE f == FindFlight(h, id)
<1>2. \/ f = Nil /\ \A i \in 1..Len(L) : h.flight[L[i]].id # id
      \/ f \in FlightAddr /\ Has(L, f) /\ h.flight[f].id = id
  BY FlightFound
<1> HIDE DEF f
<1>3. Nil \notin FlightAddr
  BY Addresses
<1>4. CASE f = Nil /\ \A i \in 1..Len(L) : h.flight[L[i]].id # id
  BY <1>4 DEF Has, f
<1>5. CASE f \in FlightAddr /\ Has(L, f) /\ h.flight[f].id = id
  BY <1>3, <1>5 DEF f
<1> QED
  BY <1>2, <1>4, <1>5

LEMMA AddFlightKeeps ==
  ASSUME NEW h, NEW L, NEW G, Shape(h, L, G),
         NEW id \in KnownIds, NEW to \in KnownPlaces, NEW seats \in Int
  PROVE  LET r == add_flight(h, id, to, seats)
         IN /\ \E K : Shape(r, K, G)
            /\ \A x : FindFlight(h, x) # Nil => FindFlight(r, x) # Nil
            /\ h.failed => r.failed
            /\ ~r.failed => FindFlight(r, id) # Nil
<1> DEFINE r == add_flight(h, id, to, seats)
<1>1. h \in Heap /\ FlightList(h, L) /\ (h.head = Nil <=> h.tail = Nil)
  BY FlightsElements DEF Shape
<1>2. \/ r = h /\ (h.failed \/ FindFlight(h, id) # Nil)
      \/ r = OutOfMemory(h)
      \/ \E a \in FlightAddr : h.flight[a] = NoFlight /\ Placed(h, r, a, id, to, seats)
  BY <1>1, AddFlightCases
<1> HIDE DEF r
<1>3. CASE r = h /\ (h.failed \/ FindFlight(h, id) # Nil)
  BY <1>3 DEF r
<1>4. CASE r = OutOfMemory(h)
  BY <1>4, OutOfMemoryShape DEF r
<1>5. ASSUME NEW a \in FlightAddr, h.flight[a] = NoFlight, Placed(h, r, a, id, to, seats)
      PROVE  /\ \E K : Shape(r, K, G)
             /\ \A x : FindFlight(h, x) # Nil => FindFlight(r, x) # Nil
             /\ h.failed => r.failed
             /\ ~r.failed => FindFlight(r, id) # Nil
  <2> DEFINE K == Append(L, a)
  <2>1. Shape(r, K, G)
    BY <1>5, PlacedShape
  <2>2. r \in Heap /\ FlightList(r, K) /\ \A b : Has(K, b) <=> Has(L, b) \/ b = a
    BY <1>1, <2>1, FlightsElements, AppendAt DEF Shape
  <2>3. ~Has(L, a)
    BY <1>1, <1>5 DEF FlightList
  <2> HIDE DEF K
  <2>4. FindFlight(r, id) # Nil
    BY <1>5, <2>2, FlightKnown DEF Placed
  <2>5. ASSUME NEW x, FindFlight(h, x) # Nil PROVE FindFlight(r, x) # Nil
    <3>1. PICK b \in FlightAddr : Has(L, b) /\ h.flight[b].id = x
      BY <1>1, <2>5, FlightKnown
    <3>2. r.flight[b] = h.flight[b] \/ r.flight[b] = [h.flight[b] EXCEPT !.next = a]
      BY <1>5, <2>3, <3>1 DEF Placed
    <3>3. h.flight[b] \in FlightNode
      BY <1>1 DEF Heap
    <3>4. r.flight[b].id = x
      BY <3>1, <3>2, <3>3 DEF FlightNode
    <3> QED
      BY <2>2, <3>1, <3>4, FlightKnown
  <2> QED
    BY <1>5, <2>1, <2>4, <2>5 DEF Placed
<1> QED
  BY <1>2, <1>3, <1>4, <1>5 DEF r

-----------------------------------------------------------------------------
(* Passengers into a list and out of it *)

(* s with p after its first k elements. *)
Inserted(s, k, p) == [i \in 1..(Len(s) + 1) |-> IF i <= k THEN s[i] ELSE IF i = k + 1 THEN p ELSE s[i - 1]]

(* s without its k-th element. *)
Removed(s, k) == [i \in 1..(Len(s) - 1) |-> IF i < k THEN s[i] ELSE s[i + 1]]

LEMMA InsertedIs ==
  ASSUME NEW S, NEW s \in Seq(S), NEW p \in S, NEW k \in 0..Len(s)
  PROVE  LET t == Inserted(s, k, p)
         IN /\ t \in Seq(S) /\ Len(t) = Len(s) + 1
            /\ \A i \in 1..Len(t) : t[i] = IF i <= k THEN s[i] ELSE IF i = k + 1 THEN p ELSE s[i - 1]
            /\ \A b : Has(t, b) <=> Has(s, b) \/ b = p
<1> DEFINE t == Inserted(s, k, p)
           V(i) == IF i <= k THEN s[i] ELSE IF i = k + 1 THEN p ELSE s[i - 1]
<1>1. Len(s) \in Nat /\ \A i \in 1..Len(s) : s[i] \in S
  BY LenProperties, ElementOfSeq
<1>2. t = [i \in 1..(Len(s) + 1) |-> V(i)]
  BY DEF Inserted
<1>3. \A i \in 1..(Len(s) + 1) : V(i) \in S
  BY <1>1
<1> HIDE DEF t
<1>4. \A i \in 1..(Len(s) + 1) : t[i] = V(i)
  <2> HIDE DEF V
  <2> QED
    BY <1>2
<1>5. t \in Seq(S) /\ Len(t) = Len(s) + 1
  <2> HIDE DEF V
  <2>1. t \in [1..(Len(s) + 1) -> S] /\ Len(s) + 1 \in Nat
    BY <1>1, <1>2, <1>3
  <2>2. t \in Seq(S)
    BY <2>1, IsASeq
  <2>3. DOMAIN t = 1..Len(t) /\ Len(t) \in Nat
    BY <2>2, LenProperties
  <2> QED
    BY <2>1, <2>2, <2>3
<1>6. ASSUME NEW b, Has(s, b) PROVE Has(t, b)
  <2>1. PICK i \in 1..Len(s) : s[i] = b
    BY <1>6 DEF Has
  <2>2. CASE i <= k
    BY <1>1, <1>4, <1>5, <2>1, <2>2 DEF Has
  <2>3. CASE ~(i <= k)
    <3>1. i + 1 \in 1..(Len(s) + 1) /\ ~(i + 1 <= k) /\ i + 1 # k + 1 /\ (i + 1) - 1 = i
      BY <1>1, <2>3
    <3>2. t[i + 1] = s[i]
      BY <1>4, <3>1
    <3> QED
      BY <1>5, <2>1, <3>1, <3>2 DEF Has
  <2> QED
    BY <2>2, <2>3
<1>7. Has(t, p)
  <2>1. k + 1 \in 1..(Len(s) + 1) /\ ~(k + 1 <= k)
    BY <1>1
  <2>2. t[k + 1] = p
    BY <1>4, <2>1
  <2> QED
    BY <1>5, <2>1, <2>2 DEF Has
<1>8. ASSUME NEW b, Has(t, b), b # p PROVE Has(s, b)
  <2>1. PICK i \in 1..(Len(s) + 1) : t[i] = b
    BY <1>5, <1>8 DEF Has
  <2>2. CASE i <= k
    <3>1. i \in 1..Len(s) /\ s[i] = b
      BY <1>1, <1>4, <2>1, <2>2
    <3> QED
      BY <3>1 DEF Has
  <2>3. CASE ~(i <= k)
    <3>1. i # k + 1
      BY <1>4, <1>8, <2>1, <2>3
    <3>2. i - 1 \in 1..Len(s)
      BY <1>1, <2>3, <3>1
    <3>3. s[i - 1] = b
      BY <1>4, <2>1, <2>3, <3>1
    <3> QED
      BY <3>2, <3>3 DEF Has
  <2> QED
    BY <2>2, <2>3
<1> QED
  BY <1>4, <1>5, <1>6, <1>7, <1>8 DEF t

LEMMA RemovedIs ==
  ASSUME NEW S, NEW s \in Seq(S), Distinct(s), NEW k \in 1..Len(s)
  PROVE  LET t == Removed(s, k)
         IN /\ t \in Seq(S) /\ Len(t) = Len(s) - 1
            /\ \A i \in 1..Len(t) : t[i] = IF i < k THEN s[i] ELSE s[i + 1]
            /\ Distinct(t)
            /\ \A b : Has(t, b) <=> Has(s, b) /\ b # s[k]
<1> DEFINE t == Removed(s, k)
           V(i) == IF i < k THEN s[i] ELSE s[i + 1]
<1>1. Len(s) \in Nat /\ \A i \in 1..Len(s) : s[i] \in S
  BY LenProperties, ElementOfSeq
<1>2. t = [i \in 1..(Len(s) - 1) |-> V(i)]
  BY DEF Removed
<1>3. \A i \in 1..(Len(s) - 1) : V(i) \in S
  BY <1>1
<1> HIDE DEF t
<1>4. \A i \in 1..(Len(s) - 1) : t[i] = V(i)
  <2> HIDE DEF V
  <2> QED
    BY <1>2
<1>5. t \in Seq(S) /\ Len(t) = Len(s) - 1
  <2> HIDE DEF V
  <2>1. t \in [1..(Len(s) - 1) -> S] /\ Len(s) - 1 \in Nat
    BY <1>1, <1>2, <1>3
  <2>2. t \in Seq(S)
    BY <2>1, IsASeq
  <2>3. DOMAIN t = 1..Len(t) /\ Len(t) \in Nat
    BY <2>2, LenProperties
  <2> QED
    BY <2>1, <2>2, <2>3
<1>6. Distinct(t)
  <2> SUFFICES ASSUME NEW i \in 1..(Len(s) - 1), NEW j \in 1..(Len(s) - 1), t[i] = t[j] PROVE i = j
    BY <1>5 DEF Distinct
  <2> DEFINE at(n) == IF n < k THEN n ELSE n + 1
  <2>1. at(i) \in 1..Len(s) /\ at(j) \in 1..Len(s) /\ t[i] = s[at(i)] /\ t[j] = s[at(j)]
    <3>1. at(i) \in 1..Len(s) /\ at(j) \in 1..Len(s)
      BY <1>1
    <3>2. t[i] = s[at(i)]
      BY <1>4
    <3>3. t[j] = s[at(j)]
      BY <1>4
    <3> QED
      BY <3>1, <3>2, <3>3
  <2>2. at(i) = at(j)
    <3> HIDE DEF at
    <3> QED
      BY <2>1 DEF Distinct
  <2> QED
    BY <1>1, <2>2
<1>7. ASSUME NEW b, Has(s, b), b # s[k] PROVE Has(t, b)
  <2>1. PICK i \in 1..Len(s) : s[i] = b
    BY <1>7 DEF Has
  <2>2. CASE i < k
    <3>1. i \in 1..(Len(s) - 1)
      BY <1>1, <2>2
    <3> QED
      BY <1>4, <1>5, <2>1, <2>2, <3>1 DEF Has
  <2>3. CASE ~(i < k)
    <3>1. i # k
      BY <1>7, <2>1
    <3>2. i - 1 \in 1..(Len(s) - 1) /\ ~(i - 1 < k) /\ (i - 1) + 1 = i
      BY <1>1, <2>3, <3>1
    <3>3. t[i - 1] = s[i]
      BY <1>4, <3>2
    <3> QED
      BY <1>5, <2>1, <3>2, <3>3 DEF Has
  <2> QED
    BY <2>2, <2>3
<1>8. ASSUME NEW b, Has(t, b) PROVE Has(s, b) /\ b # s[k]
  <2>1. PICK i \in 1..(Len(s) - 1) : t[i] = b
    BY <1>5, <1>8 DEF Has
  <2> DEFINE n == IF i < k THEN i ELSE i + 1
  <2>2. n \in 1..Len(s) /\ n # k /\ s[n] = b
    BY <1>1, <1>4, <2>1
  <2> HIDE DEF n
  <2> QED
    BY <2>2 DEF Has, Distinct
<1> QED
  BY <1>4, <1>5, <1>6, <1>7, <1>8 DEF t

LEMMA SeatListKept ==
  ASSUME NEW h, NEW r, NEW g, NEW s \in Seq(PassengerAddr), SeatList(h, g, s),
         r.flight[g].passengers = h.flight[g].passengers, r.flight[g].seats = h.flight[g].seats,
         \A i \in 1..Len(s) : r.person[s[i]] = h.person[s[i]]
  PROVE  SeatList(r, g, s)
<1>1. \A i \in 1..Len(s) : s[i] \in PassengerAddr
  BY ElementOfSeq
<1>2. Chain(NextPassengers(r), r.flight[g].passengers, s)
  BY <1>1 DEF SeatList, Chain, NextPassengers
<1> QED
  BY <1>2 DEF SeatList

LEMMA SeatsElements ==
  ASSUME NEW h \in Heap, NEW G, NEW loose, SeatLists(h, G, loose), NEW f \in FlightAddr
  PROVE  /\ G[f] \in Seq(PassengerAddr) /\ Len(G[f]) \in Nat /\ SeatList(h, f, G[f])
         /\ h.flight[f].passengers = At(G[f], 1) /\ h.flight[f].seats \in Int
         /\ \A i \in 1..Len(G[f]) :
              /\ G[f][i] \in PassengerAddr /\ G[f][i] # Nil /\ G[f][i] \notin loose /\ Has(G[f], G[f][i])
              /\ h.person[G[f][i]].next = At(G[f], i + 1)
              /\ h.person[G[f][i]].seat \in 1..h.flight[f].seats
         /\ \A i \in Int : At(G[f], i) \in PassengerAddr \cup {Nil} /\ (At(G[f], i) = Nil <=> i \notin 1..Len(G[f]))
         /\ Distinct(G[f])
<1> DEFINE s == G[f]
<1>1. s \in Seq(PassengerAddr) /\ SeatList(h, f, s)
  BY DEF SeatLists
<1>2. \A p \in loose : ~Has(s, p)
  BY DEF SeatLists
<1> HIDE DEF s
<1>3. Len(s) \in Nat /\ \A i \in 1..Len(s) : s[i] \in PassengerAddr
  BY <1>1, LenProperties, ElementOfSeq
<1>4. h.flight[f].passengers = At(s, 1) /\ \A i \in 1..Len(s) : NextPassengers(h)[s[i]] = At(s, i + 1)
  BY <1>1 DEF SeatList, Chain
<1>5. \A i \in 1..Len(s) : s[i] \notin loose /\ Has(s, s[i])
  BY <1>2 DEF Has
<1>6. \A i \in 1..Len(s) : /\ h.person[s[i]].next = At(s, i + 1)
                           /\ h.person[s[i]].seat \in 1..h.flight[f].seats
  BY <1>1, <1>3, <1>4 DEF NextPassengers, SeatList
<1>7. \A i \in Int : At(s, i) \in PassengerAddr \cup {Nil} /\ (At(s, i) = Nil <=> i \notin 1..Len(s))
  BY <1>3, Addresses DEF At
<1>8. h.flight[f].seats \in Int
  BY DEF Heap, FlightNode
<1>9. Distinct(s)
  BY <1>1, SeatsDistinct
<1> QED
  BY <1>1, <1>3, <1>4, <1>5, <1>6, <1>7, <1>8, <1>9, Addresses DEF s

(* Whoever is in a list or loose and has a seat is allocated. *)
LEMMA Seated ==
  ASSUME NEW h, NEW p, h.person[p].seat \in Int, 1 <= h.person[p].seat
  PROVE  h.person[p] # NoPassenger
<1>1. NoPassenger.seat = 0
  BY DEF NoPassenger
<1> QED
  BY <1>1

(* Passenger q has the same name and seat in both memories. *)
Same(h, r, q) == r.person[q].seat = h.person[q].seat /\ r.person[q].who = h.person[q].who

(* r is h with p put behind the first k passengers of flight f. *)
PutAt(h, r, f, s, k, p) ==
  /\ r.flight[f].passengers = IF k = 0 THEN p ELSE h.flight[f].passengers
  /\ r.flight[f].seats = h.flight[f].seats
  /\ \A b \in FlightAddr \ {f} : r.flight[b] = h.flight[b]
  /\ r.person[p].next = At(s, k + 1) /\ r.person[p].seat = h.person[p].seat
  /\ r.person[p].who = h.person[p].who
  /\ \A q \in PassengerAddr \ {p} :
       IF k > 0 /\ q = s[k] THEN r.person[q].next = p /\ Same(h, r, q) ELSE r.person[q] = h.person[q]

LEMMA PutKeeps ==
  ASSUME NEW h \in Heap, NEW r, NEW G, NEW f \in FlightAddr, NEW p \in PassengerAddr,
         SeatLists(h, G, {p}), h.person[p].seat \in 1..h.flight[f].seats,
         NEW k \in 0..Len(G[f]), PutAt(h, r, f, G[f], k, p),
         \A i \in 1..Len(G[f]) : IF i <= k THEN h.person[G[f][i]].seat < h.person[p].seat
                                           ELSE h.person[p].seat < h.person[G[f][i]].seat
  PROVE  SeatLists(r, [G EXCEPT ![f] = Inserted(G[f], k, p)], {})
<1> DEFINE s == G[f]
           t == Inserted(s, k, p)
           F == [G EXCEPT ![f] = t]
           seat(i) == h.person[s[i]].seat
           mine == h.person[p].seat
<1>1. /\ s \in Seq(PassengerAddr) /\ Len(s) \in Nat /\ h.flight[f].passengers = At(s, 1) /\ h.flight[f].seats \in Int
      /\ \A i \in 1..Len(s) : /\ s[i] \in PassengerAddr /\ s[i] # p /\ Has(s, s[i])
                              /\ h.person[s[i]].next = At(s, i + 1) /\ seat(i) \in 1..h.flight[f].seats
      /\ Distinct(s)
  BY SeatsElements
<1>2. /\ t \in Seq(PassengerAddr) /\ Len(t) = Len(s) + 1
      /\ \A i \in 1..Len(t) : t[i] = IF i <= k THEN s[i] ELSE IF i = k + 1 THEN p ELSE s[i - 1]
      /\ \A q : Has(t, q) <=> Has(s, q) \/ q = p
  BY <1>1, InsertedIs
<1>3. F \in [FlightAddr -> Seq(PassengerAddr)] /\ F[f] = t /\ \A g \in FlightAddr \ {f} : F[g] = G[g]
  BY <1>2 DEF SeatLists
<1> HIDE DEF s, t, F
<1>4. k \in 0..Len(s) /\ k \in Int /\ mine \in Int
  BY <1>1 DEF s
<1>5. \A i \in Int : At(t, i) = IF i <= k THEN At(s, i) ELSE IF i = k + 1 THEN p ELSE At(s, i - 1)
  <2> SUFFICES ASSUME NEW i \in Int
               PROVE  At(t, i) = IF i <= k THEN At(s, i) ELSE IF i = k + 1 THEN p ELSE At(s, i - 1)
    OBVIOUS
  <2>1. CASE i \in 1..Len(t)
    <3>1. At(t, i) = IF i <= k THEN s[i] ELSE IF i = k + 1 THEN p ELSE s[i - 1]
      BY <1>2, <2>1 DEF At
    <3>2. i <= k => i \in 1..Len(s)
      BY <1>1, <1>4, <2>1
    <3>3. ~(i <= k) /\ i # k + 1 => i - 1 \in 1..Len(s)
      BY <1>1, <1>2, <1>4, <2>1
    <3> QED
      BY <3>1, <3>2, <3>3 DEF At
  <2>2. CASE i \notin 1..Len(t)
    <3>1. At(t, i) = Nil
      BY <2>2 DEF At
    <3>2. i <= k => i \notin 1..Len(s)
      BY <1>1, <1>2, <1>4, <2>2
    <3>3. i # k + 1
      BY <1>1, <1>2, <1>4, <2>2
    <3>4. ~(i <= k) => i - 1 \notin 1..Len(s)
      BY <1>1, <1>2, <1>4, <2>2
    <3> QED
      BY <3>1, <3>2, <3>3, <3>4 DEF At
  <2> QED
    BY <2>1, <2>2
<1>6. ASSUME NEW i \in 1..Len(s)
      PROVE  /\ r.person[s[i]].next = IF i = k THEN p ELSE At(s, i + 1)
             /\ r.person[s[i]].seat = seat(i)
  <2>1. s[i] \in PassengerAddr \ {p} /\ h.person[s[i]].next = At(s, i + 1)
    BY <1>1
  <2>2. k > 0 /\ s[i] = s[k] <=> i = k
    BY <1>1, <1>4 DEF Distinct
  <2>3. IF i = k THEN r.person[s[i]].next = p /\ r.person[s[i]].seat = h.person[s[i]].seat
                 ELSE r.person[s[i]] = h.person[s[i]]
    BY <2>1, <2>2 DEF PutAt, Same, s
  <2> QED
    BY <2>1, <2>3
<1>7. r.person[p].next = At(s, k + 1) /\ r.person[p].seat = mine /\ r.flight[f].seats = h.flight[f].seats
  BY DEF PutAt, s
<1>8. SeatList(r, f, t)
  <2>1. r.flight[f].passengers = At(t, 1)
    <3>1. r.flight[f].passengers = IF k = 0 THEN p ELSE At(s, 1)
      BY <1>1 DEF PutAt, s
    <3> QED
      BY <1>4, <1>5, <3>1
  <2>2. ASSUME NEW i \in 1..Len(t)
        PROVE  NextPassengers(r)[t[i]] = At(t, i + 1)
    <3>1. t[i] \in PassengerAddr /\ NextPassengers(r)[t[i]] = r.person[t[i]].next
      BY <1>2, ElementOfSeq DEF NextPassengers
    <3>2. CASE i <= k
      <4>1. i \in 1..Len(s) /\ t[i] = s[i]
        BY <1>1, <1>2, <1>4, <3>2
      <4>2. At(t, i + 1) = IF i = k THEN p ELSE At(s, i + 1)
        BY <1>4, <1>5, <3>2
      <4> QED
        BY <1>6, <3>1, <4>1, <4>2
    <3>3. CASE i = k + 1
      <4>1. t[i] = p
        BY <1>2, <1>4, <3>3
      <4>2. At(t, i + 1) = At(s, k + 1)
        BY <1>4, <1>5, <3>3
      <4> QED
        BY <1>7, <3>1, <4>1, <4>2
    <3>4. CASE ~(i <= k) /\ i # k + 1
      <4>1. i - 1 \in 1..Len(s) /\ i - 1 # k /\ (i - 1) + 1 = i
        BY <1>1, <1>2, <1>4, <3>4
      <4>2. t[i] = s[i - 1]
        BY <1>2, <3>4
      <4>3. At(t, i + 1) = At(s, i)
        BY <1>4, <1>5, <3>4
      <4> QED
        BY <1>6, <3>1, <4>1, <4>2, <4>3
    <3> QED
      BY <3>2, <3>3, <3>4
  <2>3. ASSUME NEW i \in 1..Len(t)
        PROVE  r.person[t[i]].seat = IF i <= k THEN seat(i) ELSE IF i = k + 1 THEN mine ELSE seat(i - 1)
    <3>1. i <= k => i \in 1..Len(s)
      BY <1>1, <1>4
    <3>2. ~(i <= k) /\ i # k + 1 => i - 1 \in 1..Len(s)
      BY <1>1, <1>2, <1>4
    <3>3. t[i] = IF i <= k THEN s[i] ELSE IF i = k + 1 THEN p ELSE s[i - 1]
      BY <1>2
    <3> HIDE DEF seat, mine
    <3> QED
      BY <1>6, <1>7, <3>1, <3>2, <3>3
  <2>4. \A i \in 1..Len(s) : /\ seat(i) \in 1..h.flight[f].seats /\ seat(i) \in Int
                             /\ IF i <= k THEN seat(i) < mine ELSE mine < seat(i)
    <3>1. \A i \in 1..Len(s) : IF i <= k THEN seat(i) < mine ELSE mine < seat(i)
      BY DEF s
    <3>2. \A i \in 1..Len(s) : seat(i) \in 1..h.flight[f].seats
      BY <1>1
    <3>3. h.flight[f].seats \in Int
      BY <1>1
    <3> HIDE DEF seat, mine
    <3> QED
      BY <3>1, <3>2, <3>3
  <2>5. \A i, j \in 1..Len(s) : i < j => seat(i) < seat(j)
    BY <1>1, SeatsElements DEF SeatList, s
  <2>6. mine \in 1..h.flight[f].seats
    OBVIOUS
  <2> HIDE DEF seat, mine
  <2>7. ASSUME NEW i \in 1..Len(t)
        PROVE  r.person[t[i]].seat \in 1..r.flight[f].seats
    <3>1. i <= k => i \in 1..Len(s)
      BY <1>1, <1>4
    <3>2. ~(i <= k) /\ i # k + 1 => i - 1 \in 1..Len(s)
      BY <1>1, <1>2, <1>4
    <3> QED
      BY <1>7, <2>3, <2>4, <2>6, <3>1, <3>2
  <2>8. ASSUME NEW i \in 1..Len(t), NEW j \in 1..Len(t), i < j
        PROVE  r.person[t[i]].seat < r.person[t[j]].seat
    <3>1. CASE j <= k
      <4>1. i \in 1..Len(s) /\ j \in 1..Len(s) /\ i <= k
        BY <1>1, <1>4, <2>8, <3>1
      <4> QED
        BY <2>3, <2>5, <2>8, <3>1, <4>1
    <3>2. CASE j = k + 1
      <4>1. i \in 1..Len(s) /\ i <= k /\ ~(j <= k)
        BY <1>1, <1>4, <2>8, <3>2
      <4> QED
        BY <2>3, <2>4, <3>2, <4>1
    <3>3. CASE ~(j <= k) /\ j # k + 1
      <4>1. j - 1 \in 1..Len(s) /\ ~(j - 1 <= k)
        BY <1>1, <1>2, <1>4, <3>3
      <4>2. r.person[t[j]].seat = seat(j - 1)
        BY <2>3, <3>3
      <4>3. CASE i <= k
        <5>1. i \in 1..Len(s) /\ i < j - 1
          BY <1>1, <1>4, <3>3, <4>3
        <5> QED
          BY <2>3, <2>5, <4>1, <4>2, <4>3, <5>1
      <4>4. CASE i = k + 1
        <5>1. ~(i <= k)
          BY <1>4, <4>4
        <5> QED
          BY <2>3, <2>4, <4>1, <4>2, <4>4, <5>1
      <4>5. CASE ~(i <= k) /\ i # k + 1
        <5>1. i - 1 \in 1..Len(s) /\ i - 1 < j - 1
          BY <1>1, <1>2, <1>4, <2>8, <4>5
        <5> QED
          BY <2>3, <2>5, <4>1, <4>2, <4>5, <5>1
      <4> QED
        BY <4>3, <4>4, <4>5
    <3> QED
      BY <3>1, <3>2, <3>3
  <2> QED
    BY <2>1, <2>2, <2>7, <2>8 DEF SeatList, Chain
<1>9. ASSUME NEW g \in FlightAddr, g # f
      PROVE  SeatList(r, g, F[g])
  <2>1. /\ G[g] \in Seq(PassengerAddr) /\ SeatList(h, g, G[g])
        /\ \A i \in 1..Len(G[g]) : G[g][i] \in PassengerAddr \ {p} /\ Has(G[g], G[g][i])
    BY SeatsElements
  <2>2. \A i \in 1..Len(G[g]) : r.person[G[g][i]] = h.person[G[g][i]]
    <3> SUFFICES ASSUME NEW i \in 1..Len(G[g]) PROVE r.person[G[g][i]] = h.person[G[g][i]]
      OBVIOUS
    <3>1. ~Has(s, G[g][i])
      BY <1>9, <2>1 DEF SeatLists, s
    <3>2. k > 0 => k \in 1..Len(s)
      BY <1>4
    <3>3. ~(k > 0 /\ G[g][i] = s[k])
      BY <1>1, <3>1, <3>2
    <3> QED
      BY <2>1, <3>3 DEF PutAt, s
  <2>3. r.flight[g] = h.flight[g]
    BY <1>9 DEF PutAt
  <2>4. SeatList(r, g, G[g])
    BY <2>1, <2>2, <2>3, SeatListKept
  <2> QED
    BY <1>3, <1>9, <2>4
<1>10. ASSUME NEW b \in FlightAddr, NEW g \in FlightAddr, b # g, NEW q \in PassengerAddr
       PROVE  ~(Has(F[b], q) /\ Has(F[g], q))
  <2>1. ~(Has(G[b], q) /\ Has(G[g], q)) /\ ~Has(G[b], p) /\ ~Has(G[g], p)
    BY <1>10 DEF SeatLists
  <2> QED
    BY <1>2, <1>3, <1>10, <2>1 DEF s
<1>11. ASSUME NEW q \in PassengerAddr
       PROVE  r.person[q] # NoPassenger <=> \E g \in FlightAddr : Has(F[g], q)
  <2>1. h.person[q] # NoPassenger <=> q = p \/ \E g \in FlightAddr : Has(G[g], q)
    BY DEF SeatLists
  <2>2. (\E g \in FlightAddr : Has(F[g], q)) <=> q = p \/ \E g \in FlightAddr : Has(G[g], q)
    BY <1>2, <1>3 DEF s
  <2>3. r.person[q] # NoPassenger <=> h.person[q] # NoPassenger
    <3>1. CASE q = p
      <4>1. r.person[p] # NoPassenger
        BY <1>1, <1>7, Seated
      <4> QED
        BY <2>1, <3>1, <4>1
    <3>2. CASE q # p /\ k > 0 /\ q = s[k]
      <4>1. k \in 1..Len(s) /\ seat(k) \in Int /\ 1 <= seat(k)
        BY <1>1, <1>4, <3>2
      <4>2. r.person[q] # NoPassenger
        BY <1>6, <3>2, <4>1, Seated
      <4>3. h.person[q] # NoPassenger
        BY <3>2, <4>1, Seated
      <4> QED
        BY <4>2, <4>3
    <3>3. CASE q # p /\ ~(k > 0 /\ q = s[k])
      BY <3>3 DEF PutAt, s
    <3> QED
      BY <3>1, <3>2, <3>3
  <2> QED
    BY <2>1, <2>2, <2>3
<1>12. \A g \in FlightAddr : SeatList(r, g, F[g])
  BY <1>3, <1>8, <1>9
<1>13. SeatLists(r, F, {})
  BY <1>3, <1>10, <1>11, <1>12 DEF SeatLists
<1> QED
  BY <1>13 DEF F, t, s

(* What of the flights a change of passengers leaves alone. *)
FlightsSame(h, r, f) ==
  /\ r.head = h.head /\ r.tail = h.tail /\ r.count = h.count /\ r.failed = h.failed
  /\ \A b \in FlightAddr \ {f} : r.flight[b] = h.flight[b]
  /\ r.flight[f].id = h.flight[f].id /\ r.flight[f].prev = h.flight[f].prev /\ r.flight[f].next = h.flight[f].next
  /\ r.flight[f].seats = h.flight[f].seats

LEMMA FlightsKept ==
  ASSUME NEW h \in Heap, NEW r \in Heap, NEW L, FlightList(h, L), NEW f \in FlightAddr, Has(L, f), FlightsSame(h, r, f)
  PROVE  /\ FlightList(r, L)
         /\ \A x : FindFlight(h, x) # Nil => FindFlight(r, x) # Nil
<1>1. \A b \in FlightAddr : /\ r.flight[b].id = h.flight[b].id /\ r.flight[b].prev = h.flight[b].prev
                            /\ r.flight[b].next = h.flight[b].next
  BY DEF FlightsSame
<1>2. NextFlights(r) = NextFlights(h)
  BY <1>1 DEF NextFlights
<1>3. \A i \in 1..Len(L) : L[i] \in FlightAddr
  BY FlightsElements
<1>4. r.flight[f] # NoFlight
  <2>1. h.flight[f].id # ""
    BY DEF FlightList, Has
  <2>2. NoFlight.id = ""
    BY DEF NoFlight
  <2> QED
    BY <1>1, <2>1, <2>2
<1>5. \A b \in FlightAddr : r.flight[b] # NoFlight <=> Has(L, b)
  BY <1>4 DEF FlightList, FlightsSame
<1>6. \A i \in 1..Len(L) : r.flight[L[i]].prev = At(L, i - 1) /\ r.flight[L[i]].id # ""
  BY <1>1, <1>3 DEF FlightList
<1>7. FlightList(r, L)
  BY <1>2, <1>5, <1>6 DEF FlightList, FlightsSame
<1>8. ASSUME NEW x, FindFlight(h, x) # Nil PROVE FindFlight(r, x) # Nil
  <2>1. PICK b \in FlightAddr : Has(L, b) /\ h.flight[b].id = x
    BY <1>8, FlightKnown
  <2> QED
    BY <1>1, <1>7, <2>1, FlightKnown
<1> QED
  BY <1>7, <1>8

(* Insert keeps the list sorted, if the seat is free and on the flight. *)
LEMMA InsertKeeps ==
  ASSUME NEW h \in Heap, NEW G, NEW f \in FlightAddr, NEW p \in PassengerAddr,
         SeatLists(h, G, {p}), h.person[p].seat \in 1..h.flight[f].seats,
         \A i \in 1..Len(G[f]) : h.person[G[f][i]].seat # h.person[p].seat
  PROVE  LET r == Insert(h, f, p)
         IN /\ r \in Heap /\ FlightsSame(h, r, f)
            /\ \A q \in PassengerAddr : Same(h, r, q)
            /\ \E k \in 0..Len(G[f]) : SeatLists(r, [G EXCEPT ![f] = Inserted(G[f], k, p)], {})
<1> DEFINE s == G[f]
           seat == h.person[p].seat
           stops == {i \in DOMAIN s : i = Len(s) \/ h.person[s[i + 1]].seat >= seat}
           spot == s[Min(stops)]
           r == Insert(h, f, p)
           first == h.flight[f].passengers
<1>1. /\ s \in Seq(PassengerAddr) /\ Len(s) \in Nat /\ first = At(s, 1) /\ h.flight[f].seats \in Int
      /\ SeatList(h, f, s)
      /\ \A i \in 1..Len(s) : /\ s[i] \in PassengerAddr /\ s[i] # p /\ Has(s, s[i]) /\ s[i] # Nil
                              /\ h.person[s[i]].next = At(s, i + 1)
                              /\ h.person[s[i]].seat \in 1..h.flight[f].seats
      /\ \A i \in Int : At(s, i) \in PassengerAddr \cup {Nil}
      /\ Distinct(s)
  BY SeatsElements
<1>2. PassengersOf(h, f) = s
  BY <1>1, PassengersAre
<1>3. r = IF first = Nil \/ seat < h.person[first].seat
          THEN [h EXCEPT !.person[p].next = first, !.flight[f].passengers = p]
          ELSE [h EXCEPT !.person[p].next = h.person[spot].next, !.person[spot].next = p]
  BY <1>2 DEF Insert
<1>4. \A i, j \in 1..Len(s) : i < j => h.person[s[i]].seat < h.person[s[j]].seat
  BY <1>1 DEF SeatList
<1>5. seat \in Int /\ \A i \in 1..Len(s) : h.person[s[i]].seat \in Int /\ h.person[s[i]].seat # seat
  BY <1>1
<1>6. h.person \in [PassengerAddr -> PassengerNode] /\ h.flight \in [FlightAddr -> FlightNode]
  BY DEF Heap
<1>7. h.person[p] \in PassengerNode /\ h.flight[f] \in FlightNode
  BY <1>6
<1> DEFINE Good(k) ==
             /\ r \in Heap /\ FlightsSame(h, r, f) /\ PutAt(h, r, f, s, k, p)
             /\ \A i \in 1..Len(s) : IF i <= k THEN h.person[s[i]].seat < seat
                                               ELSE seat < h.person[s[i]].seat
<1> HIDE DEF r
<1>9. ASSUME first = Nil \/ seat < h.person[first].seat
      PROVE  Good(0)
  <2> DEFINE n == [h.person[p] EXCEPT !.next = first]
             b == [h.flight[f] EXCEPT !.passengers = p]
             h1 == [h EXCEPT !.person = [h.person EXCEPT ![p] = n]]
  <2>1. r = [h EXCEPT !.person[p].next = first, !.flight[f].passengers = p]
    BY <1>3, <1>9, Zenon
  <2>2. r = [h1 EXCEPT !.flight = [h.flight EXCEPT ![f] = b]]
    BY <1>6, <2>1 DEF Heap
  <2>3. n \in PassengerNode /\ b \in FlightNode
    BY <1>1, <1>7, PassengerWrite, FlightWrite
  <2>4. n.next = first /\ n.seat = seat /\ n.who = h.person[p].who /\ b.passengers = p /\ b.seats = h.flight[f].seats
        /\ b.id = h.flight[f].id /\ b.prev = h.flight[f].prev /\ b.next = h.flight[f].next
    BY <1>7 DEF PassengerNode, FlightNode
  <2>5. /\ r.person = [h.person EXCEPT ![p] = n] /\ r.flight = [h.flight EXCEPT ![f] = b]
        /\ r.head = h.head /\ r.tail = h.tail /\ r.count = h.count /\ r.failed = h.failed
    BY <1>6, <2>1 DEF Heap
  <2> HIDE DEF n, b
  <2>6. [h.person EXCEPT ![p] = n] \in [PassengerAddr -> PassengerNode]
        /\ [h.flight EXCEPT ![f] = b] \in [FlightAddr -> FlightNode]
    BY <1>6, <2>3
  <2>7. h1 \in Heap
    BY <2>6, HeapWrite
  <2> HIDE DEF h1
  <2>8. r \in Heap
    BY <2>2, <2>6, <2>7, HeapWrite
  <2>9. /\ r.person[p] = n /\ \A q \in PassengerAddr \ {p} : r.person[q] = h.person[q]
        /\ r.flight[f] = b /\ \A g \in FlightAddr \ {f} : r.flight[g] = h.flight[g]
    BY <1>6, <2>5
  <2>10. FlightsSame(h, r, f)
    BY <2>4, <2>5, <2>9 DEF FlightsSame
  <2>11. PutAt(h, r, f, s, 0, p)
    BY <1>1, <2>4, <2>9 DEF PutAt
  <2>12. \A i \in 1..Len(s) : seat < h.person[s[i]].seat
    <3> SUFFICES ASSUME NEW i \in 1..Len(s) PROVE seat < h.person[s[i]].seat
      OBVIOUS
    <3>1. 1 \in 1..Len(s) /\ first = s[1] /\ first # Nil
      BY <1>1 DEF At
    <3>2. seat < h.person[s[1]].seat
      BY <1>9, <3>1
    <3>3. i = 1 \/ h.person[s[1]].seat < h.person[s[i]].seat
      BY <1>1, <1>4, <3>1
    <3> HIDE DEF s, seat
    <3> QED
      BY <1>5, <3>1, <3>2, <3>3
  <2>13. \A i \in 1..Len(s) : ~(i <= 0)
    BY <1>1
  <2> HIDE DEF s, seat
  <2> QED
    BY <2>8, <2>10, <2>11, <2>12, <2>13, SMTT(30)
<1>10. ASSUME ~(first = Nil \/ seat < h.person[first].seat)
       PROVE  \E k \in 0..Len(s) : Good(k)
  <2> DEFINE k == Min(stops)
             n == [h.person[p] EXCEPT !.next = h.person[spot].next]
             b == [h.person[spot] EXCEPT !.next = p]
  <2>1. 1 \in 1..Len(s) /\ first = s[1] /\ DOMAIN s = 1..Len(s)
    BY <1>1, <1>10, LenProperties DEF At
  <2>2. k \in stops /\ \A j \in stops : k <= j
    <3>1. stops \subseteq Nat
      BY <2>1
    <3>2. Len(s) \in stops
      BY <1>1, <2>1
    <3> HIDE DEF stops
    <3> QED
      BY <3>1, <3>2, MinIs, Zenon
  <2>3. k \in 1..Len(s) /\ (k = Len(s) \/ h.person[s[k + 1]].seat >= seat)
    BY <2>1, <2>2, Zenon
  <2> HIDE DEF k
  <2>4. ASSUME NEW j \in 1..Len(s), j < k
        PROVE  j # Len(s) /\ ~(h.person[s[j + 1]].seat >= seat)
    <3>1. ~(k <= j)
      BY <1>1, <2>3, <2>4
    <3>2. j \notin stops
      <4> HIDE DEF stops
      <4> QED
        BY <2>2, <3>1, SMTT(30)
    <3> QED
      BY <2>1, <3>2
  <2>5. spot = s[k] /\ spot \in PassengerAddr /\ spot # p /\ h.person[spot].next = At(s, k + 1)
    <3>1. spot = s[k]
      BY DEF k
    <3> HIDE DEF spot, first, seat, stops, s
    <3> QED
      BY <1>1, <2>3, <3>1
  <2>6. r = [h EXCEPT !.person[p].next = h.person[spot].next, !.person[spot].next = p]
    BY <1>3, <1>10, Zenon
  <2> HIDE DEF spot
  <2> DEFINE pe == [[h.person EXCEPT ![p] = n] EXCEPT ![spot] = b]
  <2>7. r = [h EXCEPT !.person = pe]
    BY <1>6, <2>5, <2>6 DEF Heap
  <2>8. h.person[spot] \in PassengerNode /\ h.person[spot].next \in PassengerAddr \cup {Nil}
    BY <1>6, <2>5 DEF PassengerNode
  <2>9. n \in PassengerNode /\ b \in PassengerNode
    BY <1>7, <2>8, PassengerWrite
  <2>10. n.next = At(s, k + 1) /\ n.seat = seat /\ n.who = h.person[p].who /\ b.next = p
         /\ b.seat = h.person[spot].seat /\ b.who = h.person[spot].who
    BY <1>7, <2>5, <2>8 DEF PassengerNode
  <2> HIDE DEF n, b
  <2>11. /\ pe \in [PassengerAddr -> PassengerNode] /\ pe[p] = n /\ pe[spot] = b
         /\ \A q \in PassengerAddr \ {p, spot} : pe[q] = h.person[q]
    BY <1>6, <2>5, <2>9
  <2> HIDE DEF pe
  <2>12. r \in Heap
    BY <2>7, <2>11, HeapWrite
  <2>13. /\ r.person = pe /\ r.flight = h.flight
         /\ r.head = h.head /\ r.tail = h.tail /\ r.count = h.count /\ r.failed = h.failed
    BY <2>7 DEF Heap
  <2>14. FlightsSame(h, r, f)
    BY <2>13 DEF FlightsSame
  <2>15. k # 0 /\ k > 0
    BY <2>3
  <2>16. PutAt(h, r, f, s, k, p)
    <3>1. \A q \in PassengerAddr \ {p} :
            IF q = s[k] THEN r.person[q].next = p /\ Same(h, r, q) ELSE r.person[q] = h.person[q]
      BY <2>5, <2>10, <2>11, <2>13 DEF Same
    <3>2. r.person[p].next = At(s, k + 1) /\ r.person[p].seat = seat /\ r.person[p].who = h.person[p].who
      BY <2>10, <2>11, <2>13
    <3> HIDE DEF s, seat
    <3> QED
      BY <2>13, <2>15, <3>1, <3>2 DEF PutAt, seat
  <2>17. ASSUME NEW i \in 1..Len(s)
         PROVE  IF i <= k THEN h.person[s[i]].seat < seat ELSE seat < h.person[s[i]].seat
    <3>1. CASE i = 1
      <4>1. ~(seat < h.person[s[1]].seat)
        BY <1>10, <2>1
      <4>2. i <= k
        BY <2>3, <3>1
      <4> HIDE DEF s, seat
      <4> QED
        BY <1>5, <2>1, <3>1, <4>1, <4>2
    <3>2. CASE i # 1 /\ i <= k
      <4>1. i - 1 \in 1..Len(s) /\ i - 1 < k /\ (i - 1) + 1 = i
        BY <1>1, <2>3, <3>2
      <4>2. ~(h.person[s[i]].seat >= seat)
        BY <2>4, <4>1
      <4> HIDE DEF s, seat
      <4> QED
        BY <1>5, <3>2, <4>2
    <3>3. CASE ~(i <= k)
      <4>1. k # Len(s) /\ k + 1 \in 1..Len(s) /\ (i = k + 1 \/ k + 1 < i)
        BY <1>1, <2>3, <3>3
      <4>2. h.person[s[k + 1]].seat >= seat
        BY <2>3, <4>1
      <4>3. i = k + 1 \/ h.person[s[k + 1]].seat < h.person[s[i]].seat
        BY <1>4, <4>1
      <4> HIDE DEF s, seat
      <4> QED
        BY <1>5, <3>3, <4>1, <4>2, <4>3
    <3> QED
      BY <3>1, <3>2, <3>3
  <2>18. k \in 0..Len(s)
    BY <1>1, <2>3
  <2> HIDE DEF s, seat
  <2> QED
    BY <2>12, <2>14, <2>16, <2>17, <2>18
<1>11. PICK k \in 0..Len(s) : Good(k)
  <2>1. 0 \in 0..Len(s)
    BY <1>1
  <2> HIDE DEF Good, s, seat
  <2> QED
    BY <1>9, <1>10, <2>1
<1>12. SeatLists(r, [G EXCEPT ![f] = Inserted(s, k, p)], {})
  BY <1>11, PutKeeps
<1>13. \A q \in PassengerAddr : Same(h, r, q)
  BY <1>11 DEF PutAt, Same
<1> QED
  BY <1>11, <1>12, <1>13 DEF r

(* p is put on flight f, if it was not there; nobody else is moved. *)
SeatedOn(h, r, f, G, F, p) ==
  /\ \A q : Has(F[f], q) <=> Has(G[f], q) \/ q = p
  /\ \A b \in FlightAddr \ {f} : F[b] = G[b]
  /\ \A q \in PassengerAddr \ {p} : Same(h, r, q)

LEMMA AddPassengerCases ==
  ASSUME NEW h, NEW L, NEW G, Shape(h, L, G), NEW f \in FlightAddr, Has(L, f),
         NEW seat \in Int, NEW who \in KnownPeople
  PROVE  LET r == add_passenger(h, f, seat, who)
         IN \/ r = h /\ (h.failed \/ seat \notin 1..h.flight[f].seats \/ FindSeat(h, f, seat) # Nil)
            \/ r = OutOfMemory(h)
            \/ \E F \in [FlightAddr -> Seq(PassengerAddr)], p \in PassengerAddr :
                 /\ Shape(r, L, F) /\ FlightsSame(h, r, f) /\ SeatedOn(h, r, f, G, F, p)
                 /\ seat \in 1..h.flight[f].seats /\ FindSeat(h, f, seat) = Nil
                 /\ r.person[p].seat = seat /\ r.person[p].who = who
                 /\ \A b \in FlightAddr : ~Has(G[b], p)
<1> DEFINE fresh == {a \in PassengerAddr : h.person[a] = NoPassenger}
           p   == Min(fresh)
           new == [seat |-> seat, who |-> who, next |-> Nil]
           g   == [h EXCEPT !.person[p] = new]
           r   == add_passenger(h, f, seat, who)
           s   == G[f]
           refused == h.failed \/ seat <= 0 \/ seat > h.flight[f].seats \/ FindSeat(h, f, seat) # Nil
<1>1. h \in Heap /\ FlightList(h, L) /\ SeatLists(h, G, {})
  BY DEF Shape
<1>2. h.flight[f].seats \in Int /\ h.person \in [PassengerAddr -> PassengerNode]
  BY <1>1 DEF Heap, FlightNode
<1>3. CASE refused
  <2>1. r = h
    BY <1>3 DEF add_passenger
  <2>2. h.failed \/ seat \notin 1..h.flight[f].seats \/ FindSeat(h, f, seat) # Nil
    BY <1>2, <1>3
  <2> QED
    BY <2>1, <2>2
<1>4. CASE ~refused /\ fresh = {}
  BY <1>4 DEF add_passenger
<1>5. CASE ~refused /\ fresh # {}
  <2>1. p \in PassengerAddr /\ h.person[p] = NoPassenger
    <3>1. fresh \subseteq Nat
      BY Addresses
    <3>2. p \in fresh
      BY <1>5, <3>1, MinIs
    <3> QED
      BY <3>2
  <2>2. r = Insert(g, f, p)
    BY <1>5 DEF add_passenger
  <2>3. seat \in 1..h.flight[f].seats /\ FindSeat(h, f, seat) = Nil
    BY <1>2, <1>5
  <2> HIDE DEF p, refused, r
  <2>4. new \in PassengerNode /\ new.seat = seat /\ new.who = who
    BY DEF PassengerNode
  <2> HIDE DEF new
  <2>5. /\ g.person = [h.person EXCEPT ![p] = new] /\ g.flight = h.flight
        /\ g.head = h.head /\ g.tail = h.tail /\ g.count = h.count /\ g.failed = h.failed
        /\ g = [h EXCEPT !.person = [h.person EXCEPT ![p] = new]]
    BY <1>1, <1>2 DEF Heap
  <2>6. g \in Heap
    BY <1>1, <1>2, <2>4, <2>5, HeapWrite
  <2>7. g.person[p] = new /\ \A q \in PassengerAddr \ {p} : g.person[q] = h.person[q]
    BY <1>2, <2>1, <2>5
  <2> HIDE DEF g
  <2>8. \A b \in FlightAddr : ~Has(G[b], p)
    BY <1>1, <2>1 DEF SeatLists
  <2>9. SeatLists(g, G, {p})
    <3>1. ASSUME NEW b \in FlightAddr
          PROVE  SeatList(g, b, G[b])
      <4>1. /\ G[b] \in Seq(PassengerAddr) /\ SeatList(h, b, G[b])
            /\ \A i \in 1..Len(G[b]) : G[b][i] \in PassengerAddr /\ Has(G[b], G[b][i])
        BY <1>1, SeatsElements
      <4>2. \A i \in 1..Len(G[b]) : g.person[G[b][i]] = h.person[G[b][i]]
        BY <2>7, <2>8, <4>1
      <4>3. g.flight[b] = h.flight[b]
        BY <2>5
      <4> HIDE DEF new
      <4> QED
        BY <4>1, <4>2, <4>3, SeatListKept
    <3>2. ASSUME NEW q \in PassengerAddr
          PROVE  g.person[q] # NoPassenger <=> q = p \/ \E b \in FlightAddr : Has(G[b], q)
      <4>1. CASE q = p
        <5>1. g.person[p].seat \in Int /\ 1 <= g.person[p].seat
          BY <1>2, <2>3, <2>4, <2>7
        <5> QED
          BY <4>1, <5>1, Seated
      <4>2. CASE q # p
        BY <1>1, <2>7, <4>2 DEF SeatLists
      <4> QED
        BY <4>1, <4>2
    <3> QED
      BY <1>1, <2>8, <3>1, <3>2 DEF SeatLists
  <2>10. \A i \in 1..Len(s) : g.person[s[i]].seat # g.person[p].seat
    <3>1. /\ s \in Seq(PassengerAddr) /\ SeatList(h, f, s)
          /\ \A i \in 1..Len(s) : s[i] \in PassengerAddr /\ Has(s, s[i])
      BY <1>1, SeatsElements
    <3>2. Nil \notin PassengerAddr
      BY Addresses
    <3>3. \A i \in 1..Len(s) : h.person[s[i]].seat # seat
      BY <1>1, <2>3, <3>1, <3>2, SeatFound
    <3> QED
      BY <2>4, <2>7, <2>8, <3>1, <3>3
  <2>11. g.person[p].seat \in 1..g.flight[f].seats
    BY <2>3, <2>4, <2>5, <2>7
  <2>12. /\ r \in Heap /\ FlightsSame(g, r, f)
         /\ \A q \in PassengerAddr : Same(g, r, q)
         /\ \E k \in 0..Len(s) : SeatLists(r, [G EXCEPT ![f] = Inserted(s, k, p)], {})
    BY <2>1, <2>2, <2>6, <2>9, <2>10, <2>11, InsertKeeps
  <2>13. PICK k \in 0..Len(s) : SeatLists(r, [G EXCEPT ![f] = Inserted(s, k, p)], {})
    BY <2>12
  <2> DEFINE F == [G EXCEPT ![f] = Inserted(s, k, p)]
  <2>14. FlightsSame(h, r, f)
    BY <2>5, <2>12 DEF FlightsSame
  <2>15. FlightList(r, L)
    BY <1>1, <2>12, <2>14, FlightsKept
  <2>16. SeatedOn(h, r, f, G, F, p)
    <3>1. s \in Seq(PassengerAddr) /\ G \in [FlightAddr -> Seq(PassengerAddr)]
      BY <1>1 DEF SeatLists
    <3>2. F[f] = Inserted(s, k, p) /\ \A b \in FlightAddr \ {f} : F[b] = G[b]
      BY <3>1
    <3>3. \A q : Has(Inserted(s, k, p), q) <=> Has(s, q) \/ q = p
      BY <2>1, <3>1, InsertedIs
    <3>4. \A q \in PassengerAddr \ {p} : Same(h, r, q)
      BY <2>7, <2>12 DEF Same
    <3> QED
      BY <3>2, <3>3, <3>4 DEF SeatedOn
  <2>17. F \in [FlightAddr -> Seq(PassengerAddr)]
    BY <2>13 DEF SeatLists
  <2>18. Shape(r, L, F)
    BY <2>12, <2>13, <2>15 DEF Shape
  <2> HIDE DEF F
  <2> QED
    <3>1. r.person[p].seat = seat /\ r.person[p].who = who
      BY <2>1, <2>4, <2>7, <2>12 DEF Same
    <3> QED
      BY <2>1, <2>3, <2>8, <2>14, <2>16, <2>17, <2>18, <3>1 DEF r
<1> QED
  BY <1>3, <1>4, <1>5

LEMMA AddPassengerKeeps ==
  ASSUME NEW h, NEW L, NEW G, Shape(h, L, G), NEW f \in FlightAddr, Has(L, f),
         NEW seat \in Int, NEW who \in KnownPeople
  PROVE  LET r == add_passenger(h, f, seat, who)
         IN /\ \E F : Shape(r, L, F)
            /\ \A x : FindFlight(h, x) # Nil => FindFlight(r, x) # Nil
            /\ h.failed => r.failed
<1> DEFINE r == add_passenger(h, f, seat, who)
<1>1. \/ r = h
      \/ r = OutOfMemory(h)
      \/ \E F : Shape(r, L, F) /\ FlightsSame(h, r, f)
  BY AddPassengerCases
<1> HIDE DEF r
<1>2. CASE r = h
  BY <1>2 DEF r
<1>3. CASE r = OutOfMemory(h)
  BY <1>3, OutOfMemoryShape DEF r
<1>4. CASE \E F : Shape(r, L, F) /\ FlightsSame(h, r, f)
  <2>1. h \in Heap /\ r \in Heap /\ FlightList(h, L)
    BY <1>4 DEF Shape
  <2> QED
    BY <1>4, <2>1, FlightsKept DEF FlightsSame, r
<1> QED
  BY <1>1, <1>2, <1>3, <1>4

(* g is h with p, the k-th passenger s[k] of flight f, taken out. *)
TakenOut(h, g, f, s, k, p) ==
  /\ g.flight[f].passengers = IF k = 1 THEN At(s, 2) ELSE h.flight[f].passengers
  /\ g.flight[f].seats = h.flight[f].seats
  /\ \A b \in FlightAddr \ {f} : g.flight[b] = h.flight[b]
  /\ \A q \in PassengerAddr \ {p} :
       IF k > 1 /\ q = s[k - 1] THEN g.person[q].next = At(s, k + 1) /\ Same(h, g, q)
                                ELSE g.person[q] = h.person[q]

LEMMA TakenKeeps ==
  ASSUME NEW h \in Heap, NEW g, NEW G, NEW f \in FlightAddr, SeatLists(h, G, {}),
         NEW k \in 1..Len(G[f]), NEW p, p = G[f][k], TakenOut(h, g, f, G[f], k, p),
         g.person[p].seat \in Int, 1 <= g.person[p].seat
  PROVE  SeatLists(g, [G EXCEPT ![f] = Removed(G[f], k)], {p})
<1> DEFINE s == G[f]
           t == Removed(s, k)
           F == [G EXCEPT ![f] = t]
           seat(i) == h.person[s[i]].seat
<1>1. /\ s \in Seq(PassengerAddr) /\ Len(s) \in Nat /\ h.flight[f].passengers = At(s, 1) /\ h.flight[f].seats \in Int
      /\ \A i \in 1..Len(s) : /\ s[i] \in PassengerAddr /\ Has(s, s[i])
                              /\ h.person[s[i]].next = At(s, i + 1) /\ seat(i) \in 1..h.flight[f].seats
      /\ Distinct(s)
  BY SeatsElements
<1>2. /\ t \in Seq(PassengerAddr) /\ Len(t) = Len(s) - 1
      /\ \A i \in 1..Len(t) : t[i] = IF i < k THEN s[i] ELSE s[i + 1]
      /\ Distinct(t)
      /\ \A q : Has(t, q) <=> Has(s, q) /\ q # s[k]
  BY <1>1, RemovedIs
<1>3. F \in [FlightAddr -> Seq(PassengerAddr)] /\ F[f] = t /\ \A b \in FlightAddr \ {f} : F[b] = G[b]
  BY <1>2 DEF SeatLists
<1> HIDE DEF s, t, F
<1>4. k \in 1..Len(s) /\ k \in Int /\ p = s[k] /\ p \in PassengerAddr /\ Has(s, p)
  BY <1>1 DEF s
<1>5. \A i \in 1..Len(s) : At(t, i) = IF i < k THEN At(s, i) ELSE At(s, i + 1)
  <2> SUFFICES ASSUME NEW i \in 1..Len(s)
               PROVE  At(t, i) = IF i < k THEN At(s, i) ELSE At(s, i + 1)
    OBVIOUS
  <2>1. CASE i = Len(s)
    <3>1. ~(i < k) /\ i \notin 1..Len(t) /\ i + 1 \notin 1..Len(s)
      BY <1>1, <1>2, <1>4, <2>1
    <3> QED
      BY <3>1 DEF At
  <2>2. CASE i # Len(s)
    <3>1. i \in 1..Len(t) /\ i + 1 \in 1..Len(s)
      BY <1>1, <1>2, <2>2
    <3> QED
      BY <1>2, <3>1 DEF At
  <2> QED
    BY <2>1, <2>2
<1>6. ASSUME NEW i \in 1..Len(s), i # k
      PROVE  /\ g.person[s[i]].next = IF i = k - 1 THEN At(s, k + 1) ELSE At(s, i + 1)
             /\ g.person[s[i]].seat = seat(i)
  <2>1. s[i] \in PassengerAddr \ {p} /\ h.person[s[i]].next = At(s, i + 1)
    BY <1>1, <1>4, <1>6 DEF Distinct
  <2>2. k > 1 /\ s[i] = s[k - 1] <=> i = k - 1
    <3>1. k > 1 => k - 1 \in 1..Len(s)
      BY <1>1, <1>4
    <3>2. i = k - 1 => k > 1
      BY <1>4
    <3>3. \A j \in 1..Len(s) : s[i] = s[j] => i = j
      BY <1>1 DEF Distinct
    <3> QED
      BY <3>1, <3>2, <3>3
  <2>3. IF i = k - 1 THEN g.person[s[i]].next = At(s, k + 1) /\ g.person[s[i]].seat = h.person[s[i]].seat
                     ELSE g.person[s[i]] = h.person[s[i]]
    BY <2>1, <2>2 DEF TakenOut, Same, s
  <2> QED
    BY <2>1, <2>3
<1>7. SeatList(g, f, t)
  <2>1. g.flight[f].passengers = At(t, 1)
    <3>1. g.flight[f].passengers = IF k = 1 THEN At(s, 2) ELSE At(s, 1)
      BY <1>1 DEF TakenOut, s
    <3>2. 1 \in 1..Len(s) /\ (1 < k <=> k # 1) /\ 1 + 1 = 2
      BY <1>1, <1>4
    <3> QED
      BY <1>5, <3>1, <3>2
  <2>2. ASSUME NEW i \in 1..Len(t)
        PROVE  NextPassengers(g)[t[i]] = At(t, i + 1)
    <3>1. t[i] \in PassengerAddr /\ NextPassengers(g)[t[i]] = g.person[t[i]].next
      BY <1>2, ElementOfSeq DEF NextPassengers
    <3>2. i \in 1..Len(s) /\ i + 1 \in 1..Len(s)
      BY <1>1, <1>2
    <3>3. CASE i < k
      <4>0. i # k
        BY <1>4, <3>3
      <4>1. t[i] = s[i] /\ i # k
        BY <1>2, <3>3, <4>0
      <4>2. At(t, i + 1) = IF i + 1 < k THEN At(s, i + 1) ELSE At(s, i + 1 + 1)
        BY <1>5, <3>2
      <4>3. (i = k - 1 <=> ~(i + 1 < k)) /\ (i = k - 1 => i + 1 + 1 = k + 1)
        BY <1>4, <3>3
      <4>4. g.person[s[i]].next = IF i = k - 1 THEN At(s, k + 1) ELSE At(s, i + 1)
        BY <1>6, <3>2, <4>1
      <4> QED
        BY <3>1, <4>1, <4>2, <4>3, <4>4
    <3>4. CASE ~(i < k)
      <4>1. t[i] = s[i + 1] /\ i + 1 # k /\ i + 1 # k - 1
        BY <1>2, <1>4, <3>4
      <4>2. At(t, i + 1) = At(s, i + 1 + 1)
        <5>1. ~(i + 1 < k)
          BY <1>4, <3>4
        <5> QED
          BY <1>5, <3>2, <5>1
      <4> QED
        BY <1>6, <3>1, <3>2, <4>1, <4>2
    <3> QED
      BY <3>3, <3>4
  <2>3. ASSUME NEW i \in 1..Len(t)
        PROVE  g.person[t[i]].seat = IF i < k THEN seat(i) ELSE seat(i + 1)
    <3>1. i \in 1..Len(s) /\ i + 1 \in 1..Len(s)
      BY <1>1, <1>2
    <3>2. t[i] = IF i < k THEN s[i] ELSE s[i + 1]
      BY <1>2
    <3>3. (i < k => i # k) /\ (~(i < k) => i + 1 # k)
      BY <1>4
    <3> HIDE DEF seat
    <3> QED
      BY <1>6, <3>1, <3>2, <3>3
  <2>4. \A i \in 1..Len(s) : seat(i) \in 1..h.flight[f].seats
    BY <1>1
  <2>5. \A i, j \in 1..Len(s) : i < j => seat(i) < seat(j)
    BY <1>1, SeatsElements DEF SeatList, s
  <2>6. g.flight[f].seats = h.flight[f].seats
    BY DEF TakenOut
  <2> HIDE DEF seat
  <2>7. ASSUME NEW i \in 1..Len(t)
        PROVE  g.person[t[i]].seat \in 1..g.flight[f].seats
    <3>1. i \in 1..Len(s) /\ i + 1 \in 1..Len(s)
      BY <1>1, <1>2
    <3> QED
      BY <2>3, <2>4, <2>6, <3>1
  <2>8. ASSUME NEW i \in 1..Len(t), NEW j \in 1..Len(t), i < j
        PROVE  g.person[t[i]].seat < g.person[t[j]].seat
    <3> DEFINE at(n) == IF n < k THEN n ELSE n + 1
    <3>1. at(i) \in 1..Len(s) /\ at(j) \in 1..Len(s) /\ at(i) < at(j)
      BY <1>1, <1>2, <1>4, <2>8
    <3>2. g.person[t[i]].seat = seat(at(i)) /\ g.person[t[j]].seat = seat(at(j))
      BY <2>3
    <3> HIDE DEF at
    <3> QED
      BY <2>5, <3>1, <3>2
  <2> QED
    BY <2>1, <2>2, <2>7, <2>8 DEF SeatList, Chain
<1>8. ASSUME NEW b \in FlightAddr, b # f
      PROVE  SeatList(g, b, F[b])
  <2>1. /\ G[b] \in Seq(PassengerAddr) /\ SeatList(h, b, G[b])
        /\ \A i \in 1..Len(G[b]) : G[b][i] \in PassengerAddr /\ Has(G[b], G[b][i])
    BY SeatsElements
  <2>2. \A i \in 1..Len(G[b]) : g.person[G[b][i]] = h.person[G[b][i]]
    <3> SUFFICES ASSUME NEW i \in 1..Len(G[b]) PROVE g.person[G[b][i]] = h.person[G[b][i]]
      OBVIOUS
    <3>1. ~Has(s, G[b][i])
      BY <1>8, <2>1 DEF SeatLists, s
    <3>2. k > 1 => k - 1 \in 1..Len(s)
      BY <1>1, <1>4
    <3>3. ~(k > 1 /\ G[b][i] = s[k - 1]) /\ G[b][i] # p
      BY <1>1, <1>4, <3>1, <3>2
    <3> QED
      BY <2>1, <3>3 DEF TakenOut, s
  <2>3. g.flight[b] = h.flight[b]
    BY <1>8 DEF TakenOut
  <2>4. SeatList(g, b, G[b])
    BY <2>1, <2>2, <2>3, SeatListKept
  <2> QED
    BY <1>3, <1>8, <2>4
<1>9. ASSUME NEW b \in FlightAddr, NEW c \in FlightAddr, b # c, NEW q \in PassengerAddr
      PROVE  ~(Has(F[b], q) /\ Has(F[c], q))
  <2>1. ~(Has(G[b], q) /\ Has(G[c], q))
    BY <1>9 DEF SeatLists
  <2> QED
    BY <1>2, <1>3, <1>9, <2>1 DEF s
<1>10. ASSUME NEW b \in FlightAddr
       PROVE  ~Has(F[b], p)
  <2>1. b # f => ~Has(G[b], p)
    BY <1>4 DEF SeatLists, s
  <2> QED
    BY <1>2, <1>3, <1>4, <2>1
<1>11. ASSUME NEW q \in PassengerAddr
       PROVE  g.person[q] # NoPassenger <=> q = p \/ \E b \in FlightAddr : Has(F[b], q)
  <2>1. h.person[q] # NoPassenger <=> \E b \in FlightAddr : Has(G[b], q)
    BY DEF SeatLists
  <2>2. (q = p \/ \E b \in FlightAddr : Has(F[b], q)) <=> \E b \in FlightAddr : Has(G[b], q)
    <3>1. \A b \in FlightAddr : Has(F[b], q) => Has(G[b], q)
      BY <1>2, <1>3 DEF s
    <3>2. q = p => Has(G[f], q)
      BY <1>4 DEF s
    <3>3. \A b \in FlightAddr : Has(G[b], q) /\ q # p => Has(F[b], q)
      BY <1>2, <1>3, <1>4 DEF s
    <3> QED
      BY <3>1, <3>2, <3>3
  <2>3. CASE q = p
    BY <2>2, <2>3, Seated
  <2>4. CASE q # p /\ k > 1 /\ q = s[k - 1]
    <3>1. k - 1 \in 1..Len(s) /\ k - 1 # k
      BY <1>1, <1>4, <2>4
    <3>2. seat(k - 1) \in Int /\ 1 <= seat(k - 1)
      BY <1>1, <3>1
    <3>3. g.person[q] # NoPassenger
      BY <1>6, <2>4, <3>1, <3>2, Seated
    <3>4. h.person[q] # NoPassenger
      BY <2>4, <3>2, Seated
    <3> QED
      BY <2>1, <2>2, <3>3, <3>4
  <2>5. CASE q # p /\ ~(k > 1 /\ q = s[k - 1])
    <3>1. g.person[q] = h.person[q]
      BY <2>5 DEF TakenOut, s
    <3> QED
      BY <2>1, <2>2, <3>1
  <2> QED
    BY <2>3, <2>4, <2>5
<1>12. \A b \in FlightAddr : SeatList(g, b, F[b])
  BY <1>3, <1>7, <1>8
<1>13. SeatLists(g, F, {p})
  BY <1>3, <1>9, <1>10, <1>11, <1>12 DEF SeatLists
<1> QED
  BY <1>13 DEF F, t, s

(* p gets the seat, and nobody follows it yet. *)
Reseated(u, p, new) == [u EXCEPT !.person[p].seat = new, !.person[p].next = Nil]

LEMMA SeatWrite ==
  ASSUME NEW u \in Heap, NEW p \in PassengerAddr, NEW new \in Int
  PROVE  LET g == Reseated(u, p, new)
         IN /\ g \in Heap /\ g.flight = u.flight
            /\ g.head = u.head /\ g.tail = u.tail /\ g.count = u.count /\ g.failed = u.failed
            /\ g.person[p].seat = new /\ g.person[p].who = u.person[p].who
            /\ \A q \in PassengerAddr \ {p} : g.person[q] = u.person[q]
<1> DEFINE g  == Reseated(u, p, new)
           n1 == [u.person[p] EXCEPT !.seat = new]
           n2 == [n1 EXCEPT !.next = Nil]
           pe == [u.person EXCEPT ![p] = n2]
<1>1. u.person \in [PassengerAddr -> PassengerNode] /\ u.person[p] \in PassengerNode
  BY DEF Heap
<1>2. n1 \in PassengerNode /\ n1.seat = new /\ n1.who = u.person[p].who
  <2>1. n1 \in PassengerNode
    BY <1>1, PassengerWrite
  <2> QED
    BY <1>1, <2>1 DEF PassengerNode
<1>3. g = [u EXCEPT !.person = pe]
  BY <1>1 DEF Heap, Reseated
<1> HIDE DEF n1, g
<1>4. n2 \in PassengerNode /\ n2.seat = new /\ n2.who = u.person[p].who
  <2>1. n2 \in PassengerNode
    BY <1>2, PassengerWrite
  <2> QED
    BY <1>2, <2>1 DEF PassengerNode
<1> HIDE DEF n2
<1>5. pe \in [PassengerAddr -> PassengerNode] /\ pe[p] = n2 /\ \A q \in PassengerAddr \ {p} : pe[q] = u.person[q]
  BY <1>1, <1>4
<1> HIDE DEF pe
<1>6. g \in Heap
  BY <1>3, <1>5, HeapWrite
<1>7. /\ g.person = pe /\ g.flight = u.flight /\ g.head = u.head
      /\ g.tail = u.tail /\ g.count = u.count /\ g.failed = u.failed
  BY <1>3 DEF Heap
<1> QED
  BY <1>4, <1>5, <1>6, <1>7 DEF g

LEMMA UnlinkIs ==
  ASSUME NEW h \in Heap, NEW G, NEW f \in FlightAddr, SeatLists(h, G, {}),
         NEW k \in 1..Len(G[f]), NEW p, p = G[f][k]
  PROVE  LET u == Unlink(h, f, p)
         IN /\ u \in Heap /\ FlightsSame(h, u, f) /\ TakenOut(h, u, f, G[f], k, p)
            /\ u.person[p] = h.person[p]
<1> DEFINE s == G[f]
           i == CHOOSE j \in DOMAIN s : s[j] = p
           u == Unlink(h, f, p)
<1>1. /\ s \in Seq(PassengerAddr) /\ Len(s) \in Nat /\ SeatList(h, f, s)
      /\ \A j \in 1..Len(s) : s[j] \in PassengerAddr /\ h.person[s[j]].next = At(s, j + 1)
      /\ \A j \in Int : At(s, j) \in PassengerAddr \cup {Nil}
      /\ Distinct(s)
  BY SeatsElements
<1>2. PassengersOf(h, f) = s /\ DOMAIN s = 1..Len(s)
  BY <1>1, PassengersAre, LenProperties
<1>3. u = IF i = 1 THEN [h EXCEPT !.flight[f].passengers = h.person[p].next]
                   ELSE [h EXCEPT !.person[s[i - 1]].next = h.person[p].next]
  BY <1>2 DEF Unlink
<1> HIDE DEF u
<1>4. i = k
  <2>1. i \in 1..Len(s) /\ s[i] = p
    BY <1>2
  <2> HIDE DEF i
  <2> QED
    BY <1>1, <2>1 DEF Distinct
<1> HIDE DEF i, s
<1>5. k \in 1..Len(s) /\ k \in Int /\ p = s[k]
  BY <1>1 DEF s
<1>6. h.person[p].next = At(s, k + 1) /\ At(s, k + 1) \in PassengerAddr \cup {Nil} /\ p \in PassengerAddr
  BY <1>1, <1>5
<1>7. h.person \in [PassengerAddr -> PassengerNode] /\ h.flight \in [FlightAddr -> FlightNode] /\ h.flight[f] \in FlightNode
  BY DEF Heap
<1>8. CASE k = 1
  <2> DEFINE b  == [h.flight[f] EXCEPT !.passengers = At(s, 2)]
             fl == [h.flight EXCEPT ![f] = b]
  <2>1. u = [h EXCEPT !.flight = fl]
    BY <1>3, <1>4, <1>6, <1>7, <1>8 DEF Heap
  <2>2. b \in FlightNode
    <3>1. At(s, 2) \in PassengerAddr \cup {Nil}
      BY <1>1
    <3> QED
      BY <1>7, <3>1, FlightWrite
  <2>3. /\ b.passengers = At(s, 2) /\ b.seats = h.flight[f].seats
        /\ b.id = h.flight[f].id /\ b.prev = h.flight[f].prev /\ b.next = h.flight[f].next
    BY <1>7 DEF FlightNode
  <2> HIDE DEF b
  <2>4. fl \in [FlightAddr -> FlightNode] /\ fl[f] = b /\ \A a \in FlightAddr \ {f} : fl[a] = h.flight[a]
    BY <1>7, <2>2
  <2> HIDE DEF fl
  <2>5. u \in Heap
    BY <2>1, <2>4, HeapWrite
  <2>6. /\ u.flight = fl /\ u.person = h.person /\ u.head = h.head
        /\ u.tail = h.tail /\ u.count = h.count /\ u.failed = h.failed
    BY <2>1 DEF Heap
  <2>7. FlightsSame(h, u, f)
    BY <2>3, <2>4, <2>6 DEF FlightsSame
  <2>8. ~(k > 1)
    BY <1>8
  <2>9. TakenOut(h, u, f, s, k, p)
    BY <1>8, <2>3, <2>4, <2>6, <2>8 DEF TakenOut
  <2> QED
    BY <2>5, <2>6, <2>7, <2>9 DEF u, s
<1>9. CASE k # 1
  <2> DEFINE q  == s[k - 1]
             n  == [h.person[q] EXCEPT !.next = At(s, k + 1)]
             pe == [h.person EXCEPT ![q] = n]
  <2>1. k - 1 \in 1..Len(s) /\ k - 1 # k /\ k > 1
    BY <1>1, <1>5, <1>9
  <2>2. q \in PassengerAddr /\ q # p
    BY <1>1, <1>5, <2>1 DEF Distinct
  <2>3. u = [h EXCEPT !.person[q].next = At(s, k + 1)]
    BY <1>3, <1>4, <1>6, <1>9
  <2> HIDE DEF q
  <2>4. u = [h EXCEPT !.person = pe]
    BY <1>7, <2>2, <2>3 DEF Heap
  <2>5. h.person[q] \in PassengerNode
    BY <1>7, <2>2
  <2>6. n \in PassengerNode /\ n.next = At(s, k + 1) /\ n.seat = h.person[q].seat /\ n.who = h.person[q].who
    <3>1. n \in PassengerNode
      BY <1>6, <2>5, PassengerWrite
    <3> QED
      BY <2>5, <3>1 DEF PassengerNode
  <2> HIDE DEF n
  <2>7. pe \in [PassengerAddr -> PassengerNode] /\ pe[q] = n /\ \A a \in PassengerAddr \ {q} : pe[a] = h.person[a]
    BY <1>7, <2>2, <2>6
  <2> HIDE DEF pe
  <2>8. u \in Heap
    BY <2>4, <2>7, HeapWrite
  <2>9. /\ u.person = pe /\ u.flight = h.flight /\ u.head = h.head
        /\ u.tail = h.tail /\ u.count = h.count /\ u.failed = h.failed
    BY <2>4 DEF Heap
  <2>10. FlightsSame(h, u, f)
    BY <2>9 DEF FlightsSame
  <2>11. \A a \in PassengerAddr \ {p} :
           IF k > 1 /\ a = s[k - 1] THEN u.person[a].next = At(s, k + 1) /\ Same(h, u, a)
                                    ELSE u.person[a] = h.person[a]
    BY <2>1, <2>6, <2>7, <2>9 DEF q, Same
  <2>12. TakenOut(h, u, f, s, k, p)
    BY <1>9, <2>9, <2>11 DEF TakenOut
  <2>13. u.person[p] = h.person[p]
    BY <1>6, <2>2, <2>7, <2>9
  <2> QED
    BY <2>8, <2>10, <2>12, <2>13 DEF u, s
<1> QED
  BY <1>8, <1>9

LEMMA ChangeSeatCases ==
  ASSUME NEW h, NEW L, NEW G, Shape(h, L, G), NEW f \in FlightAddr, Has(L, f), NEW old \in Int, NEW new \in Int
  PROVE  LET r == change_passenger_seat(h, f, old, new)
         IN \/ /\ r = h
               /\ new \notin 1..h.flight[f].seats \/ FindSeat(h, f, new) # Nil \/ FindSeat(h, f, old) = Nil
            \/ \E F \in [FlightAddr -> Seq(PassengerAddr)], p \in PassengerAddr :
                 /\ Shape(r, L, F) /\ FlightsSame(h, r, f) /\ SeatedOn(h, r, f, G, F, p)
                 /\ new \in 1..h.flight[f].seats /\ FindSeat(h, f, new) = Nil
                 /\ Has(G[f], p) /\ h.person[p].seat = old
                 /\ r.person[p].seat = new /\ r.person[p].who = h.person[p].who
<1> DEFINE p == FindSeat(h, f, old)
           u == Unlink(h, f, p)
           g == Reseated(u, p, new)
           r == change_passenger_seat(h, f, old, new)
           refused == new <= 0 \/ new > h.flight[f].seats \/ FindSeat(h, f, new) # Nil \/ p = Nil
           s == G[f]
<1>1. h \in Heap /\ FlightList(h, L) /\ SeatLists(h, G, {})
  BY DEF Shape
<1>2. /\ s \in Seq(PassengerAddr) /\ SeatList(h, f, s) /\ h.flight[f].seats \in Int
      /\ \A i \in 1..Len(s) : s[i] \in PassengerAddr
      /\ Distinct(s)
  BY <1>1, SeatsElements
<1>3. CASE refused
  <2>1. r = h
    BY <1>3 DEF change_passenger_seat
  <2> QED
    BY <1>2, <1>3, <2>1
<1>4. CASE ~refused
  <2>1. r = Insert(g, f, p)
    BY <1>4 DEF change_passenger_seat, Reseated
  <2>2. new \in 1..h.flight[f].seats /\ p # Nil /\ FindSeat(h, f, new) = Nil
    BY <1>2, <1>4
  <2>3. p \in PassengerAddr /\ Has(s, p) /\ h.person[p].seat = old
    BY <1>1, <1>2, <2>2, SeatFound
  <2> HIDE DEF p, r
  <2>4. PICK k \in 1..Len(s) : p = s[k]
    BY <2>3 DEF Has
  <2>5. u \in Heap /\ FlightsSame(h, u, f) /\ TakenOut(h, u, f, s, k, p) /\ u.person[p] = h.person[p]
    BY <1>1, <2>4, UnlinkIs
  <2> HIDE DEF u
  <2>6. /\ g \in Heap /\ g.flight = u.flight
        /\ g.head = u.head /\ g.tail = u.tail /\ g.count = u.count /\ g.failed = u.failed
        /\ g.person[p].seat = new /\ g.person[p].who = h.person[p].who
        /\ \A q \in PassengerAddr \ {p} : g.person[q] = u.person[q]
    <3>1. new \in Int /\ p \in PassengerAddr /\ u \in Heap
      BY <2>3, <2>5
    <3>2. /\ g \in Heap /\ g.flight = u.flight
          /\ g.head = u.head /\ g.tail = u.tail /\ g.count = u.count /\ g.failed = u.failed
          /\ g.person[p].seat = new /\ g.person[p].who = u.person[p].who
          /\ \A q \in PassengerAddr \ {p} : g.person[q] = u.person[q]
      BY ONLY <3>1, SeatWrite
    <3> QED
      BY <2>5, <3>2
  <2> HIDE DEF g
  <2>7. TakenOut(h, g, f, s, k, p)
    BY <2>5, <2>6 DEF TakenOut, Same
  <2>8. FlightsSame(h, g, f)
    BY <2>5, <2>6 DEF FlightsSame
  <2> DEFINE t == Removed(s, k)
             F == [G EXCEPT ![f] = t]
  <2>9. new \in Int /\ 1 <= new
    BY <1>2, <2>2
  <2>10. SeatLists(g, F, {p})
    BY <1>1, <2>4, <2>6, <2>7, <2>9, TakenKeeps
  <2>11. F[f] = t
    BY <1>1 DEF SeatLists
  <2>12. \A i \in 1..Len(F[f]) : g.person[F[f][i]].seat # g.person[p].seat
    <3> SUFFICES ASSUME NEW i \in 1..Len(t) PROVE g.person[t[i]].seat # new
      BY <2>6, <2>11
    <3>1. t \in Seq(PassengerAddr) /\ \A q : Has(t, q) <=> Has(s, q) /\ q # s[k]
      BY <1>2, RemovedIs
    <3>2. t[i] \in PassengerAddr \ {p} /\ Has(s, t[i])
      <4>1. t[i] \in PassengerAddr
        BY <3>1, ElementOfSeq
      <4>2. Has(t, t[i])
        BY DEF Has
      <4> QED
        BY <2>4, <3>1, <4>1, <4>2
    <3> HIDE DEF t
    <3>3. g.person[t[i]].seat = h.person[t[i]].seat
      BY <2>7, <3>2 DEF TakenOut, Same
    <3>4. \A j \in 1..Len(s) : h.person[s[j]].seat # new
      <4>1. Nil \notin PassengerAddr
        BY Addresses
      <4> QED
        BY <1>1, <1>2, <2>2, <4>1, SeatFound
    <3>5. h.person[t[i]].seat # new
      BY <3>2, <3>4 DEF Has
    <3> QED
      BY <3>3, <3>5
  <2>13. g.person[p].seat \in 1..g.flight[f].seats
    BY <2>2, <2>6, <2>8 DEF FlightsSame
  <2> HIDE DEF F
  <2>14. /\ r \in Heap /\ FlightsSame(g, r, f) /\ \A q \in PassengerAddr : Same(g, r, q)
         /\ \E j \in 0..Len(F[f]) : SeatLists(r, [F EXCEPT ![f] = Inserted(F[f], j, p)], {})
    BY <2>1, <2>3, <2>6, <2>10, <2>12, <2>13, InsertKeeps
  <2>15. PICK j \in 0..Len(F[f]) : SeatLists(r, [F EXCEPT ![f] = Inserted(F[f], j, p)], {})
    BY <2>14
  <2> DEFINE D == [F EXCEPT ![f] = Inserted(F[f], j, p)]
  <2>16. FlightsSame(h, r, f)
    BY <2>8, <2>14 DEF FlightsSame
  <2>17. Shape(r, L, D)
    <3>1. FlightList(r, L)
      BY <1>1, <2>14, <2>16, FlightsKept
    <3> QED
      BY <2>14, <2>15, <3>1 DEF Shape
  <2>18. SeatedOn(h, r, f, G, D, p)
    <3>1. F \in [FlightAddr -> Seq(PassengerAddr)] /\ G \in [FlightAddr -> Seq(PassengerAddr)]
      BY <1>1, <2>10 DEF SeatLists
    <3>2. D[f] = Inserted(F[f], j, p) /\ \A b \in FlightAddr \ {f} : D[b] = G[b]
      BY <3>1 DEF F
    <3>3. \A q : Has(D[f], q) <=> Has(F[f], q) \/ q = p
      <4>1. F[f] \in Seq(PassengerAddr)
        BY <3>1
      <4> QED
        BY <2>3, <3>2, <4>1, InsertedIs
    <3>4. \A q : Has(F[f], q) <=> Has(s, q) /\ q # p
      BY <1>2, <2>4, <2>11, RemovedIs
    <3>5. \A q : Has(D[f], q) <=> Has(s, q) \/ q = p
      BY <2>3, <3>3, <3>4
    <3>6. \A q \in PassengerAddr \ {p} : Same(h, r, q)
      BY <2>7, <2>14 DEF TakenOut, Same
    <3> QED
      BY <3>2, <3>5, <3>6 DEF SeatedOn
  <2>19. r.person[p].seat = new /\ r.person[p].who = h.person[p].who
    BY <2>3, <2>6, <2>14 DEF Same
  <2>20. D \in [FlightAddr -> Seq(PassengerAddr)]
    BY <2>17 DEF Shape, SeatLists
  <2> HIDE DEF D
  <2> QED
    BY <2>2, <2>3, <2>20, <2>16, <2>17, <2>18, <2>19 DEF r
<1> QED
  BY <1>3, <1>4

-----------------------------------------------------------------------------
(* Flights out of the list *)

SetNext(h, a, v) == [h EXCEPT !.flight[a].next = v]
SetPrev(h, a, v) == [h EXCEPT !.flight[a].prev = v]

(* r is h with next written at flight a. *)
SetNextDone(h, r, a, v) ==
  /\ r \in Heap /\ r.person = h.person /\ r.head = h.head /\ r.tail = h.tail
  /\ r.count = h.count /\ r.failed = h.failed
  /\ \A b \in FlightAddr :
       /\ r.flight[b].id = h.flight[b].id /\ r.flight[b].passengers = h.flight[b].passengers
       /\ r.flight[b].seats = h.flight[b].seats /\ r.flight[b].prev = h.flight[b].prev
       /\ r.flight[b].next = IF b = a THEN v ELSE h.flight[b].next
       /\ b # a => r.flight[b] = h.flight[b]

LEMMA SetNextIs ==
  ASSUME NEW h \in Heap, NEW a \in FlightAddr, NEW v \in FlightAddr \cup {Nil}
  PROVE  SetNextDone(h, SetNext(h, a, v), a, v)
<1> DEFINE n  == [h.flight[a] EXCEPT !.next = v]
           fl == [h.flight EXCEPT ![a] = n]
           r  == SetNext(h, a, v)
<1>1. h.flight \in [FlightAddr -> FlightNode] /\ h.flight[a] \in FlightNode
  BY DEF Heap
<1>2. r = [h EXCEPT !.flight = fl]
  BY <1>1 DEF Heap, SetNext
<1> HIDE DEF r
<1>3. n \in FlightNode
  BY <1>1, FlightWrite
<1>4. /\ n.id = h.flight[a].id /\ n.passengers = h.flight[a].passengers /\ n.seats = h.flight[a].seats
      /\ n.prev = h.flight[a].prev /\ n.next = v
  BY <1>1 DEF FlightNode
<1> HIDE DEF n
<1>5. fl \in [FlightAddr -> FlightNode] /\ fl[a] = n /\ \A b \in FlightAddr \ {a} : fl[b] = h.flight[b]
  BY <1>1, <1>3
<1> HIDE DEF fl
<1>6. r \in Heap
  BY <1>2, <1>5, HeapWrite
<1>7. /\ r.flight = fl /\ r.person = h.person /\ r.head = h.head
      /\ r.tail = h.tail /\ r.count = h.count /\ r.failed = h.failed
  BY <1>2 DEF Heap
<1> QED
  BY <1>4, <1>5, <1>6, <1>7 DEF r, SetNextDone

(* r is h with prev written at flight a. *)
SetPrevDone(h, r, a, v) ==
  /\ r \in Heap /\ r.person = h.person /\ r.head = h.head /\ r.tail = h.tail
  /\ r.count = h.count /\ r.failed = h.failed
  /\ \A b \in FlightAddr :
       /\ r.flight[b].id = h.flight[b].id /\ r.flight[b].passengers = h.flight[b].passengers
       /\ r.flight[b].seats = h.flight[b].seats /\ r.flight[b].next = h.flight[b].next
       /\ r.flight[b].prev = IF b = a THEN v ELSE h.flight[b].prev
       /\ b # a => r.flight[b] = h.flight[b]

LEMMA SetPrevIs ==
  ASSUME NEW h \in Heap, NEW a \in FlightAddr, NEW v \in FlightAddr \cup {Nil}
  PROVE  SetPrevDone(h, SetPrev(h, a, v), a, v)
<1> DEFINE n  == [h.flight[a] EXCEPT !.prev = v]
           fl == [h.flight EXCEPT ![a] = n]
           r  == SetPrev(h, a, v)
<1>1. h.flight \in [FlightAddr -> FlightNode] /\ h.flight[a] \in FlightNode
  BY DEF Heap
<1>2. r = [h EXCEPT !.flight = fl]
  BY <1>1 DEF Heap, SetPrev
<1> HIDE DEF r
<1>3. n \in FlightNode
  BY <1>1, FlightWrite
<1>4. /\ n.id = h.flight[a].id /\ n.passengers = h.flight[a].passengers /\ n.seats = h.flight[a].seats
      /\ n.next = h.flight[a].next /\ n.prev = v
  BY <1>1 DEF FlightNode
<1> HIDE DEF n
<1>5. fl \in [FlightAddr -> FlightNode] /\ fl[a] = n /\ \A b \in FlightAddr \ {a} : fl[b] = h.flight[b]
  BY <1>1, <1>3
<1> HIDE DEF fl
<1>6. r \in Heap
  BY <1>2, <1>5, HeapWrite
<1>7. /\ r.flight = fl /\ r.person = h.person /\ r.head = h.head
      /\ r.tail = h.tail /\ r.count = h.count /\ r.failed = h.failed
  BY <1>2 DEF Heap
<1> QED
  BY <1>4, <1>5, <1>6, <1>7 DEF r, SetPrevDone

(* u is h with the k-th flight of L taken out of the list. *)
FlightOut(h, u, L, k) ==
  /\ u.head = IF k = 1 THEN At(L, 2) ELSE h.head
  /\ u.tail = IF k = Len(L) THEN At(L, k - 1) ELSE h.tail
  /\ u.person = h.person /\ u.count = h.count /\ u.failed = h.failed
  /\ \A b \in FlightAddr :
       /\ u.flight[b].id = h.flight[b].id /\ u.flight[b].passengers = h.flight[b].passengers
       /\ u.flight[b].seats = h.flight[b].seats
       /\ u.flight[b].next = IF b = At(L, k - 1) THEN At(L, k + 1) ELSE h.flight[b].next
       /\ u.flight[b].prev = IF b = At(L, k + 1) THEN At(L, k - 1) ELSE h.flight[b].prev
       /\ ~Has(L, b) => u.flight[b] = h.flight[b]

LEMMA UnlinkFlightIs ==
  ASSUME NEW h \in Heap, NEW L, FlightList(h, L), NEW k \in 1..Len(L)
  PROVE  LET u == UnlinkFlight(h, L[k])
         IN u \in Heap /\ FlightOut(h, u, L, k)
<1> DEFINE f == L[k]
           pv == At(L, k - 1)
           nx == At(L, k + 1)
           before == IF pv # Nil THEN SetNext(h, pv, nx) ELSE [h EXCEPT !.head = nx]
           u == UnlinkFlight(h, f)
<1>1. /\ L \in Seq(FlightAddr) /\ Len(L) \in Nat
      /\ \A i \in 1..Len(L) : L[i] \in FlightAddr /\ Has(L, L[i])
      /\ \A i \in Int : At(L, i) \in FlightAddr \cup {Nil} /\ (At(L, i) = Nil <=> i \notin 1..Len(L))
  BY FlightsElements
<1>2. k \in Int /\ k - 1 \in Int /\ k + 1 \in Int
  BY <1>1
<1>3. pv \in FlightAddr \cup {Nil} /\ nx \in FlightAddr \cup {Nil} /\ (pv = Nil <=> k = 1) /\ (nx = Nil <=> k = Len(L))
  BY <1>1, <1>2
<1>4. h.flight[f].prev = pv /\ h.flight[f].next = nx
  <2>1. f \in FlightAddr
    BY <1>1
  <2>2. h.flight[f].prev = pv /\ NextFlights(h)[f] = nx
    BY DEF FlightList, Chain
  <2> QED
    BY <2>1, <2>2 DEF NextFlights
<1>5. u = IF nx # Nil THEN SetPrev(before, nx, pv) ELSE [before EXCEPT !.tail = pv]
  BY <1>4 DEF UnlinkFlight, SetNext, SetPrev
<1>6. (pv # Nil => Has(L, pv)) /\ (nx # Nil => Has(L, nx)) /\ (pv # Nil => pv # nx)
  <2>1. pv # Nil => k - 1 \in 1..Len(L) /\ pv = L[k - 1]
    BY DEF At
  <2>2. nx # Nil => k + 1 \in 1..Len(L) /\ nx = L[k + 1]
    BY DEF At
  <2>3. k - 1 # k + 1
    BY <1>2
  <2>4. \A i, j \in 1..Len(L) : L[i] = L[j] => i = j
    BY DEF FlightList, Distinct
  <2> HIDE DEF pv, nx
  <2> QED
    BY <1>1, <2>1, <2>2, <2>3, <2>4
<1>7. Nil \notin FlightAddr /\ (k = 1 => nx = At(L, 2))
  BY Addresses
<1> HIDE DEF u, pv, nx, f
<1>8. /\ before \in Heap /\ before.head = (IF pv = Nil THEN nx ELSE h.head) /\ before.tail = h.tail
      /\ before.person = h.person /\ before.count = h.count /\ before.failed = h.failed
      /\ \A b \in FlightAddr :
           /\ before.flight[b].id = h.flight[b].id /\ before.flight[b].passengers = h.flight[b].passengers
           /\ before.flight[b].seats = h.flight[b].seats /\ before.flight[b].prev = h.flight[b].prev
           /\ before.flight[b].next = IF b = pv THEN nx ELSE h.flight[b].next
           /\ b # pv => before.flight[b] = h.flight[b]
  <2>1. CASE pv # Nil
    <3>0. pv \in FlightAddr
      BY <1>3, <2>1
    <3>1. before = SetNext(h, pv, nx)
      BY <2>1
    <3> HIDE DEF before
    <3>2. SetNextDone(h, before, pv, nx)
      BY <1>3, <3>0, <3>1, SetNextIs
    <3> QED
      BY <2>1, <3>2 DEF SetNextDone
  <2>2. CASE pv = Nil
    <3>1. before = [h EXCEPT !.head = nx]
      BY <2>2
    <3> HIDE DEF before
    <3>2. before \in Heap
      BY <1>3, <3>1, HeapWrite
    <3>3. /\ before.head = nx /\ before.tail = h.tail /\ before.flight = h.flight
          /\ before.person = h.person /\ before.count = h.count /\ before.failed = h.failed
      BY <3>1 DEF Heap
    <3> QED
      BY <1>7, <2>2, <3>2, <3>3
  <2> QED
    BY <2>1, <2>2
<1> HIDE DEF before
<1>9. /\ u \in Heap /\ u.head = before.head /\ u.tail = (IF nx = Nil THEN pv ELSE before.tail)
      /\ u.person = before.person /\ u.count = before.count /\ u.failed = before.failed
      /\ \A b \in FlightAddr :
           /\ u.flight[b].id = before.flight[b].id /\ u.flight[b].passengers = before.flight[b].passengers
           /\ u.flight[b].seats = before.flight[b].seats /\ u.flight[b].next = before.flight[b].next
           /\ u.flight[b].prev = IF b = nx THEN pv ELSE before.flight[b].prev
           /\ b # nx => u.flight[b] = before.flight[b]
  <2>1. CASE nx # Nil
    <3>0. nx \in FlightAddr
      BY <1>3, <2>1
    <3>1. u = SetPrev(before, nx, pv)
      BY <1>5, <2>1
    <3>2. SetPrevDone(before, u, nx, pv)
      BY <1>3, <1>8, <3>0, <3>1, SetPrevIs
    <3> QED
      BY <2>1, <3>2 DEF SetPrevDone
  <2>2. CASE nx = Nil
    <3>1. u = [before EXCEPT !.tail = pv]
      BY <1>5, <2>2
    <3>2. u \in Heap
      BY <1>3, <1>8, <3>1, HeapWrite
    <3>3. /\ u.tail = pv /\ u.head = before.head /\ u.flight = before.flight
          /\ u.person = before.person /\ u.count = before.count /\ u.failed = before.failed
      BY <1>8, <3>1 DEF Heap
    <3> QED
      BY <1>7, <2>2, <3>2, <3>3
  <2> QED
    BY <2>1, <2>2
<1>10. ASSUME NEW b \in FlightAddr
       PROVE  /\ u.flight[b].id = h.flight[b].id /\ u.flight[b].passengers = h.flight[b].passengers
              /\ u.flight[b].seats = h.flight[b].seats
              /\ u.flight[b].next = IF b = pv THEN nx ELSE h.flight[b].next
              /\ u.flight[b].prev = IF b = nx THEN pv ELSE h.flight[b].prev
              /\ ~Has(L, b) => u.flight[b] = h.flight[b]
  <2>1. ~Has(L, b) => b # pv /\ b # nx
    BY <1>6, <1>7
  <2> QED
    BY <1>8, <1>9, <2>1
<1>11. u.head = (IF k = 1 THEN At(L, 2) ELSE h.head) /\ u.tail = (IF k = Len(L) THEN pv ELSE h.tail)
  BY <1>3, <1>7, <1>8, <1>9
<1>12. FlightOut(h, u, L, k)
  BY <1>8, <1>9, <1>10, <1>11 DEF FlightOut, pv, nx
<1> QED
  BY <1>9, <1>12 DEF u, f

LEMMA RemovedAt ==
  ASSUME NEW S, NEW s \in Seq(S), Distinct(s), NEW k \in 1..Len(s)
  PROVE  \A i \in Int : At(Removed(s, k), i) = IF i < k THEN At(s, i) ELSE At(s, i + 1)
<1> DEFINE t == Removed(s, k)
<1>1. Len(t) = Len(s) - 1 /\ \A i \in 1..Len(t) : t[i] = IF i < k THEN s[i] ELSE s[i + 1]
  BY RemovedIs
<1>2. Len(s) \in Nat /\ k \in Int
  BY LenProperties
<1> HIDE DEF t
<1> SUFFICES ASSUME NEW i \in Int PROVE At(t, i) = IF i < k THEN At(s, i) ELSE At(s, i + 1)
  BY DEF t
<1>3. CASE i < k
  <2>1. i \in 1..Len(t) <=> i \in 1..Len(s)
    BY <1>1, <1>2, <1>3
  <2> QED
    BY <1>1, <1>3, <2>1 DEF At
<1>4. CASE ~(i < k)
  <2>1. i \in 1..Len(t) <=> i + 1 \in 1..Len(s)
    BY <1>1, <1>2, <1>4
  <2> QED
    BY <1>1, <1>4, <2>1 DEF At
<1> QED
  BY <1>3, <1>4

LEMMA NoSeats ==
  ASSUME NEW r, NEW f, r.flight[f].passengers = Nil
  PROVE  SeatList(r, f, <<>>)
<1>1. At(<<>>, 1) = Nil /\ 1..Len(<<>>) = {}
  BY DEF At
<1> QED
  BY <1>1 DEF SeatList, Chain

(* The nodes of a list, as the set the model frees. *)
LEMMA RangeHas ==
  ASSUME NEW S, NEW s \in Seq(S)
  PROVE  \A a : a \in Range(s) <=> Has(s, a)
<1>1. DOMAIN s = 1..Len(s)
  BY LenProperties
<1> QED
  BY <1>1 DEF Range, Has

(* r is h without the k-th flight and its passengers. *)
FlightGone(h, r, L, k, s) ==
  /\ r \in Heap
  /\ r.head = IF k = 1 THEN At(L, 2) ELSE h.head
  /\ r.tail = IF k = Len(L) THEN At(L, k - 1) ELSE h.tail
  /\ r.count = h.count - 1 /\ r.failed = h.failed
  /\ r.flight[L[k]] = NoFlight
  /\ \A b \in FlightAddr \ {L[k]} :
       /\ r.flight[b].id = h.flight[b].id /\ r.flight[b].passengers = h.flight[b].passengers
       /\ r.flight[b].seats = h.flight[b].seats
       /\ r.flight[b].next = IF b = At(L, k - 1) THEN At(L, k + 1) ELSE h.flight[b].next
       /\ r.flight[b].prev = IF b = At(L, k + 1) THEN At(L, k - 1) ELSE h.flight[b].prev
       /\ ~Has(L, b) => r.flight[b] = h.flight[b]
  /\ \A q \in PassengerAddr : r.person[q] = IF Has(s, q) THEN NoPassenger ELSE h.person[q]

Emptied(g, f) == [g EXCEPT !.flight[f] = NoFlight, !.count = @ - 1]

LEMMA EmptiedIs ==
  ASSUME NEW g \in Heap, NEW f \in FlightAddr
  PROVE  LET r == Emptied(g, f)
         IN /\ r \in Heap /\ r.head = g.head /\ r.tail = g.tail /\ r.count = g.count - 1
            /\ r.failed = g.failed /\ r.person = g.person /\ r.flight = [g.flight EXCEPT ![f] = NoFlight]
<1> DEFINE fl == [g.flight EXCEPT ![f] = NoFlight]
           g1 == [g EXCEPT !.flight = fl]
           r  == Emptied(g, f)
<1>1. g.flight \in [FlightAddr -> FlightNode] /\ g.count - 1 \in Int
  BY DEF Heap
<1>2. r = [g1 EXCEPT !.count = g.count - 1]
  BY DEF Heap, Emptied
<1>3. /\ r.head = g.head /\ r.tail = g.tail /\ r.count = g.count - 1
      /\ r.failed = g.failed /\ r.person = g.person /\ r.flight = fl
  BY DEF Heap, Emptied
<1> HIDE DEF r
<1>4. fl \in [FlightAddr -> FlightNode]
  BY <1>1, NoNodes
<1>5. g1 \in Heap
  BY <1>4, HeapWrite
<1> HIDE DEF g1, fl
<1>6. r \in Heap
  BY <1>1, <1>2, <1>5, HeapWrite
<1> QED
  BY <1>3, <1>6 DEF r, fl

LEMMA RemoveFlightIs ==
  ASSUME NEW h, NEW L, NEW G, Shape(h, L, G), NEW k \in 1..Len(L)
  PROVE  FlightGone(h, Emptied(FreePassengers(UnlinkFlight(h, L[k]), L[k]), L[k]), L, k, G[L[k]])
<1> DEFINE f == L[k]
           s == G[f]
           u == UnlinkFlight(h, f)
           g == FreePassengers(u, f)
           r == Emptied(g, f)
           pe == [a \in PassengerAddr |-> IF a \in Range(s) THEN NoPassenger ELSE u.person[a]]
<1>1. h \in Heap /\ FlightList(h, L) /\ SeatLists(h, G, {})
  BY DEF Shape
<1>2. f \in FlightAddr
  BY <1>1, FlightsElements
<1>3. u \in Heap /\ FlightOut(h, u, L, k)
  BY <1>1, UnlinkFlightIs
<1>4. s \in Seq(PassengerAddr) /\ SeatList(h, f, s)
  BY <1>1, <1>2 DEF SeatLists
<1> HIDE DEF u, s
<1>5. PassengersOf(u, f) = s
  <2>1. SeatList(u, f, s)
    BY <1>2, <1>3, <1>4 DEF SeatList, NextPassengers, FlightOut
  <2> QED
    BY <1>2, <1>3, <1>4, <2>1, PassengersAre
<1>6. g = [u EXCEPT !.person = pe]
  BY <1>3, <1>5 DEF FreePassengers, Heap
<1>7. pe \in [PassengerAddr -> PassengerNode] /\ \A q \in PassengerAddr : pe[q] = IF Has(s, q) THEN NoPassenger ELSE u.person[q]
  <2>1. u.person \in [PassengerAddr -> PassengerNode]
    BY <1>3 DEF Heap
  <2>2. \A a : a \in Range(s) <=> Has(s, a)
    BY <1>4, RangeHas
  <2> QED
    BY <2>1, <2>2, NoNodes
<1> HIDE DEF g, pe
<1>8. /\ g \in Heap /\ g.person = pe /\ g.flight = u.flight /\ g.head = u.head
      /\ g.tail = u.tail /\ g.count = u.count /\ g.failed = u.failed
  <2>1. g \in Heap
    BY <1>3, <1>6, <1>7, HeapWrite
  <2> QED
    BY <1>3, <1>6, <2>1 DEF Heap
<1>9. /\ r \in Heap /\ r.head = g.head /\ r.tail = g.tail /\ r.count = g.count - 1
      /\ r.failed = g.failed /\ r.person = g.person /\ r.flight = [g.flight EXCEPT ![f] = NoFlight]
  BY <1>2, <1>8, EmptiedIs
<1>10. r.flight[f] = NoFlight /\ \A b \in FlightAddr \ {f} : r.flight[b] = u.flight[b]
  <2>1. g.flight \in [FlightAddr -> FlightNode]
    BY <1>8 DEF Heap
  <2> QED
    BY <1>2, <1>8, <1>9, <2>1
<1> HIDE DEF r
<1>11. \A q \in PassengerAddr : r.person[q] = IF Has(s, q) THEN NoPassenger ELSE h.person[q]
  BY <1>3, <1>7, <1>8, <1>9 DEF FlightOut
<1>12. FlightGone(h, r, L, k, s)
  BY <1>3, <1>8, <1>9, <1>10, <1>11 DEF FlightGone, FlightOut
<1> QED
  BY <1>12 DEF r, g, u, s

LEMMA GoneKeeps ==
  ASSUME NEW h, NEW L, NEW G, Shape(h, L, G), NEW k \in 1..Len(L), NEW r, FlightGone(h, r, L, k, G[L[k]])
  PROVE  Shape(r, Removed(L, k), [G EXCEPT ![L[k]] = <<>>])
<1> DEFINE f == L[k]
           s == G[f]
           K == Removed(L, k)
           F == [G EXCEPT ![f] = <<>>]
<1>1. h \in Heap /\ FlightList(h, L) /\ SeatLists(h, G, {}) /\ r \in Heap
  BY DEF Shape, FlightGone
<1>2. /\ L \in Seq(FlightAddr) /\ Len(L) \in Nat /\ Distinct(L)
      /\ \A i \in 1..Len(L) : L[i] \in FlightAddr /\ Has(L, L[i])
      /\ \A i \in Int : At(L, i) \in FlightAddr \cup {Nil} /\ (At(L, i) = Nil <=> i \notin 1..Len(L))
  BY <1>1, FlightsElements DEF FlightList
<1>3. /\ K \in Seq(FlightAddr) /\ Len(K) = Len(L) - 1 /\ Distinct(K)
      /\ \A i \in 1..Len(K) : K[i] = IF i < k THEN L[i] ELSE L[i + 1]
      /\ \A b : Has(K, b) <=> Has(L, b) /\ b # f
  <2>1. L \in Seq(FlightAddr) /\ Distinct(L)
    BY <1>2
  <2> QED
    BY <2>1, RemovedIs
<1>4. \A i \in Int : At(K, i) = IF i < k THEN At(L, i) ELSE At(L, i + 1)
  BY <1>2, RemovedAt
<1>5. k \in Int /\ f \in FlightAddr /\ Has(L, f) /\ G \in [FlightAddr -> Seq(PassengerAddr)]
  BY <1>1, <1>2 DEF SeatLists
<1>6. F \in [FlightAddr -> Seq(PassengerAddr)] /\ F[f] = <<>> /\ \A b \in FlightAddr \ {f} : F[b] = G[b]
  <2>1. <<>> \in Seq(PassengerAddr)
    BY EmptySeq
  <2> QED
    BY <1>5, <2>1
<1> HIDE DEF K, F, s, f
<1>7. \A i, j \in 1..Len(L) : L[i] = L[j] => i = j
  BY <1>2 DEF Distinct
<1>8. ASSUME NEW i \in 1..Len(L), i # k
      PROVE  /\ L[i] \in FlightAddr \ {f}
             /\ r.flight[L[i]].id = h.flight[L[i]].id /\ r.flight[L[i]].id # ""
             /\ r.flight[L[i]].next = IF i = k - 1 THEN At(L, k + 1) ELSE At(L, i + 1)
             /\ r.flight[L[i]].prev = IF i = k + 1 THEN At(L, k - 1) ELSE At(L, i - 1)
  <2>1. L[i] \in FlightAddr \ {f}
    BY <1>2, <1>7, <1>8 DEF f
  <2>2. NextFlights(h)[L[i]] = At(L, i + 1) /\ h.flight[L[i]].prev = At(L, i - 1) /\ h.flight[L[i]].id # ""
    BY <1>1 DEF FlightList, Chain
  <2>3. h.flight[L[i]].next = At(L, i + 1)
    BY <2>1, <2>2 DEF NextFlights
  <2>4. \A j \in Int : L[i] = At(L, j) <=> i = j
    <3> SUFFICES ASSUME NEW j \in Int PROVE L[i] = At(L, j) <=> i = j
      OBVIOUS
    <3>1. CASE j \in 1..Len(L)
      BY <1>7, <3>1 DEF At
    <3>2. CASE j \notin 1..Len(L)
      BY <1>2, <3>2, Addresses DEF At
    <3> QED
      BY <3>1, <3>2
  <2>5. /\ r.flight[L[i]].id = h.flight[L[i]].id
        /\ r.flight[L[i]].next = IF L[i] = At(L, k - 1) THEN At(L, k + 1) ELSE h.flight[L[i]].next
        /\ r.flight[L[i]].prev = IF L[i] = At(L, k + 1) THEN At(L, k - 1) ELSE h.flight[L[i]].prev
    BY <2>1 DEF FlightGone, f
  <2>6. k - 1 \in Int /\ k + 1 \in Int
    BY <1>5
  <2> QED
    BY <2>1, <2>2, <2>3, <2>4, <2>5, <2>6
<1>9. r.head = At(K, 1)
  <2>1. r.head = IF k = 1 THEN At(L, 2) ELSE At(L, 1)
    BY <1>1 DEF FlightGone, FlightList, Chain
  <2>2. (1 < k <=> k # 1) /\ 1 \in Int /\ 1 + 1 = 2
    BY <1>2
  <2>3. At(K, 1) = IF 1 < k THEN At(L, 1) ELSE At(L, 2)
    BY <1>4, <2>2
  <2> QED
    BY <2>1, <2>2, <2>3
<1>10. r.tail = At(K, Len(K)) /\ r.count = Len(K)
  <2>1. r.tail = (IF k = Len(L) THEN At(L, k - 1) ELSE At(L, Len(L))) /\ r.count = Len(L) - 1
    BY <1>1 DEF FlightGone, FlightList
  <2>2. Len(K) \in Int /\ (Len(K) < k <=> k = Len(L)) /\ Len(K) + 1 = Len(L)
    BY <1>2, <1>3
  <2>3. At(K, Len(K)) = IF k = Len(L) THEN At(L, Len(K)) ELSE At(L, Len(L))
    BY <1>4, <2>2
  <2>4. k = Len(L) => k - 1 = Len(K)
    BY <1>3
  <2> QED
    BY <1>3, <2>1, <2>3, <2>4
<1>11. ASSUME NEW i \in 1..Len(K)
       PROVE  NextFlights(r)[K[i]] = At(K, i + 1) /\ r.flight[K[i]].prev = At(K, i - 1) /\ r.flight[K[i]].id # ""
  <2>1. CASE i < k
    <3>0. i \in 1..Len(L) /\ i # k /\ i # k + 1
      <4>1. Len(K) = Len(L) - 1 /\ Len(L) \in Nat
        BY <1>2, <1>3
      <4>2. i \in Int /\ 1 <= i /\ i <= Len(L) - 1
        BY <4>1
      <4> QED
        BY <1>5, <2>1, <4>1, <4>2
    <3>1. i \in 1..Len(L) /\ i # k /\ K[i] = L[i] /\ i # k + 1
      BY <1>3, <2>1, <3>0
    <3>2. At(K, i + 1) = IF i = k - 1 THEN At(L, k + 1) ELSE At(L, i + 1)
      <4>1. (i + 1 < k <=> i # k - 1) /\ (i = k - 1 => (i + 1) + 1 = k + 1) /\ i + 1 \in Int
        BY <1>5, <2>1
      <4> QED
        BY <1>4, <4>1
    <3>3. At(K, i - 1) = At(L, i - 1)
      <4>1. i - 1 < k /\ i - 1 \in Int
        BY <1>5, <2>1
      <4> QED
        BY <1>4, <4>1
    <3> QED
      BY <1>8, <3>1, <3>2, <3>3 DEF NextFlights
  <2>2. CASE ~(i < k)
    <3>1. i + 1 \in 1..Len(L) /\ i + 1 # k /\ K[i] = L[i + 1] /\ i + 1 # k - 1
      BY <1>2, <1>3, <1>5, <2>2
    <3>2. At(K, i + 1) = At(L, (i + 1) + 1)
      <4>1. ~(i + 1 < k) /\ i + 1 \in Int
        BY <1>5, <2>2
      <4> QED
        BY <1>4, <4>1
    <3>3. At(K, i - 1) = IF i + 1 = k + 1 THEN At(L, k - 1) ELSE At(L, (i + 1) - 1)
      <4>1. (i - 1 < k <=> i + 1 = k + 1) /\ i - 1 \in Int /\ (i - 1) + 1 = (i + 1) - 1
            /\ (i + 1 = k + 1 => i - 1 = k - 1)
        BY <1>5, <2>2
      <4> QED
        BY <1>4, <4>1
    <3> QED
      BY <1>8, <3>1, <3>2, <3>3 DEF NextFlights
  <2> QED
    BY <2>1, <2>2
<1>12. ASSUME NEW b \in FlightAddr
       PROVE  r.flight[b] # NoFlight <=> Has(K, b)
  <2>1. CASE b = f
    BY <1>3, <2>1 DEF FlightGone, f
  <2>2. CASE b # f /\ Has(L, b)
    <3>1. PICK i \in 1..Len(L) : L[i] = b
      BY <2>2 DEF Has
    <3>2. r.flight[b].id # ""
      BY <1>8, <2>2, <3>1 DEF f
    <3>3. NoFlight.id = ""
      BY DEF NoFlight
    <3>4. r.flight[b] # NoFlight
      BY <3>2, <3>3
    <3> QED
      BY <1>3, <2>2, <3>4
  <2>3. CASE b # f /\ ~Has(L, b)
    <3>1. r.flight[b] = h.flight[b]
      BY <2>3 DEF FlightGone, f
    <3> QED
      BY <1>1, <1>3, <2>3, <3>1 DEF FlightList
  <2> QED
    BY <2>1, <2>2, <2>3
<1>13. FlightList(r, K)
  BY <1>3, <1>9, <1>10, <1>11, <1>12 DEF FlightList, Chain
<1>14. ASSUME NEW b \in FlightAddr
       PROVE  SeatList(r, b, F[b])
  <2>1. CASE b = f
    <3>1. r.flight[f].passengers = Nil
      <4>1. NoFlight.passengers = Nil
        BY DEF NoFlight
      <4> QED
        BY <4>1 DEF FlightGone, f
    <3> QED
      BY <1>6, <2>1, <3>1, NoSeats
  <2>2. CASE b # f
    <3>1. /\ G[b] \in Seq(PassengerAddr) /\ SeatList(h, b, G[b])
          /\ \A i \in 1..Len(G[b]) : G[b][i] \in PassengerAddr /\ Has(G[b], G[b][i])
      BY <1>1, SeatsElements
    <3>2. \A i \in 1..Len(G[b]) : r.person[G[b][i]] = h.person[G[b][i]]
      <4> SUFFICES ASSUME NEW i \in 1..Len(G[b]) PROVE r.person[G[b][i]] = h.person[G[b][i]]
        OBVIOUS
      <4>1. ~Has(s, G[b][i])
        BY <1>1, <1>5, <2>2, <3>1 DEF SeatLists, s
      <4> QED
        BY <3>1, <4>1 DEF FlightGone, s, f
    <3>3. r.flight[b].passengers = h.flight[b].passengers /\ r.flight[b].seats = h.flight[b].seats
      BY <2>2 DEF FlightGone, f
    <3>4. SeatList(r, b, G[b])
      BY <3>1, <3>2, <3>3, SeatListKept
    <3> QED
      BY <1>6, <2>2, <3>4
  <2> QED
    BY <2>1, <2>2
<1>15. \A q : ~Has(<<>>, q)
  BY DEF Has
<1>16. ASSUME NEW b \in FlightAddr, NEW c \in FlightAddr, b # c, NEW q \in PassengerAddr
       PROVE  ~(Has(F[b], q) /\ Has(F[c], q))
  <2>1. ~(Has(G[b], q) /\ Has(G[c], q))
    BY <1>1, <1>16 DEF SeatLists
  <2> QED
    BY <1>6, <1>15, <2>1
<1>17. ASSUME NEW q \in PassengerAddr
       PROVE  r.person[q] # NoPassenger <=> \E b \in FlightAddr : Has(F[b], q)
  <2>1. h.person[q] # NoPassenger <=> \E b \in FlightAddr : Has(G[b], q)
    BY <1>1 DEF SeatLists
  <2>2. r.person[q] = IF Has(s, q) THEN NoPassenger ELSE h.person[q]
    BY DEF FlightGone, s, f
  <2>3. CASE Has(s, q)
    <3>1. \A b \in FlightAddr \ {f} : ~Has(G[b], q)
      BY <1>1, <1>5, <2>3 DEF SeatLists, s
    <3> QED
      BY <1>6, <1>15, <2>2, <2>3, <3>1
  <2>4. CASE ~Has(s, q)
    <3>1. (\E b \in FlightAddr : Has(G[b], q)) <=> \E b \in FlightAddr : Has(F[b], q)
      BY <1>5, <1>6, <1>15, <2>4 DEF s
    <3> QED
      BY <2>1, <2>2, <2>4, <3>1
  <2> QED
    BY <2>3, <2>4
<1>18. SeatLists(r, F, {})
  BY <1>6, <1>14, <1>16, <1>17 DEF SeatLists
<1> QED
  BY <1>1, <1>13, <1>18 DEF Shape, K, F, f

LEMMA RemoveFlightKeeps ==
  ASSUME NEW h, NEW L, NEW G, Shape(h, L, G), NEW id
  PROVE  \E K, F : Shape(remove_flight(h, id), K, F)
<1> DEFINE f == FindFlight(h, id)
           r == remove_flight(h, id)
<1>1. h \in Heap /\ FlightList(h, L)
  BY DEF Shape
<1>2. r = IF f = Nil THEN h ELSE Emptied(FreePassengers(UnlinkFlight(h, f), f), f)
  BY DEF remove_flight, Emptied
<1>3. f = Nil \/ Has(L, f)
  BY <1>1, FlightFound
<1> HIDE DEF f, r
<1>4. CASE f = Nil
  BY <1>2, <1>4 DEF r
<1>5. CASE f # Nil
  <2>1. PICK k \in 1..Len(L) : L[k] = f
    BY <1>3, <1>5 DEF Has
  <2>2. FlightGone(h, r, L, k, G[L[k]])
    BY <1>2, <1>5, <2>1, RemoveFlightIs
  <2>3. Shape(r, Removed(L, k), [G EXCEPT ![L[k]] = <<>>])
    BY <2>2, GoneKeeps
  <2> QED
    BY <2>3 DEF r
<1> QED
  BY <1>4, <1>5

-----------------------------------------------------------------------------
(* Everything freed, and the sample data *)

(* A flight that is not in the list has no passengers. *)
LEMMA NoPassengersOf ==
  ASSUME NEW h, NEW L, NEW G, Shape(h, L, G), NEW f \in FlightAddr, ~Has(L, f)
  PROVE  \A q : ~Has(G[f], q)
<1>1. h \in Heap /\ FlightList(h, L) /\ SeatLists(h, G, {})
  BY DEF Shape
<1>2. h.flight[f] = NoFlight
  BY <1>1 DEF FlightList
<1>3. NoFlight.passengers = Nil
  BY DEF NoFlight
<1>4. At(G[f], 1) = Nil
  BY <1>1, <1>2, <1>3, SeatsElements
<1>5. 1 \notin 1..Len(G[f]) /\ Len(G[f]) \in Nat
  BY <1>1, <1>4, SeatsElements
<1> QED
  BY <1>5 DEF Has

LEMMA NothingShape ==
  ASSUME NEW r \in Heap, r.head = Nil, r.tail = Nil, r.count = 0,
         \A a \in FlightAddr : r.flight[a] = NoFlight,
         \A q \in PassengerAddr : r.person[q] = NoPassenger
  PROVE  Shape(r, <<>>, [f \in FlightAddr |-> <<>>])
<1> DEFINE G == [f \in FlightAddr |-> <<>>]
<1>1. \A S : <<>> \in Seq(S) /\ Len(<<>>) = 0
  BY EmptySeq
<1>2. (\A i : At(<<>>, i) = Nil) /\ (\A q : ~Has(<<>>, q)) /\ 1..Len(<<>>) = {}
  BY <1>1 DEF At, Has
<1>3. FlightList(r, <<>>)
  BY <1>1, <1>2 DEF FlightList, Chain, Distinct
<1>4. \A f \in FlightAddr : SeatList(r, f, <<>>)
  <2>1. NoFlight.passengers = Nil
    BY DEF NoFlight
  <2> QED
    BY <2>1, NoSeats
<1>5. SeatLists(r, G, {})
  BY <1>1, <1>2, <1>4 DEF SeatLists
<1> QED
  BY <1>3, <1>5 DEF Shape

LEMMA EmptyShape == Shape(EmptyMemory, <<>>, [f \in FlightAddr |-> <<>>])
<1> DEFINE e == EmptyMemory
<1>1. /\ e.head = Nil /\ e.tail = Nil /\ e.count = 0 /\ e.failed = FALSE
      /\ e.flight = [a \in FlightAddr |-> NoFlight] /\ e.person = [a \in PassengerAddr |-> NoPassenger]
  BY DEF EmptyMemory
<1>2. e.flight \in [FlightAddr -> FlightNode] /\ e.person \in [PassengerAddr -> PassengerNode]
  BY <1>1, NoNodes
<1>3. e \in Heap
  <2>1. 0 \in Int /\ Nil \in FlightAddr \cup {Nil}
    OBVIOUS
  <2>2. [a \in FlightAddr |-> NoFlight] \in [FlightAddr -> FlightNode]
    BY NoNodes
  <2>3. [a \in PassengerAddr |-> NoPassenger] \in [PassengerAddr -> PassengerNode]
    BY NoNodes
  <2> QED
    BY <2>1, <2>2, <2>3 DEF Heap, EmptyMemory
<1> HIDE DEF e
<1>4. \A a \in FlightAddr : e.flight[a] = NoFlight
  BY <1>1
<1>5. \A q \in PassengerAddr : e.person[q] = NoPassenger
  BY <1>1
<1>6. Shape(e, <<>>, [f \in FlightAddr |-> <<>>])
  BY <1>1, <1>3, <1>4, <1>5, NothingShape
<1> QED
  BY <1>6 DEF e

LEMMA FreeKeeps ==
  ASSUME NEW h, NEW L, NEW G, Shape(h, L, G)
  PROVE  Shape(free_flight_departure_list(h), <<>>, [f \in FlightAddr |-> <<>>])
<1> DEFINE list == Range(FlightsOf(h))
           gone == UNION {Range(PassengersOf(h, f)) : f \in list}
           fl == [a \in FlightAddr |-> IF a \in list THEN NoFlight ELSE h.flight[a]]
           pe == [a \in PassengerAddr |-> IF a \in gone THEN NoPassenger ELSE h.person[a]]
           h1 == [h EXCEPT !.flight = fl]
           h2 == [h1 EXCEPT !.person = pe]
           h3 == [h2 EXCEPT !.head = Nil]
           h4 == [h3 EXCEPT !.tail = Nil]
           r  == free_flight_departure_list(h)
<1>1. h \in Heap /\ FlightList(h, L) /\ SeatLists(h, G, {}) /\ FlightsOf(h) = L /\ L \in Seq(FlightAddr)
  BY FlightsAre DEF Shape, FlightList
<1>2. \A a : a \in list <=> Has(L, a)
  BY <1>1, RangeHas
<1>3. r = [h4 EXCEPT !.count = 0]
  BY <1>1 DEF free_flight_departure_list, Heap
<1>4. /\ r.flight = fl /\ r.person = pe /\ r.head = Nil /\ r.tail = Nil /\ r.count = 0
  BY <1>1 DEF free_flight_departure_list, Heap
<1> HIDE DEF r
<1>5. fl \in [FlightAddr -> FlightNode] /\ \A a \in FlightAddr : fl[a] = NoFlight
  <2>1. h.flight \in [FlightAddr -> FlightNode]
    BY <1>1 DEF Heap
  <2>2. \A a \in FlightAddr : fl[a] = NoFlight
    BY <1>1, <1>2 DEF FlightList
  <2> QED
    BY <2>2, NoNodes
<1>6. \A f \in FlightAddr : G[f] \in Seq(PassengerAddr) /\ PassengersOf(h, f) = G[f]
  BY <1>1, PassengersAre DEF SeatLists
<1>7. pe \in [PassengerAddr -> PassengerNode] /\ \A q \in PassengerAddr : pe[q] = NoPassenger
  <2>1. ASSUME NEW q \in PassengerAddr PROVE pe[q] = NoPassenger
    <3>1. CASE h.person[q] # NoPassenger
      <4>1. PICK f \in FlightAddr : Has(G[f], q)
        BY <1>1, <3>1 DEF SeatLists
      <4>2. f \in list
        BY <1>2, <4>1, NoPassengersOf
      <4>3. q \in Range(PassengersOf(h, f))
        BY <1>6, <4>1, RangeHas
      <4> HIDE DEF list
      <4>4. q \in gone
        BY <4>2, <4>3
      <4> HIDE DEF gone
      <4> QED
        BY <4>4
    <3>2. CASE h.person[q] = NoPassenger
      <4> HIDE DEF gone
      <4> QED
        BY <3>2
    <3> QED
      BY <3>1, <3>2
  <2> QED
    BY <2>1, NoNodes
<1> HIDE DEF fl, pe
<1>8. h1 \in Heap
  BY <1>1, <1>5, HeapWrite
<1> HIDE DEF h1
<1>9. h2 \in Heap
  BY <1>7, <1>8, HeapWrite
<1> HIDE DEF h2
<1>10. h3 \in Heap
  <2>1. \A v \in FlightAddr \cup {Nil} : [h2 EXCEPT !.head = v] \in Heap
    BY <1>9, HeapWrite
  <2>2. Nil \in FlightAddr \cup {Nil}
    OBVIOUS
  <2> QED
    BY <2>1, <2>2
<1> HIDE DEF h3
<1>11. h4 \in Heap
  <2>1. \A v \in FlightAddr \cup {Nil} : [h3 EXCEPT !.tail = v] \in Heap
    BY <1>10, HeapWrite
  <2>2. Nil \in FlightAddr \cup {Nil}
    OBVIOUS
  <2> QED
    BY <2>1, <2>2
<1> HIDE DEF h4
<1>12. r \in Heap
  <2>1. \A v \in Int : [h4 EXCEPT !.count = v] \in Heap
    BY <1>11, HeapWrite
  <2> QED
    BY <1>3, <2>1
<1>13. Shape(r, <<>>, [f \in FlightAddr |-> <<>>])
  BY <1>4, <1>5, <1>7, <1>12, NothingShape
<1> QED
  BY <1>13 DEF r

(* at are the values of a definition by steps. *)
Steps(at, D, start, n, step) ==
  at \in [0..n -> D] /\ \A i \in 0..n : at[i] = IF i = 0 THEN start ELSE step[<<at[i - 1], i>>]

(* A definition by steps through a set has its values, all in that set.    *)
LEMMA StepsDefined ==
  ASSUME NEW D, NEW start \in D, NEW n \in Nat, NEW step,
         \A x \in D, i \in 1..n : step[<<x, i>>] \in D
  PROVE  \E at : Steps(at, D, start, n, step)
<1> DEFINE Good(g, k) == /\ g \in [0..k -> D]
                         /\ \A i \in 0..k : g[i] = IF i = 0 THEN start ELSE step[<<g[i - 1], i>>]
           S == {k \in Nat : k <= n => \E g : Good(g, k)}
<1>1. 0 \in S
  <2> DEFINE g == [i \in 0..0 |-> start]
  <2>1. Good(g, 0)
    OBVIOUS
  <2> HIDE DEF Good
  <2> QED
    BY <2>1
<1>2. ASSUME NEW k \in Nat, k \in S
      PROVE  k + 1 \in S
  <2> SUFFICES ASSUME k + 1 <= n PROVE \E g : Good(g, k + 1)
    OBVIOUS
  <2>1. PICK g : Good(g, k)
    BY <1>2
  <2> DEFINE last == step[<<g[k], k + 1>>]
             h == [i \in 0..(k + 1) |-> IF i = k + 1 THEN last ELSE g[i]]
  <2>2. last \in D
    <3>1. g[k] \in D /\ k + 1 \in 1..n
      BY <2>1
    <3> QED
      BY <3>1
  <2>3. h \in [0..(k + 1) -> D]
    <3>1. \A i \in 0..(k + 1) : i # k + 1 => g[i] \in D
      BY <2>1
    <3> HIDE DEF last
    <3> QED
      BY <2>2, <3>1
  <2>4. ASSUME NEW i \in 0..(k + 1)
        PROVE  h[i] = IF i = 0 THEN start ELSE step[<<h[i - 1], i>>]
    <3>1. CASE i = k + 1
      <4>1. i # 0 /\ i - 1 = k /\ k \in 0..(k + 1) /\ k # k + 1
        BY <3>1
      <4>2. h[i] = last /\ h[i - 1] = g[k]
        BY <3>1, <4>1
      <4> QED
        BY <3>1, <4>1, <4>2
    <3>2. CASE i # k + 1
      <4>1. i \in 0..k /\ (i # 0 => i - 1 \in 0..(k + 1) /\ i - 1 # k + 1)
        BY <3>2
      <4>2. h[i] = g[i] /\ (i # 0 => h[i - 1] = g[i - 1])
        BY <3>2, <4>1
      <4>3. g[i] = IF i = 0 THEN start ELSE step[<<g[i - 1], i>>]
        BY <2>1, <4>1
      <4> QED
        BY <4>2, <4>3
    <3> QED
      BY <3>1, <3>2
  <2>5. Good(h, k + 1)
    BY <2>3, <2>4
  <2> HIDE DEF Good, h
  <2> QED
    BY <2>5
<1>3. n \in S
  <2>1. \A k \in Nat : k \in S => k + 1 \in S
    BY <1>2
  <2> HIDE DEF S
  <2> QED
    BY <1>1, <2>1, NumberInduction
<1> QED
  BY <1>3 DEF Steps

Kept == {h \in Heap : \E L, G : Shape(h, L, G)}

(* The flights of the sample data are there, unless malloc failed. *)
Ready == {h \in Kept : h.failed \/ \A j \in 1..Len(SampleFlights) : FindFlight(h, SampleFlights[j].id) # Nil}

LEMMA SampleTypes ==
  /\ Len(SampleFlights) \in Nat /\ Len(SamplePassengers) \in Nat
  /\ \A i \in 1..Len(SampleFlights) : /\ SampleFlights[i].id \in KnownIds
                                      /\ SampleFlights[i].to \in KnownPlaces /\ SampleFlights[i].seats \in Int
  /\ \A i \in 1..Len(SamplePassengers) :
       /\ SamplePassengers[i].seat \in Int /\ SamplePassengers[i].who \in KnownPeople
       /\ \E j \in 1..Len(SampleFlights) : SamplePassengers[i].id = SampleFlights[j].id
<1> DEFINE F == [id : STRING \ {""}, to : STRING, seats : Int]
           P == [id : {SampleFlights[i].id : i \in DOMAIN SampleFlights}, seat : Int,
                who : [name : STRING, age : Int]]
<1>1. SampleFlights \in Seq(F) /\ SamplePassengers \in Seq(P)
  BY SampleAssumption
<1> HIDE DEF F, P
<1>2. /\ DOMAIN SampleFlights = 1..Len(SampleFlights) /\ DOMAIN SamplePassengers = 1..Len(SamplePassengers)
      /\ Len(SampleFlights) \in Nat /\ Len(SamplePassengers) \in Nat
  BY <1>1, LenProperties
<1>3. \A i \in 1..Len(SampleFlights) : SampleFlights[i] \in F
  BY <1>1, ElementOfSeq
<1>4. \A i \in 1..Len(SamplePassengers) : SamplePassengers[i] \in P
  BY <1>1, ElementOfSeq
<1>5. \A i \in 1..Len(SampleFlights) : SampleFlights[i].seats \in Int
  BY <1>3 DEF F
<1>6. \A i \in 1..Len(SamplePassengers) :
        /\ SamplePassengers[i].seat \in Int
        /\ SamplePassengers[i].id \in {SampleFlights[j].id : j \in DOMAIN SampleFlights}
  BY <1>4 DEF P
<1> QED
  BY <1>2, <1>5, <1>6 DEF KnownIds, KnownPlaces, KnownPeople

LEMMA KeptAdd ==
  ASSUME NEW h \in Kept, NEW id \in KnownIds, NEW to \in KnownPlaces, NEW seats \in Int
  PROVE  LET r == add_flight(h, id, to, seats)
         IN /\ r \in Kept
            /\ \A x : FindFlight(h, x) # Nil => FindFlight(r, x) # Nil
            /\ h.failed => r.failed
            /\ ~r.failed => FindFlight(r, id) # Nil
<1>1. PICK L, G : Shape(h, L, G)
  BY DEF Kept
<1> DEFINE r == add_flight(h, id, to, seats)
<1>2. /\ \E K : Shape(r, K, G)
      /\ \A x : FindFlight(h, x) # Nil => FindFlight(r, x) # Nil
      /\ h.failed => r.failed
      /\ ~r.failed => FindFlight(r, id) # Nil
  BY <1>1, AddFlightKeeps
<1> HIDE DEF r
<1>3. r \in Kept
  BY <1>2 DEF Kept, Shape
<1> QED
  BY <1>2, <1>3 DEF r

(* A passenger is added to a flight that was found. *)
LEMMA KeptBoard ==
  ASSUME NEW h \in Kept, NEW x, FindFlight(h, x) # Nil, NEW seat \in Int, NEW who \in KnownPeople
  PROVE  LET r == add_passenger(h, FindFlight(h, x), seat, who)
         IN /\ r \in Kept
            /\ \A y : FindFlight(h, y) # Nil => FindFlight(r, y) # Nil
            /\ h.failed => r.failed
<1>1. PICK L, G : Shape(h, L, G)
  BY DEF Kept
<1> DEFINE f == FindFlight(h, x)
           r == add_passenger(h, f, seat, who)
<1>2. h \in Heap /\ FlightList(h, L)
  BY <1>1 DEF Shape
<1>3. f \in FlightAddr /\ Has(L, f)
  BY <1>2, FlightFound
<1> HIDE DEF f
<1>4. /\ \E F : Shape(r, L, F)
      /\ \A y : FindFlight(h, y) # Nil => FindFlight(r, y) # Nil
      /\ h.failed => r.failed
  BY <1>1, <1>3, AddPassengerKeeps
<1> HIDE DEF r
<1>5. r \in Kept
  BY <1>4 DEF Kept, Shape
<1> QED
  BY <1>4, <1>5 DEF r, f

(* What add_sample_data does with the i-th flight and the i-th passenger. *)
AddSample(g, i) == add_flight(g, SampleFlights[i].id, SampleFlights[i].to, SampleFlights[i].seats)
BoardSample(g, i) == IF g.failed THEN g
                     ELSE add_passenger(g, FindFlight(g, SamplePassengers[i].id),
                                        SamplePassengers[i].seat, SamplePassengers[i].who)

LEMMA AddSampleIs ==
  ASSUME NEW g \in Kept, NEW i \in 1..Len(SampleFlights)
  PROVE  /\ AddSample(g, i) \in Kept
         /\ \A x : FindFlight(g, x) # Nil => FindFlight(AddSample(g, i), x) # Nil
         /\ g.failed => AddSample(g, i).failed
         /\ ~AddSample(g, i).failed => FindFlight(AddSample(g, i), SampleFlights[i].id) # Nil
BY SampleTypes, KeptAdd DEF AddSample

(* The flights are added one after the other. *)
LEMMA SampleFlightsSteps ==
  ASSUME NEW h \in Kept
  PROVE  LET n == Len(SampleFlights)
         IN \E at \in [0..n -> Kept] : /\ \A i \in 0..n : at[i] = IF i = 0 THEN h ELSE AddSample(at[i - 1], i)
                                       /\ SampleFlightsIn(h) = at[n]
<1> DEFINE n == Len(SampleFlights)
           V(g, i) == IF i = 0 THEN h ELSE AddSample(g[i - 1], i)
           at == CHOOSE g : g = [i \in 0..n |-> V(g, i)]
           step == [p \in Kept \X (1..n) |-> AddSample(p[1], p[2])]
<1>1. n \in Nat
  BY SampleTypes
<1>3. \A g \in Kept, i \in 1..n : step[<<g, i>>] = AddSample(g, i)
  BY DEF step
<1> HIDE DEF step
<1>4. PICK g \in [0..n -> Kept] : \A i \in 0..n : g[i] = IF i = 0 THEN h ELSE step[<<g[i - 1], i>>]
  <2>1. \A x \in Kept, i \in 1..n : step[<<x, i>>] \in Kept
    BY <1>3, AddSampleIs
  <2> HIDE DEF n
  <2>2. \E g : Steps(g, Kept, h, n, step)
    BY <1>1, <2>1, StepsDefined
  <2> QED
    BY <2>2 DEF Steps
<1>5. g = [i \in 0..n |-> V(g, i)]
  <2>1. ASSUME NEW i \in 0..n PROVE g[i] = V(g, i)
    <3>1. CASE i = 0
      BY <1>4, <3>1
    <3>2. CASE i # 0
      <4>1. i \in 1..n /\ i - 1 \in 0..n
        BY <1>1, <3>2
      <4>2. g[i - 1] \in Kept
        BY <1>4, <4>1
      <4> QED
        BY <1>3, <1>4, <3>2, <4>1, <4>2
    <3> QED
      BY <3>1, <3>2
  <2> HIDE DEF V
  <2> QED
    BY <1>4, <2>1
<1>6. at = [i \in 0..n |-> V(at, i)]
  <2> HIDE DEF V
  <2> QED
    BY <1>5
<1>7. SampleFlightsIn(h) = at[n]
  BY DEF SampleFlightsIn, AddSample
<1> HIDE DEF at
<1>8. \A i \in 0..n : at[i] = IF i = 0 THEN h ELSE AddSample(at[i - 1], i)
  <2> SUFFICES ASSUME NEW i \in 0..n PROVE at[i] = V(at, i)
    OBVIOUS
  <2> HIDE DEF V
  <2> QED
    BY <1>6
<1>9. at \in [0..n -> Kept]
  <2> DEFINE S == {i \in Nat : i <= n => at[i] \in Kept}
  <2>1. 0 \in S
    BY <1>1, <1>8
  <2>2. ASSUME NEW i \in Nat, i \in S
        PROVE  i + 1 \in S
    <3> SUFFICES ASSUME i + 1 <= n PROVE at[i + 1] \in Kept
      OBVIOUS
    <3>1. at[i] \in Kept /\ i + 1 \in 1..n /\ i + 1 \in 0..n /\ i + 1 # 0 /\ (i + 1) - 1 = i
      BY <1>1, <2>2
    <3>2. at[i + 1] = AddSample(at[i], i + 1)
      BY <1>8, <3>1
    <3> QED
      BY <3>1, <3>2, AddSampleIs
  <2>3. \A i \in Nat : i \in S
    <3> HIDE DEF S
    <3> QED
      BY <2>1, <2>2, NumberInduction
  <2>4. \A i \in 0..n : at[i] \in Kept
    BY <1>1, <2>3
  <2>5. at = [i \in 0..n |-> at[i]]
    BY <1>6
  <2> QED
    BY <2>4, <2>5
<1> QED
  BY <1>7, <1>8, <1>9

LEMMA SampleFlightsReady ==
  ASSUME NEW h \in Kept
  PROVE  SampleFlightsIn(h) \in Ready
<1> DEFINE n == Len(SampleFlights)
<1>1. n \in Nat
  BY SampleTypes
<1>2. PICK at \in [0..n -> Kept] : /\ \A i \in 0..n : at[i] = IF i = 0 THEN h ELSE AddSample(at[i - 1], i)
                                  /\ SampleFlightsIn(h) = at[n]
  BY SampleFlightsSteps
<1> DEFINE Fine(i) == at[i].failed \/ \A j \in 1..i : FindFlight(at[i], SampleFlights[j].id) # Nil
           S == {i \in Nat : i <= n => Fine(i)}
<1>3. 0 \in S
  OBVIOUS
<1>4. ASSUME NEW i \in Nat, i \in S
      PROVE  i + 1 \in S
  <2> SUFFICES ASSUME i + 1 <= n PROVE Fine(i + 1)
    OBVIOUS
  <2>1. Fine(i) /\ at[i] \in Kept /\ i + 1 \in 1..n /\ i + 1 \in 0..n /\ i + 1 # 0 /\ (i + 1) - 1 = i
    BY <1>1, <1>2, <1>4
  <2>2. at[i + 1] = AddSample(at[i], i + 1)
    BY <1>2, <2>1
  <2>3. /\ \A x : FindFlight(at[i], x) # Nil => FindFlight(at[i + 1], x) # Nil
        /\ at[i].failed => at[i + 1].failed
        /\ ~at[i + 1].failed => FindFlight(at[i + 1], SampleFlights[i + 1].id) # Nil
    BY <2>1, <2>2, AddSampleIs
  <2>4. \A j \in 1..(i + 1) : j \in 1..i \/ j = i + 1
    OBVIOUS
  <2> QED
    BY <2>1, <2>3, <2>4
<1>5. n \in S
  <2> HIDE DEF S
  <2> QED
    BY <1>1, <1>3, <1>4, NumberInduction
<1>6. Fine(n) /\ at[n] \in Kept
  BY <1>1, <1>2, <1>5
<1> QED
  BY <1>2, <1>6 DEF Ready

LEMMA BoardSampleReady ==
  ASSUME NEW g \in Ready, NEW i \in 1..Len(SamplePassengers)
  PROVE  BoardSample(g, i) \in Ready
<1>1. CASE g.failed
  BY <1>1 DEF BoardSample
<1>2. CASE ~g.failed
  <2> DEFINE p == SamplePassengers[i]
             r == add_passenger(g, FindFlight(g, p.id), p.seat, p.who)
  <2>1. FindFlight(g, p.id) # Nil /\ p.seat \in Int /\ p.who \in KnownPeople
    BY <1>2, SampleTypes DEF Ready
  <2>2. g \in Kept
    BY DEF Ready
  <2>3. r \in Kept /\ \A y : FindFlight(g, y) # Nil => FindFlight(r, y) # Nil
    BY <2>1, <2>2, KeptBoard
  <2>4. BoardSample(g, i) = r
    BY <1>2 DEF BoardSample
  <2> HIDE DEF r
  <2>5. r \in Ready
    BY <1>2, <2>3 DEF Ready
  <2> QED
    BY <2>4, <2>5
<1> QED
  BY <1>1, <1>2

(* The passengers are added one after the other. *)
LEMMA SamplePassengersSteps ==
  ASSUME NEW h \in Ready
  PROVE  LET n == Len(SamplePassengers)
         IN \E at \in [0..n -> Ready] : /\ \A i \in 0..n : at[i] = IF i = 0 THEN h ELSE BoardSample(at[i - 1], i)
                                        /\ SamplePassengersIn(h) = at[n]
<1> DEFINE n == Len(SamplePassengers)
           V(g, i) == IF i = 0 THEN h ELSE BoardSample(g[i - 1], i)
           at == CHOOSE g : g = [i \in 0..n |-> V(g, i)]
           step == [p \in Ready \X (1..n) |-> BoardSample(p[1], p[2])]
<1>1. n \in Nat
  BY SampleTypes
<1>3. \A g \in Ready, i \in 1..n : step[<<g, i>>] = BoardSample(g, i)
  BY DEF step
<1> HIDE DEF step
<1>4. PICK g \in [0..n -> Ready] : \A i \in 0..n : g[i] = IF i = 0 THEN h ELSE step[<<g[i - 1], i>>]
  <2>1. \A x \in Ready, i \in 1..n : step[<<x, i>>] \in Ready
    BY <1>3, BoardSampleReady
  <2> HIDE DEF n
  <2>2. \E g : Steps(g, Ready, h, n, step)
    BY <1>1, <2>1, StepsDefined
  <2> QED
    BY <2>2 DEF Steps
<1>5. g = [i \in 0..n |-> V(g, i)]
  <2>1. ASSUME NEW i \in 0..n PROVE g[i] = V(g, i)
    <3>1. CASE i = 0
      BY <1>4, <3>1
    <3>2. CASE i # 0
      <4>1. i \in 1..n /\ i - 1 \in 0..n
        BY <1>1, <3>2
      <4>2. g[i - 1] \in Ready
        BY <1>4, <4>1
      <4> QED
        BY <1>3, <1>4, <3>2, <4>1, <4>2
    <3> QED
      BY <3>1, <3>2
  <2> HIDE DEF V
  <2> QED
    BY <1>4, <2>1
<1>6. at = [i \in 0..n |-> V(at, i)]
  <2> HIDE DEF V
  <2> QED
    BY <1>5
<1>7. SamplePassengersIn(h) = at[n]
  BY DEF SamplePassengersIn, BoardSample
<1> HIDE DEF at
<1>8. \A i \in 0..n : at[i] = IF i = 0 THEN h ELSE BoardSample(at[i - 1], i)
  <2> SUFFICES ASSUME NEW i \in 0..n PROVE at[i] = V(at, i)
    OBVIOUS
  <2> HIDE DEF V
  <2> QED
    BY <1>6
<1>9. at \in [0..n -> Ready]
  <2> DEFINE S == {i \in Nat : i <= n => at[i] \in Ready}
  <2>1. 0 \in S
    BY <1>1, <1>8
  <2>2. ASSUME NEW i \in Nat, i \in S
        PROVE  i + 1 \in S
    <3> SUFFICES ASSUME i + 1 <= n PROVE at[i + 1] \in Ready
      OBVIOUS
    <3>1. at[i] \in Ready /\ i + 1 \in 1..n /\ i + 1 \in 0..n /\ i + 1 # 0 /\ (i + 1) - 1 = i
      BY <1>1, <2>2
    <3>2. at[i + 1] = BoardSample(at[i], i + 1)
      BY <1>8, <3>1
    <3> QED
      BY <3>1, <3>2, BoardSampleReady
  <2>3. \A i \in Nat : i \in S
    <3> HIDE DEF S
    <3> QED
      BY <2>1, <2>2, NumberInduction
  <2>4. \A i \in 0..n : at[i] \in Ready
    BY <1>1, <2>3
  <2>5. at = [i \in 0..n |-> at[i]]
    BY <1>6
  <2> QED
    BY <2>4, <2>5
<1> QED
  BY <1>7, <1>8, <1>9

LEMMA SamplePassengersReady ==
  ASSUME NEW h \in Ready
  PROVE  SamplePassengersIn(h) \in Ready
<1>1. Len(SamplePassengers) \in Nat
  BY SampleTypes
<1>2. PICK at \in [0..Len(SamplePassengers) -> Ready] : SamplePassengersIn(h) = at[Len(SamplePassengers)]
  BY SamplePassengersSteps
<1> QED
  BY <1>1, <1>2

-----------------------------------------------------------------------------
(* The inductive invariant: whatever was chosen, the memory has its shape. *)

MemoryInv == m \in Kept /\ state \in {"menu", "ended", "failure", "dangling"}

LEMMA SampleKept ==
  ASSUME NEW h \in Kept
  PROVE  add_sample_data(h) \in Kept
<1>1. SampleFlightsIn(h) \in Ready
  BY SampleFlightsReady
<1>2. SamplePassengersIn(SampleFlightsIn(h)) \in Ready
  BY <1>1, SamplePassengersReady
<1> QED
  BY <1>2 DEF add_sample_data, Ready

LEMMA FoundFlight ==
  ASSUME NEW h, NEW L, NEW G, Shape(h, L, G), NEW id, FindFlight(h, id) # Nil
  PROVE  FindFlight(h, id) \in FlightAddr /\ Has(L, FindFlight(h, id))
<1>1. h \in Heap /\ FlightList(h, L)
  BY DEF Shape
<1> QED
  BY <1>1, FlightFound

LEMMA ChangeKept ==
  ASSUME NEW h \in Kept, NEW id, FindFlight(h, id) # Nil, NEW old \in Int, NEW new \in Int
  PROVE  change_passenger_seat(h, FindFlight(h, id), old, new) \in Kept
<1>1. PICK L, G : Shape(h, L, G)
  BY DEF Kept
<1> DEFINE f == FindFlight(h, id)
<1>2. f \in FlightAddr /\ Has(L, f)
  BY <1>1, FoundFlight
<1> HIDE DEF f
<1>3. \E F : Shape(change_passenger_seat(h, f, old, new), L, F)
  BY <1>1, <1>2, ChangeSeatCases
<1> QED
  BY <1>3 DEF Kept, Shape, f

LEMMA RemoveKept ==
  ASSUME NEW h \in Kept, NEW id
  PROVE  remove_flight(h, id) \in Kept
<1>1. PICK L, G : Shape(h, L, G)
  BY DEF Kept
<1>2. \E K, F : Shape(remove_flight(h, id), K, F)
  BY <1>1, RemoveFlightKeeps
<1> QED
  BY <1>2 DEF Kept, Shape

LEMMA FreeKept ==
  ASSUME NEW h \in Kept
  PROVE  free_flight_departure_list(h) \in Kept
<1>1. PICK L, G : Shape(h, L, G)
  BY DEF Kept
<1>2. Shape(free_flight_departure_list(h), <<>>, [f \in FlightAddr |-> <<>>])
  BY <1>1, FreeKeeps
<1> QED
  BY <1>2 DEF Kept, Shape

LEMMA MemoryInit == Init => MemoryInv
<1>1. EmptyMemory \in Kept
  BY EmptyShape DEF Kept, Shape
<1> QED
  BY <1>1 DEF Init, MemoryInv

LEMMA MemoryNext == MemoryInv /\ [Next]_vars => MemoryInv'
<1> SUFFICES ASSUME m \in Kept, state \in {"menu", "ended", "failure", "dangling"}, [Next]_vars
             PROVE  m' \in Kept /\ state' \in {"menu", "ended", "failure", "dangling"}
  BY DEF MemoryInv
<1>1. \A h \in Kept : Leave(h) => m' \in Kept /\ state' \in {"menu", "ended", "failure", "dangling"}
  BY DEF Leave
<1>2. /\ Ids \subseteq KnownIds /\ Places \subseteq KnownPlaces /\ People \subseteq KnownPeople
      /\ SeatCounts \subseteq Int /\ Seats \subseteq Int
  BY InputAssumption DEF KnownIds, KnownPlaces, KnownPeople
<1>3. CASE add_new_flight
  <2>1. PICK id \in Ids, to \in Places, n \in SeatCounts : Leave(add_flight(m, id, to, n))
    BY <1>3 DEF add_new_flight
  <2>2. add_flight(m, id, to, n) \in Kept
    BY <1>2, KeptAdd
  <2> QED
    BY <1>1, <2>1, <2>2
<1>4. CASE add_new_passenger_to_flight
  <2>1. PICK id \in Ids, seat \in Seats, who \in People :
          /\ FindFlight(m, id) # Nil
          /\ Leave(add_passenger(m, FindFlight(m, id), seat, who))
    BY <1>4 DEF add_new_passenger_to_flight
  <2>2. add_passenger(m, FindFlight(m, id), seat, who) \in Kept
    BY <1>2, <2>1, KeptBoard
  <2> QED
    BY <1>1, <2>1, <2>2
<1>5. CASE remove_flight_menu
  <2>1. PICK id \in Ids : Leave(remove_flight(m, id))
    BY <1>5 DEF remove_flight_menu
  <2> QED
    BY <1>1, <2>1, RemoveKept
<1>6. CASE change_passenger_seat_menu
  <2>1. PICK id \in Ids, old \in Seats, new \in Seats :
          /\ FindFlight(m, id) # Nil
          /\ Leave(change_passenger_seat(m, FindFlight(m, id), old, new))
    BY <1>6 DEF change_passenger_seat_menu
  <2>2. change_passenger_seat(m, FindFlight(m, id), old, new) \in Kept
    BY <1>2, <2>1, ChangeKept
  <2> QED
    BY <1>1, <2>1, <2>2
<1>7. CASE AddSampleData
  BY <1>1, <1>7, SampleKept DEF AddSampleData
<1>8. CASE ExitProgram
  BY <1>8, FreeKept DEF ExitProgram
<1>9. CASE InvalidChoice
  BY <1>9, FreeKept DEF InvalidChoice
<1>10. CASE UNCHANGED vars
  BY <1>10 DEF vars
<1> QED
  BY <1>3, <1>4, <1>5, <1>6, <1>7, <1>8, <1>9, <1>10 DEF Next

LEMMA MemoryAlways == Spec => []MemoryInv
<1> QED
  BY MemoryInit, MemoryNext, PTL DEF Spec

-----------------------------------------------------------------------------
(* What the invariant says of the lists the program keeps *)

LEMMA InvShape ==
  ASSUME MemoryInv
  PROVE  \E L, G : Shape(m, L, G)
BY DEF MemoryInv, Kept

(* The types of the memory; list->count never exceeds the nodes there are, *)
(* after any sequence of choices with any input.                           *)
THEOREM FlightTypes == Spec => []TypeOK
<1>1. MemoryInv => TypeOK
  <2> SUFFICES ASSUME MemoryInv PROVE TypeOK
    OBVIOUS
  <2>1. PICK L, G : Shape(m, L, G)
    BY InvShape
  <2>2. m \in Heap /\ FlightList(m, L)
    BY <2>1 DEF Shape
  <2>3. m.count \in 0..FlightNodes
    <3>1. L \in Seq(1..FlightNodes) /\ Distinct(L) /\ FlightNodes \in Nat
      BY <2>2, Addresses DEF FlightList
    <3>2. Len(L) <= FlightNodes /\ Len(L) \in Nat
      BY <3>1, DistinctLength, LenProperties
    <3>3. m.count = Len(L)
      BY <2>2 DEF FlightList
    <3> QED
      BY <3>1, <3>2, <3>3
  <2>4. m.flight \in [FlightAddr -> FlightNode] /\ m.person \in [PassengerAddr -> PassengerNode]
    BY <2>2 DEF Heap
  <2>5. {m.head, m.tail} \subseteq FlightAddr \cup {Nil} /\ m.failed \in BOOLEAN
    BY <2>2 DEF Heap
  <2>6. state \in {"menu", "ended", "failure", "dangling"}
    BY DEF MemoryInv
  <2> QED
    BY <2>3, <2>4, <2>5, <2>6 DEF TypeOK, FlightNode, PassengerNode
<1> QED
  BY <1>1, MemoryAlways, PTL

LEMMA ReverseIs ==
  ASSUME NEW S, NEW s \in Seq(S)
  PROVE  /\ Reverse(s) \in Seq(S) /\ Len(Reverse(s)) = Len(s)
         /\ \A i \in 1..Len(s) : Reverse(s)[i] = s[Len(s) - i + 1]
<1> DEFINE t == Reverse(s)
<1>1. Len(s) \in Nat /\ \A i \in 1..Len(s) : s[i] \in S
  BY LenProperties, ElementOfSeq
<1>2. t = [i \in 1..Len(s) |-> s[(Len(s) - i) + 1]]
  BY DEF Reverse
<1>3. \A i \in 1..Len(s) : s[(Len(s) - i) + 1] \in S
  BY <1>1
<1> HIDE DEF t
<1>4. t \in [1..Len(s) -> S] /\ \A i \in 1..Len(s) : t[i] = s[(Len(s) - i) + 1]
  BY <1>2, <1>3
<1>5. t \in Seq(S)
  BY <1>1, <1>4, IsASeq
<1>6. Len(t) = Len(s)
  <2>1. DOMAIN t = 1..Len(t) /\ Len(t) \in Nat
    BY <1>5, LenProperties
  <2> QED
    BY <1>1, <1>4, <2>1
<1> QED
  BY <1>4, <1>5, <1>6 DEF t

(* The list of flights reads the same in both directions, its tail is the  *)
(* last flight and list->count is its length, whatever was added and       *)
(* removed (flight_manager.c, add_flight and remove_flight).               *)
THEOREM ListsLinked == Spec => []Linked
<1>1. MemoryInv => Linked
  <2> SUFFICES ASSUME MemoryInv PROVE Linked
    OBVIOUS
  <2>1. PICK L, G : Shape(m, L, G)
    BY InvShape
  <2>2. m \in Heap /\ FlightList(m, L)
    BY <2>1 DEF Shape
  <2>3. FlightsOf(m) = L
    BY <2>2, FlightsAre
  <2> DEFINE R == Reverse(L)
             next == [a \in FlightAddr |-> m.flight[a].prev]
  <2>4. L \in Seq(FlightAddr) /\ Len(L) \in Nat /\ Distinct(L) /\ \A i \in 1..Len(L) : L[i] \in FlightAddr
    BY <2>2, FlightsElements DEF FlightList
  <2>5. R \in Seq(FlightAddr) /\ Len(R) = Len(L) /\ \A i \in 1..Len(L) : R[i] = L[Len(L) - i + 1]
    BY <2>4, ReverseIs
  <2> HIDE DEF R
  <2>6. Distinct(R)
    <3> SUFFICES ASSUME NEW i \in 1..Len(L), NEW j \in 1..Len(L), R[i] = R[j] PROVE i = j
      BY <2>5 DEF Distinct
    <3>1. Len(L) - i + 1 \in 1..Len(L) /\ Len(L) - j + 1 \in 1..Len(L)
      BY <2>4
    <3>2. Len(L) - i + 1 = Len(L) - j + 1
      BY <2>4, <2>5, <3>1 DEF Distinct
    <3> QED
      BY <2>4, <3>2
  <2>7. \A i \in 1..(Len(L) + 1) : At(R, i) = At(L, Len(L) - i + 1)
    <3> SUFFICES ASSUME NEW i \in 1..(Len(L) + 1) PROVE At(R, i) = At(L, Len(L) - i + 1)
      OBVIOUS
    <3>1. i \in 1..Len(L) <=> Len(L) - i + 1 \in 1..Len(L)
      BY <2>4
    <3> QED
      BY <2>5, <3>1 DEF At
  <2>8. Chain(next, m.tail, R)
    <3>1. m.tail = At(R, 1)
      <4>1. 1 \in 1..(Len(L) + 1) /\ Len(L) - 1 + 1 = Len(L)
        BY <2>4
      <4> QED
        BY <2>2, <2>7, <4>1 DEF FlightList
    <3>2. ASSUME NEW i \in 1..Len(R) PROVE next[R[i]] = At(R, i + 1)
      <4> DEFINE j == Len(L) - i + 1
      <4>1. j \in 1..Len(L) /\ i + 1 \in 1..(Len(L) + 1) /\ Len(L) - (i + 1) + 1 = j - 1
        BY <2>4, <2>5
      <4>2. R[i] = L[j] /\ L[j] \in FlightAddr
        BY <2>4, <2>5, <4>1
      <4>3. At(R, i + 1) = At(L, j - 1)
        BY <2>7, <4>1
      <4>4. m.flight[L[j]].prev = At(L, j - 1)
        BY <2>2, <4>1 DEF FlightList
      <4> HIDE DEF j
      <4> QED
        BY <4>2, <4>3, <4>4
    <3> HIDE DEF next
    <3> QED
      BY <3>1, <3>2 DEF Chain
  <2>9. Walk(next, m.tail) = R
    <3>1. DOMAIN next = 1..FlightNodes /\ R \in Seq(1..FlightNodes) /\ FlightNodes \in Nat
      BY <2>5, Addresses
    <3> HIDE DEF next
    <3> QED
      BY <2>6, <2>8, <3>1, WalkIs
  <2>10. m.count = Len(L)
    BY <2>2 DEF FlightList
  <2> QED
    BY <2>3, <2>9, <2>10 DEF Linked, R
<1> QED
  BY <1>1, MemoryAlways, PTL

(* No node leaks, none is used after it was freed, and no passenger is in  *)
(* two lists: what is allocated is what the list of flights reaches.       *)
THEOREM NothingLeaks == Spec => []NoLeak
<1>1. MemoryInv => NoLeak
  <2> SUFFICES ASSUME MemoryInv PROVE NoLeak
    OBVIOUS
  <2>1. PICK L, G : Shape(m, L, G)
    BY InvShape
  <2>2. m \in Heap /\ FlightList(m, L) /\ SeatLists(m, G, {})
    BY <2>1 DEF Shape
  <2>3. FlightsOf(m) = L
    BY <2>2, FlightsAre
  <2>4. L \in Seq(FlightAddr) /\ Distinct(L) /\ \A a : a \in Range(L) <=> Has(L, a)
    BY <2>2, RangeHas DEF FlightList
  <2>5. \A a : Has(L, a) => a \in FlightAddr
    BY <2>2, FlightsElements DEF Has
  <2>6. \A f \in FlightAddr : /\ G[f] \in Seq(PassengerAddr) /\ PassengersOf(m, f) = G[f]
                              /\ \A q : q \in Range(PassengersOf(m, f)) <=> Has(G[f], q)
                              /\ \A q : Has(G[f], q) => q \in PassengerAddr
    <3> SUFFICES ASSUME NEW f \in FlightAddr
                 PROVE  /\ G[f] \in Seq(PassengerAddr) /\ PassengersOf(m, f) = G[f]
                        /\ \A q : q \in Range(PassengersOf(m, f)) <=> Has(G[f], q)
                        /\ \A q : Has(G[f], q) => q \in PassengerAddr
      OBVIOUS
    <3>1. G[f] \in Seq(PassengerAddr) /\ SeatList(m, f, G[f])
      BY <2>2 DEF SeatLists
    <3>2. PassengersOf(m, f) = G[f]
      BY <2>2, <3>1, PassengersAre
    <3>3. \A q : q \in Range(G[f]) <=> Has(G[f], q)
      BY <3>1, RangeHas
    <3>4. \A q : Has(G[f], q) => q \in PassengerAddr
      BY <3>1, ElementOfSeq DEF Has
    <3> QED
      BY <3>1, <3>2, <3>3, <3>4
  <2>7. IsInjective(L)
    <3>1. DOMAIN L = 1..Len(L)
      BY <2>4, LenProperties
    <3> QED
      BY <2>4, <3>1 DEF IsInjective, Distinct
  <2>8. Range(L) = Allocated
    BY <2>2, <2>4, <2>5 DEF Allocated, FlightList
  <2>9. UNION {Range(PassengersOf(m, f)) : f \in Range(L)} = AllocatedPeople
    <3>1. ASSUME NEW q, q \in UNION {Range(PassengersOf(m, f)) : f \in Range(L)} PROVE q \in AllocatedPeople
      <4>1. PICK f \in Range(L) : q \in Range(PassengersOf(m, f))
        BY <3>1
      <4>2. f \in FlightAddr /\ Has(G[f], q) /\ q \in PassengerAddr
        BY <2>4, <2>5, <2>6, <4>1
      <4> QED
        BY <2>2, <4>2 DEF SeatLists, AllocatedPeople
    <3>2. ASSUME NEW q \in AllocatedPeople PROVE q \in UNION {Range(PassengersOf(m, f)) : f \in Range(L)}
      <4>1. q \in PassengerAddr /\ m.person[q] # NoPassenger
        BY DEF AllocatedPeople
      <4>2. PICK f \in FlightAddr : Has(G[f], q)
        BY <2>2, <4>1 DEF SeatLists
      <4>3. f \in Range(L)
        BY <2>1, <2>4, <4>2, NoPassengersOf
      <4>4. q \in Range(PassengersOf(m, f))
        BY <2>6, <4>2
      <4> QED
        BY <4>3, <4>4
    <3> QED
      BY <3>1, <3>2
  <2>10. \A f, g \in Range(L) : f # g => Range(PassengersOf(m, f)) \cap Range(PassengersOf(m, g)) = {}
    <3> SUFFICES ASSUME NEW f \in Range(L), NEW g \in Range(L), f # g,
                        NEW q \in Range(PassengersOf(m, f)), q \in Range(PassengersOf(m, g))
                 PROVE  FALSE
      OBVIOUS
    <3>1. f \in FlightAddr /\ g \in FlightAddr
      BY <2>4, <2>5
    <3>2. Has(G[f], q) /\ Has(G[g], q) /\ q \in PassengerAddr
      BY <2>6, <3>1
    <3> QED
      BY <2>2, <3>1, <3>2 DEF SeatLists
  <2> QED
    BY <2>3, <2>7, <2>8, <2>9, <2>10 DEF NoLeak
<1> QED
  BY <1>1, MemoryAlways, PTL

(* The passengers of a flight stand in the order of their seats, each seat *)
(* once and none beyond the flight's, also after passengers changed seats. *)
THEOREM SeatsSorted == Spec => []Sorted
<1>1. MemoryInv => Sorted
  <2> SUFFICES ASSUME MemoryInv, NEW f \in Range(FlightsOf(m))
               PROVE  LET list == PassengersOf(m, f)
                      IN /\ \A i \in DOMAIN list : m.person[list[i]].seat \in 1..m.flight[f].seats
                         /\ \A i, j \in DOMAIN list : i < j => m.person[list[i]].seat < m.person[list[j]].seat
    BY DEF Sorted
  <2>1. PICK L, G : Shape(m, L, G)
    BY InvShape
  <2>2. m \in Heap /\ FlightList(m, L) /\ SeatLists(m, G, {})
    BY <2>1 DEF Shape
  <2>3. FlightsOf(m) = L /\ L \in Seq(FlightAddr)
    BY <2>2, FlightsAre DEF FlightList
  <2>4. f \in FlightAddr
    <3>1. Has(L, f)
      BY <2>3, RangeHas
    <3> QED
      BY <2>2, <3>1, FlightsElements DEF Has
  <2>5. G[f] \in Seq(PassengerAddr) /\ SeatList(m, f, G[f])
    BY <2>2, <2>4 DEF SeatLists
  <2>6. PassengersOf(m, f) = G[f] /\ DOMAIN G[f] = 1..Len(G[f])
    BY <2>2, <2>4, <2>5, PassengersAre, LenProperties
  <2> QED
    BY <2>5, <2>6 DEF SeatList
<1> QED
  BY <1>1, MemoryAlways, PTL

-----------------------------------------------------------------------------
(* The registry of FlightRegistry *)

(* b are the bookings of the passengers in s: who sits where. *)
Books(h, s, b) ==
  /\ b = [x \in DOMAIN b |-> b[x]]
  /\ \A x : x \in DOMAIN b <=> \E q \in PassengerAddr : Has(s, q) /\ h.person[q].seat = x
  /\ \A q \in PassengerAddr : Has(s, q) => b[h.person[q].seat] = h.person[q].who

LEMMA BooksUnique ==
  ASSUME NEW h, NEW s, NEW b, NEW c, Books(h, s, b), Books(h, s, c)
  PROVE  b = c
<1>1. \A x : x \in DOMAIN b <=> x \in DOMAIN c
  BY DEF Books
<1>2. DOMAIN b = DOMAIN c
  BY <1>1
<1>3. ASSUME NEW x \in DOMAIN b
      PROVE  b[x] = c[x]
  <2>1. PICK q \in PassengerAddr : Has(s, q) /\ h.person[q].seat = x
    BY DEF Books
  <2> QED
    BY <2>1 DEF Books
<1>4. b = [x \in DOMAIN b |-> b[x]] /\ c = [x \in DOMAIN c |-> c[x]]
  BY DEF Books
<1> QED
  BY <1>2, <1>3, <1>4

LEMMA SeatOnce ==
  ASSUME NEW h \in Heap, NEW f \in FlightAddr, NEW s \in Seq(PassengerAddr), SeatList(h, f, s),
         NEW p, NEW q, Has(s, p), Has(s, q), h.person[p].seat = h.person[q].seat
  PROVE  p = q
<1>1. PICK i \in 1..Len(s) : s[i] = p
  BY DEF Has
<1>2. PICK j \in 1..Len(s) : s[j] = q
  BY DEF Has
<1>3. Len(s) \in Nat /\ p \in PassengerAddr
  BY <1>1, LenProperties, ElementOfSeq
<1>4. h.person[p].seat \in Int
  BY <1>3 DEF Heap, PassengerNode
<1>5. ~(i < j) /\ ~(j < i)
  BY <1>1, <1>2, <1>4 DEF SeatList
<1>6. i = j
  BY <1>3, <1>5
<1> QED
  BY <1>1, <1>2, <1>6

LEMMA BookedIs ==
  ASSUME NEW h \in Heap, NEW f \in FlightAddr, NEW s \in Seq(PassengerAddr), SeatList(h, f, s)
  PROVE  Books(h, s, Booked(h, f))
<1> DEFINE D == {h.person[p].seat : p \in Range(PassengersOf(h, f))}
           b == [x \in D |-> h.person[FindSeat(h, f, x)].who]
<1>1. PassengersOf(h, f) = s
  BY PassengersAre
<1>2. \A p : p \in Range(s) <=> Has(s, p)
  BY RangeHas
<1>3. \A p : Has(s, p) => p \in PassengerAddr
  BY ElementOfSeq DEF Has
<1>4. \A x : x \in D <=> \E q \in PassengerAddr : Has(s, q) /\ h.person[q].seat = x
  BY <1>1, <1>2, <1>3
<1>5. Booked(h, f) = b
  BY DEF Booked
<1> HIDE DEF D
<1>6. DOMAIN b = D
  OBVIOUS
<1>7. ASSUME NEW q \in PassengerAddr, Has(s, q)
      PROVE  b[h.person[q].seat] = h.person[q].who
  <2> DEFINE x == h.person[q].seat
             p == FindSeat(h, f, x)
  <2>1. x \in D
    BY <1>4, <1>7
  <2>2. \/ p = Nil /\ \A i \in 1..Len(s) : h.person[s[i]].seat # x
        \/ p \in PassengerAddr /\ Has(s, p) /\ h.person[p].seat = x
    <3> HIDE DEF x
    <3> QED
      BY SeatFound
  <2>3. b[x] = h.person[p].who
    BY <2>1
  <2> HIDE DEF p
  <2>4. Has(s, p) /\ h.person[p].seat = x
    BY <1>7, <2>2 DEF Has
  <2>5. p = q
    BY <1>7, <2>4, SeatOnce
  <2> QED
    BY <2>3, <2>5
<1> HIDE DEF b
<1>8. b = [x \in DOMAIN b |-> b[x]]
  BY DEF b
<1> QED
  BY <1>4, <1>5, <1>6, <1>7, <1>8 DEF Books

(* What a flight's entry depends on.                                       *)
LEMMA EntrySame ==
  ASSUME NEW h \in Heap, NEW r \in Heap, NEW f \in FlightAddr, NEW s \in Seq(PassengerAddr),
         SeatList(h, f, s), SeatList(r, f, s),
         \A q \in PassengerAddr : Has(s, q) => Same(h, r, q),
         r.flight[f].id = h.flight[f].id, r.flight[f].seats = h.flight[f].seats
  PROVE  Entry(r, f) = Entry(h, f)
<1>1. Books(h, s, Booked(h, f)) /\ Books(r, s, Booked(r, f))
  BY BookedIs
<1>2. Books(r, s, Booked(h, f))
  BY <1>1 DEF Books, Same
<1>3. Booked(r, f) = Booked(h, f)
  BY <1>1, <1>2, BooksUnique
<1> QED
  BY <1>3 DEF Entry

LEMMA RegistryIs ==
  ASSUME NEW h, NEW L, NEW G, Shape(h, L, G)
  PROVE  /\ RegistryOf(h) = [i \in 1..Len(L) |-> Entry(h, L[i])]
         /\ Len(L) \in Nat
<1>1. FlightsOf(h) = L /\ L \in Seq(FlightAddr)
  BY FlightsAre DEF Shape, FlightList
<1>2. DOMAIN L = 1..Len(L) /\ Len(L) \in Nat
  BY <1>1, LenProperties
<1> QED
  BY <1>1, <1>2 DEF RegistryOf

(* The registry as a sequence, over any set that has its entries. *)
LEMMA RegistrySeq ==
  ASSUME NEW h, NEW L, NEW G, Shape(h, L, G), NEW S, \A i \in 1..Len(L) : Entry(h, L[i]) \in S
  PROVE  /\ RegistryOf(h) \in Seq(S) /\ Len(RegistryOf(h)) = Len(L)
         /\ DOMAIN RegistryOf(h) = 1..Len(L)
         /\ \A i \in 1..Len(L) : RegistryOf(h)[i] = Entry(h, L[i])
<1> DEFINE r == RegistryOf(h)
<1>1. r = [i \in 1..Len(L) |-> Entry(h, L[i])] /\ Len(L) \in Nat
  BY RegistryIs
<1> HIDE DEF r
<1>2. r \in [1..Len(L) -> S]
  BY <1>1
<1>3. r \in Seq(S) /\ Len(r) = Len(L)
  BY <1>1, <1>2
<1> QED
  BY <1>1, <1>3 DEF r

(* No two flights of the registry have the same id. *)
IdsDiffer(r) == \A i, j \in DOMAIN r : r[i].id = r[j].id => i = j

LEMMA EntryFields ==
  ASSUME NEW h, NEW f
  PROVE  /\ Entry(h, f).id = h.flight[f].id /\ Entry(h, f).seats = h.flight[f].seats
         /\ Entry(h, f).booked = Booked(h, f)
         /\ \A b : [Entry(h, f) EXCEPT !.booked = b]
                     = [id |-> h.flight[f].id, seats |-> h.flight[f].seats, booked |-> b]
BY DEF Entry

-----------------------------------------------------------------------------
(* What each operation does to the registry *)

LEMMA PutFlightIs ==
  ASSUME NEW h, NEW L, NEW G, Shape(h, L, G), NEW id \in KnownIds, NEW to \in KnownPlaces, NEW seats \in Int,
         ~add_flight(h, id, to, seats).failed
  PROVE  RegistryOf(add_flight(h, id, to, seats)) = Abstract!PutFlight(RegistryOf(h), id, seats)
<1> DEFINE r == add_flight(h, id, to, seats)
           reg == RegistryOf(h)
           new == Abstract!Flight(id, seats, <<>>)
           S == {Entry(h, b) : b \in FlightAddr} \cup {new}
<1>1. h \in Heap /\ FlightList(h, L) /\ SeatLists(h, G, {}) /\ (h.head = Nil <=> h.tail = Nil)
  BY FlightsElements DEF Shape
<1>2. \/ r = h /\ (h.failed \/ FindFlight(h, id) # Nil)
      \/ r = OutOfMemory(h)
      \/ \E a \in FlightAddr : h.flight[a] = NoFlight /\ Placed(h, r, a, id, to, seats)
  BY <1>1, AddFlightCases
<1>3. L \in Seq(FlightAddr) /\ Len(L) \in Nat /\ \A i \in 1..Len(L) : L[i] \in FlightAddr /\ Has(L, L[i])
  BY <1>1, FlightsElements
<1>4. /\ reg \in Seq(S) /\ Len(reg) = Len(L) /\ DOMAIN reg = 1..Len(L)
      /\ \A i \in 1..Len(L) : reg[i] = Entry(h, L[i])
  <2>1. \A i \in 1..Len(L) : Entry(h, L[i]) \in S
    BY <1>3
  <2> HIDE DEF S
  <2> QED
    BY <2>1, RegistrySeq
<1>5. ~r.failed
  OBVIOUS
<1> HIDE DEF r, reg
<1>6. \A i \in 1..Len(L) : reg[i].id = h.flight[L[i]].id
  BY <1>4, EntryFields
<1>7. Abstract!PutFlight(reg, id, seats) = IF id \in Abstract!IdsOf(reg) THEN reg ELSE Append(reg, new)
  BY DEF Abstract!PutFlight
<1>8. id \in Abstract!IdsOf(reg) <=> \E i \in 1..Len(L) : h.flight[L[i]].id = id
  BY <1>4, <1>6 DEF Abstract!IdsOf
<1> HIDE DEF new
<1>9. CASE r = h /\ (h.failed \/ FindFlight(h, id) # Nil)
  <2>1. FindFlight(h, id) # Nil
    BY <1>5, <1>9
  <2>2. \E b \in FlightAddr : Has(L, b) /\ h.flight[b].id = id
    BY <1>1, <2>1, FlightKnown
  <2>3. id \in Abstract!IdsOf(reg)
    BY <1>8, <2>2 DEF Has
  <2> QED
    BY <1>7, <1>9, <2>3 DEF r, reg
<1>10. CASE r = OutOfMemory(h)
  BY <1>5, <1>10, OutOfMemoryShape
<1>11. ASSUME NEW a \in FlightAddr, h.flight[a] = NoFlight, Placed(h, r, a, id, to, seats), FindFlight(h, id) = Nil
       PROVE  RegistryOf(r) = Abstract!PutFlight(reg, id, seats)
  <2> DEFINE K == Append(L, a)
             t == Append(reg, new)
  <2>1. id \notin Abstract!IdsOf(reg)
    <3>1. ~\E b \in FlightAddr : Has(L, b) /\ h.flight[b].id = id
      BY <1>1, <1>11, FlightKnown
    <3> QED
      BY <1>3, <1>8, <3>1
  <2>2. Shape(r, K, G) /\ r \in Heap /\ SeatLists(r, G, {})
    BY <1>11, PlacedShape DEF Shape
  <2>3. /\ Len(K) = Len(L) + 1
        /\ \A i \in 1..(Len(L) + 1) : K[i] = IF i = Len(L) + 1 THEN a ELSE L[i]
    BY <1>3, AppendAt
  <2>4. ~Has(L, a)
    BY <1>1, <1>11 DEF FlightList
  <2>5. ASSUME NEW b \in FlightAddr, Has(L, b)
        PROVE  Entry(r, b) = Entry(h, b)
    <3>1. b # a
      BY <2>4, <2>5
    <3>2. G[b] \in Seq(PassengerAddr) /\ SeatList(h, b, G[b]) /\ SeatList(r, b, G[b])
      BY <1>1, <2>2 DEF SeatLists
    <3>3. h.flight[b] \in FlightNode
      BY <1>1 DEF Heap
    <3>4. r.flight[b].id = h.flight[b].id /\ r.flight[b].seats = h.flight[b].seats
      <4>1. r.flight[b] = IF b = h.tail THEN [h.flight[b] EXCEPT !.next = a] ELSE h.flight[b]
        BY <1>11, <3>1 DEF Placed
      <4> QED
        BY <3>3, <4>1 DEF FlightNode
    <3>5. \A q \in PassengerAddr : Same(h, r, q)
      BY <1>11 DEF Placed, Same
    <3> QED
      BY <1>1, <2>2, <3>2, <3>4, <3>5, EntrySame
  <2>6. Entry(r, a) = new
    <3>1. r.flight[a].id = id /\ r.flight[a].seats = seats /\ r.flight[a].passengers = Nil
      BY <1>11 DEF Placed
    <3>2. SeatList(r, a, <<>>) /\ <<>> \in Seq(PassengerAddr)
      BY <3>1, NoSeats
    <3>3. Books(r, <<>>, Booked(r, a))
      BY <2>2, <3>2, BookedIs
    <3>4. DOMAIN <<>> = {} /\ <<>> = [x \in DOMAIN <<>> |-> <<>>[x]] /\ \A q : ~Has(<<>>, q)
      BY DEF Has
    <3>5. Books(r, <<>>, <<>>)
      BY <3>4 DEF Books
    <3>6. Booked(r, a) = <<>>
      BY <3>3, <3>5, BooksUnique
    <3> QED
      BY <3>1, <3>6 DEF Entry, Abstract!Flight, new
  <2>7. /\ t \in Seq(S) /\ Len(t) = Len(L) + 1
        /\ \A i \in 1..(Len(L) + 1) : t[i] = IF i = Len(L) + 1 THEN new ELSE reg[i]
    <3>1. new \in S
      OBVIOUS
    <3> HIDE DEF S
    <3> QED
      BY <1>4, <3>1, AppendAt
  <2> HIDE DEF K, t
  <2>8. ASSUME NEW i \in 1..(Len(L) + 1)
        PROVE  Entry(r, K[i]) = t[i]
    <3>1. CASE i = Len(L) + 1
      BY <2>3, <2>6, <2>7, <3>1
    <3>2. CASE i # Len(L) + 1
      <4>1. i \in 1..Len(L)
        BY <1>3, <3>2
      <4>2. K[i] = L[i] /\ t[i] = Entry(h, L[i]) /\ L[i] \in FlightAddr /\ Has(L, L[i])
        BY <1>3, <1>4, <2>3, <2>7, <3>2, <4>1
      <4> QED
        BY <2>5, <4>2
    <3> QED
      BY <3>1, <3>2
  <2>9. /\ RegistryOf(r) \in Seq(S) /\ Len(RegistryOf(r)) = Len(L) + 1
        /\ \A i \in 1..(Len(L) + 1) : RegistryOf(r)[i] = Entry(r, K[i])
    <3>1. \A i \in 1..Len(K) : Entry(r, K[i]) \in S
      <4>1. \A i \in 1..Len(t) : t[i] \in S
        BY <2>7, ElementOfSeq
      <4> HIDE DEF S
      <4> QED
        BY <2>3, <2>7, <2>8, <4>1
    <3> HIDE DEF S
    <3> QED
      BY <2>2, <2>3, <3>1, RegistrySeq
  <2> HIDE DEF S
  <2>10. RegistryOf(r) = t
    BY <2>7, <2>8, <2>9, SeqEqual
  <2> QED
    BY <1>7, <2>1, <2>10 DEF t
<1>12. CASE FindFlight(h, id) # Nil \/ h.failed
  <2>1. r = h
    BY <1>12 DEF add_flight, r
  <2> QED
    BY <1>9, <1>12, <2>1 DEF r, reg
<1>13. RegistryOf(r) = Abstract!PutFlight(reg, id, seats)
  <2>1. CASE r = h /\ (h.failed \/ FindFlight(h, id) # Nil)
    BY <1>9, <2>1 DEF r, reg
  <2>2. CASE r = OutOfMemory(h)
    BY <1>10, <2>2 DEF r, reg
  <2>3. CASE FindFlight(h, id) # Nil \/ h.failed
    BY <1>12, <2>3 DEF r, reg
  <2> QED
    BY <1>2, <1>11, <2>1, <2>2, <2>3
<1> QED
  BY <1>13 DEF r, reg

(* The flight that is found is the only one of its id. *)
LEMMA Named ==
  ASSUME NEW h, NEW L, NEW G, Shape(h, L, G), IdsDiffer(RegistryOf(h)),
         NEW id, NEW f, f = FindFlight(h, id), f # Nil
  PROVE  \E k \in 1..Len(L) :
           /\ L[k] = f /\ f \in FlightAddr /\ h.flight[f].id = id
           /\ \A i \in 1..Len(L) : h.flight[L[i]].id = id <=> i = k
<1>1. h \in Heap /\ FlightList(h, L)
  BY DEF Shape
<1>2. f \in FlightAddr /\ Has(L, f) /\ h.flight[f].id = id
  BY <1>1, FlightFound
<1>3. PICK k \in 1..Len(L) : L[k] = f
  BY <1>2 DEF Has
<1>4. RegistryOf(h) = [i \in 1..Len(L) |-> Entry(h, L[i])]
  BY RegistryIs
<1>5. ASSUME NEW i \in 1..Len(L), h.flight[L[i]].id = id
      PROVE  i = k
  <2>1. Entry(h, L[i]).id = id /\ Entry(h, L[k]).id = id
    BY <1>2, <1>3, <1>5, EntryFields
  <2>2. RegistryOf(h)[i].id = id /\ RegistryOf(h)[k].id = id /\ DOMAIN RegistryOf(h) = 1..Len(L)
    BY <1>4, <2>1
  <2> QED
    BY <2>2 DEF IdsDiffer
<1> QED
  BY <1>2, <1>3, <1>5

(* Who sits on the other flights stays. *)
LEMMA OthersStay ==
  ASSUME NEW h, NEW r, NEW L, NEW G, NEW F, Shape(h, L, G), Shape(r, L, F),
         NEW f \in FlightAddr, FlightsSame(h, r, f), NEW p, SeatedOn(h, r, f, G, F, p),
         NEW b \in FlightAddr, b # f, ~Has(G[b], p)
  PROVE  Entry(r, b) = Entry(h, b)
<1>1. h \in Heap /\ r \in Heap /\ SeatLists(h, G, {}) /\ SeatLists(r, F, {})
  BY DEF Shape
<1>2. F[b] = G[b]
  BY DEF SeatedOn
<1>3. G[b] \in Seq(PassengerAddr) /\ SeatList(h, b, G[b]) /\ SeatList(r, b, G[b])
  BY <1>1, <1>2 DEF SeatLists
<1>4. r.flight[b].id = h.flight[b].id /\ r.flight[b].seats = h.flight[b].seats
  BY DEF FlightsSame
<1>5. \A q \in PassengerAddr : Has(G[b], q) => Same(h, r, q)
  BY DEF SeatedOn
<1> QED
  BY <1>1, <1>3, <1>4, <1>5, EntrySame

With(h, f, b) == [Entry(h, f) EXCEPT !.booked = b]

(* The entry of the flight somebody was put on. *)
LEMMA EntryChanged ==
  ASSUME NEW h, NEW r, NEW L, NEW F, Shape(r, L, F), NEW f \in FlightAddr, FlightsSame(h, r, f),
         NEW b, Books(r, F[f], b)
  PROVE  Entry(r, f) = With(h, f, b)
<1>1. r \in Heap /\ F[f] \in Seq(PassengerAddr) /\ SeatList(r, f, F[f])
  BY DEF Shape, SeatLists
<1>2. Books(r, F[f], Booked(r, f))
  BY <1>1, BookedIs
<1>3. Booked(r, f) = b
  BY <1>2, BooksUnique
<1>4. r.flight[f].id = h.flight[f].id /\ r.flight[f].seats = h.flight[f].seats
  BY DEF FlightsSame
<1> QED
  BY <1>3, <1>4, EntryFields DEF Entry, With

(* A seat is in the bookings if somebody is found in it. *)
LEMMA SeatBooked ==
  ASSUME NEW h, NEW L, NEW G, Shape(h, L, G), NEW f \in FlightAddr
  PROVE  /\ G[f] \in Seq(PassengerAddr) /\ SeatList(h, f, G[f]) /\ Books(h, G[f], Booked(h, f))
         /\ \A seat : seat \in DOMAIN Booked(h, f) <=> FindSeat(h, f, seat) # Nil
<1>1. h \in Heap /\ G[f] \in Seq(PassengerAddr) /\ SeatList(h, f, G[f])
  BY DEF Shape, SeatLists
<1>2. Books(h, G[f], Booked(h, f))
  BY <1>1, BookedIs
<1>3. ASSUME NEW seat
      PROVE  seat \in DOMAIN Booked(h, f) <=> FindSeat(h, f, seat) # Nil
  <2> DEFINE p == FindSeat(h, f, seat)
  <2>1. \/ p = Nil /\ \A i \in 1..Len(G[f]) : h.person[G[f][i]].seat # seat
        \/ p \in PassengerAddr /\ Has(G[f], p) /\ h.person[p].seat = seat
    BY <1>1, SeatFound
  <2>2. Nil \notin PassengerAddr
    BY Addresses
  <2>3. seat \in DOMAIN Booked(h, f) <=> \E q \in PassengerAddr : Has(G[f], q) /\ h.person[q].seat = seat
    BY <1>2 DEF Books
  <2> HIDE DEF p
  <2>4. p # Nil <=> \E q \in PassengerAddr : Has(G[f], q) /\ h.person[q].seat = seat
    BY <2>1, <2>2 DEF Has
  <2> QED
    BY <2>3, <2>4 DEF p
<1> QED
  BY <1>1, <1>2, <1>3

(* The bookings with one more, and with one moved. *)
Plus(b, seat, who) == [x \in DOMAIN b \cup {seat} |-> IF x = seat THEN who ELSE b[x]]
Moved(b, old, new) == [x \in (DOMAIN b \ {old}) \cup {new} |-> IF x = new THEN b[old] ELSE b[x]]

(* A seat that the flight has and nobody sits in. *)
Free(h, f, seat) == seat \in 1..h.flight[f].seats \ DOMAIN Booked(h, f)

(* The registry of h with the k-th entry replaced. *)
Replaced(h, L, k, e) == [i \in 1..Len(L) |-> IF i = k THEN e ELSE Entry(h, L[i])]

(* What PutPassenger does to a registry in which only the k-th flight has  *)
(* the id.                                                                 *)
LEMMA PutPassengerAt ==
  ASSUME NEW h, NEW L, NEW G, Shape(h, L, G), NEW k \in 1..Len(L), NEW id, NEW f, L[k] = f,
         \A i \in 1..Len(L) : h.flight[L[i]].id = id <=> i = k,
         NEW seat, NEW who
  PROVE  Abstract!PutPassenger(RegistryOf(h), id, seat, who)
           = IF Free(h, f, seat) THEN Replaced(h, L, k, With(h, f, Plus(Booked(h, f), seat, who)))
                                 ELSE RegistryOf(h)
<1> DEFINE reg == RegistryOf(h)
           V(i) == IF reg[i].id = id /\ seat \in 1..reg[i].seats \ DOMAIN reg[i].booked
                   THEN [reg[i] EXCEPT !.booked = [x \in DOMAIN reg[i].booked \cup {seat} |->
                                                     IF x = seat THEN who ELSE reg[i].booked[x]]]
                   ELSE reg[i]
           W(i) == IF i = k /\ Free(h, f, seat) THEN With(h, f, Plus(Booked(h, f), seat, who))
                                                ELSE Entry(h, L[i])
<1>1. reg = [i \in 1..Len(L) |-> Entry(h, L[i])]
  BY RegistryIs
<1>2. Abstract!PutPassenger(reg, id, seat, who) = [i \in DOMAIN reg |-> V(i)]
  BY DEF Abstract!PutPassenger
<1> HIDE DEF reg
<1>3. DOMAIN reg = 1..Len(L)
  BY <1>1
<1>4. ASSUME NEW i \in 1..Len(L)
      PROVE  V(i) = W(i)
  <2>1. reg[i] = Entry(h, L[i])
    BY <1>1
  <2>2. reg[i].id = h.flight[L[i]].id /\ reg[i].seats = h.flight[L[i]].seats /\ reg[i].booked = Booked(h, L[i])
    BY <2>1, EntryFields
  <2>3. CASE i = k
    BY <2>1, <2>2, <2>3 DEF Free, With, Plus
  <2>4. CASE i # k
    BY <2>1, <2>2, <2>4
  <2> QED
    BY <2>3, <2>4
<1> HIDE DEF V
<1>5. Abstract!PutPassenger(reg, id, seat, who) = [i \in 1..Len(L) |-> W(i)]
  BY <1>2, <1>3, <1>4
<1>6. CASE Free(h, f, seat)
  BY <1>5, <1>6 DEF Replaced, reg
<1>7. CASE ~Free(h, f, seat)
  BY <1>1, <1>5, <1>7 DEF reg
<1> QED
  BY <1>6, <1>7

(* From h to r one passenger p moved, on flight f, the k-th. *)
OneMoved(h, r, L, G, F, k, f, p) ==
  /\ Shape(h, L, G) /\ Shape(r, L, F) /\ k \in 1..Len(L) /\ f \in FlightAddr /\ L[k] = f
  /\ FlightsSame(h, r, f) /\ SeatedOn(h, r, f, G, F, p)
  /\ \A a \in FlightAddr : a # f => ~Has(G[a], p)

(* Every entry but the k-th stays. *)
LEMMA ReplacedIs ==
  ASSUME NEW h, NEW r, NEW L, NEW G, NEW F, NEW k, NEW f, NEW p, OneMoved(h, r, L, G, F, k, f, p),
         NEW b, Books(r, F[f], b)
  PROVE  RegistryOf(r) = Replaced(h, L, k, With(h, f, b))
<1> USE DEF OneMoved
<1>1. h \in Heap /\ FlightList(h, L) /\ Distinct(L)
  BY DEF Shape, FlightList
<1>2. Entry(r, f) = With(h, f, b)
  BY EntryChanged
<1>3. ASSUME NEW i \in 1..Len(L), i # k
      PROVE  Entry(r, L[i]) = Entry(h, L[i])
  <2>1. L[i] \in FlightAddr
    BY <1>1, FlightsElements
  <2>2. L[i] # f
    BY <1>1, <1>3 DEF Distinct
  <2>3. ~Has(G[L[i]], p)
    BY <2>1, <2>2
  <2> QED
    BY <2>1, <2>2, <2>3, OthersStay
<1>4. RegistryOf(r) = [i \in 1..Len(L) |-> Entry(r, L[i])]
  BY RegistryIs
<1>5. \A i \in 1..Len(L) : Entry(r, L[i]) = IF i = k THEN With(h, f, b) ELSE Entry(h, L[i])
  BY <1>2, <1>3
<1> QED
  BY <1>4, <1>5 DEF Replaced

LEMMA PutPassengerIs ==
  ASSUME NEW h, NEW L, NEW G, Shape(h, L, G), IdsDiffer(RegistryOf(h)),
         NEW id, NEW f, f = FindFlight(h, id), f # Nil, NEW seat \in Int, NEW who \in KnownPeople,
         ~add_passenger(h, f, seat, who).failed
  PROVE  RegistryOf(add_passenger(h, f, seat, who)) = Abstract!PutPassenger(RegistryOf(h), id, seat, who)
<1> DEFINE r == add_passenger(h, f, seat, who)
           b == Booked(h, f)
<1>1. PICK k \in 1..Len(L) :
           /\ L[k] = f /\ f \in FlightAddr /\ h.flight[f].id = id
           /\ \A i \in 1..Len(L) : h.flight[L[i]].id = id <=> i = k
  BY Named
<1>2. Abstract!PutPassenger(RegistryOf(h), id, seat, who)
        = IF Free(h, f, seat) THEN Replaced(h, L, k, With(h, f, Plus(b, seat, who))) ELSE RegistryOf(h)
  BY <1>1, PutPassengerAt
<1>3. Has(L, f) /\ h \in Heap /\ FlightList(h, L) /\ SeatLists(h, G, {})
  BY <1>1 DEF Has, Shape
<1>4. /\ G[f] \in Seq(PassengerAddr) /\ SeatList(h, f, G[f]) /\ Books(h, G[f], b)
      /\ seat \in DOMAIN b <=> FindSeat(h, f, seat) # Nil
  BY <1>1, SeatBooked
<1>5. \/ r = h /\ (h.failed \/ seat \notin 1..h.flight[f].seats \/ FindSeat(h, f, seat) # Nil)
      \/ r = OutOfMemory(h)
      \/ \E F \in [FlightAddr -> Seq(PassengerAddr)], p \in PassengerAddr :
           /\ Shape(r, L, F) /\ FlightsSame(h, r, f) /\ SeatedOn(h, r, f, G, F, p)
           /\ seat \in 1..h.flight[f].seats /\ FindSeat(h, f, seat) = Nil
           /\ r.person[p].seat = seat /\ r.person[p].who = who
           /\ \A a \in FlightAddr : ~Has(G[a], p)
  BY <1>1, <1>3, AddPassengerCases
<1>6. ~r.failed
  OBVIOUS
<1> HIDE DEF r, b
<1>7. CASE r = h /\ (h.failed \/ seat \notin 1..h.flight[f].seats \/ FindSeat(h, f, seat) # Nil)
  <2>1. ~Free(h, f, seat)
    BY <1>4, <1>6, <1>7 DEF Free, b
  <2> QED
    BY <1>2, <1>7, <2>1 DEF r
<1>8. CASE r = OutOfMemory(h)
  BY <1>6, <1>8, OutOfMemoryShape
<1>9. ASSUME NEW F \in [FlightAddr -> Seq(PassengerAddr)], NEW p \in PassengerAddr,
             Shape(r, L, F), FlightsSame(h, r, f), SeatedOn(h, r, f, G, F, p),
             seat \in 1..h.flight[f].seats, FindSeat(h, f, seat) = Nil,
             r.person[p].seat = seat, r.person[p].who = who,
             \A a \in FlightAddr : ~Has(G[a], p)
      PROVE  RegistryOf(r) = Abstract!PutPassenger(RegistryOf(h), id, seat, who)
  <2> DEFINE new == Plus(b, seat, who)
  <2>1. Free(h, f, seat)
    BY <1>4, <1>9 DEF Free, b
  <2>2. Books(r, F[f], new)
    <3>1. \A q \in PassengerAddr : Has(G[f], q) => q # p /\ Same(h, r, q)
      BY <1>1, <1>9 DEF SeatedOn
    <3>2. \A q : Has(F[f], q) <=> Has(G[f], q) \/ q = p
      BY <1>9 DEF SeatedOn
    <3>3. \A x : x \in DOMAIN b <=> \E q \in PassengerAddr : Has(G[f], q) /\ h.person[q].seat = x
      BY <1>4 DEF Books
    <3>4. \A q \in PassengerAddr : Has(G[f], q) => b[h.person[q].seat] = h.person[q].who /\ h.person[q].seat # seat
      BY <1>4, <1>9, <3>3 DEF Books
    <3>5. DOMAIN new = DOMAIN b \cup {seat}
      BY DEF Plus
    <3>6. \A x \in DOMAIN new : new[x] = IF x = seat THEN who ELSE b[x]
      BY DEF Plus
    <3>7. new = [x \in DOMAIN new |-> new[x]]
      BY DEF Plus
    <3> HIDE DEF new
    <3>8. ASSUME NEW x
          PROVE  x \in DOMAIN new <=> \E q \in PassengerAddr : Has(F[f], q) /\ r.person[q].seat = x
      <4>1. CASE x = seat
        BY <1>9, <3>2, <3>5, <4>1
      <4>2. CASE x # seat
        <5>1. ASSUME NEW q \in PassengerAddr, Has(F[f], q), r.person[q].seat = x
              PROVE  Has(G[f], q) /\ h.person[q].seat = x
          BY <1>9, <3>1, <3>2, <4>2, <5>1 DEF Same
        <5>2. ASSUME NEW q \in PassengerAddr, Has(G[f], q), h.person[q].seat = x
              PROVE  Has(F[f], q) /\ r.person[q].seat = x
          BY <3>1, <3>2, <5>2 DEF Same
        <5>3. x \in DOMAIN new <=> x \in DOMAIN b
          BY <3>5, <4>2
        <5> QED
          BY <3>3, <5>1, <5>2, <5>3
      <4> QED
        BY <4>1, <4>2
    <3>9. ASSUME NEW q \in PassengerAddr, Has(F[f], q)
          PROVE  new[r.person[q].seat] = r.person[q].who
      <4>1. r.person[q].seat \in DOMAIN new
        BY <3>8, <3>9
      <4>2. CASE q = p
        BY <1>9, <3>6, <4>1, <4>2
      <4>3. CASE q # p
        <5>1. Has(G[f], q) /\ Same(h, r, q)
          BY <3>1, <3>2, <3>9, <4>3
        <5> QED
          BY <3>4, <3>6, <4>1, <5>1 DEF Same
      <4> QED
        BY <4>2, <4>3
    <3> QED
      BY <3>7, <3>8, <3>9 DEF Books
  <2> HIDE DEF new
  <2>3. RegistryOf(r) = Replaced(h, L, k, With(h, f, new))
    <3>1. Shape(r, L, F) /\ FlightsSame(h, r, f) /\ SeatedOn(h, r, f, G, F, p)
      BY <1>9
    <3>2. \A a \in FlightAddr : a # f => ~Has(G[a], p)
      BY <1>9
    <3>3. f \in FlightAddr /\ L[k] = f
      BY <1>1
    <3>4. OneMoved(h, r, L, G, F, k, f, p)
      BY <3>1, <3>2, <3>3 DEF OneMoved
    <3> QED
      BY <2>2, <3>4, ReplacedIs
  <2> QED
    BY <1>2, <2>1, <2>3 DEF new
<1>10. CASE \E F \in [FlightAddr -> Seq(PassengerAddr)], p \in PassengerAddr :
           /\ Shape(r, L, F) /\ FlightsSame(h, r, f) /\ SeatedOn(h, r, f, G, F, p)
           /\ seat \in 1..h.flight[f].seats /\ FindSeat(h, f, seat) = Nil
           /\ r.person[p].seat = seat /\ r.person[p].who = who
           /\ \A a \in FlightAddr : ~Has(G[a], p)
  BY <1>9, <1>10 DEF r
<1> QED
  BY <1>5, <1>7, <1>8, <1>10 DEF r

LEMMA ReseatAt ==
  ASSUME NEW h, NEW L, NEW G, Shape(h, L, G), NEW k \in 1..Len(L), NEW id, NEW f, L[k] = f,
         \A i \in 1..Len(L) : h.flight[L[i]].id = id <=> i = k,
         NEW old, NEW new
  PROVE  Abstract!Reseat(RegistryOf(h), id, old, new)
           = IF old \in DOMAIN Booked(h, f) /\ Free(h, f, new)
             THEN Replaced(h, L, k, With(h, f, Moved(Booked(h, f), old, new)))
             ELSE RegistryOf(h)
<1> DEFINE reg == RegistryOf(h)
           yes == old \in DOMAIN Booked(h, f) /\ Free(h, f, new)
           V(i) == IF /\ reg[i].id = id /\ old \in DOMAIN reg[i].booked
                      /\ new \in 1..reg[i].seats \ DOMAIN reg[i].booked
                   THEN [reg[i] EXCEPT !.booked = [x \in (DOMAIN reg[i].booked \ {old}) \cup {new} |->
                                                     IF x = new THEN reg[i].booked[old] ELSE reg[i].booked[x]]]
                   ELSE reg[i]
           W(i) == IF i = k /\ yes THEN With(h, f, Moved(Booked(h, f), old, new)) ELSE Entry(h, L[i])
<1>1. reg = [i \in 1..Len(L) |-> Entry(h, L[i])]
  BY RegistryIs
<1>2. Abstract!Reseat(reg, id, old, new) = [i \in DOMAIN reg |-> V(i)]
  BY DEF Abstract!Reseat
<1> HIDE DEF reg
<1>3. DOMAIN reg = 1..Len(L)
  BY <1>1
<1>4. ASSUME NEW i \in 1..Len(L)
      PROVE  V(i) = W(i)
  <2>1. reg[i] = Entry(h, L[i])
    BY <1>1
  <2>2. reg[i].id = h.flight[L[i]].id /\ reg[i].seats = h.flight[L[i]].seats /\ reg[i].booked = Booked(h, L[i])
    BY <2>1, EntryFields
  <2>3. CASE i = k
    BY <2>1, <2>2, <2>3 DEF Free, With, Moved
  <2>4. CASE i # k
    BY <2>1, <2>2, <2>4
  <2> QED
    BY <2>3, <2>4
<1> HIDE DEF V
<1>5. Abstract!Reseat(reg, id, old, new) = [i \in 1..Len(L) |-> W(i)]
  BY <1>2, <1>3, <1>4
<1> HIDE DEF yes
<1>6. CASE yes
  BY <1>5, <1>6 DEF Replaced, reg, yes
<1>7. CASE ~yes
  BY <1>1, <1>5, <1>7 DEF reg, yes
<1> QED
  BY <1>6, <1>7

LEMMA ReseatIs ==
  ASSUME NEW h, NEW L, NEW G, Shape(h, L, G), IdsDiffer(RegistryOf(h)),
         NEW id, NEW f, f = FindFlight(h, id), f # Nil, NEW old \in Int, NEW new \in Int
  PROVE  RegistryOf(change_passenger_seat(h, f, old, new)) = Abstract!Reseat(RegistryOf(h), id, old, new)
<1> DEFINE r == change_passenger_seat(h, f, old, new)
           b == Booked(h, f)
           c == Moved(b, old, new)
<1>1. PICK k \in 1..Len(L) :
           /\ L[k] = f /\ f \in FlightAddr /\ h.flight[f].id = id
           /\ \A i \in 1..Len(L) : h.flight[L[i]].id = id <=> i = k
  BY Named
<1>2. Abstract!Reseat(RegistryOf(h), id, old, new)
        = IF old \in DOMAIN b /\ Free(h, f, new) THEN Replaced(h, L, k, With(h, f, c)) ELSE RegistryOf(h)
  BY <1>1, ReseatAt
<1>3. Has(L, f) /\ h \in Heap /\ FlightList(h, L) /\ SeatLists(h, G, {})
  BY <1>1 DEF Has, Shape
<1>4. /\ G[f] \in Seq(PassengerAddr) /\ SeatList(h, f, G[f]) /\ Books(h, G[f], b)
      /\ \A x : x \in DOMAIN b <=> FindSeat(h, f, x) # Nil
  BY <1>1, SeatBooked
<1>5. \/ /\ r = h
         /\ new \notin 1..h.flight[f].seats \/ FindSeat(h, f, new) # Nil \/ FindSeat(h, f, old) = Nil
      \/ \E F \in [FlightAddr -> Seq(PassengerAddr)], p \in PassengerAddr :
           /\ Shape(r, L, F) /\ FlightsSame(h, r, f) /\ SeatedOn(h, r, f, G, F, p)
           /\ new \in 1..h.flight[f].seats /\ FindSeat(h, f, new) = Nil
           /\ Has(G[f], p) /\ h.person[p].seat = old
           /\ r.person[p].seat = new /\ r.person[p].who = h.person[p].who
  <2>1. f \in FlightAddr /\ Has(L, f)
    BY <1>1, <1>3
  <2> QED
    BY ONLY Shape(h, L, G), <2>1, ChangeSeatCases, old \in Int, new \in Int
<1> HIDE DEF r, b, c
<1>6. CASE /\ r = h
           /\ new \notin 1..h.flight[f].seats \/ FindSeat(h, f, new) # Nil \/ FindSeat(h, f, old) = Nil
  <2>1. ~(old \in DOMAIN b /\ Free(h, f, new))
    BY <1>4, <1>6 DEF Free, b
  <2> QED
    BY <1>2, <1>6, <2>1 DEF r
<1>7. ASSUME NEW F \in [FlightAddr -> Seq(PassengerAddr)], NEW p \in PassengerAddr,
             Shape(r, L, F), FlightsSame(h, r, f), SeatedOn(h, r, f, G, F, p),
             new \in 1..h.flight[f].seats, FindSeat(h, f, new) = Nil,
             Has(G[f], p), h.person[p].seat = old, r.person[p].seat = new, r.person[p].who = h.person[p].who
      PROVE  RegistryOf(r) = Abstract!Reseat(RegistryOf(h), id, old, new)
  <2>1. \A x : x \in DOMAIN b <=> \E q \in PassengerAddr : Has(G[f], q) /\ h.person[q].seat = x
    BY <1>4 DEF Books
  <2>2. \A q \in PassengerAddr : Has(G[f], q) => b[h.person[q].seat] = h.person[q].who
    BY <1>4 DEF Books
  <2>3. old \in DOMAIN b /\ new \notin DOMAIN b /\ b[old] = h.person[p].who
    BY <1>4, <1>7, <2>1, <2>2
  <2>4. Free(h, f, new)
    BY <1>7, <2>3 DEF Free, b
  <2>5. Books(r, F[f], c)
    <3>1. \A q \in PassengerAddr : Has(F[f], q) <=> Has(G[f], q)
      BY <1>7 DEF SeatedOn
    <3>2. \A q \in PassengerAddr : Has(G[f], q) /\ q # p =>
             Same(h, r, q) /\ h.person[q].seat # old /\ h.person[q].seat # new /\ h.person[q].seat \in DOMAIN b
      <4> SUFFICES ASSUME NEW q \in PassengerAddr, Has(G[f], q), q # p
                   PROVE  Same(h, r, q) /\ h.person[q].seat # old /\ h.person[q].seat # new
                          /\ h.person[q].seat \in DOMAIN b
        OBVIOUS
      <4>1. Same(h, r, q)
        BY <1>7 DEF SeatedOn
      <4>2. h.person[q].seat # old
        BY <1>1, <1>3, <1>4, <1>7, SeatOnce
      <4>3. h.person[q].seat \in DOMAIN b
        BY <2>1
      <4> QED
        BY <2>3, <4>1, <4>2, <4>3
    <3>3. DOMAIN c = (DOMAIN b \ {old}) \cup {new}
      BY DEF Moved, c
    <3>4. \A x \in DOMAIN c : c[x] = IF x = new THEN b[old] ELSE b[x]
      BY DEF Moved, c
    <3>5. c = [x \in DOMAIN c |-> c[x]]
      BY DEF Moved, c
    <3>6. ASSUME NEW x
          PROVE  x \in DOMAIN c <=> \E q \in PassengerAddr : Has(F[f], q) /\ r.person[q].seat = x
      <4>1. CASE x = new
        BY <1>7, <3>1, <3>3, <4>1
      <4>2. CASE x # new
        <5>1. ASSUME NEW q \in PassengerAddr, Has(F[f], q), r.person[q].seat = x
              PROVE  x \in DOMAIN b /\ x # old
          <6>1. q # p /\ Has(G[f], q)
            BY <1>7, <3>1, <4>2, <5>1
          <6>2. h.person[q].seat = x
            BY <3>2, <5>1, <6>1 DEF Same
          <6> QED
            BY <3>2, <6>1, <6>2
        <5>2. ASSUME x \in DOMAIN b, x # old
              PROVE  \E q \in PassengerAddr : Has(F[f], q) /\ r.person[q].seat = x
          <6>1. PICK q \in PassengerAddr : Has(G[f], q) /\ h.person[q].seat = x
            BY <2>1, <5>2
          <6>2. q # p
            BY <1>7, <5>2, <6>1
          <6>3. Has(F[f], q) /\ r.person[q].seat = x
            BY <3>1, <3>2, <6>1, <6>2 DEF Same
          <6> QED
            BY <6>3
        <5>3. x \in DOMAIN c <=> x \in DOMAIN b /\ x # old
          BY <3>3, <4>2
        <5> QED
          BY <5>1, <5>2, <5>3
      <4> QED
        BY <4>1, <4>2
    <3>7. ASSUME NEW q \in PassengerAddr, Has(F[f], q)
          PROVE  c[r.person[q].seat] = r.person[q].who
      <4>1. r.person[q].seat \in DOMAIN c
        BY <3>6, <3>7
      <4>2. CASE q = p
        BY <1>7, <2>3, <3>4, <4>1, <4>2
      <4>3. CASE q # p
        <5>1. Has(G[f], q) /\ Same(h, r, q) /\ h.person[q].seat # new
          BY <3>1, <3>2, <3>7, <4>3
        <5> QED
          BY <2>2, <3>4, <4>1, <5>1 DEF Same
      <4> QED
        BY <4>2, <4>3
    <3> QED
      BY <3>5, <3>6, <3>7 DEF Books
  <2>6. RegistryOf(r) = Replaced(h, L, k, With(h, f, c))
    <3>1. \A a \in FlightAddr : a # f => ~Has(G[a], p)
      BY <1>1, <1>3, <1>7 DEF SeatLists
    <3>2. OneMoved(h, r, L, G, F, k, f, p)
      BY <1>1, <1>7, <3>1 DEF OneMoved
    <3> QED
      BY <2>5, <3>2, ReplacedIs
  <2> QED
    BY <1>2, <2>3, <2>4, <2>6
<1>8. CASE \E F \in [FlightAddr -> Seq(PassengerAddr)], p \in PassengerAddr :
           /\ Shape(r, L, F) /\ FlightsSame(h, r, f) /\ SeatedOn(h, r, f, G, F, p)
           /\ new \in 1..h.flight[f].seats /\ FindSeat(h, f, new) = Nil
           /\ Has(G[f], p) /\ h.person[p].seat = old
           /\ r.person[p].seat = new /\ r.person[p].who = h.person[p].who
  BY <1>7, <1>8 DEF r
<1> QED
  BY <1>5, <1>6, <1>8 DEF r

LEMMA RemoveAtIs ==
  ASSUME NEW S, NEW s \in Seq(S), NEW k \in 1..Len(s)
  PROVE  Abstract!RemoveAt(s, k) = Removed(s, k)
<1> DEFINE a == SubSeq(s, 1, k - 1)
           c == SubSeq(s, k + 1, Len(s))
           t == Removed(s, k)
<1>1. Len(s) \in Nat /\ k \in Int /\ k >= 1 /\ k <= Len(s)
  BY LenProperties
<1>2. a \in Seq(S) /\ Len(a) = k - 1 /\ \A i \in 1..(k - 1) : a[i] = s[i]
  BY <1>1, SubSeqProperties
<1>3. c \in Seq(S) /\ Len(c) = Len(s) - k /\ \A i \in 1..(Len(s) - k) : c[i] = s[i + k]
  BY <1>1, SubSeqProperties
<1>4. Abstract!RemoveAt(s, k) = a \o c
  BY DEF Abstract!RemoveAt
<1> HIDE DEF a, c
<1>5. /\ a \o c \in Seq(S) /\ Len(a \o c) = Len(s) - 1
      /\ \A i \in 1..(Len(s) - 1) : (a \o c)[i] = IF i <= k - 1 THEN a[i] ELSE c[i - (k - 1)]
  <2>1. Len(a) + Len(c) = Len(s) - 1
    BY <1>1, <1>2, <1>3
  <2>2. /\ a \o c \in Seq(S) /\ Len(a \o c) = Len(a) + Len(c)
        /\ \A i \in 1..(Len(a) + Len(c)) : (a \o c)[i] = IF i <= Len(a) THEN a[i] ELSE c[i - Len(a)]
    BY <1>2, <1>3, ConcatProperties
  <2> QED
    BY <1>2, <2>1, <2>2
<1>6. t \in Seq(S) /\ Len(t) = Len(s) - 1 /\ \A i \in 1..(Len(s) - 1) : t[i] = IF i < k THEN s[i] ELSE s[i + 1]
  <2>1. Len(s) - 1 \in Nat
    BY <1>1
  <2>2. ASSUME NEW i \in 1..(Len(s) - 1)
        PROVE  t[i] = (IF i < k THEN s[i] ELSE s[i + 1]) /\ t[i] \in S
    <3>1. i \in 1..Len(s) /\ i + 1 \in 1..Len(s)
      BY <1>1
    <3>2. s[i] \in S /\ s[i + 1] \in S
      BY <3>1, ElementOfSeq
    <3> QED
      BY <3>2 DEF Removed
  <2>3. t = [i \in 1..(Len(s) - 1) |-> t[i]]
    BY DEF Removed
  <2> HIDE DEF t
  <2>4. t \in [1..(Len(s) - 1) -> S]
    BY <2>2, <2>3
  <2> QED
    BY <2>1, <2>2, <2>4
<1> HIDE DEF t
<1>7. ASSUME NEW i \in 1..(Len(s) - 1)
      PROVE  (a \o c)[i] = t[i]
  <2>1. CASE i < k
    <3>1. i \in 1..(k - 1) /\ i <= k - 1
      BY <1>1, <2>1
    <3>2. (a \o c)[i] = a[i] /\ a[i] = s[i] /\ t[i] = s[i]
      BY <1>2, <1>5, <1>6, <2>1, <3>1
    <3> QED
      BY <3>2
  <2>2. CASE ~(i < k)
    <3> DEFINE j == i - (k - 1)
    <3>1. j \in 1..(Len(s) - k) /\ j + k = i + 1
      BY <1>1, <2>2
    <3>2. ~(i <= k - 1) /\ ~(i < k)
      BY <1>1, <2>2
    <3>3. (a \o c)[i] = c[j]
      BY <1>5, <3>2
    <3> HIDE DEF j
    <3>4. c[j] = s[j + k]
      BY <1>3, <3>1
    <3>5. t[i] = s[i + 1]
      BY <1>6, <3>2
    <3> QED
      BY <3>1, <3>3, <3>4, <3>5
  <2> QED
    BY <2>1, <2>2
<1>8. a \o c = t
  BY <1>5, <1>6, <1>7, SeqEqual
<1> QED
  BY <1>4, <1>8 DEF t

(* What stays when the k-th flight is taken. *)
LEMMA GoneEntry ==
  ASSUME NEW h, NEW L, NEW G, Shape(h, L, G), NEW k \in 1..Len(L), NEW r, FlightGone(h, r, L, k, G[L[k]]),
         NEW b \in FlightAddr, b # L[k]
  PROVE  Entry(r, b) = Entry(h, b)
<1> DEFINE f == L[k]
           F == [G EXCEPT ![f] = <<>>]
<1>1. h \in Heap /\ FlightList(h, L) /\ SeatLists(h, G, {})
  BY DEF Shape
<1>2. f \in FlightAddr
  BY <1>1, FlightsElements
<1>3. Shape(r, Removed(L, k), F)
  BY GoneKeeps
<1>4. r \in Heap /\ SeatLists(r, F, {})
  BY <1>3 DEF Shape
<1>5. G \in [FlightAddr -> Seq(PassengerAddr)] /\ G[b] \in Seq(PassengerAddr) /\ SeatList(h, b, G[b])
  BY <1>1 DEF SeatLists
<1>6. F[b] = G[b]
  BY <1>2, <1>5
<1>7. SeatList(r, b, G[b])
  BY <1>4, <1>6 DEF SeatLists
<1>8. \A q \in PassengerAddr : Has(G[b], q) => Same(h, r, q)
  <2> SUFFICES ASSUME NEW q \in PassengerAddr, Has(G[b], q)
               PROVE  Same(h, r, q)
    OBVIOUS
  <2>1. ~Has(G[f], q)
    BY <1>1, <1>2 DEF SeatLists
  <2>2. r.person[q] = h.person[q]
    BY <2>1 DEF FlightGone
  <2> QED
    BY <2>2 DEF Same
<1>9. r.flight[b].id = h.flight[b].id /\ r.flight[b].seats = h.flight[b].seats
  BY DEF FlightGone
<1> QED
  BY <1>1, <1>4, <1>5, <1>7, <1>8, <1>9, EntrySame

LEMMA TakeFlightIs ==
  ASSUME NEW h, NEW L, NEW G, Shape(h, L, G), IdsDiffer(RegistryOf(h)), NEW id
  PROVE  RegistryOf(remove_flight(h, id)) = Abstract!TakeFlight(RegistryOf(h), id)
<1> DEFINE r == remove_flight(h, id)
           f == FindFlight(h, id)
           reg == RegistryOf(h)
           S == {Entry(h, b) : b \in FlightAddr}
<1>1. h \in Heap /\ FlightList(h, L)
  BY DEF Shape
<1>2. L \in Seq(FlightAddr) /\ Distinct(L) /\ Len(L) \in Nat /\ \A i \in 1..Len(L) : L[i] \in FlightAddr /\ Has(L, L[i])
  BY <1>1, FlightsElements DEF FlightList
<1>3. /\ reg \in Seq(S) /\ Len(reg) = Len(L) /\ DOMAIN reg = 1..Len(L)
      /\ \A i \in 1..Len(L) : reg[i] = Entry(h, L[i])
  <2>1. \A i \in 1..Len(L) : Entry(h, L[i]) \in S
    BY <1>2
  <2> HIDE DEF S
  <2> QED
    BY <2>1, RegistrySeq
<1>4. \A i \in 1..Len(L) : reg[i].id = h.flight[L[i]].id
  BY <1>3, EntryFields
<1>5. r = IF f = Nil THEN h ELSE Emptied(FreePassengers(UnlinkFlight(h, f), f), f)
  BY DEF remove_flight, Emptied
<1>6. Abstract!TakeFlight(reg, id)
        = IF id \in Abstract!IdsOf(reg)
          THEN Abstract!RemoveAt(reg, CHOOSE i \in DOMAIN reg : reg[i].id = id) ELSE reg
  BY DEF Abstract!TakeFlight
<1>7. id \in Abstract!IdsOf(reg) <=> \E i \in 1..Len(L) : h.flight[L[i]].id = id
  BY <1>3, <1>4 DEF Abstract!IdsOf
<1>8. f # Nil <=> \E b \in FlightAddr : Has(L, b) /\ h.flight[b].id = id
  BY <1>1, FlightKnown
<1>9. CASE f = Nil
  <2>1. id \notin Abstract!IdsOf(reg)
    BY <1>2, <1>7, <1>8, <1>9
  <2> QED
    BY <1>5, <1>6, <1>9, <2>1
<1>10. CASE f # Nil
  <2>1. PICK k \in 1..Len(L) :
           /\ L[k] = f /\ f \in FlightAddr /\ h.flight[f].id = id
           /\ \A i \in 1..Len(L) : h.flight[L[i]].id = id <=> i = k
    BY <1>10, Named
  <2> HIDE DEF r, f, reg
  <2>2. (CHOOSE i \in DOMAIN reg : reg[i].id = id) = k
    BY <1>3, <1>4, <2>1
  <2>3. Abstract!TakeFlight(reg, id) = Removed(reg, k)
    <3>1. Abstract!RemoveAt(reg, k) = Removed(reg, k)
      <4> HIDE DEF S
      <4> QED
        BY <1>3, RemoveAtIs
    <3> QED
      BY <1>6, <1>7, <2>1, <2>2, <3>1
  <2>4. FlightGone(h, r, L, k, G[L[k]])
    BY <1>5, <1>10, <2>1, RemoveFlightIs
  <2>5. Shape(r, Removed(L, k), [G EXCEPT ![L[k]] = <<>>])
    BY <2>4, GoneKeeps
  <2>6. /\ Len(Removed(L, k)) = Len(L) - 1
        /\ \A i \in 1..(Len(L) - 1) : Removed(L, k)[i] = IF i < k THEN L[i] ELSE L[i + 1]
    BY <1>2, RemovedIs
  <2>7. RegistryOf(r) = [i \in 1..(Len(L) - 1) |-> Entry(r, Removed(L, k)[i])]
    BY <2>5, <2>6, RegistryIs
  <2>8. ASSUME NEW i \in 1..(Len(L) - 1)
        PROVE  Entry(r, Removed(L, k)[i]) = IF i < k THEN reg[i] ELSE reg[i + 1]
    <3>1. ASSUME NEW j \in 1..Len(L), j # k
          PROVE  Entry(r, L[j]) = reg[j]
      <4>1. L[j] \in FlightAddr /\ L[j] # L[k]
        BY <1>2, <3>1 DEF Distinct
      <4>2. Entry(r, L[j]) = Entry(h, L[j])
        BY <2>4, <4>1, GoneEntry
      <4> QED
        BY <1>3, <4>2
    <3>2. CASE i < k
      <4>1. i \in 1..Len(L) /\ i # k
        BY <1>2, <3>2
      <4> QED
        BY <2>6, <3>1, <3>2, <4>1
    <3>3. CASE ~(i < k)
      <4>1. i + 1 \in 1..Len(L) /\ i + 1 # k
        BY <1>2, <3>3
      <4> QED
        BY <2>6, <3>1, <3>3, <4>1
    <3> QED
      BY <3>2, <3>3
  <2>9. RegistryOf(r) = Removed(reg, k)
    BY <1>3, <2>7, <2>8 DEF Removed
  <2> QED
    BY <2>3, <2>9 DEF r, reg
<1> QED
  BY <1>9, <1>10

(* Each operation keeps the ids different. *)
LEMMA PutFlightDiffer ==
  ASSUME NEW S, NEW s \in Seq(S), IdsDiffer(s), NEW id, NEW seats
  PROVE  IdsDiffer(Abstract!PutFlight(s, id, seats))
<1> DEFINE new == Abstract!Flight(id, seats, <<>>)
           T == S \cup {new}
           t == Append(s, new)
<1>1. s \in Seq(T) /\ new \in T
  <2> HIDE DEF new
  <2> QED
    BY LenProperties, ElementOfSeq
<1>2. new.id = id
  BY DEF Abstract!Flight
<1>3. Abstract!PutFlight(s, id, seats) = IF id \in Abstract!IdsOf(s) THEN s ELSE t
  BY DEF Abstract!PutFlight
<1> HIDE DEF new, T
<1>4. /\ t \in Seq(T) /\ Len(t) = Len(s) + 1
      /\ \A i \in 1..(Len(s) + 1) : t[i] = IF i = Len(s) + 1 THEN new ELSE s[i]
  BY <1>1, AppendAt
<1>5. DOMAIN s = 1..Len(s) /\ Len(s) \in Nat /\ DOMAIN t = 1..(Len(s) + 1)
  BY <1>1, <1>4, LenProperties
<1> HIDE DEF t
<1>6. CASE id \notin Abstract!IdsOf(s)
  <2>1. \A i \in 1..Len(s) : s[i].id # id
    BY <1>5, <1>6 DEF Abstract!IdsOf
  <2>2. ASSUME NEW i \in 1..(Len(s) + 1), NEW j \in 1..(Len(s) + 1), t[i].id = t[j].id
        PROVE  i = j
    <3>1. CASE i = Len(s) + 1 /\ j # Len(s) + 1
      <4>1. j \in 1..Len(s)
        BY <1>5, <3>1
      <4>2. t[i] = new /\ t[j] = s[j]
        BY <1>4, <3>1
      <4> QED
        BY <1>2, <2>1, <2>2, <4>1, <4>2
    <3>2. CASE i # Len(s) + 1 /\ j = Len(s) + 1
      <4>1. i \in 1..Len(s)
        BY <1>5, <3>2
      <4>2. t[j] = new /\ t[i] = s[i]
        BY <1>4, <3>2
      <4> QED
        BY <1>2, <2>1, <2>2, <4>1, <4>2
    <3>3. CASE i # Len(s) + 1 /\ j # Len(s) + 1
      <4>1. i \in DOMAIN s /\ j \in DOMAIN s
        BY <1>5, <3>3
      <4>2. t[j] = s[j] /\ t[i] = s[i]
        BY <1>4, <3>3
      <4> QED
        BY <2>2, <4>1, <4>2 DEF IdsDiffer
    <3> QED
      BY <3>1, <3>2, <3>3
  <2> QED
    BY <1>3, <1>5, <1>6, <2>2 DEF IdsDiffer
<1> QED
  BY <1>3, <1>6

LEMMA TakeFlightDiffer ==
  ASSUME NEW S, NEW s \in Seq(S), IdsDiffer(s), NEW id
  PROVE  IdsDiffer(Abstract!TakeFlight(s, id))
<1> DEFINE k == CHOOSE i \in DOMAIN s : s[i].id = id
           t == Removed(s, k)
<1>1. DOMAIN s = 1..Len(s) /\ Len(s) \in Nat
  BY LenProperties
<1>2. Abstract!TakeFlight(s, id) = IF id \in Abstract!IdsOf(s) THEN Abstract!RemoveAt(s, k) ELSE s
  BY DEF Abstract!TakeFlight
<1>3. CASE id \in Abstract!IdsOf(s)
  <2>1. k \in 1..Len(s)
    BY <1>1, <1>3 DEF Abstract!IdsOf
  <2> HIDE DEF k
  <2>2. Abstract!TakeFlight(s, id) = t
    BY <1>2, <1>3, <2>1, RemoveAtIs
  <2>3. DOMAIN t = 1..(Len(s) - 1) /\ \A i \in 1..(Len(s) - 1) : t[i] = IF i < k THEN s[i] ELSE s[i + 1]
    BY DEF Removed
  <2> HIDE DEF t
  <2>4. ASSUME NEW i \in 1..(Len(s) - 1), NEW j \in 1..(Len(s) - 1), t[i].id = t[j].id
        PROVE  i = j
    <3> DEFINE a == IF i < k THEN i ELSE i + 1
               c == IF j < k THEN j ELSE j + 1
    <3>1. a \in DOMAIN s /\ c \in DOMAIN s
      BY <1>1, <2>1
    <3>2. t[i] = s[a] /\ t[j] = s[c]
      BY <2>3
    <3>3. a = c
      <4> HIDE DEF a, c
      <4> QED
        BY <2>4, <3>1, <3>2 DEF IdsDiffer
    <3> QED
      BY <1>1, <2>1, <3>3
  <2> QED
    BY <2>2, <2>3, <2>4 DEF IdsDiffer
<1> QED
  BY <1>2, <1>3

(* The ids only depend on the flights. *)
LEMMA SameFlightsDiffer ==
  ASSUME NEW h, NEW r, NEW L, NEW G, NEW F, Shape(h, L, G), Shape(r, L, F), IdsDiffer(RegistryOf(h)),
         NEW f \in FlightAddr, FlightsSame(h, r, f)
  PROVE  IdsDiffer(RegistryOf(r))
<1>1. RegistryOf(h) = [i \in 1..Len(L) |-> Entry(h, L[i])] /\ RegistryOf(r) = [i \in 1..Len(L) |-> Entry(r, L[i])]
  BY RegistryIs
<1>2. \A i \in 1..Len(L) : L[i] \in FlightAddr
  BY FlightsElements DEF Shape
<1>3. \A b \in FlightAddr : r.flight[b].id = h.flight[b].id
  BY DEF FlightsSame
<1>4. \A i \in 1..Len(L) : RegistryOf(r)[i].id = RegistryOf(h)[i].id
  <2> SUFFICES ASSUME NEW i \in 1..Len(L) PROVE RegistryOf(r)[i].id = RegistryOf(h)[i].id
    OBVIOUS
  <2>1. RegistryOf(r)[i] = Entry(r, L[i]) /\ RegistryOf(h)[i] = Entry(h, L[i])
    BY <1>1
  <2>2. Entry(r, L[i]).id = r.flight[L[i]].id /\ Entry(h, L[i]).id = h.flight[L[i]].id
    BY EntryFields
  <2> QED
    BY <1>2, <1>3, <2>1, <2>2
<1>5. DOMAIN RegistryOf(r) = 1..Len(L) /\ DOMAIN RegistryOf(h) = 1..Len(L)
  BY <1>1
<1> QED
  BY <1>4, <1>5 DEF IdsDiffer

(* Where s has a flight, t has the same one. *)
GoesOn(s, t) == DOMAIN s \subseteq DOMAIN t /\ \A i \in DOMAIN s : t[i].id = s[i].id

LEMMA SameFlightsGoOn ==
  ASSUME NEW h, NEW r, NEW L, NEW G, NEW F, Shape(h, L, G), Shape(r, L, F),
         NEW f \in FlightAddr, FlightsSame(h, r, f)
  PROVE  GoesOn(RegistryOf(h), RegistryOf(r))
<1>1. RegistryOf(h) = [i \in 1..Len(L) |-> Entry(h, L[i])] /\ RegistryOf(r) = [i \in 1..Len(L) |-> Entry(r, L[i])]
  BY RegistryIs
<1>2. \A i \in 1..Len(L) : L[i] \in FlightAddr
  BY FlightsElements DEF Shape
<1>3. \A b \in FlightAddr : r.flight[b].id = h.flight[b].id
  BY DEF FlightsSame
<1>4. \A i \in 1..Len(L) : RegistryOf(r)[i].id = RegistryOf(h)[i].id
  <2> SUFFICES ASSUME NEW i \in 1..Len(L) PROVE RegistryOf(r)[i].id = RegistryOf(h)[i].id
    OBVIOUS
  <2>1. RegistryOf(r)[i] = Entry(r, L[i]) /\ RegistryOf(h)[i] = Entry(h, L[i])
    BY <1>1
  <2>2. Entry(r, L[i]).id = r.flight[L[i]].id /\ Entry(h, L[i]).id = h.flight[L[i]].id
    BY EntryFields
  <2> QED
    BY <1>2, <1>3, <2>1, <2>2
<1>5. DOMAIN RegistryOf(r) = 1..Len(L) /\ DOMAIN RegistryOf(h) = 1..Len(L)
  BY <1>1
<1> QED
  BY <1>4, <1>5 DEF GoesOn

LEMMA PutFlightGoesOn ==
  ASSUME NEW S, NEW s \in Seq(S), NEW id, NEW seats
  PROVE  GoesOn(s, Abstract!PutFlight(s, id, seats))
<1> DEFINE new == Abstract!Flight(id, seats, <<>>)
           T == S \cup {new}
           t == Append(s, new)
<1>1. s \in Seq(T) /\ new \in T
  <2> HIDE DEF new
  <2> QED
    BY LenProperties, ElementOfSeq
<1>2. Abstract!PutFlight(s, id, seats) = IF id \in Abstract!IdsOf(s) THEN s ELSE t
  BY DEF Abstract!PutFlight
<1> HIDE DEF new, T
<1>3. /\ t \in Seq(T) /\ Len(t) = Len(s) + 1
      /\ \A i \in 1..(Len(s) + 1) : t[i] = IF i = Len(s) + 1 THEN new ELSE s[i]
  BY <1>1, AppendAt
<1>4. DOMAIN s = 1..Len(s) /\ Len(s) \in Nat /\ DOMAIN t = 1..(Len(s) + 1)
  BY <1>1, <1>3, LenProperties
<1> HIDE DEF t
<1>5. \A i \in 1..Len(s) : t[i] = s[i]
  <2>1. \A i \in 1..Len(s) : i \in 1..(Len(s) + 1) /\ i # Len(s) + 1
    BY <1>4
  <2> QED
    BY <1>3, <2>1
<1>6. 1..Len(s) \subseteq 1..(Len(s) + 1)
  BY <1>4
<1> QED
  BY <1>2, <1>4, <1>5, <1>6 DEF GoesOn

-----------------------------------------------------------------------------
(* The choices of the menu, as steps of the registry *)

(* The memories in which an id names one flight. *)
Unique == {h \in Kept : IdsDiffer(RegistryOf(h))}

LEMMA UniqueIs ==
  ASSUME NEW h \in Unique
  PROVE  /\ h \in Kept /\ IdsDiffer(RegistryOf(h)) /\ \E S : RegistryOf(h) \in Seq(S)
         /\ \E L, G : Shape(h, L, G)
<1>1. PICK L, G : Shape(h, L, G)
  BY DEF Unique, Kept
<1> DEFINE S == {Entry(h, b) : b \in FlightAddr}
<1>2. \A i \in 1..Len(L) : L[i] \in FlightAddr
  BY <1>1, FlightsElements DEF Shape
<1>3. \A i \in 1..Len(L) : Entry(h, L[i]) \in S
  BY <1>2
<1> HIDE DEF S
<1>4. RegistryOf(h) \in Seq(S)
  BY <1>1, <1>3, RegistrySeq
<1> QED
  BY <1>1, <1>4 DEF Unique

LEMMA AddStep ==
  ASSUME NEW h \in Unique, NEW id \in KnownIds, NEW to \in KnownPlaces, NEW seats \in Int,
         ~add_flight(h, id, to, seats).failed
  PROVE  /\ RegistryOf(add_flight(h, id, to, seats)) = Abstract!PutFlight(RegistryOf(h), id, seats)
         /\ add_flight(h, id, to, seats) \in Unique /\ ~h.failed
         /\ GoesOn(RegistryOf(h), RegistryOf(add_flight(h, id, to, seats)))
<1> DEFINE r == add_flight(h, id, to, seats)
<1>1. PICK L, G : Shape(h, L, G)
  BY UniqueIs
<1>2. RegistryOf(r) = Abstract!PutFlight(RegistryOf(h), id, seats)
  BY <1>1, PutFlightIs
<1>3. h \in Kept /\ IdsDiffer(RegistryOf(h))
  BY UniqueIs
<1>4. r \in Kept /\ (h.failed => r.failed)
  BY <1>3, KeptAdd
<1>5. PICK S : RegistryOf(h) \in Seq(S)
  BY UniqueIs
<1>6. IdsDiffer(RegistryOf(r))
  BY <1>2, <1>3, <1>5, PutFlightDiffer
<1>7. GoesOn(RegistryOf(h), RegistryOf(r))
  BY <1>2, <1>5, PutFlightGoesOn
<1> QED
  BY <1>2, <1>4, <1>6, <1>7 DEF Unique

LEMMA BoardStep ==
  ASSUME NEW h \in Unique, NEW id, FindFlight(h, id) # Nil, NEW seat \in Int, NEW who \in KnownPeople,
         ~add_passenger(h, FindFlight(h, id), seat, who).failed
  PROVE  LET r == add_passenger(h, FindFlight(h, id), seat, who)
         IN /\ RegistryOf(r) = Abstract!PutPassenger(RegistryOf(h), id, seat, who)
            /\ r \in Unique /\ ~h.failed
            /\ GoesOn(RegistryOf(h), RegistryOf(r))
<1> DEFINE f == FindFlight(h, id)
           r == add_passenger(h, f, seat, who)
<1>1. PICK L, G : Shape(h, L, G)
  BY UniqueIs
<1>2. h \in Kept /\ IdsDiffer(RegistryOf(h))
  BY UniqueIs
<1>3. f \in FlightAddr /\ Has(L, f)
  BY <1>1, FoundFlight
<1>4. r \in Kept /\ (h.failed => r.failed)
  BY <1>2, KeptBoard
<1> HIDE DEF f
<1>5. RegistryOf(r) = Abstract!PutPassenger(RegistryOf(h), id, seat, who)
  BY <1>1, <1>2, PutPassengerIs DEF f
<1>6. \/ r = h \/ r = OutOfMemory(h) \/ \E F : Shape(r, L, F) /\ FlightsSame(h, r, f)
  BY <1>1, <1>3, AddPassengerCases
<1>7. r # OutOfMemory(h)
  BY <1>1, OutOfMemoryShape DEF f
<1> HIDE DEF r
<1>8. IdsDiffer(RegistryOf(r)) /\ GoesOn(RegistryOf(h), RegistryOf(r))
  <2>1. CASE r = h
    BY <1>2, <2>1 DEF GoesOn
  <2>2. ASSUME NEW F, Shape(r, L, F), FlightsSame(h, r, f)
        PROVE  IdsDiffer(RegistryOf(r)) /\ GoesOn(RegistryOf(h), RegistryOf(r))
    BY <1>1, <1>2, <1>3, <2>2, SameFlightsDiffer, SameFlightsGoOn
  <2> QED
    BY <1>6, <1>7, <2>1, <2>2
<1> QED
  BY <1>4, <1>5, <1>8 DEF Unique, r, f

LEMMA ReseatStep ==
  ASSUME NEW h \in Unique, NEW id, FindFlight(h, id) # Nil, NEW old \in Int, NEW new \in Int
  PROVE  LET r == change_passenger_seat(h, FindFlight(h, id), old, new)
         IN /\ RegistryOf(r) = Abstract!Reseat(RegistryOf(h), id, old, new) /\ r \in Unique /\ r.failed = h.failed
            /\ GoesOn(RegistryOf(h), RegistryOf(r))
<1> DEFINE f == FindFlight(h, id)
           r == change_passenger_seat(h, f, old, new)
<1>1. PICK L, G : Shape(h, L, G)
  BY UniqueIs
<1>2. h \in Kept /\ IdsDiffer(RegistryOf(h))
  BY UniqueIs
<1>3. f \in FlightAddr /\ Has(L, f)
  BY <1>1, FoundFlight
<1>4. r \in Kept
  BY <1>2, ChangeKept
<1> HIDE DEF f
<1>5. RegistryOf(r) = Abstract!Reseat(RegistryOf(h), id, old, new)
  BY <1>1, <1>2, ReseatIs DEF f
<1>6. \/ r = h \/ \E F : Shape(r, L, F) /\ FlightsSame(h, r, f)
  BY <1>1, <1>3, ChangeSeatCases
<1> HIDE DEF r
<1>7. IdsDiffer(RegistryOf(r)) /\ GoesOn(RegistryOf(h), RegistryOf(r)) /\ r.failed = h.failed
  <2>1. CASE r = h
    BY <1>2, <2>1 DEF GoesOn
  <2>2. ASSUME NEW F, Shape(r, L, F), FlightsSame(h, r, f)
        PROVE  IdsDiffer(RegistryOf(r)) /\ GoesOn(RegistryOf(h), RegistryOf(r)) /\ r.failed = h.failed
    <3>1. IdsDiffer(RegistryOf(r)) /\ GoesOn(RegistryOf(h), RegistryOf(r))
      BY <1>1, <1>2, <1>3, <2>2, SameFlightsDiffer, SameFlightsGoOn
    <3> QED
      BY <2>2, <3>1 DEF FlightsSame
  <2> QED
    BY <1>6, <2>1, <2>2
<1> QED
  BY <1>4, <1>5, <1>7 DEF Unique, r, f

LEMMA TakeStep ==
  ASSUME NEW h \in Unique, NEW id
  PROVE  LET r == remove_flight(h, id)
         IN RegistryOf(r) = Abstract!TakeFlight(RegistryOf(h), id) /\ r \in Unique
<1> DEFINE r == remove_flight(h, id)
<1>1. PICK L, G : Shape(h, L, G)
  BY UniqueIs
<1>2. h \in Kept /\ IdsDiffer(RegistryOf(h))
  BY UniqueIs
<1>3. r \in Kept
  BY <1>2, RemoveKept
<1>4. RegistryOf(r) = Abstract!TakeFlight(RegistryOf(h), id)
  BY <1>1, <1>2, TakeFlightIs
<1>5. PICK S : RegistryOf(h) \in Seq(S)
  BY UniqueIs
<1>6. IdsDiffer(RegistryOf(r))
  BY <1>2, <1>4, <1>5, TakeFlightDiffer
<1> QED
  BY <1>3, <1>4, <1>6 DEF Unique

(* A memory without flights has the empty registry. *)
LEMMA NothingRegistered ==
  ASSUME NEW h, NEW G, Shape(h, <<>>, G)
  PROVE  RegistryOf(h) = <<>> /\ h \in Unique
<1>1. Len(<<>>) = 0
  OBVIOUS
<1>2. RegistryOf(h) = [i \in 1..0 |-> Entry(h, <<>>[i])]
  BY <1>1, RegistryIs
<1>3. RegistryOf(h) = <<>>
  BY <1>2
<1>4. IdsDiffer(<<>>)
  BY DEF IdsDiffer
<1> QED
  BY <1>3, <1>4 DEF Unique, Kept, Shape

LEMMA FreeStep ==
  ASSUME NEW h \in Unique
  PROVE  RegistryOf(free_flight_departure_list(h)) = <<>> /\ free_flight_departure_list(h) \in Unique
<1>1. PICK L, G : Shape(h, L, G)
  BY UniqueIs
<1> QED
  BY <1>1, FreeKeeps, NothingRegistered

(* malloc fails for good. *)
LEMMA NoneFailed ==
  ASSUME NEW n \in Nat, NEW at, \A i \in 1..n : at[i - 1].failed => at[i].failed, ~at[n].failed
  PROVE  \A i \in 0..n : ~at[i].failed
<1> DEFINE S == {i \in Nat : i <= n => ~at[n - i].failed}
<1>1. 0 \in S
  OBVIOUS
<1>2. ASSUME NEW i \in Nat, i \in S
      PROVE  i + 1 \in S
  <2> SUFFICES ASSUME i + 1 <= n PROVE ~at[n - (i + 1)].failed
    OBVIOUS
  <2>1. n - i \in 1..n /\ (n - i) - 1 = n - (i + 1)
    OBVIOUS
  <2>2. ~at[n - i].failed
    BY <1>2
  <2> QED
    BY <2>1, <2>2
<1>3. \A i \in Nat : i \in S
  <2> HIDE DEF S
  <2> QED
    BY <1>1, <1>2, NumberInduction
<1>4. ASSUME NEW i \in 0..n PROVE ~at[i].failed
  <2>1. n - i \in Nat /\ n - i <= n /\ n - (n - i) = i
    OBVIOUS
  <2>2. n - i \in S
    BY <1>3, <2>1
  <2> QED
    BY <2>1, <2>2
<1> QED
  BY <1>4

(* The flights of the registry after the sample flights. *)
FlightsPut(r) ==
  CHOOSE g : g = [i \in 0..Len(SampleFlights) |->
                    IF i = 0 THEN r
                    ELSE Abstract!PutFlight(g[i - 1], SampleFlights[i].id, SampleFlights[i].seats)]

LEMMA SampleFlightsPut ==
  ASSUME NEW h \in Unique, ~SampleFlightsIn(h).failed
  PROVE  /\ FlightsPut(RegistryOf(h))[Len(SampleFlights)] = RegistryOf(SampleFlightsIn(h))
         /\ SampleFlightsIn(h) \in Unique /\ GoesOn(RegistryOf(h), RegistryOf(SampleFlightsIn(h)))
<1> DEFINE n == Len(SampleFlights)
           reg == RegistryOf(h)
           Put(x, i) == Abstract!PutFlight(x, SampleFlights[i].id, SampleFlights[i].seats)
           V(g, i) == IF i = 0 THEN reg ELSE Put(g[i - 1], i)
           fl == FlightsPut(reg)
<1>1. n \in Nat
  BY SampleTypes
<1>2. h \in Kept
  BY UniqueIs
<1>3. PICK at \in [0..n -> Kept] : /\ \A i \in 0..n : at[i] = IF i = 0 THEN h ELSE AddSample(at[i - 1], i)
                                  /\ SampleFlightsIn(h) = at[n]
  BY <1>2, SampleFlightsSteps
<1>4. \A i \in 1..n : i \in 0..n /\ i - 1 \in 0..n /\ i # 0
  BY <1>1
<1>5. \A i \in 1..n : at[i] = AddSample(at[i - 1], i) /\ at[i - 1] \in Kept
  BY <1>3, <1>4
<1>6. \A i \in 0..n : ~at[i].failed
  <2>1. \A i \in 1..n : at[i - 1].failed => at[i].failed
    BY <1>5, AddSampleIs
  <2>2. ~at[n].failed
    BY <1>3
  <2> HIDE DEF n
  <2> QED
    BY <1>1, <2>1, <2>2, NoneFailed
<1>7. at[0] = h
  BY <1>1, <1>3
<1>8. ASSUME NEW i \in 1..n, at[i - 1] \in Unique
      PROVE  /\ at[i] \in Unique /\ RegistryOf(at[i]) = Put(RegistryOf(at[i - 1]), i)
             /\ GoesOn(RegistryOf(at[i - 1]), RegistryOf(at[i]))
  <2>1. ~AddSample(at[i - 1], i).failed
    BY <1>4, <1>5, <1>6
  <2>2. SampleFlights[i].id \in KnownIds /\ SampleFlights[i].to \in KnownPlaces /\ SampleFlights[i].seats \in Int
    BY SampleTypes
  <2> QED
    BY <1>5, <1>8, <2>1, <2>2, AddStep DEF AddSample
<1> HIDE DEF Put
<1>9. \A i \in 0..n : at[i] \in Unique /\ GoesOn(reg, RegistryOf(at[i]))
  <2> DEFINE S == {i \in Nat : i <= n => at[i] \in Unique /\ GoesOn(reg, RegistryOf(at[i]))}
  <2>1. 0 \in S
    BY <1>7 DEF GoesOn
  <2>2. ASSUME NEW i \in Nat, i \in S
        PROVE  i + 1 \in S
    <3> SUFFICES ASSUME i + 1 <= n PROVE at[i + 1] \in Unique /\ GoesOn(reg, RegistryOf(at[i + 1]))
      OBVIOUS
    <3>1. /\ at[i] \in Unique /\ GoesOn(reg, RegistryOf(at[i]))
          /\ i + 1 \in 1..n /\ (i + 1) - 1 = i
      BY <1>1, <2>2
    <3>2. at[i + 1] \in Unique /\ GoesOn(RegistryOf(at[i]), RegistryOf(at[i + 1]))
      BY <1>8, <3>1
    <3>3. GoesOn(reg, RegistryOf(at[i + 1]))
      BY <3>1, <3>2 DEF GoesOn
    <3> QED
      BY <3>2, <3>3
  <2>3. \A i \in Nat : i \in S
    <3> HIDE DEF S
    <3> QED
      BY <2>1, <2>2, NumberInduction
  <2> QED
    BY <1>1, <2>3
<1>10. \A i \in 0..n : RegistryOf(at[i]) = IF i = 0 THEN reg ELSE Put(RegistryOf(at[i - 1]), i)
  <2> SUFFICES ASSUME NEW i \in 0..n
               PROVE  RegistryOf(at[i]) = IF i = 0 THEN reg ELSE Put(RegistryOf(at[i - 1]), i)
    OBVIOUS
  <2>1. CASE i = 0
    BY <1>7, <2>1
  <2>2. CASE i # 0
    <3>1. i \in 1..n /\ i - 1 \in 0..n
      BY <1>1, <2>2
    <3> QED
      BY <1>8, <1>9, <2>2, <3>1
  <2> QED
    BY <2>1, <2>2
<1> DEFINE w == [i \in 0..n |-> RegistryOf(at[i])]
<1> HIDE DEF reg
<1>11. w = [i \in 0..n |-> V(w, i)]
  <2>1. ASSUME NEW i \in 0..n PROVE w[i] = V(w, i)
    <3>1. CASE i = 0
      BY <1>10, <3>1
    <3>2. CASE i # 0
      <4>1. i - 1 \in 0..n
        BY <1>1, <3>2
      <4>2. w[i - 1] = RegistryOf(at[i - 1])
        BY <4>1
      <4> QED
        BY <1>10, <3>2, <4>2
    <3> QED
      BY <3>1, <3>2
  <2>2. w = [i \in 0..n |-> w[i]]
    OBVIOUS
  <2> HIDE DEF V, w
  <2> QED
    BY <2>1, <2>2
<1>12. fl = [i \in 0..n |-> V(fl, i)]
  <2> DEFINE c == CHOOSE g : g = [i \in 0..n |-> V(g, i)]
  <2>1. fl = c
    BY DEF FlightsPut, Put
  <2>2. c = [i \in 0..n |-> V(c, i)]
    <3> HIDE DEF V, w
    <3> QED
      BY <1>11
  <2> HIDE DEF c, V, fl
  <2> QED
    BY <2>1, <2>2
<1> HIDE DEF fl
<1>13. \A i \in 0..n : fl[i] = IF i = 0 THEN reg ELSE Put(fl[i - 1], i)
  <2> SUFFICES ASSUME NEW i \in 0..n PROVE fl[i] = V(fl, i)
    OBVIOUS
  <2> HIDE DEF V
  <2> QED
    BY <1>12
<1>14. \A i \in Nat : i <= n => fl[i] = RegistryOf(at[i])
  <2> DEFINE S == {i \in Nat : i <= n => fl[i] = RegistryOf(at[i])}
  <2>1. 0 \in S
    BY <1>1, <1>10, <1>13
  <2>2. ASSUME NEW i \in Nat, i \in S
        PROVE  i + 1 \in S
    <3> SUFFICES ASSUME i + 1 <= n PROVE fl[i + 1] = RegistryOf(at[i + 1])
      OBVIOUS
    <3>1. fl[i] = RegistryOf(at[i]) /\ i + 1 \in 0..n /\ i + 1 # 0 /\ (i + 1) - 1 = i
      BY <1>1, <2>2
    <3>2. fl[i + 1] = Put(fl[i], i + 1)
      BY <1>13, <3>1
    <3>3. RegistryOf(at[i + 1]) = Put(RegistryOf(at[i]), i + 1)
      BY <1>10, <3>1
    <3> QED
      BY <3>1, <3>2, <3>3
  <2>3. \A i \in Nat : i \in S
    <3> HIDE DEF S
    <3> QED
      BY <2>1, <2>2, NumberInduction
  <2> QED
    BY <2>3
<1>15. fl[n] = RegistryOf(at[n]) /\ at[n] \in Unique /\ GoesOn(reg, RegistryOf(at[n]))
  BY <1>1, <1>9, <1>14
<1> QED
  BY <1>3, <1>15 DEF fl, reg

(* The registry after the sample passengers. *)
PassengersPut(r) ==
  CHOOSE g : g = [i \in 0..Len(SamplePassengers) |->
                    IF i = 0 THEN r
                    ELSE LET p == SamplePassengers[i] IN Abstract!PutPassenger(g[i - 1], p.id, p.seat, p.who)]

LEMMA SamplePassengersPut ==
  ASSUME NEW h \in Unique, h \in Ready, ~SamplePassengersIn(h).failed
  PROVE  /\ PassengersPut(RegistryOf(h))[Len(SamplePassengers)] = RegistryOf(SamplePassengersIn(h))
         /\ SamplePassengersIn(h) \in Unique /\ GoesOn(RegistryOf(h), RegistryOf(SamplePassengersIn(h)))
<1> DEFINE n == Len(SamplePassengers)
           reg == RegistryOf(h)
           Put(x, i) == Abstract!PutPassenger(x, SamplePassengers[i].id, SamplePassengers[i].seat, SamplePassengers[i].who)
           V(g, i) == IF i = 0 THEN reg ELSE Put(g[i - 1], i)
           fl == PassengersPut(reg)
<1>1. n \in Nat
  BY SampleTypes
<1>3. PICK at \in [0..n -> Ready] : /\ \A i \in 0..n : at[i] = IF i = 0 THEN h ELSE BoardSample(at[i - 1], i)
                                  /\ SamplePassengersIn(h) = at[n]
  BY SamplePassengersSteps
<1>4. \A i \in 1..n : i \in 0..n /\ i - 1 \in 0..n /\ i # 0
  BY <1>1
<1>5. \A i \in 1..n : at[i] = BoardSample(at[i - 1], i) /\ at[i - 1] \in Ready
  BY <1>3, <1>4
<1>6. \A i \in 0..n : ~at[i].failed
  <2>1. \A i \in 1..n : at[i - 1].failed => at[i].failed
    BY <1>5 DEF BoardSample
  <2>2. ~at[n].failed
    BY <1>3
  <2> HIDE DEF n
  <2> QED
    BY <1>1, <2>1, <2>2, NoneFailed
<1>7. at[0] = h
  BY <1>1, <1>3
<1>8. ASSUME NEW i \in 1..n, at[i - 1] \in Unique
      PROVE  /\ at[i] \in Unique /\ RegistryOf(at[i]) = Put(RegistryOf(at[i - 1]), i)
             /\ GoesOn(RegistryOf(at[i - 1]), RegistryOf(at[i]))
  <2> DEFINE g == at[i - 1]
             p == SamplePassengers[i]
             r == add_passenger(g, FindFlight(g, p.id), p.seat, p.who)
  <2>1. ~g.failed /\ ~at[i].failed /\ g \in Ready
    BY <1>4, <1>5, <1>6
  <2>2. at[i] = r
    BY <1>5, <2>1 DEF BoardSample
  <2>3. FindFlight(g, p.id) # Nil /\ p.seat \in Int /\ p.who \in KnownPeople
    BY <2>1, SampleTypes DEF Ready
  <2> HIDE DEF g, p
  <2>4. /\ r \in Unique /\ RegistryOf(r) = Abstract!PutPassenger(RegistryOf(g), p.id, p.seat, p.who)
        /\ GoesOn(RegistryOf(g), RegistryOf(r))
    BY <1>8, <2>1, <2>2, <2>3, BoardStep DEF g
  <2> QED
    BY <2>2, <2>4 DEF g, p
<1> HIDE DEF Put
<1>9. \A i \in 0..n : at[i] \in Unique /\ GoesOn(reg, RegistryOf(at[i]))
  <2> DEFINE S == {i \in Nat : i <= n => at[i] \in Unique /\ GoesOn(reg, RegistryOf(at[i]))}
  <2>1. 0 \in S
    BY <1>7 DEF GoesOn
  <2>2. ASSUME NEW i \in Nat, i \in S
        PROVE  i + 1 \in S
    <3> SUFFICES ASSUME i + 1 <= n PROVE at[i + 1] \in Unique /\ GoesOn(reg, RegistryOf(at[i + 1]))
      OBVIOUS
    <3>1. /\ at[i] \in Unique /\ GoesOn(reg, RegistryOf(at[i]))
          /\ i + 1 \in 1..n /\ (i + 1) - 1 = i
      BY <1>1, <2>2
    <3>2. at[i + 1] \in Unique /\ GoesOn(RegistryOf(at[i]), RegistryOf(at[i + 1]))
      BY <1>8, <3>1
    <3>3. GoesOn(reg, RegistryOf(at[i + 1]))
      BY <3>1, <3>2 DEF GoesOn
    <3> QED
      BY <3>2, <3>3
  <2>3. \A i \in Nat : i \in S
    <3> HIDE DEF S
    <3> QED
      BY <2>1, <2>2, NumberInduction
  <2> QED
    BY <1>1, <2>3
<1>10. \A i \in 0..n : RegistryOf(at[i]) = IF i = 0 THEN reg ELSE Put(RegistryOf(at[i - 1]), i)
  <2> SUFFICES ASSUME NEW i \in 0..n
               PROVE  RegistryOf(at[i]) = IF i = 0 THEN reg ELSE Put(RegistryOf(at[i - 1]), i)
    OBVIOUS
  <2>1. CASE i = 0
    BY <1>7, <2>1
  <2>2. CASE i # 0
    <3>1. i \in 1..n /\ i - 1 \in 0..n
      BY <1>1, <2>2
    <3> QED
      BY <1>8, <1>9, <2>2, <3>1
  <2> QED
    BY <2>1, <2>2
<1> DEFINE w == [i \in 0..n |-> RegistryOf(at[i])]
<1> HIDE DEF reg
<1>11. w = [i \in 0..n |-> V(w, i)]
  <2>1. ASSUME NEW i \in 0..n PROVE w[i] = V(w, i)
    <3>1. CASE i = 0
      BY <1>10, <3>1
    <3>2. CASE i # 0
      <4>1. i - 1 \in 0..n
        BY <1>1, <3>2
      <4>2. w[i - 1] = RegistryOf(at[i - 1])
        BY <4>1
      <4> QED
        BY <1>10, <3>2, <4>2
    <3> QED
      BY <3>1, <3>2
  <2>2. w = [i \in 0..n |-> w[i]]
    OBVIOUS
  <2> HIDE DEF V, w
  <2> QED
    BY <2>1, <2>2
<1>12. fl = [i \in 0..n |-> V(fl, i)]
  <2> DEFINE c == CHOOSE g : g = [i \in 0..n |-> V(g, i)]
  <2>1. fl = c
    BY DEF PassengersPut, Put
  <2>2. c = [i \in 0..n |-> V(c, i)]
    <3> HIDE DEF V, w
    <3> QED
      BY <1>11
  <2> HIDE DEF c, V, fl
  <2> QED
    BY <2>1, <2>2
<1> HIDE DEF fl
<1>13. \A i \in 0..n : fl[i] = IF i = 0 THEN reg ELSE Put(fl[i - 1], i)
  <2> SUFFICES ASSUME NEW i \in 0..n PROVE fl[i] = V(fl, i)
    OBVIOUS
  <2> HIDE DEF V
  <2> QED
    BY <1>12
<1>14. \A i \in Nat : i <= n => fl[i] = RegistryOf(at[i])
  <2> DEFINE S == {i \in Nat : i <= n => fl[i] = RegistryOf(at[i])}
  <2>1. 0 \in S
    BY <1>1, <1>10, <1>13
  <2>2. ASSUME NEW i \in Nat, i \in S
        PROVE  i + 1 \in S
    <3> SUFFICES ASSUME i + 1 <= n PROVE fl[i + 1] = RegistryOf(at[i + 1])
      OBVIOUS
    <3>1. fl[i] = RegistryOf(at[i]) /\ i + 1 \in 0..n /\ i + 1 # 0 /\ (i + 1) - 1 = i
      BY <1>1, <2>2
    <3>2. fl[i + 1] = Put(fl[i], i + 1)
      BY <1>13, <3>1
    <3>3. RegistryOf(at[i + 1]) = Put(RegistryOf(at[i]), i + 1)
      BY <1>10, <3>1
    <3> QED
      BY <3>1, <3>2, <3>3
  <2>3. \A i \in Nat : i \in S
    <3> HIDE DEF S
    <3> QED
      BY <2>1, <2>2, NumberInduction
  <2> QED
    BY <2>3
<1>15. fl[n] = RegistryOf(at[n]) /\ at[n] \in Unique /\ GoesOn(reg, RegistryOf(at[n]))
  BY <1>1, <1>9, <1>14
<1> QED
  BY <1>3, <1>15 DEF fl, reg

LEMMA SampleStep ==
  ASSUME NEW h \in Unique, ~add_sample_data(h).failed
  PROVE  /\ RegistryOf(add_sample_data(h)) = Abstract!PutSamples(RegistryOf(h))
         /\ add_sample_data(h) \in Unique /\ GoesOn(RegistryOf(h), RegistryOf(add_sample_data(h)))
<1> DEFINE n == Len(SamplePassengers)
           g == SampleFlightsIn(h)
           r == SamplePassengersIn(g)
           reg == RegistryOf(h)
<1>1. add_sample_data(h) = r
  BY DEF add_sample_data
<1>2. h \in Kept
  BY UniqueIs
<1>3. g \in Ready
  BY <1>2, SampleFlightsReady
<1> HIDE DEF g, reg
<1>4. ~g.failed
  <2>1. PICK at \in [0..n -> Ready] : /\ \A i \in 0..n : at[i] = IF i = 0 THEN g ELSE BoardSample(at[i - 1], i)
                                     /\ SamplePassengersIn(g) = at[n]
    BY <1>3, SamplePassengersSteps
  <2>2. n \in Nat
    BY SampleTypes
  <2>3. \A i \in 1..n : at[i - 1].failed => at[i].failed
    <3> SUFFICES ASSUME NEW i \in 1..n, at[i - 1].failed PROVE at[i].failed
      OBVIOUS
    <3>1. i \in 0..n /\ i # 0
      BY <2>2
    <3> QED
      BY <2>1, <3>1 DEF BoardSample
  <2>4. ~at[n].failed
    BY <1>1, <2>1
  <2> HIDE DEF n
  <2>5. \A i \in 0..n : ~at[i].failed
    BY <2>2, <2>3, <2>4, NoneFailed
  <2> QED
    BY <2>1, <2>2, <2>5
<1>5. FlightsPut(reg)[Len(SampleFlights)] = RegistryOf(g) /\ g \in Unique /\ GoesOn(reg, RegistryOf(g))
  BY <1>4, SampleFlightsPut DEF g, reg
<1>6. /\ PassengersPut(RegistryOf(g))[n] = RegistryOf(r) /\ r \in Unique
      /\ GoesOn(RegistryOf(g), RegistryOf(r))
  BY <1>1, <1>3, <1>5, SamplePassengersPut
<1>7. Abstract!PutSamples(reg) = PassengersPut(FlightsPut(reg)[Len(SampleFlights)])[n]
  BY DEF Abstract!PutSamples, PassengersPut, FlightsPut
<1>8. GoesOn(reg, RegistryOf(r))
  <2> HIDE DEF r
  <2> QED
    BY <1>5, <1>6 DEF GoesOn
<1> QED
  BY <1>1, <1>5, <1>6, <1>7, <1>8 DEF reg

-----------------------------------------------------------------------------
(* The refinement *)

(* In the menu malloc has not failed, and an id names one flight. *)
MenuInv == state = "menu" => ~m.failed /\ m \in Unique

(* What the memory stands for. *)
Mapped(h) == IF h.failed THEN <<>> ELSE RegistryOf(h)

LEMMA MenuInit == Init => MenuInv /\ Mapped(m) = <<>>
<1>1. RegistryOf(EmptyMemory) = <<>> /\ EmptyMemory \in Unique
  BY EmptyShape, NothingRegistered
<1>2. EmptyMemory.failed = FALSE
  BY DEF EmptyMemory
<1> QED
  BY <1>1, <1>2 DEF Init, MenuInv, Mapped

LEMMA MenuNext ==
  ASSUME MenuInv, Next
  PROVE  MenuInv' /\ Abstract!Choice(Mapped(m), Mapped(m'))
<1> DEFINE Fine(r) == Abstract!Choice(Mapped(m), Mapped(r)) /\ (r.failed \/ r \in Unique)
<1>1. state = "menu" /\ ~m.failed /\ m \in Unique /\ Mapped(m) = RegistryOf(m)
  BY DEF Next, MenuInv, Mapped
<1>2. /\ Ids \subseteq KnownIds /\ Places \subseteq KnownPlaces /\ People \subseteq KnownPeople
      /\ SeatCounts \subseteq Int /\ Seats \subseteq Int
  BY InputAssumption DEF KnownIds, KnownPlaces, KnownPeople
<1>3. \A r : r.failed => Fine(r)
  BY DEF Abstract!Choice, Mapped
<1>4. \A r : Leave(r) /\ Fine(r) => MenuInv' /\ Abstract!Choice(Mapped(m), Mapped(m'))
  BY DEF Leave, MenuInv
<1>5. CASE add_new_flight
  <2>1. PICK id \in Ids, to \in Places, n \in SeatCounts : Leave(add_flight(m, id, to, n))
    BY <1>5 DEF add_new_flight
  <2> DEFINE r == add_flight(m, id, to, n)
  <2>2. ~r.failed => RegistryOf(r) = Abstract!PutFlight(RegistryOf(m), id, n) /\ r \in Unique
    BY <1>1, <1>2, AddStep
  <2> HIDE DEF r
  <2>3. ~r.failed => Fine(r)
    BY <1>1, <2>2 DEF Mapped, Abstract!Choice
  <2> QED
    BY <1>3, <1>4, <2>1, <2>3 DEF r
<1>6. CASE add_new_passenger_to_flight
  <2>1. PICK id \in Ids, seat \in Seats, who \in People :
          /\ FindFlight(m, id) # Nil
          /\ Leave(add_passenger(m, FindFlight(m, id), seat, who))
    BY <1>6 DEF add_new_passenger_to_flight
  <2> DEFINE r == add_passenger(m, FindFlight(m, id), seat, who)
  <2>2. ~r.failed => RegistryOf(r) = Abstract!PutPassenger(RegistryOf(m), id, seat, who) /\ r \in Unique
    BY <1>1, <1>2, <2>1, BoardStep
  <2> HIDE DEF r
  <2>3. ~r.failed => Fine(r)
    BY <1>1, <2>2 DEF Mapped, Abstract!Choice
  <2> QED
    BY <1>3, <1>4, <2>1, <2>3 DEF r
<1>7. CASE remove_flight_menu
  <2>1. PICK id \in Ids : Leave(remove_flight(m, id))
    BY <1>7 DEF remove_flight_menu
  <2> DEFINE r == remove_flight(m, id)
  <2>2. RegistryOf(r) = Abstract!TakeFlight(RegistryOf(m), id) /\ r \in Unique
    BY <1>1, TakeStep
  <2> HIDE DEF r
  <2>3. ~r.failed => Fine(r)
    BY <1>1, <2>2 DEF Mapped, Abstract!Choice
  <2> QED
    BY <1>3, <1>4, <2>1, <2>3 DEF r
<1>8. CASE change_passenger_seat_menu
  <2>1. PICK id \in Ids, old \in Seats, new \in Seats :
          /\ FindFlight(m, id) # Nil
          /\ Leave(change_passenger_seat(m, FindFlight(m, id), old, new))
    BY <1>8 DEF change_passenger_seat_menu
  <2> DEFINE r == change_passenger_seat(m, FindFlight(m, id), old, new)
  <2>2. RegistryOf(r) = Abstract!Reseat(RegistryOf(m), id, old, new) /\ r \in Unique
    BY <1>1, <1>2, <2>1, ReseatStep
  <2> HIDE DEF r
  <2>3. ~r.failed => Fine(r)
    BY <1>1, <2>2 DEF Mapped, Abstract!Choice
  <2> QED
    BY <1>3, <1>4, <2>1, <2>3 DEF r
<1>9. CASE AddSampleData
  <2> DEFINE r == add_sample_data(m)
  <2>1. Leave(r)
    BY <1>9 DEF AddSampleData
  <2>2. ~r.failed => RegistryOf(r) = Abstract!PutSamples(RegistryOf(m)) /\ r \in Unique
    BY <1>1, SampleStep
  <2> HIDE DEF r
  <2>3. ~r.failed => Fine(r)
    BY <1>1, <2>2 DEF Mapped, Abstract!Choice
  <2> QED
    BY <1>3, <1>4, <2>1, <2>3
<1>10. CASE ExitProgram \/ InvalidChoice
  <2>1. m' = free_flight_departure_list(m) /\ state' # "menu"
    BY <1>10 DEF ExitProgram, InvalidChoice
  <2>2. Mapped(m') = <<>>
    BY <1>1, <2>1, FreeStep DEF Mapped
  <2> QED
    BY <2>1, <2>2 DEF MenuInv, Abstract!Choice
<1> QED
  BY <1>5, <1>6, <1>7, <1>8, <1>9, <1>10 DEF Next

LEMMA MenuStep == MenuInv /\ [Next]_vars => MenuInv'
<1>1. CASE UNCHANGED vars
  BY <1>1 DEF vars, MenuInv
<1> QED
  BY <1>1, MenuNext

LEMMA MenuAlways == Spec => []MenuInv
<1> QED
  BY MenuInit, MenuStep, PTL DEF Spec

(* The lists implement the registry of FlightRegistry: every choice in the *)
(* menu changes what the program knows of flights and passengers exactly   *)
(* as the registry says, whatever was chosen before, as long as malloc has *)
(* memory; when it has none left, or the list was freed, nothing is kept.  *)
THEOREM ImplementsRegistry == Spec => RegistrySpec
<1> DEFINE reg == IF m.failed THEN <<>> ELSE Registry
<1>1. reg = Mapped(m) /\ reg' = Mapped(m')
  BY DEF Registry, Mapped
<1>2. Init => Abstract!Init
  BY <1>1, MenuInit DEF Abstract!Init
<1>3. MenuInv /\ [Next]_vars => [Abstract!Next]_reg
  <2>1. ASSUME UNCHANGED vars PROVE reg' = reg
    BY <1>1, <2>1 DEF vars
  <2>2. ASSUME MenuInv, Next PROVE Abstract!Next
    <3>1. Abstract!Choice(reg, reg')
      BY <1>1, <2>2, MenuNext
    <3> QED
      BY <3>1 DEF Abstract!Next
  <2> QED
    BY <2>1, <2>2
<1> QED
  BY <1>2, <1>3, MenuAlways, PTL DEF Spec, RegistrySpec, Abstract!Spec

-----------------------------------------------------------------------------
(* What the displays print *)

(* The places of the sequences ss, in the first n of them. *)
Spots(ss, n) == {x \in Nat \X Nat : x[1] \in 1..n /\ x[2] \in 1..Len(ss[x[1]])}

(* t is made of the elements at the places P: at says where each is. *)
Spread(t, ss, P, at) ==
  /\ at \in [P -> 1..Len(t)]
  /\ \A x \in P : t[at[x]] = ss[x[1]][x[2]]
  /\ \A x, y \in P : at[x] = at[y] => x = y
  /\ \A k \in 1..Len(t) : \E x \in P : at[x] = k

LEMMA SpreadMore ==
  ASSUME NEW S, NEW ss, NEW n \in Nat, NEW t \in Seq(S), ss[n + 1] \in Seq(S),
         NEW at, Spread(t, ss, Spots(ss, n), at)
  PROVE  /\ t \o ss[n + 1] \in Seq(S)
         /\ \E more : Spread(t \o ss[n + 1], ss, Spots(ss, n + 1), more)
<1> DEFINE u == ss[n + 1]
           v == t \o u
           P == Spots(ss, n)
           Q == Spots(ss, n + 1)
           more == [x \in Q |-> IF x[1] = n + 1 THEN Len(t) + x[2] ELSE at[x]]
<1>1. Len(t) \in Nat /\ Len(u) \in Nat
  BY LenProperties
<1>2. /\ v \in Seq(S) /\ Len(v) = Len(t) + Len(u)
      /\ \A k \in 1..(Len(t) + Len(u)) : v[k] = IF k <= Len(t) THEN t[k] ELSE u[k - Len(t)]
  BY ConcatProperties
<1>3. \A x \in Q : /\ x[1] \in Nat /\ x[2] \in Nat
                   /\ x[1] # n + 1 => x \in P
                   /\ x[1] = n + 1 => x[2] \in 1..Len(u)
  BY DEF Spots
<1>4. \A x \in P : x \in Q /\ x[1] # n + 1 /\ x[1] \in Nat
  BY DEF Spots
<1>5. \A j \in 1..Len(u) : <<n + 1, j>> \in Q
  BY <1>1 DEF Spots
<1>6. \A x \in Q : x = <<x[1], x[2]>>
  BY DEF Spots
<1> HIDE DEF u, v, P, Q
<1>7. /\ at \in [P -> 1..Len(t)] /\ \A x \in P : t[at[x]] = ss[x[1]][x[2]]
      /\ \A x, y \in P : at[x] = at[y] => x = y
      /\ \A k \in 1..Len(t) : \E x \in P : at[x] = k
  BY DEF Spread, P
<1>8. ASSUME NEW x \in Q
      PROVE  \/ x[1] # n + 1 /\ x \in P /\ more[x] = at[x] /\ more[x] \in 1..Len(t)
             \/ x[1] = n + 1 /\ x[2] \in 1..Len(u) /\ more[x] = Len(t) + x[2]
  BY <1>3, <1>7
<1>9. \A x \in Q : more[x] \in 1..Len(v)
  BY <1>1, <1>2, <1>8
<1>10. DOMAIN more = Q /\ more = [x \in Q |-> more[x]]
  OBVIOUS
<1> HIDE DEF more
<1>11. more \in [Q -> 1..Len(v)]
  BY <1>9, <1>10
<1>12. ASSUME NEW x \in Q
       PROVE  v[more[x]] = ss[x[1]][x[2]]
  <2>1. CASE x[1] # n + 1 /\ x \in P /\ more[x] = at[x] /\ more[x] \in 1..Len(t)
    <3>1. more[x] \in 1..(Len(t) + Len(u)) /\ more[x] <= Len(t)
      BY <1>1, <2>1
    <3> QED
      BY <1>2, <1>7, <2>1, <3>1
  <2>2. CASE x[1] = n + 1 /\ x[2] \in 1..Len(u) /\ more[x] = Len(t) + x[2]
    <3>1. more[x] \in 1..(Len(t) + Len(u)) /\ ~(more[x] <= Len(t)) /\ more[x] - Len(t) = x[2]
      BY <1>1, <2>2
    <3>2. v[more[x]] = u[x[2]]
      BY <1>2, <3>1
    <3> QED
      BY <2>2, <3>2 DEF u
  <2> QED
    BY <1>8, <2>1, <2>2
<1>13. ASSUME NEW x \in Q, NEW y \in Q, more[x] = more[y]
       PROVE  x = y
  <2>1. CASE x[1] # n + 1 /\ y[1] # n + 1
    BY <1>7, <1>8, <1>13, <2>1
  <2>2. CASE x[1] = n + 1 /\ y[1] = n + 1
    <3>1. x[2] = y[2]
      BY <1>1, <1>3, <1>8, <1>13, <2>2
    <3> QED
      BY <1>6, <2>2, <3>1
  <2>3. x[1] = n + 1 <=> y[1] = n + 1
    BY <1>1, <1>8, <1>13
  <2> QED
    BY <2>1, <2>2, <2>3
<1>14. ASSUME NEW k \in 1..Len(v)
       PROVE  \E x \in Q : more[x] = k
  <2>1. CASE k <= Len(t)
    <3>1. k \in 1..Len(t)
      BY <1>1, <2>1
    <3>2. PICK x \in P : at[x] = k
      BY <1>7, <3>1
    <3>3. x \in Q /\ x[1] # n + 1
      BY <1>4
    <3>4. more[x] = at[x]
      BY <1>8, <3>3
    <3> QED
      BY <3>2, <3>3, <3>4
  <2>2. CASE ~(k <= Len(t))
    <3> DEFINE j == k - Len(t)
               x == <<n + 1, j>>
    <3>1. j \in 1..Len(u) /\ Len(t) + j = k
      BY <1>1, <1>2, <2>2
    <3>2. x \in Q /\ x[1] = n + 1 /\ x[2] = j
      BY <1>5, <3>1
    <3> HIDE DEF x
    <3>3. more[x] = Len(t) + j
      BY <1>8, <3>2
    <3> QED
      BY <3>1, <3>2, <3>3
  <2> QED
    BY <2>1, <2>2
<1>15. Spread(v, ss, Q, more)
  BY <1>11, <1>12, <1>13, <1>14 DEF Spread
<1> QED
  BY <1>2, <1>15 DEF v, u, Q

(* FlattenSeq puts the sequences one behind the other. *)
LEMMA FlattenIs ==
  ASSUME NEW S, NEW n \in Nat, NEW ss, ss = [i \in 1..n |-> ss[i]], \A i \in 1..n : ss[i] \in Seq(S)
  PROVE  /\ FlattenSeq(ss) \in Seq(S)
         /\ \E at : Spread(FlattenSeq(ss), ss, Spots(ss, n), at)
<1> DEFINE V(g, i) == IF i = 1 THEN ss[i] ELSE g[i - 1] \o ss[i]
           fl == CHOOSE g : g = [i \in 1..n |-> V(g, i)]
           step == [p \in Seq(S) \X (1..n) |-> p[1] \o ss[p[2]]]
<1>1. ss \in Seq(Seq(S)) /\ Len(ss) = n /\ DOMAIN ss = 1..n
  <2>1. ss \in [1..n -> Seq(S)]
    OBVIOUS
  <2> QED
    BY <2>1
<1>2. <<>> \in Seq(S) /\ Len(<<>>) = 0
  OBVIOUS
<1>3. PICK g : Steps(g, Seq(S), <<>>, n, step)
  <2>1. \A x \in Seq(S), i \in 1..n : step[<<x, i>>] \in Seq(S)
    <3>1. \A x \in Seq(S), i \in 1..n : step[<<x, i>>] = x \o ss[i]
      OBVIOUS
    <3> HIDE DEF step
    <3> QED
      BY <3>1, ConcatProperties
  <2> HIDE DEF step
  <2> QED
    BY <1>2, <2>1, StepsDefined
<1>4. /\ g \in [0..n -> Seq(S)]
      /\ \A i \in 0..n : g[i] = IF i = 0 THEN <<>> ELSE step[<<g[i - 1], i>>]
  BY <1>3 DEF Steps
<1>5. g[0] = <<>> /\ \A i \in 1..n : g[i] = g[i - 1] \o ss[i] /\ g[i - 1] \in Seq(S)
  <2>1. \A i \in 1..n : i \in 0..n /\ i # 0 /\ i - 1 \in 0..n
    OBVIOUS
  <2>2. \A x \in Seq(S), i \in 1..n : step[<<x, i>>] = x \o ss[i]
    OBVIOUS
  <2> HIDE DEF step
  <2>3. ASSUME NEW i \in 1..n
        PROVE  g[i] = g[i - 1] \o ss[i] /\ g[i - 1] \in Seq(S)
    <3>1. g[i - 1] \in Seq(S)
      BY <1>4, <2>1
    <3>2. g[i] = step[<<g[i - 1], i>>]
      BY <1>4, <2>1
    <3> QED
      BY <2>2, <3>1, <3>2
  <2>4. g[0] = <<>>
    BY <1>4
  <2> QED
    BY <2>3, <2>4
<1> HIDE DEF step
<1>6. n >= 1 => g[1] = ss[1]
  <2> SUFFICES ASSUME n >= 1 PROVE g[1] = ss[1]
    OBVIOUS
  <2>1. 1 \in 1..n /\ 1 - 1 = 0
    OBVIOUS
  <2>2. g[1] = <<>> \o ss[1] /\ ss[1] \in Seq(S)
    BY <1>5, <2>1
  <2> QED
    BY <2>2, ConcatEmptySeq
<1> DEFINE w == [i \in 1..n |-> g[i]]
<1>7. w = [i \in 1..n |-> V(w, i)]
  <2>1. ASSUME NEW i \in 1..n PROVE w[i] = V(w, i)
    <3>1. CASE i = 1
      BY <1>6, <3>1
    <3>2. CASE i # 1
      <4>1. i - 1 \in 1..n
        BY <3>2
      <4>2. w[i - 1] = g[i - 1]
        BY <4>1
      <4> QED
        BY <1>5, <3>2, <4>2
    <3> QED
      BY <3>1, <3>2
  <2>2. w = [i \in 1..n |-> w[i]]
    OBVIOUS
  <2> HIDE DEF V, w
  <2> QED
    BY <2>1, <2>2
<1>8. fl = [i \in 1..n |-> V(fl, i)]
  <2> HIDE DEF V, w
  <2> QED
    BY <1>7
<1>9. FlattenSeq(ss) = IF n = 0 THEN ss ELSE fl[n]
  BY <1>1 DEF FlattenSeq
<1> HIDE DEF fl, w
<1>10. \A i \in 1..n : fl[i] = IF i = 1 THEN ss[i] ELSE fl[i - 1] \o ss[i]
  <2> SUFFICES ASSUME NEW i \in 1..n PROVE fl[i] = V(fl, i)
    OBVIOUS
  <2> HIDE DEF V
  <2> QED
    BY <1>8
<1>11. \A i \in Nat : i <= n => /\ i # 0 => fl[i] = g[i]
                                /\ g[i] \in Seq(S)
                                /\ \E at : Spread(g[i], ss, Spots(ss, i), at)
  <2> DEFINE Fine(i) == /\ i # 0 => fl[i] = g[i]
                        /\ g[i] \in Seq(S)
                        /\ \E at : Spread(g[i], ss, Spots(ss, i), at)
             T == {i \in Nat : i <= n => Fine(i)}
  <2>1. 0 \in T
    <3>1. Spots(ss, 0) = {}
      BY DEF Spots
    <3> DEFINE none == [x \in {} |-> 0]
    <3>2. Spread(<<>>, ss, {}, none)
      BY <1>2 DEF Spread
    <3> QED
      BY <1>2, <1>5, <3>1, <3>2
  <2>2. ASSUME NEW i \in Nat, i \in T
        PROVE  i + 1 \in T
    <3> HIDE DEF Fine
    <3> SUFFICES ASSUME i + 1 <= n PROVE Fine(i + 1)
      OBVIOUS
    <3>1. Fine(i) /\ i + 1 \in 1..n /\ (i + 1) - 1 = i
      BY <2>2
    <3> USE DEF Fine
    <3>2. PICK at : Spread(g[i], ss, Spots(ss, i), at)
      BY <3>1
    <3>3. g[i + 1] = g[i] \o ss[i + 1] /\ ss[i + 1] \in Seq(S) /\ g[i] \in Seq(S)
      BY <1>5, <3>1
    <3>4. g[i + 1] \in Seq(S) /\ \E more : Spread(g[i + 1], ss, Spots(ss, i + 1), more)
      <4>1. /\ g[i] \o ss[i + 1] \in Seq(S)
            /\ \E more : Spread(g[i] \o ss[i + 1], ss, Spots(ss, i + 1), more)
        <5>1. i \in Nat /\ g[i] \in Seq(S) /\ ss[i + 1] \in Seq(S)
          BY <3>3
        <5> QED
          BY ONLY <3>2, <5>1, SpreadMore
      <4> QED
        BY <3>3, <4>1
    <3>5. fl[i + 1] = g[i + 1]
      <4>1. CASE i = 0
        BY <1>6, <1>10, <3>1, <4>1
      <4>2. CASE i # 0
        <5>1. fl[i] = g[i] /\ i + 1 # 1
          BY <3>1, <4>2
        <5> QED
          BY <1>10, <3>1, <3>3, <5>1
      <4> QED
        BY <4>1, <4>2
    <3> QED
      BY <3>4, <3>5
  <2>3. \A i \in Nat : i \in T
    <3> HIDE DEF T
    <3> QED
      BY <2>1, <2>2, NumberInduction
  <2> QED
    BY <2>3
<1>12. FlattenSeq(ss) = g[n]
  <2>1. CASE n = 0
    <3>1. ss = <<>>
      BY <2>1
    <3> QED
      BY <1>5, <1>9, <2>1, <3>1
  <2>2. CASE n # 0
    BY <1>9, <1>11, <2>2
  <2> QED
    BY <2>1, <2>2
<1>13. g[n] \in Seq(S) /\ \E at : Spread(g[n], ss, Spots(ss, n), at)
  <2>1. n \in Nat /\ n <= n
    OBVIOUS
  <2> QED
    BY ONLY <1>11, <2>1
<1> QED
  BY <1>12, <1>13

(* t is made of the hits of a page: at says where each is. *)
Picked(t, page, hits, at) ==
  /\ at \in [hits -> 1..Len(t)]
  /\ \A j \in hits : t[at[j]] = page[j]
  /\ \A i, j \in hits : at[i] = at[j] => i = j
  /\ \A k \in 1..Len(t) : \E j \in hits : at[j] = k

LEMMA PrintedIs ==
  ASSUME NEW S, NEW n \in Nat, NEW page, DOMAIN page = 1..n, \A i \in 1..n : page[i] \in S,
         NEW hits \in SUBSET (1..n)
  PROVE  /\ Printed(page, hits) \in Seq(S)
         /\ \E at : Picked(Printed(page, hits), page, hits, at)
<1> DEFINE ss == [i \in 1..n |-> IF i \in hits THEN <<page[i]>> ELSE <<>>]
           t == Printed(page, hits)
<1>1. t = FlattenSeq(ss)
  BY DEF Printed
<1>2. /\ ss = [i \in 1..n |-> ss[i]]
      /\ \A i \in 1..n : ss[i] = IF i \in hits THEN <<page[i]>> ELSE <<>>
  OBVIOUS
<1> HIDE DEF ss
<1>3. \A i \in 1..n : ss[i] \in Seq(S)
  <2>1. \A x \in S : <<x>> \in Seq(S)
    OBVIOUS
  <2>2. <<>> \in Seq(S)
    OBVIOUS
  <2> QED
    BY <1>2, <2>1, <2>2
<1>4. /\ FlattenSeq(ss) \in Seq(S)
      /\ \E at : Spread(FlattenSeq(ss), ss, Spots(ss, n), at)
  <2>1. n \in Nat /\ ss = [i \in 1..n |-> ss[i]]
    BY <1>2
  <2> QED
    BY ONLY <1>3, <2>1, FlattenIs
<1>5. t \in Seq(S)
  BY <1>1, <1>4
<1> HIDE DEF t
<1>5a. PICK at : Spread(t, ss, Spots(ss, n), at)
  BY <1>1, <1>4
<1>6. \A x : x \in Spots(ss, n) <=> \E j \in hits : x = <<j, 1>>
  <2>1. \A i \in 1..n : Len(ss[i]) = IF i \in hits THEN 1 ELSE 0
    BY <1>2
  <2>2. ASSUME NEW x \in Spots(ss, n)
        PROVE  \E j \in hits : x = <<j, 1>>
    <3>1. x = <<x[1], x[2]>> /\ x[1] \in 1..n /\ x[2] \in 1..Len(ss[x[1]])
      BY DEF Spots
    <3>2. x[1] \in hits /\ x[2] = 1
      BY <2>1, <3>1
    <3> QED
      BY <3>1, <3>2
  <2>3. ASSUME NEW j \in hits
        PROVE  <<j, 1>> \in Spots(ss, n)
    BY <2>1 DEF Spots
  <2> QED
    BY <2>2, <2>3
<1> DEFINE P == Spots(ss, n)
<1> HIDE DEF P
<1>7. /\ at \in [P -> 1..Len(t)]
      /\ \A x \in P : t[at[x]] = ss[x[1]][x[2]]
      /\ \A x, y \in P : at[x] = at[y] => x = y
      /\ \A k \in 1..Len(t) : \E x \in P : at[x] = k
  BY <1>5a DEF Spread, P
<1>8. \A x : x \in P <=> \E j \in hits : x = <<j, 1>>
  BY <1>6 DEF P
<1> DEFINE new == [j \in hits |-> at[<<j, 1>>]]
<1>9. \A j \in hits : new[j] = at[<<j, 1>>] /\ <<j, 1>> \in P
  BY <1>8
<1>10. new = [j \in hits |-> new[j]]
  OBVIOUS
<1> HIDE DEF new
<1>11. new \in [hits -> 1..Len(t)]
  <2>1. \A j \in hits : new[j] \in 1..Len(t)
    BY <1>7, <1>9
  <2> QED
    BY <1>10, <2>1
<1>12. ASSUME NEW j \in hits
       PROVE  t[new[j]] = page[j]
  <2>1. ss[j] = <<page[j]>>
    BY <1>2
  <2>2. t[at[<<j, 1>>]] = ss[j][1]
    BY <1>7, <1>9
  <2> QED
    BY <1>9, <2>1, <2>2
<1>13. ASSUME NEW i \in hits, NEW j \in hits, new[i] = new[j]
       PROVE  i = j
  <2>1. at[<<i, 1>>] = at[<<j, 1>>]
    BY <1>9, <1>13
  <2>2. <<i, 1>> = <<j, 1>>
    BY <1>7, <1>9, <2>1
  <2> QED
    BY <2>2
<1>14. ASSUME NEW k \in 1..Len(t)
       PROVE  \E j \in hits : new[j] = k
  <2>1. PICK x \in P : at[x] = k
    BY <1>7
  <2>2. PICK j \in hits : x = <<j, 1>>
    BY <1>8
  <2> QED
    BY <1>9, <2>1, <2>2
<1>15. Picked(t, page, hits, new)
  BY <1>11, <1>12, <1>13, <1>14 DEF Picked
<1> QED
  BY <1>5, <1>15 DEF t

(* The hits of the pages, one page behind the other. *)
HitsOf(hits, n) == {x \in Nat \X Nat : x[1] \in 1..n /\ x[2] \in hits[x[1]]}

LEMMA ReportIs ==
  ASSUME NEW S, NEW n \in Nat, NEW pages, NEW size, NEW hits, NEW t,
         t = FlattenSeq([i \in 1..n |-> Printed(pages[i], hits[i])]),
         \A i \in 1..n : /\ size[i] \in Nat /\ DOMAIN pages[i] = 1..size[i]
                         /\ hits[i] \in SUBSET (1..size[i])
                         /\ \A j \in 1..size[i] : pages[i][j] \in S
  PROVE  t \in Seq(S) /\ \E at : Spread(t, pages, HitsOf(hits, n), at)
<1> DEFINE ss == [i \in 1..n |-> Printed(pages[i], hits[i])]
           one == [i \in 1..n |-> CHOOSE a : Picked(ss[i], pages[i], hits[i], a)]
           H == HitsOf(hits, n)
           P == Spots(ss, n)
<1>1. /\ ss = [i \in 1..n |-> ss[i]]
      /\ \A i \in 1..n : ss[i] = Printed(pages[i], hits[i])
      /\ t = FlattenSeq(ss)
  OBVIOUS
<1> HIDE DEF ss
<1>2. \A i \in 1..n : ss[i] \in Seq(S) /\ \E a : Picked(ss[i], pages[i], hits[i], a)
  <2> SUFFICES ASSUME NEW i \in 1..n
               PROVE  ss[i] \in Seq(S) /\ \E a : Picked(ss[i], pages[i], hits[i], a)
    OBVIOUS
  <2> DEFINE page == pages[i]
             set == hits[i]
             k == size[i]
  <2>1. /\ k \in Nat /\ DOMAIN page = 1..k /\ set \in SUBSET (1..k)
        /\ \A j \in 1..k : page[j] \in S
    OBVIOUS
  <2>2. ss[i] = Printed(page, set)
    BY <1>1
  <2> HIDE DEF page, set, k
  <2>3. Printed(page, set) \in Seq(S) /\ \E a : Picked(Printed(page, set), page, set, a)
    BY ONLY <2>1, PrintedIs
  <2> QED
    BY <2>2, <2>3 DEF page, set
<1>3. \A i \in 1..n : Picked(ss[i], pages[i], hits[i], one[i])
  BY <1>2
<1> HIDE DEF one
<1>4. /\ FlattenSeq(ss) \in Seq(S)
      /\ \E at : Spread(FlattenSeq(ss), ss, Spots(ss, n), at)
  <2>1. n \in Nat /\ ss = [i \in 1..n |-> ss[i]] /\ \A i \in 1..n : ss[i] \in Seq(S)
    BY <1>1, <1>2
  <2> QED
    BY ONLY <2>1, FlattenIs
<1>5. PICK all : Spread(t, ss, Spots(ss, n), all)
  BY <1>1, <1>4
<1>6. \A x : x \in P <=> /\ x = <<x[1], x[2]>> /\ x[1] \in 1..n /\ x[2] \in 1..Len(ss[x[1]])
  BY DEF Spots
<1>7. \A x : x \in H <=> /\ x = <<x[1], x[2]>> /\ x[1] \in 1..n /\ x[2] \in hits[x[1]]
  <2>1. \A i \in 1..n : hits[i] \subseteq Nat
    OBVIOUS
  <2> QED
    BY <2>1 DEF HitsOf
<1> HIDE DEF H, P
<1>8. /\ all \in [P -> 1..Len(t)]
      /\ \A x \in P : t[all[x]] = ss[x[1]][x[2]]
      /\ \A x, y \in P : all[x] = all[y] => x = y
      /\ \A k \in 1..Len(t) : \E x \in P : all[x] = k
  BY <1>5 DEF Spread, P
<1> DEFINE spot(x) == <<x[1], one[x[1]][x[2]]>>
           new == [x \in H |-> all[spot(x)]]
<1>9. ASSUME NEW x \in H
      PROVE  /\ x[1] \in 1..n /\ x[2] \in hits[x[1]] /\ spot(x) \in P /\ new[x] = all[spot(x)]
             /\ ss[x[1]][one[x[1]][x[2]]] = pages[x[1]][x[2]]
             /\ spot(x)[1] = x[1] /\ spot(x)[2] = one[x[1]][x[2]]
  <2>1. x[1] \in 1..n /\ x[2] \in hits[x[1]]
    BY <1>7
  <2>2. Picked(ss[x[1]], pages[x[1]], hits[x[1]], one[x[1]])
    BY <1>3, <2>1
  <2>3. one[x[1]][x[2]] \in 1..Len(ss[x[1]]) /\ ss[x[1]][one[x[1]][x[2]]] = pages[x[1]][x[2]]
    BY <2>1, <2>2 DEF Picked
  <2>4. spot(x) \in P
    BY <1>6, <2>1, <2>3
  <2> QED
    BY <2>1, <2>3, <2>4
<1>10. new = [x \in H |-> new[x]]
  OBVIOUS
<1> HIDE DEF new, spot
<1>11. new \in [H -> 1..Len(t)]
  BY <1>8, <1>9, <1>10
<1>12. ASSUME NEW x \in H
       PROVE  t[new[x]] = pages[x[1]][x[2]]
  <2>1. t[all[spot(x)]] = ss[spot(x)[1]][spot(x)[2]]
    BY <1>8, <1>9
  <2> QED
    BY <1>9, <2>1
<1>13. ASSUME NEW x \in H, NEW y \in H, new[x] = new[y]
       PROVE  x = y
  <2>1. spot(x) = spot(y)
    BY <1>8, <1>9, <1>13
  <2>2. x[1] = y[1] /\ one[x[1]][x[2]] = one[x[1]][y[2]]
    BY <1>9, <2>1
  <2>3. Picked(ss[x[1]], pages[x[1]], hits[x[1]], one[x[1]])
    BY <1>3, <1>9
  <2>4. x[2] = y[2]
    BY <1>9, <2>2, <2>3 DEF Picked
  <2> QED
    BY <1>7, <2>2, <2>4
<1>14. ASSUME NEW k \in 1..Len(t)
       PROVE  \E x \in H : new[x] = k
  <2>1. PICK y \in P : all[y] = k
    BY <1>8
  <2>2. y = <<y[1], y[2]>> /\ y[1] \in 1..n /\ y[2] \in 1..Len(ss[y[1]])
    BY <1>6
  <2>3. Picked(ss[y[1]], pages[y[1]], hits[y[1]], one[y[1]])
    BY <1>3, <2>2
  <2>4. PICK j \in hits[y[1]] : one[y[1]][j] = y[2]
    BY <2>2, <2>3 DEF Picked
  <2> DEFINE x == <<y[1], j>>
  <2>5. x[1] = y[1] /\ x[2] = j
    OBVIOUS
  <2>6. x \in H
    BY <1>7, <2>2, <2>5
  <2>7. spot(x) = y
    BY <2>2, <2>4, <2>5 DEF spot
  <2> HIDE DEF x
  <2> QED
    BY <1>9, <2>1, <2>6, <2>7
<1>15. Spread(t, pages, H, new)
  BY <1>11, <1>12, <1>13, <1>14 DEF Spread
<1> QED
  BY <1>1, <1>4, <1>15 DEF H

(* The n-th flight of the list is at position n. *)
LEMMA PositionIs ==
  ASSUME NEW h, NEW L, NEW G, Shape(h, L, G), NEW n \in 1..Len(L)
  PROVE  find_flight_by_position(h, n) = L[n]
<1> DEFINE V(g, i) == IF i = 1 THEN h.head ELSE IF g[i - 1] = Nil THEN Nil ELSE h.flight[g[i - 1]].next
           at == CHOOSE g : g = [i \in 1..n |-> V(g, i)]
           w  == [i \in 1..n |-> L[i]]
<1>1. h \in Heap /\ FlightList(h, L)
  BY DEF Shape
<1>2. /\ Len(L) \in Nat /\ n \in Nat
      /\ \A i \in 1..Len(L) : L[i] \in FlightAddr /\ L[i] # Nil
  BY <1>1, FlightsElements
<1>3. /\ h.head = At(L, 1) /\ h.count = Len(L)
      /\ \A i \in 1..Len(L) : h.flight[L[i]].next = At(L, i + 1)
  <2>1. /\ h.head = At(L, 1) /\ h.count = Len(L)
        /\ \A i \in 1..Len(L) : NextFlights(h)[L[i]] = At(L, i + 1)
    BY <1>1 DEF FlightList, Chain
  <2>2. \A a \in FlightAddr : NextFlights(h)[a] = h.flight[a].next
    BY DEF NextFlights
  <2> QED
    BY <1>2, <2>1, <2>2
<1>4. w = [i \in 1..n |-> V(w, i)]
  <2>1. ASSUME NEW i \in 1..n PROVE w[i] = V(w, i)
    <3>1. CASE i = 1
      BY <1>2, <1>3, <3>1 DEF At
    <3>2. CASE i # 1
      <4>1. i - 1 \in 1..n /\ i - 1 \in 1..Len(L) /\ (i - 1) + 1 = i /\ i \in 1..Len(L)
        BY <1>2, <3>2
      <4>2. w[i - 1] = L[i - 1] /\ w[i] = L[i]
        BY <4>1
      <4>3. h.flight[L[i - 1]].next = L[i] /\ L[i - 1] # Nil
        BY <1>2, <1>3, <4>1 DEF At
      <4> QED
        BY <3>2, <4>2, <4>3
    <3> QED
      BY <3>1, <3>2
  <2>2. w = [i \in 1..n |-> w[i]]
    OBVIOUS
  <2> HIDE DEF V, w
  <2> QED
    BY <2>1, <2>2
<1>5. at = [i \in 1..n |-> V(at, i)]
  <2> HIDE DEF V, w
  <2> QED
    BY <1>4
<1>6. find_flight_by_position(h, n) = at[n]
  BY <1>2, <1>3 DEF find_flight_by_position
<1> HIDE DEF at, w
<1>7. \A i \in 1..n : at[i] = V(at, i)
  <2> SUFFICES ASSUME NEW i \in 1..n PROVE at[i] = V(at, i)
    OBVIOUS
  <2> HIDE DEF V
  <2> QED
    BY <1>5
<1> DEFINE T == {i \in Nat : i \in 1..n => at[i] = L[i]}
<1>8. 0 \in T
  OBVIOUS
<1>9. ASSUME NEW i \in Nat, i \in T
      PROVE  i + 1 \in T
  <2> SUFFICES ASSUME i + 1 \in 1..n PROVE at[i + 1] = L[i + 1]
    OBVIOUS
  <2>1. CASE i = 0
    <3>1. at[1] = h.head
      BY <1>2, <1>7
    <3> QED
      BY <1>2, <1>3, <2>1, <3>1 DEF At
  <2>2. CASE i # 0
    <3>1. i \in 1..n /\ i \in 1..Len(L) /\ (i + 1) - 1 = i /\ i + 1 \in 1..Len(L) /\ i + 1 # 1
      BY <1>2, <2>2
    <3>2. at[i] = L[i]
      BY <1>9, <3>1
    <3>3. h.flight[L[i]].next = L[i + 1] /\ L[i] # Nil
      BY <1>2, <1>3, <3>1 DEF At
    <3> QED
      BY <1>7, <3>1, <3>2, <3>3
  <2> QED
    BY <2>1, <2>2
<1>10. n \in T
  <2> HIDE DEF T
  <2> QED
    BY <1>2, <1>8, <1>9, NumberInduction
<1> QED
  BY <1>2, <1>6, <1>10

(* The i-th flight, the list of its passengers and what the displays read. *)
LEMMA ListsAre ==
  ASSUME NEW h, NEW L, NEW G, Shape(h, L, G)
  PROVE  /\ FlightsOf(h) = L /\ DOMAIN L = 1..Len(L) /\ Len(L) \in Nat
         /\ \A i \in 1..Len(L) : /\ L[i] \in FlightAddr /\ L[i] # Nil
                                 /\ PassengersOf(h, L[i]) = G[L[i]]
                                 /\ DOMAIN G[L[i]] = 1..Len(G[L[i]]) /\ Len(G[L[i]]) \in Nat
                                 /\ \A j \in 1..Len(G[L[i]]) : G[L[i]][j] \in PassengerAddr
<1>1. h \in Heap /\ FlightList(h, L) /\ SeatLists(h, G, {})
  BY DEF Shape
<1>2. FlightsOf(h) = L /\ L \in Seq(FlightAddr)
  BY <1>1, FlightsAre DEF FlightList
<1>3. /\ Len(L) \in Nat
      /\ \A i \in 1..Len(L) : L[i] \in FlightAddr /\ L[i] # Nil
  BY <1>1, FlightsElements
<1>4. DOMAIN L = 1..Len(L)
  BY <1>2, LenProperties
<1>5. ASSUME NEW f \in FlightAddr
      PROVE  /\ PassengersOf(h, f) = G[f]
             /\ DOMAIN G[f] = 1..Len(G[f]) /\ Len(G[f]) \in Nat
             /\ \A j \in 1..Len(G[f]) : G[f][j] \in PassengerAddr
  <2>1. G[f] \in Seq(PassengerAddr) /\ SeatList(h, f, G[f])
    BY <1>1 DEF SeatLists
  <2>2. PassengersOf(h, f) = G[f]
    BY <1>1, <2>1, PassengersAre
  <2> QED
    BY <2>1, <2>2, LenProperties, ElementOfSeq
<1> QED
  BY <1>2, <1>3, <1>4, <1>5

(* What choice 3 shows at a position. *)
LEMMA PageShown ==
  ASSUME NEW h, NEW L, NEW G, Shape(h, L, G), NEW n \in 1..Len(L), NEW id
  PROVE  (\E page \in Range(display_flight_by_pos(h, n)) : page.id = id) <=> h.flight[L[n]].id = id
<1> DEFINE f == L[n]
           s == PassengersOf(h, f)
           line == [i \in DOMAIN s |-> [seat |-> h.person[s[i]].seat, who |-> h.person[s[i]].who]]
           page == [id |-> h.flight[f].id, to |-> h.flight[f].to, seats |-> h.flight[f].seats,
                    passengers |-> line]
<1>1. find_flight_by_position(h, n) = f
  BY PositionIs
<1>2. f # Nil
  BY ListsAre
<1>3. display_flight_by_pos(h, n) = <<page>>
  BY <1>1, <1>2 DEF display_flight_by_pos
<1>4. page.id = h.flight[f].id
  <2> HIDE DEF line
  <2> QED
    OBVIOUS
<1> HIDE DEF page
<1>5. \A x : x \in Range(<<page>>) <=> x = page
  BY DEF Range
<1> QED
  BY <1>3, <1>4, <1>5

(* The lines of a search by destination, and of the search by name. *)
LEMMA FlightLinesAre ==
  ASSUME NEW h, NEW L, NEW G, Shape(h, L, G)
  PROVE  /\ DOMAIN FlightLines(h) = 1..Len(L)
         /\ \A i \in 1..Len(L) : FlightLines(h)[i] = [id |-> h.flight[L[i]].id, to |-> h.flight[L[i]].to,
                                                      position |-> i]
<1>1. FlightsOf(h) = L /\ DOMAIN L = 1..Len(L)
  BY ListsAre
<1> QED
  BY <1>1 DEF FlightLines

NameLine(h, L, G, i, j) == [id |-> h.flight[L[i]].id, position |-> i,
                            seat |-> h.person[G[L[i]][j]].seat, who |-> h.person[G[L[i]][j]].who]

LEMMA NameLinesAre ==
  ASSUME NEW h, NEW L, NEW G, Shape(h, L, G), NEW i \in 1..Len(L)
  PROVE  /\ DOMAIN NameLines(h, i) = 1..Len(G[L[i]])
         /\ \A j \in 1..Len(G[L[i]]) : NameLines(h, i)[j] = NameLine(h, L, G, i, j)
<1> DEFINE s == G[L[i]]
           t == [j \in DOMAIN s |-> NameLine(h, L, G, i, j)]
<1>1. FlightsOf(h) = L /\ PassengersOf(h, L[i]) = s /\ DOMAIN s = 1..Len(s)
  BY ListsAre
<1>2. NameLines(h, i) = t
  BY <1>1 DEF NameLines, NameLine
<1> HIDE DEF s
<1>3. DOMAIN t = DOMAIN s /\ \A j \in DOMAIN s : t[j] = NameLine(h, L, G, i, j)
  OBVIOUS
<1> QED
  BY <1>1, <1>2, <1>3 DEF s

(* The places of the passengers that a search finds. *)
NameHits(h, L, G, q) ==
  {x \in Nat \X Nat : /\ x[1] \in 1..Len(L) /\ x[2] \in 1..Len(G[L[x[1]]])
                      /\ PartOfName(q, h.person[G[L[x[1]]][x[2]]].who.name)}

LEMMA NameSearchIs ==
  ASSUME NEW h, NEW L, NEW G, Shape(h, L, G), NEW q
  PROVE  LET t == find_passenger_by_name(h, q)
             H == NameHits(h, L, G, q)
         IN /\ Len(t) \in Nat /\ DOMAIN t = 1..Len(t)
            /\ \E at : /\ at \in [H -> 1..Len(t)]
                       /\ \A x \in H : t[at[x]] = NameLine(h, L, G, x[1], x[2])
                       /\ \A x, y \in H : at[x] = at[y] => x = y
                       /\ \A k \in 1..Len(t) : \E x \in H : at[x] = k
<1> DEFINE t == find_passenger_by_name(h, q)
           n == Len(L)
           pages == [i \in 1..n |-> NameLines(h, i)]
           size == [i \in 1..n |-> Len(G[L[i]])]
           hits == [i \in 1..n |-> {j \in 1..Len(G[L[i]]) : PartOfName(q, h.person[G[L[i]][j]].who.name)}]
           S == UNION {{pages[i][j] : j \in 1..size[i]} : i \in 1..n}
           P == HitsOf(hits, n)
           H == NameHits(h, L, G, q)
<1>1. FlightsOf(h) = L /\ DOMAIN L = 1..n /\ n \in Nat
  BY ListsAre
<1>2. \A i \in 1..n : Len(G[L[i]]) \in Nat
  BY ListsAre
<1>3. \A i \in 1..n : /\ DOMAIN NameLines(h, i) = 1..Len(G[L[i]])
                      /\ \A j \in 1..Len(G[L[i]]) : NameLines(h, i)[j] = NameLine(h, L, G, i, j)
  BY NameLinesAre
<1>4. \A i \in 1..n : {j \in DOMAIN NameLines(h, i) : PartOfName(q, NameLines(h, i)[j].who.name)} = hits[i]
  <2> SUFFICES ASSUME NEW i \in 1..n
               PROVE  {j \in DOMAIN NameLines(h, i) : PartOfName(q, NameLines(h, i)[j].who.name)} = hits[i]
    OBVIOUS
  <2>1. \A j \in 1..Len(G[L[i]]) : NameLines(h, i)[j].who = h.person[G[L[i]][j]].who
    <3>1. \A j : NameLine(h, L, G, i, j).who = h.person[G[L[i]][j]].who
      BY DEF NameLine
    <3> QED
      BY <1>3, <3>1
  <2>2. hits[i] = {j \in 1..Len(G[L[i]]) : PartOfName(q, h.person[G[L[i]][j]].who.name)}
    OBVIOUS
  <2> HIDE DEF hits
  <2> QED
    BY <1>3, <2>1, <2>2
<1>5. t = FlattenSeq([i \in 1..n |-> Printed(pages[i], hits[i])])
  <2>1. t = FlattenSeq([i \in 1..n |-> Printed(NameLines(h, i), {j \in DOMAIN NameLines(h, i) :
                                                                  PartOfName(q, NameLines(h, i)[j].who.name)})])
    BY <1>1 DEF find_passenger_by_name
  <2>2. \A i \in 1..n : pages[i] = NameLines(h, i)
    OBVIOUS
  <2> HIDE DEF pages, hits, t
  <2>3. [i \in 1..n |-> Printed(NameLines(h, i), {j \in DOMAIN NameLines(h, i) :
                                                    PartOfName(q, NameLines(h, i)[j].who.name)})]
          = [i \in 1..n |-> Printed(pages[i], hits[i])]
    BY <1>4, <2>2
  <2> QED
    BY <2>1, <2>3
<1>6. \A i \in 1..n : /\ pages[i] = NameLines(h, i) /\ size[i] = Len(G[L[i]])
                      /\ hits[i] = {j \in 1..Len(G[L[i]]) : PartOfName(q, h.person[G[L[i]][j]].who.name)}
  OBVIOUS
<1>7. \A i \in 1..n : \A j \in 1..size[i] : pages[i][j] \in S
  OBVIOUS
<1> HIDE DEF pages, size, hits, S, t
<1>8. \A i \in 1..n : /\ size[i] \in Nat /\ DOMAIN pages[i] = 1..size[i]
                      /\ hits[i] \in SUBSET (1..size[i])
                      /\ \A j \in 1..size[i] : pages[i][j] \in S
  BY <1>2, <1>3, <1>6, <1>7
<1>9. t \in Seq(S) /\ \E at : Spread(t, pages, HitsOf(hits, n), at)
  <2> HIDE DEF n
  <2> QED
    BY ONLY <1>1, <1>5, <1>8, ReportIs
<1>10. \A x : x \in P <=> x \in H
  <2>1. \A x : x \in P <=> x \in Nat \X Nat /\ x[1] \in 1..n /\ x[2] \in hits[x[1]]
    BY DEF HitsOf
  <2>2. \A x : x \in H <=> /\ x \in Nat \X Nat /\ x[1] \in 1..n /\ x[2] \in 1..Len(G[L[x[1]]])
                           /\ PartOfName(q, h.person[G[L[x[1]]][x[2]]].who.name)
    BY DEF NameHits
  <2> HIDE DEF P, H, n
  <2>3. ASSUME NEW i \in 1..n, NEW j
        PROVE  j \in hits[i] <=> j \in 1..Len(G[L[i]]) /\ PartOfName(q, h.person[G[L[i]][j]].who.name)
    BY <1>6
  <2> QED
    BY <2>1, <2>2, <2>3
<1>11. P = H
  <2> HIDE DEF P, H
  <2> QED
    BY <1>10
<1>12. PICK at : Spread(t, pages, H, at)
  BY <1>9, <1>11
<1>13. Len(t) \in Nat /\ DOMAIN t = 1..Len(t)
  BY <1>9, LenProperties
<1>14. ASSUME NEW x \in H
       PROVE  pages[x[1]][x[2]] = NameLine(h, L, G, x[1], x[2])
  <2>1. x[1] \in 1..n /\ x[2] \in 1..Len(G[L[x[1]]])
    BY DEF NameHits
  <2> QED
    BY <1>3, <1>6, <2>1
<1> HIDE DEF H
<1>15. /\ at \in [H -> 1..Len(t)]
       /\ \A x \in H : t[at[x]] = NameLine(h, L, G, x[1], x[2])
       /\ \A x, y \in H : at[x] = at[y] => x = y
       /\ \A k \in 1..Len(t) : \E x \in H : at[x] = k
  BY <1>12, <1>14 DEF Spread
<1> QED
  BY <1>13, <1>15 DEF t, H

LEMMA DestinationIs ==
  ASSUME NEW h, NEW L, NEW G, Shape(h, L, G), NEW q, NEW line \in Range(find_flight_by_destination(h, q))
  PROVE  \E i \in 1..Len(L) : line = [id |-> h.flight[L[i]].id, to |-> h.flight[L[i]].to, position |-> i]
<1> DEFINE page == FlightLines(h)
           n == Len(L)
           hits == {i \in DOMAIN page : SamePlace(q, page[i].to)}
           S == {page[i] : i \in 1..n}
           t == Printed(page, hits)
<1>1. n \in Nat /\ DOMAIN page = 1..n
  BY ListsAre, FlightLinesAre
<1>2. \A i \in 1..n : page[i] = [id |-> h.flight[L[i]].id, to |-> h.flight[L[i]].to, position |-> i]
  BY FlightLinesAre
<1>3. find_flight_by_destination(h, q) = t
  BY DEF find_flight_by_destination
<1>4. hits \in SUBSET (1..n) /\ \A i \in 1..n : page[i] \in S
  BY <1>1
<1> HIDE DEF page, hits, S, n
<1>5. t \in Seq(S) /\ \E at : Picked(t, page, hits, at)
  BY ONLY <1>1, <1>4, PrintedIs
<1>6. PICK at : Picked(t, page, hits, at)
  BY <1>5
<1> HIDE DEF t
<1>7. PICK k \in 1..Len(t) : line = t[k]
  <2>1. DOMAIN t = 1..Len(t)
    BY <1>5, LenProperties
  <2> QED
    BY <1>3, <2>1 DEF Range
<1>8. PICK i \in hits : at[i] = k
  BY <1>6 DEF Picked
<1>9. line = page[i] /\ i \in 1..n
  BY <1>4, <1>6, <1>7, <1>8 DEF Picked
<1> QED
  BY <1>2, <1>9 DEF n

-----------------------------------------------------------------------------
(* The positions that the searches print, after the next choice *)

(* The places in t of the flights with the id, and the first i flights of  *)
(* s that t has no more.                                                   *)
PlacesWith(t, id) == {n \in DOMAIN t : t[n].id = id}
Lost(s, t, i) == {j \in 1..i : s[j].id \notin Abstract!IdsOf(t)}

(* A flight of s stands in t as many places further to the front as        *)
(* flights in front of it are gone.                                        *)
Moves(s, t) ==
  \A i \in DOMAIN s : PlacesWith(t, s[i].id) = IF i \in Lost(s, t, i) THEN {}
                                               ELSE {i - Cardinality(Lost(s, t, i))}

LEMMA GoesOnMoves ==
  ASSUME NEW S, NEW s \in Seq(S), NEW t, IdsDiffer(t), GoesOn(s, t)
  PROVE  Moves(s, t)
<1>1. DOMAIN s = 1..Len(s) /\ Len(s) \in Nat
  BY LenProperties
<1>2. ASSUME NEW i \in DOMAIN s
      PROVE  PlacesWith(t, s[i].id) = {i} /\ Lost(s, t, i) = {}
  <2>1. \A j \in 1..i : j \in DOMAIN s
    BY <1>1
  <2>2. \A j \in DOMAIN s : j \in DOMAIN t /\ t[j].id = s[j].id
    BY DEF GoesOn
  <2>3. \A n \in DOMAIN t : t[n].id = s[i].id <=> n = i
    BY <2>2 DEF IdsDiffer
  <2>4. \A j \in 1..i : s[j].id \in Abstract!IdsOf(t)
    BY <2>1, <2>2 DEF Abstract!IdsOf
  <2>5. i \in DOMAIN t
    BY <2>2
  <2> QED
    BY <2>3, <2>4, <2>5 DEF PlacesWith, Lost
<1>3. \A i \in DOMAIN s : i - 0 = i
  BY <1>1
<1>4. Cardinality({}) = 0
  BY FS_EmptySet
<1> QED
  BY <1>2, <1>3, <1>4 DEF Moves

LEMMA TakenMoves ==
  ASSUME NEW S, NEW s \in Seq(S), IdsDiffer(s), NEW id
  PROVE  Moves(s, Abstract!TakeFlight(s, id))
<1> DEFINE k == CHOOSE i \in DOMAIN s : s[i].id = id
           t == Removed(s, k)
<1>1. DOMAIN s = 1..Len(s) /\ Len(s) \in Nat
  BY LenProperties
<1>2. Abstract!TakeFlight(s, id) = IF id \in Abstract!IdsOf(s) THEN Abstract!RemoveAt(s, k) ELSE s
  BY DEF Abstract!TakeFlight
<1>3. CASE id \in Abstract!IdsOf(s)
  <2>1. k \in 1..Len(s)
    BY <1>1, <1>3 DEF Abstract!IdsOf
  <2> HIDE DEF k
  <2>2. Abstract!TakeFlight(s, id) = t
    BY <1>2, <1>3, <2>1, RemoveAtIs
  <2>3. DOMAIN t = 1..(Len(s) - 1) /\ \A i \in 1..(Len(s) - 1) : t[i] = IF i < k THEN s[i] ELSE s[i + 1]
    BY DEF Removed
  <2> HIDE DEF t
  <2>4. \A i, j \in 1..Len(s) : s[i].id = s[j].id => i = j
    BY <1>1 DEF IdsDiffer
  <2>5. ASSUME NEW n \in 1..(Len(s) - 1), NEW i \in 1..Len(s)
        PROVE  t[n].id = s[i].id <=> i # k /\ n = IF i < k THEN i ELSE i - 1
    <3>1. CASE n < k
      <4>1. n \in 1..Len(s) /\ t[n] = s[n]
        BY <1>1, <2>3, <3>1
      <4>2. t[n].id = s[i].id <=> n = i
        BY <2>4, <4>1
      <4> QED
        BY <2>1, <3>1, <4>2
    <3>2. CASE ~(n < k)
      <4>1. n + 1 \in 1..Len(s) /\ t[n] = s[n + 1]
        BY <1>1, <2>3, <3>2
      <4>2. t[n].id = s[i].id <=> n + 1 = i
        BY <2>4, <4>1
      <4> QED
        BY <2>1, <3>2, <4>2
    <3> QED
      BY <3>1, <3>2
  <2>6. ASSUME NEW i \in 1..Len(s), i # k
        PROVE  (IF i < k THEN i ELSE i - 1) \in 1..(Len(s) - 1)
    BY <1>1, <2>1, <2>6
  <2>7. ASSUME NEW i \in 1..Len(s)
        PROVE  s[i].id \in Abstract!IdsOf(t) <=> i # k
    <3>1. s[i].id \in Abstract!IdsOf(t) <=> \E n \in 1..(Len(s) - 1) : t[n].id = s[i].id
      BY <2>3 DEF Abstract!IdsOf
    <3> QED
      BY <2>5, <2>6, <3>1
  <2>8. ASSUME NEW i \in 1..Len(s)
        PROVE  Lost(s, t, i) = IF k <= i THEN {k} ELSE {}
    <3>1. \A j \in 1..i : j \in 1..Len(s)
      BY <1>1
    <3>2. \A j : j \in Lost(s, t, i) <=> j \in 1..i /\ j = k
      BY <2>7, <3>1 DEF Lost
    <3>3. k \in 1..i <=> k <= i
      BY <2>1
    <3> QED
      BY <3>2, <3>3
  <2>9. Cardinality({}) = 0 /\ Cardinality({k}) = 1
    BY FS_EmptySet, FS_Singleton
  <2>10. ASSUME NEW i \in 1..Len(s)
         PROVE  PlacesWith(t, s[i].id) = IF i \in Lost(s, t, i) THEN {}
                                         ELSE {i - Cardinality(Lost(s, t, i))}
    <3>1. \A n : n \in PlacesWith(t, s[i].id) <=> n \in 1..(Len(s) - 1) /\ t[n].id = s[i].id
      BY <2>3 DEF PlacesWith
    <3>2. CASE i = k
      <4>1. i \in Lost(s, t, i)
        BY <2>1, <2>8, <3>2
      <4>2. \A n : n \notin PlacesWith(t, s[i].id)
        BY <2>5, <3>1, <3>2
      <4> QED
        BY <4>1, <4>2
    <3>3. CASE i < k
      <4>1. Lost(s, t, i) = {}
        BY <2>1, <2>8, <3>3
      <4>2. \A n : n \in PlacesWith(t, s[i].id) <=> n = i
        <5>1. i # k /\ i \in 1..(Len(s) - 1)
          BY <1>1, <2>1, <3>3
        <5> QED
          BY <2>5, <3>1, <3>3, <5>1
      <4>3. i - 0 = i
        OBVIOUS
      <4> QED
        BY <2>9, <4>1, <4>2, <4>3
    <3>4. CASE ~(i < k) /\ i # k
      <4>1. Lost(s, t, i) = {k} /\ i \notin {k}
        BY <2>1, <2>8, <3>4
      <4>2. \A n : n \in PlacesWith(t, s[i].id) <=> n = i - 1
        <5>1. i - 1 \in 1..(Len(s) - 1)
          BY <1>1, <2>1, <3>4
        <5> QED
          BY <2>5, <3>1, <3>4, <5>1
      <4> QED
        BY <2>9, <4>1, <4>2
    <3> QED
      BY <3>2, <3>3, <3>4
  <2> QED
    BY <1>1, <2>2, <2>10 DEF Moves
<1>4. CASE id \notin Abstract!IdsOf(s)
  <2>1. GoesOn(s, s)
    BY DEF GoesOn
  <2> QED
    BY <1>2, <1>4, <2>1, GoesOnMoves
<1> QED
  BY <1>3, <1>4

(* A choice after which the menu is shown again moves the flights like     *)
(* that.                                                                   *)
LEMMA MenuMoves ==
  ASSUME MenuInv, Next, state' = "menu"
  PROVE  Moves(RegistryOf(m), RegistryOf(m'))
<1>1. state = "menu" /\ ~m.failed /\ m \in Unique
  BY DEF Next, MenuInv
<1>2. m' \in Unique
  BY MenuNext DEF MenuInv
<1>3. /\ Ids \subseteq KnownIds /\ Places \subseteq KnownPlaces /\ People \subseteq KnownPeople
      /\ SeatCounts \subseteq Int /\ Seats \subseteq Int
  BY InputAssumption DEF KnownIds, KnownPlaces, KnownPeople
<1>4. PICK S : RegistryOf(m) \in Seq(S)
  BY <1>1, UniqueIs
<1>5. IdsDiffer(RegistryOf(m)) /\ IdsDiffer(RegistryOf(m'))
  BY <1>1, <1>2, UniqueIs
<1>6. ASSUME GoesOn(RegistryOf(m), RegistryOf(m'))
      PROVE  Moves(RegistryOf(m), RegistryOf(m'))
  BY <1>4, <1>5, <1>6, GoesOnMoves
<1>7. \A r : Leave(r) => m' = r /\ ~r.failed
  BY DEF Leave
<1>8. CASE add_new_flight
  <2>1. PICK id \in Ids, to \in Places, n \in SeatCounts : Leave(add_flight(m, id, to, n))
    BY <1>8 DEF add_new_flight
  <2>2. m' = add_flight(m, id, to, n) /\ ~add_flight(m, id, to, n).failed
    BY <1>7, <2>1
  <2>3. GoesOn(RegistryOf(m), RegistryOf(add_flight(m, id, to, n)))
    BY <1>1, <1>3, <2>2, AddStep
  <2> QED
    BY <1>6, <2>2, <2>3
<1>9. CASE add_new_passenger_to_flight
  <2>1. PICK id \in Ids, seat \in Seats, who \in People :
          /\ FindFlight(m, id) # Nil
          /\ Leave(add_passenger(m, FindFlight(m, id), seat, who))
    BY <1>9 DEF add_new_passenger_to_flight
  <2> DEFINE r == add_passenger(m, FindFlight(m, id), seat, who)
  <2>2. m' = r /\ ~r.failed
    BY <1>7, <2>1
  <2>3. GoesOn(RegistryOf(m), RegistryOf(r))
    BY <1>1, <1>3, <2>1, <2>2, BoardStep
  <2> QED
    BY <1>6, <2>2, <2>3
<1>10. CASE remove_flight_menu
  <2>1. PICK id \in Ids : Leave(remove_flight(m, id))
    BY <1>10 DEF remove_flight_menu
  <2>2. m' = remove_flight(m, id)
    BY <1>7, <2>1
  <2>3. RegistryOf(remove_flight(m, id)) = Abstract!TakeFlight(RegistryOf(m), id)
    BY <1>1, TakeStep
  <2> QED
    BY <1>4, <1>5, <2>2, <2>3, TakenMoves
<1>11. CASE change_passenger_seat_menu
  <2>1. PICK id \in Ids, old \in Seats, new \in Seats :
          /\ FindFlight(m, id) # Nil
          /\ Leave(change_passenger_seat(m, FindFlight(m, id), old, new))
    BY <1>11 DEF change_passenger_seat_menu
  <2> DEFINE r == change_passenger_seat(m, FindFlight(m, id), old, new)
  <2>2. m' = r
    BY <1>7, <2>1
  <2>3. GoesOn(RegistryOf(m), RegistryOf(r))
    BY <1>1, <1>3, <2>1, ReseatStep
  <2> QED
    BY <1>6, <2>2, <2>3
<1>12. CASE AddSampleData
  <2>1. m' = add_sample_data(m) /\ ~add_sample_data(m).failed
    BY <1>7, <1>12 DEF AddSampleData
  <2>2. GoesOn(RegistryOf(m), RegistryOf(add_sample_data(m)))
    BY <1>1, <2>1, SampleStep
  <2> QED
    BY <1>6, <2>1, <2>2
<1>13. CASE ExitProgram \/ InvalidChoice
  BY <1>13 DEF ExitProgram, InvalidChoice
<1> QED
  BY <1>8, <1>9, <1>10, <1>11, <1>12, <1>13 DEF Next

(* Choice 3 shows a flight at its place in the registry.                   *)
LEMMA ShownAtIs ==
  ASSUME NEW h, NEW L, NEW G, Shape(h, L, G), NEW id
  PROVE  /\ ShownAt(h, id) = PlacesWith(RegistryOf(h), id)
         /\ FindFlight(h, id) = Nil <=> id \notin Abstract!IdsOf(RegistryOf(h))
<1>1. h \in Heap /\ FlightList(h, L)
  BY DEF Shape
<1>2. Len(L) \in Nat /\ Len(L) <= FlightNodes /\ h.count = Len(L)
  <2>1. L \in Seq(1..FlightNodes) /\ Distinct(L) /\ FlightNodes \in Nat /\ h.count = Len(L)
    BY <1>1, Addresses DEF FlightList
  <2> QED
    BY <2>1, DistinctLength, LenProperties
<1>3. /\ DOMAIN RegistryOf(h) = 1..Len(L)
      /\ \A i \in 1..Len(L) : RegistryOf(h)[i].id = h.flight[L[i]].id
  <2>1. RegistryOf(h) = [i \in 1..Len(L) |-> Entry(h, L[i])]
    BY RegistryIs
  <2>2. \A i \in 1..Len(L) : RegistryOf(h)[i] = Entry(h, L[i])
    BY <2>1
  <2> QED
    BY <2>1, <2>2, EntryFields
<1>4. ASSUME NEW n \in 1..FlightNodes
      PROVE  (\E page \in Range(display_flight_by_pos(h, n)) : page.id = id)
               <=> n \in 1..Len(L) /\ h.flight[L[n]].id = id
  <2>1. CASE n \in 1..Len(L)
    BY <2>1, PageShown
  <2>2. CASE n \notin 1..Len(L)
    <3>1. n > h.count
      BY <1>2, <2>2
    <3>2. find_flight_by_position(h, n) = Nil
      BY <3>1 DEF find_flight_by_position
    <3>3. display_flight_by_pos(h, n) = <<>>
      BY <3>2 DEF display_flight_by_pos
    <3>4. Range(<<>>) = {}
      BY DEF Range
    <3> QED
      BY <2>2, <3>3, <3>4
  <2> QED
    BY <2>1, <2>2
<1>5. 1..Len(L) \subseteq 1..FlightNodes
  BY <1>2, Addresses
<1>6. ShownAt(h, id) = PlacesWith(RegistryOf(h), id)
  <2>1. \A n : n \in ShownAt(h, id) <=> n \in 1..FlightNodes /\ n \in 1..Len(L) /\ h.flight[L[n]].id = id
    BY <1>4 DEF ShownAt
  <2>2. \A n : n \in PlacesWith(RegistryOf(h), id) <=> n \in 1..Len(L) /\ h.flight[L[n]].id = id
    BY <1>3 DEF PlacesWith
  <2> QED
    BY <1>5, <2>1, <2>2
<1>7. FindFlight(h, id) = Nil <=> id \notin Abstract!IdsOf(RegistryOf(h))
  <2>1. FindFlight(h, id) # Nil <=> \E b \in FlightAddr : Has(L, b) /\ h.flight[b].id = id
    BY <1>1, FlightKnown
  <2>2. \A i \in 1..Len(L) : L[i] \in FlightAddr
    BY <1>1, FlightsElements
  <2>3. FindFlight(h, id) # Nil <=> \E i \in 1..Len(L) : h.flight[L[i]].id = id
    BY <2>1, <2>2 DEF Has
  <2>4. id \in Abstract!IdsOf(RegistryOf(h)) <=> \E i \in 1..Len(L) : h.flight[L[i]].id = id
    BY <1>3 DEF Abstract!IdsOf
  <2> QED
    BY <2>3, <2>4
<1> QED
  BY <1>6, <1>7

(* What the searches find is a flight and its place.                       *)
LEMMA FoundIs ==
  ASSUME NEW L, NEW G, Shape(m, L, G), NEW q, NEW hit \in Found(m, q)
  PROVE  hit[2] \in DOMAIN RegistryOf(m) /\ RegistryOf(m)[hit[2]].id = hit[1]
<1> DEFINE t == find_passenger_by_name(m, q)
           H == NameHits(m, L, G, q)
<1>1. /\ Len(t) \in Nat /\ DOMAIN t = 1..Len(t)
      /\ \E at : /\ at \in [H -> 1..Len(t)]
                 /\ \A x \in H : t[at[x]] = NameLine(m, L, G, x[1], x[2])
                 /\ \A x, y \in H : at[x] = at[y] => x = y
                 /\ \A k \in 1..Len(t) : \E x \in H : at[x] = k
  BY NameSearchIs
<1>2. \A x \in H : x[1] \in 1..Len(L)
  BY DEF NameHits
<1>3. \A i, j : NameLine(m, L, G, i, j).id = m.flight[L[i]].id /\ NameLine(m, L, G, i, j).position = i
  BY DEF NameLine
<1>4. \/ \E line \in Range(find_flight_by_destination(m, q)) : hit = <<line.id, line.position>>
      \/ \E line \in Range(t) : hit = <<line.id, line.position>>
  BY DEF Found
<1> HIDE DEF t, H
<1>5. \E i \in 1..Len(L) : hit = <<m.flight[L[i]].id, i>>
  <2>1. ASSUME NEW line \in Range(find_flight_by_destination(m, q)), hit = <<line.id, line.position>>
        PROVE  \E i \in 1..Len(L) : hit = <<m.flight[L[i]].id, i>>
    <3>1. PICK i \in 1..Len(L) : line = [id |-> m.flight[L[i]].id, to |-> m.flight[L[i]].to, position |-> i]
      BY <2>1, DestinationIs
    <3>2. line.id = m.flight[L[i]].id /\ line.position = i
      BY <3>1
    <3> QED
      BY <2>1, <3>2
  <2>2. ASSUME NEW line \in Range(t), hit = <<line.id, line.position>>
        PROVE  \E i \in 1..Len(L) : hit = <<m.flight[L[i]].id, i>>
    <3>1. PICK k \in DOMAIN t : line = t[k]
      BY <2>2 DEF Range
    <3>2. PICK x \in H : t[k] = NameLine(m, L, G, x[1], x[2])
      BY <1>1, <3>1
    <3>3. line.id = m.flight[L[x[1]]].id /\ line.position = x[1]
      BY <1>3, <3>1, <3>2
    <3> QED
      BY <1>2, <2>2, <3>3
  <2> QED
    BY <1>4, <2>1, <2>2
<1>6. PICK i \in 1..Len(L) : hit = <<m.flight[L[i]].id, i>>
  BY <1>5
<1>7. RegistryOf(m) = [n \in 1..Len(L) |-> Entry(m, L[n])]
  BY RegistryIs
<1>8. RegistryOf(m)[i] = Entry(m, L[i]) /\ i \in DOMAIN RegistryOf(m)
  BY <1>7
<1>9. RegistryOf(m)[i].id = m.flight[L[i]].id
  BY <1>8, EntryFields
<1>10. hit[1] = m.flight[L[i]].id /\ hit[2] = i
  BY <1>6
<1> QED
  BY <1>8, <1>9, <1>10

(* A printed position that is typed at choice 3 after another choice was   *)
(* made in between: the flight is shown there and nowhere else, but that   *)
(* every removal of a flight in front of it moved it one position up       *)
(* (flight_functions.c:182 and 322, flight_manager.c:250-267).             *)
THEOREM PositionsShown == Spec => PositionsMove
<1> DEFINE Shown(q, hit) ==
             LET id == hit[1]
                 position == hit[2]
                 removed == {i \in 1..position : FindFlight(m', Registry[i].id) = Nil}
             IN ShownAt(m', id) = IF position \in removed THEN {}
                                  ELSE {position - Cardinality(removed)}
           Step == state' = "menu" => \A q \in Queries : \A hit \in Found(m, q) : Shown(q, hit)
<1>1. ASSUME MenuInv, Next, state' = "menu", NEW q \in Queries, NEW hit \in Found(m, q)
      PROVE  Shown(q, hit)
  <2>1. m \in Unique /\ MenuInv'
    BY <1>1, MenuNext DEF MenuInv, Next
  <2>2. m' \in Unique
    BY <1>1, <2>1 DEF MenuInv
  <2>3. PICK L, G : Shape(m, L, G)
    BY <2>1, UniqueIs
  <2>4. PICK K, F : Shape(m', K, F)
    BY <2>2, UniqueIs
  <2> DEFINE id == hit[1]
             position == hit[2]
             s == RegistryOf(m)
             t == RegistryOf(m')
             removed == {i \in 1..position : FindFlight(m', Registry[i].id) = Nil}
  <2>5. position \in DOMAIN s /\ s[position].id = id
    BY <1>1, <2>3, FoundIs
  <2>6. Moves(s, t)
    BY <1>1, MenuMoves
  <2>7. \A x : FindFlight(m', x) = Nil <=> x \notin Abstract!IdsOf(t)
    BY <2>4, ShownAtIs
  <2>8. ShownAt(m', id) = PlacesWith(t, id)
    BY <2>4, ShownAtIs
  <2>9. \A i : i \in removed <=> i \in 1..position /\ FindFlight(m', s[i].id) = Nil
    BY DEF Registry
  <2>10. \A i : i \in Lost(s, t, position) <=> i \in 1..position /\ s[i].id \notin Abstract!IdsOf(t)
    BY DEF Lost
  <2> HIDE DEF id, position, s, t, removed
  <2>11. removed = Lost(s, t, position)
    BY <2>7, <2>9, <2>10
  <2>12. ShownAt(m', id) = IF position \in removed THEN {} ELSE {position - Cardinality(removed)}
    BY <2>5, <2>6, <2>8, <2>11 DEF Moves
  <2> QED
    BY <2>12 DEF id, position, removed
<1>2. MenuInv /\ [Next]_vars => [Step]_vars
  <2> HIDE DEF Shown
  <2>1. ASSUME MenuInv, Next PROVE Step
    BY <1>1, <2>1
  <2> QED
    BY <2>1
<1>3. [][Step]_vars => PositionsMove
  BY DEF PositionsMove
<1> QED
  BY <1>2, <1>3, MenuAlways, PTL DEF Spec

(* The passenger at the j-th place of the i-th flight, and the booking.    *)
PassengerAt(L, G, i, j) == G[L[i]][j]
BookingAt(h, L, G, i, j) == <<i, h.person[PassengerAt(L, G, i, j)].seat>>
PlacesIn(L, G) == {x \in Nat \X Nat : x[1] \in 1..Len(L) /\ x[2] \in 1..Len(G[L[x[1]]])}

LEMMA BookingsAre ==
  ASSUME NEW L, NEW G, Shape(m, L, G)
  PROVE  /\ \A x \in PlacesIn(L, G) : LET b == BookingAt(m, L, G, x[1], x[2])
                                      IN b \in Bookings /\ Who(b) = m.person[PassengerAt(L, G, x[1], x[2])].who
         /\ \A b \in Bookings : \E x \in PlacesIn(L, G) : b = BookingAt(m, L, G, x[1], x[2])
         /\ \A x, y \in PlacesIn(L, G) : BookingAt(m, L, G, x[1], x[2]) = BookingAt(m, L, G, y[1], y[2]) => x = y
<1>1. Len(L) \in Nat /\ Registry = [i \in 1..Len(L) |-> Entry(m, L[i])]
  BY RegistryIs DEF Registry
<1>2. \A i \in 1..Len(L) : Entry(m, L[i]).booked = Booked(m, L[i])
  BY EntryFields
<1>3. DOMAIN Registry = 1..Len(L) /\ \A i \in 1..Len(L) : Registry[i].booked = Booked(m, L[i])
  BY <1>1, <1>2
<1>4. \A i \in 1..Len(L) : /\ L[i] \in FlightAddr /\ Len(G[L[i]]) \in Nat
                           /\ \A j \in 1..Len(G[L[i]]) : G[L[i]][j] \in PassengerAddr
  BY ListsAre
<1>5. \A i \in 1..Len(L) : Books(m, G[L[i]], Booked(m, L[i]))
  BY <1>4, SeatBooked
<1>6. \A b : b \in Bookings <=> \E i \in 1..Len(L) : \E s \in DOMAIN Booked(m, L[i]) : b = <<i, s>>
  <2>1. \A b : b \in Bookings <=> \E i \in DOMAIN Registry : b \in {i} \X DOMAIN Registry[i].booked
    BY DEF Bookings
  <2>2. \A i, D, b : b \in {i} \X D <=> \E s \in D : b = <<i, s>>
    OBVIOUS
  <2> QED
    BY <1>3, <2>1, <2>2
<1>7. \A x \in PlacesIn(L, G) : /\ x[1] \in 1..Len(L) /\ x[2] \in 1..Len(G[L[x[1]]])
                                /\ x = <<x[1], x[2]>>
  BY DEF PlacesIn
<1>8. ASSUME NEW x \in PlacesIn(L, G)
      PROVE  LET b == BookingAt(m, L, G, x[1], x[2])
             IN b \in Bookings /\ Who(b) = m.person[PassengerAt(L, G, x[1], x[2])].who
  <2> DEFINE i == x[1]
             p == G[L[i]][x[2]]
             c == Booked(m, L[i])
             seat == m.person[p].seat
  <2>1. i \in 1..Len(L) /\ p \in PassengerAddr /\ Has(G[L[i]], p)
    BY <1>4, <1>7 DEF Has
  <2>2. seat \in DOMAIN c /\ c[seat] = m.person[p].who
    BY <1>5, <2>1 DEF Books
  <2>3. Registry[i].booked = c
    BY <1>3, <2>1
  <2>4. PassengerAt(L, G, x[1], x[2]) = p /\ BookingAt(m, L, G, x[1], x[2]) = <<i, seat>>
    BY DEF PassengerAt, BookingAt
  <2> HIDE DEF seat, c, p, i
  <2>5. <<i, seat>> \in Bookings
    BY <1>6, <2>1, <2>2 DEF c
  <2>6. Who(<<i, seat>>) = c[seat]
    BY <2>3 DEF Who
  <2> QED
    BY <2>2, <2>4, <2>5, <2>6
<1>9. ASSUME NEW b \in Bookings
      PROVE  \E x \in PlacesIn(L, G) : b = BookingAt(m, L, G, x[1], x[2])
  <2>1. PICK i \in 1..Len(L) : \E s \in DOMAIN Booked(m, L[i]) : b = <<i, s>>
    BY <1>6
  <2>2. PICK s \in DOMAIN Booked(m, L[i]) : b = <<i, s>>
    BY <2>1
  <2>3. PICK q \in PassengerAddr : Has(G[L[i]], q) /\ m.person[q].seat = s
    BY <1>5 DEF Books
  <2>4. PICK j \in 1..Len(G[L[i]]) : G[L[i]][j] = q
    BY <2>3 DEF Has
  <2> DEFINE x == <<i, j>>
  <2>5. x \in PlacesIn(L, G)
    BY <1>1, <1>4 DEF PlacesIn
  <2>6. x[1] = i /\ x[2] = j
    OBVIOUS
  <2> HIDE DEF x
  <2>7. BookingAt(m, L, G, x[1], x[2]) = b
    BY <2>2, <2>3, <2>4, <2>6 DEF BookingAt, PassengerAt
  <2> QED
    BY <2>5, <2>7
<1>10. ASSUME NEW x \in PlacesIn(L, G), NEW y \in PlacesIn(L, G),
              BookingAt(m, L, G, x[1], x[2]) = BookingAt(m, L, G, y[1], y[2])
       PROVE  x = y
  <2> DEFINE i == x[1]
             s == G[L[i]]
  <2>1. x[1] = y[1] /\ m.person[s[x[2]]].seat = m.person[s[y[2]]].seat
    BY <1>10 DEF BookingAt, PassengerAt
  <2>2. x[2] \in 1..Len(s) /\ y[2] \in 1..Len(s) /\ L[i] \in FlightAddr
    BY <1>4, <1>7, <2>1
  <2>3. s \in Seq(PassengerAddr) /\ SeatList(m, L[i], s) /\ m \in Heap
    BY <2>2, SeatBooked DEF Shape
  <2> HIDE DEF s
  <2>4. Has(s, s[x[2]]) /\ Has(s, s[y[2]])
    BY <2>2 DEF Has
  <2>5. s[x[2]] = s[y[2]]
    BY <2>1, <2>2, <2>3, <2>4, SeatOnce
  <2>6. Distinct(s)
    BY <2>2, <2>3, SeatsDistinct
  <2>7. x[2] = y[2]
    BY <2>2, <2>5, <2>6 DEF Distinct
  <2> QED
    BY <1>7, <2>1, <2>7
<1> QED
  BY <1>8, <1>9, <1>10

(* A search by name shows every booking of the registry that matches,      *)
(* once, whatever was added, moved and removed before                      *)
(* (flight_functions.c:164-196).                                           *)
THEOREM SearchIsComplete == Spec => []SearchComplete
<1>1. MemoryInv => SearchComplete
  <2> SUFFICES ASSUME MemoryInv, NEW q \in Queries
               PROVE  LET lines == find_passenger_by_name(m, q)
                      IN /\ IsInjective(lines)
                         /\ {<<<<line.position, line.seat>>, line.who>> : line \in Range(lines)}
                              = {<<b, Who(b)>> : b \in {b \in Bookings : PartOfName(q, Who(b).name)}}
    BY DEF SearchComplete
  <2>1. PICK L, G : Shape(m, L, G)
    BY InvShape
  <2> DEFINE t == find_passenger_by_name(m, q)
             H == NameHits(m, L, G, q)
             P == PlacesIn(L, G)
             who(x) == m.person[PassengerAt(L, G, x[1], x[2])].who
             book(x) == BookingAt(m, L, G, x[1], x[2])
             line(x) == NameLine(m, L, G, x[1], x[2])
             A == {<<<<l.position, l.seat>>, l.who>> : l \in Range(t)}
             B == {<<b, Who(b)>> : b \in {b \in Bookings : PartOfName(q, Who(b).name)}}
  <2>2. /\ Len(t) \in Nat /\ DOMAIN t = 1..Len(t)
        /\ \E at : /\ at \in [H -> 1..Len(t)]
                   /\ \A x \in H : t[at[x]] = line(x)
                   /\ \A x, y \in H : at[x] = at[y] => x = y
                   /\ \A k \in 1..Len(t) : \E x \in H : at[x] = k
    BY <2>1, NameSearchIs
  <2>3. \A x : x \in H <=> x \in P /\ PartOfName(q, who(x).name)
    BY DEF NameHits, PlacesIn, PassengerAt
  <2>4. \A x : <<line(x).position, line(x).seat>> = book(x) /\ line(x).who = who(x)
    BY DEF NameLine, BookingAt, PassengerAt
  <2>5. /\ \A x \in P : book(x) \in Bookings /\ Who(book(x)) = who(x)
        /\ \A b \in Bookings : \E x \in P : b = book(x)
        /\ \A x, y \in P : book(x) = book(y) => x = y
    BY <2>1, BookingsAre
  <2> HIDE DEF t, H, P, who, book, line
  <2>6. PICK at : /\ at \in [H -> 1..Len(t)]
                  /\ \A x \in H : t[at[x]] = line(x)
                  /\ \A x, y \in H : at[x] = at[y] => x = y
                  /\ \A k \in 1..Len(t) : \E x \in H : at[x] = k
    BY <2>2
  <2>7. ASSUME NEW a \in DOMAIN t, NEW b \in DOMAIN t, t[a] = t[b]
        PROVE  a = b
    <3>1. PICK x \in H : at[x] = a
      BY <2>2, <2>6
    <3>2. PICK y \in H : at[y] = b
      BY <2>2, <2>6
    <3>3. line(x) = line(y)
      BY <2>6, <2>7, <3>1, <3>2
    <3>4. book(x) = book(y)
      BY <2>4, <3>3
    <3>5. x = y
      BY <2>3, <2>5, <3>4
    <3> QED
      BY <3>1, <3>2, <3>5
  <2>8. \A l : l \in Range(t) <=> \E x \in H : l = line(x)
    <3>1. \A l : l \in Range(t) <=> \E k \in 1..Len(t) : l = t[k]
      BY <2>2 DEF Range
    <3>2. \A x \in H : at[x] \in 1..Len(t)
      BY <2>6
    <3> QED
      BY <2>6, <3>1, <3>2
  <2>9. \A e : e \in A <=> \E x \in H : e = <<book(x), who(x)>>
    <3>1. \A e : e \in A <=> \E l \in Range(t) : e = <<<<l.position, l.seat>>, l.who>>
      OBVIOUS
    <3> QED
      BY <2>4, <2>8, <3>1
  <2>10. \A e : e \in B <=> \E b \in Bookings : PartOfName(q, Who(b).name) /\ e = <<b, Who(b)>>
    OBVIOUS
  <2> HIDE DEF A, B
  <2>11. \A e : e \in A <=> e \in B
    <3>1. ASSUME NEW e \in A PROVE e \in B
      <4>1. PICK x \in H : e = <<book(x), who(x)>>
        BY <2>9
      <4>2. x \in P /\ PartOfName(q, who(x).name)
        BY <2>3
      <4> QED
        BY <2>5, <2>10, <4>1, <4>2
    <3>2. ASSUME NEW e \in B PROVE e \in A
      <4>1. PICK b \in Bookings : PartOfName(q, Who(b).name) /\ e = <<b, Who(b)>>
        BY <2>10
      <4>2. PICK x \in P : b = book(x)
        BY <2>5
      <4>3. Who(b) = who(x)
        BY <2>5, <4>2
      <4>4. x \in H
        BY <2>3, <4>1, <4>3
      <4> QED
        BY <2>9, <4>1, <4>2, <4>3, <4>4
    <3> QED
      BY <3>1, <3>2
  <2>12. A = B
    BY <2>11
  <2>13. IsInjective(t)
    BY <2>7 DEF IsInjective
  <2> QED
    BY <2>12, <2>13 DEF A, B, t
<1> QED
  BY <1>1, MemoryAlways, PTL

(* Two sets have the same size if f pairs their elements. *)
LEMMA SameSize ==
  ASSUME NEW S, NEW T, NEW f, f = [x \in S |-> f[x]], IsFiniteSet(S) \/ IsFiniteSet(T),
         \A x \in S : f[x] \in T, \A x, y \in S : f[x] = f[y] => x = y,
         \A z \in T : \E x \in S : f[x] = z
  PROVE  IsFiniteSet(S) /\ IsFiniteSet(T) /\ Cardinality(S) = Cardinality(T)
<1>1. f \in [S -> T]
  OBVIOUS
<1>2. f \in Bijection(S, T)
  BY <1>1, Fun_IsBij
<1>3. ExistsBijection(S, T)
  BY <1>2 DEF ExistsBijection
<1>4. ExistsBijection(T, S)
  BY <1>3, Fun_ExistsBijSymmetric
<1> QED
  BY <1>3, <1>4, FS_Bijection

SeatLine(h, L, G, i, j) == [who |-> h.person[PassengerAt(L, G, i, j)].who,
                            count |-> SeatsOf(h, h.person[PassengerAt(L, G, i, j)].who)]

LEMMA ManyLinesAre ==
  ASSUME NEW h, NEW L, NEW G, Shape(h, L, G), NEW i \in 1..Len(L)
  PROVE  /\ DOMAIN ManyLines(h, i) = 1..Len(G[L[i]])
         /\ \A j \in 1..Len(G[L[i]]) : ManyLines(h, i)[j] = SeatLine(h, L, G, i, j)
<1> DEFINE s == G[L[i]]
           t == [j \in DOMAIN s |-> SeatLine(h, L, G, i, j)]
<1>1. FlightsOf(h) = L /\ PassengersOf(h, L[i]) = s /\ DOMAIN s = 1..Len(s)
  BY ListsAre
<1>2. ManyLines(h, i) = t
  BY <1>1 DEF ManyLines, SeatLine, PassengerAt
<1> HIDE DEF s
<1>3. DOMAIN t = DOMAIN s /\ \A j \in DOMAIN s : t[j] = SeatLine(h, L, G, i, j)
  OBVIOUS
<1> QED
  BY <1>1, <1>2, <1>3 DEF s

LEMMA OnFlightIs ==
  ASSUME NEW h, NEW L, NEW G, Shape(h, L, G), NEW i \in 1..Len(L), NEW who
  PROVE  OnFlight(h, L[i], who) <=> \E j \in 1..Len(G[L[i]]) : h.person[PassengerAt(L, G, i, j)].who = who
<1> DEFINE s == G[L[i]]
<1>1. PassengersOf(h, L[i]) = s /\ DOMAIN s = 1..Len(s)
  BY ListsAre
<1>2. \A j : PassengerAt(L, G, i, j) = s[j]
  BY DEF PassengerAt
<1> HIDE DEF s
<1>3. OnFlight(h, L[i], who) <=> \E p \in Range(s) : h.person[p].who = who
  BY <1>1 DEF OnFlight
<1> QED
  BY <1>1, <1>2, <1>3 DEF Range, s

(* Whose name is on none of the earlier flights, and on more than one seat. *)
ManyHits(h, L, G) ==
  {x \in PlacesIn(L, G) :
     LET who == h.person[PassengerAt(L, G, x[1], x[2])].who
     IN /\ \A y \in PlacesIn(L, G) : y[1] < x[1] => h.person[PassengerAt(L, G, y[1], y[2])].who # who
        /\ SeatsOf(h, who) > 1}

LEMMA ManySearchIs ==
  ASSUME NEW h, NEW L, NEW G, Shape(h, L, G)
  PROVE  LET t == find_passengers_on_multiple_flights(h)
             H == ManyHits(h, L, G)
         IN /\ Len(t) \in Nat /\ DOMAIN t = 1..Len(t)
            /\ \E at : /\ at \in [H -> 1..Len(t)]
                       /\ \A x \in H : t[at[x]] = SeatLine(h, L, G, x[1], x[2])
                       /\ \A x, y \in H : at[x] = at[y] => x = y
                       /\ \A k \in 1..Len(t) : \E x \in H : at[x] = k
<1> DEFINE t == find_passengers_on_multiple_flights(h)
           n == Len(L)
           Name(i, j) == h.person[PassengerAt(L, G, i, j)].who
           Earlier(i, who) == \E g \in 1..(i - 1) : OnFlight(h, L[g], who)
           raw(i) == {j \in DOMAIN ManyLines(h, i) :
                        /\ \A g \in 1..(i - 1) : ~OnFlight(h, L[g], ManyLines(h, i)[j].who)
                        /\ ManyLines(h, i)[j].count > 1}
           pages == [i \in 1..n |-> ManyLines(h, i)]
           size == [i \in 1..n |-> Len(G[L[i]])]
           hits == [i \in 1..n |-> {j \in 1..Len(G[L[i]]) : ~Earlier(i, Name(i, j)) /\ SeatsOf(h, Name(i, j)) > 1}]
           S == UNION {{pages[i][j] : j \in 1..size[i]} : i \in 1..n}
           P == HitsOf(hits, n)
           H == ManyHits(h, L, G)
<1>1. FlightsOf(h) = L /\ DOMAIN L = 1..n /\ n \in Nat
  BY ListsAre
<1>2. \A i \in 1..n : Len(G[L[i]]) \in Nat
  BY ListsAre
<1>3. \A i \in 1..n : /\ DOMAIN ManyLines(h, i) = 1..Len(G[L[i]])
                      /\ \A j \in 1..Len(G[L[i]]) : ManyLines(h, i)[j] = SeatLine(h, L, G, i, j)
  BY ManyLinesAre
<1>4. \A i \in 1..n : raw(i) = hits[i]
  <2> SUFFICES ASSUME NEW i \in 1..n PROVE raw(i) = hits[i]
    OBVIOUS
  <2>1. \A j \in 1..Len(G[L[i]]) : /\ ManyLines(h, i)[j].who = Name(i, j)
                                   /\ ManyLines(h, i)[j].count = SeatsOf(h, Name(i, j))
    <3>1. \A j : SeatLine(h, L, G, i, j).who = Name(i, j) /\ SeatLine(h, L, G, i, j).count = SeatsOf(h, Name(i, j))
      BY DEF SeatLine
    <3> HIDE DEF Name
    <3> QED
      BY <1>3, <3>1
  <2>2. hits[i] = {j \in 1..Len(G[L[i]]) : ~Earlier(i, Name(i, j)) /\ SeatsOf(h, Name(i, j)) > 1}
    OBVIOUS
  <2> HIDE DEF hits, Name
  <2>3. \A j : j \in raw(i) <=> j \in hits[i]
    BY <1>3, <2>1, <2>2
  <2> HIDE DEF raw
  <2> QED
    BY <2>2, <2>3
<1>5. t = FlattenSeq([i \in 1..n |-> Printed(pages[i], hits[i])])
  <2>1. t = FlattenSeq([i \in 1..n |-> Printed(ManyLines(h, i), raw(i))])
    BY <1>1 DEF find_passengers_on_multiple_flights
  <2>2. \A i \in 1..n : pages[i] = ManyLines(h, i)
    OBVIOUS
  <2> HIDE DEF pages, hits, t, raw
  <2>3. [i \in 1..n |-> Printed(ManyLines(h, i), raw(i))] = [i \in 1..n |-> Printed(pages[i], hits[i])]
    BY <1>4, <2>2
  <2> QED
    BY <2>1, <2>3
<1>6. \A i \in 1..n : /\ pages[i] = ManyLines(h, i) /\ size[i] = Len(G[L[i]])
                      /\ hits[i] = {j \in 1..Len(G[L[i]]) : ~Earlier(i, Name(i, j)) /\ SeatsOf(h, Name(i, j)) > 1}
  OBVIOUS
<1>7. \A i \in 1..n : \A j \in 1..size[i] : pages[i][j] \in S
  OBVIOUS
<1> HIDE DEF pages, size, hits, S, t, raw
<1>8. \A i \in 1..n : /\ size[i] \in Nat /\ DOMAIN pages[i] = 1..size[i]
                      /\ hits[i] \in SUBSET (1..size[i])
                      /\ \A j \in 1..size[i] : pages[i][j] \in S
  <2> HIDE DEF Earlier, Name
  <2> QED
    BY <1>2, <1>3, <1>6, <1>7
<1>9. t \in Seq(S) /\ \E at : Spread(t, pages, HitsOf(hits, n), at)
  <2> HIDE DEF n
  <2> QED
    BY ONLY <1>1, <1>5, <1>8, ReportIs
<1>10. \A x : x \in PlacesIn(L, G) <=> x \in Nat \X Nat /\ x[1] \in 1..n /\ x[2] \in 1..Len(G[L[x[1]]])
  BY DEF PlacesIn
<1>11. ASSUME NEW i \in 1..n, NEW who
       PROVE  Earlier(i, who) <=> \E y \in PlacesIn(L, G) : y[1] < i /\ Name(y[1], y[2]) = who
  <2>1. ASSUME NEW g \in 1..(i - 1), OnFlight(h, L[g], who)
        PROVE  \E y \in PlacesIn(L, G) : y[1] < i /\ Name(y[1], y[2]) = who
    <3>1. g \in 1..n /\ g < i /\ g \in Nat
      BY <1>1
    <3> HIDE DEF Earlier
    <3>1a. OnFlight(h, L[g], who) <=> \E j \in 1..Len(G[L[g]]) : Name(g, j) = who
      BY <3>1, OnFlightIs
    <3>2. PICK j \in 1..Len(G[L[g]]) : Name(g, j) = who
      BY <2>1, <3>1a
    <3> DEFINE y == <<g, j>>
    <3>3. y[1] = g /\ y[2] = j
      OBVIOUS
    <3>4. y \in PlacesIn(L, G)
      BY <1>2, <1>10, <3>1
    <3> HIDE DEF y, Name
    <3> QED
      BY <3>1, <3>2, <3>3, <3>4
  <2>2. ASSUME NEW y \in PlacesIn(L, G), y[1] < i, Name(y[1], y[2]) = who
        PROVE  \E g \in 1..(i - 1) : OnFlight(h, L[g], who)
    <3>1. y[1] \in 1..n /\ y[1] \in 1..(i - 1) /\ y[2] \in 1..Len(G[L[y[1]]])
      BY <1>1, <1>10, <2>2
    <3>2. OnFlight(h, L[y[1]], who)
      BY <2>2, <3>1, OnFlightIs
    <3> QED
      BY <3>1, <3>2
  <2> QED
    BY <2>1, <2>2
<1>12. \A x : x \in P <=> x \in H
  <2>1. \A x : x \in P <=> x \in Nat \X Nat /\ x[1] \in 1..n /\ x[2] \in hits[x[1]]
    BY DEF HitsOf
  <2>2. \A x : x \in H <=> /\ x \in PlacesIn(L, G)
                           /\ \A y \in PlacesIn(L, G) : y[1] < x[1] => Name(y[1], y[2]) # Name(x[1], x[2])
                           /\ SeatsOf(h, Name(x[1], x[2])) > 1
    BY DEF ManyHits
  <2> HIDE DEF P, H, n, Name, Earlier
  <2>3. ASSUME NEW i \in 1..n, NEW j
        PROVE  j \in hits[i] <=> j \in 1..Len(G[L[i]]) /\ ~Earlier(i, Name(i, j)) /\ SeatsOf(h, Name(i, j)) > 1
    BY <1>6
  <2>4. ASSUME NEW i \in 1..n, NEW j
        PROVE  ~Earlier(i, Name(i, j)) <=> \A y \in PlacesIn(L, G) : y[1] < i => Name(y[1], y[2]) # Name(i, j)
    BY <1>11
  <2> QED
    BY <1>10, <2>1, <2>2, <2>3, <2>4
<1>13. P = H
  <2> HIDE DEF P, H
  <2> QED
    BY <1>12
<1>14. PICK at : Spread(t, pages, H, at)
  BY <1>9, <1>13
<1>15. Len(t) \in Nat /\ DOMAIN t = 1..Len(t)
  BY <1>9, LenProperties
<1>16. ASSUME NEW x \in H
       PROVE  pages[x[1]][x[2]] = SeatLine(h, L, G, x[1], x[2])
  <2>1. x \in PlacesIn(L, G)
    BY DEF ManyHits
  <2> HIDE DEF H
  <2> QED
    BY <1>3, <1>6, <1>10, <2>1
<1> HIDE DEF H
<1>17. /\ at \in [H -> 1..Len(t)]
       /\ \A x \in H : t[at[x]] = SeatLine(h, L, G, x[1], x[2])
       /\ \A x, y \in H : at[x] = at[y] => x = y
       /\ \A k \in 1..Len(t) : \E x \in H : at[x] = k
  BY <1>14, <1>16 DEF Spread
<1> QED
  BY <1>15, <1>17 DEF t, H

(* The places that carry a name. *)
PlacesOf(h, L, G, who) == {x \in PlacesIn(L, G) : h.person[PassengerAt(L, G, x[1], x[2])].who = who}

LEMMA PlacesFacts ==
  ASSUME NEW h, NEW L, NEW G, Shape(h, L, G)
  PROVE  /\ \A x \in PlacesIn(L, G) : /\ x[1] \in 1..Len(L) /\ x[2] \in 1..Len(G[L[x[1]]]) /\ x = <<x[1], x[2]>>
                                      /\ PassengerAt(L, G, x[1], x[2]) \in PassengerAddr
         /\ \A i \in 1..Len(L) : \A j \in 1..Len(G[L[i]]) : <<i, j>> \in PlacesIn(L, G)
         /\ \A x, y \in PlacesIn(L, G) : PassengerAt(L, G, x[1], x[2]) = PassengerAt(L, G, y[1], y[2]) => x = y
<1>1. /\ Len(L) \in Nat
      /\ \A i \in 1..Len(L) : /\ L[i] \in FlightAddr /\ Len(G[L[i]]) \in Nat
                              /\ \A j \in 1..Len(G[L[i]]) : G[L[i]][j] \in PassengerAddr
  BY ListsAre
<1>2. \A x \in PlacesIn(L, G) : /\ x[1] \in 1..Len(L) /\ x[2] \in 1..Len(G[L[x[1]]]) /\ x = <<x[1], x[2]>>
                                /\ PassengerAt(L, G, x[1], x[2]) \in PassengerAddr
  BY <1>1 DEF PlacesIn, PassengerAt
<1>3. \A i \in 1..Len(L) : \A j \in 1..Len(G[L[i]]) : <<i, j>> \in PlacesIn(L, G)
  BY <1>1 DEF PlacesIn
<1>4. ASSUME NEW x \in PlacesIn(L, G), NEW y \in PlacesIn(L, G),
             PassengerAt(L, G, x[1], x[2]) = PassengerAt(L, G, y[1], y[2])
      PROVE  x = y
  <2> DEFINE f == L[x[1]]
             g == L[y[1]]
             p == G[f][x[2]]
  <2>1. f \in FlightAddr /\ g \in FlightAddr /\ p \in PassengerAddr
    BY <1>1, <1>2
  <2>2. p = G[g][y[2]]
    BY <1>4 DEF PassengerAt
  <2>3. Has(G[f], p) /\ Has(G[g], p)
    BY <1>2, <2>2 DEF Has
  <2>4. SeatLists(h, G, {}) /\ FlightList(h, L) /\ h \in Heap
    BY DEF Shape
  <2>5. f = g
    <3> HIDE DEF f, g, p
    <3> QED
      BY <2>1, <2>3, <2>4 DEF SeatLists
  <2>6. x[1] = y[1]
    BY <1>2, <2>4, <2>5 DEF FlightList, Distinct
  <2>7. G[f] \in Seq(PassengerAddr) /\ SeatList(h, f, G[f])
    BY <2>1, SeatBooked
  <2>8. Distinct(G[f])
    BY <2>1, <2>4, <2>7, SeatsDistinct
  <2>9. x[2] = y[2]
    BY <1>2, <2>2, <2>6, <2>8 DEF Distinct
  <2> QED
    BY <1>2, <2>6, <2>9
<1> QED
  BY <1>2, <1>3, <1>4

LEMMA SeatsOfIs ==
  ASSUME NEW h, NEW L, NEW G, Shape(h, L, G), NEW who
  PROVE  IsFiniteSet(PlacesOf(h, L, G, who)) /\ SeatsOf(h, who) = Cardinality(PlacesOf(h, L, G, who))
<1> DEFINE Z == {p \in UNION {Range(PassengersOf(h, f)) : f \in Range(FlightsOf(h))} : h.person[p].who = who}
           P == PlacesIn(L, G)
           X == PlacesOf(h, L, G, who)
           node == [x \in X |-> PassengerAt(L, G, x[1], x[2])]
<1>1. FlightsOf(h) = L /\ DOMAIN L = 1..Len(L)
  BY ListsAre
<1>2. \A i \in 1..Len(L) : /\ PassengersOf(h, L[i]) = G[L[i]]
                           /\ DOMAIN G[L[i]] = 1..Len(G[L[i]])
  BY ListsAre
<1>3. /\ \A x \in P : /\ x[1] \in 1..Len(L) /\ x[2] \in 1..Len(G[L[x[1]]]) /\ x = <<x[1], x[2]>>
                      /\ PassengerAt(L, G, x[1], x[2]) \in PassengerAddr
      /\ \A i \in 1..Len(L) : \A j \in 1..Len(G[L[i]]) : <<i, j>> \in P
      /\ \A x, y \in P : PassengerAt(L, G, x[1], x[2]) = PassengerAt(L, G, y[1], y[2]) => x = y
  BY PlacesFacts
<1>4. \A p : p \in Z <=> \E i \in 1..Len(L) : \E j \in 1..Len(G[L[i]]) : p = G[L[i]][j] /\ h.person[p].who = who
  <2>1. \A p : p \in Z <=> \E f \in Range(L) : p \in Range(PassengersOf(h, f)) /\ h.person[p].who = who
    BY <1>1
  <2>2. \A f : f \in Range(L) <=> \E i \in 1..Len(L) : f = L[i]
    BY <1>1 DEF Range
  <2>3. \A i \in 1..Len(L) : \A p : p \in Range(PassengersOf(h, L[i])) <=> \E j \in 1..Len(G[L[i]]) : p = G[L[i]][j]
    BY <1>2 DEF Range
  <2> HIDE DEF Z
  <2>4. ASSUME NEW p \in Z
        PROVE  \E i \in 1..Len(L) : \E j \in 1..Len(G[L[i]]) : p = G[L[i]][j] /\ h.person[p].who = who
    <3>1. PICK f \in Range(L) : p \in Range(PassengersOf(h, f)) /\ h.person[p].who = who
      BY <2>1
    <3>2. PICK i \in 1..Len(L) : f = L[i]
      BY <2>2
    <3>3. p \in Range(PassengersOf(h, L[i]))
      BY <3>1, <3>2
    <3>4. PICK j \in 1..Len(G[L[i]]) : p = G[L[i]][j]
      BY <2>3, <3>3
    <3> QED
      BY <3>1, <3>4
  <2>5. ASSUME NEW i \in 1..Len(L), NEW j \in 1..Len(G[L[i]]), h.person[G[L[i]][j]].who = who
        PROVE  G[L[i]][j] \in Z
    BY <2>1, <2>2, <2>3, <2>5
  <2> QED
    BY <2>4, <2>5
<1>5. \A x : x \in X <=> x \in P /\ h.person[PassengerAt(L, G, x[1], x[2])].who = who
  BY DEF PlacesOf
<1>6. node = [x \in X |-> node[x]] /\ \A x \in X : node[x] = PassengerAt(L, G, x[1], x[2])
  OBVIOUS
<1>7. SeatsOf(h, who) = Cardinality(Z)
  BY DEF SeatsOf
<1>8. \A i, j : PassengerAt(L, G, i, j) = G[L[i]][j]
  BY DEF PassengerAt
<1>9. \A i, j : <<i, j>>[1] = i /\ <<i, j>>[2] = j
  OBVIOUS
<1> HIDE DEF Z, P, X, node
<1>10. ASSUME NEW z \in Z
       PROVE  \E x \in X : node[x] = z
  <2>1. PICK i \in 1..Len(L) : \E j \in 1..Len(G[L[i]]) : z = G[L[i]][j] /\ h.person[z].who = who
    BY <1>4
  <2>2. PICK j \in 1..Len(G[L[i]]) : z = G[L[i]][j] /\ h.person[z].who = who
    BY <2>1
  <2>3. <<i, j>> \in X
    BY <1>3, <1>5, <1>8, <1>9, <2>2
  <2>4. node[<<i, j>>] = z
    BY <1>6, <1>8, <1>9, <2>2, <2>3
  <2> QED
    BY <2>3, <2>4
<1>11. ASSUME NEW x \in X
       PROVE  node[x] \in Z
  <2>1. x[1] \in 1..Len(L) /\ x[2] \in 1..Len(G[L[x[1]]])
    BY <1>3, <1>5
  <2>2. node[x] = G[L[x[1]]][x[2]] /\ h.person[node[x]].who = who
    BY <1>5, <1>6, <1>8
  <2> QED
    BY <1>4, <2>1, <2>2
<1>12. \A x, y \in X : node[x] = node[y] => x = y
  BY <1>3, <1>5, <1>6
<1>13. IsFiniteSet(Z)
  <2>1. Z \in SUBSET PassengerAddr
    <3>1. \A p \in Z : \E x \in X : node[x] = p
      BY <1>10
    <3>2. \A x \in X : node[x] \in PassengerAddr
      BY <1>3, <1>5, <1>6
    <3> QED
      BY <3>1, <3>2
  <2>2. IsFiniteSet(PassengerAddr)
    BY Addresses, Numbers
  <2> QED
    BY <2>1, <2>2, FS_Subset
<1>14. IsFiniteSet(X) /\ Cardinality(X) = Cardinality(Z)
  <2>1. node = [x \in X |-> node[x]]
    BY <1>6
  <2>2. IsFiniteSet(X) \/ IsFiniteSet(Z)
    BY <1>13
  <2>3. \A x \in X : node[x] \in Z
    BY <1>11
  <2>4. \A z \in Z : \E x \in X : node[x] = z
    BY <1>10
  <2> QED
    BY ONLY <1>12, <2>1, <2>2, <2>3, <2>4, SameSize
<1> QED
  BY <1>7, <1>14 DEF X

(* Who is booked where, those of a set of bookings on its first flight,    *)
(* and the lines that choice 8 prints about a person.                      *)
BookingsOf(who) == {b \in Bookings : Who(b) = who}
FirstOf(B) == {b \in B : \A c \in B : b[1] <= c[1]}
LinesAbout(who) == LET lines == find_passengers_on_multiple_flights(m)
                   IN {k \in DOMAIN lines : lines[k].who = who}

(* Who has two seats is shown, once for each seat on the first flight, with *)
(* the number of the seats (flight_functions.c:225-272).                   *)
LEMMA SeatsAreShown ==
  ASSUME MemoryInv, NEW who \in KnownPeople
  PROVE  LET lines == find_passengers_on_multiple_flights(m)
             mine  == BookingsOf(who)
         IN /\ IsFiniteSet(mine) /\ \A b \in mine : b[1] \in Nat
            /\ Cardinality(LinesAbout(who)) = IF Cardinality(mine) > 1 THEN Cardinality(FirstOf(mine)) ELSE 0
            /\ \A k \in LinesAbout(who) : lines[k].count = Cardinality(mine)
<1>1. PICK L, G : Shape(m, L, G)
  BY InvShape
<1> DEFINE t == find_passengers_on_multiple_flights(m)
           mine  == {b \in Bookings : Who(b) = who}
           first == {b \in mine : \A c \in mine : b[1] <= c[1]}
           about == {k \in DOMAIN t : t[k].who = who}
           H == ManyHits(m, L, G)
           P == PlacesIn(L, G)
           X == PlacesOf(m, L, G, who)
           name(x) == m.person[PassengerAt(L, G, x[1], x[2])].who
           book(x) == BookingAt(m, L, G, x[1], x[2])
           line(x) == SeatLine(m, L, G, x[1], x[2])
           Y == {x \in X : \A y \in X : x[1] <= y[1]}
           places == [x \in X |-> book(x)]
           early == [x \in Y |-> book(x)]
<1>2. /\ Len(t) \in Nat /\ DOMAIN t = 1..Len(t)
      /\ \E at : /\ at \in [H -> 1..Len(t)]
                 /\ \A x \in H : t[at[x]] = line(x)
                 /\ \A x, y \in H : at[x] = at[y] => x = y
                 /\ \A k \in 1..Len(t) : \E x \in H : at[x] = k
  BY <1>1, ManySearchIs
<1>3. \A x : line(x).who = name(x) /\ line(x).count = SeatsOf(m, name(x))
  BY DEF SeatLine
<1>4. \A x : x \in H <=> /\ x \in P /\ \A y \in P : y[1] < x[1] => name(y) # name(x)
                         /\ SeatsOf(m, name(x)) > 1
  BY DEF ManyHits
<1>5. \A x : x \in X <=> x \in P /\ name(x) = who
  BY DEF PlacesOf
<1>6. /\ \A x \in P : book(x) \in Bookings /\ Who(book(x)) = name(x)
      /\ \A b \in Bookings : \E x \in P : b = book(x)
      /\ \A x, y \in P : book(x) = book(y) => x = y
  BY <1>1, BookingsAre
<1>7. IsFiniteSet(X) /\ SeatsOf(m, who) = Cardinality(X)
  BY <1>1, SeatsOfIs
<1>8. \A x \in P : x[1] \in Int
  BY DEF PlacesIn
<1>9. \A x : book(x)[1] = x[1]
  BY DEF BookingAt
<1>10. \A b : b \in mine <=> b \in Bookings /\ Who(b) = who
  OBVIOUS
<1>11. \A b : b \in first <=> b \in mine /\ \A c \in mine : b[1] <= c[1]
  OBVIOUS
<1>12. \A k : k \in about <=> k \in DOMAIN t /\ t[k].who = who
  OBVIOUS
<1>13. \A x : x \in Y <=> x \in X /\ \A y \in X : x[1] <= y[1]
  OBVIOUS
<1>14. /\ places = [x \in X |-> places[x]] /\ \A x \in X : places[x] = book(x)
       /\ early = [x \in Y |-> early[x]] /\ \A x \in Y : early[x] = book(x)
  OBVIOUS
<1> HIDE DEF t, mine, first, about, H, P, X, name, book, line, Y, places, early
<1>15. IsFiniteSet(mine) /\ Cardinality(mine) = Cardinality(X)
  <2>1. \A x \in X : places[x] \in mine
    BY <1>5, <1>6, <1>10, <1>14
  <2>2. \A x, y \in X : places[x] = places[y] => x = y
    BY <1>5, <1>6, <1>14
  <2>3. ASSUME NEW b \in mine PROVE \E x \in X : places[x] = b
    <3>1. PICK x \in P : b = book(x)
      BY <1>6, <1>10
    <3>2. x \in X
      BY <1>5, <1>6, <1>10, <3>1
    <3> QED
      BY <1>14, <3>1, <3>2
  <2>4. \A b \in mine : \E x \in X : places[x] = b
    BY <2>3
  <2>5. places = [x \in X |-> places[x]] /\ (IsFiniteSet(X) \/ IsFiniteSet(mine))
    BY <1>7, <1>14
  <2> QED
    BY ONLY <2>1, <2>2, <2>4, <2>5, SameSize
<1>16. IsFiniteSet(Y) /\ Cardinality(Y) = Cardinality(first)
  <2>1. \A x \in Y : early[x] \in first
    <3> SUFFICES ASSUME NEW x \in Y PROVE book(x) \in first
      BY <1>14
    <3>1. x \in X /\ book(x) \in mine /\ book(x)[1] = x[1]
      BY <1>5, <1>6, <1>9, <1>10, <1>13
    <3>2. ASSUME NEW c \in mine PROVE book(x)[1] <= c[1]
      <4>1. PICK y \in P : c = book(y)
        BY <1>6, <1>10
      <4>2. y \in X /\ c[1] = y[1]
        BY <1>5, <1>6, <1>9, <1>10, <4>1
      <4> QED
        BY <1>13, <3>1, <4>2
    <3> QED
      BY <1>11, <3>1, <3>2
  <2>2. \A x, y \in Y : early[x] = early[y] => x = y
    BY <1>5, <1>6, <1>13, <1>14
  <2>3. ASSUME NEW b \in first PROVE \E x \in Y : early[x] = b
    <3>1. PICK x \in P : b = book(x)
      BY <1>6, <1>10, <1>11
    <3>2. x \in X
      BY <1>5, <1>6, <1>10, <1>11, <3>1
    <3>3. ASSUME NEW y \in X PROVE x[1] <= y[1]
      <4>1. book(y) \in mine
        BY <1>5, <1>6, <1>10
      <4> QED
        BY <1>9, <1>11, <3>1, <4>1
    <3>4. x \in Y
      BY <1>13, <3>2, <3>3
    <3> QED
      BY <1>14, <3>1, <3>4
  <2>4. \A b \in first : \E x \in Y : early[x] = b
    BY <2>3
  <2>5. early = [x \in Y |-> early[x]]
    BY <1>14
  <2>6. IsFiniteSet(Y)
    <3>1. Y \in SUBSET X
      BY <1>13
    <3> QED
      BY <1>7, <3>1, FS_Subset
  <2> QED
    BY ONLY <2>1, <2>2, <2>4, <2>5, <2>6, SameSize
<1>17. PICK at : /\ at \in [H -> 1..Len(t)]
                 /\ \A x \in H : t[at[x]] = line(x)
                 /\ \A x, y \in H : at[x] = at[y] => x = y
                 /\ \A k \in 1..Len(t) : \E x \in H : at[x] = k
  BY <1>2
<1>18. ASSUME NEW k \in about
       PROVE  \E x \in H : at[x] = k /\ name(x) = who /\ t[k] = line(x)
  <2>1. PICK x \in H : at[x] = k
    BY <1>2, <1>12, <1>17
  <2>2. t[k] = line(x)
    BY <1>17, <2>1
  <2> QED
    BY <1>3, <1>12, <2>1, <2>2
<1>19. ASSUME NEW k \in about
       PROVE  t[k].count = Cardinality(mine) /\ Cardinality(mine) > 1
  <2>1. PICK x \in H : at[x] = k /\ name(x) = who /\ t[k] = line(x)
    BY <1>18
  <2>2. t[k].count = SeatsOf(m, who) /\ SeatsOf(m, who) > 1
    BY <1>3, <1>4, <2>1
  <2> QED
    BY <1>7, <1>15, <2>2
<1>20. \A x : x \in Y /\ Cardinality(mine) > 1 <=> x \in H /\ name(x) = who
  <2>1. ASSUME NEW x \in Y, Cardinality(mine) > 1
        PROVE  x \in H /\ name(x) = who
    <3>1. x \in P /\ name(x) = who
      BY <1>5, <1>13
    <3>2. ASSUME NEW y \in P, y[1] < x[1] PROVE name(y) # name(x)
      <4> SUFFICES ASSUME name(y) = name(x) PROVE FALSE
        OBVIOUS
      <4>1. y \in X
        BY <1>5, <3>1
      <4>2. x[1] <= y[1] /\ x[1] \in Int /\ y[1] \in Int
        BY <1>8, <1>13, <3>1, <4>1
      <4> QED
        BY <3>2, <4>2
    <3>3. SeatsOf(m, name(x)) > 1
      BY <1>7, <1>15, <2>1, <3>1
    <3> QED
      BY <1>4, <3>1, <3>2, <3>3
  <2>2. ASSUME NEW x \in H, name(x) = who
        PROVE  x \in Y /\ Cardinality(mine) > 1
    <3>1. x \in P /\ x \in X
      BY <1>4, <1>5, <2>2
    <3>2. ASSUME NEW y \in X PROVE x[1] <= y[1]
      <4>1. y \in P /\ ~(y[1] < x[1])
        BY <1>4, <1>5, <2>2
      <4>2. x[1] \in Int /\ y[1] \in Int
        BY <1>8, <3>1, <4>1
      <4> QED
        BY <4>1, <4>2
    <3>3. SeatsOf(m, who) > 1
      BY <1>4, <2>2
    <3> QED
      BY <1>7, <1>13, <1>15, <3>1, <3>2, <3>3
  <2> QED
    BY <2>1, <2>2
<1>21. ASSUME Cardinality(mine) > 1
       PROVE  Cardinality(about) = Cardinality(first)
  <2> DEFINE shown == [x \in Y |-> at[x]]
  <2>1. shown = [x \in Y |-> shown[x]] /\ \A x \in Y : shown[x] = at[x]
    OBVIOUS
  <2> HIDE DEF shown
  <2>2. \A x \in Y : x \in H /\ name(x) = who
    BY <1>20, <1>21
  <2>3. \A x \in Y : shown[x] \in about
    <3> SUFFICES ASSUME NEW x \in Y PROVE at[x] \in about
      BY <2>1
    <3>1. at[x] \in 1..Len(t) /\ t[at[x]] = line(x)
      BY <1>17, <2>2
    <3> QED
      BY <1>2, <1>3, <1>12, <2>2, <3>1
  <2>4. \A x, y \in Y : shown[x] = shown[y] => x = y
    BY <1>17, <2>1, <2>2
  <2>5. \A k \in about : \E x \in Y : shown[x] = k
    BY <1>18, <1>20, <2>1
  <2>6. IsFiniteSet(Y) \/ IsFiniteSet(about)
    BY <1>16
  <2>7. Cardinality(Y) = Cardinality(about)
    <3>1. shown = [x \in Y |-> shown[x]]
      BY <2>1
    <3> QED
      BY ONLY <2>3, <2>4, <2>5, <2>6, <3>1, SameSize
  <2> QED
    BY <1>16, <2>7
<1>22. ASSUME ~(Cardinality(mine) > 1)
       PROVE  Cardinality(about) = 0
  <2>1. about = {}
    BY <1>19, <1>22
  <2>2. Cardinality(about) = 0
    BY <2>1, FS_EmptySet
  <2> QED
    BY <2>2
<1>23. \A b \in mine : b[1] \in Nat
  <2>1. \A b \in mine : \E x \in P : b = book(x)
    BY <1>6, <1>10
  <2>2. \A x \in P : x[1] \in Nat
    BY DEF P, PlacesIn
  <2> QED
    BY <1>9, <2>1, <2>2
<1>24. mine = BookingsOf(who) /\ first = FirstOf(mine) /\ about = LinesAbout(who)
  BY DEF BookingsOf, FirstOf, LinesAbout, mine, first, about, t
<1> QED
  BY <1>15, <1>19, <1>21, <1>22, <1>23, <1>24 DEF t

(* Who is booked on two flights, by name and age, is shown; who has at     *)
(* most one seat on a flight is shown exactly if there are two flights,    *)
(* once, and with their number (flight_functions.c:204-272).               *)
THEOREM ManyAreShown == Spec => []MultipleShown
<1>1. MemoryInv => MultipleShown
  <2> SUFFICES ASSUME MemoryInv, NEW who \in KnownPeople
               PROVE  LET lines   == find_passengers_on_multiple_flights(m)
                          mine    == {b \in Bookings : Who(b) = who}
                          flights == {b[1] : b \in mine}
                          about   == {k \in DOMAIN lines : lines[k].who = who}
                      IN /\ Cardinality(flights) > 1 => about # {}
                         /\ Cardinality(mine) = Cardinality(flights) =>
                              /\ Cardinality(about) = IF Cardinality(flights) > 1 THEN 1 ELSE 0
                              /\ \A k \in about : lines[k].count = Cardinality(flights)
    BY DEF MultipleShown
  <2> DEFINE t == find_passengers_on_multiple_flights(m)
             mine == BookingsOf(who)
             first == FirstOf(mine)
             flights == {b[1] : b \in mine}
             about == LinesAbout(who)
             flight == [b \in mine |-> b[1]]
  <2>1. /\ IsFiniteSet(mine) /\ \A b \in mine : b[1] \in Nat
        /\ Cardinality(about) = IF Cardinality(mine) > 1 THEN Cardinality(first) ELSE 0
        /\ \A k \in about : t[k].count = Cardinality(mine)
    BY SeatsAreShown
  <2>2. \A b : b \in first <=> b \in mine /\ \A c \in mine : b[1] <= c[1]
    BY DEF FirstOf
  <2>3. \A n : n \in flights <=> \E b \in mine : n = b[1]
    OBVIOUS
  <2>4. flight \in [mine -> flights] /\ \A b \in mine : flight[b] = b[1]
    OBVIOUS
  <2>5. mine = {b \in Bookings : Who(b) = who} /\ about = {k \in DOMAIN t : t[k].who = who}
    BY DEF BookingsOf, LinesAbout
  <2> HIDE DEF t, mine, first, flights, about, flight
  <2>6. flight \in Surjection(mine, flights)
    <3>1. \A n \in flights : \E b \in mine : flight[b] = n
      BY <2>3, <2>4
    <3> QED
      BY <2>4, <3>1, Fun_IsSurj
  <2>7. /\ IsFiniteSet(flights) /\ Cardinality(flights) <= Cardinality(mine)
        /\ Cardinality(flights) = Cardinality(mine) => flight \in Injection(mine, flights)
    BY <2>1, <2>6, FS_Surjection
  <2>8. Cardinality(mine) \in Nat /\ Cardinality(flights) \in Nat
    BY <2>1, <2>7, FS_CardinalityType
  <2>9. ASSUME Cardinality(mine) > 1
        PROVE  first # {}
    <3>1. mine # {}
      BY <2>8, <2>9, FS_EmptySet
    <3>2. flights \subseteq Nat /\ flights # {}
      BY <2>1, <2>3, <3>1
    <3>3. Min(flights) \in flights /\ \A n \in flights : Min(flights) <= n
      BY <3>2, MinIs
    <3>4. PICK b \in mine : b[1] = Min(flights)
      BY <2>3, <3>3
    <3>5. \A c \in mine : b[1] <= c[1]
      BY <2>3, <3>3, <3>4
    <3> QED
      BY <2>2, <3>4, <3>5
  <2>10. first \subseteq mine /\ IsFiniteSet(first)
    <3>1. first \in SUBSET mine
      BY <2>2
    <3> QED
      BY <2>1, <3>1, FS_Subset
  <2>11. ASSUME Cardinality(flights) > 1
         PROVE  about # {}
    <3>1. Cardinality(mine) > 1
      BY <2>7, <2>8, <2>11
    <3>2. Cardinality(first) # 0
      BY <2>9, <2>10, <3>1, FS_EmptySet
    <3>3. Cardinality(about) # 0
      BY <2>1, <3>1, <3>2
    <3> QED
      BY <3>3, FS_EmptySet
  <2>12. ASSUME Cardinality(mine) = Cardinality(flights)
         PROVE  /\ Cardinality(about) = IF Cardinality(flights) > 1 THEN 1 ELSE 0
                /\ \A k \in about : t[k].count = Cardinality(flights)
    <3>1. ASSUME NEW b \in first, NEW c \in first
          PROVE  b = c
      <4>1. b \in mine /\ c \in mine /\ b[1] <= c[1] /\ c[1] <= b[1]
        BY <2>2
      <4>2. b[1] = c[1]
        BY <2>1, <4>1
      <4>3. flight[b] = flight[c]
        BY <2>4, <4>1, <4>2
      <4>4. \A x, y \in mine : flight[x] = flight[y] => x = y
        BY <2>7, <2>12 DEF Injection, IsInjective
      <4> QED
        BY <4>1, <4>3, <4>4
    <3>2. CASE Cardinality(mine) > 1
      <4>1. PICK b : b \in first
        BY <2>9, <3>2
      <4>2. first = {b}
        BY <3>1, <4>1
      <4>3. Cardinality(first) = 1
        BY <4>2, FS_Singleton
      <4> QED
        BY <2>1, <2>12, <3>2, <4>3
    <3>3. CASE ~(Cardinality(mine) > 1)
      BY <2>1, <2>12, <3>3
    <3> QED
      BY <3>2, <3>3
  <2> QED
    BY <2>5, <2>11, <2>12 DEF flights, t
<1> QED
  BY <1>1, MemoryAlways, PTL
=============================================================================
