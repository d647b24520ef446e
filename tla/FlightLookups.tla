--------------------------- MODULE FlightLookups ---------------------------
(***************************************************************************)
(* Task 3: what the menu shows.  The choices 3, 4, 7 and 8 walk the lists  *)
(* of FlightManager and change nothing, so each is the sequence of what it *)
(* prints, as an operator of the memory; the program prints it in whatever *)
(* memory the other choices left.                                          *)
(***************************************************************************)
EXTENDS FlightManager

CONSTANTS Queries,           \* what the user may type as a place or a part of a name
          SamePlace(_, _),   \* strcmp of the two in lower case
          PartOfName(_, _)   \* strstr of the two in lower case

(* n - 1 steps from the head, if the list says it has n flights. *)
find_flight_by_position(h, n) ==
  LET at[i \in 1..n] == IF i = 1 THEN h.head
                        ELSE IF at[i - 1] = Nil THEN Nil ELSE h.flight[at[i - 1]].next
  IN IF n <= 0 \/ n > h.count THEN Nil ELSE at[n]

(* A flight and its passengers; nothing if there is none at the position. *)
display_flight_by_pos(h, n) ==
  LET f == find_flight_by_position(h, n)
      Line(p) == [seat |-> h.person[p].seat, who |-> h.person[p].who]
      list == PassengersOf(h, f)
  IN IF f = Nil THEN <<>>
     ELSE <<[id |-> h.flight[f].id, to |-> h.flight[f].to, seats |-> h.flight[f].seats,
             passengers |-> [i \in DOMAIN list |-> Line(list[i])]]>>

(* What a loop prints: the lines of the page whose places are hits. *)
Printed(page, hits) == FlattenSeq([i \in DOMAIN page |-> IF i \in hits THEN <<page[i]>> ELSE <<>>])

FlightLines(h) ==
  LET list == FlightsOf(h)
  IN [i \in DOMAIN list |-> [id |-> h.flight[list[i]].id, to |-> h.flight[list[i]].to, position |-> i]]

(* A line for every flight that goes there, with its place in the list. *)
find_flight_by_destination(h, q) ==
  LET page == FlightLines(h)
  IN Printed(page, {i \in DOMAIN page : SamePlace(q, page[i].to)})

(* What the search by name prints of the passengers of the i-th flight. *)
NameLines(h, i) ==
  LET f    == FlightsOf(h)[i]
      list == PassengersOf(h, f)
  IN [j \in DOMAIN list |-> [id |-> h.flight[f].id, position |-> i,
                             seat |-> h.person[list[j]].seat, who |-> h.person[list[j]].who]]

(* Bug: the search goes on with the next flight after the first hit. *)
find_passenger_by_name_Once(h, q) ==
  LET Hits(page) == {j \in DOMAIN page : /\ PartOfName(q, page[j].who.name)
                                         /\ \A k \in 1..(j - 1) : ~PartOfName(q, page[k].who.name)}
  IN FlattenSeq([i \in DOMAIN FlightsOf(h) |-> Printed(NameLines(h, i), Hits(NameLines(h, i)))])

find_passenger_by_name(h, q) ==
  LET Hits(page) == {j \in DOMAIN page : PartOfName(q, page[j].who.name)}
  IN FlattenSeq([i \in DOMAIN FlightsOf(h) |-> Printed(NameLines(h, i), Hits(NameLines(h, i)))])

(* Bug: the ages are not compared. *)
SeatsOf_AnyAge(h, who) ==
  Cardinality({p \in UNION {Range(PassengersOf(h, f)) : f \in Range(FlightsOf(h))} :
                 h.person[p].who.name = who.name})

(* The seats of a person, a name and an age, on all flights. *)
SeatsOf(h, who) == Cardinality({p \in UNION {Range(PassengersOf(h, f)) : f \in Range(FlightsOf(h))} :
                                  h.person[p].who = who})

OnFlight(h, f, who) == \E p \in Range(PassengersOf(h, f)) : h.person[p].who = who

ManyLines(h, i) ==
  LET list == PassengersOf(h, FlightsOf(h)[i])
  IN [j \in DOMAIN list |-> [who |-> h.person[list[j]].who, count |-> SeatsOf(h, h.person[list[j]].who)]]

(* Each passenger of a flight, unless the same person is on an earlier     *)
(* one, with the number of the person's seats, if it is above one.         *)
find_passengers_on_multiple_flights(h) ==
  LET list == FlightsOf(h)
      Hits(i, page) == {j \in DOMAIN page : /\ \A g \in 1..(i - 1) : ~OnFlight(h, list[g], page[j].who)
                                            /\ page[j].count > 1}
  IN FlattenSeq([i \in DOMAIN list |-> Printed(ManyLines(h, i), Hits(i, ManyLines(h, i)))])

-----------------------------------------------------------------------------
(* The properties *)

(* The flights that the choices 4 and 7 find, with the positions they      *)
(* print (flight_functions.c:182 and 322).                                 *)
Found(h, q) == {<<line.id, line.position>> : line \in Range(find_flight_by_destination(h, q))}
               \cup {<<line.id, line.position>> : line \in Range(find_passenger_by_name(h, q))}

(* The positions at which choice 3 shows the flight. *)
ShownAt(h, id) == {n \in 1..FlightNodes :
                     \E page \in Range(display_flight_by_pos(h, n)) : page.id = id}

(* A printed position that is typed at choice 3 after another choice was   *)
(* made in between (flight_manager.c:250-267): the flight is shown there   *)
(* and nowhere else, but that every removal of a flight in front of it     *)
(* moved it one position up, so that the printed one is stale; and nowhere *)
(* if it was removed itself.                                               *)
PositionsMove ==
  [][state' = "menu" =>
       \A q \in Queries : \A hit \in Found(m, q) :
         LET id == hit[1]
             position == hit[2]
             removed == {i \in 1..position : FindFlight(m', Registry[i].id) = Nil}
         IN ShownAt(m', id) = IF position \in removed THEN {}
                              ELSE {position - Cardinality(removed)}]_vars

(* The bookings of the registry: flight by position, and seat. *)
Bookings == UNION {{i} \X DOMAIN Registry[i].booked : i \in DOMAIN Registry}
Who(b) == Registry[b[1]].booked[b[2]]

(* A search by name shows every booking of the registry that matches, once *)
(* (flight_functions.c:164-196).                                           *)
SearchComplete ==
  \A q \in Queries :
    LET lines == find_passenger_by_name(m, q)
    IN /\ IsInjective(lines)
       /\ {<<<<line.position, line.seat>>, line.who>> : line \in Range(lines)}
            = {<<b, Who(b)>> : b \in {b \in Bookings : PartOfName(q, Who(b).name)}}

(* Who is booked on two flights, by name and age, is shown; and who has at *)
(* most one seat on a flight is shown exactly if there are two flights,    *)
(* once, and with their number (flight_functions.c:204-272).  Nothing is   *)
(* said of somebody with two seats on one flight, whom the code shows as   *)
(* if there were two flights.                                              *)
MultipleShown ==
  LET lines == find_passengers_on_multiple_flights(m)
  IN \A who \in KnownPeople :
       LET mine    == {b \in Bookings : Who(b) = who}
           flights == {b[1] : b \in mine}
           about   == {k \in DOMAIN lines : lines[k].who = who}
       IN /\ Cardinality(flights) > 1 => about # {}
          /\ Cardinality(mine) = Cardinality(flights) =>
               /\ Cardinality(about) = IF Cardinality(flights) > 1 THEN 1 ELSE 0
               /\ \A k \in about : lines[k].count = Cardinality(flights)
=============================================================================
