--------------------------- MODULE FlightManager ---------------------------
(***************************************************************************)
(* Task 3: the flight manager, with its pointers.  Flights are nodes of a  *)
(* doubly linked list; each holds a singly linked list of passengers that  *)
(* is sorted by seat.  One action is one choice in the menu: the program   *)
(* has one thread, and a choice runs to its end before the next is read.   *)
(*                                                                         *)
(* The memory is a record m; the functions of flight_manager.c are         *)
(* operators from a memory to the memory they leave behind.                *)
(***************************************************************************)
EXTENDS Integers, Sequences, SequencesExt, FiniteSetsExt

CONSTANTS Ids, Places, SeatCounts, Seats, People, \* what the user may type
          SampleFlights, SamplePassengers,        \* what add_sample_data adds
          FlightNodes, PassengerNodes             \* bound: the nodes malloc can hand out

ASSUME HeapAssumption == FlightNodes \in Nat /\ PassengerNodes \in Nat
(* What scanf reads as an id is not empty.  Every passenger of the sample  *)
(* data is on one of its flights.                                          *)
ASSUME InputAssumption == /\ Ids \subseteq STRING \ {""} /\ SeatCounts \cup Seats \subseteq Int
                          /\ People \subseteq [name : STRING, age : Int]
ASSUME SampleAssumption ==
  /\ SampleFlights \in Seq([id : STRING \ {""}, to : STRING, seats : Int])
  /\ SamplePassengers \in Seq([id : {SampleFlights[i].id : i \in DOMAIN SampleFlights},
                               seat : Int, who : [name : STRING, age : Int]])

VARIABLES m,        \* the memory
          state     \* of the process: in the menu, or how it ended

vars == <<m, state>>

Nil == 0
FlightAddr    == 1..FlightNodes
PassengerAddr == 1..PassengerNodes

(* A node that is not allocated. *)
NoFlight    == [id |-> "", to |-> "", seats |-> 0, passengers |-> Nil, prev |-> Nil, next |-> Nil]
Nobody      == [name |-> "", age |-> 0]
NoPassenger == [seat |-> 0, who |-> Nobody, next |-> Nil]

-----------------------------------------------------------------------------
(* Walking the lists *)

(* f, n times from x on. *)
Repeat(f, x, n) == LET at[i \in 0..n] == IF i = 0 THEN x ELSE f[at[i - 1]]
                   IN at[n]

(* The nodes from start on, following next: one more than there are nodes  *)
(* if the list has a cycle.                                                *)
Walk(next, start) ==
  LET after(s) == IF s = <<>> THEN start ELSE next[s[Len(s)]]
      more == [s \in Seq(DOMAIN next) |-> IF after(s) = Nil THEN s ELSE Append(s, after(s))]
  IN Repeat(more, <<>>, Cardinality(DOMAIN next) + 1)

FlightsOf(h)       == Walk([a \in FlightAddr |-> h.flight[a].next], h.head)
PassengersFrom(h, p) == Walk([a \in PassengerAddr |-> h.person[a].next], p)
PassengersOf(h, f) == PassengersFrom(h, h.flight[f].passengers)

(* From start on to the first node of the set, or to Nil. *)
Find(next, start, wanted) ==
  Repeat([a \in DOMAIN next \cup {Nil} |-> IF a \in wanted \cup {Nil} THEN a ELSE next[a]],
         start, Cardinality(DOMAIN next))

(* find_flight_by_id: the first flight of that id, or Nil. *)
FindFlight(h, id) == Find([a \in FlightAddr |-> h.flight[a].next], h.head,
                          {a \in FlightAddr : h.flight[a].id = id})

(* The first passenger of flight f in the seat, or Nil. *)
FindSeat(h, f, seat) == Find([a \in PassengerAddr |-> h.person[a].next], h.flight[f].passengers,
                             {a \in PassengerAddr : h.person[a].seat = seat})

-----------------------------------------------------------------------------
(* flight_manager.c *)

(* malloc failed: the process exits. *)
OutOfMemory(h) == [h EXCEPT !.failed = TRUE]

(* Bug: the new tail does not point back. *)
add_flight_NoPrev(h, id, to, seats) ==
  LET fresh == {a \in FlightAddr : h.flight[a] = NoFlight}
      a     == Min(fresh)
      node  == [NoFlight EXCEPT !.id = id, !.to = to, !.seats = seats]
      link  == IF h.head = Nil THEN [h EXCEPT !.head = a] ELSE [h EXCEPT !.flight[h.tail].next = a]
  IN IF h.failed \/ FindFlight(h, id) # Nil THEN h
     ELSE IF fresh = {} THEN OutOfMemory(h)
     ELSE [link EXCEPT !.flight[a] = node, !.tail = a, !.count = @ + 1]

(* Bug: a new flight goes in front. *)
add_flight_AtHead(h, id, to, seats) ==
  LET fresh == {a \in FlightAddr : h.flight[a] = NoFlight}
      a     == Min(fresh)
      node  == [NoFlight EXCEPT !.id = id, !.to = to, !.seats = seats, !.next = h.head]
      link  == IF h.head = Nil THEN [h EXCEPT !.tail = a] ELSE [h EXCEPT !.flight[h.head].prev = a]
  IN IF h.failed \/ FindFlight(h, id) # Nil THEN h
     ELSE IF fresh = {} THEN OutOfMemory(h)
     ELSE [link EXCEPT !.flight[a] = node, !.head = a, !.count = @ + 1]

add_flight(h, id, to, seats) ==
  LET fresh == {a \in FlightAddr : h.flight[a] = NoFlight}
      a     == Min(fresh)
      node  == [NoFlight EXCEPT !.id = id, !.to = to, !.seats = seats]
  IN IF h.failed \/ FindFlight(h, id) # Nil THEN h
     ELSE IF fresh = {} THEN OutOfMemory(h)
     ELSE IF h.head = Nil
     THEN [h EXCEPT !.flight[a] = node, !.head = a, !.tail = a, !.count = @ + 1]
     ELSE [h EXCEPT !.flight[h.tail].next = a,
                    !.flight[a] = [node EXCEPT !.prev = h.tail],
                    !.tail = a, !.count = @ + 1]

(* Bug: every passenger goes in front. *)
Insert_AtFront(h, f, p) ==
  [h EXCEPT !.person[p].next = h.flight[f].passengers, !.flight[f].passengers = p]

(* The insertion at the end of add_passenger and change_passenger_seat: p  *)
(* goes in front if its seat is the lowest, else behind the last node of   *)
(* the run of lower seats that follows the first.                          *)
Insert(h, f, p) ==
  LET first == h.flight[f].passengers
      seat  == h.person[p].seat
      list  == PassengersOf(h, f)
      stops == {i \in DOMAIN list : i = Len(list) \/ h.person[list[i + 1]].seat >= seat}
      spot  == list[Min(stops)]
  IN IF first = Nil \/ seat < h.person[first].seat
     THEN [h EXCEPT !.person[p].next = first, !.flight[f].passengers = p]
     ELSE [h EXCEPT !.person[p].next = h.person[spot].next, !.person[spot].next = p]

add_passenger(h, f, seat, who) ==
  LET fresh == {a \in PassengerAddr : h.person[a] = NoPassenger}
      p     == Min(fresh)
  IN IF h.failed \/ seat <= 0 \/ seat > h.flight[f].seats \/ FindSeat(h, f, seat) # Nil THEN h
     ELSE IF fresh = {} THEN OutOfMemory(h)
     ELSE Insert([h EXCEPT !.person[p] = [seat |-> seat, who |-> who, next |-> Nil]], f, p)

(* Bug: the passengers are not freed with their flight. *)
FreePassengers_None(h, f) == h

FreePassengers(h, f) ==
  [h EXCEPT !.person = [a \in PassengerAddr |->
                          IF a \in Range(PassengersOf(h, f)) THEN NoPassenger ELSE @[a]]]

(* Taking flight f out of the list. *)
UnlinkFlight(h, f) ==
  LET node   == h.flight[f]
      before == IF node.prev # Nil THEN [h EXCEPT !.flight[node.prev].next = node.next]
                                   ELSE [h EXCEPT !.head = node.next]
  IN IF node.next # Nil THEN [before EXCEPT !.flight[node.next].prev = node.prev]
                        ELSE [before EXCEPT !.tail = node.prev]

(* Bug: list->count is not decremented. *)
remove_flight_Uncounted(h, id) ==
  LET f == FindFlight(h, id)
  IN IF f = Nil THEN h
     ELSE [FreePassengers(UnlinkFlight(h, f), f) EXCEPT !.flight[f] = NoFlight]

remove_flight(h, id) ==
  LET f == FindFlight(h, id)
  IN IF f = Nil THEN h
     ELSE [FreePassengers(UnlinkFlight(h, f), f) EXCEPT !.flight[f] = NoFlight, !.count = @ - 1]

(* Taking passenger p out of the list of flight f. *)
Unlink(h, f, p) ==
  LET list == PassengersOf(h, f)
      i    == CHOOSE j \in DOMAIN list : list[j] = p
  IN IF i = 1 THEN [h EXCEPT !.flight[f].passengers = h.person[p].next]
              ELSE [h EXCEPT !.person[list[i - 1]].next = h.person[p].next]

(* Bug: the seats of the flight are not looked at. *)
change_passenger_seat_AnySeat(h, f, old, new) ==
  LET p == FindSeat(h, f, old)
  IN IF FindSeat(h, f, new) # Nil \/ p = Nil THEN h
     ELSE Insert([Unlink(h, f, p) EXCEPT !.person[p].seat = new, !.person[p].next = Nil], f, p)

change_passenger_seat(h, f, old, new) ==
  LET p == FindSeat(h, f, old)
  IN IF new <= 0 \/ new > h.flight[f].seats \/ FindSeat(h, f, new) # Nil \/ p = Nil THEN h
     ELSE Insert([Unlink(h, f, p) EXCEPT !.person[p].seat = new, !.person[p].next = Nil], f, p)

EmptyMemory == [flight |-> [a \in FlightAddr |-> NoFlight],
                person |-> [a \in PassengerAddr |-> NoPassenger],
                head |-> Nil, tail |-> Nil, count |-> 0, failed |-> FALSE]

(* Every flight in the list, its passengers and the list itself are freed; *)
(* what is not in the list stays allocated.                                *)
free_flight_departure_list(h) ==
  LET list == Range(FlightsOf(h))
      gone == UNION {Range(PassengersOf(h, f)) : f \in list}
  IN [h EXCEPT !.flight = [a \in FlightAddr |-> IF a \in list THEN NoFlight ELSE @[a]],
               !.person = [a \in PassengerAddr |-> IF a \in gone THEN NoPassenger ELSE @[a]],
               !.head = Nil, !.tail = Nil, !.count = 0]

(* The flights one after the other, then the passengers. *)
SampleFlightsIn(h) ==
  LET at[i \in 0..Len(SampleFlights)] ==
        IF i = 0 THEN h
        ELSE LET f == SampleFlights[i] IN add_flight(at[i - 1], f.id, f.to, f.seats)
  IN at[Len(SampleFlights)]

SamplePassengersIn(h) ==
  LET at[i \in 0..Len(SamplePassengers)] ==
        IF i = 0 THEN h
        ELSE LET g == at[i - 1]
                 p == SamplePassengers[i]
             IN IF g.failed THEN g ELSE add_passenger(g, FindFlight(g, p.id), p.seat, p.who)
  IN at[Len(SamplePassengers)]

add_sample_data(h) == SamplePassengersIn(SampleFlightsIn(h))

-----------------------------------------------------------------------------
(* The menu *)

Init == m = EmptyMemory /\ state = "menu"

Leave(h) == m' = h /\ state' = IF h.failed THEN "failure" ELSE "menu"

add_new_flight ==
  \E id \in Ids, to \in Places, n \in SeatCounts : Leave(add_flight(m, id, to, n))

(* The menu says "added" whatever add_passenger did. *)
add_new_passenger_to_flight ==
  \E id \in Ids, seat \in Seats, who \in People :
    /\ FindFlight(m, id) # Nil
    /\ Leave(add_passenger(m, FindFlight(m, id), seat, who))

remove_flight_menu == \E id \in Ids : Leave(remove_flight(m, id))

change_passenger_seat_menu ==
  \E id \in Ids, old, new \in Seats :
    /\ FindFlight(m, id) # Nil
    /\ Leave(change_passenger_seat(m, FindFlight(m, id), old, new))

AddSampleData == Leave(add_sample_data(m))

(* 0: the list is freed and main returns. *)
ExitProgram == m' = free_flight_departure_list(m) /\ state' = "ended"

(* A number that is no choice, or the end of the input: the list is freed, *)
(* and the menu is shown again with what was freed.                        *)
InvalidChoice == m' = free_flight_departure_list(m) /\ state' = "dangling"

Next == /\ state = "menu"
        /\ \/ add_new_flight \/ add_new_passenger_to_flight \/ remove_flight_menu
           \/ change_passenger_seat_menu \/ AddSampleData \/ ExitProgram \/ InvalidChoice

Spec == Init /\ [][Next]_vars
-----------------------------------------------------------------------------
(* The properties *)

KnownPlaces == Places \cup {SampleFlights[i].to : i \in DOMAIN SampleFlights}
KnownPeople == People \cup {SamplePassengers[i].who : i \in DOMAIN SamplePassengers}
KnownIds == Ids \cup {SampleFlights[i].id : i \in DOMAIN SampleFlights}

(* Types; list->count stays within the number of nodes.                    *)
TypeOK ==
  /\ m.flight \in [FlightAddr -> [id : KnownIds \cup {""}, to : KnownPlaces \cup {""}, seats : Int,
                                  passengers : PassengerAddr \cup {Nil},
                                  prev : FlightAddr \cup {Nil}, next : FlightAddr \cup {Nil}]]
  /\ m.person \in [PassengerAddr -> [seat : Int, who : KnownPeople \cup {Nobody},
                                     next : PassengerAddr \cup {Nil}]]
  /\ {m.head, m.tail} \subseteq FlightAddr \cup {Nil}
  /\ m.count \in 0..FlightNodes /\ m.failed \in BOOLEAN
  /\ state \in {"menu", "ended", "failure", "dangling"}

Allocated      == {a \in FlightAddr : m.flight[a] # NoFlight}
AllocatedPeople == {a \in PassengerAddr : m.person[a] # NoPassenger}

(* The doubly linked list: both directions visit the same nodes, the tail  *)
(* is the last, and list->count is their number, after any sequence of     *)
(* additions and removals at the head, the tail or between.                *)
Linked == LET list == FlightsOf(m)
          IN /\ Walk([a \in FlightAddr |-> m.flight[a].prev], m.tail) = Reverse(list)
             /\ m.count = Len(list)

(* No node leaks and none is used after it was freed: what is allocated is *)
(* what the list reaches, flights and passengers, and no passenger is in   *)
(* two lists.  Exit leaves nothing behind.                                 *)
NoLeak ==
  LET list == FlightsOf(m)
  IN /\ IsInjective(list) /\ Range(list) = Allocated
     /\ UNION {Range(PassengersOf(m, f)) : f \in Range(list)} = AllocatedPeople
     /\ \A f, g \in Range(list) :
          f # g => Range(PassengersOf(m, f)) \cap Range(PassengersOf(m, g)) = {}

(* The passengers of a flight stand in the order of their seats, each seat *)
(* once and none beyond the flight's, also after passengers changed seats. *)
Sorted ==
  \A f \in Range(FlightsOf(m)) :
    LET list == PassengersOf(m, f)
    IN /\ \A i \in DOMAIN list : m.person[list[i]].seat \in 1..m.flight[f].seats
       /\ \A i, j \in DOMAIN list : i < j => m.person[list[i]].seat < m.person[list[j]].seat

(* The flights of the list with their passengers by seat. *)
Booked(h, f) == [s \in {h.person[p].seat : p \in Range(PassengersOf(h, f))} |->
                   h.person[FindSeat(h, f, s)].who]
Entry(h, f) == [id |-> h.flight[f].id, seats |-> h.flight[f].seats, booked |-> Booked(h, f)]
RegistryOf(h) == LET list == FlightsOf(h) IN [i \in DOMAIN list |-> Entry(h, list[i])]
Registry == RegistryOf(m)

(* The lists implement the registry of FlightRegistry, as long as malloc   *)
(* has memory: a choice changes the flight and the passenger it names and  *)
(* no other.                                                               *)
Abstract == INSTANCE FlightRegistry WITH registry <- IF m.failed THEN <<>> ELSE Registry
RegistrySpec == Abstract!Spec

-----------------------------------------------------------------------------
(* What a prompt of the program says, and the code does not do *)

(* source.c:141 "Invalid choice! Please enter a number between 0 and 9.":  *)
(* after it the user can choose again, from the same list.                 *)
ChoiceAgain == state # "dangling"
=============================================================================
