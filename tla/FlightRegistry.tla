--------------------------- MODULE FlightRegistry ---------------------------
(***************************************************************************)
(* What the flight manager of task 3 keeps, without pointers: the flights  *)
(* in the order they were added, each with the passengers by seat.         *)
(***************************************************************************)
EXTENDS Integers, Sequences, SequencesExt

CONSTANTS Ids, SeatCounts, Seats, People,  \* what the user may type
          SampleFlights, SamplePassengers  \* what add_sample_data adds

VARIABLE registry

Flight(id, seats, booked) == [id |-> id, seats |-> seats, booked |-> booked]

IdsOf(r) == {r[i].id : i \in DOMAIN r}

PutFlight(r, id, seats) ==
  IF id \in IdsOf(r) THEN r ELSE Append(r, Flight(id, seats, <<>>))

(* A seat is booked once, and only if the flight has it. *)
PutPassenger(r, id, seat, who) ==
  [i \in DOMAIN r |->
     IF r[i].id = id /\ seat \in 1..r[i].seats \ DOMAIN r[i].booked
     THEN [r[i] EXCEPT !.booked =
             [s \in DOMAIN @ \cup {seat} |-> IF s = seat THEN who ELSE @[s]]]
     ELSE r[i]]

TakeFlight(r, id) ==
  IF id \in IdsOf(r) THEN RemoveAt(r, CHOOSE i \in DOMAIN r : r[i].id = id) ELSE r

(* The passenger of the old seat sits in the new one, if that is free. *)
Reseat(r, id, old, new) ==
  [i \in DOMAIN r |->
     IF /\ r[i].id = id /\ old \in DOMAIN r[i].booked
        /\ new \in 1..r[i].seats \ DOMAIN r[i].booked
     THEN [r[i] EXCEPT !.booked =
             [s \in (DOMAIN @ \ {old}) \cup {new} |-> IF s = new THEN @[old] ELSE @[s]]]
     ELSE r[i]]

PutSamples(r) ==
  LET flights[i \in 0..Len(SampleFlights)] ==
        IF i = 0 THEN r
        ELSE PutFlight(flights[i - 1], SampleFlights[i].id, SampleFlights[i].seats)
      all[i \in 0..Len(SamplePassengers)] ==
        IF i = 0 THEN flights[Len(SampleFlights)]
        ELSE LET p == SamplePassengers[i] IN PutPassenger(all[i - 1], p.id, p.seat, p.who)
  IN all[Len(SamplePassengers)]

Init == registry = <<>>

(* A choice in the menu turns the registry r into s; the last one ends the *)
(* program.                                                                *)
Choice(r, s) == \/ \E id \in Ids, n \in SeatCounts : s = PutFlight(r, id, n)
                \/ \E id \in Ids, seat \in Seats, p \in People : s = PutPassenger(r, id, seat, p)
                \/ \E id \in Ids : s = TakeFlight(r, id)
                \/ \E id \in Ids, old, new \in Seats : s = Reseat(r, id, old, new)
                \/ s = PutSamples(r)
                \/ s = <<>>

Next == \E r \in {registry}, s \in {registry'} : Choice(r, s)

Spec == Init /\ [][Next]_registry
=============================================================================
