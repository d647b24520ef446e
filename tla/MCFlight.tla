------------------------------ MODULE MCFlight ------------------------------
(***************************************************************************)
(* FlightManager and FlightLookups for TLC.  Three flights (two ids the    *)
(* user types, and one only the sample data has) so that one can be        *)
(* removed between two, three passengers so that one can be inserted       *)
(* between two, seats on both sides of the range; the last node of each    *)
(* kind can be handed out, and malloc fails after it.                      *)
(***************************************************************************)
EXTENDS FlightLookups

MCIds == {"BA-42", "AA-12"}
MCSeatCounts == {3}
MCSeats == {0, 1, 3}
MCPeople == {[name |-> "Ole", age |-> 30]}
MCPlaces == {"Oslo"}
MCSampleFlights == <<[id |-> "BA-42", to |-> "Bergen", seats |-> 3],
                     [id |-> "CH-99", to |-> "Oslo", seats |-> 2]>>
MCSamplePassengers == <<[id |-> "BA-42", seat |-> 2, who |-> [name |-> "Ole", age |-> 30]],
                        [id |-> "BA-42", seat |-> 1, who |-> [name |-> "Li", age |-> 41]],
                        [id |-> "CH-99", seat |-> 3, who |-> [name |-> "Ole", age |-> 8]],
                        [id |-> "CH-99", seat |-> 2, who |-> [name |-> "Ole", age |-> 8]]>>

MCQueries == {"OSLO", "o", "l"}
MCSamePlace(q, place) == q = "OSLO" /\ place = "Oslo"
MCPartOfName(q, name) == q = "l" \/ (q = "o" /\ name = "Ole")
=============================================================================
