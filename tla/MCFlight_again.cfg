\* source.c:141: violated by any number that is no choice.
SPECIFICATION Spec
CONSTANTS
  Ids <- MCIds
  Places <- MCPlaces
  Queries <- MCQueries
  SamePlace <- MCSamePlace
  PartOfName <- MCPartOfName
  SeatCounts <- MCSeatCounts
  Seats <- MCSeats
  People <- MCPeople
  SampleFlights <- MCSampleFlights
  SamplePassengers <- MCSamplePassengers
  FlightNodes = 3
  PassengerNodes = 3
INVARIANT ChoiceAgain
CHECK_DEADLOCK FALSE
