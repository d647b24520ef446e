\* Any sequence of menu choices; malloc fails after three nodes of a kind.
SPECIFICATION Spec
CONSTANTS
  Ids <- MCIds
  Places <- MCPlaces
  Queries <- MCQueries
  SamePlace <- MCSamePlace
  PartOfName <- MCPartOfName
  SeatCounts <- MCSeatCounts
  Seats <- MCSeats
  People <- MCPeople
  SampleFlights <- MCSampleFlights
  SamplePassengers <- MCSamplePassengers
  FlightNodes = 3
  PassengerNodes = 3
INVARIANTS TypeOK Linked NoLeak Sorted SearchComplete MultipleShown
PROPERTIES RegistrySpec PositionsMove
CHECK_DEADLOCK FALSE
