CONSTANTS
  OrderId = {1, 2, 3}
  Price = {1}
  Quantity = {1, 2}
  MaxNodes = 3
  QtyMax = 127
  Inputs <- MCInputs
  MaxLines = 3
  Room = 2
SPECIFICATION ThreadSpec
INVARIANTS InputsHandledInOrder OutputIsPrefix SentinelIsLast GracefulExitIsComplete
PROPERTIES EofEndsProcess AbortStopsWorkers
