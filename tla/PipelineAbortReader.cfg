CONSTANTS
  OrderId = {1, 2, 3}
  Price = {1}
  Quantity = {0, 1, 2}
  MaxNodes = 3
  QtyMax = 127
  Inputs <- MCInputs
  MaxLines = 1
  Room = 1
SPECIFICATION ThreadSpec
PROPERTY AbortStopsEveryone
