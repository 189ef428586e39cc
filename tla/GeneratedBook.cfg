CONSTANTS
  OrderId = {1, 2, 3, 4, 5}
  Price = {1, 2, 3, 4}
  Quantity = {1, 2}
  MaxNodes = 5
  QtyMax = 127
  Profiles <- MCProfiles
  MaxDepth = 1
  Longs <- MCLongs
  Capacities = {2, 3}
  Line = 2
  Page = 4
SPECIFICATION generatedSpec
INVARIANTS EveryOrderHasOneFate QuotesRespectTouch NodesApart ArenaServesCapacity
