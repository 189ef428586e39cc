CONSTANTS
  OrderId = {1, 2}
  Price = {1, 2}
  Quantity = {1, 2}
  MaxNodes = 3
  QtyMax = 127
SPECIFICATION Spec
INVARIANT RejectedOrderNeverTraded
