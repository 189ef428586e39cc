CONSTANTS
  OrderId = {0, 1, 2}
  Price = {0, 1, 2}
  Quantity = {0, 1, 2}
  MaxNodes = 3
  QtyMax = 3
SPECIFICATION FairSpec
PROPERTIES ImplementsPriceTimeBook HandlerTerminates
