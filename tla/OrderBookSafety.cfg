CONSTANTS
  OrderId = {1, 2, 3}
  Price = {1, 2}
  Quantity = {1, 2}
  MaxNodes = 4
  QtyMax = 3
SPECIFICATION Spec
INVARIANTS TypeOK BookNotCrossed LadderMatchesNodes ListsAreFifo LookupExact
  CursorOnLiveHead LevelTotalsExact TerminalAccountsForOrder FokAllOrNothing FokKilledOnlyIfShort
PROPERTY PriceTimePriority
