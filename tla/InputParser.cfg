CONSTANTS
  OrderId = {0, 7}
  Price = {0, 7}
  Quantity = {0, 7}
  FieldAt <- MCFieldAt
  from_chars <- MCFromChars
SPECIFICATION Spec
INVARIANT AcceptsTheGrammar
