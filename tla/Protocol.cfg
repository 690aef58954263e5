SPECIFICATION Spec
CONSTANTS
  Numbers <- MCNumbers
  Levels <- MCLevels
  NameLengthMax = 2
  PrintableNames <- MCPrintableNames
  Addresses = {"first address", "second address"}
  EUI48s = {"ethernet address"}
  Identifiers <- MCIdentifiers
  Balances <- MCBalances
  Frequencies <- MCFrequencies
  Names <- MCNames
INVARIANTS
  HandledAsAsked
  HeardAsSaid
  EndsWithTheAnswer
  AnswerIsOnTheWay
