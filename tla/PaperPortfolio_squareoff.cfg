SPECIFICATION AccountSpec
CONSTANTS
  Threads = {tick, api}
  Strategists = {tick}
  Stocks = {s1}
  TicketSizes = {1, 2}
  TicketPrices = {1}
  Slack = 0
  InitialCash = 3
  NoTicket = NoTicket
  MaxFills = 3
  MaxRestores = 0
INVARIANT
  BooksAgree
CHECK_DEADLOCK FALSE
