SPECIFICATION Spec
CONSTANTS
  Traders = {"a", "b"}
  Tickers = {"PIN", "ZRX"}
  PIN = "PIN"
  Listings <- MCListings
  NoAddr = NoAddr
  Funds <- MCFunds
  Amounts = {1, 2}
  Prices = {1, 2}
  MaxOrders = 3
  MaxTrades = 2
  MaxList = 2
CHECK_DEADLOCK FALSE
INVARIANTS TypeOK  OrdersOpen QuotePaid BooksSorted
