CONSTANTS
  Orders = {o1, o2}
  Requests = {place}
  Quantities = {1, 2}
  Profits <- MCProfits
  Capital = 2
  MaxLots = 2
  MaxRealized = 1
  MaxStranded = 0
  Admitted = {"subscribeFails"}
  Scenes = {"orders", "lots", "delivery", "stops"}
  Stocks = {s1, s2}
  StartingCapital = 2
  DeliveryQuantities = {1, 2}
  MaxOrders = 3
  DeliveryAdmitted = {}
  Legs = {leg}
  Levels = {1, 2}
  MaxNet = 1
  StopAdmitted = {}
SPECIFICATION MCSpec
INVARIANTS TypeOK FillsOnce Conserved  SharesKept NeverOversold SharesPaidFor WatchesWhatIsSaved
PROPERTIES KeepsOrderContract RestingOrderFills GivenUpWhenClosing BreachIsServed
