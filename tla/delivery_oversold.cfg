CONSTANTS
  Orders = {o1}
  Requests = {place}
  Quantities = {1}
  Profits <- MCProfits
  Capital = 2
  MaxLots = 2
  MaxRealized = 1
  MaxStranded = 0
  Admitted = {}
  Scenes = {"delivery"}
  Stocks = {s1}
  StartingCapital = 2
  DeliveryQuantities = {1}
  MaxOrders = 3
  DeliveryAdmitted = {"sellsOverlap"}
  Legs = {leg}
  Levels = {1, 2}
  MaxNet = 1
  StopAdmitted = {}
SPECIFICATION MCSpec
INVARIANTS NeverOversold
