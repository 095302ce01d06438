SPECIFICATION MCSpec
CONSTANTS
  o1 = o1
  o2 = o2
  w1 = w1
  w2 = w2
  w3 = w3
  flow = flow
  relay = relay
  Orders = {o1, o2}
  Events = {o1, o2}
  Handlers = {h1, h2}
  Children <- ChildrenOf
  Smart = {o1}
  CenterAdmitted = {}
  Callbacks = {flow, relay}
  FlowCallback = flow
  MaxPending = 1
  Workers = 2
  Workflows = {w1, w2, w3}
  Watching = {w1, w2}
  Matches <- MatchesOf
  MaxActivations = 2
  Admitted = {}
INVARIANTS CenterTypeOK BusTypeOK FlowTypeOK SlotsSound OneShotRunsOnce OneRunInFlight
PROPERTIES KeepsApprovalContract ApprovalSettles UnclaimedWatchStays ClaimsAreReleased UpdateStartsWorkflow
