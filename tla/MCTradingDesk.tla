--------------------------- MODULE MCTradingDesk ---------------------------
(***************************************************************************)
(* TradingDesk for TLC.  Each behaviour is one of a few scenes, each with  *)
(* the components that meet in it in full and the others at rest: so the   *)
(* scenes' states add up instead of multiplying.                           *)
(***************************************************************************)
EXTENDS TradingDesk

CONSTANTS o1, o2, w1, w2, w3, flow, relay

VARIABLE scene

ChildrenOf == [o \in Orders |-> IF o = o1 THEN 1 ELSE 2]
MatchesOf == {<<o1, w1>>, <<o2, w1>>, <<o1, w2>>}

\* approvals: two requests and two orders
\* loop:      an order, a watch for its update, and requests that run the workflow too
\* shared:    two orders were placed; two watches for the updates, one of them for both
\* again:     two orders were placed; a watch for both that is registered again
\* crowded:   an order was placed; the bus has two subscribers, and its pool closes
\* alerts:    a price alert, and requests that run its workflow too
Scenes == {"approvals", "loop", "shared", "again", "crowded", "alerts"}

Asked == CASE scene \in {"approvals", "shared", "again"} -> {o1, o2}
           [] scene \in {"loop", "crowded"} -> {o1}
           [] OTHER -> {}

Serving == IF scene = "approvals" THEN Handlers ELSE {CHOOSE h \in Handlers : TRUE}

Active == CASE scene = "approvals" -> {}
            [] scene \in {"loop", "again", "crowded"} -> {w1}
            [] scene = "shared" -> {w1, w2}
            [] OTHER -> {w3}

Placed == \A o \in Asked : rows[o].broker = "open"

\* What a scene leaves at rest.
InScene ==
  /\ UNCHANGED scene
  /\ \A o \in Orders \ Asked : rows'[o].status = "none"
  /\ \A h \in Handlers \ Serving : handlers'[h] = NoRequest
  /\ scene = "approvals" => \A o \in Events : deliveries'[<<o, flow>>] = "none"
  /\ scene \in {"shared", "again", "crowded"} =>
       IF Placed THEN UNCHANGED centerVars ELSE UNCHANGED <<busVars, flowVars>>
  /\ \A w \in Workflows \ Active : state'[w] = "inactive"
  /\ \A r \in runs' : r.by = "request" => r.flow \in Active /\ scene \in {"loop", "alerts"}
  /\ scene = "shared" =>
       \A w \in Active : triggers'[w].nr <= 1 /\ state'[w] # "deactivating"
  /\ scene # "crowded" => subscribers' = {flow} /\ poolOpen'

MCInit ==
  /\ DeskInit
  /\ scene \in Scenes
  /\ scene # "crowded" => subscribers = {flow}

MCSpec ==
  /\ MCInit /\ [][DeskNext /\ InScene]_<<deskVars, scene>>
  /\ FlowFairness /\ CenterFairness
=============================================================================
