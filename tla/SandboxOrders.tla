--------------------------- MODULE SandboxOrders ---------------------------
(***************************************************************************)
(* The regular orders of one sandbox user in one intraday symbol: requests *)
(* that place, modify and cancel them, the tick callback of the WebSocket  *)
(* engine and the polling loop it falls back to, the fill that nets the    *)
(* position and moves the margin, and the engine's index of what rests.    *)
(*                                                                         *)
(* Ticks come on the feed client's own thread, beside the polling cycle    *)
(* and the requests that place an order.  Each of them has at most one     *)
(* order at hand, and an execution is a step for each commit: the trade    *)
(* with the order's status, the margin given back, the position, and the   *)
(* reconciled reserve.                                                     *)
(*                                                                         *)
(* A lot's margin is one unit of money.  Prices are left out: whether the  *)
(* market meets an order is for each evaluation to find.                   *)
(***************************************************************************)
EXTENDS SandboxMargin, FiniteSets

CONSTANTS
  Orders,       \* the order ids that will be used
  Requests,     \* the request threads that place orders
  Quantities,   \* lots an order may ask for
  Profits,      \* what closing lots may realize
  Capital,      \* starting_capital
  MaxLots,      \* bound: orders are placed only while the position is within it
  MaxRealized,  \* bound: fills realize only while the total is within it
  MaxStranded,  \* bound: placements break only while no more than this is stranded
  Admitted      \* which of the hazards below may happen

(***************************************************************************)
(* The schedules and failures that the code does not exclude:              *)
(*   changedUnderway  an order is modified, cancelled or rejected while    *)
(*                    another thread, which has read it, is still at it    *)
(*   checksOverlap    a second evaluator looks for the trade of an order   *)
(*                    before the first one has committed it                *)
(*   fillsOverlap     a fill reads the position while another fill is      *)
(*                    between its read and its commit                      *)
(*   fillDies         the process dies between the commit of a trade and   *)
(*                    that of the position, or marking the order fails too *)
(*   noticeLost       the engine does not hear of an order that rests      *)
(*   subscribeFails   the symbol's subscription is refused, or overtaken   *)
(*                    by the end of the one before                         *)
(***************************************************************************)
Hazards == {"changedUnderway", "checksOverlap", "fillsOverlap", "fillDies",
            "noticeLost", "subscribeFails"}

Engines == {"tick", "cycle"}
Workers == Engines \cup Requests

ASSUME OrdersAssumption ==
  /\ IsFiniteSet(Orders)
  /\ Requests \cap Engines = {}
  /\ Quantities \subseteq Nat \ {0}
  /\ Profits \subseteq Int /\ 0 \in Profits
  /\ Capital \in Nat /\ MaxLots \in Nat /\ MaxRealized \in Nat /\ MaxStranded \in Nat
  /\ Admitted \subseteq Hazards

VARIABLES
  orders,      \* the rows of sandbox_orders
  trades,      \* how many trades each order has
  feed,        \* the WebSocket engine's index, reference count, position reference
  subscribed,  \* the symbol's ticks come
  polling,     \* the fallback is on
  session,     \* the status of each order as the polling cycle has it
  work         \* the order each thread has at hand, and how far it is with it

vars == <<orders, trades, position, funds, feed, subscribed, polling, session, work>>

Pending == {"open", "trigger pending"}
Statuses == Pending \cup {"new", "complete", "cancelled", "rejected"}
Sides == {1, -1}    \* BUY, SELL

Order == [status : Statuses, side : Sides, qty : Quantities \cup {0}, held : Nat]

\* No order yet.
Blank == [status |-> "new", side |-> 1, qty |-> 0, held |-> 0]

IsPending(o) == orders[o].status \in Pending

\* What a cycle has of an order: nothing, what it read, or an expired instance
\* that is read again when it is used.
Copies == Pending \cup {"none", "expired"}

Loaded == {o \in Orders : session[o] # "none"}

Nothing == "nothing"
Flat == [qty |-> 0, margin |-> 0]

\* checked: no trade was found; traded: it is committed; paid: the position was
\* read and its margin given back; netted: the position is committed.
Steps == {"idle", "checked", "traded", "paid", "netted"}

Job(step, o, status, after) == [step |-> step, order |-> o, read |-> status, after |-> after]
Idle == Job("idle", Nothing, "new", Flat)

At(w, step, o) == work[w].step = step /\ work[w].order = o
Has(w, o) == work[w].step # "idle" /\ work[w].order = o

Becomes(w, job) == work' = [work EXCEPT ![w] = job]

-----------------------------------------------------------------------------
(***************************************************************************)
(* What the hazards exclude.                                               *)
(***************************************************************************)

\* Nobody but w has o at hand, unless that is admitted.
Undisturbing(w, o) ==
  "changedUnderway" \in Admitted
  \/ (o \notin Loaded /\ \A v \in Workers \ {w} : ~Has(v, o))

Settled(o) ==
  "changedUnderway" \in Admitted \/ (o \notin Loaded /\ \A v \in Workers : ~Has(v, o))

Unchecked(w, o) ==
  "checksOverlap" \in Admitted \/ \A v \in Workers \ {w} : ~At(v, "checked", o)

NobodyNets == "fillsOverlap" \in Admitted \/ \A v \in Workers : work[v].step # "paid"

-----------------------------------------------------------------------------
(***************************************************************************)
(* The WebSocket engine's index: which orders the ticks are checked        *)
(* against, and how many orders and positions want the symbol's ticks.     *)
(***************************************************************************)
Fewer(n) == IF n <= 1 THEN 0 ELSE n - 1

Index(resting, refs, holds) == [orders |-> resting, refs |-> refs, position |-> holds]

\* notify_order_placed and notify_order_completed
Indexed(f, o) == Index(f.orders \cup {o}, f.refs + 1, f.position)
Unindexed(f, o) == Index(f.orders \ {o}, Fewer(f.refs), f.position)

\* Mutant: the position's reference is taken at every fill.
HeldEveryTime(f, lots) ==
  IF lots # 0 THEN Index(f.orders, f.refs + 1, 1)
  ELSE IF f.position = 1 THEN Index(f.orders, Fewer(f.refs), 0) ELSE f

\* notify_position_opened and notify_position_closed, after a fill.
Held(f, lots) ==
  CASE lots # 0 /\ f.position = 0 -> Index(f.orders, f.refs + 1, 1)
    [] lots = 0 /\ f.position = 1 -> Index(f.orders, Fewer(f.refs), 0)
    [] OTHER -> f

\* Mutant: the stop-loss book is forgotten.
RebuiltFromOpen ==
  LET resting == {o \in Orders : orders[o].status = "open"}
      holds == IF position.qty # 0 THEN 1 ELSE 0
  IN  Index(resting, Cardinality(resting) + holds, holds)

\* _rebuild_order_index
Rebuilt ==
  LET resting == {o \in Orders : IsPending(o)}
      holds == IF position.qty # 0 THEN 1 ELSE 0
  IN  Index(resting, Cardinality(resting) + holds, holds)

\* _subscribe_ws_symbols logs a failure and leaves the count as it is.
Answers == IF "subscribeFails" \in Admitted THEN BOOLEAN ELSE {TRUE}

\* The first reference subscribes, the last one gone unsubscribes.
Subscribes ==
  subscribed' \in (CASE feed'.refs = 0 -> {FALSE}
                     [] feed'.refs > 0 /\ feed.refs > 0 -> {subscribed}
                     [] OTHER -> Answers)

\* What the engine hears when thread w is done with an order, which rests or not:
\* a tick that ended one drops it, a placement whose order rests has it indexed.
Told(w, o, rests) ==
  CASE w = "tick" /\ ~rests -> {Unindexed(feed, o)}
    [] w \in Requests /\ rests ->
         {Indexed(feed, o)} \cup (IF "noticeLost" \in Admitted THEN {feed} ELSE {})
    [] OTHER -> {feed}

Tells(w, o, rests) == feed' \in Told(w, o, rests) /\ Subscribes

-----------------------------------------------------------------------------
(***************************************************************************)
(* Requests.                                                               *)
(***************************************************************************)
Row(status, side, qty, held) == [status |-> status, side |-> side, qty |-> qty, held |-> held]

Accepts(o, side, qty) ==
  /\ orders[o] = Blank
  /\ Abs(position.qty) <= MaxLots
  /\ Needed(side, qty) > 0 => Needed(side, qty) <= funds.available

\* place_order: the margin and the row.  What follows, an execution or a notice
\* to the engine, are the steps of thread w.
Places(w, o, side, qty, status) ==
  /\ work[w] = Idle
  /\ Accepts(o, side, qty)
  /\ orders' = [orders EXCEPT ![o] = Row(status, side, qty, Needed(side, qty))]
  /\ funds' = Blocked(Needed(side, qty))
  /\ Becomes(w, Job("checked", o, status, Flat))
  /\ UNCHANGED <<trades, position, feed, subscribed, polling, session>>

\* place_order: the margin is committed, the order is not.
PlaceBreaks(o, side, qty) ==
  /\ Accepts(o, side, qty)
  /\ Needed(side, qty) > 0 /\ funds.used <= MaxStranded
  /\ funds' = Blocked(Needed(side, qty))
  /\ UNCHANGED <<orders, trades, position, feed, subscribed, polling, session, work>>

\* modify_order: the margin stays as it was.
Modify(o, qty) ==
  /\ IsPending(o) /\ Settled(o)
  /\ orders' = [orders EXCEPT ![o].qty = qty]
  /\ UNCHANGED <<trades, position, funds, feed, subscribed, polling, session, work>>

\* Mutant: the status is not looked at.
CancelAnything(o) ==
  /\ orders[o] # Blank /\ orders[o].status # "cancelled" /\ Settled(o)
  /\ orders' = [orders EXCEPT ![o].status = "cancelled"]
  /\ funds' = Release(funds, orders[o].held, 0)
  /\ UNCHANGED <<trades, position, feed, subscribed, polling, session, work>>

\* cancel_order: an order that holds nothing gives back what its lots would hold.
Cancel(o) ==
  /\ IsPending(o) /\ Settled(o)
  /\ orders' = [orders EXCEPT ![o].status = "cancelled"]
  /\ funds' = Release(funds, IF orders[o].held > 0 THEN orders[o].held ELSE orders[o].qty, 0)
  /\ UNCHANGED <<trades, position, feed, subscribed, polling, session, work>>

-----------------------------------------------------------------------------
(***************************************************************************)
(* What the engines read: _check_and_execute_order for the orders in the   *)
(* index, check_and_execute_pending_orders in the fallback.                *)
(***************************************************************************)
Ticked(o) == o \in feed.orders /\ subscribed /\ work["tick"] = Idle

\* The index forgets an order that no longer rests.
TickForgets(o) ==
  /\ Ticked(o) /\ ~IsPending(o)
  /\ Tells("tick", o, FALSE)
  /\ UNCHANGED <<orders, trades, position, funds, polling, session, work>>

\* _start_fallback and _stop_fallback, by the health monitor.
FeedLost ==
  /\ ~polling /\ polling' = TRUE
  /\ UNCHANGED <<orders, trades, position, funds, feed, subscribed, session, work>>
FeedBack ==
  /\ polling /\ polling' = FALSE
  /\ UNCHANGED <<orders, trades, position, funds, feed, subscribed, session, work>>

\* The orders are read; then quotes are fetched.
CycleReads ==
  /\ polling /\ Loaded = {} /\ work["cycle"] = Idle
  /\ \E o \in Orders : IsPending(o)
  /\ session' = [o \in Orders |-> IF IsPending(o) THEN orders[o].status ELSE "none"]
  /\ UNCHANGED <<orders, trades, position, funds, feed, subscribed, polling, work>>

Without(o) == [session EXCEPT ![o] = "none"]

\* No quote.
CycleSkips(o) ==
  /\ o \in Loaded /\ work["cycle"] = Idle
  /\ session' = Without(o)
  /\ UNCHANGED <<orders, trades, position, funds, feed, subscribed, polling, work>>

Offered(w, o) ==
  \/ w = "tick" /\ Ticked(o) /\ IsPending(o)
  \/ w = "cycle" /\ o \in Loaded /\ work["cycle"] = Idle

\* The status as w has it: a cycle goes by what it has read, if it has not expired.
Read(w, o) ==
  IF w = "cycle" /\ session[o] # "expired" THEN session[o] ELSE orders[o].status

\* The commits and rollbacks of a cycle expire what it has read.
Expires(w, copies) ==
  session' = IF w = "cycle"
             THEN [o \in Orders |-> IF copies[o] = "none" THEN "none" ELSE "expired"]
             ELSE copies

-----------------------------------------------------------------------------
(***************************************************************************)
(* _process_order and _execute_order, by any of the threads.               *)
(***************************************************************************)

\* Mutant: the trades are not looked at.
ChecksNothing(w, o) ==
  /\ Offered(w, o) /\ Unchecked(w, o)
  /\ Becomes(w, Job("checked", o, Read(w, o), Flat))
  /\ session' = IF w = "cycle" THEN Without(o) ELSE session
  /\ UNCHANGED <<orders, trades, position, funds, feed, subscribed, polling>>

\* There is no trade yet.  The status is not looked at again.
Checks(w, o) ==
  /\ Offered(w, o) /\ Unchecked(w, o)
  /\ trades[o] = 0
  /\ Becomes(w, Job("checked", o, Read(w, o), Flat))
  /\ session' = IF w = "cycle" THEN Without(o) ELSE session
  /\ UNCHANGED <<orders, trades, position, funds, feed, subscribed, polling>>

\* It already has a trade: only its status is put right.
FindsTrade(w, o) ==
  /\ Offered(w, o) /\ trades[o] > 0
  /\ \/ /\ Read(w, o) = "open"
        /\ orders' = [orders EXCEPT ![o].status = "complete"]
        /\ Tells(w, o, FALSE)
        /\ Expires(w, [session EXCEPT ![o] = "none"])
     \/ /\ Read(w, o) # "open"
        /\ session' = IF w = "cycle" THEN Without(o) ELSE session
        /\ UNCHANGED <<orders, feed, subscribed>>
  /\ UNCHANGED <<trades, position, funds, polling, work>>

Ends(w, o, rests) == Becomes(w, Idle) /\ Tells(w, o, rests)

Marked(o, status) == orders' = [orders EXCEPT ![o].status = status]

\* The market does not meet the order.
Passes(w, o) ==
  /\ At(w, "checked", o)
  /\ Ends(w, o, IsPending(o))
  /\ UNCHANGED <<orders, trades, position, funds, polling, session>>

\* Out of the stop-loss book: the trigger is met, the limit is not.
Triggers(w, o) ==
  /\ At(w, "checked", o)
  /\ w \in Engines /\ work[w].read = "trigger pending"
  /\ Marked(o, "open")
  /\ Ends(w, o, TRUE)
  /\ Expires(w, session)
  /\ UNCHANGED <<trades, position, funds, polling>>

\* A placement executes what it took into the regular book only.
Executable(w, o) ==
  At(w, "checked", o) /\ (w \in Requests => work[w].read = "open")

\* The first commit of _execute_order.
TradeCommits(w, o) ==
  /\ Executable(w, o)
  /\ trades' = [trades EXCEPT ![o] = @ + 1]
  /\ Marked(o, "complete")
  /\ Becomes(w, Job("traded", o, "new", Flat))
  /\ Expires(w, session)
  /\ UNCHANGED <<position, funds, feed, subscribed, polling>>

\* It is not made: the order is marked rejected, or that fails too.
TradeFails(w, o) ==
  /\ Executable(w, o)
  /\ \/ Undisturbing(w, o) /\ Marked(o, "rejected") /\ Ends(w, o, FALSE)
     \/ UNCHANGED orders /\ Ends(w, o, IsPending(o))
  /\ Expires(w, session)
  /\ UNCHANGED <<trades, position, funds, polling>>

MayRealize(r, pnl) ==
  /\ ~Opposes(r.side) => pnl = 0
  /\ pnl > 0 => funds.realized < MaxRealized
  /\ pnl < 0 => funds.realized > -MaxRealized

\* _update_position reads the order and the position, and gives back the margin
\* of what is closed, in a commit of its own.
Pays(w, o) ==
  LET r == orders[o]
  IN  /\ At(w, "traded", o) /\ NobodyNets
      /\ \E pnl \in Profits :
           MayRealize(r, pnl) /\ funds' = Paid(funds, r, r.qty, pnl)
      /\ Becomes(w, Job("paid", o, "new", Netted(r, r.qty)))
      /\ Expires(w, session)
      /\ UNCHANGED <<orders, trades, position, feed, subscribed, polling>>

\* One of the two does not commit: the order is marked rejected, its trade stays.
FillFails(w, o) ==
  /\ At(w, "traded", o) \/ At(w, "paid", o)
  /\ \/ Undisturbing(w, o) /\ Marked(o, "rejected") /\ Ends(w, o, FALSE)
     \/ "fillDies" \in Admitted /\ UNCHANGED orders /\ Ends(w, o, IsPending(o))
  /\ Expires(w, session)
  /\ UNCHANGED <<trades, position, funds, polling>>

\* The position is committed and the engine is told, which may wait for the
\* answer to a subscription.
Nets(w, o) ==
  /\ At(w, "paid", o)
  /\ position' = work[w].after
  /\ feed' = Held(feed, position'.qty) /\ Subscribes
  /\ Becomes(w, Job("netted", o, "new", Flat))
  /\ Expires(w, session)
  /\ UNCHANGED <<orders, trades, funds, polling>>

\* reconcile_margin, whose own failure is swallowed.
Reconciles(w, o) ==
  /\ At(w, "netted", o)
  /\ funds' \in {funds, Reconcile(funds, position.margin)}
  /\ Ends(w, o, IsPending(o))
  /\ Expires(w, session)
  /\ UNCHANGED <<orders, trades, position, polling>>

-----------------------------------------------------------------------------
\* The process starts again: the index is rebuilt from the tables.
Restart ==
  /\ "fillDies" \in Admitted \/ \A w \in Workers : work[w].step \notin {"traded", "paid"}
  /\ feed' = Rebuilt
  /\ subscribed' \in (IF feed'.refs = 0 THEN {FALSE} ELSE Answers)
  /\ polling' = FALSE
  /\ session' = [o \in Orders |-> "none"]
  /\ work' = [w \in Workers |-> Idle]
  /\ UNCHANGED <<orders, trades, position, funds>>

Init ==
  /\ orders = [o \in Orders |-> Blank]
  /\ trades = [o \in Orders |-> 0]
  /\ position = Flat
  /\ funds = [available |-> Capital, used |-> 0, realized |-> 0]
  /\ feed = Index({}, 0, 0)
  /\ subscribed = FALSE
  /\ polling = FALSE
  /\ session = [o \in Orders |-> "none"]
  /\ work = [w \in Workers |-> Idle]

Request(o) ==
  \/ \E side \in Sides, qty \in Quantities :
       \/ \E w \in Requests, status \in Pending : Places(w, o, side, qty, status)
       \/ PlaceBreaks(o, side, qty)
  \/ \E qty \in Quantities : Modify(o, qty)
  \/ Cancel(o)

Evaluation(o) ==
  TickForgets(o) \/ CycleSkips(o) \/ \E w \in Engines : Checks(w, o) \/ FindsTrade(w, o)

\* A thread goes on with the order it has at hand.
GoesOn(w, o) ==
  \/ Passes(w, o) \/ Triggers(w, o)
  \/ TradeCommits(w, o) \/ TradeFails(w, o)
  \/ Pays(w, o) \/ FillFails(w, o) \/ Nets(w, o) \/ Reconciles(w, o)

Next ==
  \/ \E o \in Orders : Request(o) \/ Evaluation(o) \/ \E w \in Workers : GoesOn(w, o)
  \/ CycleReads \/ FeedLost \/ FeedBack \/ Restart

Spec == Init /\ [][Next]_vars

(***************************************************************************)
(* The threads go on.  An order is evaluated again and again, by the ticks *)
(* of a subscribed symbol while the feed is not lost and by the cycle that *)
(* has read it, and the market keeps meeting every order that rests: one   *)
(* that is evaluated for ever is at last found met.                        *)
(***************************************************************************)
CycleGoesOn ==
  CycleReads \/ \E o \in Orders : CycleSkips(o) \/ Checks("cycle", o) \/ FindsTrade("cycle", o)
                                 \/ GoesOn("cycle", o)

Evaluated(o) == Checks("cycle", o) \/ (~polling /\ Checks("tick", o))

Met(o) == \E w \in Engines : TradeCommits(w, o)

Fairness ==
  /\ WF_vars(CycleGoesOn)
  /\ \A w \in Workers \ {"cycle"} : WF_vars(\E o \in Orders : GoesOn(w, o))
  /\ \A o \in Orders : SF_vars(Evaluated(o)) /\ SF_vars(Met(o))

LiveSpec == Spec /\ Fairness

-----------------------------------------------------------------------------
(***************************************************************************)
(* Properties.                                                             *)
(***************************************************************************)

\* Type correctness; the reserve never goes below zero.
TypeOK ==
  /\ orders \in [Orders -> Order]
  /\ trades \in [Orders -> Nat]
  /\ position \in [qty : Int, margin : Nat]
  /\ funds \in [available : Int, used : Nat, realized : Int]
  /\ feed \in [orders : SUBSET Orders, refs : Nat, position : {0, 1}]
  /\ subscribed \in BOOLEAN /\ polling \in BOOLEAN
  /\ session \in [Orders -> Copies]
  /\ work \in [Workers -> [step : Steps, order : Orders \cup {Nothing}, read : Statuses,
                            after : [qty : Int, margin : Nat]]]
  /\ \A w \in Workers : work[w].step # "idle" => work[w].order \in Orders

\* "Check if this order already has a trade (prevent duplicates)": ticks, cycles
\* and the placement itself, at work side by side, restarted and failing, never
\* trade an order twice, unless one of them checks while another is between its
\* check and the commit of its trade.
FillsOnce == \A o \in Orders : trades[o] <= 1

\* Cash and reserve are what the account began with and what it realized: no
\* sequence of refusals, repairs and failed fills makes money or loses any.
Conserved == funds.available + funds.used = Capital + funds.realized

\* What rests is in the index, but for an order whose placement has yet to tell
\* the engine, and each order and the position are counted once: also after
\* fills the index was not told of, a restart, and a position that opens and
\* closes in the hands of several threads.
FeedFollowsBook ==
  /\ \A o \in Orders :
       IsPending(o) => o \in feed.orders \/ \E w \in Requests : Has(w, o)
  /\ feed.position = (IF position.qty # 0 THEN 1 ELSE 0)
  /\ feed.refs = Cardinality(feed.orders) + feed.position

\* A complete order is not yet filled while its position is still to be moved.
Unfilled(o) == \E w \in Workers : At(w, "traded", o) \/ At(w, "paid", o)

Phase(o) ==
  CASE orders[o].status = "new" -> "none"
    [] IsPending(o) -> "resting"
    [] orders[o].status = "complete" -> IF Unfilled(o) THEN "resting" ELSE "filled"
    [] OTHER -> "dead"

\* Lots bought, or sold if negative.
Size(o) == orders[o].side * orders[o].qty

Contract == INSTANCE OrderContract WITH
  phase <- [o \in Orders |-> Phase(o)],
  size <- [o \in Orders |-> Size(o)],
  lots <- position.qty

\* An order is filled once and whole, or withdrawn, for good, and the position
\* moves with the fills and with nothing else, whichever thread fills and
\* whatever the others do between its commits.
KeepsOrderContract == Contract!Spec

\* The symbol is wanted and its ticks do not come.
Unheard == feed.refs > 0 /\ ~subscribed

\* An order that the market keeps meeting does not rest for ever: it is always
\* in the reach of the ticks or of a cycle, unless the subscription has failed.
RestingOrderFills == \A o \in Orders : IsPending(o) ~> ~IsPending(o) \/ Unheard
=============================================================================
