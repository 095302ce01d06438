# AlgoRivar in TLA+

AlgoRivar is an algorithmic trading platform: a Flask application that sends orders to a broker, and, in
*analyzer mode*, to a **sandbox** that plays the broker itself with virtual money. In the sandbox the program
is not a client of a correct system but the system: it keeps the account, the orders, the positions and
the triggers in SQLite, and several threads work on them at once. That is where its own core logic is, and
where this development starts. The second half is what the platform does by itself with orders, sandboxed or
not: it holds them for an approval, publishes what becomes of them, and starts workflows on such events.

## 1. Inventory

| Component | State it keeps | Operations | What is hard | What makes it correct |
|---|---|---|---|---|
| GTT manager (`sandbox/gtt_manager.py`) | `sandbox_gtt`, `sandbox_gtt_legs` | place, modify, cancel; claim and fire; reclaim legs, reclaim parents, expire | three kinds of evaluators race for one trigger; a fire is six transactions and may die between any two; recovery must guess how far it got | one order per GTT; none after an end; an armed GTT is funded; nothing stays stuck |
| Fund manager (`sandbox/fund_manager.py`) | the row of `sandbox_funds` per user | block, release, transfer, credit, value, reset; stage a GTT's delta; reconcile | read-modify-write under a class lock, next to updates that take no lock | the row is what the successful calls add up to; cash is not reserved twice |
| Order manager (`sandbox/order_manager.py`) | `sandbox_orders` | place (blocks margin, may execute at once), modify, cancel (releases) | margin and order land in different commits; cancel against fill | the margin of an order is blocked once and given back once |
| Polling engine (`sandbox/execution_engine.py`) | `sandbox_trades`, `sandbox_positions` | match, fill, update the position, release and reconcile margin | the same order is seen by polling, by ticks and by the placing thread | one trade per order; margin follows the position |
| WebSocket engine (`sandbox/websocket_execution_engine.py`) | index of orders and legs per symbol, subscription counts | index, drop, subscribe, unsubscribe, fall back to polling | the index is a cache of the tables, kept by notifications | what rests is watched, what is watched is subscribed |
| Threads (`sandbox/execution_thread.py`, `catch_up_processor.py`) | running flags | start, stop, upgrade; maintenance every minute; catch-up at boot | they overlap each other and every request | |
| Holdings (`sandbox/holdings_manager.py`) | `sandbox_holdings` | settle T+1, at midnight or later | one commit for each transfer, which commits more than it means to; the shares of a holding are also for sale | shares are neither lost nor sold twice; what is settled has been paid |
| Positions, square-off (`sandbox/position_manager.py`, `squareoff_*.py`) | positions, daily P&L | mark, close, settle at expiry, square off MIS | scheduled jobs against running engines | nothing is closed twice |
| Action Center (`database/action_center_db.py`, `services/pending_order_execution_service.py`) | `pending_orders` | create, approve, reject, delete, execute | each is a read, then a write | a rejected order is not executed, an approved one once |
| Event bus (`utils/event_bus.py`) | pending and dropped counts | publish, run, drop | a bounded pool shared by all publishers | the count never leaks |
| Flow (`services/flow_*`) | alerts, jobs, running workflows | register, trigger, run | one-shot triggers against re-registration | an alert fires once |
| Scalping risk monitor (`services/scalping_risk_monitor_service.py`) | `scalping_sl_state`, and a copy of it in memory | save and remove stops, sync, trail, exit, clear | ticks, syncs, saves and exits are threads of their own; the copy and the table are written in two steps; an exit acts on what it read before | what is watched is what is saved; a stop goes only with its position; a breach is served |
| Copy trading, WebSocket proxy, market data | caches, connections | | input and output dominate | |
| Brokers, login, history, bots, web and REST front ends | | | input and output | |

**Interaction.** A request thread calls the managers directly. The evaluators (polling, tick callback,
catch-up) call `try_claim_trigger` and `fire_leg`, which calls the order manager, which calls the fund
manager. The sweepers (maintenance thread, polling pass, boot) call the reclaim and expiry functions.
Nothing else is shared than the tables: coordination is by conditional `UPDATE ... WHERE status = ...`,
by the unique `gtt_leg_id` of an order, and by `FundManager._lock`. The order manager and the engine tell
each other of orders and positions by notification calls; settlement meets the order manager in the tables only.

An order in semi-automatic mode goes to the Action Center; approved, it goes to the broker; the broker's update
comes back as a postback, which is published on the event bus; the order-update monitor is one of its
subscribers and hands a run of the workflow that watches for it to a pool; the executor runs it under the
workflow's lock. The price monitor, requests, webhooks and schedules start runs too.

**Who interrupts whom.** `start.sh` serves the program with gunicorn and one eventlet worker: green threads give way
only where they wait, and a query or commit of SQLite is not such a place. `ActionCenter` has that grain: a request is one step between two
waits for the broker, and the overlap that real threads (the development server's) would add is behind a hazard. But the client of the market feed
takes the original `threading` for its loop (`websocket_client.py:22-30`, `:99`), also under eventlet, and calls every tick callback from it
(`:493-495`): ticks run on a thread of the operating system beside everything else. `SandboxOrders` and `StopMonitor`, which live on ticks, have
therefore the grain of threads, and so have `SandboxGTT` and `SandboxFunds`, whose code coordinates by locks and conditional updates, and `EventBus` and
`FlowTriggers`, whose code has locks and pools. In `SandboxDelivery` a request, a fill and a settlement are each one step: how the steps of a fill meet
those of other fills is the question of `SandboxOrders`, and `SandboxDelivery` is about what days and settlements make of their results.

The hazards of this code, each at its line with the property that watches it, are listed in
`PROJECT.json`.

## 2. Modules

| Module | What it is |
|---|---|
| `GttContract` | what a GTT promises its user: it rests, then fires once or ends once |
| `SandboxGTT` | the claim protocol, the user's calls, expiry, recovery, and the margin they move |
| `SandboxGTTExclusion` | the inductive invariant `Exclusion` of the protocol, and the hypotheses it needs |
| `SandboxGTTFunding` | the inductive invariants behind its money: who holds a reservation while its GTT is fired, and what a request has read of it |
| `SandboxGTTProofs`, `SandboxGTTFundingProofs` | the theorems about it: the protocol, and its money |
| `FundsLedger` | what the account promises: every movement is one indivisible entry |
| `SandboxFunds` | the fund manager at the grain of reads, locks and commits |
| `SandboxFundsProofs` | the theorems about it |
| `OrderContract` | what the order book promises: an order is filled once and whole or withdrawn, the position moves with the fills |
| `SandboxMargin` | what an order and its fill do to one position and to the account |
| `SandboxOrders` | intraday orders: requests, ticks, polling fallback, fill, and the engine's index |
| `SandboxOrdersProofs` | the theorems about it |
| `SandboxDelivery`, `SandboxDeliveryProofs` | delivery (CNC) orders, positions, holdings, and their settlement; the theorems about them |
| `SumLemmas` | sums over finite sets, for every ledger that is one |
| `StopMonitor`, `StopMonitorProofs` | the stops of the scalping terminal: table, copy, sync, ticks and exits; the theorems about them |
| `ApprovalContract` | what the Action Center promises: decided once, sent once, told the truth |
| `ActionCenter` | its requests at the grain of their waits |
| `EventBus` | the bounded pool and its count |
| `FlowTriggers` | both monitors, activation, the executor's lock, on the bus |
| `TradingDesk`, `TradingDeskProofs` | Action Center, bus and monitors in one process; the theorems about each of them and about the whole |
| `MCSandboxGTT`, `MCSandboxFunds`, `MCSandboxOrders`, `MCTradingDesk` | the instances TLC checks |

### SandboxGTT

An action is one database transaction, or one read whose result is kept in a local variable. The tables are
`gttStatus`, `gttMargin`, `legStatus`, `legMargin`, `marked` (the leg's `triggered_order_id`), `order` (the
`margin_blocked` of the order row that carries the leg's `gtt_leg_id`), and `funds`; `stale` and `due` stand
for the two clocks (claim timeout, expiry). `pc` and `my` are where each thread is and its locals, and
are what a crash loses. `leaked` is not in the code: it counts the margin that a crash or a failed write left
blocked for a row never written.

| Code | Actions |
|---|---|
| `place_gtt` | `PlaceGtt` (one commit) |
| `modify_gtt`, `cancel_gtt`, `expire_due_gtts` | a read (`ModifyRead`, `CancelRead`, `ExpireRead`), then one conditional transaction (`ModifyCommit`, `CancelCommit`, `ExpireCommit`) |
| `try_claim_trigger` | `Claim` |
| `fire_leg` | `CheckLeg`, `ClaimParent`, `ReadReservation`, `ReleaseReservation` or `ReleaseFails`, then the order: `OrderRefused`, `OrderPriced`, `BlockMargin`, `InsertOrder`, then `Finalise` or `FinaliseFails` |
| `_compensate_failed_fire` | `Compensate`, `BlockMargin`, `PersistRestored` or `PersistUnfunded` with `RejectGtt`, `RevertParent`, `RevertClaim` |
| `reclaim_stranded_legs`, `reclaim_stranded_parents` | `ReclaimLegs`, `QueryStranded`, then for each GTT `SweepSkips`, `SweepFinalises`, or `SweepInspects`, `BlockMargin`, and `Rearm` or `SweepRejects` |

What the child order does afterwards (it fills, it is cancelled, its execution marks it rejected) belongs to
`SandboxOrders`; here its row, once inserted, stays. Prices are left out: any pending leg may be crossed
at any time, so an evaluator can act on any schedule of ticks. The mapping to `GttContract` reads
"fired" off the order table, the only durable evidence: a GTT is *fired* when an order row of one of its
legs exists, *resting* while it is active or triggered without one.

**Hazards a configuration admits.** `Admitted` selects which adverse events may happen: `crash`,
`insertFails`, `answerLost` (the order is committed and reported as failed), `databaseFails` (any other read
or commit raises), `requestsOverlap` (modify, cancel and expire overlap), `sweepOverlap` (the sweep of
stranded parents overlaps a fire or another such sweep). Admitting all of them at once would only show the
first thing that breaks; so each run admits those under which its question is meaningful, and for each one
that breaks a promise of the code a run says so.

The code does not prevent the last two: requests are served concurrently, and the maintenance thread
runs beside the engines. A configuration without them describes the schedules where they happen not to
overlap, and what is checked or proved without them holds of those only.

### SandboxFunds

One row, one class-wide lock, one database writer. A locked operation is `Enter`, `ReadRow` (with the
sufficiency check), `WriteRow` or `WriteFails`; the session writes back the columns it has changed (`Flushed`).
`stage_margin_delta` is `Stage`, then `CommitStage` or `RollbackStage` by its caller. A reset is `ResetRead` and
`ResetWrite`, the read before the lock. `book` is not in the code: it is the account as the successful calls,
taken as indivisible entries, make it, and it maps to `FundsLedger`. `total` follows the code in being
brought up to date by two operations only.

### SandboxMargin and SandboxOrders

One user, one intraday symbol. `orders` are the rows (`held` is `margin_blocked`), `trades` the number of trades
of each, `feed` the WebSocket engine's index of orders, its reference count for the symbol and whether the
position has a reference. `subscribed` says that the symbol's ticks come, which the count alone does not. `session` has the orders as a polling cycle has read
them: a status, or an expired instance, which is read again when it is used. `work` is the order that each thread has at hand (the feed's thread, the polling
cycle, each request that places) and how far it is with it.

| Code | Actions |
|---|---|
| `place_order` | `Places` (the margin, then the row), then `Passes`, or the steps of an execution, by the same thread; `PlaceBreaks` (the margin is committed, then the insert fails) |
| `modify_order`, `cancel_order` | `Modify`, `Cancel` |
| `_check_and_execute_order`, `check_and_execute_pending_orders` | `TickForgets`; `CycleReads`, `CycleSkips`; then for each order `Checks` or `FindsTrade` |
| `_process_order`, `_process_trigger_pending_order`, on an order that has no trade yet | `Passes` (not met), `Triggers` (out of the stop-loss book), or an execution |
| `_execute_order` | `TradeCommits` (the trade and the status) or `TradeFails` |
| `_update_position` | `Pays` (reads order and position, and commits what is given back), `Nets` (commits the position and tells the engine), `Reconciles`; `FillFails` |
| `notify_order_placed`, `notify_order_completed`, `notify_position_opened`, `notify_position_closed` | `Tells`, `Held`, with `Subscribes`, inside the step that ends with them |
| `_start_fallback`, `_stop_fallback`, `_rebuild_order_index` | `FeedLost`, `FeedBack`, `Restart` (at any point of any thread) |

Prices are abstracted to whether the market meets an order, which any evaluation may find or not; a lot's margin
is one unit, and parts of it are rounded down (the code's are decimals). The mapping to
`OrderContract` is `Phase`: *resting* while open or trigger pending, and while its trade is committed and the position has yet to move;
*filled* when complete and netted, *dead* when cancelled or rejected.

**What the code does not prevent** is behind six hazards. Each one but the last was admitted alone and breaks what is said of it:

| Hazard | In the code | Breaks |
|---|---|---|
| `checksOverlap` | a second evaluator looks for the order's trade (`execution_engine.py:366`) before the first has committed it (`:586`); `sandbox_trades.orderid` is not unique | `FillsOnce`, `KeepsOrderContract`, `FeedFollowsBook` |
| `changedUnderway` | an order is modified, cancelled or rejected while another thread, which has read it, is still at it; its status is not looked at again | `KeepsOrderContract` (a cancelled order is filled), `FeedFollowsBook` |
| `fillsOverlap` | a fill reads the position (`:692`) while another is between its read and its commit (`:921`): the lots of one are lost | `KeepsOrderContract` |
| `fillDies` | the process dies, or marking the order fails too, between the trade's commit and the position's: a complete order whose lots are in no position | `KeepsOrderContract` |
| `noticeLost` | `place_order` swallows a failing notice (`order_manager.py:803`) | `FeedFollowsBook`, `RestingOrderFills` |
| `subscribeFails` | a subscription is refused (`websocket_execution_engine.py:669`): logged, not tried again, and the count stays | nothing: `RestingOrderFills` excepts such a symbol (`Unheard`), and the run admits the hazard |

A configuration without one of them describes the schedules where it happens not to occur. All others are there: ticks, cycles and placements
at different orders between any two commits, failures of each commit, a position that another thread has moved by the time a fill is reconciled, a
cycle's copy that a tick has made old, a restart at any of these points. `FillsOnce` and `Conserved` hold with every hazard but `checksOverlap` admitted.

Kept as one step: the margin of a placement and its row (`PlaceBreaks` is the outcome in which the second fails); a modification or a
cancellation, which reads and writes (what falls between the two is `changedUnderway`); the commit of the position and the notice to the engine,
between which nothing of the model looks at either; and the read and write of a reconciliation (`SandboxFunds` tears those). The
wait for a subscription, up to 12 s, is behind `Nets`: any other thread may work between the position's commit and the reconciliation.

### SandboxDelivery

One user, several stocks. `book`, `positions`, `holdings` and `account` are the rows; `old` says that a position
was created before today, which is all that settlement asks of the date, and which a position that closes and
reopens keeps.

| Code | Actions |
|---|---|
| `place_order`, a buy; a sell, accepted or put on record as rejected | `Buys`, `Sells` |
| `modify_order`, `cancel_order` | `Modifies`, `Cancels` |
| `_execute_order`, `_update_position`, `reconcile_margin` | `Executes`, with the definitions of `SandboxMargin` (`Stock(s)`) |
| midnight | `DayPasses` |
| `process_t1_settlement`, by the midnight job, `catch_up_t1_settlement` or `catchup_missed_settlements` | `Settles` |

A settlement goes through the due positions, in any order (the query states none): `Moved` changes holding and account of one
position, `Cleared` deletes what is left. `Torn` is what a process leaves that dies inside it: each transfer or
credit commits the shared session, with the holding before it and without the deletion after it. Nothing obliges a
settlement to come: the server may be down for days. `process_session_settlement`, which would settle otherwise, is called by nothing.
The hazards are `sellsOverlap`, `underfunded` and `settlementDies`; admitted one at a time, each breaks one of
the three properties: `NeverOversold` (a run shows it), `SharesPaidFor`, `SharesKept`.

### StopMonitor

Long legs, for which a stop is a price that only rises. `table` is the level of the stop of each leg in each mode, `watched` the monitor's
copy, `sync` the background worker with the rows it has loaded, `exits` the legs in `_exit_inflight` with what
their threads know. `net`, `sent` and `asked` are outside: the position, and exit orders at the broker and in the Action Center.

| Code | Actions |
|---|---|
| `upsert_sl`, `delete_sl` with `request_sync`; `set_analyze_mode` | `Saves`; `Toggles` |
| `_sync_worker`, `sync` | `WorkerBegins`, `Loads`, `Assigns`, `WorkerEnds` |
| `_on_tick`, `_maybe_persist`, `_dispatch_exit` | `Trails`, `Breaches` |
| `_exit_worker` | `NotNow` or `PassesCheck`, `Reads`, then `ExitTaken`, `ExitQueued` or `ExitRefused` |
| `_clear_state` | `DeletesRow`, `DropsCopy` |
| `start` at boot | `StopRestart` |
| the broker and the user | `Trades`, `Fills`, `Rejects` |

A save and its request for a sync are one step, as is a tick. `overlaps` (another write falls between the load and the
assignment of the copy, or between the deletion of a row and that of its copy) breaks `WatchesWhatIsSaved`: a sync takes a trail back
or watches a stop that was cleared, or a late trail saves a deleted row again. `modeFlips` breaks it too, with two legs: `_clear_state` deletes
the row in the mode of the exit and drops the copy by its key, whatever mode the copy is of by then, so a mode that is changed there and
back under an exit takes the stop of the other mode out of the watch. Each of the other four hazards breaks `GivenUpWhenClosing`:
a position book that fails reads as flat (`readFails`), the mode changes after the exit's check (`modeFlips`), the user trades
after the exit has read the position (`movesInExit`), a split order is reported as a success when parts of it were refused
(`partlyTaken`). The code prevents none of them.

### ActionCenter

`rows` are the statuses of `pending_orders`, `taken` how many child orders the broker took of each (-1: never
sent), `handlers` the requests. `deleted` and `abandoned` are not columns: they remember which rows are
gone and which executions a restart cut off.

| Code | Actions |
|---|---|
| `queue_order` | `Asks` |
| the routes approve, approve-all, reject | `ApproveOne`, `ApproveAll`, `RejectOne`; then `Finds` or `Misses`, `Decides` |
| `execute_approved_order` | `LacksLogin`, `Executes`, `Sends` (the broker takes any number of the children), `FindsMatched`, `Tells` |
| `delete_pending_order` | `Deletes` |

The mapping to `ApprovalContract` is the row's status and broker status. Admitting `decisionsOverlap`
(two requests between query and commit, as threads would be) or `answerLost` (the broker takes an order and
the call fails) breaks it: the order is sent twice, or the row says rejected of an order that stands.

### EventBus, FlowTriggers, TradingDesk

`EventBus` is the code of `publish` and `_safe_call` section by section: `Publish` copies the subscribers, `Admit` reserves a
slot or drops, `Hand` gives the callback to the pool or returns the slot, `Start`, `Return`; `ClosePool` is the
interpreter shutting down. `deliveries` is where each callback of each event is; `pending` and `dropped` are the code's counters.

| Code | Actions of `FlowTriggers` |
|---|---|
| `activate_workflow`, `deactivate_workflow` | `Registers`, `Activates`; `Unregisters`, `Deactivates` (the trigger is registered before `is_active` is set, and removed before it is cleared) |
| `_on_order_update`, `_fire` | `OnOrderUpdate` (claims under the lock), then `Over` when the run ends |
| `_check_all_alerts`, `_check_alert`, `_trigger_workflow` | `Checks`, `Expires`, `CheckPasses`, `CheckMeets`, `CheckRemoves` |
| `execute_workflow` | `Enters`, `TurnsBack`, `Acquires`, `Leaves` (the lock is looked at, then waited for) |
| Run Now, webhooks, schedules | `Requests` |
| `restore_order_update_watches` | `Restart` |

`nr` counts the registrations of a trigger, so that a run knows which of them it came from; the code compares watch
objects. `executed` is not in the code: it counts the runs of a one-shot trigger since its activation. The hazards
are `reactivatedInFlight` and `restartedSpent`: the first breaks `OneRunInFlight`, `OneShotRunsOnce`
and `UnclaimedWatchStays`, the second `OneShotRunsOnce`.

`TradingDesk` puts the three in one process: `Updates` publishes what the broker took, and a restart restarts
all. `orders` of the Action Center and `events` of the bus are the same ids, so a loop from approval to workflow is in the model.

## 3. Runs

| Run | Instance | Shows |
|---|---|---|
| `gtt_claim` | one OCO; 2 evaluators, 2 requests, 1 sweeper; crash, failed INSERT, overlapping requests | one order per GTT, no order after an end, contract implemented |
| `gtt_funded` | one OCO, margins 1 and 2, capital 2; 1 thread of each kind; crash, failed INSERT, lost answer | the ledger is exact; armed means funded; what a cancel or an expiry releases is current |
| `gtt_recovery` | one OCO; 1 thread of each kind; crash, failed INSERT, any failing commit; fairness | stranded fires recover, claims are temporary, expiries are served |
| `gtt_slow_fire` | sweep overlaps fire | **violated**: two orders for one GTT |
| `gtt_stale` | modify overlaps cancel | **violated**: the margin read is not the current one |
| `gtt_unfunded` | failing commits | **violated**: an active GTT with no margin |
| `gtt_lost_answer` | `place_order` raises after its commit | **violated**: two orders for one GTT |
| `funds_ledger` | 3 threads, amounts 1 and 2, capital 2 | no update lost; the ledger implemented |
| `funds_torn` | a staged delta overlaps a locked operation | **violated**: an update lost |
| `orders_book` | four scenes: 2 intraday orders of 1 lot by a placing thread, ticks and the fallback; 2 of 1 or 2 lots without the fallback, profits -1 and 0; capital 2, refused subscriptions; 3 delivery orders of 1 or 2 lots in 2 stocks, capital 2; the stop of 1 leg at 2 levels, 1 lot, restarts, fairness | traded once, money conserved, the index follows the book, the contract is kept, what is met is filled while its ticks come; shares are kept, paid for and not sold twice; stops are watched as they are saved, given up only with their position, and served |
| `delivery_oversold` | 1 stock, 3 orders of 1 lot; sells overlap | **violated**: one share is bought and two are sold |
| `desk_loop` | six scenes: 2 approvals by 2 requests, the loop from order to workflow, shared, registered-again and crowded watches, a price alert; restarts; fairness | decided and sent once, one-shot triggers run once, slots are kept, claims are released, an update starts the workflow that waits for it |

The violations are disagreements between the code and its own comments or docstrings; `findings` in `PROJECT.json`
quotes each. One of them needs nothing but ordinary use (`delivery_oversold`: two resting sells), two need
ordinary scheduling (`gtt_stale`, `funds_torn`), one needs a fire that takes
longer than the wait for the next sweep (`gtt_slow_fire`), two need a database error at one point
(`gtt_unfunded`, `gtt_lost_answer`).

**Bounds.** One OCO has everything the protocol distinguishes: two legs that exclude each other, one parent, one
reservation. A second GTT shares only the account with it, and the theorems cover any number. Two evaluators
are needed for a race and two requests for an overlap; a third adds no new pair.
Margins 1 and 2 with capital 2 make both "enough" and "not enough" happen, at a fire, at its undoing and at recovery.
A GTT is placed once (a trigger id is never reused), so the state space is finite but for `leaked`: a crash
leaks at most what the account held, and `MaxLeaked` stops a failing database from leaking for ever. In `SandboxFunds`,
`MaxBalance` and `MaxPnl` bound what credits and profits may add. Symmetry permutes the two legs of
the OCO and threads of one kind, which no definition tells apart; the liveness run uses none. Deadlock is
checked everywhere.

Two intraday orders net, reverse and close a position, and rest while the other fills; sizes 1 and 2 make
partial closing and reversal happen. `MaxLots` and `MaxRealized` bound the position at which orders are still placed
and the total that may be realized, `MaxStranded` how much broken placements may strand. With the threads at every step of a fill, lots and the fallback are each a factor too much for one
scene: `orders` has all three threads with lots of one and no profit (`Single`), `lots` has sizes and profits with the placing thread and ticks.
One placing thread, ticks and a cycle are three evaluators for two orders, so any two of them meet at one order and at one position. The two order ids are interchangeable, and `InTurn` uses one
of them first. Three delivery orders are a buy, a
sell before settlement and one after it; two stocks make a settlement a batch of two. Two levels let a stop trail once, and one lot
makes a position or none; the leg is traded live (the sandbox position stays flat), so that stops of both modes are saved and exits of both are made, those of analyzer mode
on a flat position. It has at most one exit order at the broker and one that waits for approval. The scenes of
`orders_book` and `desk_loop` share a run but not a behaviour: in a scene the components that meet in it are
complete and the others rest, so the states add up instead of multiplying (67,240 states in `orders_book`, 72,103 in `desk_loop`); the theorems cover all of them together. In `desk_loop`
the cap of the bus is 1, so that one update sheds the next, the pool has two threads, so that callbacks overlap, and each
trigger is registered at most twice, so that an old run meets a new registration. `o1` stands for one order at the broker and is a smart one;
`o2` is a batch of two, so that it can be taken in part.

**What the hypotheses leave out was tried.** For each hazard that the passing runs do not admit, an instance that admits it and nothing else was
checked and breaks what the section on its module says it breaks. That is why they are hypotheses of the theorems and
not simplifications.

**Fairness.** `FairSpec` assumes that a thread that began a call, a fire or a pass goes on (weak
fairness), that claims age, and that the sweeps come back: `GTTMaintenanceThread.run` loops for ever over the
three sweeps and survives the exception of any of them. They are strongly fair, because the loop visits
each of them again and again while other work of the same thread goes on in between, and in the model
a query waits for the fires in flight. Nothing obliges the user to call or the market to cross. Failures may
come at any time; the liveness properties of the GTTs speak of what follows once they cease (`<>[][Step]_vars`), as no
recovery survives a process that dies for ever.

`Fairness` of `SandboxOrders`: each thread goes on with the order it has at hand, and a polling cycle begins when it can (weak). An order
that can be evaluated again and again, by the ticks of a subscribed symbol while the feed is not lost, or by a cycle, is evaluated (strong: the feed's thread and the loop come back to each of their
orders, but are at another one in between), and the market keeps meeting every order that rests, so one that is evaluated for ever is at last found met (strong). Restarts and
losses of the feed may go on for ever. Ticks come only if the symbol's subscription was taken, and the property excepts an order whose symbol is wanted and
not subscribed: the freshness that starts the fallback is that of the whole feed, so neither reaches it. `FlowFairness`: the threads of the pools, the request server and the price monitor's loop go on
(weak), and who waits for a workflow's lock that is free again and again gets it (strong: `threading.Lock` promises no
order but does not starve the pools' few threads). `CenterFairness`: a request that was taken up is served, which is that the broker
answers or the call times out. `StopFairness`: the sync worker and an exit go on, the market stays beyond a stop that it has
passed (`Breaches`: the property is about such a stop), the broker takes an exit that it is sent again and again (strong: it does not refuse for ever) and fills what it took.
None of them obliges a user to act, an order to be approved or an event to come.

## 4. Theorems

All are checked by TLAPS, for every set of GTTs, legs, threads, orders, stocks, amounts and margins that the assumptions
allow. Every safety property and action property that a run checks is stated by one of them.

**The claim protocol** (`SandboxGTTProofs`).

* `TypeCorrect`, whatever is admitted: no balance and no reservation is ever negative.
  It rests on each release carrying its own `WHERE used_margin >= ...` and each block its own check.
* `ExclusionHolds`, under `SweepsApart` (the sweep of stranded parents overlaps no fire and no other such sweep), and `FiresOnce`,
  `NoOrderAfterEnd`, `Implements`, under `Undisturbed`: neither overlapping sweeps nor lost answers
  (both refuted by runs). Neither property is inductive: that an order implies a triggered parent is
  kept only because whoever could change the parent cannot be there. `Exclusion` says who can. Between the claim of the
  parent and its end a fire owns its GTT: no other fire has it, no sweep looks at it, it is `triggered`, and
  it has no order before `finalise`; a sweep that decided to re-arm a GTT still finds it triggered and without order.
  `Implements` then maps each action to a step of `GttContract` or to a stutter: `InsertOrder` is `FireLeg`, a won
  `Withdraw` and the two rejections are `End`, and everything else leaves the contract's state alone.

**Its money** (`SandboxGTTFundingProofs`).

* `FundingHolds`, `ArmedAndFunded`, under `Repairable`: sweeps run alone and the database answers, but processes die, inserts fail and answers are lost.
  While a GTT is fired its reservation is recorded nowhere in the tables for a while: `Funding` says at each step of the fire and of its undoing
  who has it (`Recorded`: the row; `Remembered`: the local variable of the one owner), and that it is enough for the larger leg.
* `CapturesHold`, `CaptureIsCurrent`, under `Accounted`: and requests do not overlap. Behind a request that has read a reservation its GTT
  may be fired and the fire undone, but the owner gives back what the request has read.
* `LedgerIsExact`, under `Accounted`: the reserve is the sum of what every row holds and every thread has blocked, and what crashes leaked. Each
  of the three hazards excluded breaks it on an instance.

**The account** (`SandboxFundsProofs`). `RowIsTyped`, whatever is admitted: even a torn update never commits a reserve below zero. `SerialHolds`,
`RowIsLedger`, `LedgerImplemented`, under `Admitted = {}`: with no overlap, a thread between its
read and its write is alone with the row, so its copy is the row, and writing back the changed columns is the
entry it stands for.

**Intraday orders** (`SandboxOrdersProofs`).

* `OrdersTypeCorrect`, `MoneyConserved`, whatever is admitted. The reserve never
  goes below zero because each release has its ceiling and the reconciliation sets it to a position's margin, which is not negative;
  cash may. `Sound` has the types with what the account is worth.
* `NeverTradedTwice`, under `ChecksApart`: no second evaluator looks for the trade of an order between the first one's check and its commit. Nothing
  else is assumed: the order may be changed under a thread, fills may overlap and die. `TradedOnce` says why the check is enough then: a thread that has made it
  is alone with an order that has no trade, at whichever of its steps the others are.
* `IndexFollowsBook`, under `Undisturbed` and `NoticesCome`: moreover no order changes under a thread that has read it, and the engine hears of what is placed.
  `AtHand` says that what a thread has checked still rests, and that a cycle's copy is of an order that rests or that a tick has traded since;
  `Book` and `Tracks` that an order which rests outside the index has its placement on the way to the engine.
* `OrdersImplementContract`, under `Undisturbed` and `FillsApart` (no overlap and no death between the read of the position and its commit). The fill is
  three commits, of which `Nets` is `Fill` of the contract: `Filling` says that the thread between them has its order alone and that what it will write is the position as it is, plus the
  order's lots. `Places` is `Take`, a failure after the trade is `Withdraw`, and the other steps leave the contract alone, the trade's commit included.

**Delivery and settlement** (`SandboxDeliveryProofs`), for finitely many stocks and orders for at least a lot. The settlement of one position
keeps the sum of position and holding, for each stock; `BatchKeeps` carries that through a batch of any number of positions in any order.

* `SettlementKeepsShares`, when no settlement dies half-way: position and holding together are the sum over the complete orders.
* `SharesAreSoldOnce`, without overlapping sells either: at most one sell of a stock rests, and it is of shares that are there (`SellsCovered`); a fill
  of a buy only adds to them, a settlement moves them.
* `SettlementIsPaidFor`, with none of the hazards: the reserve covers every position's margin and each margin its lots (`FundedIn`), so no transfer of a
  settlement is refused, and a position that is short has a holding it was sold from, so what it gets is a credit and not a transfer.
  Each hazard, alone, breaks it on an instance.

**Stops** (`StopMonitorProofs`), for any legs and levels.

* `WatchedIsSaved`, under `Apart` (no `overlaps`, no `modeFlips`). That copy and table agree is not inductive: every write breaks it for the moment. `Current`
  says why it comes back: a sync is due, or one has loaded what it will assign, or the copy agrees already; and while an exit is under way the copy is of its mode.
* `StopsClose`, under `Reliable` (the other hazards, and `modeFlips`): an exit that is confirmed has an order for the whole position, or the position is flat.

**Approval, bus and workflows** (`TradingDeskProofs`).

* `CenterTypeCorrect`, whatever is admitted; `CenterKeepsContract`, under `Orderly`: no overlapping decisions, no lost answers. The inductive invariant says
  where a row can be while a request is at work on it: at most one request decides or executes a row, and the row is pending,
  or approved and not yet sent or told, accordingly; deleting and restarting keep that.
* `SlotsAreAccountedFor`, `SlotsSurviveRestarts`, whatever is admitted: the bus's count is the cardinality of the
  callbacks that hold a slot, shown step by step with the facts about finite sets, alone and with the monitors.
* `TriggersTypeCorrect`, `OneShotsRunOnce`, `RunsDoNotStack`, `WatchesStay`, under `Calm`: nothing is registered again under a run in
  flight, no spent watch is restored. A run in flight belongs to the present registration, a trigger with one is claimed, and the
  count of runs is zero until the run of a one-shot trigger is inside.
* `DeskTypeCorrect`, `DeskKeepsContract`, `DeskRunsOnce`, `DeskWatchesStay`: a step of the whole is a step of one part and none of the others, or a
  restart of all, so what was proved of the parts holds of the composition.

The assumptions are those of the modules (`LegsAssumption`: a GTT has one or two legs; `ThreadsAssumption`;
`MoneyAssumption`; `FiniteAssumption`: GTTs, legs and threads are finite, without which a sum over them means nothing; `FundsAssumption`; `OrdersAssumption`;
`StopAssumption`; `CenterAssumption`; `BusAssumption`; `FlowAssumption`; `DeskAssumption`; `DeliveryAssumption`), which
the runs evaluate.

**Sums and batches.** The provers cannot use a theorem with an operator as its parameter, so the library's induction theorems are out of reach. `SumLemmas`
goes round this: induction is stated as a fact about *sets* (`NatSetInduction`: a set with 0 and the successor of each of its numbers
holds all of them, from the well-foundedness of `<`; `SubsetInduction` likewise for finite sets), and a proof by induction names the set of those for
which its claim holds. That is enough to show that the recursion behind `SumFunctionOnSet` has a solution, that the order of summation does not matter, and what the ledgers need:
a sum moves with one of its values. `BatchRuns` and `BatchKeeps` do the same for a settlement.

Only model-checked: the liveness properties `StrandedRecovers`, `ClaimIsTemporary`, `ExpiryIsServed`, `RestingOrderFills`, `BreachIsServed`,
`ApprovalSettles`, `ClaimsAreReleased` and `UpdateStartsWorkflow` (TLAPS does not reason about fairness or `ENABLED` here).

## 5. Not modelled, and the plan

What the modules simplify:

* In the modelled parts, formatting, logging, order book views and margin arithmetic from prices and leverage are abstracted to
  amounts. A delivery lot always trades at the same price, with leverage 1, as the default configuration has it.
* A commit that fails inside a settlement is left out: the rollback of `transfer_margin_to_holdings` takes back the staged
  holding and the deletions before it, and the settlement goes on as if they stood.
* `StopMonitor` leaves out the feed: its subscriptions, the wait for their acknowledgement, and reconnection. Targets, the pause between two
  attempts, and short legs are left out too; the terminal's own orders and closings are trades of the user.
* `SandboxDelivery` has a fill in one step, where `SandboxOrders` has one for each commit.
* `add_alert` and `remove_alert` of the price monitor touch `_alerts` and `_running` in several steps without a lock (`flow_price_monitor_service.py:144-165`), so a removal
  may stop the loop after another registration has seen it running, and that alert is polled by nobody until the next one. `FlowTriggers` has each as one step.
* A child order, once inserted, stays one in `SandboxGTT`. The recovery query leaves out those that are `rejected` (`gtt_manager.py:1273-1277`): a GTT whose child was
  inserted and whose execution then marked it rejected is re-armed and not finalised when its fire is interrupted, which the model does not have.
* `SandboxOrders` has one symbol, so several symbols sharing the account meet only in `SandboxDelivery`; expiry and square-off of positions are in neither.
* The bus starts its queued callbacks in any order. `poolOpen` stands for all pools, which close together at teardown; how many threads the
  workflow pools have is left out. One activation handler and one request run per workflow at a time; deleting a workflow is deactivating it.
* The content of an order that waits for approval is how many child orders it makes; "open" stands for whatever status the broker reports of a
  taken one.

Behaviour met on the way that no run is about, because the repository promises nothing else of it or because one
run per module shows the kind of thing:

* `reconcile_margin` runs after every fill and counts no resting orders, so a fill hands their margin back as cash: the
  available balance may then go below zero (`TypeOK` has it as any integer), and a later cancel of such an order takes what a position
  holds, whose settlement is refused its transfer and makes the shares free (hazard `underfunded`). A market buy filled above
  the price its margin was computed from ends the same way. `modify_order` never touches margin, though the
  sandbox design document says so.
* `catch_up_mis_squareoff` writes funds without the lock, and sets the reserve to zero where it credits more than was reserved.
* Two evaluators may each find no trade of an order and both fill it; two fills may each read the position before the other has written it; a cycle fills an order that was cancelled
  while it waited for quotes. `_process_order` promises to "prevent duplicates", and the engines have no lock around it (section 2, hazards of `SandboxOrders`).
* A subscription that fails is logged and nothing more (`websocket_execution_engine.py:669-674`): the count stays, so no later order subscribes the symbol either, and while other symbols keep the feed fresh
  the fallback does not start. An order in such a symbol rests until a restart, or until the count has been at zero.
* An update that comes while its watch is claimed is skipped, and not kept for later (`flow_order_update_monitor_service.py:204`), also where the watch is `every_time`; the module's
  header (:4-6) speaks of a run "the moment an order's status changes". `UpdateStartsWorkflow` says what is left of that: an update that finds a watch for it leads to a run of the workflow, its own
  or that of the update that came before it.
* A position row of an earlier day that is reopened today is settled at the next settlement and not a day later.
* A one-shot order-update watch is used up without a run when its workflow is found running; a stale run removes the watch that was
  registered since; a restart arms a spent one-shot watch again, and no price alert. A queued one-shot price run is dropped if the
  removal of its alert comes before its own check.
* An approved order that was being executed when the process died is never sent and never reported; one whose row is deleted
  meanwhile is sent and recorded nowhere; a smart order that finds its position as it should be gets no verdict.

* An exit that waits in the Action Center counts as a success, so its stop is gone while the position is open; if it is rejected, nothing watches the
  leg. A trail that comes after its row was deleted saves a new row, whose side is the default. A change of the mode starts no sync, so the
  stops of the mode entered are not watched until the next save. A trail that was too recent to be written is taken back by the next sync.
* A stop whose rows cannot be read is one that is not there: `get_active_sl_states` answers an error with no rows.

What is next, in this order:

1. Square-off of intraday positions and its catch-up, and the expiry of contracts, on `SandboxOrders`.
2. The index of GTT legs of the WebSocket engine, joined to `SandboxGTT`.
3. The reset of an account that has orders, GTTs and positions.
4. The scheduler's jobs and what a workflow does node by node.
5. Copy trading: the fan-out and its deduplication by time window.
6. The feed of the scalping risk monitor: subscriptions and the client's reconnections.
7. Proofs: weaker hypotheses where one excludes more than it needs, such as an account whose GTTs stay funded when only some commits fail.

Not planned: brokers, login, historical data, bots, the front ends, and the WebSocket proxy. They are input and output,
or their state is a cache of a remote system.
