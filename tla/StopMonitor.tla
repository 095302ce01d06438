----------------------------- MODULE StopMonitor -----------------------------
(***************************************************************************)
(* The stops of the scalping terminal: the rows of scalping_sl_state, the  *)
(* risk monitor's copy of them, the background worker that brings the copy *)
(* up to date, the ticks that trail a stop or find it breached, and the    *)
(* exits that a breach starts.                                             *)
(*                                                                         *)
(* Ticks arrive on the feed client's own thread, next to requests, the     *)
(* worker and the exits: the grain is that of threads.  The monitor's lock *)
(* makes a tick one step, and the assignment of a copy another.  A leg has *)
(* at most one exit order at the broker, during which the user does not    *)
(* trade it and no other exit starts, and one in the Action Center.        *)
(*                                                                         *)
(* Legs are long: for a short one the stop is a bound that only falls.     *)
(***************************************************************************)
EXTENDS Integers

CONSTANTS
  Legs,         \* symbol, exchange and product
  Levels,       \* prices a stop may have
  MaxNet,       \* bound: lots of a position that the user trades to
  StopAdmitted  \* which of the hazards below may happen

(***************************************************************************)
(*   overlaps         one of the monitor's two-step writes, the load and   *)
(*                    the assignment of the copy, or the deletion of a row *)
(*                    and of its copy, has another write in it             *)
(*   readFails        the position book answers with an error              *)
(*   modeFlips        the user changes the mode after an exit has looked,  *)
(*                    or back before it looks, or within a sync            *)
(*   movesInExit      the user trades a leg after its exit has read the    *)
(*                    position and before its order                        *)
(*   partlyTaken      of a split order the broker takes a part             *)
(***************************************************************************)
StopHazards == {"overlaps", "readFails", "modeFlips", "movesInExit", "partlyTaken"}

ASSUME StopAssumption ==
  /\ Levels \subseteq Nat \ {0} /\ MaxNet \in Nat
  /\ StopAdmitted \subseteq StopHazards

VARIABLES
  mode,     \* analyze or live
  table,    \* the level of each leg's stop in each mode; 0: no row
  watched,  \* the monitor's copy
  sync,     \* whether a sync is due, where the worker is, what it has loaded
  exits,    \* the exits under way
  net,      \* lots held
  sent,     \* lots of exit orders that the broker has and has not filled
  asked     \* lots of exit orders that went to the Action Center

stopVars == <<mode, table, watched, sync, exits, net, sent, asked>>

TradingModes == {"analyze", "live"}

NoStop == [mode |-> "none", level |-> 0]

NoExit == [at |-> "none"]

StopInit ==
  /\ mode = "analyze"
  /\ table = [l \in Legs |-> [m \in TradingModes |-> 0]]
  /\ watched = [l \in Legs |-> NoStop]
  /\ sync = [due |-> FALSE, worker |-> "none", loaded |-> watched]
  /\ exits = [l \in Legs |-> NoExit]
  /\ net = [l \in Legs |-> [m \in TradingModes |-> 0]]
  /\ sent = net /\ asked = net

-----------------------------------------------------------------------------
Overlapping == "overlaps" \in StopAdmitted

\* Of leg l, the row is deleted and the copy is not.
Clearing(l) == exits[l].at = "deleted"
Loading == sync.worker = "loaded"

Unmoved(l) == "movesInExit" \in StopAdmitted \/ exits[l].at # "exiting"
Settling == \E l \in Legs : exits[l].at = "confirmed"

\* Mutant: a request that finds the worker running relies on it.
SyncRequestedIfIdle(s) ==
  IF s.worker = "none" THEN [s EXCEPT !.due = TRUE, !.worker = "running"] ELSE s

\* request_sync: a worker that is running will see that another sync is due.
SyncRequested(s) ==
  [s EXCEPT !.due = TRUE, !.worker = IF @ = "none" THEN "running" ELSE @]

\* upsert_sl and delete_sl, in the mode of the moment.
Saves(l, level) ==
  /\ Overlapping \/ ~Clearing(l)
  /\ table' = [table EXCEPT ![l][mode] = level]
  /\ sync' = SyncRequested(sync)
  /\ UNCHANGED <<mode, watched, exits, net, sent, asked>>

\* The user's trades, and those that others make of the account.
Trades(l, lots) ==
  /\ Unmoved(l) /\ sent[l][mode] = 0
  /\ net[l][mode] # lots
  /\ net' = [net EXCEPT ![l][mode] = lots]
  /\ UNCHANGED <<mode, table, watched, sync, exits, sent, asked>>

\* Neither an exit nor the assignment of a copy will be in a mode it did not see.
Steady ==
  /\ ~Loading
  /\ \A l \in Legs : exits[l].at # "none" => exits[l].at = "dispatched" /\ exits[l].mode = mode

\* set_analyze_mode; nobody tells the monitor.
Toggles ==
  /\ "modeFlips" \in StopAdmitted \/ Steady
  /\ mode' \in TradingModes \ {mode}
  /\ UNCHANGED <<table, watched, sync, exits, net, sent, asked>>

-----------------------------------------------------------------------------
(***************************************************************************)
(* _sync_worker.                                                           *)
(***************************************************************************)
WorkerBegins ==
  /\ sync.worker = "running" /\ sync.due
  /\ sync' = [sync EXCEPT !.due = FALSE, !.worker = "begun"]
  /\ UNCHANGED <<mode, table, watched, exits, net, sent, asked>>

\* The active rows of the mode of the moment.
Loads ==
  /\ sync.worker = "begun" /\ (Overlapping \/ ~Settling)
  /\ sync' = [sync EXCEPT !.worker = "loaded",
       !.loaded = [l \in Legs |-> IF table[l][mode] = 0 THEN NoStop
                                  ELSE [mode |-> mode, level |-> table[l][mode]]]]
  /\ UNCHANGED <<mode, table, watched, exits, net, sent, asked>>

Assigns ==
  /\ Loading
  /\ watched' = sync.loaded
  /\ sync' = [sync EXCEPT !.worker = "running", !.loaded = [l \in Legs |-> NoStop]]
  /\ UNCHANGED <<mode, table, exits, net, sent, asked>>

WorkerEnds ==
  /\ sync.worker = "running" /\ ~sync.due
  /\ sync' = [sync EXCEPT !.worker = "none"]
  /\ UNCHANGED <<mode, table, watched, exits, net, sent, asked>>

-----------------------------------------------------------------------------
(***************************************************************************)
(* _on_tick, for the stops of the mode of the moment.                      *)
(***************************************************************************)
Watches(l) == watched[l] # NoStop /\ watched[l].mode = mode

\* The stop trails; _maybe_persist writes it, into a new row if need be, or the
\* last write is too recent.
Trails(l, level, persisted) ==
  /\ Watches(l) /\ level > watched[l].level
  /\ persisted => Overlapping \/ ~(Loading \/ Clearing(l))
  /\ watched' = [watched EXCEPT ![l].level = level]
  /\ table' = IF persisted THEN [table EXCEPT ![l][mode] = level] ELSE table
  /\ UNCHANGED <<mode, sync, exits, net, sent, asked>>

\* _dispatch_exit; the pause between two attempts is left to the scheduler.
Breaches(l) ==
  /\ Watches(l) /\ exits[l] = NoExit /\ sent[l][mode] = 0
  /\ exits' = [exits EXCEPT ![l] = [at |-> "dispatched", mode |-> mode]]
  /\ UNCHANGED <<mode, table, watched, sync, net, sent, asked>>

-----------------------------------------------------------------------------
(***************************************************************************)
(* _exit_worker.                                                           *)
(***************************************************************************)
Continue(l, exit) == exits' = [exits EXCEPT ![l] = exit]

\* Mutant: the key stays among the exits in flight.
LeavesInFlight(l) == Continue(l, [at |-> "stuck", mode |-> exits[l].mode])

\* The exit gives up; a later tick may try again.
Abandons(l) == Continue(l, NoExit)

\* The mode has changed since the tick.
NotNow(l) ==
  /\ exits[l].at = "dispatched" /\ exits[l].mode # mode
  /\ Abandons(l)
  /\ UNCHANGED <<mode, table, watched, sync, net, sent, asked>>

PassesCheck(l) ==
  /\ exits[l].at = "dispatched" /\ exits[l].mode = mode
  /\ Continue(l, [at |-> "checked", mode |-> mode])
  /\ UNCHANGED <<mode, table, watched, sync, net, sent, asked>>

\* _live_net_qty reads the position book of the mode of the moment.
Reads(l) ==
  /\ exits[l].at = "checked"
  /\ \E lots \in {net[l][mode]} \cup (IF "readFails" \in StopAdmitted THEN {0} ELSE {}) :
       Continue(l, IF lots = 0 THEN [at |-> "confirmed", mode |-> exits[l].mode]
                   ELSE [at |-> "exiting", mode |-> exits[l].mode, lots |-> lots])
  /\ UNCHANGED <<mode, table, watched, sync, net, sent, asked>>

\* _reducing_exit: the order goes to the broker, or the sandbox, of the mode of the
\* moment; of a split order, a part may.
Ordered(l) ==
  LET lots == exits[l].lots
  IN  IF "partlyTaken" \in StopAdmitted THEN {lots, 0} ELSE {lots}

ExitTaken(l) ==
  /\ exits[l].at = "exiting"
  /\ \E lots \in Ordered(l) : sent' = [sent EXCEPT ![l][mode] = @ - lots]
  /\ Continue(l, [at |-> "confirmed", mode |-> exits[l].mode])
  /\ UNCHANGED <<mode, table, watched, sync, net, asked>>

\* In semi-automatic mode the answer is success and the order waits for approval.
ExitQueued(l) ==
  /\ exits[l].at = "exiting" /\ asked[l][mode] = 0
  /\ asked' = [asked EXCEPT ![l][mode] = @ - exits[l].lots]
  /\ Continue(l, [at |-> "confirmed", mode |-> exits[l].mode])
  /\ UNCHANGED <<mode, table, watched, sync, net, sent>>

\* Mutant: the answer of the exit is not looked at.
RefusedUnseen(l) ==
  /\ exits[l].at = "exiting"
  /\ Continue(l, [at |-> "confirmed", mode |-> exits[l].mode])
  /\ UNCHANGED <<mode, table, watched, sync, net, sent, asked>>

\* The call fails or raises, or nobody is logged in.
ExitRefused(l) ==
  /\ exits[l].at = "exiting"
  /\ Abandons(l)
  /\ UNCHANGED <<mode, table, watched, sync, net, sent, asked>>

\* _clear_state: the row, then the copy, by key.
DeletesRow(l) ==
  /\ exits[l].at = "confirmed"
  /\ Overlapping \/ ~Loading
  /\ table' = [table EXCEPT ![l][exits[l].mode] = 0]
  /\ Continue(l, [at |-> "deleted", mode |-> exits[l].mode])
  /\ UNCHANGED <<mode, watched, sync, net, sent, asked>>

DropsCopy(l) ==
  /\ Clearing(l)
  /\ watched' = [watched EXCEPT ![l] = NoStop]
  /\ Abandons(l)
  /\ UNCHANGED <<mode, table, sync, net, sent, asked>>

-----------------------------------------------------------------------------
Sign(n) == IF n > 0 THEN 1 ELSE -1

\* The broker fills a lot of what it was sent.
Fills(l, m) ==
  /\ sent[l][m] # 0
  /\ net' = [net EXCEPT ![l][m] = @ + Sign(sent[l][m])]
  /\ sent' = [sent EXCEPT ![l][m] = @ - Sign(@)]
  /\ UNCHANGED <<mode, table, watched, sync, exits, asked>>

\* Or it rejects the rest.
Rejects(l, m) ==
  /\ sent[l][m] # 0
  /\ sent' = [sent EXCEPT ![l][m] = 0]
  /\ UNCHANGED <<mode, table, watched, sync, exits, net, asked>>

\* The process dies and starts again, with a sync that is due.
StopRestart ==
  /\ watched' = [l \in Legs |-> NoStop]
  /\ exits' = [l \in Legs |-> NoExit]
  /\ sync' = [due |-> TRUE, worker |-> "running", loaded |-> watched']
  /\ UNCHANGED <<mode, table, net, sent, asked>>

WorkerSteps == WorkerBegins \/ Loads \/ Assigns \/ WorkerEnds

ExitSteps(l) ==
  \/ NotNow(l) \/ PassesCheck(l) \/ Reads(l)
  \/ ExitTaken(l) \/ ExitQueued(l) \/ ExitRefused(l)
  \/ DeletesRow(l) \/ DropsCopy(l)

StopNext ==
  \/ Toggles \/ WorkerSteps \/ StopRestart
  \/ \E l \in Legs :
       \/ \E level \in Levels \cup {0} : Saves(l, level)
       \/ \E lots \in 0..MaxNet : Trades(l, lots)
       \/ \E level \in Levels, persisted \in BOOLEAN : Trails(l, level, persisted)
       \/ Breaches(l) \/ ExitSteps(l)
       \/ \E m \in TradingModes : Fills(l, m) \/ Rejects(l, m)

StopFairness ==
  /\ WF_stopVars(WorkerSteps)
  /\ \A l \in Legs :
       /\ WF_stopVars(Breaches(l)) /\ WF_stopVars(ExitSteps(l))
       /\ SF_stopVars(ExitTaken(l)) /\ \A m \in TradingModes : WF_stopVars(Fills(l, m))

StopSpec == StopInit /\ [][StopNext]_stopVars /\ StopFairness

-----------------------------------------------------------------------------
\* When the worker is at rest, what is watched is what is saved in one of the modes,
\* and no stop is behind the one that is saved: no save or deletion was overlooked,
\* whatever the worker was at when it came, and no sync takes back a trail on record.
WatchesWhatIsSaved ==
  sync.worker = "none" =>
    \E m \in TradingModes : \A l \in Legs : ~Clearing(l) =>
      /\ watched[l] = NoStop <=> table[l][m] = 0
      /\ watched[l] # NoStop => watched[l].mode = m /\ watched[l].level >= table[l][m]

Closes(order, lots) ==
  /\ lots > 0 => lots + order <= 0
  /\ lots < 0 => lots + order >= 0

\* An exit takes a stop for done only when the position is flat, or an order for all
\* of it is at the broker or waits for an approval.
GivenUpWhenClosing ==
  [][\A l \in Legs :
       exits'[l].at = "confirmed" /\ exits[l].at # "confirmed" =>
         LET m == exits[l].mode
         IN  Closes(sent'[l][m], net'[l][m]) \/ Closes(asked'[l][m], net'[l][m])]_stopVars

\* A watched stop that the market stays beyond does not leave its position open under
\* it: through refusals and changes of the mode the exit is tried until it is taken,
\* unless the user removes the stop, closes the position or leaves the mode, or the
\* process dies; then it begins again when the stop is watched again.
BreachIsServed ==
  \A l \in Legs :
    (Watches(l) /\ net[l][mode] # 0) ~> ~(Watches(l) /\ net[l][mode] # 0)
=============================================================================
