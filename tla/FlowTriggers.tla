---------------------------- MODULE FlowTriggers ----------------------------
(***************************************************************************)
(* What starts a workflow by itself: the order-update monitor, which       *)
(* subscribes to the bus, and the price monitor, which polls quotes; with  *)
(* the activation that registers a trigger, and the executor, which runs a *)
(* workflow under its lock.  Threads interleave between any two steps.     *)
(*                                                                         *)
(* A workflow has one trigger.  Run Now, webhooks and schedules are        *)
(* requests: they run the workflow whether or not it is active.            *)
(***************************************************************************)
EXTENDS EventBus

CONSTANTS
  Workflows,
  Watching,        \* those with an orderUpdateTrigger; the others have a priceAlert
  Matches,         \* which events each of them asks for
  FlowCallback,    \* _on_order_update
  MaxActivations,  \* bound: registrations of one trigger
  Admitted         \* which of the hazards below may happen

(***************************************************************************)
(*   reactivatedInFlight  a trigger is registered again while a run of its *)
(*                        earlier registration is in flight                *)
(*   restartedSpent       the process starts again while a one-shot watch  *)
(*                        has run and its workflow is still active         *)
(***************************************************************************)
Hazards == {"reactivatedInFlight", "restartedSpent"}

ASSUME FlowAssumption ==
  /\ IsFiniteSet(Workflows) /\ Watching \subseteq Workflows
  /\ Matches \subseteq Events \X Watching
  /\ FlowCallback \in Callbacks
  /\ MaxActivations \in Nat
  /\ Admitted \subseteq Hazards

VARIABLES
  state,     \* is_active, and how far a handler is that changes it
  triggers,  \* the watch or the alert of each workflow
  runs,      \* executions on their way through the pools and the executor
  queued,    \* the price monitor's _pending
  check,     \* the alert that the price monitor's loop is checking
  monitor,   \* the price monitor's _running
  executed   \* how often a one-shot trigger ran its workflow since its activation

flowVars == <<state, triggers, runs, queued, check, monitor, executed>>

States == {"inactive", "activating", "active", "deactivating"}
Sources == {"update", "price", "request"}

Kinds == {"once", "every_time"}

Run == [flow : Workflows, by : Sources, nr : 0..MaxActivations, kind : Kinds,
        at : {"queued", "waiting", "inside"}]

\* Not registered; watching; claimed by an event, or latched by a price.
Modes == {"off", "armed", "claimed"}

Trigger == [mode : Modes, kind : Kinds, nr : 0..MaxActivations]

NoTrigger == [mode |-> "off", kind |-> "once", nr |-> 0]

Idle == [at |-> "idle"]

IsActive(w) == state[w] \in {"active", "deactivating"}
Registered(w) == triggers[w].mode # "off"
Armed(w) == triggers[w].mode = "armed"
Triggered(w) == {r \in runs : r.flow = w /\ r.by # "request"}

Checking(w) == check # Idle /\ check.flow = w

Settled(w) ==
  \/ "reactivatedInFlight" \in Admitted
  \/ Triggered(w) = {} /\ ~Checking(w)

\* The monitor subscribes when it is imported, and stays.
Listening == {S \in SUBSET Callbacks : FlowCallback \in S}

FlowInit ==
  /\ subscribers \in Listening
  /\ state = [w \in Workflows |-> "inactive"]
  /\ triggers = [w \in Workflows |-> NoTrigger]
  /\ runs = {} /\ queued = {}
  /\ check = Idle /\ monitor = FALSE
  /\ executed = [w \in Workflows |-> 0]

-----------------------------------------------------------------------------
(***************************************************************************)
(* Activation: the trigger is registered before the workflow is active,    *)
(* and taken away before it is inactive.                                   *)
(***************************************************************************)

\* add_watch and add_alert: what was registered is overwritten.
Registers(w, kind) ==
  /\ state[w] = "inactive" /\ Settled(w)
  /\ triggers[w].nr < MaxActivations
  /\ state' = [state EXCEPT ![w] = "activating"]
  /\ triggers' = [triggers EXCEPT ![w] =
       [mode |-> "armed", kind |-> kind, nr |-> triggers[w].nr + 1]]
  /\ executed' = [executed EXCEPT ![w] = 0]
  /\ monitor' = (monitor \/ w \notin Watching)
  /\ UNCHANGED <<runs, queued, check>>

Activates(w) ==
  /\ state[w] = "activating"
  /\ state' = [state EXCEPT ![w] = "active"]
  /\ UNCHANGED <<triggers, runs, queued, check, monitor, executed>>

\* remove_watch and remove_alert; the loop stops with its last alert.
Removed(w) ==
  /\ triggers' = [triggers EXCEPT ![w].mode = "off"]
  /\ monitor' = (monitor /\ (w \in Watching
       \/ \E v \in Workflows \ (Watching \cup {w}) : Registered(v)))

Unregisters(w) ==
  /\ state[w] = "active"
  /\ state' = [state EXCEPT ![w] = "deactivating"]
  /\ Removed(w)
  /\ UNCHANGED <<runs, queued, check, executed>>

Deactivates(w) ==
  /\ state[w] = "deactivating"
  /\ state' = [state EXCEPT ![w] = "inactive"]
  /\ UNCHANGED <<triggers, runs, queued, check, monitor, executed>>

-----------------------------------------------------------------------------
(***************************************************************************)
(* The order-update monitor: a callback of the bus.                        *)
(***************************************************************************)
NewRun(w, by) ==
  [flow |-> w, by |-> by, nr |-> triggers[w].nr, kind |-> triggers[w].kind, at |-> "queued"]

\* Mutant: the event claims what is registered, claimed or not.
ClaimsAgain(e) == {w \in Watching : Registered(w) /\ <<e, w>> \in Matches}

\* Mutant: the first watch that matches ends the search.
ClaimsOne(e) ==
  LET fits == {w \in Watching : Armed(w) /\ <<e, w>> \in Matches}
  IN  IF fits = {} THEN {} ELSE {CHOOSE w \in fits : TRUE}

\* The watches that an event claims, under the lock.
Claims(e) == {w \in Watching : Armed(w) /\ <<e, w>> \in Matches}

\* _on_order_update and _fire: each claimed watch hands a run to its pool.
OnOrderUpdate(e) ==
  /\ Return(<<e, FlowCallback>>)
  /\ triggers' = [w \in Workflows |->
       IF w \in Claims(e) THEN [triggers[w] EXCEPT !.mode = "claimed"] ELSE triggers[w]]
  /\ runs' = IF poolOpen THEN runs \cup {NewRun(w, "update") : w \in Claims(e)} ELSE runs
  /\ UNCHANGED <<state, queued, check, monitor, executed>>

-----------------------------------------------------------------------------
(***************************************************************************)
(* The price monitor's loop: one alert after the other.                    *)
(***************************************************************************)

\* _check_alert: the alert is taken from the table, a quote is fetched.
Checks(w) ==
  /\ monitor /\ check = Idle /\ w \notin Watching /\ Armed(w)
  /\ check' = [at |-> "quote", flow |-> w, nr |-> triggers[w].nr, kind |-> triggers[w].kind]
  /\ UNCHANGED <<state, triggers, runs, queued, monitor, executed>>

\* It is past its window.
Expires(w) ==
  /\ monitor /\ check = Idle /\ w \notin Watching /\ Armed(w)
  /\ Removed(w)
  /\ UNCHANGED <<state, runs, queued, check, executed>>

\* No quote, or the condition is not met.
CheckPasses ==
  /\ check.at = "quote"
  /\ check' = Idle
  /\ UNCHANGED <<state, triggers, runs, queued, monitor, executed>>

PriceRun == [flow |-> check.flow, by |-> "price", nr |-> check.nr, kind |-> check.kind,
             at |-> "queued"]

\* A one-shot alert is latched; what was registered since is another alert.
Latches ==
  triggers' = IF check.kind = "once" /\ Armed(check.flow) /\ triggers[check.flow].nr = check.nr
              THEN [triggers EXCEPT ![check.flow].mode = "claimed"] ELSE triggers

\* Mutant: a run is queued whether or not one is.
CheckMeetsStacking ==
  /\ check.at = "quote"
  /\ Latches
  /\ runs' = runs \cup {PriceRun} /\ queued' = queued \cup {check.flow}
  /\ check' = IF check.kind = "once" THEN [check EXCEPT !.at = "remove"] ELSE Idle
  /\ UNCHANGED <<state, monitor, executed>>

\* Mutant: an every_time alert is removed too.
CheckMeetsOnce ==
  /\ check.at = "quote"
  /\ Latches
  /\ IF check.flow \in queued \/ ~poolOpen
     THEN UNCHANGED <<runs, queued>>
     ELSE runs' = runs \cup {PriceRun} /\ queued' = queued \cup {check.flow}
  /\ check' = [check EXCEPT !.at = "remove"]
  /\ UNCHANGED <<state, monitor, executed>>

\* The condition is met: a run is queued, unless one is; a refused hand-over
\* ends the check.
CheckMeets ==
  /\ check.at = "quote"
  /\ Latches
  /\ IF check.flow \in queued \/ ~poolOpen
     THEN UNCHANGED <<runs, queued>>
     ELSE runs' = runs \cup {PriceRun} /\ queued' = queued \cup {check.flow}
  /\ check' = IF check.kind = "once" /\ (check.flow \in queued \/ poolOpen)
              THEN [check EXCEPT !.at = "remove"] ELSE Idle
  /\ UNCHANGED <<state, monitor, executed>>

\* The one-shot alert goes, by the workflow's id.
CheckRemoves ==
  /\ check.at = "remove"
  /\ Removed(check.flow)
  /\ check' = Idle
  /\ UNCHANGED <<state, runs, queued, executed>>

-----------------------------------------------------------------------------
(***************************************************************************)
(* The executor, and what a run does when it is over.                      *)
(***************************************************************************)
Requests(w) ==
  /\ \A r \in runs : ~(r.flow = w /\ r.by = "request")
  /\ runs' = runs \cup {[flow |-> w, by |-> "request", nr |-> 0, kind |-> "every_time",
                       at |-> "queued"]}
  /\ UNCHANGED <<state, triggers, queued, check, monitor, executed>>

Moves(r, at) == runs' = (runs \ {r}) \cup {[r EXCEPT !.at = at]}

\* What a run took from its trigger: it watches again.
Released(r) ==
  IF triggers[r.flow].mode = "claimed" /\ triggers[r.flow].nr = r.nr
  THEN [triggers EXCEPT ![r.flow].mode = "armed"] ELSE triggers

Taken(r) == [triggers EXCEPT ![r.flow].mode = "off"]

\* The price monitor may queue the workflow again.
Unqueued(r) == IF r.by = "price" THEN queued \ {r.flow} ELSE queued

\* Mutant: a run that finds the workflow running leaves its watch as it is.
OverUnlessRan(r) ==
  /\ runs' = runs \ {r}
  /\ triggers' = CASE r.by # "update" \/ r.at # "inside" -> triggers
                   [] r.kind = "once" -> Taken(r)
                   [] OTHER -> Released(r)
  /\ queued' = Unqueued(r)

\* Mutant: whatever run ends removes the one-shot watch of its workflow.
OverOfAnyRun(r) ==
  /\ runs' = runs \ {r}
  /\ triggers' = IF triggers[r.flow].kind = "once" THEN Taken(r) ELSE Released(r)
  /\ queued' = Unqueued(r)

\* The finally: a one-shot watch is removed, by the workflow's id, and an
\* every_time watch watches again.
Over(r) ==
  /\ runs' = runs \ {r}
  /\ triggers' = CASE r.by # "update" -> triggers
                   [] r.by = "update" /\ r.kind = "once" -> Taken(r)
                   [] OTHER -> Released(r)
  /\ queued' = Unqueued(r)

Locked(w) == \E r \in runs : r.flow = w /\ r.at = "inside"

\* A price run whose alert is gone, or whose workflow is not active, is dropped.
Stale(r) == r.by = "price" /\ ~(Registered(r.flow) /\ IsActive(r.flow))

\* execute_workflow: the lock is looked at, then waited for.
Enters(r) ==
  /\ r.at = "queued" /\ ~Stale(r) /\ ~Locked(r.flow)
  /\ Moves(r, "waiting")
  /\ UNCHANGED <<state, triggers, queued, check, monitor, executed>>

TurnsBack(r) ==
  /\ r.at = "queued" /\ (Stale(r) \/ Locked(r.flow))
  /\ Over(r)
  /\ UNCHANGED <<state, check, monitor, executed>>

Acquires(r) ==
  /\ r.at = "waiting" /\ ~Locked(r.flow)
  /\ Moves(r, "inside")
  /\ executed' = IF r.kind = "once" THEN [executed EXCEPT ![r.flow] = @ + 1] ELSE executed
  /\ UNCHANGED <<state, triggers, queued, check, monitor>>

Leaves(r) ==
  /\ r.at = "inside"
  /\ Over(r)
  /\ UNCHANGED <<state, check, monitor, executed>>

-----------------------------------------------------------------------------
\* The process starts again: is_active and nothing else has been kept, and
\* restore_order_update_watches arms the watches of what is active.
Restart ==
  /\ \/ "restartedSpent" \in Admitted
     \/ \A w \in Watching : IsActive(w) => executed[w] = 0
  /\ \A w \in Workflows : triggers[w].nr < MaxActivations
  /\ state' = [w \in Workflows |-> IF IsActive(w) THEN "active" ELSE "inactive"]
  /\ triggers' = [w \in Workflows |->
       IF IsActive(w) /\ w \in Watching
       THEN [mode |-> "armed", kind |-> triggers[w].kind, nr |-> triggers[w].nr + 1]
       ELSE [triggers[w] EXCEPT !.mode = "off"]]
  /\ runs' = {} /\ queued' = {} /\ check' = Idle /\ monitor' = FALSE
  /\ subscribers' \in Listening
  /\ deliveries' = [d \in Deliveries |-> IF deliveries[d] = "none" THEN "none" ELSE "missed"]
  /\ pending' = 0 /\ dropped' = 0 /\ poolOpen' = TRUE
  /\ UNCHANGED executed

\* The bus, but for the callbacks that end in this module.
BusSteps ==
  /\ \/ \E cb \in Callbacks \ {FlowCallback} : Subscribe(cb) \/ Unsubscribe(cb)
     \/ \E d \in Deliveries : Deliver(d) \/ (d[2] # FlowCallback /\ Return(d))
     \/ ClosePool
  /\ UNCHANGED flowVars

FlowSteps ==
  /\ \/ \E w \in Workflows :
          \/ \E kind \in Kinds : Registers(w, kind)
          \/ Activates(w) \/ Unregisters(w) \/ Deactivates(w)
          \/ Checks(w) \/ Expires(w) \/ Requests(w)
     \/ CheckPasses \/ CheckMeets \/ CheckRemoves
     \/ \E r \in runs : Enters(r) \/ TurnsBack(r) \/ Acquires(r) \/ Leaves(r)
  /\ UNCHANGED busVars

FlowNext ==
  \/ \E e \in Events : (Publish(e) /\ UNCHANGED flowVars) \/ OnOrderUpdate(e)
  \/ BusSteps \/ FlowSteps \/ Restart

FlowSpec == BusInit /\ FlowInit /\ [][FlowNext]_<<busVars, flowVars>>

(***************************************************************************)
(* The bus's pool, the two workflow pools, the server's requests and the   *)
(* price monitor's loop keep running; a callback and an execution end; who *)
(* waits for a lock that is free again and again gets it.                  *)
(***************************************************************************)
From(by) == {r \in runs : r.by = by}

FlowFairness ==
  /\ WF_<<busVars, flowVars>>(\E d \in Deliveries :
       UNCHANGED flowVars /\ (Deliver(d) \/ (d[2] # FlowCallback /\ Return(d))))
  /\ WF_<<busVars, flowVars>>(\E e \in Events : OnOrderUpdate(e))
  /\ \A by \in Sources :
       WF_<<busVars, flowVars>>(UNCHANGED busVars /\
         \E r \in From(by) : Enters(r) \/ TurnsBack(r) \/ Leaves(r))
  /\ \A by \in {"update", "price"} :
       SF_<<busVars, flowVars>>(UNCHANGED busVars /\ \E r \in From(by) : Acquires(r))
  /\ WF_<<busVars, flowVars>>(UNCHANGED busVars /\ (CheckPasses \/ CheckMeets \/ CheckRemoves))

-----------------------------------------------------------------------------
FlowTypeOK ==
  /\ state \in [Workflows -> States]
  /\ triggers \in [Workflows -> Trigger]
  /\ runs \subseteq Run
  /\ queued \subseteq Workflows
  /\ check \in {Idle}
       \cup [at : {"quote"}, flow : Workflows \ Watching, nr : 0..MaxActivations, kind : Kinds]
       \cup [at : {"remove"}, flow : Workflows \ Watching, nr : 0..MaxActivations, kind : {"once"}]
  /\ monitor \in BOOLEAN
  /\ executed \in [Workflows -> Nat]

\* A one-shot trigger runs its workflow at most once for each activation,
\* whatever events arrive together and however long runs wait.
OneShotRunsOnce == \A w \in Workflows : executed[w] <= 1

\* A trigger has at most one run on its way, and the price monitor's table of
\* queued workflows says exactly whose runs are: no run is stacked behind another.
OneRunInFlight ==
  /\ \A w \in Workflows : \A r, s \in Triggered(w) : r = s
  /\ queued = {r.flow : r \in From("price")}

\* A watch that has not been claimed goes only when its workflow is deactivated.
UnclaimedWatchStays ==
  [][\A w \in Watching :
       Armed(w) /\ ~Registered(w)' => state'[w] \in {"inactive", "deactivating"}]_<<busVars, flowVars>>

\* A claim is not kept: a claimed watch is armed again or goes, a latched alert goes.
ClaimsAreReleased ==
  \A w \in Workflows :
    triggers[w].mode = "claimed" ~> (triggers[w].mode # "claimed" \/ ~poolOpen)

\* An update that is published while a watch for it is armed sets off a run, its
\* own or that of an update which claimed the watch first (and for which it is
\* skipped for good), unless the bus sheds it or the workflow is deactivated.
UpdateStartsWorkflow ==
  \A w \in Watching, e \in Events :
    <<e, w>> \in Matches =>
      ((deliveries[<<e, FlowCallback>>] = "due" /\ Armed(w)) ~>
         \/ Triggered(w) # {}
         \/ deliveries[<<e, FlowCallback>>] \in {"dropped", "refused", "missed"}
         \/ ~poolOpen \/ state[w] \in {"inactive", "deactivating"})
=============================================================================
