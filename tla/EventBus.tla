------------------------------ MODULE EventBus ------------------------------
(***************************************************************************)
(* The in-process event bus, for one topic: publishers hand the callbacks  *)
(* that subscribe to a bounded pool of threads, and shed what does not     *)
(* fit.  Publishers and pool threads interleave between any two sections   *)
(* of the bus's lock.                                                      *)
(*                                                                         *)
(* A delivery is one callback of one event.  The pool starts deliveries in *)
(* the order it got them; since its threads then run side by side, here it *)
(* starts any of them.                                                     *)
(***************************************************************************)
EXTENDS Integers, FiniteSets

CONSTANTS
  Events,      \* the events of the topic, each published once
  Callbacks,   \* what may subscribe to it
  MaxPending,  \* max_pending
  Workers      \* threads of the pool

ASSUME BusAssumption ==
  /\ IsFiniteSet(Events) /\ IsFiniteSet(Callbacks)
  /\ MaxPending \in Nat /\ Workers \in Nat

VARIABLES
  subscribers,  \* who subscribes
  deliveries,   \* where each delivery is
  pending,      \* _pending
  dropped,      \* _dropped
  poolOpen      \* the pool takes work

busVars == <<subscribers, deliveries, pending, dropped, poolOpen>>

Deliveries == Events \X Callbacks

Stages == {"none", "missed", "due", "reserved", "queued", "running",
           "done", "dropped", "refused"}

\* A slot is held from the moment it is reserved until the callback is over.
Holding == {"reserved", "queued", "running"}

At(stages) == {d \in Deliveries : deliveries[d] \in stages}

Moved(d, stage) == deliveries' = [deliveries EXCEPT ![d] = stage]

BusInit ==
  /\ subscribers \in SUBSET Callbacks
  /\ deliveries = [d \in Deliveries |-> "none"]
  /\ pending = 0 /\ dropped = 0 /\ poolOpen = TRUE

Subscribe(cb) ==
  /\ subscribers' = subscribers \cup {cb}
  /\ UNCHANGED <<deliveries, pending, dropped, poolOpen>>

Unsubscribe(cb) ==
  /\ subscribers' = subscribers \ {cb}
  /\ UNCHANGED <<deliveries, pending, dropped, poolOpen>>

\* publish: the subscribers of this moment are copied under the lock.
Publish(e) ==
  /\ \A cb \in Callbacks : deliveries[<<e, cb>>] = "none"
  /\ deliveries' = [d \in Deliveries |->
       IF d[1] # e THEN deliveries[d]
       ELSE IF d[2] \in subscribers THEN "due" ELSE "missed"]
  /\ UNCHANGED <<subscribers, pending, dropped, poolOpen>>

\* publish: a slot is reserved for the callback, or the callback is dropped.
Admit(d) ==
  /\ deliveries[d] = "due"
  /\ IF pending >= MaxPending
     THEN Moved(d, "dropped") /\ dropped' = dropped + 1 /\ UNCHANGED pending
     ELSE Moved(d, "reserved") /\ pending' = pending + 1 /\ UNCHANGED dropped
  /\ UNCHANGED <<subscribers, poolOpen>>

\* Mutant: only a pool that takes the work gives the slot back.
HandKeepsSlot(d) ==
  /\ deliveries[d] = "reserved"
  /\ Moved(d, IF poolOpen THEN "queued" ELSE "refused")
  /\ UNCHANGED <<subscribers, pending, dropped, poolOpen>>

\* Mutant: the slot is given back whether or not the pool takes the work.
HandReturnsSlot(d) ==
  /\ deliveries[d] = "reserved"
  /\ Moved(d, IF poolOpen THEN "queued" ELSE "refused")
  /\ pending' = pending - 1
  /\ UNCHANGED <<subscribers, dropped, poolOpen>>

\* publish: the pool takes the callback, or the slot is returned.
Hand(d) ==
  /\ deliveries[d] = "reserved"
  /\ IF poolOpen
     THEN Moved(d, "queued") /\ UNCHANGED pending
     ELSE Moved(d, "refused") /\ pending' = pending - 1
  /\ UNCHANGED <<subscribers, dropped, poolOpen>>

\* A thread of the pool takes the callback up.
Start(d) ==
  /\ deliveries[d] = "queued"
  /\ Cardinality(At({"running"})) < Workers
  /\ Moved(d, "running")
  /\ UNCHANGED <<subscribers, pending, dropped, poolOpen>>

\* _safe_call: the callback has returned or raised.
Return(d) ==
  /\ deliveries[d] = "running"
  /\ Moved(d, "done") /\ pending' = pending - 1
  /\ UNCHANGED <<subscribers, dropped, poolOpen>>

\* The interpreter begins to shut down: the pool finishes what it has.
ClosePool ==
  /\ poolOpen' = FALSE
  /\ UNCHANGED <<subscribers, deliveries, pending, dropped>>

\* What the bus does by itself once an event is published.
Deliver(d) == Admit(d) \/ Hand(d) \/ Start(d)

BusNext ==
  \/ \E cb \in Callbacks : Subscribe(cb) \/ Unsubscribe(cb)
  \/ \E e \in Events : Publish(e)
  \/ \E d \in Deliveries : Deliver(d) \/ Return(d)
  \/ ClosePool

BusSpec == BusInit /\ [][BusNext]_busVars

-----------------------------------------------------------------------------
BusTypeOK ==
  /\ subscribers \subseteq Callbacks
  /\ deliveries \in [Deliveries -> Stages]
  /\ pending \in Nat /\ dropped \in Nat
  /\ poolOpen \in BOOLEAN

\* "A slot leaked here is permanent, and enough of them wedge the bus closed":
\* the counter is exactly the callbacks queued or running, never more than the
\* cap, and every callback that was shed is counted.
SlotsSound ==
  /\ pending = Cardinality(At(Holding))
  /\ pending <= MaxPending
  /\ dropped = Cardinality(At({"dropped"}))
=============================================================================
