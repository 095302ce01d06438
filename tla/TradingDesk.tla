---------------------------- MODULE TradingDesk ----------------------------
(***************************************************************************)
(* The Action Center, the event bus and the workflow triggers in one       *)
(* process: an approved order goes to the broker, its update comes back as *)
(* an event, and the event starts the workflows that watch for it.         *)
(***************************************************************************)
EXTENDS ActionCenter, FlowTriggers

\* One update for each order that is followed.
ASSUME DeskAssumption == Events \subseteq Orders

deskVars == <<centerVars, busVars, flowVars>>

DeskInit == CenterInit /\ BusInit /\ FlowInit

\* An update comes only for an order the broker has taken.
Updates(o) ==
  /\ taken[o] > 0
  /\ Publish(o)
  /\ UNCHANGED <<centerVars, flowVars>>

\* The process starts again, with every component in it.
DeskRestart == CenterRestart /\ Restart

DeskNext ==
  \/ CenterNext /\ UNCHANGED <<busVars, flowVars>>
  \/ \E o \in Events : Updates(o) \/ (OnOrderUpdate(o) /\ UNCHANGED centerVars)
  \/ (BusSteps \/ FlowSteps) /\ UNCHANGED centerVars
  \/ DeskRestart

DeskSpec == DeskInit /\ [][DeskNext]_deskVars

\* A request that was taken up is served: the broker answers, or the call fails.
CenterFairness == \A h \in Handlers : WF_centerVars(Serves(h))
=============================================================================
