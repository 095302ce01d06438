---------------------------- MODULE OrderContract ----------------------------
(***************************************************************************)
(* What the order book promises of every order: it is taken once, rests    *)
(* until it is filled whole or withdrawn, and either is for good; the      *)
(* position moves by what was filled and by nothing else.                  *)
(***************************************************************************)
EXTENDS Integers

CONSTANTS Orders, Quantities

VARIABLES
  phase,   \* where each order is
  size,    \* what it asks for: lots bought, or sold if negative
  lots     \* the position

vars == <<phase, size, lots>>

Sizes == Quantities \cup {-q : q \in Quantities}

Init ==
  /\ phase = [o \in Orders |-> "none"]
  /\ size = [o \in Orders |-> 0]
  /\ lots = 0

Ends(o, end) == phase' = [phase EXCEPT ![o] = end]

Take(o, s) ==
  /\ phase[o] = "none"
  /\ size' = [size EXCEPT ![o] = s]
  /\ Ends(o, "resting")
  /\ UNCHANGED lots

Amend(o, s) ==
  /\ phase[o] = "resting"
  /\ size' = [size EXCEPT ![o] = s]
  /\ UNCHANGED <<phase, lots>>

Fill(o) ==
  /\ phase[o] = "resting"
  /\ Ends(o, "filled")
  /\ lots' = lots + size[o]
  /\ UNCHANGED size

Withdraw(o) ==
  /\ phase[o] = "resting"
  /\ Ends(o, "dead")
  /\ UNCHANGED <<size, lots>>

Next == \E o \in Orders :
  \/ \E s \in Sizes : Take(o, s) \/ Amend(o, s)
  \/ Fill(o) \/ Withdraw(o)

Spec == Init /\ [][Next]_vars
=============================================================================
