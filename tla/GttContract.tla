---------------------------- MODULE GttContract -----------------------------
(***************************************************************************)
(* What a Good-Till-Triggered order promises its user.  It rests until one *)
(* of its legs fires, once and for all, or until it is cancelled, expires, *)
(* or is rejected because its margin cannot be found; what ends never      *)
(* comes back, and no leg fires after an end.                              *)
(***************************************************************************)
CONSTANTS Gtts, Legs, Parent, NoLeg

VARIABLES
  state,   \* of each GTT, as the user may rely on it
  fired    \* the leg whose order stands, or NoLeg

Ends == {"cancelled", "expired", "rejected"}

Init ==
  /\ state = [g \in Gtts |-> "none"]
  /\ fired = [g \in Gtts |-> NoLeg]

Place(g) ==
  /\ state[g] = "none"
  /\ state' = [state EXCEPT ![g] = "resting"]
  /\ UNCHANGED fired

FireLeg(l) ==
  /\ state[Parent[l]] = "resting"
  /\ state' = [state EXCEPT ![Parent[l]] = "fired"]
  /\ fired' = [fired EXCEPT ![Parent[l]] = l]

End(g, how) ==
  /\ state[g] = "resting"
  /\ state' = [state EXCEPT ![g] = how]
  /\ UNCHANGED fired

Next ==
  \/ \E g \in Gtts : Place(g) \/ \E how \in Ends : End(g, how)
  \/ \E l \in Legs : FireLeg(l)

Spec == Init /\ [][Next]_<<state, fired>>
=============================================================================
