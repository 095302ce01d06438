------------------------- MODULE SandboxGTTExclusion -------------------------
(***************************************************************************)
(* Why a GTT fires once: the inductive invariant behind OneOrderPerGtt and *)
(* OrderMeansTriggered.  Between the claim of the parent and the end of    *)
(* its fire an evaluator owns a triggered GTT without an order; a sweep    *)
(* works on triggered GTTs that nobody owns.  Every other transaction asks *)
(* for an active GTT, and an active GTT has neither owner nor order.       *)
(***************************************************************************)
EXTENDS SandboxGTT

\* The sweep of stranded parents runs alone.
SweepsApart == "sweepOverlap" \notin Admitted

\* place_order reports the order that it has committed.
AnswersKept == "answerLost" \notin Admitted

Undisturbed == SweepsApart /\ AnswersKept

\* The GTT a sweep has inspected and not yet put right.
Inspected(s) == pc[s] \in {"block", "rearm", "sweepReject"}

\* An evaluator that fires holds the parent, alone.
OwnerHoldsParent == \A e \in Evaluators : Firing(e) => gttStatus[my[e].gtt] = "triggered"

OneOwner ==
  \A e, f \in Evaluators : Firing(e) /\ Firing(f) /\ my[e].gtt = my[f].gtt => e = f

\* Until its INSERT the GTT has no order at all.
OwnerBeforeOrder ==
  \A e \in Evaluators : \A l \in Legs :
    Firing(e) /\ pc[e] # "finalise" /\ Parent[l] = my[e].gtt => ~Placed(l)

\* What a sweep has before it is triggered and nobody's.
SweepsOwnerless ==
  \A s \in Sweepers : Sweeping(s) =>
    \A g \in Gtts : g \in my[s].todo \/ (Inspected(s) /\ g = my[s].gtt) =>
      gttStatus[g] = "triggered" /\ \A e \in Evaluators : Firing(e) => my[e].gtt # g

\* What it has inspected has no order, and is off its list.
SweepsUnplaced ==
  \A s \in Sweepers : Inspected(s) =>
    /\ my[s].gtt \notin my[s].todo
    /\ \A l \in Legs : Parent[l] = my[s].gtt => ~Placed(l)

OneSweep == \A s, t \in Sweepers : Sweeping(s) /\ Sweeping(t) => s = t

\* Whose a GTT is does not depend on the answers; that it has one order does.
Exclusion ==
  /\ OwnerHoldsParent /\ OneOwner /\ SweepsOwnerless /\ SweepsUnplaced /\ OneSweep
  /\ AnswersKept => OwnerBeforeOrder /\ OrderMeansTriggered /\ OneOrderPerGtt
=============================================================================
