------------------------- MODULE ApprovalContract -------------------------
(***************************************************************************)
(* What the Action Center promises of an order that needs an approval: it  *)
(* is decided once, only an approved order goes to the broker, it goes     *)
(* there once, and what is said of it afterwards is what the broker took.  *)
(***************************************************************************)
EXTENDS Integers

CONSTANTS
  Orders,
  Children  \* into how many orders of the broker each of them is split

VARIABLES
  decision,  \* none, asked, approved, rejected
  taken,     \* how many of its children the broker has taken; -1: not sent
  verdict    \* what the user is told: none, open, partial, rejected

vars == <<decision, taken, verdict>>

\* What the broker's answer amounts to.
Verdict(o, n) == IF n = Children[o] THEN "open" ELSE IF n > 0 THEN "partial" ELSE "rejected"

Init ==
  /\ decision = [o \in Orders |-> "none"]
  /\ taken = [o \in Orders |-> -1]
  /\ verdict = [o \in Orders |-> "none"]

Ask(o) ==
  /\ decision[o] = "none"
  /\ decision' = [decision EXCEPT ![o] = "asked"]
  /\ UNCHANGED <<taken, verdict>>

Decide(o, d) ==
  /\ decision[o] = "asked"
  /\ decision' = [decision EXCEPT ![o] = d]
  /\ UNCHANGED <<taken, verdict>>

Send(o, n) ==
  /\ decision[o] = "approved" /\ taken[o] = -1 /\ verdict[o] = "none"
  /\ taken' = [taken EXCEPT ![o] = n]
  /\ UNCHANGED <<decision, verdict>>

Tell(o) ==
  /\ decision[o] = "approved" /\ verdict[o] = "none"
  /\ verdict' = [verdict EXCEPT ![o] = Verdict(o, taken[o])]
  /\ UNCHANGED <<decision, taken>>

Next ==
  \E o \in Orders :
    \/ Ask(o) \/ Tell(o)
    \/ \E d \in {"approved", "rejected"} : Decide(o, d)
    \/ \E n \in 0..Children[o] : Send(o, n)

Spec == Init /\ [][Next]_vars
=============================================================================
