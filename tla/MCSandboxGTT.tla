---------------------------- MODULE MCSandboxGTT ----------------------------
(***************************************************************************)
(* Instances of SandboxGTT: g1 is an OCO with legs a1 and a2, g2 a single  *)
(* GTT with leg b1.  Legs of the OCO, and threads of a kind, are           *)
(* interchangeable: no definition tells them apart.                        *)
(***************************************************************************)
EXTENDS SandboxGTTFunding, TLC

CONSTANTS g1, g2, a1, a2, b1, e1, e2, r1, r2, s1

OcoParent == (a1 :> g1) @@ (a2 :> g1)
MixedParent == (a1 :> g1) @@ (a2 :> g1) @@ (b1 :> g2)

Symmetry ==
  Permutations({a1, a2}) \cup Permutations({e1, e2}) \cup Permutations({r1, r2})
=============================================================================
