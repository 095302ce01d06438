---------------------------- MODULE MCSandboxFunds ----------------------------
(***************************************************************************)
(* Instances of SandboxFunds.  The threads are interchangeable.            *)
(***************************************************************************)
EXTENDS SandboxFunds, TLC

CONSTANTS t1, t2, t3

MCProfits == {-1, 0, 1}

Symmetry == Permutations({t1, t2, t3})
=============================================================================
