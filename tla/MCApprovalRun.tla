--------------------------- MODULE MCApprovalRun ---------------------------
(***************************************************************************)
(* ApprovalRun for TLC: a step that needs an approval, a free one and one  *)
(* under dual approval; calls, replicas and approvers are interchangeable. *)
(***************************************************************************)
EXTENDS ApprovalRun, TLC

CONSTANTS o1, o2, o3

Symmetry == Permutations(Calls) \cup Permutations(Replicas) \cup Permutations(Owners \ {Requester})
=============================================================================
