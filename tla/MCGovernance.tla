----------------------------- MODULE MCGovernance -----------------------------
(* Governance for TLC: the chains of plugins the runs use.  Merchants,
   request and session identifiers are interchangeable. *)
EXTENDS Governance, TLC

Symmetry == Permutations(Merchants) \cup Permutations(RequestIds) \cup Permutations(SessionIds)

\* autoApproveBelow is not set.
NoAmount == -1

AuditFirst == <<"audit", "spending", "approval", "procurement">>

SpendingOnly == <<"spending">>
SpendingThenApproval == <<"spending", "approval">>
===============================================================================
