-------------------------- MODULE MCRoleGovernance --------------------------
(* Symmetries of RoleGovernance for TLC: accounts, requests under way and  *)
(* role_request rows are each interchangeable.                             *)
EXTENDS RoleGovernance, TLC

Symmetry ==
    Permutations(Account) \cup Permutations(Tx) \cup Permutations(RequestId)
=============================================================================
