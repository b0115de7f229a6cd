---------------------------- MODULE MCInvitations ----------------------------
(* Invitations with its organisations and its roles interchangeable.       *)
EXTENDS Invitations, TLC

Symmetry == Permutations(Orgs) \cup Permutations(Roles)

================================================================================
