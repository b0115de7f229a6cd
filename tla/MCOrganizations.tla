---------------------------- MODULE MCOrganizations ----------------------------
(* Symmetry for model checking Organizations.                              *)
EXTENDS Organizations, TLC

Symmetry == Permutations(Tabs) \cup Permutations(Orgs \ {Invited})

================================================================================
