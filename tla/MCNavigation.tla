------------------------------ MODULE MCNavigation ------------------------------
(* Two accounts: one with two organisations, and one that has none yet.     *)
EXTENDS Navigation

CONSTANTS multi, newcomer, o1, o2, o3

MCMemberOf == [a \in Accounts |-> IF a = multi THEN {o1, o2} ELSE {}]

MCPrivileged == {<<multi, o1>>, <<newcomer, o3>>}

================================================================================
