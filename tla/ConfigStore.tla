------------------------------ MODULE ConfigStore ------------------------------
(***************************************************************************)
(* What the config repository promises its callers, for the entries of one *)
(* environment: every write is one atomic step that appends a version to   *)
(* one entry and one event to the environment's log.  A version is never   *)
(* changed again, and a rollback is a write like any other whose value is  *)
(* that of an earlier version.                                             *)
(*                                                                         *)
(* The environment's revision is the length of the log, the current        *)
(* version of an entry is the length of its history.                       *)
(***************************************************************************)
EXTENDS Integers, Sequences

CONSTANTS
    Keys,       \* the entry keys of the environment
    Values      \* value type, value and checksum of a version, as one token

VARIABLES
    history,    \* key -> the values of its versions, oldest first
    log         \* the events of the environment, in the order of revisions

vars == <<history, log>>

Init ==
    /\ history = [k \in Keys |-> <<>>]
    /\ log = <<>>

AppendVersion(k, v, type) ==
    /\ history' = [history EXCEPT ![k] = Append(@, v)]
    /\ log' = Append(log, [type |-> type, key |-> k, version |-> Len(history[k]) + 1])

UpsertEntry(k, v) ==
    AppendVersion(k, v, IF history[k] = <<>> THEN "created" ELSE "updated")

RollbackEntry(k, target) ==
    /\ target \in 1..Len(history[k])
    /\ AppendVersion(k, history[k][target], "rollback")

Next ==
    \E k \in Keys :
        \/ \E v \in Values : UpsertEntry(k, v)
        \/ \E target \in 1..Len(history[k]) : RollbackEntry(k, target)

Spec == Init /\ [][Next]_vars

================================================================================
