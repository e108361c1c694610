------------------------------ MODULE MapSpec ------------------------------
(* What a user of the table can count on: a map from keys to values, the     *)
(* count it reports as its size, and the answer to the last operation.       *)
(* Buckets, lists and the copying of keys do not show. The process may stop  *)
(* at any time.                                                              *)
EXTENDS Integers, Functions

CONSTANTS Keys, Vals, NoVal

VARIABLES
    map,    \* key -> its value, NoVal when the key is absent
    count,  \* the number of elements the table believes it holds
    alive,
    ret     \* the last operation and its answer

vars == <<map, count, alive, ret>>

Present == {k \in Keys : map[k] # NoVal}

Init ==
    /\ map = [k \in Keys |-> NoVal]
    /\ count = 0
    /\ alive = TRUE
    /\ ret = [op |-> "none"]

Put(k, v) ==
    /\ alive
    /\ map' = [map EXCEPT ![k] = v]
    /\ count' = IF k \in Present THEN count ELSE count + 1
    /\ ret' = [op |-> "put", key |-> k, code |-> 0]
    /\ UNCHANGED alive

(* A stored value is answered, except while the count stands at zero. *)
Get(k) ==
    /\ alive
    /\ ret' = [op |-> "get", key |-> k,
               value |-> IF count = 0 THEN NoVal ELSE map[k]]
    /\ UNCHANGED <<map, count, alive>>

DelPresent(k) ==
    /\ alive
    /\ k \in Present
    /\ map' = [map EXCEPT ![k] = NoVal]
    /\ count' = count - 1
    /\ ret' = [op |-> "del", key |-> k, code |-> 0]
    /\ UNCHANGED alive

(* Deleting an absent key fails, or succeeds and lowers the count. *)
DelAbsent(k) ==
    /\ alive
    /\ k \notin Present
    /\ \/ /\ ret' = [op |-> "del", key |-> k, code |-> -1]
          /\ UNCHANGED count
       \/ /\ ret' = [op |-> "del", key |-> k, code |-> 0]
          /\ count' = count - 1
    /\ UNCHANGED <<map, alive>>

Size ==
    /\ alive
    /\ ret' = [op |-> "size", size |-> count]
    /\ UNCHANGED <<map, count, alive>>

(* Every present key once, in some order. *)
GetKeys ==
    /\ alive
    /\ ret'.op = "getkeys"
    /\ ret' = [op |-> "getkeys", keys |-> ret'.keys]
    /\ IsInjective(ret'.keys)
    /\ Range(ret'.keys) = Present
    /\ UNCHANGED <<map, count, alive>>

Crash ==
    /\ alive
    /\ alive' = FALSE
    /\ UNCHANGED <<map, count, ret>>

Next ==
    \/ \E k \in Keys, v \in Vals : Put(k, v)
    \/ \E k \in Keys : Get(k) \/ DelPresent(k) \/ DelAbsent(k)
    \/ Size \/ GetKeys \/ Crash

Spec == Init /\ [][Next]_vars
=============================================================================
