---------------------------- MODULE AbstractList ----------------------------
(* What list.c offers: a sequence of entries with at most one entry per key, *)
(* and the return value of the last call. Pointers, nodes and the memory     *)
(* they take do not show. This is the list the buckets of Table.tla are.     *)
EXTENDS EntrySeq

CONSTANTS Keys, Vals, NoEntry

VARIABLES
    contents,  \* the entries, head first
    status,    \* "up", "segv" after a crash, "destroyed" after list_destroy
    ret        \* the last call and what it returned

vars == <<contents, status, ret>>

CodeRet(f, c) == [call |-> f, code |-> c]

Init ==
    /\ contents = <<>>
    /\ status = "up"
    /\ ret = [call |-> "none"]

Up == status = "up"

Add(k, v) ==
    /\ Up
    /\ contents' = ListAdd(contents, k, v)
    /\ ret' = CodeRet("add", IF k \in KeysIn(contents) THEN 1 ELSE 0)
    /\ UNCHANGED status

AddNothing ==
    /\ Up
    /\ ret' = CodeRet("add", -1)
    /\ UNCHANGED <<contents, status>>

(* A key that shares the list is removed, a missing one is refused, except   *)
(* by an empty list, which accepts to remove anything.                       *)
RemoveKey(k) ==
    /\ Up
    /\ \/ /\ k \in KeysIn(contents)
          /\ Len(contents) > 1
          /\ contents' = ListRemove(contents, k)
          /\ ret' = CodeRet("remove", 0)
       \/ /\ k \notin KeysIn(contents)
          /\ ret' = CodeRet("remove", IF contents = <<>> THEN 0 ELSE -1)
          /\ UNCHANGED contents
    /\ UNCHANGED status

(* The only entry cannot be removed. *)
RemoveSole(k) ==
    /\ Up
    /\ k \in KeysIn(contents)
    /\ Len(contents) = 1
    /\ status' = "segv"
    /\ UNCHANGED <<contents, ret>>

Get(k) ==
    /\ Up
    /\ ret' = [call |-> "get",
               entry |-> IF k \in KeysIn(contents)
                         THEN Entry(k, ListGet(contents, k))
                         ELSE NoEntry]
    /\ UNCHANGED <<contents, status>>

Size ==
    /\ Up
    /\ ret' = CodeRet("size", Len(contents))
    /\ UNCHANGED <<contents, status>>

GetKeys ==
    /\ Up
    /\ ret' = [call |-> "get_keys", keys |-> KeyList(contents)]
    /\ UNCHANGED <<contents, status>>

(* Freeing the keys of a list that is not empty may be fatal. *)
FreeKeysCrash ==
    /\ Up
    /\ contents # <<>>
    /\ status' = "segv"
    /\ UNCHANGED <<contents, ret>>

Destroy ==
    /\ Up
    /\ contents' = <<>>
    /\ status' = "destroyed"
    /\ UNCHANGED ret

Next ==
    \/ \E k \in Keys, v \in Vals : Add(k, v)
    \/ \E k \in Keys : RemoveKey(k) \/ RemoveSole(k) \/ Get(k)
    \/ AddNothing \/ Size \/ GetKeys \/ FreeKeysCrash \/ Destroy

Spec == Init /\ [][Next]_vars
=============================================================================
