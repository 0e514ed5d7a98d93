------------------------------ MODULE AttrMap -------------------------------
(***************************************************************************)
(* What a caller expects of the extended attributes of an inode: a partial *)
(* function from names to values.                                          *)
(***************************************************************************)
CONSTANTS Names, Values, NoValue

VARIABLES attrs, result   \* result: name, value (NoValue for a removal) and error of the last call

vars == <<attrs, result>>

Init == attrs \in [Names -> Values \cup {NoValue}]

Set(n, v) ==
  /\ attrs' = [attrs EXCEPT ![n] = v]
  /\ result' = [name |-> n, val |-> v, err |-> "EOK"]

SetFails(n, v) ==
  /\ UNCHANGED attrs
  /\ result' = [name |-> n, val |-> v, err |-> "ENOSPC"]

Remove(n) ==
  /\ attrs' = [attrs EXCEPT ![n] = NoValue]
  /\ result' = [name |-> n, val |-> NoValue, err |-> "EOK"]

(* A shared block is copied before it is changed, and there may be none. *)
RemoveFails(n) ==
  /\ UNCHANGED attrs
  /\ \/ attrs[n] = NoValue /\ result' = [name |-> n, val |-> NoValue, err |-> "ENODATA"]
     \/ result' = [name |-> n, val |-> NoValue, err |-> "ENOSPC"]

Next ==
  \E n \in Names :
    \/ \E v \in Values : Set(n, v) \/ SetFails(n, v)
    \/ Remove(n) \/ RemoveFails(n)

Spec == Init /\ [][Next]_vars
=============================================================================
