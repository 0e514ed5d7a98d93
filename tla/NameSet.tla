------------------------------ MODULE NameSet -------------------------------
(***************************************************************************)
(* What the rest of the file system expects of a directory: a set of names *)
(* that every operation leaves as its result says.                         *)
(***************************************************************************)
CONSTANTS Children

VARIABLES names, result   \* result: the name, the operation and its error

vars == <<names, result>>

Init == names \in SUBSET Children

Add(n) ==
  /\ n \notin names
  /\ names' = names \cup {n}
  /\ result' = [name |-> n, op |-> "add", err |-> "EOK"]

(* An entry may not fit; then nothing has changed, and the call returns or the
   program stops. *)
AddFails(n) ==
  /\ UNCHANGED names
  /\ \E e \in {"ENOSPC", "STOPPED"} : result' = [name |-> n, op |-> "add", err |-> e]

Remove(n) ==
  /\ n \in names
  /\ names' = names \ {n}
  /\ result' = [name |-> n, op |-> "remove", err |-> "EOK"]

Next == \E n \in Children : Add(n) \/ AddFails(n) \/ Remove(n)

Spec == Init /\ [][Next]_vars
=============================================================================
