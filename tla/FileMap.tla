------------------------------ MODULE FileMap -------------------------------
(***************************************************************************)
(* What the rest of the file system expects of the block map of an inode:  *)
(* a partial map of logical to physical blocks.  A block that is written   *)
(* gets a physical block no other one has, all others keep theirs, and     *)
(* cutting the file removes exactly the blocks behind the cut.             *)
(***************************************************************************)
EXTENDS Integers

CONSTANTS Blk, Phys   \* the logical blocks 0 .. n, the physical ones (without 0)

VARIABLES map, size   \* map[n] = 0: no block

vars == <<map, size>>

Init ==
  /\ map \in [Blk -> Phys \cup {0}]
  /\ size \in Nat

(* Block n, and no other one, gets a physical block of its own. *)
Placed(n) ==
  /\ map'[n] \in Phys
  /\ \A k \in Blk : map[k] # map'[n]
  /\ map' = [map EXCEPT ![n] = map'[n]]

(* A block at or behind the end is written. *)
Extend(n) ==
  /\ n >= size
  /\ Placed(n)
  /\ size' = n + 1

(* A hole is written. *)
Fill(n) ==
  /\ n < size
  /\ map[n] = 0
  /\ Placed(n)
  /\ UNCHANGED size

(* The write fails; a file written behind its end has grown up to there. *)
Fail(n) ==
  /\ n > size
  /\ size' = n
  /\ UNCHANGED map

Cut(n) ==
  /\ n < size
  /\ map' = [k \in Blk |-> IF k >= n THEN 0 ELSE map[k]]
  /\ size' = n

(* A cut that fails may have removed some of the blocks. *)
CutFails(n) ==
  /\ n < size
  /\ \A k \in Blk : map'[k] = map[k] \/ (k >= n /\ map'[k] = 0)
  /\ UNCHANGED size

Next == \E n \in Blk : Extend(n) \/ Fill(n) \/ Fail(n) \/ Cut(n) \/ CutFails(n)

Spec == Init /\ [][Next]_vars
=============================================================================
