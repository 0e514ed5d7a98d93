----------------------------- MODULE BlockPool ------------------------------
(***************************************************************************)
(* The block allocator as the maps of an inode see it.  A map is a record  *)
(* with, besides its own fields,                                           *)
(*   free   the blocks the allocator can hand out                          *)
(*   quota  how many allocations succeed before the next one fails         *)
(*   bad    the blocks that cannot be read during the call                 *)
(* Balloc models the allocator itself.                                     *)
(***************************************************************************)
EXTENDS Integers, FiniteSetsExt, TLC

(* The function Op on S, as a table. *)
Tabulate(Op(_), S) == FoldSet(LAMBDA x, f : (x :> Op(x)) @@ f, <<>>, S)

(* The goal or the first free block behind it, else the first one; a goal
   below zero has wrapped to a block whose group does not exist, and the
   call fails.  b = 0 says that the call failed. *)
ext4_balloc_alloc_block(t, goal) ==
  IF t.quota = 0 \/ t.free = {} \/ goal < 0
  THEN [t |-> t, b |-> 0]
  ELSE LET behind == {b \in t.free : b >= goal}
           b == Min(IF behind # {} THEN behind ELSE t.free)
       IN  [t |-> [t EXCEPT !.free = {x \in @ : x # b}, !.quota = @ - 1], b |-> b]

(* The union is enumerated, so that TLC does not keep a chain of unions. *)
ext4_balloc_free_blocks(t, bs) == [t EXCEPT !.free = {b : b \in @ \cup bs}]
=============================================================================
