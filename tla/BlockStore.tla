----------------------------- MODULE BlockStore -----------------------------
(***************************************************************************)
(* What the block cache promises its clients: a store of blocks whose      *)
(* current contents ("mem") are what the last writer put there, over a     *)
(* device whose contents ("stable") lag behind.  A write changes the       *)
(* current contents of one block and not the device; settling moves        *)
(* current contents to the device, and may discard the unsaved contents of *)
(* other blocks (an invalidated range, or a write the device refused).     *)
(***************************************************************************)
CONSTANTS Lba, Data

VARIABLES mem, stable

Init ==
  /\ stable \in [Lba -> Data]
  /\ mem = stable

Put(l, v) ==
  /\ mem' = [mem EXCEPT ![l] = v]
  /\ UNCHANGED stable

(* S: blocks saved to the device; D: blocks whose unsaved contents are lost. *)
Settle(S, D) ==
  /\ stable' = [l \in Lba |-> IF l \in S THEN mem[l] ELSE stable[l]]
  /\ mem' = [l \in Lba |-> IF l \in D THEN stable[l] ELSE mem[l]]

Next ==
  \/ \E l \in Lba, v \in Data : Put(l, v)
  \/ \E S \in SUBSET Lba : \E D \in SUBSET (Lba \ S) : Settle(S, D)

Spec == Init /\ [][Next]_<<mem, stable>>
=============================================================================
