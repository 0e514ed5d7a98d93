---------------------------- MODULE MCNamespace -----------------------------
(* Instances of Namespace. *)
EXTENDS Namespace

System(i, j, r, ops) == [indexed |-> i, journaled |-> j, room |-> r, ops |-> ops]
Files == {"fopen", "fsymlink", "mknod", "fwrite", "ftruncate", "fremove", "flink"}
Trees == {"dir_mk", "frename", "dir_rm", "fopen", "fremove"}

Some == {System(TRUE, TRUE, 3, Files \cup Trees), System(FALSE, TRUE, 3, Files \cup Trees),
         System(FALSE, FALSE, 3, Files \cup Trees), System(TRUE, TRUE, 4, Trees)}
=============================================================================
