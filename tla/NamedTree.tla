----------------------------- MODULE NamedTree ------------------------------
(***************************************************************************)
(* What a caller expects of the names of a file system.  view gives each   *)
(* path what it leads to: a file, whose number tells whether two paths     *)
(* lead to the same one, its kind and its size.  A call that is not a      *)
(* recursive removal or a truncation happens at once or not at all, also   *)
(* if the machine stops in the middle.                                     *)
(***************************************************************************)
EXTENDS Integers, SequencesExt

CONSTANTS Paths, Calls, Idle, Nothing

VARIABLES view, call, result

vars == <<view, call, result>>

At(n, k, s) == [ino |-> n, kind |-> k, size |-> s]
Exists(p) == view[p] # Nothing
Files == {view[p].ino : p \in {q \in Paths : Exists(q)}}
Below(p) == {q \in Paths : IsStrictPrefix(p, q) /\ Exists(q)}
OthersStay(ps) == \A q \in Paths \ ps : view'[q] = view[q]
Returns(err) == call' = Idle /\ result' = err
GoesOn == UNCHANGED <<call, result>>

Init ==
  /\ view \in [Paths -> {Nothing} \cup {At(n, "dir", 0) : n \in {1}}]
  /\ \A p \in Paths : Exists(p) <=> p = <<>>
  /\ call = Idle
  /\ result = "none"

Invoke == call = Idle /\ call' \in Calls /\ result' = "none" /\ UNCHANGED view

(* A call may fail, and the machine may stop. *)
NothingHappens == Returns("error") /\ UNCHANGED view

(* What is not there yet of the path is created, as directories up to its
   last name. *)
Create(p, kind) ==
  LET new == {q \in Paths : IsPrefix(q, p) /\ ~Exists(q)} IN
  /\ new # {}
  /\ OthersStay(new)
  /\ \A q \in new : /\ view'[q].ino \notin Files
                    /\ view'[q].kind = IF q = p THEN kind ELSE "dir"
  /\ \A q, r \in new : q # r => view'[q].ino # view'[r].ino
  /\ Returns("ok")

Existing(p, kind) ==
  Exists(p) /\ view[p].kind = kind /\ view[p].size <= call.size /\ UNCHANGED view /\ Returns("ok")

Resize(i, Size(_)) ==
  view' = [q \in Paths |-> IF Exists(q) /\ view[q].ino = i
                           THEN [view[q] EXCEPT !.size = Size(@)] ELSE view[q]]

(* Truncation gives the blocks back bit by bit; a call that ends well has
   come down to its size. *)
Shrink(p) ==
  /\ Exists(p) /\ view[p].kind # "dir" /\ view[p].size > 0
  /\ Resize(view[p].ino, LAMBDA s : s - 1)
Truncate(p) == Shrink(p) /\ (GoesOn \/ (view'[p].size = call.size /\ Returns("ok")))

(* What is to be removed may be cut down first, if it has no other name. *)
Only(p) == \A q \in Paths : Exists(q) /\ view[q].ino = view[p].ino => q = p
CutDown(p) == Shrink(p) /\ Only(p) /\ GoesOn

Grow(p) == Exists(p) /\ Resize(view[p].ino, LAMBDA s : s + 1) /\ Returns("ok")

Link(p, q) ==
  /\ Exists(p) /\ view[p].kind # "dir" /\ ~Exists(q)
  /\ Exists(Front(q)) /\ view[Front(q)].kind = "dir"
  /\ view' = [view EXCEPT ![q] = view[p]]
  /\ Returns("ok")

Moved(p, q, r) == q \o SubSeq(r, Len(p) + 1, Len(r))

Rename(p, q) ==
  /\ Exists(p) /\ ~Exists(q)
  /\ Exists(Front(q)) /\ view[Front(q)].kind = "dir"
  /\ LET tree == Below(p) \cup {p} IN
     /\ \A r \in tree : view'[Moved(p, q, r)] = view[r] /\ view'[r] = Nothing
     /\ OthersStay(tree \cup {Moved(p, q, r) : r \in tree})
  /\ Returns("ok")

Forget(p) == Exists(p) /\ Below(p) = {} /\ view' = [view EXCEPT ![p] = Nothing]

(* Only the last name of a file takes its blocks along. *)
RemoveName(p) == Exists(p) /\ view[p].kind # "dir" /\ Forget(p) /\ Returns("ok")

RemoveTree(p) ==
  \/ \E q \in Below(p) : (CutDown(q) \/ Forget(q)) /\ GoesOn
  \/ Exists(p) /\ view[p].kind = "dir" /\ Forget(p) /\ GoesOn
  \/ ~Exists(p) /\ UNCHANGED view /\ Returns("ok")

Step(c) ==
  \/ c.op \in {"fopen", "fsymlink", "mknod", "dir_mk", "ftruncate"} /\
       ((c.op # "ftruncate" /\ Create(c.p, c.kind)) \/ Existing(c.p, c.kind))
  \/ c.op \in {"fopen", "ftruncate", "fsymlink"} /\ Truncate(c.p)
  \/ c.op \in {"fwrite", "fsymlink"} /\ Grow(c.p)
  \/ c.op = "flink" /\ Link(c.p, c.q)
  \/ c.op = "frename" /\ Rename(c.p, c.q)
  \/ c.op = "fremove" /\ (CutDown(c.p) \/ RemoveName(c.p) \/ Existing(c.p, "dir"))
  \/ c.op = "dir_rm" /\ RemoveTree(c.p)

Next == Invoke \/ (call # Idle /\ (NothingHappens \/ Step(call)))

Spec == Init /\ [][Next]_vars
=============================================================================
