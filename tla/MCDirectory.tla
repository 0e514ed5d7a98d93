---------------------------- MODULE MCDirectory -----------------------------
(* Instances of Directory. *)
EXTENDS Directory

Lens == ("a" :> 1) @@ ("b" :> 1) @@ ("c" :> 1) @@ ("d" :> 1) @@ ("e" :> 2) @@ ("f" :> 1)
          @@ ("g" :> 2) @@ ("h" :> 1)
(* c, d and e collide. *)
Hashes == ("a" :> 2) @@ ("b" :> 4) @@ ("c" :> 6) @@ ("d" :> 6) @@ ("e" :> 6) @@ ("f" :> 8)
            @@ ("g" :> 10) @@ ("h" :> 12)

(* The directory with the names of a sequence added one by one. *)
Filled(d, ns) ==
  FoldLeft(LAMBDA x, n : ext4_dir_add_entry([x EXCEPT !.quota = 9], n).d, d, ns)

Start == {[Filled(x[1], x[2]) EXCEPT !.quota = 0] : x \in {
  <<NewLinear, <<>>>>, <<NewLinear, <<"a", "b", "e", "c", "f">>>>,
  <<ext4_dir_dx_init, <<>>>>, <<ext4_dir_dx_init, <<"c", "d", "a", "f", "e">>>>,
  <<ext4_dir_dx_init, <<"h", "g", "e", "d", "c", "b">>>>}}
=============================================================================
