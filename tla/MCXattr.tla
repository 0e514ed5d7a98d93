------------------------------ MODULE MCXattr -------------------------------
(* Instances of Xattr. *)
EXTENDS Xattr

EntryLens == ("a" :> 5) @@ ("b" :> 5) @@ ("c" :> 6) @@ ("d" :> 7)
ValueLens == ("zero" :> 0) @@ ("short" :> 1) @@ ("mid" :> 4) @@ ("long" :> 9)
Caps == ("ibody" :> 23) @@ ("block" :> 45)

With(a, ps) ==
  FoldLeft(LAMBDA x, p : ext4_xattr_set_entry(x, ext4_xattr_find_entry(x, p[1]), p[1], p[2]).a, a, ps)
Image(ib, b, o, bl) == [ibody |-> ib, acl |-> b, other |-> o, blk |-> bl]
InInode(ps) == With(EmptyArea("ibody"), ps)
Block(b, ref, ps) == b :> [ref |-> ref, a |-> With(EmptyArea("block"), ps)]

Start == {
  Image(EmptyArea("ibody"), 0, 0, <<>>),
  Image(InInode(<<<<"a", "mid">>, <<"b", "short">>>>), 0, 0, <<>>),
  Image(InInode(<<<<"a", "mid">>>>), 1, 0, Block(1, 1, <<<<"c", "long">>, <<"d", "mid">>>>)),
  Image(InInode(<<<<"a", "short">>>>), 1, 1, Block(1, 2, <<<<"c", "mid">>, <<"d", "short">>>>)),
  Image(EmptyArea("ibody"), 1, 2, Block(1, 1, <<<<"b", "short">>>>) @@ Block(2, 1, <<<<"b", "mid">>>>))}
=============================================================================
