------------------------------- MODULE Bitmap -------------------------------
(***************************************************************************)
(* Allocation bitmaps (ext4_bitmap.c).  A bitmap is the set of its bits    *)
(* that are 1.  Bits are packed eight to a byte, which matters to the      *)
(* search: it treats the bits up to the next byte boundary on their own.   *)
(***************************************************************************)
EXTENDS Integers, FiniteSetsExt

None == -1

RoundUp(n, a) == ((n + a - 1) \div a) * a

(* Mutant: one bit too few. *)
ext4_bmap_bits_free_short(bits, sbit, bcnt) == bits \ (sbit .. sbit + bcnt - 2)

(* ext4_bmap_bits_free(bmap, sbit, bcnt) *)
ext4_bmap_bits_free(bits, sbit, bcnt) == bits \ (sbit .. sbit + bcnt - 1)

FirstClear(bits, from, to) ==
  LET clear == (from .. to - 1) \ bits
  IN IF clear = {} THEN None ELSE Min(clear)

(* ext4_bmap_bit_find_clr(bmap, sbit, ebit, bit_id) for sbit <= ebit, None for
   ENOSPC.  When the clear bit lies before the first byte boundary the search
   reports its own start, not the bit. *)
ext4_bmap_bit_find_clr(bits, sbit, ebit) ==
  LET head == FirstClear(bits, sbit, Min({ebit, RoundUp(sbit, 8)}))
  IN IF head # None THEN sbit ELSE FirstClear(bits, RoundUp(sbit, 8), ebit)
=============================================================================
