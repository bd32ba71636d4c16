-------------------------- MODULE MCPhysicalMemory --------------------------
(***************************************************************************)
(* PhysicalMemory for TLC: words of three bits; ranges of less than one    *)
(* word, of exactly two words, and of two words and one frame that ends at *)
(* the end of the address space.                                           *)
(***************************************************************************)
EXTENDS PhysicalMemory

SmallRanges == {<<2, 2>>, <<5, 6>>, <<9, 7>>}
NoRequest   == -1
=============================================================================
