-------------------------- MODULE MCVirtualMemory --------------------------
(***************************************************************************)
(* VirtualMemory for TLC.  The kernel ends at frame 3 of 24, words have    *)
(* two bits, the heap two pages, and up to three user tasks exist.  Every  *)
(* memory map of at most two of the regions below is tried: low memory,    *)
(* memory that ends at, just behind and far behind the kernel, up to the   *)
(* end of the address space, the same memory reserved, and memory behind   *)
(* the kernel only.                                                        *)
(***************************************************************************)
EXTENDS VirtualMemory

Region(a, n, free) == [addr |-> a, len |-> n, available |-> free]

Available == {Region(0, 1, TRUE), Region(1, 2, TRUE), Region(1, 3, TRUE),
              Region(3, 9, TRUE), Region(1, 5, TRUE), Region(1, 23, TRUE),
              Region(12, 4, TRUE), Region(1, 11, FALSE)}

AllMaps == UNION {[1 .. n -> Available] : n \in 0 .. 2}

AllRanges == {RangeOf(e) : e \in {r \in Available : HoldsKernelEnd(r)}}

NoRequest == -1
NullCr3   == -2
FirstIds  == 2 .. 4
TestKill  == {2}
=============================================================================
