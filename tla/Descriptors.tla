---------------------------- MODULE Descriptors ----------------------------
(***************************************************************************)
(* gdt.c: segment descriptors, as gdt_encode_entry packs them and as the   *)
(* CPU unpacks them.                                                       *)
(*                                                                         *)
(* A 32-bit word is four bytes, the lowest first, and a byte a number.     *)
(***************************************************************************)
EXTENDS Naturals, Sequences

Byte == 0 .. 255

\* The limit has twenty bits, the last four of which share a byte with flags.
gdt_encode_entry(base, limit, flags, access) ==
  [limit_low |-> <<limit[1], limit[2]>>, base_low |-> <<base[1], base[2]>>,
   base_middle |-> base[3], access_flags |-> access,
   granularity |-> (limit[3] % 16) + 16 * (flags \div 16), base_high |-> base[4]]

(***************************************************************************)
(* What the CPU reads from a descriptor (external).                        *)
(***************************************************************************)

Base(e) == <<e.base_low[1], e.base_low[2], e.base_middle, e.base_high>>

\* The last byte of the segment; a limit may count pages.
Limit(e) ==
  LET low == e.limit_low
      high == e.granularity % 16
  IN  IF e.granularity < 128 THEN <<low[1], low[2], high, 0>>
      ELSE <<255, 15 + 16 * (low[1] % 16), (low[1] \div 16) + 16 * (low[2] % 16),
             (low[2] \div 16) + 16 * high>>

Present(e) == e.access_flags >= 128
Privilege(e) == (e.access_flags \div 32) % 4
IsSegment(e) == (e.access_flags \div 16) % 2 = 1
Executable(e) == (e.access_flags \div 8) % 2 = 1
Writable(e) == (e.access_flags \div 2) % 2 = 1

\* All of memory.
Flat(e) == Base(e) = <<0, 0, 0, 0>> /\ Limit(e) = <<255, 255, 255, 255>>

\* What may be loaded into cs and into the data segment registers, and what
\* ltr accepts.
IsCode(e) == Present(e) /\ IsSegment(e) /\ Executable(e) /\ Privilege(e) = 0
IsData(e) == Present(e) /\ IsSegment(e) /\ ~Executable(e) /\ Writable(e)
IsFreeTSS(e) == Present(e) /\ e.access_flags % 32 = 9

(***************************************************************************)
(* gdt_init.                                                               *)
(***************************************************************************)

Zero == <<0, 0, 0, 0>>
Ones == <<255, 255, 255, 255>>

\* sizeof(tss)
TSS_SIZE == 104

GDT_ACCESS_TYPE_SEGMENT == 16
GDT_ACCESS_PRESENT == 128
GDT_ACCESS_PRIV_USER == 96
GDT_ACCESS_EXECUTABLE == 8
GDT_ACCESS_READABLE == 2
GDT_ACCESS_WRITABLE == 2

Code(privilege) ==
  GDT_ACCESS_TYPE_SEGMENT + GDT_ACCESS_PRESENT + privilege + GDT_ACCESS_EXECUTABLE
    + GDT_ACCESS_READABLE
DataOf(privilege) ==
  GDT_ACCESS_TYPE_SEGMENT + GDT_ACCESS_PRESENT + privilege + GDT_ACCESS_WRITABLE

\* The six variables from null_entry on, which lie in the order of their
\* declaration, when the task state lies at tss.
gdt_entries(tss) ==
  << gdt_encode_entry(Zero, Zero, 0, 0),
     gdt_encode_entry(Zero, Ones, 207, Code(0)),
     gdt_encode_entry(Zero, Ones, 207, DataOf(0)),
     gdt_encode_entry(Zero, Ones, 207, Code(GDT_ACCESS_PRIV_USER)),
     gdt_encode_entry(Zero, Ones, 207, DataOf(GDT_ACCESS_PRIV_USER)),
     gdt_encode_entry(tss, <<TSS_SIZE, 0, 0, 0>>, 64, 137) >>

\* ltr marks the descriptor it loads.
Busy(table) == [table EXCEPT ![6].access_flags = @ + 2]

\* The entry a selector names; its low three bits are not an index.
Selected(table, selector) == table[(selector \div 8) + 1]
=============================================================================
