------------------------------- MODULE MCKHeap -------------------------------
(***************************************************************************)
(* KHeap for TLC.                                                          *)
(***************************************************************************)
EXTENDS KHeap

\* A stack, and a payload as large as two of them with their bookkeeping.
\* A split then leaves at least a block, and never exactly the first block:
\* as with the kernel's 8192 byte stacks in its heap of 1 MB.
Stacks == {8, 22}

\* The theorems' hypothesis about the callers.
ASSUME KernelRequests
=============================================================================
