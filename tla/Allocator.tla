------------------------------ MODULE Allocator ------------------------------
(***************************************************************************)
(* What kmalloc and kfree promise.  A region is the payload handed to a    *)
(* client together with the words the allocator keeps in front of it and   *)
(* behind it.  Regions of live allocations never overlap, and a request is *)
(* refused only when no gap between them can hold it.                      *)
(***************************************************************************)
EXTENDS Integers

CONSTANTS
  First, Last,     \* the words the allocator manages
  Front, Back,     \* words it keeps in front of and behind a payload
  Sizes,           \* payloads clients ask for
  Null             \* the answer to a request that cannot be met

VARIABLES
  live,      \* allocations: first word of the payload and its size
  answer     \* the last request and what it was given

vars == <<live, answer>>

\* The words of allocation b.
Region(b) == b.ptr - Front .. b.ptr + b.size - 1 + Back

\* A payload of n words can be placed at p.
Fits(p, n) ==
  /\ p - Front >= First /\ p + n - 1 + Back <= Last
  /\ \A b \in live : Region([ptr |-> p, size |-> n]) \cap Region(b) = {}

Init == live = {} /\ answer = [size |-> 0, ptr |-> Null]

Grant(n, p) ==
  /\ Fits(p, n)
  /\ live' = live \cup {[ptr |-> p, size |-> n]}
  /\ answer' = [size |-> n, ptr |-> p]

Refuse(n) ==
  /\ \A p \in First .. Last : ~Fits(p, n)
  /\ answer' = [size |-> n, ptr |-> Null]
  /\ UNCHANGED live

Release(b) ==
  /\ b \in live
  /\ live' = live \ {b}
  /\ UNCHANGED answer

Next ==
  \/ \E n \in Sizes : Refuse(n) \/ \E p \in First .. Last : Grant(n, p)
  \/ \E b \in live : Release(b)

Spec == Init /\ [][Next]_vars
=============================================================================
