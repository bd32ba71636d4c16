------------------------------ MODULE FramePool ------------------------------
(***************************************************************************)
(* What a physical memory manager promises: a frame it grants is in no     *)
(* other hands until it comes back, and a request is refused only when     *)
(* nothing is left to grant.                                               *)
(***************************************************************************)
CONSTANTS
  Frames,    \* frame addresses
  Refused,   \* the answer to a request that cannot be met
  Nothing    \* no request has been answered yet

VARIABLES
  free,      \* frames in the pool
  held,      \* frames in the hands of clients
  answer     \* the answer to the last request

vars == <<free, held, answer>>

Init == free = {} /\ held = {} /\ answer = Nothing

\* The pool is told which frames there are, before the first request.
Configure ==
  /\ held = {} /\ answer = Nothing
  /\ free' \in SUBSET Frames
  /\ UNCHANGED <<held, answer>>

Grant(f) ==
  /\ f \in free
  /\ answer' = f
  /\ free' = free \ {f}
  /\ held' = held \cup {f}

Refuse ==
  /\ free = {}
  /\ answer' = Refused
  /\ UNCHANGED <<free, held>>

TakeBack(f) ==
  /\ f \in held
  /\ held' = held \ {f}
  /\ free' = free \cup {f}
  /\ UNCHANGED answer

Next ==
  \/ Configure
  \/ \E f \in Frames : Grant(f) \/ TakeBack(f)
  \/ Refuse

Spec == Init /\ [][Next]_vars
=============================================================================
