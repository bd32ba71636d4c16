------------------------------ MODULE MCPaging ------------------------------
\* Constants for checking Paging with TLC: 16 frames in four big pages, the
\* upper two of which are the window.
EXTENDS Paging

FrameDirectory == <<0, 0>>
FrameTable == <<0, 1>>
FrameCode == <<0, 2>>

\* The word of memory nobody used, and one that looks like a big page.
LeftoversSmall == {Zeroed[0], [present |-> TRUE, page_size |-> TRUE, address |-> <<1, 2>>]}

Behind == {<<0, 3>>} \cup ((1 .. 3) \X Index)

\* All memory; too little for the heap; for tasks; none; memory that starts
\* outside the boot table, beyond the window, and across its end.
RangesSmall ==
  {Behind, {<<0, 3>>}, {<<0, 3>>, <<1, 0>>, <<1, 1>>, <<1, 2>>}, {},
   {1} \X Index, {2} \X Index, {<<0, 3>>, <<1, 3>>, <<2, 0>>},
   {<<0, 3>>, <<1, 2>>, <<1, 3>>, <<2, 0>>}}
=============================================================================
