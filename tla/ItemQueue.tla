----------------------------- MODULE ItemQueue -----------------------------
(* What hw/mtf_cam/rtl/item_fifo.sv promises to the two sides of the         *)
(* expander: a first-in first-out queue of at most Depth items that takes up *)
(* to two items and gives up one item per clock edge, with a room signal     *)
(* that reserves both write slots.  Operators only: MtfDrain keeps such a    *)
(* queue as one of its variables, ItemQueueSpec is the queue on its own.     *)
EXTENDS Integers, Sequences

CONSTANTS
  Depth,                    \* parameter D, at least 2
  Item                      \* the {is_run, n, byte} records

\* can_wr2_o: at least two slots are free.
CanWrite2(count) == count <= Depth - 2

\* rd_valid_o and its complement empty_o.
Readable(q) == q # <<>>

\* The contents after an edge that writes the items wr (zero, one or two of
\* them) and pops the head when rd is set; a flush drops everything, which the
\* mutated form forgets.
Dequeue(q, rd) == IF rd /\ Readable(q) THEN Tail(q) ELSE q
QueueAfterMut(q, flush, wr, rd) == Dequeue(q, rd) \o wr
QueueAfter(q, flush, wr, rd) == IF flush THEN <<>> ELSE Dequeue(q, rd) \o wr

\* Port B is written only together with port A.
Writes == {<<>>} \cup {<<a>> : a \in Item} \cup {<<a, b>> : a, b \in Item}
Ports == [flush : BOOLEAN, wr : Writes, rd : BOOLEAN]
NoPort == [flush |-> FALSE, wr |-> <<>>, rd |-> FALSE]
=============================================================================
