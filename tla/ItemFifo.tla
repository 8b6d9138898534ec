------------------------------ MODULE ItemFifo ------------------------------
(* hw/mtf_cam/rtl/item_fifo.sv: the item queue as the code builds it, a ring *)
(* of Depth cells with a write pointer, a read pointer and a count, two      *)
(* write ports and one read port.  One step is one clock edge.               *)
EXTENDS ItemQueue

ASSUME FifoAssumption == Depth \in Nat /\ Depth >= 2

VARIABLES
  mem,                      \* mem: the cells; never reset by the code
  wptr, rptr,               \* wptr_q, rptr_q
  cnt,                      \* cnt_q
  port                      \* the wires of the last edge, for ItemQueueSpec

fifoVars == <<mem, wptr, rptr, cnt, port>>

Cells == 0..(Depth - 1)

\* The cell k places after p, wrapping round the end of the array.
Ahead(p, k) == IF p + k < Depth THEN p + k ELSE p + k - Depth

\* What the read side will see: cnt cells from rptr on.
Contents == [i \in 1..cnt |-> mem[Ahead(rptr, i - 1)]]

Queue == INSTANCE ItemQueueSpec WITH queue <- Contents

\* The wrap-around increment of both pointers.
Advance(p) == IF p = Depth - 1 THEN 0 ELSE p + 1

FifoInit ==
  /\ mem \in [Cells -> Item]
  /\ wptr = 0 /\ rptr = 0 /\ cnt = 0
  /\ port = NoPort

-----------------------------------------------------------------------------
\* do_rd: the head is popped only when there is one.
DoRead(rd) == rd /\ cnt # 0

\* wptr_n: past the last item written; port B writes behind port A.
WriteTo(wr) ==
  IF wr = <<>> THEN wptr
  ELSE IF Len(wr) = 1 THEN Advance(wptr) ELSE Advance(Advance(wptr))

\* Port B addressing the next cell without the wrap-around.
MemAfterMut(wr) ==
  [c \in Cells |->
     IF Len(wr) = 2 /\ c = wptr + 1 THEN wr[2]
     ELSE IF wr # <<>> /\ c = wptr THEN wr[1]
     ELSE mem[c]]

\* The two write ports: item A at wptr, item B at the next cell.
MemAfter(wr) ==
  [c \in Cells |->
     IF Len(wr) = 2 /\ c = Advance(wptr) THEN wr[2]
     ELSE IF wr # <<>> /\ c = wptr THEN wr[1]
     ELSE mem[c]]

\* cnt_n.
CountAfter(wr, rd) == cnt + Len(wr) - (IF DoRead(rd) THEN 1 ELSE 0)

\* The clock edge.  A flush resets the pointers and the count; the cells are
\* written whatever the flush says.
FifoEdge(p) ==
  /\ mem' = MemAfter(p.wr)
  /\ wptr' = IF p.flush THEN 0 ELSE WriteTo(p.wr)
  /\ rptr' = IF p.flush THEN 0 ELSE IF DoRead(p.rd) THEN Advance(rptr) ELSE rptr
  /\ cnt' = IF p.flush THEN 0 ELSE CountAfter(p.wr, p.rd)
  /\ port' = p

\* The caller's contract (mtf_ctrl gates s_sym.tready with can_wr2_o).
FifoNext == \E p \in Ports : (p.wr # <<>> => CanWrite2(cnt)) /\ FifoEdge(p)

FifoSpec == FifoInit /\ [][FifoNext]_fifoVars

-----------------------------------------------------------------------------
\* The registers have their types: no pointer or count leaves its range, so
\* no enqueue is made without a free slot (p_fifo_room of mtf_cam.sv).
FifoTypeOK ==
  /\ mem \in [Cells -> Item]
  /\ wptr \in Cells
  /\ rptr \in Cells
  /\ cnt \in 0..Depth
  /\ port \in Ports

\* The three registers agree: the write pointer is cnt cells ahead of the read
\* pointer, through every mixture of two writes, a read and a flush.
PointersAgree == wptr = Ahead(rptr, cnt)

\* The ring implements the queue: items leave in the order they entered, none
\* is lost, repeated or overwritten.
ImplementsQueue == Queue!QueueSpec
=============================================================================
