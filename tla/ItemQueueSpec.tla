--------------------------- MODULE ItemQueueSpec ---------------------------
(* The item queue as an abstract machine.  The wires its users drive are     *)
(* part of the state, so that an implementation must treat the very items    *)
(* it was given, and cannot explain a wrong cell by another input.           *)
EXTENDS ItemQueue

VARIABLES
  queue,                    \* the items held, oldest first
  port                      \* the wires of the last edge

QueueInit == queue = <<>> /\ port = NoPort

QueueEdge(p) ==
  /\ p.wr # <<>> => CanWrite2(Len(queue))
  /\ queue' = QueueAfter(queue, p.flush, p.wr, p.rd)
  /\ port' = p

QueueNext == \E p \in Ports : QueueEdge(p)

QueueSpec == QueueInit /\ [][QueueNext]_<<queue, port>>
=============================================================================
