------------------------------ MODULE HwCells ------------------------------
(* The two cells that know nothing of the list: the item FIFO between any    *)
(* producer and consumer, and the AXI4-Lite slave between any master and any *)
(* decoder.  They share no wire; a behaviour is one of the two on its own.   *)
EXTENDS ItemFifo, AxiLiteIf

\* The AXI4-Lite slave: the master's wires are free on every edge; the decoder
\* answers a pulse on the next cycle, changes its error wire at will after that,
\* and may hold the write response for a while.  The history variables count
\* what is open.
VARIABLES
  awOpen, wOpen,            \* addresses and data words accepted, not answered
  pulses,                   \* request pulses not yet answered
  wrotePulse, readPulse,    \* the previous edge was a pulse
  verdict,                  \* the decoder's error for the last write pulse
  answer                    \* the decoder's answer to the last read pulse

writeHistory == <<awOpen, wOpen, pulses, wrotePulse, verdict>>
readHistory == <<readPulse, answer>>
slaveVars == <<axiVars, writeHistory, readHistory>>

Offers(S) == {<<>>} \cup {<<x>> : x \in S}
Flag(P) == IF P THEN 1 ELSE 0

SlaveInit ==
  /\ AxiInit
  /\ awOpen = 0 /\ wOpen = 0 /\ pulses = 0
  /\ wrotePulse = FALSE /\ readPulse = FALSE
  /\ verdict = FALSE /\ answer = [data |-> rdData, err |-> FALSE]

WriteEdge(aw, w, bready, err, hold) ==
  /\ WriteStep(aw, w, bready, err, hold)
  /\ awOpen' = awOpen + Flag(AwTaken(aw)) - Flag(Answered(bready))
  /\ wOpen' = wOpen + Flag(WTaken(w)) - Flag(Answered(bready))
  /\ pulses' = pulses + Flag(wstate = "W_PULSE") - Flag(Answered(bready))
  /\ wrotePulse' = (wstate = "W_PULSE")
  /\ verdict' = IF wrotePulse THEN err ELSE verdict
  /\ UNCHANGED <<readVars, readHistory>>

ReadEdge(ar, rready, data, err) ==
  /\ ReadStep(ar, rready, data, err)
  /\ readPulse' = (rstate = "R_PULSE")
  /\ answer' = IF readPulse THEN [data |-> data, err |-> err] ELSE answer
  /\ UNCHANGED <<writeVars, writeHistory>>

SlaveNext ==
  \/ \E aw \in Offers(Addr), w \in Offers(WriteData), bready, err, hold \in BOOLEAN :
       WriteEdge(aw, w, bready, err, hold)
  \/ \E ar \in Offers(Addr), rready, err \in BOOLEAN, d \in ReadData :
       ReadEdge(ar, rready, d, err)

\* The two channels share no register, so an edge is a step of one, then of
\* the other.  The clock runs for the write channel and the decoder
\* releases its hold.
Fairness ==
  WF_slaveVars(\E err \in BOOLEAN : WriteEdge(<<>>, <<>>, TRUE, err, FALSE))


-----------------------------------------------------------------------------
\* One outstanding transaction: address, data and pulse of a write go together,
\* one each, whatever order and however often the master offers them; and a
\* response is the decoder's answer to its own access: BRESP is the error of the
\* cycle after the pulse, although the wire may change while the response is
\* held; RDATA and RRESP are what the decoder answered to this read.
OneForOne ==
  /\ awOpen \in 0..1 /\ wOpen \in 0..1 /\ pulses \in 0..1
  /\ pulses = 1 => awOpen = 1 /\ wOpen = 1
  /\ wstate = "W_RESP" => pulses = 1 /\ wrErr = verdict
  /\ rstate = "R_RESP" => answer = [data |-> rdData, err |-> rdErr]

\* A complete write is answered.
WriteAnswered == awSeen /\ wSeen ~> wstate = "W_RESP"

-----------------------------------------------------------------------------
VARIABLE unit               \* which of the two

cellVars == <<unit, fifoVars, slaveVars>>

CellsInit == unit \in {"fifo", "slave"} /\ FifoInit /\ SlaveInit

FifoCell == unit = "fifo" /\ FifoNext /\ UNCHANGED <<unit, slaveVars>>
SlaveCell == unit = "slave" /\ SlaveNext /\ UNCHANGED <<unit, fifoVars>>

\* The fairness of the slave.
CellsFairness ==
  WF_cellVars(/\ unit = "slave" /\ UNCHANGED <<unit, fifoVars>>
              /\ \E err \in BOOLEAN : WriteEdge(<<>>, <<>>, TRUE, err, FALSE))

CellsSpec == CellsInit /\ [][FifoCell \/ SlaveCell]_cellVars /\ CellsFairness
=============================================================================
