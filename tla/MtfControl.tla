----------------------------- MODULE MtfControl -----------------------------
(* The control plane of mtf_cam: the AXI4-Lite slave, the register file and  *)
(* the invocation FSM of mtf_ctrl.sv reduced to idle or running.  MtfCam has *)
(* the FSM in full; here an invocation may end in any way on any edge.       *)
EXTENDS AxiLiteIf, MtfRegs

CONSTANTS
  Requests,                 \* the writes a master may send
  Reads,                    \* the addresses it may read
  Faults,                   \* the errors an invocation may end with
  Live                      \* what the counters may read

ASSUME WordAssumption ==
  /\ Addr \subseteq Nat /\ WriteData \subseteq [data : Word, strb : SUBSET (0..3)]
  /\ Requests \subseteq [addr : Addr, body : WriteData] /\ Faults \subseteq RunErrors
  /\ ReadData = Word /\ Reads \subseteq Addr /\ Live \subseteq Word

VARIABLES
  running,                  \* state_q # S_IDLE
  checked,                  \* history: the configuration the doorbell decision saw
  startedSince,             \* history: an invocation began after the last abort request
  ending,                   \* history: the flag raised on the last edge
  accounted                 \* history: a block began, and no clear followed its end

historyVars == <<checked, startedSince, ending, accounted>>
controlVars == <<axiVars, regsVars, running, historyVars>>

ControlInit ==
  /\ AxiInit /\ RegsInit
  /\ running = FALSE
  /\ checked = config /\ startedSince = FALSE /\ ending = {} /\ accounted = FALSE

-----------------------------------------------------------------------------
\* busy_o is high from the doorbell edge on; from the next state on.
BusyMut == running
Busy == running \/ doorbell

\* How an invocation may go on at this edge: DONE wins over an abort, and no
\* symbol is accepted, hence none is faulty, while aborting.
NoEvent == {}
Events ==
  IF ~running THEN {NoEvent}
  ELSE IF abort THEN {{DONE}, {ABORTED}}
  ELSE {NoEvent, {DONE}} \cup {{e} : e \in Faults}

RunningAfter(sets) == IF running THEN sets = NoEvent ELSE doorbell

\* req_wr and req_rd as the decoder sees them on this edge.
WriteRequest ==
  IF wstate = "W_PULSE"
  THEN <<[addr |-> wrAddr, data |-> wrData.data, strb |-> wrData.strb]>> ELSE <<>>
ReadRequest == IF rstate = "R_PULSE" THEN <<rdAddr>> ELSE <<>>

AbortRequested == Aborts(WriteRequest)

\* One clock edge: aw, w, bready, ar, rready are the master's wires, sets the
\* flags an ending invocation raises.
Edge(aw, w, bready, ar, rready, sets, live) ==
  /\ sets \in Events
  /\ WriteStep(aw, w, bready, wrErrAns, dbHold)
  /\ ReadStep(ar, rready, rdDataAns, rdErrAns)
  /\ RegsEdge(WriteRequest, ReadRequest, Busy, sets, live)
  /\ running' = RunningAfter(sets)
  /\ checked' = IF Busy THEN checked ELSE config
  /\ startedSince' = IF AbortRequested THEN FALSE ELSE startedSince \/ (doorbell /\ ~running)
  /\ ending' = sets
  /\ accounted' = IF Cleared(WriteRequest) # Zero THEN running' ELSE accounted \/ doorbell

\* Any master: it offers one or both halves of a request (the other half of a
\* write already begun) when the slave is ready for them, and takes a response
\* when it likes.
Offer(x, ready) == {<<>>} \cup IF ready THEN {<<x>>} ELSE {}
Takes(response) == IF response THEN BOOLEAN ELSE {FALSE}
Continues(r) == (awSeen => r.addr = wrAddr) /\ (wSeen => r.body = wrData)

Quiet(bready, rready) ==
  \E sets \in Events, live \in Live : Edge(<<>>, <<>>, bready, <<>>, rready, sets, live)

OfferRead == {<<>>} \cup IF rstate = "R_IDLE" THEN {<<a>> : a \in Reads} ELSE {}

Send(r) ==
  /\ wstate = "W_IDLE" /\ Continues(r)
  /\ \E aw \in Offer(r.addr, AwReady), w \in Offer(r.body, WReady),
        ar \in OfferRead, rready \in Takes(rstate = "R_RESP"),
        sets \in Events, live \in Live :
          Edge(aw, w, FALSE, ar, rready, sets, live)

Ask(a) ==
  /\ rstate = "R_IDLE"
  /\ \E bready \in Takes(wstate = "W_RESP"), sets \in Events, live \in Live :
       Edge(<<>>, <<>>, bready, <<a>>, FALSE, sets, live)

ControlNext ==
  \/ \E bready \in Takes(wstate = "W_RESP"), rready \in Takes(rstate = "R_RESP") :
       Quiet(bready, rready)
  \/ \E r \in Requests : Send(r)
  \/ \E a \in Reads : Ask(a)

ControlSpec == ControlInit /\ [][ControlNext]_controlVars

-----------------------------------------------------------------------------
\* An accepted doorbell meets an idle FSM: it is never lost, and it never
\* restarts a running block.
DoorbellMeetsIdle == doorbell => ~running

\* A block runs on the configuration that passed the doorbell check, from the
\* decision to its end: no write slips in between, none changes it later.
RunsOnChecked == Busy => config = checked /\ ~ErrParam(checked)

\* An abort request never reaches an invocation begun after it.
AbortHitsOwn == abort /\ Busy => ~startedSince

\* The response to a doorbell comes when its decision shows in STATUS
\* (ADR-0005): no decision is still under way.
ResponseAfterDecision == wstate = "W_RESP" => ~dbPending /\ ~dbHold

\* The flag of an ending block, like any flag already set, is in STATUS unless
\* software clears that very flag on that edge.
FlagsKept ==
  [][(sticky \cup ending') \ sticky' \subseteq Cleared(WriteRequest)]_controlVars

\* mas.md:58, :156: DONE is set the cycle after the last beat, ABORTED within
\* the bound.  It is not when STATUS is being cleared on that edge.
EndIsVisible == ending \subseteq sticky

\* A STATUS read falls into no gap between the doorbell, BUSY and the flag of
\* the end: the word shows every block begun, running or ended, unless software
\* has cleared flags since its end.
StatusShowsBlock ==
  rstate = "R_CAPT" /\ rdAddr = STATUS /\ accounted =>
    rdDataAns \cap ({BUSY, DONE, ABORTED} \cup RunErrors) # {}

\* irq is high exactly while an enabled flag is set.
IrqFollows == irq <=> sticky \cap irqEn # {}

\* The strobes of a full-word write.
AllLanes == {0, 1, 2, 3}

-----------------------------------------------------------------------------
\* For TLC, a small master.  It rings, aborts, does both, clears flags, writes
\* legal and illegal configurations, a partial word among them, and reads
\* STATUS, on the same edges or apart.  Errors end a block as DONE does;
\* MtfHost has them.
Full(d) == [data |-> d, strb |-> AllLanes]

MCRequests ==
  {[addr |-> CTRL, body |-> Full({DOORBELL})],
   [addr |-> CTRL, body |-> Full({ABORT})],
   [addr |-> CTRL, body |-> Full({DOORBELL, ABORT})],
   [addr |-> STATUS, body |-> Full({DONE, ERR_BUSY})],
   [addr |-> SYMBOL_LIMIT, body |-> Full({0, 27})],
   [addr |-> SYMBOL_LIMIT, body |-> [data |-> {}, strb |-> {0}]],
   [addr |-> BYTES_LIMIT, body |-> Full({0})],
   [addr |-> 128, body |-> Full({0})]}
MCBodyAddrs == {r.addr : r \in MCRequests}
MCWrites == {r.body : r \in MCRequests}
MCReadData == Word
MCReads == {STATUS}
MCZero == {Zero}
MCNone == {}
=============================================================================
