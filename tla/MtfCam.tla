------------------------------- MODULE MtfCam -------------------------------
(* hw/mtf_cam/rtl/mtf_ctrl.sv and mtf_cam.sv: the invocation FSM, the symbol *)
(* sequencer, the item enqueue with its byte budget and the counters, over   *)
(* the list (MtfList), the run accumulator (MtfRun) and the drain side       *)
(* (MtfDrain).  One step is one clock edge.  Every action below is one arm   *)
(* of the FSM; its parameter ready is m_axis_l_tready on that edge.          *)
(*                                                                           *)
(* The environment: the register file (mtf_regs.sv) rings the doorbell only  *)
(* in IDLE with a non-empty used map and limits of at least 1, and may       *)
(* request an abort on any cycle; s_sym offers any beat or none; m_l may     *)
(* stall for as long as it likes.                                            *)
EXTENDS MtfList, MtfRun, MtfDrain

CONSTANTS
  Beats,                    \* the symbol beats s_sym may offer
  SymbolLimits,             \* the SYMBOL_LIMIT values of the doorbells
  BytesLimits               \* the BYTES_LIMIT values of the doorbells

ASSUME BeatsAssumption == Beats \subseteq [value : Nat, type : 0..7, last : BOOLEAN]
ASSUME LimitsAssumption ==
  SymbolLimits \subseteq Nat \ {0} /\ BytesLimits \subseteq Nat \ {0}

VARIABLES
  state,                    \* state_q
  flushIssued,              \* flush_issued_q
  symbolLimit, bytesLimit,  \* the limits latched for this invocation
  symbolsIn, bytesOut,      \* SYMBOLS_IN, BYTES_OUT
  initCycles,               \* INIT_CYCLES
  committed,                \* committed_q: bytes of all items enqueued
  status                    \* the STATUS bit that ended the last invocation

ctrlVars == <<state, flushIssued>>
limitVars == <<symbolLimit, bytesLimit>>
countVars == <<symbolsIn, initCycles, committed>>
vars == <<listVars, runVars, drainVars, ctrlVars, limitVars, countVars, bytesOut, status>>

States == {"IDLE", "INIT", "DECODE", "DRAIN"}
Errors == {"ERR_UNDERRUN", "ERR_RANK", "ERR_RUN", "ERR_LIMIT"}
Outcomes == Errors \cup {"NONE", "DONE", "ABORTED"}

Init ==
  /\ ListInit /\ RunInit /\ DrainInit
  /\ state = "IDLE" /\ flushIssued = FALSE
  /\ symbolLimit = 0 /\ bytesLimit = 0
  /\ symbolsIn = 0 /\ bytesOut = 0 /\ initCycles = 0 /\ committed = 0
  /\ status = "NONE"

-----------------------------------------------------------------------------
(* Beat decode and the checks of one accepted beat.                          *)

ValidType0(b) == b.type = 0 /\ b.value <= fillIdx
IsRun(b) == b.type = 0 /\ b.value <= 1
IsMtf(b) == ValidType0(b) /\ b.value >= 2
ValidEob(b) == b.type = 3 /\ b.value = fillIdx + 1
Rank(b) == b.value - 1

\* The items a clean beat enqueues: first the run it terminates, then the byte
\* its own rank selects.
PendingRun == IF run # 0 THEN <<[count |-> run, byte |-> lst[0]]>> ELSE <<>>
ItemsMut(b) ==
  IF IsMtf(b) THEN <<[count |-> 1, byte |-> lst[Rank(b)]]>> \o PendingRun
  ELSE IF ValidEob(b) THEN PendingRun ELSE <<>>
Items(b) ==
  IF IsMtf(b) THEN PendingRun \o <<[count |-> 1, byte |-> lst[Rank(b)]]>>
  ELSE IF ValidEob(b) THEN PendingRun ELSE <<>>

\* i0_bytes plus the byte of a second item.
ItemBytes(b) ==
  (IF IsMtf(b) \/ ValidEob(b) THEN run ELSE 0) + (IF IsMtf(b) THEN 1 ELSE 0)

\* A byte budget that looks at the first item only.
OverBudgetFirst(b) ==
  \/ committed + (IF run # 0 THEN run ELSE ItemBytes(b)) > bytesLimit
  \/ ~ValidEob(b) /\ symbolsIn + 1 = symbolLimit

\* err_limit: the byte budget, and the symbol budget for all but the EOB.
OverBudget(b) ==
  \/ committed + ItemBytes(b) > bytesLimit
  \/ ~ValidEob(b) /\ symbolsIn + 1 = symbolLimit

\* The error flag a beat raises, in the order of the checks.
Verdict(b) ==
  IF b.last /\ b.type # 3 THEN "ERR_UNDERRUN"
  ELSE IF ~ValidType0(b) /\ ~ValidEob(b) THEN "ERR_RANK"
  ELSE IF IsRun(b) /\ RunOverflow(b.value) THEN "ERR_RUN"
  ELSE IF OverBudget(b) THEN "ERR_LIMIT"
  ELSE "NONE"

\* s_axis_sym_tready while decoding: both write slots must be free.
CanAccept == Queue!CanWrite2(Len(fifo))

\* Normal completion on this edge; it wins over an abort.
DoneNow == state = "DRAIN" /\ flushIssued /\ PackIdle

\* m_hs: the lanes of a beat handed over on this edge.
LanesOut(ready) == IF ready /\ out # <<>> THEN Len(out[1].bytes) ELSE 0
CountOut(ready) == bytesOut' = bytesOut + LanesOut(ready)

ListHold == ListStep(FALSE, {}, NoMove)

\* INIT_CYCLES wraps at nine bits for N_LIST = 256.
NextCycle == IF initCycles = 2 * NList - 1 THEN 0 ELSE initCycles + 1

-----------------------------------------------------------------------------
(* The arms of the FSM.                                                      *)

\* IDLE without a doorbell: a flushed beat may still leave, and a fill cut
\* short by an abort runs on.
Idle(ready) ==
  /\ state = "IDLE"
  /\ ListHold /\ RunHold /\ DrainEdge("run", <<>>, ready)
  /\ CountOut(ready)
  /\ UNCHANGED <<ctrlVars, limitVars, countVars, status>>

Doorbell(ready, u, symbols, bytes) ==
  /\ state = "IDLE"
  /\ state' = "INIT"
  /\ ListStep(TRUE, u, NoMove) /\ RunRestart /\ DrainEdge("discard", <<>>, ready)
  /\ symbolLimit' = symbols /\ bytesLimit' = bytes
  /\ symbolsIn' = 0 /\ bytesOut' = 0 /\ initCycles' = 0 /\ committed' = 0
  /\ status' = "NONE"
  /\ UNCHANGED flushIssued

\* What an abort or a faulty beat does to the two sides.
Discard(ready, why) ==
  /\ state' = "IDLE"
  /\ status' = why
  /\ ListHold /\ RunHold /\ DrainEdge("stop", <<>>, ready)
  /\ CountOut(ready)
  /\ UNCHANGED <<flushIssued, limitVars, committed>>

Abort(ready) ==
  /\ state # "IDLE" /\ ~DoneNow
  /\ Discard(ready, "ABORTED")
  /\ initCycles' = IF state = "INIT" THEN NextCycle ELSE initCycles
  /\ UNCHANGED symbolsIn

\* INIT waits for init_busy to fall.
InitDone == ~InitBusy(FALSE)

InitStep(ready) ==
  /\ state = "INIT"
  /\ state' = IF InitDone THEN "DECODE" ELSE "INIT"
  /\ initCycles' = NextCycle
  /\ ListHold /\ RunHold /\ DrainEdge("run", <<>>, ready)
  /\ CountOut(ready)
  /\ UNCHANGED <<flushIssued, limitVars, symbolsIn, committed, status>>

\* DECODE without a handshake on s_sym: nothing offered, or no room.
Wait(ready) ==
  /\ state = "DECODE"
  /\ ListHold /\ RunHold /\ DrainEdge("run", <<>>, ready)
  /\ CountOut(ready)
  /\ UNCHANGED <<ctrlVars, limitVars, countVars, status>>

\* A clean beat: its items enter the queue and count against the budget.
Accept(ready, b) ==
  /\ state = "DECODE" /\ CanAccept
  /\ Verdict(b) = "NONE"
  /\ DrainEdge("run", Items(b), ready)
  /\ symbolsIn' = symbolsIn + 1
  /\ committed' = committed + ItemBytes(b)
  /\ CountOut(ready)
  /\ UNCHANGED <<limitVars, initCycles, status>>

AcceptRun(ready, b) ==
  /\ Accept(ready, b) /\ IsRun(b)
  /\ RunAccumulate(b.value) /\ ListHold
  /\ UNCHANGED ctrlVars

AcceptMtf(ready, b) ==
  /\ Accept(ready, b) /\ IsMtf(b)
  /\ RunClear(run # 0) /\ ListStep(FALSE, {}, Rank(b))
  /\ UNCHANGED ctrlVars

\* flush_issued_q is cleared by the EOB, not by the doorbell or DONE.
FlushIssuedAtEobMut == flushIssued
FlushIssuedAtEob == FALSE

AcceptEob(ready, b) ==
  /\ Accept(ready, b) /\ ValidEob(b)
  /\ RunClear(run # 0) /\ ListHold
  /\ state' = "DRAIN" /\ flushIssued' = FlushIssuedAtEob

Reject(ready, b) ==
  /\ state = "DECODE" /\ CanAccept
  /\ Verdict(b) # "NONE"
  /\ Discard(ready, Verdict(b))
  /\ symbolsIn' = symbolsIn + 1
  /\ UNCHANGED initCycles

\* DRAIN: one normal flush once every byte has reached the packer, DONE once
\* the packer is empty.
IssueFlushMut(ready) == ~Queue!Readable(fifo) /\ ~flushIssued
IssueFlush(ready) == DrainReady /\ ~flushIssued

DrainStep(ready) ==
  /\ state = "DRAIN" /\ ~DoneNow
  /\ DrainEdge(IF IssueFlush(ready) THEN "last" ELSE "run", <<>>, ready)
  /\ flushIssued' = (flushIssued \/ IssueFlush(ready))
  /\ ListHold /\ RunHold
  /\ CountOut(ready)
  /\ UNCHANGED <<state, limitVars, countVars, status>>

Done(ready) ==
  /\ DoneNow
  /\ state' = "IDLE" /\ status' = "DONE"
  /\ ListHold /\ RunHold /\ DrainEdge("run", <<>>, ready)
  /\ CountOut(ready)
  /\ UNCHANGED <<flushIssued, limitVars, countVars>>

\* A clock edge without an abort request that takes effect.
Advance(ready) ==
  \/ Idle(ready)
  \/ InitStep(ready)
  \/ Wait(ready)
  \/ DrainStep(ready)
  \/ Done(ready)

Symbol(ready, b) ==
  \/ AcceptRun(ready, b)
  \/ AcceptMtf(ready, b)
  \/ AcceptEob(ready, b)
  \/ Reject(ready, b)

Next ==
  \E ready \in BOOLEAN :
    \/ Advance(ready)
    \/ Abort(ready)
    \/ \E b \in Beats : Symbol(ready, b)
    \/ \E u \in (SUBSET Bytes) \ {{}}, s \in SymbolLimits, l \in BytesLimits :
         Doorbell(ready, u, s, l)

\* The clock never stops, and the consumer of m_l is not stalled for ever.
Fairness == WF_vars(Advance(TRUE))

Spec == Init /\ [][Next]_vars /\ Fairness

-----------------------------------------------------------------------------
\* The state has its type.
TypeOK ==
  /\ ListTypeOK /\ RunTypeOK /\ DrainTypeOK
  /\ state \in States /\ flushIssued \in BOOLEAN
  /\ symbolLimit \in Nat /\ bytesLimit \in Nat
  /\ symbolsIn \in Nat /\ bytesOut \in Nat
  /\ initCycles \in 0..(2 * NList - 1) /\ committed \in Nat
  /\ status \in Outcomes

\* While symbols are decoded the list is complete and still a permutation of
\* the used map of this invocation, whatever an abort and a new doorbell did to
\* an earlier fill; and INIT_CYCLES counts exactly N_USED cycles (MAS S1).
DecodeListReady ==
  state \in {"DECODE", "DRAIN"} =>
    /\ ~filling /\ rem = {}
    /\ initCycles = fillIdx
    /\ Permutation

\* p_bytes_budget: the bytes committed to the output never exceed BYTES_LIMIT.
BytesBudget == state # "IDLE" => committed <= bytesLimit

\* The symbol budget: an invocation accepts at most SYMBOL_LIMIT beats.
SymbolBudget == symbolsIn <= symbolLimit

\* A stopped module holds no item that could leak into the next block.
IdleQuiet == state = "IDLE" => fifo = <<>> /\ exp = <<>>

\* TLAST marks the end: a beat with TLAST waits only when no byte is behind it;
\* and a beat without TLAST is full unless an error or an abort cut it short.
LastBeatIsLast ==
  out # <<>> =>
    /\ out[1].last => flushIssued /\ DrainReady /\ buf = <<>>
    /\ ~out[1].last /\ state # "IDLE" => Len(out[1].bytes) = W

\* Once the final flush is issued whatever is left ends with a TLAST beat.
FlushEndsBlock ==
  state = "DRAIN" /\ flushIssued =>
    /\ DrainReady
    /\ buf # <<>> => flushing /\ flushLast
    /\ buf = <<>> /\ out # <<>> => out[1].last

\* p_ml_stable: a beat not yet taken stays as it is; only a doorbell withdraws
\* it.
BeatStable ==
  [][out # <<>> /\ bytesOut' = bytesOut /\ ~(state = "IDLE" /\ state' = "INIT")
       => out' = out]_vars

\* A draining block ends, and a sequencer that back-pressure holds up takes
\* symbols again or the block ends.
StallsEnd ==
  /\ state = "DRAIN" ~> state = "IDLE"
  /\ state = "DECODE" ~> (state # "DECODE" \/ CanAccept)
=============================================================================
