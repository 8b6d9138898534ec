--------------------------- MODULE MtfCamHistory ----------------------------
(* MtfCam observed at its two stream ports: the symbols accepted on s_sym    *)
(* and the bytes handed over on m_l since the doorbell, compared with the    *)
(* functional model in golden/list_model.py (the scoreboard of tb/env.py).   *)
EXTENDS MtfCam, MtfGolden

VARIABLES
  heard,                    \* the symbol beats accepted, a faulty one included
  delivered                 \* the beats handed over on m_l

historyVars == <<heard, delivered>>

HInit == Init /\ heard = <<>> /\ delivered = <<>>

\* The monitors of s_sym and m_l record a beat on its handshake.
Observe(ready) == delivered' = IF ready THEN delivered \o out ELSE delivered

HAdvance(ready) == Advance(ready) /\ Observe(ready) /\ UNCHANGED heard
HAbort(ready) == Abort(ready) /\ Observe(ready) /\ UNCHANGED heard
HSymbol(ready, b) ==
  /\ Symbol(ready, b) /\ Observe(ready)
  /\ heard' = Append(heard, b)
HDoorbell(ready, u, s, l) ==
  /\ Doorbell(ready, u, s, l)
  /\ heard' = <<>> /\ delivered' = <<>>

HNext ==
  \E ready \in BOOLEAN :
    \/ HAdvance(ready)
    \/ HAbort(ready)
    \/ \E b \in Beats : HSymbol(ready, b)
    \/ \E u \in (SUBSET Bytes) \ {{}}, s \in SymbolLimits, l \in BytesLimits :
         HDoorbell(ready, u, s, l)

\* The fairness of mtf_cam (MtfCam).
HFairness == WF_<<vars, historyVars>>(HAdvance(TRUE))

HSpec == HInit /\ [][HNext]_<<vars, historyVars>> /\ HFairness

-----------------------------------------------------------------------------
Clean == IF status \in Errors THEN Front(heard) ELSE heard
Golden == Expand([i \in DOMAIN Clean |-> Clean[i].value], used, Cardinality(used) + 1)
Received == BytesOf(delivered)

\* Whatever stalls, errors, aborts and restarts occur, the bytes delivered for
\* a block are a prefix of what the functional model makes of the symbols
\* accepted, and the budget counts exactly the bytes the model would write.
DeliveredIsPrefix ==
  /\ IsPrefix(Received, Golden)
  /\ bytesOut = Len(Received)
  /\ committed = Len(Golden)

Outcome ==
  ComputeOutcome(heard, used,
    [nUsed |-> Cardinality(used), runMax |-> RunMax,
     symbolLimit |-> symbolLimit, bytesLimit |-> bytesLimit])

\* The scoreboard has no complaint about a block that ended by itself: its walk
\* stops at the same beat with the same outcome as the sequencer, and it
\* predicts the bytes, the shape of the beats and the counters.  What it says
\* of a faulty block holds at every moment of the flush.
ScoreboardPasses ==
  status \in Errors \cup {"DONE"} =>
    /\ Outcome.stop = status
    /\ Outcome.symbolsIn = symbolsIn /\ Outcome.maxRun = maxRun
    /\ initCycles = Cardinality(used)
    /\ BeatShape(delivered, Len(Received), W, status = "DONE")
    /\ IF status = "DONE" THEN Received = Outcome.bytes ELSE IsPrefix(Received, Outcome.bytes)

-----------------------------------------------------------------------------
(* MtfCam implements MtfBlock: INIT and DECODE are the busy phase, DRAIN the *)
(* ending one, and the bytes owed are those in any stage of the drain side.  *)
OutBytes == IF out = <<>> THEN 0 ELSE Len(out[1].bytes)
ItemsBytes(items) == FoldLeft(LAMBDA n, item : n + item.count, 0, items)
Pending == OutBytes + Len(buf) + ItemsBytes(exp) + ItemsBytes(fifo)

Block == INSTANCE MtfBlock WITH
  Lanes <- W,
  MaxBytes <- RunMax + 1,
  Failures <- Errors \cup {"ABORTED"},
  phase <- IF state = "IDLE" THEN "IDLE"
           ELSE IF state = "DRAIN" THEN "ENDING" ELSE "BUSY",
  owed <- Pending,
  outcome <- status

\* Every clock edge of mtf_cam is a step the block promises or changes nothing
\* it promises, and a block whose end was accepted finishes.
ImplementsBlock == Block!BlockSpec

-----------------------------------------------------------------------------
(* A small instance for TLC: three byte values, two lanes, every kind of     *)
(* beat.                                                                     *)

\* Run symbols, the MTF symbols of one and two used bytes, both end-of-block
\* values, a rank and an EOB out of range, a foreign type, a misplaced TLAST.
MCBeats ==
  [value : 0..3, type : {0}, last : {FALSE}]
    \cup [value : 2..4, type : {3}, last : {TRUE}]
    \cup {[value |-> 0, type |-> 1, last |-> FALSE],
          [value |-> 1, type |-> 0, last |-> TRUE]}
=============================================================================
