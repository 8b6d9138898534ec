------------------------------ MODULE AxiLiteIf ------------------------------
(* hw/common/rtl/axi_lite_if.sv: the AXI4-Lite slave in front of every       *)
(* register file.  The write address and the write data arrive in any order, *)
(* become one request pulse to the decoder, and are answered once; reads run *)
(* independently.  One step is one clock edge.                               *)
EXTENDS Integers, Sequences

CONSTANTS
  Addr,                     \* word addresses
  WriteData,                \* what a master may send: data and strobes
  ReadData,                 \* what a decoder may answer
  Junk                      \* what the read register may hold at power-on

ASSUME JunkAssumption == Junk \subseteq ReadData

VARIABLES
  wstate, awSeen, wSeen, wrAddr, wrData, wrErr, wrErrSeen,
  rstate, rdAddr, rdData, rdErr

writeVars == <<wstate, awSeen, wSeen, wrAddr, wrData, wrErr, wrErrSeen>>
readVars == <<rstate, rdAddr, rdData, rdErr>>
axiVars == <<writeVars, readVars>>

WStates == {"W_IDLE", "W_PULSE", "W_WAIT", "W_RESP"}
RStates == {"R_IDLE", "R_PULSE", "R_CAPT", "R_RESP"}

\* The captured address and data have no reset.
AxiInit ==
  /\ wstate = "W_IDLE" /\ awSeen = FALSE /\ wSeen = FALSE
  /\ wrAddr \in Addr /\ wrData \in WriteData
  /\ wrErr = FALSE /\ wrErrSeen = FALSE
  /\ rstate = "R_IDLE" /\ rdAddr \in Addr /\ rdData \in Junk /\ rdErr = FALSE

-----------------------------------------------------------------------------
(* The write channel.  aw and w are what the master offers on this edge: the *)
(* empty sequence, or one element.                                           *)

AwReady == wstate = "W_IDLE" /\ ~awSeen

\* W accepted again while waiting for AW.
WReadyMut == wstate = "W_IDLE"
WReady == wstate = "W_IDLE" /\ ~wSeen

AwTaken(aw) == AwReady /\ aw # <<>>
WTaken(w) == WReady /\ w # <<>>

Capture(aw, w) ==
  /\ wrAddr' = IF AwTaken(aw) THEN aw[1] ELSE wrAddr
  /\ wrData' = IF WTaken(w) THEN w[1] ELSE wrData

\* Both halves are there, taken earlier or on this edge; on this edge only.
WrStartMut(aw, w) == AwTaken(aw) /\ WTaken(w)
WrStart(aw, w) == (awSeen \/ AwTaken(aw)) /\ (wSeen \/ WTaken(w))

\* The decoder answers in the cycle after the pulse.
AfterPulse == "W_WAIT"

WStateAfter(aw, w, bready, hold) ==
  CASE wstate = "W_IDLE" -> IF WrStart(aw, w) THEN "W_PULSE" ELSE "W_IDLE"
    [] wstate = "W_PULSE" -> AfterPulse
    [] wstate = "W_WAIT" -> IF hold THEN "W_WAIT" ELSE "W_RESP"
    [] wstate = "W_RESP" -> IF bready THEN "W_IDLE" ELSE "W_RESP"

Answered(bready) == wstate = "W_RESP" /\ bready

\* The decoder's error is captured in the first W_WAIT cycle only.
CapturesError == wstate = "W_WAIT" /\ ~wrErrSeen

WriteStep(aw, w, bready, err, hold) ==
  /\ Capture(aw, w)
  /\ wstate' = WStateAfter(aw, w, bready, hold)
  /\ awSeen' = ((awSeen \/ AwTaken(aw)) /\ ~Answered(bready))
  /\ wSeen' = ((wSeen \/ WTaken(w)) /\ ~Answered(bready))
  /\ wrErr' = IF CapturesError THEN err ELSE wrErr
  /\ wrErrSeen' = CASE wstate = "W_PULSE" -> FALSE
                    [] wstate = "W_WAIT" -> TRUE
                    [] OTHER -> wrErrSeen

-----------------------------------------------------------------------------
(* The read channel.                                                         *)

ArTaken(ar) == rstate = "R_IDLE" /\ ar # <<>>

RStateAfter(ar, rready) ==
  CASE rstate = "R_IDLE" -> IF ArTaken(ar) THEN "R_PULSE" ELSE "R_IDLE"
    [] rstate = "R_PULSE" -> "R_CAPT"
    [] rstate = "R_CAPT" -> "R_RESP"
    [] rstate = "R_RESP" -> IF rready THEN "R_IDLE" ELSE "R_RESP"

\* The decoder answers the cycle after the pulse.
CapturesAnswer == rstate = "R_CAPT"

ReadStep(ar, rready, data, err) ==
  /\ rstate' = RStateAfter(ar, rready)
  /\ rdAddr' = IF ArTaken(ar) THEN ar[1] ELSE rdAddr
  /\ rdData' = IF CapturesAnswer THEN data ELSE rdData
  /\ rdErr' = IF CapturesAnswer THEN err ELSE rdErr

AxiTypeOK ==
  /\ wstate \in WStates /\ awSeen \in BOOLEAN /\ wSeen \in BOOLEAN
  /\ wrAddr \in Addr /\ wrData \in WriteData
  /\ wrErr \in BOOLEAN /\ wrErrSeen \in BOOLEAN
  /\ rstate \in RStates /\ rdAddr \in Addr /\ rdData \in ReadData /\ rdErr \in BOOLEAN
=============================================================================
