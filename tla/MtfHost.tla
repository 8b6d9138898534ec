------------------------------ MODULE MtfHost ------------------------------
(* hw/mtf_cam/driver/mtf_cam_driver.py over the control plane: one coroutine *)
(* runs expand_block (configure, start, wait_done, clear), another may call  *)
(* abort() whenever the bus is free.  Each register access is one AXI4-Lite  *)
(* transaction; between two accesses any number of clock edges pass.  One    *)
(* step is one clock edge.  read_counters, which only reads, is left out.    *)
EXTENDS MtfControl

CONSTANTS
  ConfigOrder,              \* the words configure() writes, in order
  Wanted,                   \* the configurations expand_block is called with
  MaxPolls,                 \* max_polls of wait_done
  AbortsOnTimeout           \* the caller aborts after a TimeoutError

ASSUME HostAssumption ==
  /\ ConfigOrder \in Seq(ConfigAddrs) \ {<<>>} /\ Wanted \subseteq [ConfigAddrs -> Word]
  /\ \A a \in ConfigAddrs :            \* configure() writes all that a call may want
       (\E i \in DOMAIN ConfigOrder : ConfigOrder[i] = a) \/ \A c \in Wanted : c[a] = Zero
  /\ MaxPolls \in Nat \ {0} /\ AbortsOnTimeout \in BOOLEAN

VARIABLES
  pc,                       \* the access the coroutine awaits, OUT outside a call
  step,                     \* next word of configure()
  polls,                    \* polls left in wait_done
  want,                     \* the arguments of the call
  txn,                      \* the transaction on the bus
  result,                   \* what the last call returned or raised
  timedOut,                 \* a TimeoutError not yet answered by an abort
  begun, ranWanted, own     \* history: the invocation this call started

callVars == <<pc, step, polls, want, result, timedOut>>
ownVars == <<begun, ranWanted, own>>
hostVars == <<controlVars, callVars, txn, ownVars>>

Places == {"OUT", "CONFIGURE", "CLEAR", "RING", "CHECK", "POLL", "FINISH", "ABORT"}
Kinds == {"NONE", "RETURNED", "RAISED", "TIMEOUT"}
ErrMask == {ERR_BUSY, ERR_PARAM} \cup RunErrors

HostInit ==
  /\ ControlInit
  /\ pc = "OUT" /\ step = 1 /\ polls = MaxPolls /\ want \in Wanted
  /\ txn = <<>> /\ result = [kind |-> "NONE", flags |-> {}] /\ timedOut = FALSE
  /\ begun = FALSE /\ ranWanted = FALSE /\ own = {}

-----------------------------------------------------------------------------
(* The accesses.                                                             *)

WriteOf(a, d, by) == [write |-> TRUE, addr |-> a, data |-> d, by |-> by]
ReadOf(a, by) == [write |-> FALSE, addr |-> a, data |-> Zero, by |-> by]

\* start() clears the sticky bits before the doorbell, or does not.
StartClearsMut == Zero
StartClears == Sticky

Access ==
  CASE pc = "CONFIGURE" -> WriteOf(ConfigOrder[step], want[ConfigOrder[step]], "driver")
    [] pc = "CLEAR" -> WriteOf(STATUS, StartClears, "driver")
    [] pc = "RING" -> WriteOf(CTRL, {DOORBELL}, "driver")
    [] pc \in {"CHECK", "POLL"} -> ReadOf(STATUS, "driver")
    [] pc = "FINISH" -> WriteOf(STATUS, Sticky, "driver")
    [] pc = "ABORT" -> WriteOf(CTRL, {ABORT}, "driver")

AbortAccess == WriteOf(CTRL, {ABORT}, "other")

-----------------------------------------------------------------------------
(* The coroutine, resumed by the end of its access; s is the word read.      *)

Goto(place) == pc' = place /\ UNCHANGED <<step, polls, result, timedOut>>

Leave(kind, flags) ==
  /\ pc' = "OUT" /\ result' = [kind |-> kind, flags |-> flags]
  /\ timedOut' = (kind = "TIMEOUT")
  /\ UNCHANGED <<step, polls>>

\* wait_done looks at the flags only with BUSY low.
StillBusy(s) == BUSY \in s

\* range(max_polls) is exhausted.
LastPoll == polls = 1

Poll(s) ==
  IF ~StillBusy(s) /\ s \cap ErrMask # {} THEN Leave("RAISED", s)
  ELSE IF ~StillBusy(s) /\ s \cap {DONE, ABORTED} # {} THEN
    /\ pc' = "FINISH" /\ result' = [kind |-> "NONE", flags |-> s]
    /\ UNCHANGED <<step, polls, timedOut>>
  ELSE IF LastPoll THEN Leave("TIMEOUT", s)
  ELSE polls' = polls - 1 /\ UNCHANGED <<pc, step, result, timedOut>>

Resume(s) ==
  /\ CASE pc = "CONFIGURE" ->
            IF step = Len(ConfigOrder) THEN Goto("CLEAR")
            ELSE step' = step + 1 /\ UNCHANGED <<pc, polls, result, timedOut>>
       [] pc = "CLEAR" -> Goto("RING")
       [] pc = "RING" -> Goto("CHECK")
       [] pc = "CHECK" ->
            IF ERR_PARAM \in s THEN Leave("RAISED", s) ELSE Goto("POLL")
       [] pc = "POLL" -> Poll(s)
       [] pc = "FINISH" -> Leave("RETURNED", result.flags)
       [] pc = "ABORT" -> Leave("NONE", {})
  /\ UNCHANGED want

\* expand_block is called with a non-empty used map; after a TimeoutError the
\* caller aborts first, if it is one that does.
Call ==
  /\ pc = "OUT" /\ ~(timedOut /\ AbortsOnTimeout)
  /\ pc' = "CONFIGURE" /\ step' = 1 /\ polls' = MaxPolls
  /\ want' \in Wanted
  /\ result' = [kind |-> "NONE", flags |-> {}] /\ timedOut' = FALSE

Recover ==
  /\ pc = "OUT" /\ timedOut
  /\ pc' = "ABORT"
  /\ UNCHANGED <<step, polls, want, result, timedOut>>

-----------------------------------------------------------------------------
(* The bus.                                                                  *)

\* History: what becomes of the invocation that this call's doorbell began.
OwnAfter(sets) ==
  /\ begun' = ((begun /\ pc # "CONFIGURE") \/ doorbell)
  /\ ranWanted' = IF doorbell THEN config = want ELSE ranWanted
  /\ own' = IF doorbell THEN {} ELSE own \cup sets

Wires(aw, w, bready, ar, rready, sets) ==
  Edge(aw, w, bready, ar, rready, sets, Zero) /\ OwnAfter(sets)

\* An edge without a transaction: the sequencer takes the next access of one of
\* the two coroutines, or none; a coroutine outside a call may enter one.
Between(sets) == txn = <<>> /\ Wires(<<>>, <<>>, FALSE, <<>>, FALSE, sets)

Rest == \E sets \in Events : Between(sets) /\ UNCHANGED <<txn, callVars>>
Enter == \E sets \in Events : Between(sets) /\ (Call \/ Recover) /\ UNCHANGED txn
Issue ==
  /\ pc # "OUT"
  /\ \E sets \in Events : Between(sets) /\ txn' = <<Access>> /\ UNCHANGED callVars
IssueAbort ==
  \E sets \in Events : Between(sets) /\ txn' = <<AbortAccess>> /\ UNCHANGED callVars

\* The master presents the address and the data of a write together or one
\* after the other.
Body(t) == [data |-> t.data, strb |-> AllLanes]

InFlight == txn # <<>> /\ wstate # "W_RESP" /\ rstate # "R_RESP"

Transfer(aw, w, ar) ==
  /\ InFlight
  /\ \E sets \in Events : Wires(aw, w, FALSE, ar, FALSE, sets)
  /\ UNCHANGED <<txn, callVars>>

TransferWrite ==
  /\ txn # <<>> /\ txn[1].write
  /\ \E aw \in Offer(txn[1].addr, AwReady), w \in Offer(Body(txn[1]), WReady) :
       Transfer(aw, w, <<>>)
TransferRead ==
  /\ txn # <<>> /\ ~txn[1].write
  /\ \E ar \in Offer(txn[1].addr, rstate = "R_IDLE") : Transfer(<<>>, <<>>, ar)

\* The transaction ends with its response; its coroutine resumes.
Complete ==
  /\ txn # <<>> /\ (wstate = "W_RESP" \/ rstate = "R_RESP")
  /\ \E sets \in Events : Wires(<<>>, <<>>, TRUE, <<>>, TRUE, sets)
  /\ txn' = <<>>
  /\ IF txn[1].by = "driver" THEN Resume(rdData) ELSE UNCHANGED callVars

HostNext ==
  Rest \/ Enter \/ Issue \/ IssueAbort \/ TransferWrite \/ TransferRead \/ Complete

\* The clock runs, the master presents both halves, and the sequencer serves
\* its clients in order, so a waiting access is not passed over for ever.
PresentAll ==
  /\ txn # <<>>
  /\ IF txn[1].write
     THEN Transfer(IF AwReady THEN <<txn[1].addr>> ELSE <<>>,
                   IF WReady THEN <<Body(txn[1])>> ELSE <<>>, <<>>)
     ELSE Transfer(<<>>, <<>>, IF rstate = "R_IDLE" THEN <<txn[1].addr>> ELSE <<>>)

HostSpec ==
  /\ HostInit /\ [][HostNext]_hostVars
  /\ WF_hostVars(PresentAll) /\ WF_hostVars(Complete) /\ SF_hostVars(Issue)

-----------------------------------------------------------------------------
\* expand_block returns only for the block it started itself, run on the
\* configuration of this call, and with the flag that ended it; it raises for an
\* error of its own block, or for its own rejected doorbell.  A caller that answers
\* every timeout with an abort never meets a running block: no access of its calls
\* is refused.
ReturnsOwnResult ==
  /\ result.kind = "RETURNED" => begun /\ ranWanted /\ result.flags = own
  /\ result.kind = "RAISED" =>
       IF begun THEN result.flags = own /\ own \subseteq RunErrors
       ELSE result.flags = {ERR_PARAM} /\ ErrParam(want)
  /\ ERR_BUSY \notin sticky

\* Every call ends.
CallEnds == pc # "OUT" ~> pc = "OUT"

-----------------------------------------------------------------------------
\* For TLC: one word of the used map, two legal configurations and one that
\* the doorbell rejects.
Configuration(used, symbols) ==
  [a \in ConfigAddrs |->
     CASE a = 128 -> used [] a = SYMBOL_LIMIT -> symbols [] a = BYTES_LIMIT -> {20} [] OTHER -> Zero]

MCWanted == {Configuration({3}, {20}), Configuration({4}, {20}), Configuration({3}, {0, 27})}
MCOrder == <<128, SYMBOL_LIMIT, BYTES_LIMIT>>
MCFaults == {11}

MCAddr == {CTRL, STATUS, 128, SYMBOL_LIMIT, BYTES_LIMIT}
MCWriteData ==
  {[data |-> d, strb |-> AllLanes] :
     d \in {{3}, {4}, {20}, {0, 27}, Sticky, {DOORBELL}, {ABORT}}}
=============================================================================
