------------------------------ MODULE MtfRegs ------------------------------
(* hw/mtf_cam/rtl/mtf_regs.sv: configuration, sticky STATUS bits, interrupt  *)
(* and the doorbell decision.  A 32-bit word is the set of its 1 bits; an    *)
(* address is a word address.  One step is one clock edge.                   *)
EXTENDS Integers, Sequences

Word == SUBSET (0..31)
Zero == {}

\* Word addresses.
CTRL == 2
STATUS == 3
IRQ_EN == 4
IRQ_STATUS == 5
SYMBOL_LIMIT == 64
BYTES_LIMIT == 65
DBG_SEL == 67
USED == 128..135
ConfigAddrs == {SYMBOL_LIMIT, BYTES_LIMIT} \cup USED
Mapped(a) == a <= 135

\* CTRL and STATUS bits.
DOORBELL == 0
ABORT == 1
BUSY == 0
DONE == 1
ABORTED == 2
ERR_BUSY == 8
ERR_PARAM == 9
RunErrors == {10, 11, 12, 13}         \* ERR_RANK, ERR_RUN, ERR_LIMIT, ERR_UNDERRUN
Sticky == {DONE, ABORTED, ERR_BUSY, ERR_PARAM} \cup RunErrors

VARIABLES
  config,                   \* used_q, sym_lim_q, byt_lim_q
  dbgSel, sticky, irqEn, irq,
  dbPending, dbHold,        \* the doorbell is being decided; BRESP is held
  doorbell, abort,          \* registered pulses to the invocation FSM
  wrErrAns, rdDataAns, rdErrAns

decideVars == <<dbPending, dbHold, doorbell, abort>>
regsVars == <<config, dbgSel, sticky, irqEn, irq, decideVars, wrErrAns, rdDataAns, rdErrAns>>

RegsInit ==
  /\ config = [a \in ConfigAddrs |-> Zero]
  /\ dbgSel = Zero /\ sticky = Zero /\ irqEn = Zero /\ irq = FALSE
  /\ dbPending = FALSE /\ dbHold = FALSE /\ doorbell = FALSE /\ abort = FALSE
  /\ wrErrAns = FALSE /\ rdDataAns = Zero /\ rdErrAns = FALSE

-----------------------------------------------------------------------------
(* Operators on words.                                                       *)

\* Bytes of the old word are replaced where strobed.
ApplyStrb(old, new, strb) ==
  {b \in old : b \div 8 \notin strb} \cup {b \in new : b \div 8 \in strb}

\* The number of the word exceeds 2^k.
Above(v, k) == (\E b \in v : b > k) \/ (k \in v /\ v # {k})

\* err_param: empty used map, a limit of 0 or beyond its maximum.
ErrParam(c) ==
  \/ \A a \in USED : c[a] = Zero
  \/ c[SYMBOL_LIMIT] = Zero \/ Above(c[SYMBOL_LIMIT], 27)
  \/ c[BYTES_LIMIT] = Zero \/ Above(c[BYTES_LIMIT], 30)

-----------------------------------------------------------------------------
(* What a write does.  wr is <<>> or one request [addr, data, strb].         *)

Hits(wr, a) == wr # <<>> /\ wr[1].addr = a
Controls(wr) == Hits(wr, CTRL) /\ 0 \in wr[1].strb
Rings(wr) == Controls(wr) /\ DOORBELL \in wr[1].data
Aborts(wr) == Controls(wr) /\ ABORT \in wr[1].data
Configures(wr) == wr # <<>> /\ wr[1].addr \in ConfigAddrs
Merged(old, wr) == ApplyStrb(old, wr[1].data, wr[1].strb)

\* Writes answered with ERR_BUSY.
Refused(wr, busy) == busy /\ (Rings(wr) \/ Configures(wr))

\* The doorbell goes to the decision of the next cycle; ABORT wins over it; a
\* doorbell while BUSY is refused, or is not.
DecidesMut(wr, busy) == Rings(wr) /\ ~Aborts(wr)
Decides(wr, busy) == Rings(wr) /\ ~Aborts(wr) /\ ~busy

\* A configuration write is accepted when idle; while BUSY too.
ConfigAfterMut(wr, busy) ==
  IF Configures(wr) THEN [config EXCEPT ![wr[1].addr] = Merged(@, wr)] ELSE config
ConfigAfter(wr, busy) ==
  IF Configures(wr) /\ ~busy THEN [config EXCEPT ![wr[1].addr] = Merged(@, wr)] ELSE config

\* Bits a STATUS write clears: it comes after the sets of the same edge.
Cleared(wr) == IF Hits(wr, STATUS) THEN Merged(Zero, wr) ELSE Zero

Rejects == dbPending /\ ErrParam(config)

\* The flags: sets, then a clear, then the refusals and the rejection.  Mutated:
\* a rejected doorbell leaves no flag; an accepted one resets them.
StickyAfterMut(wr, busy, sets) ==
  ((sticky \cup sets) \ Cleared(wr)) \cup (IF Refused(wr, busy) THEN {ERR_BUSY} ELSE {})
StickyAfterReset(wr, busy, sets) ==
  IF doorbell THEN Zero ELSE StickyAfterMut(wr, busy, sets)
StickyAfter(wr, busy, sets) ==
  (((sticky \cup sets) \ Cleared(wr)) \cup (IF Refused(wr, busy) THEN {ERR_BUSY} ELSE {}))
     \cup (IF Rejects THEN {ERR_PARAM} ELSE {})

\* Only bits of sticky flags can be enabled.
IrqEnAfter(wr) == IF Hits(wr, IRQ_EN) THEN Merged(irqEn, wr) \cap Sticky ELSE irqEn

\* The interrupt looks at the next flags.
IrqAfter(wr, busy, sets) == StickyAfter(wr, busy, sets) \cap IrqEnAfter(wr) # {}

\* BRESP is held from the doorbell write to its decision; until acceptance.
HoldAfterMut(wr, busy) ==
  IF dbPending /\ ~ErrParam(config) THEN FALSE ELSE dbHold \/ Decides(wr, busy)
HoldAfter(wr, busy) == IF dbPending THEN FALSE ELSE dbHold \/ Decides(wr, busy)

\* An abort request lasts one cycle; it waits for an invocation to run.
AbortAfterMut(wr, busy) == Aborts(wr) \/ (abort /\ (~busy \/ doorbell))
AbortAfter(wr, busy) == Aborts(wr)

-----------------------------------------------------------------------------
(* What a read sees.  live is the word the top supplies for the counters and *)
(* the identification words.                                                 *)
LiveAddrs == {0, 1, 66, 68} \cup 16..21

ReadWord(a, busy, live) ==
  CASE a = STATUS -> sticky \cup (IF busy THEN {BUSY} ELSE {})
    [] a = IRQ_EN -> irqEn
    [] a = IRQ_STATUS -> sticky \cap irqEn
    [] a = DBG_SEL -> dbgSel
    [] a \in ConfigAddrs -> config[a]
    [] a \in LiveAddrs -> live
    [] OTHER -> Zero

\* One edge.  rd is <<>> or the address of one read request; sets are the
\* flags the invocation raises on this edge.
RegsEdge(wr, rd, busy, sets, live) ==
  /\ config' = ConfigAfter(wr, busy)
  /\ dbgSel' = IF Hits(wr, DBG_SEL) THEN Merged(dbgSel, wr) \cap 0..7 ELSE dbgSel
  /\ sticky' = StickyAfter(wr, busy, sets)
  /\ irqEn' = IrqEnAfter(wr)
  /\ irq' = IrqAfter(wr, busy, sets)
  /\ dbPending' = Decides(wr, busy)
  /\ dbHold' = HoldAfter(wr, busy)
  /\ doorbell' = (dbPending /\ ~ErrParam(config))
  /\ abort' = AbortAfter(wr, busy)
  /\ wrErrAns' = (wr # <<>> /\ ~Mapped(wr[1].addr))
  /\ rdDataAns' = IF rd = <<>> \/ ~Mapped(rd[1]) THEN Zero ELSE ReadWord(rd[1], busy, live)
  /\ rdErrAns' = (rd # <<>> /\ ~Mapped(rd[1]))

RegsTypeOK ==
  /\ config \in [ConfigAddrs -> Word]
  /\ dbgSel \in SUBSET (0..7)
  /\ sticky \in SUBSET Sticky /\ irqEn \in SUBSET Sticky /\ irq \in BOOLEAN
  /\ dbPending \in BOOLEAN /\ dbHold \in BOOLEAN
  /\ doorbell \in BOOLEAN /\ abort \in BOOLEAN
  /\ wrErrAns \in BOOLEAN /\ rdDataAns \in Word /\ rdErrAns \in BOOLEAN
=============================================================================
