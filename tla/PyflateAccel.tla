---------------------------- MODULE PyflateAccel ----------------------------
(* hw/pyflate_accel: huffman_engine with mtf_cam behind it.  The wrapper has *)
(* no logic: m_sym of the one is s_sym of the other, on one clock.  What is  *)
(* hard is the pair of them: each may end in an error while the other waits  *)
(* for ever, and an abort may leave a beat on the wire.  The host rings both *)
(* doorbells of a block when both are idle, mtf_cam first (tb/test_chain.py) *)
(* or last, and aborts either at any time.  The same engine is checked alone *)
(* as well, with a sink that takes its beats at any time.                    *)
EXTENDS HuffEngine

CONSTANTS
  NList, W, Depth, RunMax,  \* the parameters of mtf_cam
  Tasks                     \* blocks: the engine's job, the used map, BYTES_LIMIT

VARIABLES
  lst, rem, filling, fillIdx, used, run, weight, maxRun,
  fifo, exp, buf, flushing, flushLast, lanes,
  state, flushIssued, symbolLimit, bytesLimit, symbolsIn, bytesOut,
  initCycles, committed, status, heard, delivered,
  chained,                  \* mtf_cam is behind the engine
  task,                     \* the block under way
  due                       \* the halves whose doorbell this block still waits for

Mtf == INSTANCE MtfCamHistory WITH
  out <- lanes, Beats <- {}, SymbolLimits <- {1}, BytesLimits <- {1}

mtfVars == <<lst, rem, filling, fillIdx, used, run, weight, maxRun,
  fifo, exp, buf, flushing, flushLast, lanes, state, flushIssued, symbolLimit, bytesLimit,
  symbolsIn, bytesOut, initCycles, committed, status, heard, delivered>>
accelVars == <<vars, mtfVars, chained, task, due>>

-----------------------------------------------------------------------------
(* The wire.                                                                 *)

SymBeat(o) == [value |-> o.data, type |-> IF o.last THEN 3 ELSE 0, last |-> o.last]

\* sym_tready; mtf_cam takes nothing on the edge of its abort.
SymReady(stop) == state = "DECODE" /\ Mtf!CanAccept /\ ~stop
SymTaken(stop) == out # <<>> /\ SymReady(stop)

\* One edge of the engine.  Idle, it keeps what it offers.
EngineEdge(h) ==
  IF Busy THEN Clock(h)
  ELSE /\ out' = IF h.ready /\ out # <<>> THEN Tail(out) ELSE out
       /\ UNCHANGED <<job, ctl, bld, tab, al, sel, dfl, c1, cnt, feed, seen>>

\* One edge of mtf_cam: a symbol if the engine hands one over.
MtfEdge(stop, ready) ==
  IF stop /\ state # "IDLE" /\ ~Mtf!DoneNow THEN Mtf!HAbort(ready)
  ELSE IF SymTaken(stop) THEN Mtf!HSymbol(ready, SymBeat(out[1]))
  ELSE Mtf!HAdvance(ready)

-----------------------------------------------------------------------------
(* The host.                                                                 *)

Halves == {"huffman_engine", "mtf_cam"}
BothIdle == ~Busy /\ state = "IDLE"
Idles(half) == IF half = "mtf_cam" THEN state = "IDLE" ELSE ~Busy

\* The first doorbell of a block finds both idle, the second follows at any time.
Rings(half, t) ==
  \/ due = {} /\ BothIdle /\ task' = t /\ due' = Halves \ {half}
  \/ due = {half} /\ t = task /\ due' = {} /\ UNCHANGED task

RingMtf(t, ready) ==
  /\ Rings("mtf_cam", t)
  /\ Mtf!HDoorbell(ready, t.used, t.symbols, t.bytes)
  /\ EngineEdge([Smooth EXCEPT !.ready = FALSE])

RingEngine(t, ready) ==
  /\ Rings("huffman_engine", t)
  /\ Doorbell(t.job)
  /\ MtfEdge(FALSE, ready)

\* A clock edge with the engine's wires h, an abort of mtf_cam and the TREADY of m_l.
ChainClock(h, stop, ready) ==
  /\ EngineEdge([h EXCEPT !.ready = SymReady(stop)])
  /\ MtfEdge(stop, ready)
  /\ UNCHANGED <<task, due>>

\* A half stopped without its end of block: the other waits for ever, and the
\* driver aborts it (hw/mtf_cam/docs/mas.md, DMA / chaining rules).
Failed(half) ==
  /\ due = {} /\ Idles(half)
  /\ IF half = "mtf_cam" THEN status # "DONE" ELSE seen.outcome # "DONE"
DriverEdge ==
  ChainClock([Smooth EXCEPT !.abort = Busy /\ ~seen.asked /\ Failed("mtf_cam")],
             state # "IDLE" /\ Failed("huffman_engine"), TRUE)

-----------------------------------------------------------------------------
\* The engine alone leaves everything else as it is.
AccelInit ==
  /\ Init /\ Mtf!HInit
  /\ chained \in BOOLEAN /\ due = {}
  /\ IF chained THEN task \in Tasks /\ job = task.job
     ELSE task = (CHOOSE t \in Tasks : TRUE) /\ lst = [r \in Mtf!Ranks |-> 0]

Alone == ~chained /\ Next /\ UNCHANGED <<mtfVars, chained, task, due>>

Chain ==
  /\ chained /\ UNCHANGED chained
  /\ \E ready \in BOOLEAN :
       \/ \E t \in Tasks : RingMtf(t, ready) \/ RingEngine(t, ready)
       \/ \E abort \in (IF Busy /\ ~seen.asked THEN BOOLEAN ELSE {FALSE}), stop \in {FALSE, state # "IDLE"} :
            ChainClock([Smooth EXCEPT !.abort = abort], stop, ready)

AccelNext == Alone \/ Chain

\* The engine alone: its own fairness.  The chain: the clock runs, the consumer of
\* m_l is not stalled for ever, and the driver rings the second doorbell and
\* follows its rule.
FairStep ==
  IF ~chained THEN Clock(Smooth) /\ UNCHANGED <<mtfVars, task, due>>
  ELSE IF due # {} THEN RingMtf(task, TRUE) \/ RingEngine(task, TRUE)
  ELSE DriverEdge

AccelSpec == AccelInit /\ [][AccelNext]_accelVars /\ WF_accelVars(FairStep /\ UNCHANGED chained)

-----------------------------------------------------------------------------
\* What tb/test_chain.py asserts of a block when mtf_cam is DONE: the bytes are
\* those of the functional model, with TLAST and full lanes, and both halves
\* have counted every symbol.
GoldenSymbols == Expected[task.job].beats
GoldenBytes == Mtf!Expand(GoldenSymbols, task.used, Cardinality(task.used) + 1)
TestPasses ==
  /\ Mtf!Received = GoldenBytes /\ bytesOut = Len(GoldenBytes)
  /\ Mtf!BeatShape(delivered, bytesOut, W, TRUE)
  /\ symbolsIn = Len(GoldenSymbols) /\ Len(seen.got) = Len(GoldenSymbols)

\* Whatever was aborted before, in either half and in whatever order, mtf_cam has
\* taken symbols of this block's own bits only, in order and each once, and as
\* many as the engine has handed over; and it is DONE only at the end of a block
\* that the emulation decodes, with everything the chain's test asserts.
ChainDelivers ==
  chained /\ "mtf_cam" \notin due =>
    /\ IsPrefix([i \in DOMAIN heard |-> heard[i].value], GoldenSymbols)
    /\ due = {} => Len(seen.got) = symbolsIn
    /\ status = "DONE" => Expected[task.job].sticky = "DONE" /\ TestPasses

\* Every block ends, in both halves: no gate of the engine's issue waits for
\* another, its skid drains and no stall of the selectors outlives its list; and
\* when one half of the chain stops with an error or an abort, the abort of the
\* other ends what would wait for its TREADY or its end of block.
BlocksEnd == ~BothIdle ~> BothIdle

-----------------------------------------------------------------------------
(* The instance.  The engine alone: every way a block can end, in both       *)
(* modes, with codes of up to three bits and words of four.                  *)

\* A bit string as words; the last one is short, or empty.
WordsOf(s) == [i \in 1..(Len(s) \div Word + 1) |->
                SubSeq(s, (i - 1) * Word + 1, IF i * Word < Len(s) THEN i * Word ELSE Len(s))]

Block(lengths, selectors, bits, start, limit) ==
  [mode |-> "bzip2", lengths |-> lengths, selectors |-> selectors, words |-> WordsOf(bits),
   start |-> start, limit |-> limit]
Copies(lengths, bits, start, limit) ==
  [Block(lengths, <<>>, bits, start, limit) EXCEPT !.mode = "deflate"]

Codes == <<<<1, 2, 3, 3>>, <<3, 1, 2, 3>>>>
Holes == <<<<2, 2, 0, 2>>>>
TooMany == <<<<1, 1, 1, 0>>>>
Empty == <<<<0, 0, 0, 0>>>>

\* A group is two symbols: lists that are as long as the block, end early, name
\* no table, or are too long.
Blocks ==
  {Block(Codes, s, <<0, 0, 0, 1, 0, 1, 1, 1>> \o b, 0, k) :
     s \in {<<0, 0>>, <<1, 0, 0, 1>>, <<0, 2, 0>>}, b \in {<<>>, <<1>>}, k \in {2, 6}}
    \cup {Block(Codes, <<0, 0, 0, 0>>, b, 0, 6) :
           b \in {<<0, 0, 0, 0, 0, 0, 1, 1, 1>>, <<0, 0, 0, 0, 1, 1>>, <<0, 0, 0, 0, 0, 0, 0, 0, 0>>}}
    \cup {Block(Codes, <<1, 1>>, <<1, 1, 1>>, s, 6) : s \in {2, 3, 5}}
    \cup {Block(c, <<0, 0>>, <<0, 0, 1, 1>>, 0, k) : c \in {Holes, TooMany, Empty}, k \in {1, 6}}

\* A copy is four fields; the second distance code has an extra bit, the third is
\* invalid.
Literals == <<1, 2, 3, 3>>
Distances == <<1, 2, 2>>
Streams ==
  {Copies(<<Literals, Distances>>, b, 0, k) :
     b \in {<<0, 0, 1, 1, 0, 1, 1, 0, 1, 0, 1, 0>>, <<1, 1, 0, 1, 0, 1, 1, 0>>, <<1, 1, 0, 1, 1, 0>>,
            <<1, 1, 0, 0, 1, 1>>, <<0, 1, 1, 1>>, <<1, 1, 0>>, <<0, 1>>, <<>>}, k \in {1, 2, 6}}
    \cup {Copies(<<Literals, Distances>>, <<0, 1, 1, 0, 1, 1, 0, 1, 0, 1, 0>>, s, 6) : s \in {0, 1}}
    \cup {Copies(<<Literals, d>>, <<0, 1, 1, 0>> \o b, 0, 6) :
           d \in {<<0, 0, 0>>, <<1, 1, 1>>, <<2, 0, 0>>}, b \in {<<>>, <<1, 1, 0>>}}

\* The chain: a block with two byte values whose runs and moves make four bytes;
\* its bits cut short; a selector that names no table; more bytes than BYTES_LIMIT;
\* and a used map of one byte, for which the second symbol is out of range.
Whole == Block(Codes, <<0, 1>>, <<0, 1, 1, 0, 0, 1, 1, 1>>, 0, 6)
Cut == Block(Codes, <<0, 1>>, <<0, 1, 1, 0, 0, 1>>, 0, 6)
Lost == Block(Codes, <<0, 2>>, <<0, 1, 1, 0, 0, 1, 1, 1>>, 0, 6)
Task(j, u, bytes) == [job |-> j, used |-> u, symbols |-> 9, bytes |-> bytes]
MCTasks ==
  {Task(Whole, {0, 1}, 9), Task(Cut, {0, 1}, 9), Task(Lost, {0, 1}, 9),
   Task(Whole, {0, 1}, 2), Task(Whole, {1}, 9)}

MCJobs == Blocks \cup Streams \cup {Whole, Cut, Lost}
=============================================================================
