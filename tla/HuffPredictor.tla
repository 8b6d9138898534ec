---------------------------- MODULE HuffPredictor ----------------------------
(* What the huffman_engine bench expects of a block: the scoreboard's step   *)
(* predictor with its stop conditions beside the emulation model's two       *)
(* decode loops (HuffGolden), and the cycle model of the aligner that the    *)
(* driver's ModelBus takes its counters from.                                *)
EXTENDS PyflateBlock, HuffGolden

CONSTANTS
  Blocks,                   \* mode, lengths of its tables and selectors
  Streams,                  \* sequences of bits
  Starts,                   \* START_BIT
  Limits,                   \* SYMBOL_LIMIT
  Runs                      \* code lengths and rates for the cycle model

\* A code takes at least a bit and at most a window (MAXLEN) of 20.
ASSUME RunsAssumption ==
  Runs \subseteq [mode : {"cycles"}, lens : Seq(1..20), every : Nat \ {0}, stall : Nat,
                  start : Nat, build : Nat]

VARIABLES
  job,                      \* what is decoded, with its tables
  gold,                     \* the loop of the emulation model
  pred,                     \* the scoreboard's predictor
  aligner                   \* the cycle model

predictVars == <<job, gold, pred, aligner>>
Nothing == "nothing"

\* _per_symbol_lengths of ModelBus: the code lengths again, from the beats.
SymbolBits(beats) ==
  LET group(n) == job.selectors[((n - 1) \div GroupSize) + 1]
  IN  FoldLeft(LAMBDA acc, n : acc + Length(job.lengths[group(n) + 1], beats[n]),
               0, [n \in DOMAIN beats |-> n])

-----------------------------------------------------------------------------
(* simulate: a 64-bit buffer behind a FIFO of two beats, a refill of 32 bits *)
(* beside each consume, decode only with a whole window or in the tail.      *)

BufBits == 64
FifoBeats == 2
Refill == 32
Window == 20                \* MAXLEN

\* Whole words before START_BIT are skipped while the tables are built.
AlignerStart(r) ==
  LET skip == r.start \div Refill
      begin == IF r.build > skip * r.every THEN r.build ELSE skip * r.every
  IN  [n |-> 0, occ |-> 0, fifo |-> 0, next |-> skip * r.every + 1, begin |-> begin, cycles |-> begin,
       refill |-> 0, out |-> 0, consumed |-> 0, arrived |-> 0, stalled |-> FALSE]

Tick(a, every) ==
  LET due == IF a.next > a.cycles THEN 0 ELSE ((a.cycles - a.next) \div every) + 1
      room == FifoBeats - a.fifo
      took == IF due < room THEN due ELSE room
  IN  [a EXCEPT !.fifo = @ + took, !.next = @ + took * every, !.arrived = @ + took]
RefilledMut(a) ==
  IF a.fifo > 0 /\ a.occ < BufBits
  THEN [a EXCEPT !.occ = IF a.occ + Refill > BufBits THEN BufBits ELSE @ + Refill, !.fifo = @ - 1]
  ELSE a
Refilled(a) ==
  IF a.fifo > 0 /\ a.occ <= BufBits - Refill
  THEN [a EXCEPT !.occ = IF a.occ + Refill > BufBits THEN BufBits ELSE @ + Refill, !.fifo = @ - 1]
  ELSE a
Cycle(a) == Refilled(Tick([a EXCEPT !.cycles = @ + 1], job.every))

SumOf(lens) == FoldLeft(LAMBDA a, b : a + b, 0, lens)
Left(a) == SumOf(job.lens) - a.consumed
InTail(a) == Left(a) <= a.occ /\ Left(a) < Window
OutStalls(a) == job.stall > 0 /\ a.n % job.stall = 0 /\ ~a.stalled

-----------------------------------------------------------------------------
Parked == /\ lengths = <<>> /\ selectors = <<>> /\ tables = <<>> /\ window = <<>> /\ tiers = <<>>
          /\ trace = <<>> /\ source = <<>> /\ output = <<>>

PredictorInit ==
  \/ /\ Init
     /\ job = Nothing /\ gold = Nothing /\ pred = Nothing /\ aligner = Nothing
  \/ /\ stage = "predict" /\ Parked
     /\ \E b \in Blocks, s \in Streams, p \in Starts, k \in Limits :
          job = [mode |-> b.mode, lengths |-> b.lengths, selectors |-> b.selectors, stream |-> s,
                 start |-> p, limit |-> k,
                 tables |-> [i \in DOMAIN b.lengths |-> GoldenTable(b.lengths[i])]]
     /\ LET broken == \E i \in DOMAIN job.tables : job.tables[i] = NoTable
        IN  /\ gold = IF broken THEN [LoopOf(job) EXCEPT !.status = "raised"] ELSE LoopOf(job)
            /\ pred = IF broken THEN [PredictionOf(job) EXCEPT !.sticky = "ETABLE"] ELSE PredictionOf(job)
     /\ aligner = Nothing
  \/ /\ stage = "cycles" /\ Parked
     /\ \E r \in Runs : job = r /\ aligner = AlignerStart(r)
     /\ gold = Nothing /\ pred = Nothing

Tiers8 == Next /\ UNCHANGED predictVars

\* The predictor and the model's loop on the next symbol.
PredictBzip2 ==
  /\ stage = "predict" /\ job.mode = "bzip2" /\ pred.sticky = "run"
  /\ pred' = Predict(job, pred) /\ gold' = DecodeBzip2(job, gold)
  /\ UNCHANGED <<vars, job, aligner>>

PredictEvent ==
  /\ stage = "predict" /\ job.mode = "deflate" /\ pred.sticky = "run"
  /\ pred' = PredictDeflate(job, pred) /\ gold' = DecodeDeflate(job, gold)
  /\ UNCHANGED <<vars, job, aligner>>

Simulating == stage = "cycles" /\ aligner.n < Len(job.lens)

\* A cycle of output back-pressure in front of a symbol.
OutStall ==
  /\ Simulating /\ OutStalls(aligner)
  /\ aligner' = [Cycle([aligner EXCEPT !.out = @ + 1]) EXCEPT !.stalled = TRUE]
  /\ UNCHANGED <<vars, job, gold, pred>>

\* A cycle without a whole window.
RefillStall ==
  /\ Simulating /\ ~OutStalls(aligner)
  /\ aligner.occ < Window /\ ~InTail(aligner)
  /\ aligner' = Cycle([aligner EXCEPT !.refill = @ + 1])
  /\ UNCHANGED <<vars, job, gold, pred>>

\* One symbol.
Consume ==
  /\ Simulating /\ ~OutStalls(aligner)
  /\ aligner.occ >= Window \/ InTail(aligner)
  /\ LET l == job.lens[aligner.n + 1]
     IN  aligner' = Cycle([aligner EXCEPT !.occ = @ - l, !.consumed = @ + l, !.n = @ + 1,
                                          !.stalled = FALSE])
  /\ UNCHANGED <<vars, job, gold, pred>>

PredictorNext ==
  Tiers8 \/ PredictBzip2 \/ PredictEvent \/ OutStall \/ RefillStall \/ Consume

PredictorSpec == PredictorInit /\ [][PredictorNext]_<<vars, predictVars>>

-----------------------------------------------------------------------------
\* What the scoreboard expects is what the emulation model decodes, cut at the
\* limit and at the end of the stream: the same beats while both run, DONE only
\* for a block that ends inside the stream and the limit (a tie goes to the
\* limit), an underrun only where the model has read padding, the other errors
\* only where the model raises.  The BITS of a bzip2 block, which ModelBus
\* rebuilds from the beats, are the bits the model has consumed.
PredictorAgrees ==
  stage = "predict" =>
    LET n == Len(pred.beats)
    IN  /\ n <= job.limit /\ IsPrefix(pred.beats, gold.out)
        /\ pred.sticky = "ETABLE" <=> \E i \in DOMAIN job.tables : job.tables[i] = NoTable
        /\ pred.sticky = "run" => /\ gold.status = "run" /\ gold.pos = pred.pos
                                  /\ gold.pos <= Total(job) /\ n = Len(gold.out)
        /\ pred.sticky = "DONE" <=>
             gold.status = "done" /\ gold.pos <= Total(job) /\ Len(gold.out) <= job.limit
        /\ pred.sticky = "ELIMIT" => Len(gold.out) = job.limit + 1 /\ gold.pos <= Total(job)
        /\ pred.sticky = "EUNDER" => gold.pos > Total(job)
        /\ pred.sticky \in {"ESEL", "ENOCODE", "ESYM"} => gold.status = "raised" /\ gold.pos <= Total(job)
        /\ pred.sticky = "DONE" /\ job.mode = "bzip2" => SymbolBits(pred.beats) = pred.bits

\* With a beat in every cycle the aligner's refill costs nothing behind the
\* first fill, whatever the code lengths, the back-pressure and the start bit:
\* the assumption behind one symbol per cycle.  At any rate no bit of a beat is
\* lost or made up, and every cycle is a symbol or a counted stall.
RefillIsHidden ==
  stage = "cycles" =>
    /\ aligner.occ \in 0..BufBits /\ aligner.fifo \in 0..FifoBeats
    /\ aligner.occ + Refill * aligner.fifo + aligner.consumed = Refill * aligner.arrived
    /\ aligner.cycles = aligner.begin + aligner.n + aligner.refill + aligner.out
    /\ job.every = 1 => aligner.refill <= 1

-----------------------------------------------------------------------------
\* For TLC: four symbols (RUNA, RUNB, one literal rank, EOB), codes of at most
\* three bits, a primary table of two; streams of seven bits for the predictor; six
\* symbols at the engine's real widths for the aligner.
MCFirst == {v \in [1..4 -> 0..3] : v[1] <= v[2]} \cup {<<1, 2, 3, 4>>}
MCSecond == {<<3, 1, 2, 3>>}
MCSelectors == {<<0>>, <<1, 0>>}
MCSources == UNION {[1..k -> Values] : k \in 0..6}

\* Complete, incomplete, empty and over-subscribed codes; a selector that
\* names no table.
MCBlocks ==
  {[mode |-> "bzip2", lengths |-> <<v, <<3, 1, 2, 3>>>>, selectors |-> s] :
     v \in {<<1, 2, 3, 3>>, <<2, 2, 2, 2>>, <<2, 0, 3, 2>>, <<1, 1, 2, 0>>},
     s \in {<<0>>, <<1, 0, 0, 0>>, <<0, 2>>}}
  \cup
  {[mode |-> "deflate", lengths |-> <<v, d>>, selectors |-> <<>>] :
     v \in {<<2, 3, 1, 3>>, <<1, 2, 2, 0>>, <<0, 2, 2, 1>>},
     d \in {<<1, 2, 2>>, <<1, 0, 0>>, <<0, 0, 0>>}}
MCStreams == [1..7 -> {0, 1}]

MCRuns ==
  {[mode |-> "cycles", lens |-> l, every |-> e, stall |-> o, start |-> p, build |-> b] :
     l \in [1..6 -> {1, 13, 20}], e \in {1, 5}, o \in {0, 2}, p \in {0, 70}, b \in {3, 24}}
=============================================================================
