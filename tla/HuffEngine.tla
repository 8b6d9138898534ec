----------------------------- MODULE HuffEngine -----------------------------
(* hw/huffman_engine/rtl at clock level: the bit aligner, the table builder, *)
(* the comparator cascade, the selector FSM, the DEFLATE resolve, the output *)
(* skid and the invocation FSM around them.  One step is one clock edge; the *)
(* two input streams, the sink and ABORT are free on every edge.  A job is   *)
(* what an invocation is configured with and fed with: mode, code lengths,   *)
(* selectors, the words of the bit stream (the last one carries TLAST and    *)
(* may be short), START_BIT and SYMBOL_LIMIT.  Configuration is latched at   *)
(* the doorbell (huff_regs), so it does not change while the engine is busy. *)
(* What the tables keep from an earlier invocation reads as Stale.           *)
EXTENDS HuffGolden, FiniteSetsExt

CONSTANTS
  Word,                     \* bits of a word of s_axis_bits: 32
  Jobs                      \* what an invocation may be given

ASSUME EngineAssumption == Word \in Nat /\ Word > MaxCodeLen

VARIABLES
  job,                      \* the latched configuration
  ctl,                      \* huff_ctrl: state, abort_pend, start_pulse
  bld,                      \* huff_builder
  tab,                      \* huff_tables: rows, symtab and EOB latch of each set
  al,                       \* huff_aligner
  sel,                      \* huff_selector
  dfl,                      \* huff_deflate
  c1,                       \* the C1 register: empty or one symbol
  out,                      \* huff_out: the beats in the skid
  cnt,                      \* issued_cnt, eob_sent, limit_hit
  feed,                     \* words and selectors not yet accepted
  seen                      \* what went out, how it ended, aborts and stalls

vars == <<job, ctl, bld, tab, al, sel, dfl, c1, out, cnt, feed, seen>>

Lens == 1..MaxCodeLen
Skid == 2
FifoWords == 2
Stale == -1
Bzip2 == job.mode = "bzip2"

Busy == ctl.state # "IDLE"
Decoding == ctl.state = "DECODE"
Flushing == ctl.state \in {"ERR", "ABORT"}
Full == Len(out) = Skid
Count(P) == IF P THEN 1 ELSE 0

-----------------------------------------------------------------------------
(* huff_aligner: a buffer of two words behind a FIFO of two.                 *)

Occ == Len(al.buf)
AtEnd == al.last /\ al.fifo = <<>>
OccOk == AtEnd \/ Occ >= MaxCodeLen
Window == [i \in Lens |-> IF i <= Occ THEN al.buf[i] ELSE 0]
BitsReady == Busy /\ Len(al.fifo) # FifoWords /\ ~al.last
Skipping == al.skip # 0

AlignerReset(start) ==
  [buf |-> <<>>, fifo |-> <<>>, last |-> FALSE, skip |-> start, skipped |-> start = 0,
   under |-> FALSE, bits |-> 0]

\* eff bits leave the buffer, a word is popped when it fits, a word is accepted.
AlignerAfter(consume, word) ==
  LET asked == IF al.skipped THEN consume ELSE 0
      eff == IF Skipping THEN Min({al.skip, Word, Occ}) ELSE Min({asked, Occ})
      kept == SubSeq(al.buf, eff + 1, Occ)
      pop == al.fifo # <<>> /\ Len(kept) <= Word
  IN  [buf |-> IF pop THEN kept \o Head(al.fifo) ELSE kept,
       fifo |-> (IF pop THEN Tail(al.fifo) ELSE al.fifo) \o word,
       last |-> al.last \/ (word # <<>> /\ Len(feed.words) = 1),
       skip |-> IF Skipping THEN al.skip - eff ELSE 0,
       skipped |-> al.skipped \/ (Skipping /\ al.skip = eff),
       under |-> al.under \/ (AtEnd /\ IF Skipping THEN Occ = 0 ELSE asked > Occ),
       bits |-> IF al.skipped THEN al.bits + eff ELSE al.bits]

-----------------------------------------------------------------------------
(* huff_builder and huff_tables: PREFIX, a length in each cycle, then FILL,  *)
(* a symbol in each cycle, for one table after the other.                    *)

BuilderStart ==
  [st |-> "PREFIX", t |-> 1, l |-> 1, s |-> 0, code |-> 0, base |-> 0,
   fill |-> [l \in Lens |-> 0], next |-> [l \in Lens |-> 0], done |-> FALSE, err |-> FALSE]

Sum == bld.code + CountOf(job.lengths[bld.t], bld.l)
Oversubscribed == bld.st = "PREFIX" /\ Sum > 2^bld.l
FillLength == Length(job.lengths[bld.t], bld.s)

Prefix ==
  IF Oversubscribed THEN [bld EXCEPT !.st = "IDLE", !.err = TRUE]
  ELSE [bld EXCEPT !.fill[bld.l] = bld.base, !.next[bld.l] = bld.code,
                   !.code = 2 * Sum, !.base = @ + Sum - bld.code,
                   !.st = IF bld.l = MaxCodeLen THEN "FILL" ELSE "PREFIX",
                   !.l = IF @ = MaxCodeLen THEN 1 ELSE @ + 1,
                   !.s = 0]

Placed == IF FillLength = 0 THEN bld
          ELSE [bld EXCEPT !.fill[FillLength] = @ + 1, !.next[FillLength] = @ + 1]
Fill ==
  IF bld.s + 1 < Len(job.lengths[bld.t]) THEN [Placed EXCEPT !.s = @ + 1]
  ELSE IF bld.t < Len(job.lengths)
  THEN [Placed EXCEPT !.st = "PREFIX", !.t = @ + 1, !.code = 0, !.base = 0]
  ELSE [Placed EXCEPT !.st = "IDLE", !.done = TRUE]

BuilderAfter ==
  CASE Flushing -> [bld EXCEPT !.st = "IDLE", !.done = FALSE, !.err = FALSE]
    [] ~Flushing /\ bld.st = "PREFIX" -> Prefix
    [] ~Flushing /\ bld.st = "FILL" -> Fill
    [] ~Flushing /\ bld.st = "IDLE" -> [bld EXCEPT !.err = FALSE]

\* The EOB latch: the last symbol of every bzip2 table, symbol 256 of the
\* literal table.
EobHit == bld.s = EndOf(job) /\ (Bzip2 \/ bld.t = 1)

TablesAfter ==
  CASE bld.st = "PREFIX" /\ ~Oversubscribed ->
         [tab EXCEPT ![bld.t].rows[bld.l] =
            [limit |-> Sum * 2^(MaxCodeLen - bld.l), first |-> bld.code, base |-> bld.base]]
    [] bld.st = "FILL" /\ FillLength # 0 ->
         [tab EXCEPT ![bld.t].symtab[bld.fill[FillLength] + 1] = bld.s,
                     ![bld.t].eob = IF EobHit THEN [len |-> FillLength, code |-> bld.next[FillLength]]
                                    ELSE @]
    [] OTHER -> tab

\* The latches of all sets are cleared when a build starts.
NoEob == [len |-> 0, code |-> 0]
TablesAtStart(j) ==
  [t \in DOMAIN j.lengths |->
     [rows |-> [l \in Lens |-> [limit |-> 0, first |-> 0, base |-> 0]],
      symtab |-> [i \in DOMAIN j.lengths[t] |-> Stale],
      eob |-> NoEob]]

-----------------------------------------------------------------------------
(* huff_selector: a skid of one selector, GroupSize symbols for each.        *)

SelectorReset ==
  [cnt |-> 0, set |-> 0, skid |-> <<>>, started |-> FALSE, drained |-> FALSE, owed |-> FALSE]

SelOn == Decoding /\ Bzip2
SelDrains == ctl.state = "DRAIN" /\ Bzip2
SelReady == (SelOn /\ sel.skid = <<>>) \/ (SelDrains /\ ~sel.drained)
SelStall == sel.owed \/ (SelOn /\ ~sel.started)
NeedPop(issue) == SelOn /\ (sel.owed \/ ctl.start \/ (issue /\ sel.cnt = GroupSize - 1))

\* The selector applied is no table, or the list has ended before the block.
BadSelector(issue) ==
  \/ NeedPop(issue) /\ sel.skid # <<>> /\ sel.skid[1].val >= Len(job.lengths)
  \/ sel.owed /\ sel.skid = <<>> /\ sel.drained

Popped == [sel EXCEPT !.set = sel.skid[1].val, !.skid = <<>>, !.cnt = 0, !.started = TRUE,
                      !.drained = @ \/ sel.skid[1].last, !.owed = FALSE]

\* DRAIN discards what is in the skid and what arrives, up to TLAST.
SelectorAfter(issue, got) ==
  IF SelDrains
  THEN [sel EXCEPT !.skid = <<>>, !.owed = FALSE,
                   !.drained = @ \/ \E q \in {sel.skid, got} : q # <<>> /\ q[1].last]
  ELSE IF ~SelOn THEN [sel EXCEPT !.cnt = 0, !.owed = FALSE]
  ELSE IF NeedPop(issue) /\ sel.skid # <<>> THEN Popped
  ELSE [sel EXCEPT !.skid = @ \o got, !.cnt = @ + Count(issue), !.owed = NeedPop(issue)]

-----------------------------------------------------------------------------
(* huff_deflate: the fields of a copy behind its length code.  part has the  *)
(* form of the emulation model's event.                                      *)

DeflateIdle == [st |-> "IDLE", part |-> <<>>]
InState(s) == dfl.st = s /\ ~Full
DistIssue == InState("DIST") /\ OccOk
DflBusy == dfl.st # "IDLE"
Resolved(isDist) == c1 # <<>> /\ c1[1].dist = isDist

\* extra_consume_o.
Extra ==
  IF InState("LEXTRA") /\ OccOk THEN 1
  ELSE IF InState("DEXTRA") /\ OccOk THEN Last(dfl.part) ELSE 0
ExtraBits(n) == IF n = 0 THEN 0 ELSE Window[1]

InvalidCode(s) == s = Stale \/ s > LengthCode
SymbolError ==
  ~Bzip2 /\ \/ dfl.st = "IDLE" /\ Decoding /\ Resolved(FALSE) /\ InvalidCode(c1[1].sym)
            \/ dfl.st = "DWAIT" /\ Resolved(TRUE) /\ c1[1].sym \notin DistanceCodes

To(st, part) == [st |-> st, part |-> part]
DeflateAfter ==
  IF Bzip2 \/ ~Decoding THEN DeflateIdle
  ELSE CASE dfl.st = "IDLE" /\ Resolved(FALSE) /\ c1[1].sym = LengthCode -> To("LEXTRA", <<"copy">>)
         [] InState("LEXTRA") /\ OccOk -> To("DIST", Append(dfl.part, ExtraBits(1)))
         [] DistIssue -> To("DWAIT", dfl.part)
         [] dfl.st = "DWAIT" /\ Resolved(TRUE) ->
              IF SymbolError THEN DeflateIdle ELSE To("DEXTRA", Append(dfl.part, c1[1].sym))
         [] InState("DEXTRA") /\ OccOk -> To("EMIT", Append(dfl.part, ExtraBits(Last(dfl.part))))
         [] InState("EMIT") -> DeflateIdle
         [] OTHER -> dfl

-----------------------------------------------------------------------------
(* C0: the decoder's view of the window and the gates of an issue.           *)

CurSet == IF Bzip2 THEN sel.set + 1 ELSE IF dfl.st \in {"DIST", "DWAIT"} THEN 2 ELSE 1

\* huff_decoder: the smallest length whose left-aligned limit is above the window.
NoView == [len |-> 0, code |-> 0, sym |-> Stale, eob |-> FALSE]
MatchAt(set, l) ==
  [len |-> l, code |-> Code(Window, l),
   sym |-> set.symtab[set.rows[l].base + Code(Window, l) - set.rows[l].first + 1],
   eob |-> set.eob = [len |-> l, code |-> Code(Window, l)]]
Shortest(set) == {l \in Lens : Code(Window, MaxCodeLen) < set.rows[l].limit}
View ==
  IF ~Decoding THEN NoView
  ELSE IF Shortest(tab[CurSet]) = {} THEN NoView
  ELSE MatchAt(tab[CurSet], Min(Shortest(tab[CurSet])))

LimitStop == cnt.issued >= job.limit
EventOk == Bzip2 \/ DistIssue \/ (~DflBusy /\ c1 = <<>>)

\* The skid must have room for what is under way, the beat leaving now counted.
RoomMut(take) == Len(out) - Count(take) < Skid
Room(take) == Len(out) - Count(take) + Len(c1) < Skid
Open(take) ==
  /\ Decoding /\ Room(take) /\ ~SelStall /\ (Bzip2 \/ ~DflBusy \/ DistIssue)
  /\ OccOk /\ al.skipped /\ EventOk
TooShort(v) == AtEnd /\ v.len > Occ
\* The limit also holds back the distance code of the last copy.
IssuesMut(v, take) == Open(take) /\ v.len # 0 /\ ~v.eob /\ ~LimitStop /\ ~TooShort(v)
Issues(v, take) == Open(take) /\ v.len # 0 /\ ~v.eob /\ (~LimitStop \/ DistIssue) /\ ~TooShort(v)
\* The end of block over the zero padding.
EndsMut(v, take) == Open(take) /\ v.eob /\ ~LimitStop
Ends(v, take) == Open(take) /\ v.eob /\ ~LimitStop /\ ~TooShort(v)

\* The wires of one cycle: h is what the four ports offer.
WordIn(h) == IF h.bits /\ BitsReady /\ feed.words # <<>> THEN <<Head(feed.words)>> ELSE <<>>
SelectorIn(h) ==
  IF h.sel /\ SelReady /\ feed.sels # <<>>
  THEN <<[val |-> Head(feed.sels), last |-> Len(feed.sels) = 1]>> ELSE <<>>
Wires(h, v, take) ==
  [issue |-> Issues(v, take), ends |-> Ends(v, take),
   nocode |-> Open(take) /\ v.len = 0, short |-> Open(take) /\ TooShort(v),
   word |-> WordIn(h), pick |-> SelectorIn(h)]
Consumed(v, w) == IF w.issue \/ w.ends THEN v.len ELSE IF Bzip2 THEN 0 ELSE Extra

\* The C1 register, and the beat that C2 makes of it or of a copy.
C1After(v, w) ==
  IF (w.issue \/ w.ends) /\ ~Flushing
  THEN <<[sym |-> v.sym, eob |-> w.ends, dist |-> w.issue /\ ~Bzip2 /\ DistIssue]>>
  ELSE <<>>
OneBeat(data, last) == <<[data |-> data, last |-> last]>>
Pushed ==
  IF c1 # <<>> /\ c1[1].eob THEN OneBeat(IF Bzip2 THEN c1[1].sym ELSE <<"eob">>, TRUE)
  ELSE IF Resolved(FALSE) /\ Bzip2 THEN OneBeat(c1[1].sym, FALSE)
  ELSE IF Resolved(FALSE) /\ c1[1].sym \in 0..(EndOf(job) - 1) THEN OneBeat(<<"lit", c1[1].sym>>, FALSE)
  ELSE IF InState("EMIT") /\ ~al.under THEN OneBeat(dfl.part, FALSE) ELSE <<>>
\* A skid that keeps its beats over an error or an abort.
OutAfterMut(take) == (IF take THEN Tail(out) ELSE out) \o Pushed
OutAfter(take) ==
  IF Flushing THEN <<>> ELSE (IF take THEN Tail(out) ELSE out) \o Pushed

-----------------------------------------------------------------------------
(* huff_ctrl: in each state the first of its events decides.                 *)

Errors == {"ETABLE", "ENOCODE", "ESEL", "EUNDER", "ESYM", "ELIMIT"}
First(events) ==
  LET due == {i \in DOMAIN events : events[i][1]}
  IN  IF due = {} THEN "stay" ELSE events[Min(due)][2]

InPrep(pend) ==
  << <<bld.err, "ETABLE">>, <<al.under, "EUNDER">>, <<pend, "ABORTED">>,
     <<bld.done /\ al.skipped, "DECODE">> >>
InDecode(w, pend) ==
  << <<w.ends, "DRAIN">>, <<w.nocode, "ENOCODE">>, <<BadSelector(w.issue), "ESEL">>,
     <<al.under \/ w.short, "EUNDER">>, <<SymbolError, "ESYM">>, <<cnt.limit, "ELIMIT">>,
     <<pend, "ABORTED">> >>
\* An abort that waits for the surplus selectors like the normal end.
InDrainMut(pend) ==
  << <<pend /\ ~cnt.eobSent /\ (~Bzip2 \/ sel.drained), "ABORTED">>,
     <<out = <<>> /\ cnt.eobSent /\ (~Bzip2 \/ sel.drained), "DONE">> >>
\* DONE wins over an abort once the end of block was handed over.
InDrain(pend) ==
  << <<pend /\ cnt.eobSent /\ out = <<>>, "DONE">>, <<pend /\ ~cnt.eobSent, "ABORTED">>,
     <<out = <<>> /\ cnt.eobSent /\ (~Bzip2 \/ sel.drained), "DONE">> >>

Decision(w, pend) ==
  CASE ctl.state = "PREP" -> First(InPrep(pend))
    [] Decoding -> First(InDecode(w, pend))
    [] ctl.state = "DRAIN" -> First(InDrain(pend))
    [] OTHER -> "IDLE"
StateOf(event) ==
  CASE event = "stay" -> ctl.state
    [] event \in Errors -> "ERR"
    [] event = "ABORTED" -> "ABORT"
    [] OTHER -> event

ControlAfter(event, pend) ==
  [state |-> StateOf(event), start |-> event = "DECODE",
   pend |-> pend /\ StateOf(event) \notin {"ABORT", "IDLE"}]

CountersAfter(w, take) ==
  [issued |-> cnt.issued + Count(w.issue /\ ~DistIssue),
   eobSent |-> cnt.eobSent \/ (take /\ out[1].last),
   limit |-> take /\ Len(seen.got) + 1 >= job.limit /\ ~out[1].last]

SeenAfter(h, event, take) ==
  [got |-> IF take THEN Append(seen.got, out[1]) ELSE seen.got,
   outcome |-> IF event \in Errors \cup {"ABORTED", "DONE"} THEN event ELSE seen.outcome,
   asked |-> seen.asked \/ h.abort,
   waited |-> seen.waited + Count(seen.asked \/ h.abort),
   smooth |-> seen.smooth /\ h.ready]

-----------------------------------------------------------------------------
Init ==
  /\ job \in Jobs
  /\ ctl = [state |-> "IDLE", start |-> FALSE, pend |-> FALSE]
  /\ bld = [BuilderStart EXCEPT !.st = "IDLE"] /\ tab = <<>>
  /\ al = AlignerReset(0) /\ sel = SelectorReset /\ dfl = DeflateIdle
  /\ c1 = <<>> /\ out = <<>>
  /\ cnt = [issued |-> 0, eobSent |-> FALSE, limit |-> FALSE]
  /\ feed = [words |-> <<>>, sels |-> <<>>]
  /\ seen = [got |-> <<>>, outcome |-> "none", asked |-> FALSE, waited |-> 0, smooth |-> TRUE]

\* An accepted doorbell; the host offers this job's streams.
Doorbell(j) ==
  /\ ~Busy
  /\ job' = j
  /\ ctl' = [ctl EXCEPT !.state = "PREP"]
  /\ bld' = BuilderStart /\ tab' = TablesAtStart(j)
  /\ al' = AlignerReset(j.start) /\ sel' = SelectorReset
  /\ dfl' = DeflateIdle /\ c1' = <<>> /\ out' = <<>>
  /\ cnt' = [issued |-> 0, eobSent |-> FALSE, limit |-> FALSE]
  /\ feed' = [words |-> j.words, sels |-> j.selectors]
  /\ seen' = [got |-> <<>>, outcome |-> "none", asked |-> FALSE, waited |-> 0, smooth |-> TRUE]

Edge(h, v, w, take) ==
  LET pend == ctl.pend \/ h.abort
      event == Decision(w, pend)
  IN  /\ ctl' = ControlAfter(event, pend)
      /\ seen' = SeenAfter(h, event, take)
      /\ bld' = BuilderAfter /\ tab' = TablesAfter
      /\ al' = AlignerAfter(Consumed(v, w), w.word)
      /\ sel' = SelectorAfter(w.issue, w.pick)
      /\ dfl' = DeflateAfter
      /\ c1' = C1After(v, w)
      /\ out' = OutAfter(take)
      /\ cnt' = CountersAfter(w, take)
      /\ feed' = [words |-> IF w.word = <<>> THEN feed.words ELSE Tail(feed.words),
                  sels |-> IF w.pick = <<>> THEN feed.sels ELSE Tail(feed.sels)]
      /\ UNCHANGED job

\* A clock edge with the word, the selector, the TREADY and the ABORT of h.
Clock(h) ==
  /\ Busy
  /\ \E v \in {View}, take \in {h.ready /\ out # <<>>} :
       \E w \in {Wires(h, v, take)} : Edge(h, v, w, take)

\* The four are free where the engine looks at them.
Free(P) == IF P THEN BOOLEAN ELSE {TRUE}
Offered ==
  [bits : Free(BitsReady /\ feed.words # <<>>), sel : Free(SelReady /\ feed.sels # <<>>),
   ready : Free(out # <<>>), abort : IF seen.asked THEN {FALSE} ELSE BOOLEAN]

Next == (\E j \in Jobs : Doorbell(j)) \/ (\E h \in Offered : Clock(h))

\* The clock runs, the streams go on and the consumer is not stalled for ever.
Smooth == [bits |-> TRUE, sel |-> TRUE, ready |-> TRUE, abort |-> FALSE]
Fairness == WF_vars(Clock(Smooth))

Spec == Init /\ [][Next]_vars /\ Fairness

-----------------------------------------------------------------------------
\* What the scoreboard's predictor makes of a job.
Bits(j) == FlattenSeq(j.words)
GoldenJob(j) ==
  [mode |-> j.mode, lengths |-> j.lengths, selectors |-> j.selectors, stream |-> Bits(j),
   start |-> j.start, limit |-> j.limit,
   tables |-> [t \in DOMAIN j.lengths |-> GoldenTable(j.lengths[t])]]
Predicted(g, t) ==
  IF t.sticky # "run" THEN t ELSE IF g.mode = "bzip2" THEN Predict(g, t) ELSE PredictDeflate(g, t)
\* Every step but a last one consumes a bit or a field of a copy without bits.
Outcome(g) ==
  IF \E t \in DOMAIN g.tables : g.tables[t] = NoTable THEN [PredictionOf(g) EXCEPT !.sticky = "ETABLE"]
  ELSE FoldLeft(LAMBDA t, i : Predicted(g, t), PredictionOf(g), [i \in 1..(2 * Len(g.stream) + 2) |-> i])
Expected == [j \in Jobs |-> Outcome(GoldenJob(j))]

\* What the engine may report where the emulation stops: the limit and an error
\* behind the same beat are not ordered, and the underrun of a length's extra
\* bits shows a cycle later than a distance table without codes.
Answers(e) ==
  {e.sticky} \cup {a \in {"ELIMIT"} : e.sticky \in Errors /\ Len(e.beats) = job.limit}
             \cup {a \in {"ENOCODE"} : e.sticky = "EUNDER" /\ e.at = "extra"}

\* What the sink receives is what the emulation predicts for this job, beat by
\* beat, with TLAST on the end of block only; the block is DONE when all of it was
\* handed over, with the emulation's count of bits and, in bzip2 mode, the whole
\* selector list read; an error is the predicted one, and a sink that never stalls
\* has received all the beats before it (a bad selector withdraws the last one).
\* This relates the aligner's refills, the issue gates, the C1 register, the
\* copy's fields and the order of the FSM's events to two decode loops that know
\* nothing of cycles.
EngineAgrees ==
  LET e == Expected[job]
      got == seen.got
      n == Len(got)
  IN  /\ IsPrefix([i \in DOMAIN got |-> got[i].data], e.beats)
      /\ \A i \in DOMAIN got : got[i].last <=> e.sticky = "DONE" /\ i = Len(e.beats)
      /\ seen.outcome = "DONE" =>
           /\ e.sticky = "DONE" /\ n = Len(e.beats) /\ al.bits = e.bits
           /\ Bzip2 /\ ~seen.asked => feed.sels = <<>>
      /\ seen.outcome = "ABORTED" => seen.asked
      /\ seen.outcome \in Errors => seen.outcome \in Answers(e)
      /\ ~Busy /\ seen.outcome \in Errors \ {"ESEL"} /\ seen.smooth => n = Len(e.beats)

\* An abort is answered within three cycles, whatever the streams and the sink do
\* and whatever state it meets (a block whose end was handed over ends DONE).
AbortIsPrompt == Busy => seen.waited <= 2

\* The beat that C2 pushes has a place: the issue gates have counted what was under
\* way in C1 and in a copy, with the beat that left in the same cycle.
SkidHolds == Len(out) + Len(Pushed) <= Skid
=============================================================================
