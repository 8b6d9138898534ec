----------------------------- MODULE MtfGolden ------------------------------
(* hw/mtf_cam/golden/list_model.py, expand(): the functional model of one    *)
(* block, from the accepted symbol values to the bytes of the L vector.      *)
(* Python's list indices start at 0, those of a TLA+ sequence at 1.          *)
EXTENDS Integers, FiniteSets, SequencesExt

\* lst = [b for b in range(256) if used[b]]
GoldenList(used) ==
  CHOOSE l \in [1..Cardinality(used) -> used] :
    /\ \A i, j \in DOMAIN l : i < j => l[i] < l[j]
    /\ \A b \in used : \E i \in DOMAIN l : l[i] = b

\* lst.pop(r) and lst.insert(0, b)
GoldenFront(l, r) == <<l[r + 1]>> \o RemoveAt(l, r + 1)

GoldenStart(used) ==
  [list |-> GoldenList(used), run |-> 0, weight |-> 1, bytes |-> <<>>, longest |-> 0]

\* Of the events only the longest ("run", n, byte) is kept.
Longest(g) == IF g.run > g.longest THEN g.run ELSE g.longest

\* The pending run is written out by the first symbol that is not a run symbol.
GoldenRun(g) == [i \in 1..g.run |-> g.list[1]]

GoldenStep(g, s, eob) ==
  IF s <= 1
  THEN [g EXCEPT !.run = @ + g.weight * (1 + s), !.weight = 2 * @]
  ELSE LET ended == [g EXCEPT !.run = 0, !.weight = 1, !.longest = Longest(g),
                                   !.bytes = @ \o GoldenRun(g)]
       IN  IF s = eob THEN ended
           ELSE [ended EXCEPT !.list = GoldenFront(@, s - 1),
                              !.bytes = Append(@, g.list[s])]

\* expand(symbols, used, alphabet), with eob = alphabet - 1
ExpandAll(symbols, used, eob) ==
  FoldLeft(LAMBDA g, s : GoldenStep(g, s, eob), GoldenStart(used), symbols)
Expand(symbols, used, eob) == ExpandAll(symbols, used, eob).bytes

-----------------------------------------------------------------------------
(* hw/mtf_cam/tb/env.py: compute_outcome(), which walks the symbol beats of  *)
(* one invocation to the point where it stops, and the checks of the m_l     *)
(* beats.  The byte values come from the functional model.                   *)

RunSymbol(b) == b.type = 0 /\ b.value <= 1
MtfSymbol(b, nUsed) == b.type = 0 /\ b.value \in 2..nUsed
EndSymbol(b, nUsed) == b.type = 3 /\ b.value = nUsed + 1
KnownSymbol(b, nUsed) == (b.type = 0 /\ b.value <= nUsed) \/ EndSymbol(b, nUsed)

\* The walk: the pending run and its next weight, the bytes committed, the
\* beats taken, and how it stopped.
WalkStart == [run |-> 0, weight |-> 1, committed |-> 0, heard |-> 0, stop |-> "NONE"]

RunAfter(w, b) == w.run + w.weight * (1 + b.value)
BytesAfter(w, b, nUsed) == w.committed + w.run + (IF MtfSymbol(b, nUsed) THEN 1 ELSE 0)

\* What the beat stops the invocation with, in the order of the checks; once
\* with an EOB that counts against the symbol limit.
StopMut(w, b, p) ==
  IF b.last /\ b.type # 3 THEN "ERR_UNDERRUN"
  ELSE IF ~KnownSymbol(b, p.nUsed) THEN "ERR_RANK"
  ELSE IF RunSymbol(b) /\ RunAfter(w, b) > p.runMax THEN "ERR_RUN"
  ELSE IF w.heard + 1 = p.symbolLimit THEN "ERR_LIMIT"
  ELSE IF ~RunSymbol(b) /\ BytesAfter(w, b, p.nUsed) > p.bytesLimit THEN "ERR_LIMIT"
  ELSE IF EndSymbol(b, p.nUsed) THEN "DONE" ELSE "NONE"
Stop(w, b, p) ==
  IF b.last /\ b.type # 3 THEN "ERR_UNDERRUN"
  ELSE IF ~KnownSymbol(b, p.nUsed) THEN "ERR_RANK"
  ELSE IF RunSymbol(b) /\ RunAfter(w, b) > p.runMax THEN "ERR_RUN"
  ELSE IF ~EndSymbol(b, p.nUsed) /\ w.heard + 1 = p.symbolLimit THEN "ERR_LIMIT"
  ELSE IF ~RunSymbol(b) /\ BytesAfter(w, b, p.nUsed) > p.bytesLimit THEN "ERR_LIMIT"
  ELSE IF EndSymbol(b, p.nUsed) THEN "DONE" ELSE "NONE"

Walk(w, b, p) ==
  IF w.stop # "NONE" THEN w
  ELSE LET heard == [w EXCEPT !.heard = @ + 1, !.stop = Stop(w, b, p)]
       IN  CASE heard.stop \notin {"NONE", "DONE"} -> heard
             [] RunSymbol(b) /\ heard.stop = "NONE" ->
                  [heard EXCEPT !.run = RunAfter(w, b), !.weight = 2 * @]
             [] OTHER ->
                  [heard EXCEPT !.run = 0, !.weight = 1, !.committed = BytesAfter(w, b, p.nUsed)]

\* The prediction for the beats heard; the values up to the stop, without a
\* faulty one, are given to the functional model.
ComputeOutcome(beats, used, p) ==
  LET w == FoldLeft(LAMBDA x, b : Walk(x, b, p), WalkStart, beats)
      cut == IF w.stop \in {"NONE", "DONE"} THEN w.heard ELSE w.heard - 1
      golden == ExpandAll([i \in 1..cut |-> beats[i].value], used, p.nUsed + 1)
  IN  [stop |-> w.stop, symbolsIn |-> w.heard,
       bytes |-> golden.bytes, maxRun |-> golden.longest]

-----------------------------------------------------------------------------
\* _bytes_of and _check_beat_shape, for beats of up to so many lanes.
BytesOf(beats) == FoldLeft(LAMBDA bytes, beat : bytes \o beat.bytes, <<>>, beats)

BeatShape(beats, nBytes, lanes, done) ==
  /\ Len(beats) = (nBytes + lanes - 1) \div lanes
  /\ \A i \in DOMAIN beats :
       LET isLast == i = Len(beats)
       IN  /\ Len(beats[i].bytes) =
                IF isLast /\ nBytes % lanes # 0 THEN nBytes % lanes ELSE lanes
           /\ beats[i].last = (isLast /\ done)
=============================================================================
