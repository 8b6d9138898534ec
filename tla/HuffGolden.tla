----------------------------- MODULE HuffGolden -----------------------------
(* The emulation model's two decode loops and the stop conditions that the   *)
(* scoreboard of the huffman_engine bench adds to them.  A job j has the     *)
(* mode, the tables, the selectors, the bits of the stream, START_BIT and    *)
(* SYMBOL_LIMIT of an invocation.  A DEFLATE alphabet is scaled down to a    *)
(* literal, the end of block, one length code with an extra bit and a code   *)
(* that RFC 1951 never uses; a distance code d has d extra bits.             *)
EXTENDS PyflateHuffman

-----------------------------------------------------------------------------
(* BitReader pads the window with zeros.                                     *)

Total(j) == Len(j.stream)
BitAt(j, p) == IF p <= Total(j) THEN j.stream[p] ELSE 0
Peek(j, pos) == [i \in 1..MaxCodeLen |-> BitAt(j, pos + i)]
Raw(j, pos, n) == IF n = 0 THEN 0 ELSE BitAt(j, pos + 1)   \* an extra field has at most one bit

EndOf(j) == IF j.mode = "bzip2" THEN Len(j.lengths[1]) - 1 ELSE 1
LengthCode == 2
DistanceCodes == 0..1

\* A DEFLATE event is read field by field: part holds the fields of a copy
\* that are known, at names the next one.
LoopOf(j) == [status |-> "run", out |-> <<>>, pos |-> j.start, sel |-> 0, left |-> 0, group |-> 0,
              at |-> "code", part |-> <<>>]

\* The next group's table when the last one's symbols are used up.
NextGroup(j, g) ==
  IF g.left > 0 THEN [g EXCEPT !.left = @ - 1]
  ELSE IF g.sel < Len(j.selectors) /\ j.selectors[g.sel + 1] < Len(j.tables)
  THEN [g EXCEPT !.sel = @ + 1, !.left = GroupSize - 1, !.group = j.selectors[g.sel + 1]]
  ELSE [g EXCEPT !.status = "raised"]

CodeAt(j, group, pos) == GoldenMatch(j.tables[group + 1], Peek(j, pos))

\* decode_bzip2_symbols, one symbol.
DecodeBzip2(j, g) ==
  LET h == NextGroup(j, g)
      m == CodeAt(j, h.group, h.pos)
  IN  IF h.status = "raised" THEN h
      ELSE IF m = NoMatch THEN [h EXCEPT !.status = "raised"]
      ELSE [h EXCEPT !.out = Append(@, m.sym), !.pos = @ + m.len,
                     !.status = IF m.sym = EndOf(j) THEN "done" ELSE "run"]

\* The field at g.pos: what it is, the position behind it, and the event it
\* completes or the fields it adds to.
CodeField(j, g, m) ==
  [kind |-> IF m.sym = EndOf(j) THEN "eob" ELSE IF m.sym > LengthCode THEN "invalid"
            ELSE IF m.sym = LengthCode THEN "extra" ELSE "beat",
   pos |-> g.pos + m.len,
   part |-> IF m.sym = EndOf(j) THEN <<"eob">>
            ELSE IF m.sym = LengthCode THEN <<"copy">> ELSE <<"lit", m.sym>>]
DistanceField(j, g, m) ==
  [kind |-> IF m.sym \in DistanceCodes THEN "far" ELSE "invalid",
   pos |-> g.pos + m.len, part |-> Append(g.part, m.sym)]
ExtraField(j, g, n, kind) ==
  [kind |-> kind, pos |-> g.pos + n, part |-> Append(g.part, Raw(j, g.pos, n))]
Unmatched(g) == [kind |-> "nomatch", pos |-> g.pos, part |-> <<>>]

FieldOf(j, g) ==
  IF g.at \in {"code", "dist"} /\ CodeAt(j, IF g.at = "code" THEN 0 ELSE 1, g.pos) = NoMatch
  THEN Unmatched(g)
  ELSE CASE g.at = "code" -> CodeField(j, g, CodeAt(j, 0, g.pos))
         [] g.at = "extra" -> ExtraField(j, g, 1, "dist")
         [] g.at = "dist" -> DistanceField(j, g, CodeAt(j, 1, g.pos))
         [] g.at = "far" -> ExtraField(j, g, Last(g.part), "beat")

\* decode_deflate_symbols, one field.
Decoded(g, f) ==
  CASE f.kind \in {"nomatch", "invalid"} -> [g EXCEPT !.status = "raised", !.pos = f.pos]
    [] f.kind = "beat" -> [g EXCEPT !.out = Append(@, f.part), !.pos = f.pos, !.at = "code"]
    [] f.kind = "eob" -> [g EXCEPT !.out = Append(@, f.part), !.pos = f.pos, !.status = "done"]
    [] OTHER -> [g EXCEPT !.pos = f.pos, !.at = f.kind, !.part = f.part]
DecodeDeflate(j, g) == Decoded(g, FieldOf(j, g))

-----------------------------------------------------------------------------
(* The predictor: the same primitives, stopped where the engine must stop.   *)

PredictionOf(j) ==
  [sticky |-> "run", beats |-> <<>>, pos |-> j.start, bits |-> -1,
   sel |-> 0, left |-> 0, group |-> 0, at |-> "code", part |-> <<>>]

UpToLimit(j, beats) == IF Len(beats) > j.limit THEN SubSeq(beats, 1, j.limit) ELSE beats
Stopped(j, t, flag) == [t EXCEPT !.sticky = flag, !.beats = UpToLimit(j, @)]

\* Beat limit + 1 is the one that is too many.
WithinMut(j, n) == n < j.limit
Within(j, n) == n <= j.limit
Beat(j, t, b, pos) ==
  LET u == [t EXCEPT !.beats = Append(@, b), !.pos = pos, !.at = "code"]
  IN  IF Within(j, Len(u.beats)) THEN u ELSE Stopped(j, u, "ELIMIT")
\* The end of block is a beat like the others; DONE only if it is within limit.
LastBeat(j, t, b, pos) ==
  LET u == Beat(j, t, b, pos)
  IN  IF u.sticky = "run" THEN [u EXCEPT !.sticky = "DONE", !.bits = pos - j.start] ELSE u

\* _predict, one symbol.
Predict(j, t) ==
  LET fresh == t.left = 0
      known == t.sel < Len(j.selectors) /\ j.selectors[t.sel + 1] < Len(j.tables)
      u == IF fresh THEN [t EXCEPT !.sel = @ + 1, !.left = GroupSize - 1, !.group = j.selectors[t.sel + 1]]
           ELSE [t EXCEPT !.left = @ - 1]
      m == CodeAt(j, u.group, u.pos)
  IN  IF fresh /\ ~known THEN Stopped(j, t, "ESEL")
      ELSE IF m = NoMatch THEN Stopped(j, u, "ENOCODE")
      ELSE IF u.pos + m.len > Total(j) THEN Stopped(j, u, "EUNDER")
      ELSE IF m.sym = EndOf(j) THEN LastBeat(j, u, m.sym, u.pos + m.len)
      ELSE Beat(j, u, m.sym, u.pos + m.len)

\* _predict_deflate, one field: it must lie within the stream before it is used.
Judged(j, t, f) ==
  IF f.kind = "nomatch" THEN Stopped(j, t, "ENOCODE")
  ELSE IF f.pos > Total(j) THEN Stopped(j, t, "EUNDER")
  ELSE CASE f.kind = "invalid" -> Stopped(j, t, "ESYM")
         [] f.kind = "eob" -> LastBeat(j, t, f.part, f.pos)
         [] f.kind = "beat" -> Beat(j, t, f.part, f.pos)
         [] OTHER -> [t EXCEPT !.pos = f.pos, !.at = f.kind, !.part = f.part]
PredictDeflate(j, t) == Judged(j, t, FieldOf(j, t))
=============================================================================
