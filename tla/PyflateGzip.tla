----------------------------- MODULE PyflateGzip -----------------------------
(* gzip_main, the DEFLATE decoder of the stock and of the landed benchmark,  *)
(* at the level of its header fields, code lengths and symbols, recorded as  *)
(* golden/pyflate_ref.py records it.  What golden/calibrate.py makes of the  *)
(* record is compared with the output.                                       *)
EXTENDS Integers, SequencesExt, FiniteSetsExt

CONSTANTS
  Bytes2,                   \* values of a literal
  LengthSymbols,            \* literal/length symbols above 256
  DistanceSymbols,
  Extras,                   \* values extra bits may have
  Headers,                  \* code-length symbols of a dynamic block: [r, extra]
  MaxGzipBlocks, MaxGzipSymbols

VARIABLES
  gat,                      \* "head", "block", "body", "distance",
                            \* "end" or "raised"
  out,                      \* the bytes decoded
  symbols,                  \* trace.symbols: table key, symbol
  reads,                    \* the first raw read after so many symbols
  keys,                     \* tables made so far
  final, pending,           \* lastbit; a length whose distance comes next
  start,                    \* symbols before this block's body
  usable, usableDist,       \* the symbols of this block's tables that have codes
  golden,                   \* the emulation model's events for this block
  stored, far               \* history: a stored block, a distance too far

gzipVars == <<gat, out, symbols, reads, keys, final, pending,
              start, usable, usableDist, golden, stored, far>>

EOB == 256
GzipInit ==
  /\ gat = "head" /\ out = <<>> /\ symbols = <<>> /\ reads = <<>> /\ keys = 0
  /\ final = FALSE
  /\ pending = 0 /\ start = 0 /\ usable = {} /\ usableDist = {} /\ golden = <<>>
  /\ stored = FALSE /\ far = FALSE

-----------------------------------------------------------------------------
\* The extra bits of a symbol, and the value a symbol and its extra bits stand
\* for, as the decoder computes them.
ExtraLengthBits(r) == IF r \in 257..260 \/ r = 285 THEN 0 ELSE ((r - 257) \div 4) - 1
ExtraDistanceBits(r) == IF r \in 0..1 THEN 0 ELSE (r \div 2) - 1
LengthBase(r) == <<3, 4, 5, 6, 7, 8, 9, 10, 11, 13, 15, 17, 19, 23, 27, 31, 35, 43, 51,
                   59, 67, 83, 99, 115, 131, 163, 195, 227, 258>>[r - 256]
DistanceBase(r) == <<1, 2, 3, 4, 5, 7, 9, 13, 17, 25, 33, 49, 65, 97, 129, 193, 257, 385,
                     513, 769, 1025, 1537, 2049, 3073, 4097, 6145, 8193, 12289, 16385,
                     24577>>[r + 1]

\* The same numbers in the tables of the emulation model.
LenExtra(i) == <<0, 0, 0, 0, 0, 0, 0, 0, 1, 1, 1, 1, 2, 2, 2, 2, 3, 3, 3, 3, 4, 4, 4, 4,
                 5, 5, 5, 5, 0>>[i + 1]
DistExtra(d) == <<0, 0, 0, 0, 1, 1, 2, 2, 3, 3, 4, 4, 5, 5, 6, 6, 7, 7, 8, 8, 9, 9, 10, 10,
                  11, 11, 12, 12, 13, 13>>[d + 1]
Fits(x, bits) == x < 2^bits

\* out += out[-distance:stop]: a Python slice never leaves the list.
PySlice(s, from, to) ==
  LET a == IF from < 0 THEN Max({Len(s) + from, 0}) ELSE Min({from, Len(s)})
      b == IF to < 0 THEN Max({Len(s) + to, 0}) ELSE Min({to, Len(s)})
  IN  SubSeq(s, a + 1, b)

\* The copy: whole periods while the length exceeds the distance, then the
\* rest of a period.
Periods(s, k, distance) ==
  FoldLeft(LAMBDA t, i : t \o PySlice(t, -distance, Len(t)), s, [i \in 1..k |-> i])
CopyMut(s, length, distance) ==
  LET k == (length - 1) \div distance
      w == Periods(s, k, distance)
  IN  w \o PySlice(w, -(length - k * distance), Len(w))
Copy(s, length, distance) ==
  LET k == (length - 1) \div distance
      rest == length - k * distance
      w == Periods(s, k, distance)
  IN  w \o PySlice(w, -distance, IF rest = distance THEN Len(w) ELSE rest - distance)

-----------------------------------------------------------------------------
\* The recording wrappers.  readbits is wrapped, and finding a symbol calls it
\* for the bits of the code: every code is a raw read of its own, noted before
\* its symbol is, and extra bits are noted after.
CodeBits == 3               \* whatever the bits of a code are
Read(rs, after, v) == Append(rs, [at |-> after, v |-> v])
CodeRead == Read(reads, Len(symbols), CodeBits)
ExtraRead(v) == Read(CodeRead, Len(symbols) + 1, v)
Decoded(key, sym) == Append(symbols, [key |-> key, sym |-> sym])

\* The gzip header: an extra field that is not empty takes dropbits to the
\* reader's missing _read, the other optional fields are skipped.
GzipHead(extra) ==
  /\ gat = "head"
  /\ gat' = IF extra THEN "raised" ELSE "block"
  /\ UNCHANGED <<out, symbols, reads, keys, final, pending, start, usable, usableDist,
                 golden, stored, far>>

NewBlock(last) ==
  /\ gat = "block" /\ ~final
  /\ Cardinality({i \in DOMAIN symbols : symbols[i].sym = EOB}) < MaxGzipBlocks
  /\ final' = last

\* A stored block is copied; it is refused if its two lengths share a bit.
StoredBlock(last, bytes, nlen) ==
  /\ NewBlock(last) /\ ~stored
  /\ IF nlen THEN gat' = "raised" /\ out' = out
     ELSE /\ gat' = IF last THEN "end" ELSE "block"
          /\ out' = out \o bytes
  /\ stored' = TRUE
  /\ UNCHANGED <<symbols, reads, keys, pending, start, usable, usableDist,
                 golden, far>>

\* A static block: two tables of fixed lengths.
StaticBlock(last) ==
  /\ NewBlock(last)
  /\ gat' = "body" /\ keys' = keys + 2 /\ start' = Len(symbols) /\ golden' = <<>>
  /\ usable' = Bytes2 \cup {EOB} \cup LengthSymbols /\ usableDist' = DistanceSymbols
  /\ UNCHANGED <<out, symbols, reads, pending, stored, far>>

IllegalBlock ==
  /\ NewBlock(TRUE) /\ gat' = "raised"
  /\ UNCHANGED <<out, symbols, reads, keys, pending, start, usable, usableDist,
                 golden, stored, far>>

\* The code lengths of a dynamic block, both tables' in one list: a length, a
\* repeat of the last one, or a run of zeros.  The last run may exceed the
\* total and leaves the distance table longer; a repeat of nothing raises.
LengthsAfter(ls, op) ==
  CASE op.r <= 15 -> Append(ls, op.r)
    [] op.r = 16 -> ls \o [i \in 1..(3 + op.extra) |-> Last(ls)]
    [] op.r = 17 -> ls \o [i \in 1..(3 + op.extra) |-> 0]
    [] op.r = 18 -> ls \o [i \in 1..(11 + op.extra) |-> 0]

\* A dynamic block of total lengths, read as the given code-length symbols;
\* each is decoded with the table keys + 1.
CodeLengthReads(ops) ==
  FlattenSeq([i \in DOMAIN ops |->
    <<[at |-> Len(symbols) + i - 1, v |-> CodeBits]>> \o
    (IF ops[i].r <= 15 THEN <<>> ELSE <<[at |-> Len(symbols) + i, v |-> ops[i].extra]>>)])

DynamicBlock(last, lit, dist, ops) ==
  LET ls == FoldLeft(LengthsAfter, <<>>, ops)
  IN  /\ NewBlock(last)
      /\ Len(ls) >= lit + dist                      \* and no symbol too many
      /\ Len(FoldLeft(LengthsAfter, <<>>, Front(ops))) < lit + dist
      /\ symbols' = symbols \o [i \in DOMAIN ops |-> [key |-> keys + 1, sym |-> ops[i].r]]
      /\ reads' = reads \o CodeLengthReads(ops)
      /\ gat' = "body" /\ keys' = keys + 3 /\ start' = Len(symbols') /\ golden' = <<>>
      /\ usable' = {s \in 0..(lit - 1) : ls[s + 1] # 0}
      /\ usableDist' = {d \in 0..(Len(ls) - lit - 1) : ls[lit + d + 1] # 0}
      /\ UNCHANGED <<out, pending, stored, far>>

RepeatsNothing ==
  /\ NewBlock(FALSE) /\ gat' = "raised"
  /\ symbols' = Decoded(keys + 1, 16) /\ keys' = keys + 1 /\ reads' = ExtraRead(0)
  /\ UNCHANGED <<out, pending, start, usable, usableDist, golden, stored, far>>

-----------------------------------------------------------------------------
\* The body.  keys - 1 is the literal table, keys the distances'.
Room == Len(symbols) - start < MaxGzipSymbols

Literal(b) ==
  /\ gat = "body" /\ Room /\ b \in usable
  /\ symbols' = Decoded(keys - 1, b) /\ reads' = CodeRead /\ out' = Append(out, b)
  /\ golden' = Append(golden, <<"lit", b>>)
  /\ UNCHANGED <<gat, keys, final, pending, start, usable, usableDist, stored, far>>

\* A length symbol; 286 and 287 are refused.
LengthSymbol(r, extra) ==
  /\ gat = "body" /\ Room /\ r \in usable
  /\ symbols' = Decoded(keys - 1, r)
  /\ IF r > 285 THEN gat' = "raised" /\ reads' = CodeRead /\ UNCHANGED pending
     ELSE /\ Fits(extra, ExtraLengthBits(r))
          /\ gat' = "distance" /\ pending' = LengthBase(r) + extra
          /\ reads' = ExtraRead(extra)
  /\ UNCHANGED <<out, keys, final, start, usable, usableDist, golden, stored, far>>

\* The emulation model reads as many extra bits as its own tables say: with
\* another number it is lost.
GoldenCopy(d, extra) ==
  LET r == Last(symbols).sym
  IN  IF LenExtra(r - 257) = ExtraLengthBits(r) /\ DistExtra(d) = ExtraDistanceBits(d)
      THEN <<"copy", LengthBase(r) + Last(reads).v, DistanceBase(d) + extra>>
      ELSE <<"lost">>

\* Its distance, and the copy.
Distance(d, extra) ==
  /\ gat = "distance" /\ d \in usableDist
  /\ symbols' = Decoded(keys, d) /\ pending' = 0
  /\ IF d > 29 THEN gat' = "raised" /\ reads' = CodeRead /\ UNCHANGED <<out, golden, far>>
     ELSE LET distance == DistanceBase(d) + extra
          IN  /\ Fits(extra, ExtraDistanceBits(d))
              /\ gat' = "body" /\ out' = Copy(out, pending, distance)
              /\ reads' = ExtraRead(extra)
              /\ golden' = Append(golden, GoldenCopy(d, extra))
              /\ far' = (far \/ distance > Len(out))
  /\ UNCHANGED <<keys, final, start, usable, usableDist, stored>>

-----------------------------------------------------------------------------
\* calibrate.py: the literal tables are those that decoded an end of block; the
\* events are rebuilt from the symbols and from the first raw read after each.
LitKeys == {symbols[i].key : i \in {j \in DOMAIN symbols : symbols[j].sym = EOB}}
FirstRead(i) ==
  LET at == {j \in DOMAIN reads : reads[j].at = i} IN IF at = {} THEN 0 ELSE reads[Min(at)].v

EventAt(i) ==
  LET s == symbols[i].sym
  IN  IF symbols[i].key \notin LitKeys THEN <<>>
      ELSE IF s < EOB THEN <<<<"lit", s>>>>
      ELSE IF s = EOB THEN <<<<"eob">>>>
      ELSE <<<<"copy", LengthBase(s) + FirstRead(i),
               DistanceBase(symbols[i + 1].sym) + FirstRead(i + 1)>>>>
EventsFrom(a) == FlattenSeq([i \in 1..(Len(symbols) - a) |-> EventAt(a + i)])
Events == EventsFrom(0)

\* The replay: one byte at a time.
Replayed ==
  LET bytewise(s, n, d) ==
        LET byte[k \in 1..(Len(s) + n)] == IF k <= Len(s) THEN s[k] ELSE byte[k - d]
        IN  [k \in 1..(Len(s) + n) |-> byte[k]]
      step(s, e) == IF e[1] = "lit" THEN Append(s, e[2])
                    ELSE IF e[1] = "copy" THEN bytewise(s, e[2], e[3]) ELSE s
  IN  FoldLeft(step, <<>>, Events)

\* The end of a block: the emulation model's events are compared with the
\* trace's for the same table.
EndBlock ==
  /\ gat = "body" /\ EOB \in usable
  /\ symbols' = Decoded(keys - 1, EOB) /\ reads' = CodeRead
  /\ gat' = IF final THEN "end" ELSE "block"
  /\ golden' = Append(golden, <<"eob">>)
  /\ UNCHANGED <<out, keys, final, pending, start, usable, usableDist, stored, far>>

GzipNext ==
  \/ \E extra \in BOOLEAN : GzipHead(extra)
  \/ \E last, nlen \in BOOLEAN, b \in Bytes2 : StoredBlock(last, <<b, b>>, nlen)
  \/ \E last \in BOOLEAN : StaticBlock(last)
  \/ \E last \in BOOLEAN, ops \in Headers : DynamicBlock(last, 257, 1, ops)
  \/ RepeatsNothing
  \/ IllegalBlock
  \/ \E b \in Bytes2 : Literal(b)
  \/ \E r \in LengthSymbols, x \in Extras : LengthSymbol(r, x)
  \/ \E d \in DistanceSymbols, x \in Extras : Distance(d, x)
  \/ EndBlock

-----------------------------------------------------------------------------
BetweenBlocks == gat \in {"block", "end"}

\* The output is the bytewise replay of the events rebuilt from the trace,
\* whatever mixture of blocks came before, when no stored block and no
\* distance beyond the output is in the stream; and block for block the emulation
\* model produces the events of the trace: it agrees on every length, distance and
\* extra bit.
ReplayIsOutput ==
  BetweenBlocks =>
    /\ ~stored /\ ~far => Replayed = out
    /\ golden # <<>> => EventsFrom(start) = golden
=============================================================================
