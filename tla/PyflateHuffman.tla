--------------------------- MODULE PyflateHuffman ---------------------------
(* The five builders of a canonical Huffman table and their matchers: the    *)
(* linear scan of the stock decoder, limit/base/perm of T2, the flat table   *)
(* of T3 and of the landed benchmark, the Rust kernel's, and the emulation   *)
(* model of the hardware.  lengths gives symbol s the length lengths[s + 1]; *)
(* a matcher looks at a window of bits and returns the symbol and the bits   *)
(* it consumes, or NoMatch when it raises.                                   *)
EXTENDS Integers, SequencesExt, FiniteSetsExt

CONSTANTS
  MaxCodeLen,               \* MAX_CODE_LEN, MAXLEN: 20 for bzip2
  PrimaryWidth,             \* PRIMARY_BITS: 11
  GroupSize                 \* symbols per selector: 50

ASSUME HuffmanAssumption == MaxCodeLen \in Nat \ {0} /\ PrimaryWidth \in Nat \ {0} /\ GroupSize \in Nat \ {0}

NoMatch == [sym |-> -1, len |-> 0]
NoTable == [kind |-> "raised"]

\* The first k bits of a window as a number, MSB first.
Code(window, k) == FoldLeft(LAMBDA v, b : 2 * v + b, 0, SubSeq(window, 1, k))

Symbols(lengths) == 0..(Len(lengths) - 1)
Length(lengths, s) == lengths[s + 1]
Used(lengths) == {s \in Symbols(lengths) : Length(lengths, s) # 0}
CountOf(lengths, l) == Cardinality({s \in Used(lengths) : Length(lengths, s) = l})

\* Symbols by (length, symbol): the sorted HuffmanLength list, perm, symtab.
InOrder(lengths, syms) ==
  SortSeq(SelectSeq([i \in DOMAIN lengths |-> i - 1], LAMBDA s : s \in syms),
          LAMBDA s, t : \/ Length(lengths, s) < Length(lengths, t)
                        \/ Length(lengths, s) = Length(lengths, t) /\ s < t)

-----------------------------------------------------------------------------
\* OrderedHuffmanTable: the bootstrap list ends at the first length -1, and a
\* length 0 makes no entry.
StockUsed(lengths) ==
  {s \in Used(lengths) : \A t \in 0..s : Length(lengths, t) # -1}

\* populate_huffman_symbols: one more than the code before, shifted at each
\* new length.
StockTable(lengths) ==
  LET order == InOrder(lengths, StockUsed(lengths))
      step(t, s) == LET l == Length(lengths, s)
                    IN  [bits |-> l,
                         code |-> IF l = t.bits THEN t.code + 1 ELSE (t.code + 1) * 2^(l - t.bits),
                         entries |-> t.entries]
      add(t, s) == LET u == step(t, s)
                   IN  [u EXCEPT !.entries = Append(@, [sym |-> s, len |-> u.bits, code |-> u.code])]
  IN  [kind |-> "linear",
       entries |-> FoldLeft(add, [bits |-> -1, code |-> -1, entries |-> <<>>], order).entries]

\* find_next_symbol: the first entry whose code the next bits spell.
StockMatch(table, window) ==
  LET e == table.entries
      hits == {i \in DOMAIN e : Code(window, e[i].len) = e[i].code}
  IN  IF hits = {} THEN NoMatch ELSE LET i == Min(hits) IN [sym |-> e[i].sym, len |-> e[i].len]

-----------------------------------------------------------------------------
\* build_canonical: limit, base and perm; min() of an empty list raises.
LimitBase(lengths, lo, hi) ==
  LET step(t, l) == LET vec == 2 * t.vec + CountOf(lengths, l)
                        n == CountOf(lengths, l)
                    IN  [vec |-> vec, cum |-> t.cum + n,
                         limit |-> [t.limit EXCEPT ![l] = vec - 1],
                         base |-> [t.base EXCEPT ![l] = (vec - n) - t.cum],
                         full |-> t.full \/ vec > 2^l]
      none == [l \in 0..(hi + 1) |-> 0]
  IN  FoldLeft(step, [vec |-> 0, cum |-> 0, limit |-> none, base |-> none, full |-> FALSE],
               [i \in 1..(hi - lo + 1) |-> lo + i - 1])

CanonicalTable(lengths) ==
  IF Used(lengths) = {} THEN NoTable
  ELSE LET lens == {Length(lengths, s) : s \in Used(lengths)}
           t == LimitBase(lengths, Min(lens), Max(lens))
       IN  [kind |-> "canonical", min |-> Min(lens), max |-> Max(lens), full |-> t.full,
            limit |-> t.limit, base |-> t.base, perm |-> InOrder(lengths, Used(lengths))]

\* A Python list indexed from outside: negative indices count from its end.
PyIndex(list, i) ==
  IF i \in 0..(Len(list) - 1) THEN list[i + 1]
  ELSE IF i \in (-Len(list))..-1 THEN list[Len(list) + i + 1] ELSE -1

\* Extend the code bit by bit while it is above limit; the index of limit runs
\* to max + 1, behind it the list raises.
Extend(table, from, window) ==
  LET stops == {l \in from..(table.max + 1) : Code(window, l) <= table.limit[l]}
  IN  IF stops = {} THEN NoMatch
      ELSE LET l == Min(stops)
               s == PyIndex(table.perm, Code(window, l) - table.base[l])
           IN  IF s = -1 THEN NoMatch ELSE [sym |-> s, len |-> l]
CanonicalMatch(table, window) == Extend(table, table.min, window)

-----------------------------------------------------------------------------
\* build_huffman_table: spans of the flat table in canonical order, the slots
\* that are left over are 0.
Spans(lengths, perm, pb) ==
  FlattenSeq([i \in 1..Len(perm) |->
    LET l == Length(lengths, perm[i])
    IN  IF l > pb THEN <<>> ELSE [j \in 1..2^(pb - l) |-> [sym |-> perm[i], len |-> l]]])

FlatTable(lengths) ==
  LET c == CanonicalTable(lengths)
      pb == IF c.max < PrimaryWidth THEN c.max ELSE PrimaryWidth
      t == Spans(lengths, c.perm, pb)
      short == IF Len(t) >= 2^pb THEN <<>> ELSE [i \in 1..(2^pb - Len(t)) |-> NoMatch]
  IN  IF c = NoTable THEN NoTable
      ELSE [kind |-> "flat", pb |-> pb, tbl |-> t \o short, max |-> c.max,
            limit |-> c.limit, base |-> c.base, perm |-> c.perm]

FlatMatch(table, window) ==
  LET v == table.tbl[Code(window, table.pb) + 1]
  IN  IF v # NoMatch THEN v ELSE Extend(table, table.pb, window)

-----------------------------------------------------------------------------
\* Group::build: the lengths arrive as bytes, and the build refuses a code
\* that is too long or over-subscribed.
NativeTableMut(lengths) ==
  LET c == CanonicalTable(lengths)
  IN  IF \/ \E s \in Symbols(lengths) : Length(lengths, s) < 0
         \/ c = NoTable \/ c.max > MaxCodeLen
      THEN NoTable
      ELSE FlatTable(lengths)
NativeTable(lengths) ==
  LET c == CanonicalTable(lengths)
  IN  IF \/ \E s \in Symbols(lengths) : Length(lengths, s) < 0
         \/ c = NoTable \/ c.max > MaxCodeLen \/ c.full
      THEN NoTable
      ELSE FlatTable(lengths)

\* Group::decode: no index outside max_len or perm.
NativeMatch(table, window) ==
  LET v == table.tbl[Code(window, table.pb) + 1]
      stops == {l \in table.pb..table.max : Code(window, l) <= table.limit[l]}
      at == Code(window, Min(stops)) - table.base[Min(stops)]
  IN  IF v # NoMatch THEN v
      ELSE IF stops = {} \/ at \notin 0..(Len(table.perm) - 1) THEN NoMatch
      ELSE [sym |-> table.perm[at + 1], len |-> Min(stops)]

-----------------------------------------------------------------------------
\* The hardware's emulation model: an empty or incomplete code is legal, an
\* over-subscribed one is ERR_TABLE.
GoldenTable(lengths) ==
  LET long == \E s \in Symbols(lengths) : Length(lengths, s) \notin 0..MaxCodeLen
      kraft == MapThenSumSet(LAMBDA s : 2^(MaxCodeLen - Length(lengths, s)), Used(lengths))
      step(t, l) == [code |-> 2 * (t.code + CountOf(lengths, l)), idx |-> t.idx + CountOf(lengths, l),
                     first |-> Append(t.first, t.code), base |-> Append(t.base, t.idx)]
      t == FoldLeft(step, [code |-> 0, idx |-> 0, first |-> <<>>, base |-> <<>>],
                    [l \in 1..MaxCodeLen |-> l])
  IN  IF long \/ kraft > 2^MaxCodeLen THEN NoTable
      ELSE [kind |-> "cascade", first |-> t.first, base |-> t.base,
            count |-> [l \in 1..MaxCodeLen |-> CountOf(lengths, l)],
            symtab |-> InOrder(lengths, Used(lengths))]

\* The comparator cascade: the shortest length whose range holds the code.
GoldenMatch(table, window) ==
  LET hits == {l \in 1..MaxCodeLen :
                 Code(window, l) \in table.first[l]..(table.first[l] + table.count[l] - 1)}
  IN  IF hits = {} THEN NoMatch
      ELSE LET l == Min(hits)
           IN  [sym |-> table.symtab[table.base[l] + Code(window, l) - table.first[l] + 1],
                len |-> l]

-----------------------------------------------------------------------------
\* Who decodes: the stock program, T1 to T3, the landed benchmark, the loop
\* rs_check.py compares the kernel with, the kernel and the emulation model.
\* T1 keeps the stock table; the landed one and rs_check's are T3's.
Linear == {"stock", "t1"}
Flat == {"t3", "landed", "check"}
Tiers == Linear \cup {"t2"} \cup Flat \cup {"native", "golden"}

\* The table a tier decodes with.
Kinds == {"linear", "canonical", "flat", "native", "cascade"}
KindOf(tier) ==
  CASE tier \in Linear -> "linear"
    [] tier = "t2" -> "canonical"
    [] tier \in Flat -> "flat"
    [] tier = "native" -> "native"
    [] tier = "golden" -> "cascade"

Build(kind, lengths) ==
  CASE kind = "linear" -> StockTable(lengths)
    [] kind = "canonical" -> CanonicalTable(lengths)
    [] kind = "flat" -> FlatTable(lengths)
    [] kind = "native" -> NativeTable(lengths)
    [] kind = "cascade" -> GoldenTable(lengths)

Match(tier, table, window) ==
  CASE tier \in Linear -> StockMatch(table, window)
    [] tier = "t2" -> CanonicalMatch(table, window)
    [] tier \in Flat -> FlatMatch(table, window)
    [] tier = "native" -> NativeMatch(table, window)
    [] tier = "golden" -> GoldenMatch(table, window)

\* The Kraft sum of a code is at most one.
Prefixable(lengths) ==
  MapThenSumSet(LAMBDA s : 2^(MaxCodeLen - Length(lengths, s)), Used(lengths)) <= 2^MaxCodeLen
=============================================================================
