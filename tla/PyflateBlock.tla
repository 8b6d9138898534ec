---------------------------- MODULE PyflateBlock ----------------------------
(* One bzip2 block in every tier at once: the symbol loop of the stock       *)
(* decoder, of the development tiers and of the landed benchmark, the Rust   *)
(* kernel's, and the hardware's emulation model, on the same bits; and       *)
(* separately the stages behind the loop, on every short source string.      *)
EXTENDS PyflateHuffman, MtfGolden

CONSTANTS
  FirstLengths,             \* code lengths of group 0
  SecondLengths,            \* code lengths of group 1
  SelectorLists,
  MaxSymbols,               \* bound on the symbols of a block
  Sources,                  \* strings a block's tail is checked on
  Values                    \* byte values, 0 .. k; also the run counts

ASSUME TailAssumption == Values = 0..(Cardinality(Values) - 1)

VARIABLES
  stage,                    \* "symbols", "tail" or "end"
  lengths, selectors,       \* the parsed header of the block
  tables,                   \* the tables of its groups
  window,                   \* the next bits of the stream
  tiers,                    \* the loop's state in each tier
  trace,                    \* stock's symbols: symbol, length, group
  source,                   \* the string a tail block was made from
  output                    \* what each decoder makes of the tail

vars == <<stage, lengths, selectors, tables, window, tiers, trace, source, output>>

\* Bits a matcher may look at: one more than the longest code accepted.
WindowBits == MaxCodeLen + 2
Bits(k) == [1..k -> {0, 1}]

Alphabet == Len(lengths[1])
Eob == Alphabet - 1
Favourites == 0..(Alphabet - 3)

-----------------------------------------------------------------------------
\* The tables of every kind, one per group, built before the loop.
BuiltTables == [k \in Kinds |-> [g \in DOMAIN lengths |-> Build(k, lengths[g])]]
TableOf(tier, group) == tables[KindOf(tier)][group + 1]

\* The loops that keep the move-to-front list reversed.
Reversed == {"t1", "t2"} \cup Flat

\* The loop's locals: sel is selector_pointer, count is decoded, group the
\* table in use; list is the move-to-front list in the tier's own order.
LoopStart(tier) ==
  [status |-> "run", sel |-> 0, count |-> 0, group |-> 0, repeat |-> 0, power |-> 0,
   list |-> LET up == GoldenList(Favourites)
            IN  IF tier \in Reversed THEN Reverse(up) ELSE up,
   out |-> <<>>, used |-> 0]

\* A group whose table cannot be built ends the block before the loop; the
\* stock matcher accepts every list of lengths.
Configured(tier) ==
  IF \E g \in DOMAIN lengths : TableOf(tier, g - 1) = NoTable
  THEN [LoopStart(tier) EXCEPT !.status = "raised"]
  ELSE LoopStart(tier)

\* decoded -= 1; a new group when it reaches zero.  Python indexes behind the
\* list and raises, the kernel stays in its last group.
Switch(tier, t) ==
  LET down == t.count - 1
      more == t.sel < Len(selectors)
  IN  IF down > 0 THEN [t EXCEPT !.count = down]
      ELSE IF more
      THEN [t EXCEPT !.count = GroupSize, !.sel = @ + 1, !.group = selectors[t.sel + 1]]
      ELSE IF tier = "native" THEN [t EXCEPT !.count = GroupSize]
      ELSE [t EXCEPT !.status = "raised"]

\* RUNA and RUNB: bijective base two.
AddRun(t, r) ==
  LET power == IF t.repeat = 0 THEN 1 ELSE t.power
  IN  [t EXCEPT !.repeat = @ + power * 2^r, !.power = 2 * power]

\* The list's front, and the move of rank r - 1 to it: two slices in the stock
\* decoder, pop and append on the reversed list, copy_within in the kernel.
HeadOf(tier, list) == IF tier \in Reversed THEN Last(list) ELSE Head(list)
Chosen(tier, list, r) == IF tier \in Reversed THEN PyIndex(list, -r) ELSE PyIndex(list, r - 1)
Moved(tier, list, r) ==
  IF tier \in Reversed THEN Append(RemoveAt(list, Len(list) - r + 1), Chosen(tier, list, r))
  ELSE <<Chosen(tier, list, r)>> \o RemoveAt(list, r)

Flushed(tier, t) ==
  IF t.repeat = 0 THEN t
  ELSE [t EXCEPT !.out = @ \o [i \in 1..t.repeat |-> HeadOf(tier, t.list)], !.repeat = 0]

Apply(tier, t, m) ==
  LET u == [t EXCEPT !.used = @ + m.len]
      f == Flushed(tier, u)
  IN  IF m = NoMatch THEN [t EXCEPT !.status = "raised"]
      ELSE IF m.sym <= 1 THEN AddRun(u, m.sym)
      ELSE IF m.sym = Eob THEN [f EXCEPT !.status = "done"]
      ELSE [f EXCEPT !.list = Moved(tier, @, m.sym), !.out = Append(@, Chosen(tier, f.list, m.sym))]

\* One pass of the loop.
Pass(tier, t) ==
  IF t.status # "run" THEN t
  ELSE LET s == Switch(tier, t)
       IN  IF s.status # "run" THEN s
           ELSE Apply(tier, s, Match(tier, TableOf(tier, s.group), window))

\* The eight loops on the bits at hand.
StockPass == Pass("stock", tiers["stock"])
T1Pass == Pass("t1", tiers["t1"])
T2Pass == Pass("t2", tiers["t2"])
T3Pass == Pass("t3", tiers["t3"])
LandedPass == Pass("landed", tiers["landed"])
CheckPass == Pass("check", tiers["check"])
NativePass == Pass("native", tiers["native"])
GoldenPass == Pass("golden", tiers["golden"])

-----------------------------------------------------------------------------
(* What follows the symbols of a block: the inverse Burrows-Wheeler          *)
(* transform and the run-length step, as the stock decoder and as the landed *)
(* benchmark compute them, with the encoder they undo.                       *)

Raised == <<-1>>            \* an IndexError
At(s, i) == s[i + 1]        \* Python's index
Slice(s, i, j) == SubSeq(s, i + 1, j)
Copies(v, k) == [i \in 1..k |-> v]

\* Where each value's bucket starts: F.find() in the sorted string, or the
\* sums of the histogram.  F.find is -1 for a value that does not occur.
StockBase(L) ==
  LET F == SortSeq(L, <)
  IN  [v \in Values |-> IF v \in ToSet(F) THEN Min({i \in DOMAIN F : F[i] = v}) - 1 ELSE -1]
LandedBase(L) ==
  [v \in Values |-> Cardinality({i \in DOMAIN L : L[i] < v})]

\* pointers[base[symbol]] = i, base[symbol] += 1, for every position in turn.
Pointers(L, base) ==
  LET place(t, i) == [base |-> [t.base EXCEPT ![L[i]] = @ + 1],
                      at |-> [t.at EXCEPT ![t.base[L[i]] + 1] = i - 1]]
  IN  FoldLeft(place, [base |-> base, at |-> Copies(-1, Len(L))], [i \in DOMAIN L |-> i]).at

\* The chase, n steps from the block's pointer.
Chase(L, T, pointer) ==
  LET step(t, i) == [end |-> At(T, t.end), out |-> Append(t.out, At(L, At(T, t.end)))]
  IN  FoldLeft(step, [end |-> pointer, out |-> <<>>], L).out

BwtReverse(L, pointer, base) ==
  IF L = <<>> THEN <<>>
  ELSE IF pointer \notin 0..(Len(L) - 1) THEN Raised
  ELSE Chase(L, Pointers(L, base), pointer)
StockBwt(L, pointer) == BwtReverse(L, pointer, StockBase(L))
LandedBwt(L, pointer) == BwtReverse(L, pointer, LandedBase(L))

FourAt(nt, i) == \A j \in 1..3 : At(nt, i + j) = At(nt, i)

\* The stock loop: four equal bytes with a byte behind them are a run.
StockRle4(nt) ==
  LET n == Len(nt)
      from[i \in 0..n] ==
        IF i >= n THEN <<>>
        ELSE IF i < n - 4 /\ FourAt(nt, i)
        THEN Copies(At(nt, i), At(nt, i + 4) + 4) \o from[i + 5]
        ELSE <<At(nt, i)>> \o from[i + 1]
  IN  from[0]

\* The landed one: RUN4 finds the next run, the bytes before it are a slice.
Run4FromMut(nt, i) == {s \in i..(Len(nt) - 5) : FourAt(nt, s) /\ At(nt, s + 4) # At(nt, s)}
Run4From(nt, i) == {s \in i..(Len(nt) - 5) : FourAt(nt, s)}
LandedRle4(nt) ==
  LET from[i \in 0..Len(nt)] ==
        LET runs == Run4From(nt, i)
            s == Min(runs)
        IN  IF runs = {} THEN Slice(nt, i, Len(nt))
            ELSE Slice(nt, i, s) \o Copies(At(nt, s), At(nt, s + 4) + 4) \o from[s + 5]
  IN  from[0]

\* The encoder the decoder undoes: runs of four and more get a count byte, and
\* the block is the last column of its sorted rotations.
RunLength(s, i) ==
  Max({k \in 1..(Len(s) - i) : \A j \in 0..(k - 1) : At(s, i + j) = At(s, i)})
Rle1(s) ==
  LET longest == Max(Values) + 4
      from[i \in 0..Len(s)] ==
        LET k == Min({RunLength(s, i), longest})
        IN  IF i = Len(s) THEN <<>>
            ELSE IF k < 4 THEN Copies(At(s, i), k) \o from[i + k]
            ELSE Copies(At(s, i), 4) \o <<k - 4>> \o from[i + k]
  IN  from[0]

Rotation(s, i) == Slice(s, i, Len(s)) \o Slice(s, 0, i)
Before(a, b) == \E k \in DOMAIN a : a[k] < b[k] /\ \A j \in 1..(k - 1) : a[j] = b[j]
Rotations(s) ==
  SortSeq([k \in DOMAIN s |-> k - 1], LAMBDA i, j :
    \/ Before(Rotation(s, i), Rotation(s, j))
    \/ Rotation(s, i) = Rotation(s, j) /\ i < j)
LastColumn(s) ==
  LET order == Rotations(s) IN [k \in DOMAIN s |-> Last(Rotation(s, order[k]))]
Origin(s) == CHOOSE k \in 0..(Len(s) - 1) : At(Rotations(s), k) = 0

-----------------------------------------------------------------------------
Init ==
  \/ /\ stage = "symbols"
     /\ \E a \in FirstLengths, b \in SecondLengths : lengths = <<a, b>>
     /\ tables = BuiltTables
     /\ selectors \in SelectorLists
     /\ window \in Bits(WindowBits)
     /\ tiers = [k \in Tiers |-> Configured(k)]
     /\ trace = <<>> /\ source = <<>> /\ output = <<>>
  \/ /\ stage = "tail"
     /\ source \in Sources
     /\ lengths = <<>> /\ selectors = <<>> /\ tables = <<>> /\ window = <<>> /\ tiers = <<>>
     /\ trace = <<>> /\ output = <<>>

\* Every tier decodes the next symbol; the stream moves on by the bits the
\* stock decoder consumed.
DecodeSymbol ==
  /\ stage = "symbols" /\ tiers["stock"].status = "run" /\ Len(trace) < MaxSymbols
  /\ tiers' = [stock |-> StockPass, t1 |-> T1Pass, t2 |-> T2Pass, t3 |-> T3Pass,
               landed |-> LandedPass, check |-> CheckPass,
               native |-> NativePass, golden |-> GoldenPass]
  /\ LET t == tiers'["stock"]
         took == t.used - tiers["stock"].used
     IN  /\ trace' = IF t.status = "raised" THEN trace
                     ELSE Append(trace, [sym |-> StockMatch(TableOf("stock", t.group), window).sym,
                                         len |-> took, grp |-> t.group])
         /\ \E b \in Bits(took) : window' = SubSeq(window, took + 1, WindowBits) \o b
  /\ UNCHANGED <<stage, lengths, selectors, tables, source, output>>

\* bwt_reverse and rle4_expand on the block of one source string.
DecodeTail ==
  /\ stage = "tail"
  /\ stage' = "end"
  /\ LET s == Rle1(source)
         L == LastColumn(s)
         p == IF s = <<>> THEN 0 ELSE Origin(s)
     IN  output' = [stock |-> StockRle4(StockBwt(L, p)), landed |-> LandedRle4(LandedBwt(L, p)),
                    stockRaw |-> StockRle4(source), landedRaw |-> LandedRle4(source)]
  /\ UNCHANGED <<lengths, selectors, tables, window, tiers, trace, source>>

Next == DecodeSymbol \/ DecodeTail

Spec == Init /\ [][Next]_vars

-----------------------------------------------------------------------------
AllUsed == \A g \in DOMAIN lengths : Used(lengths[g]) # {}
AllPeekable == \A g \in DOMAIN lengths :
  \E s \in Used(lengths[g]) : Length(lengths[g], s) <= PrimaryWidth
AllPrefixable == \A g \in DOMAIN lengths : Prefixable(lengths[g])
AllShort == \A g \in DOMAIN lengths : \A s \in Symbols(lengths[g]) :
              Length(lengths[g], s) \in 0..MaxCodeLen

Seen(tier) == LET t == tiers[tier] IN <<t.status, t.out, t.used, t.group, t.repeat>>

\* The optimised Python loops are the stock loop: the same bytes, the same
\* bits consumed and the same exceptions, over-subscribed and incomplete codes
\* included.  T2 needs a code in each group, T3, the landed loop and the one of
\* rs_check.py need one that the primary table holds.
LoopsAgree ==
  /\ Seen("t1") = Seen("stock")
  /\ AllUsed => /\ Seen("t2") = Seen("stock")
                /\ tiers["t2"].list = Reverse(tiers["stock"].list)
  /\ AllPeekable => \A k \in Flat : Seen(k) = Seen("stock")

\* The optimised loops agree.  The kernel either refuses the block before it decodes or does what the
\* landed Python loop does; it outlives the Python loop only on an exhausted selector
\* list, where it stays in the last group.  The emulation model of the hardware
\* refuses exactly the over-subscribed and too long codes, and otherwise decodes
\* what the stock decoder decodes; the bytes are those of the functional model
\* the mtf_cam is checked against.
BackendsAgree ==
  stage = "symbols" =>
    /\ LoopsAgree
    /\ IF AllUsed /\ AllShort /\ AllPrefixable
       THEN \/ Seen("native") = Seen("landed")
            \/ tiers["landed"].status = "raised" /\ tiers["landed"].sel = Len(selectors)
       ELSE tiers["native"] = [LoopStart("native") EXCEPT !.status = "raised"]
    /\ IF ~AllShort \/ ~AllPrefixable THEN tiers["golden"].status = "raised"
       ELSE /\ Seen("golden") = Seen("stock")
            /\ tiers["stock"].out =
                 Expand([i \in DOMAIN trace |-> trace[i].sym], Favourites, Eob)

\* The stages behind the loop undo the encoder, and the landed versions give
\* what the stock ones give, also on strings no encoder wrote.
TailInverts ==
  stage = "end" =>
    /\ output.stock = source /\ output.landed = source
    /\ output.landedRaw = output.stockRaw
=============================================================================
