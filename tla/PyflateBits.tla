---------------------------- MODULE PyflateBits -----------------------------
(* The MSB-first bit readers of the decoder and of its development tiers.    *)
(* A bit is the number of its place in the stream, from 1, and Zero a bit    *)
(* that is not in it: two readers agree when they hand out the same places.  *)
(* A reader is [pos, buf, ok]: the next byte to load, the bits buffered in   *)
(* order, and whether it has not raised.  n is the length of the stream.     *)
EXTENDS Integers, Sequences

Zero == 0
TailPadMut == 0
TailPad == 8                \* _PAD, PAD and TAIL_PAD: zero bytes behind the data
WordBits == 32              \* one refill: four bytes
MaskTop == 64               \* the last index of the MASK table
PrimaryBits == 11
MagicBits == 16             \* read before the decoder of the format starts

Smaller(a, b) == IF a < b THEN a ELSE b
Larger(a, b) == IF a > b THEN a ELSE b
CeilDiv(a, b) == (a + b - 1) \div b

\* The bits between two offsets, zeros behind the end of the stream.
BitsFrom(n, from, to) ==
  [i \in 1..Larger(0, to - from) |-> IF from + i <= 8 * n THEN from + i ELSE Zero]
DataBits(n, a, b) == BitsFrom(n, 8 * a, 8 * b)          \* bytes a .. b - 1
Zeros(k) == [i \in 1..k |-> Zero]

Fresh == [pos |-> 0, buf |-> <<>>, ok |-> TRUE]
Raise(r) == [r EXCEPT !.ok = FALSE]
Load(r, n, k) == [r EXCEPT !.pos = @ + k, !.buf = @ \o DataBits(n, r.pos, r.pos + k)]
Offset(r) == 8 * r.pos - Len(r.buf)
\* tellbits() of a reader that has counted the given number of bytes.
TellBits(r, counted) ==
  8 * (counted - ((Len(r.buf) + 7) \div 8)) + 7 - ((Len(r.buf) - 1) % 8)
Missing(r, c) == Larger(0, c - Len(r.buf))
Dropped(r, c) == [r EXCEPT !.buf = SubSeq(@, c + 1, Len(@))]

-----------------------------------------------------------------------------
\* Stock: needbits loads one byte at a time and raises at the end of the file.
StockFill(r, n, c) ==
  LET k == CeilDiv(Missing(r, c), 8)
  IN  IF r.pos + k > n THEN Raise(r) ELSE Load(r, n, k)

\* T1: four bytes at a time, fewer at the end of the m bytes it holds.
TierFill(r, n, m, c) ==
  LET k == Smaller(4 * CeilDiv(Missing(r, c), WordBits), m - r.pos)
  IN  IF 8 * k < Missing(r, c) THEN Raise(r) ELSE Load(r, n, k)

\* One word of the padded buffer; a chunk that is short counts as 32 bits too,
\* with its bytes in the low half.
PaddedWord(n, p) ==
  LET k == Larger(0, Smaller(4, n + TailPad - p))
  IN  Zeros(WordBits - 8 * k) \o DataBits(n, p, p + k)
LoadWord(r, n) == [r EXCEPT !.pos = @ + 4, !.buf = @ \o PaddedWord(n, r.pos)]

\* The landed RBitfield: _fill loads words and raises once a refill would
\* start behind the padding.
LandedFill(r, n, c) ==
  LET w == CeilDiv(Missing(r, c), WordBits)
      last == r.pos + 4 * (w - 1)
  IN  IF w > 0 /\ last >= n + 8 THEN Raise(r)
      ELSE IF w = 0 THEN r
      ELSE IF w = 1 THEN LoadWord(r, n)
      ELSE LoadWord(LoadWord(r, n), n)

\* readbits masks with a table of 65 entries.
LandedRead(r, n, c) ==
  LET f == LandedFill(r, n, c)
  IN  IF ~f.ok \/ Len(f.buf) - c > MaskTop THEN Raise(f) ELSE Dropped(f, c)

-----------------------------------------------------------------------------
\* The loops that decode the symbols of one block hold the reader in locals:
\* keep 32 bits buffered, then consume a code of c bits.
LandedRefill(r, n) == IF Len(r.buf) < WordBits THEN LoadWord(r, n) ELSE r
TierRefill(r, n, m) ==
  IF Len(r.buf) < WordBits THEN Load(r, n, Smaller(4, Larger(0, m - r.pos))) ELSE r

\* The Rust reader over m bytes fails when a refill would pass their end.
NativeRefill(r, n, m) ==
  IF Len(r.buf) >= WordBits THEN r
  ELSE IF Larger(0, m - r.pos) < 4 THEN Raise(r) ELSE Load(r, n, 4)

\* BitReader::new at an absolute bit offset.
NativeNew(n, m, at) ==
  LET r == NativeRefill([Fresh EXCEPT !.pos = at \div 8], n, m)
  IN  IF at \div 8 > m \/ ~r.ok THEN Raise(Fresh) ELSE Dropped(r, at % 8)

\* The window py_decode_symbols primes at an absolute bit offset.
PrimedNew(n, m, at) ==
  Dropped(Load([Fresh EXCEPT !.pos = at \div 8], n, Smaller(4, m - (at \div 8))), at % 8)

\* The sequence that puts a reader at the offset the kernel stopped on: drop
\* the window, jump to the byte, read the bits of it that are consumed.
LandedRestore(n, end) ==
  LET at == [Fresh EXCEPT !.pos = end \div 8]
  IN  IF end % 8 = 0 THEN at ELSE LandedRead(at, n, end % 8)
SeekBits(n, m, end) ==
  LET at == [Fresh EXCEPT !.pos = end \div 8]
      f == TierFill(at, n, m, end % 8)
  IN  IF end % 8 = 0 THEN at ELSE IF f.ok THEN Dropped(f, end % 8) ELSE f

-----------------------------------------------------------------------------
\* The configurations the repository runs: each is a reader for the headers
\* and a reader for the symbols of a block.
Kinds == {"stock", "t1", "t3", "python", "native", "check", "hybrid"}
Held(k, n) == IF k = "t1" THEN n ELSE n + TailPad      \* bytes in a T1 reader
NativeHeld(k, n) == IF k = "native" THEN n + 2 * TailPad ELSE n + TailPad

HeaderFill(k, r, n, c) ==
  CASE k = "stock" -> StockFill(r, n, c)
    [] k \in {"python", "native"} -> LandedFill(r, n, c)
    [] OTHER -> TierFill(r, n, Held(k, n), c)

\* readbits(c): nothing can be taken from a reader that raised.
HeaderRead(k, r, n, c) ==
  IF k \in {"python", "native"} THEN LandedRead(r, n, c)
  ELSE LET f == HeaderFill(k, r, n, c) IN IF f.ok THEN Dropped(f, c) ELSE f

\* What a block's loop starts from.
Enter(k, r, n) ==
  CASE k \in {"native", "hybrid"} -> NativeNew(n, NativeHeld(k, n), Offset(r))
    [] k = "check" -> PrimedNew(n, Held(k, n), Offset(r))
    [] OTHER -> r

\* The loop's reader when a symbol is about to be decoded; the tiers with a
\* primary table peek at PrimaryBits bits whatever the code's length.
BeforeSymbol(k, w, n, c) ==
  CASE k \in {"stock", "t1"} -> HeaderFill(k, w, n, c)
    [] k = "python" -> LandedRefill(w, n)
    [] k \in {"native", "hybrid"} -> NativeRefill(w, n, NativeHeld(k, n))
    [] OTHER -> LET f == TierRefill(w, n, Held(k, n))
                IN  IF Len(f.buf) < PrimaryBits THEN Raise(f) ELSE f

\* The header reader when the block is over.
Leave(k, w, n) ==
  CASE k = "native" -> LandedRestore(n, Offset(w))
    [] k \in {"check", "hybrid"} -> SeekBits(n, Held(k, n), Offset(w))
    [] OTHER -> w

\* remainder(): the byte the gzip decoder starts from.
Remainder(r) == r.pos - Len(r.buf) \div 8

-----------------------------------------------------------------------------
(* Every configuration of the decoder reads the same stream in lockstep:     *)
(* header fields, blocks of codes, headers again.  The stock reader is the   *)
(* reference, and a run is over when it raises at the end of the file.       *)

CONSTANTS
  MaxBytes,                 \* longest stream
  Fields,                   \* widths of header fields
  Codes                     \* lengths of codes

ASSUME ReadersAssumption ==
  MaxBytes \in Nat /\ Fields \subseteq 1..48 /\ Codes \subseteq 1..20

VARIABLES
  n,                        \* bytes in the stream
  readers,                  \* each configuration's reader: of the headers or,
  inBlock,                  \* while inBlock, of the symbols of a block
  count                     \* the stock reader's own count of the bytes it loaded

readerVars == <<n, readers, inBlock, count>>

\* What tell() starts from: the other readers hold the whole file and count by
\* their position in it.
Counted(k) == IF k = "stock" THEN count ELSE readers[k].pos
Counts == count' = count + readers'["stock"].pos - readers["stock"].pos

\* The magic has been read.  The stock decoder goes on with a copy of its reader,
\* whose constructor sets the count to x.bitfield, 0 when no bit is buffered, in
\* place of x.count.
ReadersInit ==
  /\ n \in 1..MaxBytes
  /\ readers = [k \in Kinds |-> HeaderRead(k, Fresh, n, MagicBits)]
  /\ inBlock = FALSE
  /\ count = 0

\* readbits(c) of a header field.
ReadField(c) ==
  /\ ~inBlock /\ readers["stock"].ok
  /\ readers' = [k \in Kinds |-> HeaderRead(k, readers[k], n, c)]
  /\ Counts
  /\ UNCHANGED <<n, inBlock>>

\* align(): the bits left of the current byte.
Align ==
  /\ ~inBlock /\ readers["stock"].ok
  /\ readers' = [k \in Kinds |-> Dropped(readers[k], Len(readers[k].buf) % 8)]
  /\ UNCHANGED <<n, inBlock, count>>

EnterBlock ==
  /\ ~inBlock /\ readers["stock"].ok
  /\ inBlock' = TRUE
  /\ readers' = [k \in Kinds |-> Enter(k, readers[k], n)]
  /\ UNCHANGED <<n, count>>

\* One code of c bits.
Symbol(c) ==
  /\ inBlock /\ readers["stock"].ok
  /\ readers' = [k \in Kinds |->
       LET r == BeforeSymbol(k, readers[k], n, c) IN IF r.ok THEN Dropped(r, c) ELSE r]
  /\ Counts
  /\ UNCHANGED <<n, inBlock>>

LeaveBlock ==
  /\ inBlock /\ readers["stock"].ok
  /\ inBlock' = FALSE
  /\ readers' = [k \in Kinds |-> Leave(k, readers[k], n)]
  /\ UNCHANGED <<n, count>>

ReadersNext ==
  \/ \E c \in Fields : ReadField(c)
  \/ \E c \in Codes : Symbol(c)
  \/ Align \/ EnterBlock \/ LeaveBlock

-----------------------------------------------------------------------------
\* As long as the stock reader has not raised, no other configuration has.  Each
\* holds exactly the bits of the stream behind its position: no refill or
\* hand-over skips, repeats or shifts a bit, and no zero of the padding stands
\* where the stream has data.  The position survives every hand-over between the
\* header reader and a block's reader: all stand on the same bit, which is also
\* where the gzip decoder would take over.  tellbits() of every other reader is
\* that bit; the stock reader's is the magic's sixteen bits short of it, from the
\* magic to the end of the stream, which is why pyflate_ref.py:8-10 counts for itself.
SameBits ==
  readers["stock"].ok =>
    \A k \in Kinds :
      LET r == readers[k]
      IN  /\ r.ok
          /\ r.buf = BitsFrom(n, Offset(r), 8 * r.pos)
          /\ Offset(r) = Offset(readers["stock"])
          /\ TellBits(r, Counted(k)) = Offset(r) - (IF k = "stock" THEN MagicBits ELSE 0)
          /\ Offset(r) % 8 = 0 => 8 * Remainder(r) = Offset(r)
=============================================================================
