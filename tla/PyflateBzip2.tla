---------------------------- MODULE PyflateBzip2 ----------------------------
(* The header of a bzip2 stream and of its blocks, read field by field by    *)
(* every parser of the repository at once: they read the same fields and     *)
(* differ in what they check and in when they build the tables.  Only what a *)
(* later field depends on is kept; the symbols are PyflateBlock's.           *)
EXTENDS Integers, SequencesExt, FiniteSetsExt

CONSTANTS
  GroupCounts,              \* values of the 3-bit group count
  SelectorCounts,           \* values of the 15-bit selector count
  UsedCounts,               \* how many bytes the used map may set
  StartLengths,             \* values of a group's 5-bit first length
  MaxDeltas,                \* bound on the deltas of one symbol
  MaxVaried,                \* groups whose symbols have deltas at all
  MaxBlocks                 \* bound on the blocks of a stream

\* Fields of a header are unsigned.
ASSUME FieldsAssumption ==
  /\ GroupCounts \subseteq Nat /\ SelectorCounts \subseteq Nat
  /\ UsedCounts \subseteq Nat /\ StartLengths \subseteq Nat

VARIABLES
  at,                       \* the field read next
  verdict,                  \* each parser: "run" or "raised"
  groups, used, toRead,     \* groups, bytes used, selectors to read
  mtf, rank, selectors,     \* the selectors' move-to-front list, c, the list so far
  ranks,                    \* history: the unary codes read
  length, deltas,           \* the running code length; deltas of this symbol
  lengths,                  \* the code lengths, per group
  blocks                    \* headers completed

headVars == <<groups, used, toRead, mtf, rank, selectors, ranks, length, deltas, lengths>>
bzip2Vars == <<at, verdict, headVars, blocks>>

\* The parsers: whether one checks the magic, the level, the randomised bit and
\* the group count or takes them as they come, and what becomes of the code
\* lengths: the stock classes, which raise at nothing here; tables built inside
\* the header loop or after it, which raise for a group without codes; or the
\* native kernel.
Stock == [checks |-> TRUE, builds |-> "classes"]
T1 == [checks |-> TRUE, builds |-> "classes"]
T2 == [checks |-> TRUE, builds |-> "inside"]
T3 == [checks |-> TRUE, builds |-> "inside"]
Landed == [checks |-> TRUE, builds |-> "after"]
LandedNative == [checks |-> TRUE, builds |-> "kernel"]
ParseBlocks == [checks |-> TRUE, builds |-> "after"]
HybridDecompress == [checks |-> FALSE, builds |-> "kernel"]
ParseHeaderOnly == [checks |-> FALSE, builds |-> "after"]

Parser == [stock |-> Stock, t1 |-> T1, t2 |-> T2, t3 |-> T3, python |-> Landed,
           native |-> LandedNative, walk |-> ParseBlocks, hybrid |-> HybridDecompress,
           header |-> ParseHeaderOnly]
Parsers == DOMAIN Parser
Checking == {p \in Parsers : Parser[p].checks}
Builds(how) == {p \in Parsers : Parser[p].builds = how}

Alphabet2 == used + 2
Group == Len(lengths)

\* raise: the parsers in k stop.
Raised2(k) == [p \in Parsers |-> IF p \in k THEN "raised" ELSE verdict[p]]
Refuse(bad, k) == verdict' = IF bad THEN Raised2(k) ELSE verdict
Alive == \E p \in Parsers : verdict[p] = "run"

Bzip2Init ==
  /\ at = "method" /\ verdict = [p \in Parsers |-> "run"]
  /\ groups = 0 /\ used = 0 /\ toRead = 0 /\ mtf = <<>> /\ rank = 0
  /\ selectors = <<>> /\ ranks = <<>> /\ length = 0 /\ deltas = 0
  /\ lengths = <<>> /\ blocks = 0

-----------------------------------------------------------------------------
\* bzip2_main: the method and the level are checked, and dropped.
Method(good) ==
  /\ at = "method" /\ at' = "blocktype"
  /\ Refuse(~good, Checking)
  /\ UNCHANGED <<headVars, blocks>>

\* A block, the end of the stream, or neither.
BlockType(t) ==
  /\ at = "blocktype" /\ Alive
  /\ (t = "block" => blocks < MaxBlocks)
  /\ at' = IF t = "block" THEN "block" ELSE "end"
  /\ Refuse(t = "other", Parsers)
  /\ UNCHANGED <<headVars, blocks>>

\* The randomised bit, the pointer, the used map and the group count.
BlockHead(randomised, u, g) ==
  /\ at = "block" /\ at' = "selectors"
  /\ used' = u /\ groups' = g
  /\ Refuse(randomised \/ g \notin 2..6, Checking)
  /\ mtf' = [i \in 1..g |-> i - 1]
  /\ rank' = 0 /\ selectors' = <<>> /\ ranks' = <<>> /\ lengths' = <<>>
  /\ toRead' \in SelectorCounts
  /\ UNCHANGED <<length, deltas, blocks>>

\* compute_selectors_list: one bit of a unary code.  A code as long as there
\* are groups raises.
ToFrontMut(list, c) == [list EXCEPT ![1] = list[c + 1], ![c + 1] = list[1]]
ToFront(list, c) == <<list[c + 1]>> \o RemoveAt(list, c + 1)

SelectorBit(one) ==
  /\ at = "selectors" /\ Alive /\ Len(selectors) < toRead
  /\ IF one
     THEN /\ rank' = rank + 1
          /\ Refuse(rank + 1 >= groups, Parsers)
          /\ UNCHANGED <<mtf, selectors, ranks>>
     ELSE /\ rank' = 0
          /\ mtf' = IF groups = 0 THEN mtf ELSE ToFront(mtf, rank)
          /\ Refuse(groups = 0, Parsers)      \* mtf[0] of an empty list
          /\ selectors' = IF groups = 0 THEN selectors ELSE Append(selectors, mtf[rank + 1])
          /\ ranks' = Append(ranks, rank)
  /\ UNCHANGED <<at, groups, used, toRead, length, deltas, lengths, blocks>>

\* read_code_lengths, compute_tables: the first length of the next group.
StartGroup(l) ==
  /\ at = "selectors" /\ Alive /\ Len(selectors) = toRead
  /\ Group < groups
  /\ at' = "length" /\ length' = l /\ deltas' = 0
  /\ lengths' = Append(lengths, <<>>)
  /\ UNCHANGED <<verdict, groups, used, toRead, mtf, rank, selectors, ranks, blocks>>

\* The range check is made before a symbol's deltas, not after them.
InRange(l) == l \in 0..20

\* min() of no lengths raises where a table is built.
NoCode(ls) == \A i \in DOMAIN ls : ls[i] = 0

\* One symbol's code length: deltas of one, then the end of the symbol.
Delta(d) ==
  /\ at = "length" /\ Alive /\ deltas < MaxDeltas /\ Group <= MaxVaried
  /\ (deltas = 0 => InRange(length))
  /\ length' = length + d /\ deltas' = deltas + 1
  /\ UNCHANGED <<at, verdict, groups, used, toRead, mtf, rank, selectors, ranks, lengths, blocks>>

EndSymbol ==
  LET ls == Append(lengths[Group], length)
      last == Len(ls) = Alphabet2
  IN  /\ at = "length" /\ Alive
      /\ (deltas = 0 => InRange(length))
      /\ lengths' = [lengths EXCEPT ![Group] = ls]
      /\ deltas' = 0
      /\ at' = IF last THEN "selectors" ELSE "length"
      /\ Refuse(last /\ NoCode(ls), Builds("inside"))
      /\ UNCHANGED <<groups, used, toRead, mtf, rank, selectors, ranks, length, blocks>>

\* The check itself, when a symbol begins.
BadLength ==
  /\ at = "length" /\ Alive /\ deltas = 0 /\ ~InRange(length)
  /\ Refuse(TRUE, Parsers)
  /\ UNCHANGED <<at, headVars, blocks>>

-----------------------------------------------------------------------------
\* What a back end accepts when it is handed the header.  Python builds the
\* tables; the hand-over to the kernel makes bytes of the lengths and of the
\* selectors, and BlockDecoder checks what it is given.
SomeLength(P(_)) == \E g \in DOMAIN lengths : \E i \in DOMAIN lengths[g] : P(lengths[g][i])
Negative == SomeLength(LAMBDA l : l < 0)
TooLong == SomeLength(LAMBDA l : l > 20)
EmptyGroup == \E g \in DOMAIN lengths : NoCode(lengths[g])
NoSuchGroup == \E i \in DOMAIN selectors : selectors[i] >= groups

KernelRefusesMut ==
  Alphabet2 \notin 3..258 \/ groups \notin 2..6 \/ Negative \/ EmptyGroup \/ NoSuchGroup
KernelRefuses ==
  Alphabet2 \notin 3..258 \/ groups \notin 2..6 \/ Negative \/ TooLong \/ EmptyGroup \/ NoSuchGroup

\* The header is complete: the back ends take it, and the stream goes on at
\* the next block.  What the Python tables make of a negative length is left
\* open: some raise, some decode nonsense.
HandOver ==
  /\ at = "selectors" /\ Alive /\ Len(selectors) = toRead /\ Group = groups
  /\ at' = "blocktype" /\ blocks' = blocks + 1
  /\ \E odd \in (IF Negative THEN {{}, Parsers \ Builds("kernel")} ELSE {{}}) :
       verdict' = Raised2(odd \cup (IF EmptyGroup THEN Builds("after") ELSE {})
                              \cup (IF KernelRefuses THEN Builds("kernel") ELSE {}))
  /\ UNCHANGED headVars

Bzip2Next ==
  \/ \E good \in BOOLEAN : Method(good)
  \/ \E t \in {"block", "end", "other"} : BlockType(t)
  \/ \E r \in BOOLEAN, u \in UsedCounts, g \in GroupCounts : BlockHead(r, u, g)
  \/ \E one \in BOOLEAN : SelectorBit(one)
  \/ \E l \in StartLengths : StartGroup(l)
  \/ \E d \in {-1, 1} : Delta(d)
  \/ EndSymbol \/ BadLength \/ HandOver

-----------------------------------------------------------------------------
\* The selectors are decoded as an encoder that ranks the groups by how lately
\* they were used would have coded them: the unary code of a selector is the
\* number of groups used since its last use, groups never used counting in
\* numeric order.  Hence each one names a table that exists.
LastUse(i, g) ==
  LET uses == {j \in 1..(i - 1) : selectors[j] = g}
  IN  IF uses = {} THEN -g ELSE CHOOSE j \in uses : \A k \in uses : k <= j
SelectorsByRecency ==
  \A i \in DOMAIN selectors :
    /\ selectors[i] \in 0..(groups - 1)
    /\ Cardinality({g \in 0..(groups - 1) \ {selectors[i]} :
                      LastUse(i, g) >= LastUse(i, selectors[i])}) = ranks[i]

\* A header the native back end takes is one that every checked parser takes
\* too, with two to six groups and all lengths in the range of the format: the
\* late range check of the header parser lets no bad table into the kernel.
NativeAcceptsLess ==
  at = "blocktype" /\ verdict["native"] = "run" =>
    /\ \A p \in Checking : verdict[p] = "run"
    /\ blocks > 0 => groups \in 2..6 /\ ~Negative /\ ~TooLong /\ ~EmptyGroup
=============================================================================
