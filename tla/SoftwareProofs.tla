--------------------------- MODULE SoftwareProofs ---------------------------
(* The software side, one part after the other.  The stream decoder: the     *)
(* header of a bzip2 stream for every number of groups, selectors and        *)
(* symbols and every choice of code lengths, the order of its selectors, and *)
(* the bit readers for streams of every length.  The repository's own tools, *)
(* for any number of runs, benchmarks, processes and stages: what a complete *)
(* measurement run contains, and what a synchronisation of the hardware flow *)
(* leaves behind.                                                            *)
EXTENDS MCPyflateStream, MCRepoTools, FiniteSetTheorems, SequenceTheorems, WellFoundedInduction, TLAPS

HeadTypes ==
  /\ verdict \in [Parsers -> {"run", "raised"}]
  /\ groups \in Nat /\ used \in Nat /\ toRead \in Nat
  /\ lengths \in Seq(Seq(Int)) /\ length \in Int /\ deltas \in Nat
  /\ at \in {"method", "blocktype", "block", "selectors", "length", "end"}
  /\ at = "length" => Len(lengths) > 0
  /\ at = "method" => blocks = 0

\* A group whose lengths are all read has no codes.
EmptyTable ==
  \E g \in DOMAIN lengths : (at = "length" => g # Group) /\ NoCode(lengths[g])

\* A checked parser that stopped while the native back end goes on stopped at
\* such a group, which the kernel sees when it is handed the header.
KernelBehind ==
  verdict["native"] = "run" =>
    \A p \in Checking :
      verdict[p] = "run" \/ (at \in {"selectors", "length"} /\ EmptyTable)

\* What the kernel took last was sound.
TakenIsSound ==
  at = "blocktype" /\ verdict["native"] = "run" /\ blocks > 0 =>
    groups \in 2..6 /\ ~Negative /\ ~TooLong /\ ~EmptyGroup

NativeInv == HeadTypes /\ KernelBehind /\ TakenIsSound

LEMMA ParserSets ==
  /\ Parsers = {"stock", "t1", "t2", "t3", "python", "native", "walk", "hybrid", "header"}
  /\ Checking = Parsers \ {"hybrid", "header"}
  /\ Builds("inside") = {"t2", "t3"}
  /\ Builds("after") = {"python", "walk", "header"}
  /\ Builds("kernel") = {"native", "hybrid"}
<1>1. Parsers = {"stock", "t1", "t2", "t3", "python", "native", "walk", "hybrid", "header"}
  BY DEF Parsers, Parser
<1>2. /\ Parser["stock"] = Stock /\ Parser["t1"] = T1 /\ Parser["t2"] = T2
      /\ Parser["t3"] = T3 /\ Parser["python"] = Landed /\ Parser["native"] = LandedNative
      /\ Parser["walk"] = ParseBlocks /\ Parser["hybrid"] = HybridDecompress
      /\ Parser["header"] = ParseHeaderOnly
  BY DEF Parser
<1>3. \A p \in Parsers : Parser[p].checks <=> p \notin {"hybrid", "header"}
  BY <1>1, <1>2
     DEF Stock, T1, T2, T3, Landed, LandedNative, ParseBlocks, HybridDecompress, ParseHeaderOnly
<1>4. \A p \in Parsers :
        /\ Parser[p].builds = "inside" <=> p \in {"t2", "t3"}
        /\ Parser[p].builds = "after" <=> p \in {"python", "walk", "header"}
        /\ Parser[p].builds = "kernel" <=> p \in {"native", "hybrid"}
  BY <1>1, <1>2
     DEF Stock, T1, T2, T3, Landed, LandedNative, ParseBlocks, HybridDecompress, ParseHeaderOnly
<1> QED
  BY <1>1, <1>3, <1>4 DEF Checking, Builds

\* Whom a refusal stops.
LEMMA RefuseStops ==
  ASSUME verdict \in [Parsers -> {"run", "raised"}], NEW bad \in BOOLEAN, NEW k,
         Refuse(bad, k)
  PROVE  /\ verdict' \in [Parsers -> {"run", "raised"}]
         /\ \A p \in Parsers :
              verdict'[p] = "run" <=> verdict[p] = "run" /\ (bad => p \notin k)
BY DEF Refuse, Raised2

LEMMA NativeInvInit == Bzip2Init => NativeInv
BY ParserSets DEF Bzip2Init, NativeInv, HeadTypes, KernelBehind, TakenIsSound

LEMMA NativeInvNext == NativeInv /\ [Bzip2Next]_bzip2Vars => NativeInv'
<1> SUFFICES ASSUME NativeInv, [Bzip2Next]_bzip2Vars PROVE NativeInv'
  OBVIOUS
<1> USE DEF NativeInv
<1>p. "native" \in Checking /\ Checking \subseteq Parsers
  BY ParserSets
<1>1. ASSUME NEW good \in BOOLEAN, Method(good) PROVE NativeInv'
  <2>1. /\ verdict' \in [Parsers -> {"run", "raised"}]
        /\ \A p \in Parsers : verdict'[p] = "run" <=> verdict[p] = "run" /\ (~good => p \notin Checking)
    BY <1>1, RefuseStops DEF Method, HeadTypes
  <2>2. HeadTypes'
    BY <1>1, <2>1 DEF Method, HeadTypes, headVars
  <2>3. KernelBehind'
    BY <1>1, <2>1, <1>p DEF Method, KernelBehind
  <2>4. TakenIsSound'
    BY <1>1 DEF Method, TakenIsSound, HeadTypes
  <2> QED
    BY <2>2, <2>3, <2>4
<1>2. ASSUME NEW t \in {"block", "end", "other"}, BlockType(t) PROVE NativeInv'
  <2>1. /\ verdict' \in [Parsers -> {"run", "raised"}]
        /\ \A p \in Parsers : verdict'[p] = "run" <=> verdict[p] = "run" /\ (t = "other" => p \notin Parsers)
    BY <1>2, RefuseStops DEF BlockType, HeadTypes
  <2>2. HeadTypes'
    BY <1>2, <2>1 DEF BlockType, HeadTypes, headVars
  <2>3. KernelBehind'
    BY <1>2, <2>1, <1>p DEF BlockType, KernelBehind
  <2>4. TakenIsSound'
    BY <1>2 DEF BlockType, TakenIsSound
  <2> QED
    BY <2>2, <2>3, <2>4
<1>3. ASSUME NEW r \in BOOLEAN, NEW u \in UsedCounts, NEW g \in GroupCounts, BlockHead(r, u, g)
      PROVE  NativeInv'
  <2>1. /\ verdict' \in [Parsers -> {"run", "raised"}]
        /\ \A p \in Parsers : verdict'[p] = "run" <=>
             verdict[p] = "run" /\ ((r \/ g \notin 2..6) => p \notin Checking)
    BY <1>3, RefuseStops DEF BlockHead, HeadTypes
  <2>2. HeadTypes'
    BY <1>3, <2>1, FieldsAssumption DEF BlockHead, HeadTypes
  <2>3. KernelBehind'
    BY <1>3, <2>1, <1>p DEF BlockHead, KernelBehind
  <2>4. TakenIsSound'
    BY <1>3 DEF BlockHead, TakenIsSound
  <2> QED
    BY <2>2, <2>3, <2>4
<1>4. ASSUME NEW one \in BOOLEAN, SelectorBit(one) PROVE NativeInv'
  <2>1. /\ verdict' \in [Parsers -> {"run", "raised"}]
        /\ \A p \in Parsers : verdict'[p] = "run" => verdict[p] = "run"
        /\ \A p \in Parsers : verdict'["native"] = "run" /\ verdict[p] = "run" => verdict'[p] = "run"
    <3>1. CASE one
      <4> DEFINE bad == rank + 1 >= groups
      <4>1. Refuse(bad, Parsers)
        BY <1>4, <3>1 DEF SelectorBit
      <4>2. bad \in BOOLEAN
        OBVIOUS
      <4> HIDE DEF bad
      <4>3. /\ verdict' \in [Parsers -> {"run", "raised"}]
            /\ \A p \in Parsers : verdict'[p] = "run" <=>
                 verdict[p] = "run" /\ (bad => p \notin Parsers)
        BY <4>1, <4>2, RefuseStops DEF HeadTypes
      <4> QED
        BY <4>3, <1>p
    <3>2. CASE ~one
      <4> DEFINE bad == groups = 0
      <4>1. Refuse(bad, Parsers)
        BY <1>4, <3>2 DEF SelectorBit
      <4>2. bad \in BOOLEAN
        OBVIOUS
      <4> HIDE DEF bad
      <4>3. /\ verdict' \in [Parsers -> {"run", "raised"}]
            /\ \A p \in Parsers : verdict'[p] = "run" <=>
                 verdict[p] = "run" /\ (bad => p \notin Parsers)
        BY <4>1, <4>2, RefuseStops DEF HeadTypes
      <4> QED
        BY <4>3, <1>p
    <3> QED
      BY <3>1, <3>2
  <2>2. UNCHANGED <<at, groups, used, toRead, length, deltas, lengths, blocks>>
    BY <1>4 DEF SelectorBit
  <2>3. HeadTypes'
    BY <2>2, <2>1 DEF HeadTypes
  <2>4. KernelBehind'
    BY <2>2, <2>1, <1>p DEF KernelBehind, EmptyTable, Group, NoCode
  <2>5. TakenIsSound'
    BY <1>4 DEF SelectorBit, TakenIsSound
  <2> QED
    BY <2>3, <2>4, <2>5
<1>5. ASSUME NEW l \in StartLengths, StartGroup(l) PROVE NativeInv'
  <2>1. /\ at = "selectors" /\ at' = "length" /\ length' = l /\ deltas' = 0
        /\ lengths' = Append(lengths, <<>>)
        /\ UNCHANGED <<verdict, groups, used, toRead, blocks>>
    BY <1>5 DEF StartGroup
  <2>2. /\ lengths' \in Seq(Seq(Int)) /\ Len(lengths') = Len(lengths) + 1
        /\ \A g \in DOMAIN lengths : g \in DOMAIN lengths' /\ lengths'[g] = lengths[g]
                                    /\ g # Len(lengths')
    <3>1. <<>> \in Seq(Int)
      OBVIOUS
    <3> QED
      BY <2>1, <3>1 DEF HeadTypes
  <2>3. HeadTypes'
    BY <2>1, <2>2, FieldsAssumption DEF HeadTypes
  <2>4. EmptyTable => EmptyTable'
    BY <2>1, <2>2 DEF EmptyTable, Group, NoCode
  <2>5. KernelBehind'
    BY <2>1, <2>4 DEF KernelBehind
  <2>6. TakenIsSound'
    BY <2>1 DEF TakenIsSound
  <2> QED
    BY <2>3, <2>5, <2>6
<1>6. ASSUME NEW d \in {-1, 1}, Delta(d) PROVE NativeInv'
  <2>1. /\ at = "length" /\ length' = length + d /\ deltas' = deltas + 1
        /\ UNCHANGED <<at, verdict, groups, used, toRead, lengths, blocks>>
    BY <1>6 DEF Delta
  <2>2. HeadTypes'
    BY <2>1 DEF HeadTypes
  <2>3. KernelBehind'
    BY <2>1 DEF KernelBehind, EmptyTable, Group, NoCode
  <2>4. TakenIsSound'
    BY <2>1 DEF TakenIsSound
  <2> QED
    BY <2>2, <2>3, <2>4
<1>7. ASSUME EndSymbol PROVE NativeInv'
  <2> DEFINE ls == Append(lengths[Group], length)
             last == Len(ls) = Alphabet2
  <2>1. /\ at = "length" /\ lengths' = [lengths EXCEPT ![Group] = ls] /\ deltas' = 0
        /\ at' = (IF last THEN "selectors" ELSE "length")
        /\ Refuse(last /\ NoCode(ls), Builds("inside"))
        /\ UNCHANGED <<groups, used, toRead, length, blocks>>
    BY <1>7 DEF EndSymbol
  <2>2. /\ Group \in DOMAIN lengths /\ ls \in Seq(Int)
        /\ lengths' \in Seq(Seq(Int)) /\ Len(lengths') = Len(lengths)
        /\ DOMAIN lengths' = DOMAIN lengths /\ lengths'[Group] = ls
        /\ \A g \in DOMAIN lengths \ {Group} : lengths'[g] = lengths[g]
    BY <2>1 DEF HeadTypes, Group
  <2> HIDE DEF ls
  <2>3. /\ verdict' \in [Parsers -> {"run", "raised"}]
        /\ \A p \in Parsers : verdict'[p] = "run" <=>
             verdict[p] = "run" /\ ((last /\ NoCode(ls)) => p \notin Builds("inside"))
    <3> DEFINE bad == last /\ NoCode(ls)
    <3>1. bad \in BOOLEAN /\ Refuse(bad, Builds("inside"))
      BY <2>1
    <3> HIDE DEF bad
    <3>2. /\ verdict' \in [Parsers -> {"run", "raised"}]
          /\ \A p \in Parsers : verdict'[p] = "run" <=>
               verdict[p] = "run" /\ (bad => p \notin Builds("inside"))
      BY <3>1, RefuseStops DEF HeadTypes
    <3> QED
      BY <3>2 DEF bad
  <2>4. HeadTypes'
    BY <2>1, <2>2, <2>3 DEF HeadTypes
  <2>5. EmptyTable => EmptyTable'
    BY <2>1, <2>2 DEF EmptyTable, Group, NoCode
  <2>6. last /\ NoCode(ls) => EmptyTable'
    BY <2>1, <2>2 DEF EmptyTable, Group, NoCode
  <2>7. KernelBehind'
    <3>1. at' \in {"selectors", "length"}
      BY <2>1
    <3> QED
      BY <2>1, <2>3, <2>5, <2>6, <3>1, <1>p DEF KernelBehind
  <2>8. TakenIsSound'
    BY <2>1 DEF TakenIsSound
  <2> QED
    BY <2>4, <2>7, <2>8
<1>8. ASSUME BadLength PROVE NativeInv'
  <2>1. at = "length" /\ Refuse(TRUE, Parsers) /\ UNCHANGED <<at, headVars, blocks>>
    BY <1>8 DEF BadLength
  <2>2. verdict' \in [Parsers -> {"run", "raised"}] /\ \A p \in Parsers : verdict'[p] # "run"
    BY <2>1 DEF Refuse, Raised2, HeadTypes
  <2>3. HeadTypes'
    BY <2>1, <2>2 DEF HeadTypes, headVars
  <2>4. KernelBehind' /\ TakenIsSound'
    BY <2>1, <2>2, <1>p DEF KernelBehind, TakenIsSound
  <2> QED
    BY <2>3, <2>4
<1>9. ASSUME HandOver PROVE NativeInv'
  <2>1. /\ at = "selectors" /\ at' = "blocktype" /\ blocks' = blocks + 1
        /\ UNCHANGED headVars
    BY <1>9 DEF HandOver
  <2>2. PICK odd \in (IF Negative THEN {{}, Parsers \ Builds("kernel")} ELSE {{}}) :
          verdict' = Raised2(odd \cup (IF EmptyGroup THEN Builds("after") ELSE {})
                                 \cup (IF KernelRefuses THEN Builds("kernel") ELSE {}))
    BY <1>9 DEF HandOver
  <2>3. verdict' \in [Parsers -> {"run", "raised"}]
    BY <2>2 DEF Raised2, HeadTypes
  <2>4. ASSUME verdict'["native"] = "run" PROVE ~KernelRefuses /\ verdict["native"] = "run"
    BY <2>2, <2>4, ParserSets DEF Raised2
  <2>5. ~KernelRefuses => groups \in 2..6 /\ ~Negative /\ ~TooLong /\ ~EmptyGroup
    BY DEF KernelRefuses
  <2>6. ASSUME verdict'["native"] = "run", NEW p \in Checking PROVE verdict'[p] = "run"
    <3>1. verdict' = Raised2({})
      BY <2>2, <2>4, <2>5, <2>6
    <3>2. ~EmptyTable
      BY <2>4, <2>5, <2>6 DEF EmptyTable, EmptyGroup
    <3> QED
      BY <3>1, <3>2, <2>4, <2>6, <1>p DEF Raised2, KernelBehind
  <2>7. HeadTypes'
    BY <2>1, <2>3 DEF HeadTypes, headVars
  <2>8. KernelBehind'
    BY <2>6 DEF KernelBehind
  <2>9. TakenIsSound'
    <3>1. ASSUME verdict'["native"] = "run"
          PROVE  groups \in 2..6 /\ ~Negative /\ ~TooLong /\ ~EmptyGroup
      BY <2>4, <2>5, <3>1
    <3>2. /\ groups' = groups /\ (Negative <=> Negative') /\ (TooLong <=> TooLong')
          /\ (EmptyGroup <=> EmptyGroup')
      BY <2>1 DEF headVars, Negative, TooLong, EmptyGroup, SomeLength, NoCode
    <3> QED
      BY <3>1, <3>2 DEF TakenIsSound
  <2> QED
    BY <2>7, <2>8, <2>9
<1>10. CASE UNCHANGED bzip2Vars
  <2>1. UNCHANGED <<at, verdict, groups, used, toRead, length, deltas, lengths, blocks>>
    BY <1>10 DEF bzip2Vars, headVars
  <2> QED
    BY <2>1 DEF HeadTypes, KernelBehind, TakenIsSound, EmptyTable, Group, NoCode,
                Negative, TooLong, EmptyGroup, SomeLength
<1> QED
  BY <1>1, <1>2, <1>3, <1>4, <1>5, <1>6, <1>7, <1>8, <1>9, <1>10 DEF Bzip2Next

LEMMA StreamBzip2 ==
  /\ StreamInit => Bzip2Init
  /\ [StreamNext]_streamVars => [Bzip2Next]_bzip2Vars
BY DEF StreamInit, StreamNext, streamVars, bzip2Vars, headVars, Magic

\* The headers of a stream: whatever the native back end takes, every checked
\* parser took too, and it has the groups and the lengths the format allows.
\* The range check that comes too late in the header parser is made good by
\* the kernel's own checks.
THEOREM NativeHeaders == StreamSpec => []NativeAcceptsLess
<1>1. NativeInv => NativeAcceptsLess
  BY DEF NativeInv, KernelBehind, TakenIsSound, NativeAcceptsLess
<1> QED
  BY <1>1, NativeInvInit, NativeInvNext, StreamBzip2, PTL DEF StreamSpec

-----------------------------------------------------------------------------
(* The selectors.                                                            *)

\* The move-to-front list holds every group, the last one used first.
Used(g) == LastUse(Len(selectors) + 1, g)

ByRecency ==
  /\ groups \in Nat /\ mtf \in Seq(0..(groups - 1)) /\ Len(mtf) = groups
  /\ \A g \in 0..(groups - 1) : \E j \in 1..groups : mtf[j] = g
  /\ \A g \in 0..(groups - 1) : Used(g) \in Int /\ Used(g) <= Len(selectors)
  /\ \A i, j \in 1..groups, g, h \in 0..(groups - 1) :
       i < j /\ mtf[i] = g /\ mtf[j] = h => Used(g) > Used(h)

\* A unary code that goes on is shorter than the list.
RankInList ==
  /\ rank \in Nat
  /\ Alive /\ at \in {"selectors", "length"} /\ groups > 0 => rank < groups

SelectorTypes ==
  /\ selectors \in Seq(0..(groups - 1)) /\ ranks \in Seq(Nat)
  /\ groups > 0 => Len(ranks) = Len(selectors)
  /\ verdict \in [Parsers -> {"run", "raised"}]

SelectorInv == ByRecency /\ RankInList /\ SelectorTypes /\ SelectorsByRecency

\* A list m of G groups, all of them, in descending order of f; and what lies
\* before an element of it.
Descending(G, m, f) ==
  /\ G \in Nat /\ m \in [1..G -> 0..(G - 1)] /\ f \in [0..(G - 1) -> Int]
  /\ \A g \in 0..(G - 1) : \E j \in 1..G : m[j] = g
  /\ \A i, j \in 1..G : i < j => f[m[i]] > f[m[j]]
Preceding(G, f, t) == {g \in 0..(G - 1) \ {t} : f[g] >= f[t]}

\* As many elements of such a list lie before its element r + 1 as there are
\* with a larger value.
LEMMA BeforeInOrder ==
  ASSUME NEW G, NEW m, NEW f, Descending(G, m, f), NEW r \in 0..(G - 1)
  PROVE  Cardinality(Preceding(G, f, m[r + 1])) = r
<1> USE DEF Descending
<1> DEFINE S == Preceding(G, f, m[r + 1])
           h == [j \in 1..r |-> m[j]]
<1>r. r + 1 \in 1..G
  OBVIOUS
<1>1. \A i, j \in 1..G : m[i] = m[j] => i = j
  <2> SUFFICES ASSUME NEW i \in 1..G, NEW j \in 1..G, m[i] = m[j], i # j PROVE FALSE
    OBVIOUS
  <2>1. i < j \/ j < i
    OBVIOUS
  <2>2. f[m[i]] \in Int /\ f[m[j]] \in Int
    OBVIOUS
  <2>3. f[m[i]] > f[m[j]] \/ f[m[j]] > f[m[i]]
    BY <2>1
  <2> QED
    BY <2>2, <2>3
<1>2. \A j \in 1..r : m[j] \in S
  <2> SUFFICES ASSUME NEW j \in 1..r PROVE m[j] \in S
    OBVIOUS
  <2>1. j \in 1..G /\ r + 1 \in 1..G /\ j < r + 1
    OBVIOUS
  <2>2. f[m[j]] > f[m[r + 1]] /\ f[m[j]] \in Int /\ f[m[r + 1]] \in Int /\ m[j] # m[r + 1]
    BY <2>1, <1>1
  <2> QED
    BY <2>1, <2>2 DEF Preceding
<1>3. \A g \in S : \E j \in 1..r : m[j] = g
  <2> SUFFICES ASSUME NEW g \in S PROVE \E j \in 1..r : m[j] = g
    OBVIOUS
  <2> USE DEF Preceding
  <2>1. PICK j \in 1..G : m[j] = g
    OBVIOUS
  <2>2. r + 1 \in 1..G /\ j # r + 1
    <3>1. m[j] # m[r + 1]
      BY <2>1, Zenon
    <3>2. j # r + 1
      BY <3>1, Zenon
    <3> QED
      BY <1>r, <3>2
  <2>3. CASE r + 1 < j
    <3>1. f[m[r + 1]] > f[m[j]] /\ f[m[j]] >= f[m[r + 1]]
      BY <2>1, <2>2, <2>3
    <3>2. f[m[j]] \in Int /\ f[m[r + 1]] \in Int
      BY <2>2
    <3> QED
      BY <3>1, <3>2
  <2> QED
    BY <2>1, <2>2, <2>3
<1>4. h \in Bijection(1..r, S)
  <2>1. h \in [1..r -> S]
    BY <1>2
  <2>2. \A i, j \in 1..r : h[i] = h[j] => i = j
    <3>1. \A i \in 1..r : i \in 1..G /\ h[i] = m[i]
      OBVIOUS
    <3> QED
      BY <3>1, <1>1
  <2>3. \A g \in S : \E j \in 1..r : h[j] = g
    BY <1>3
  <2> HIDE DEF h, S
  <2>4. h \in Injection(1..r, S)
    BY <2>1, <2>2 DEF Injection, IsInjective
  <2>5. h \in Surjection(1..r, S)
    BY <2>1, <2>3 DEF Surjection
  <2> QED
    BY <2>4, <2>5 DEF Bijection
<1>5. IsFiniteSet(1..r) /\ Cardinality(1..r) = r
  <2>1. r \in Int /\ 1 \in Int /\ r >= 0 /\ r - 1 + 1 = r /\ (1 > r => r = 0)
    OBVIOUS
  <2>2. IsFiniteSet(1..r) /\ Cardinality(1..r) = IF 1 > r THEN 0 ELSE r - 1 + 1
    BY <2>1, FS_Interval
  <2> QED
    BY <2>1, <2>2
<1> HIDE DEF S
<1>6. Cardinality(S) = Cardinality(1..r)
  BY <1>4, <1>5, FS_Bijection DEF ExistsBijection
<1> QED
  BY <1>5, <1>6 DEF S

\* The list after a selector: its element r + 1 in front.
LEMMA FrontOf ==
  ASSUME NEW S, NEW m \in Seq(S), NEW r \in Nat, r < Len(m)
  PROVE  /\ ToFront(m, r) \in Seq(S) /\ Len(ToFront(m, r)) = Len(m)
         /\ ToFront(m, r)[1] = m[r + 1]
         /\ \A j \in 2..(r + 1) : ToFront(m, r)[j] = m[j - 1]
         /\ \A j \in (r + 2)..Len(m) : ToFront(m, r)[j] = m[j]
<1> DEFINE t == <<m[r + 1]>>
           a == SubSeq(m, 1, r)
           b == SubSeq(m, r + 2, Len(m))
<1>1. a \in Seq(S) /\ Len(a) = r /\ \A j \in 1..r : a[j] = m[j]
  OBVIOUS
<1>2. /\ b \in Seq(S) /\ Len(b) = Len(m) - r - 1
      /\ \A j \in 1..(Len(m) - r - 1) : b[j] = m[r + 1 + j]
  OBVIOUS
<1>3. ToFront(m, r) = t \o (a \o b)
  <2>1. (r + 1) - 1 = r /\ (r + 1) + 1 = r + 2
    OBVIOUS
  <2>2. SubSeq(m, 1, (r + 1) - 1) = a /\ SubSeq(m, (r + 1) + 1, Len(m)) = b
    BY <2>1
  <2> QED
    BY <2>2 DEF ToFront, RemoveAt
<1>4. t \in Seq(S) /\ Len(t) = 1 /\ t[1] = m[r + 1]
  OBVIOUS
<1> DEFINE c == a \o b
           d == t \o c
<1> HIDE DEF a, b, t
<1>5. c \in Seq(S) /\ Len(c) = Len(m) - 1
  <2>1. a \o b \in Seq(S) /\ Len(a \o b) = Len(a) + Len(b)
    BY <1>1, <1>2, ConcatProperties
  <2>2. Len(m) \in Nat
    OBVIOUS
  <2> QED
    BY <2>1, <2>2, <1>1, <1>2
<1>6. \A j \in 1..r : c[j] = m[j]
  BY <1>1, <1>2
<1>7. \A j \in (r + 1)..(Len(m) - 1) : c[j] = m[j + 1]
  <2> SUFFICES ASSUME NEW j \in (r + 1)..(Len(m) - 1) PROVE c[j] = m[j + 1]
    OBVIOUS
  <2>1. c[j] = b[j - r]
    BY <1>1, <1>2
  <2>2. j - r \in 1..(Len(m) - r - 1) /\ r + 1 + (j - r) = j + 1
    OBVIOUS
  <2> QED
    BY <2>1, <2>2, <1>2
<1> HIDE DEF c
<1>m. Len(m) \in Nat
  OBVIOUS
<1>8. d \in Seq(S) /\ Len(d) = Len(m) /\ d[1] = m[r + 1]
  <2>1. /\ t \o c \in Seq(S) /\ Len(t \o c) = Len(t) + Len(c)
        /\ \A j \in 1..(Len(t) + Len(c)) :
             (t \o c)[j] = IF j <= Len(t) THEN t[j] ELSE c[j - Len(t)]
    BY <1>4, <1>5, ConcatProperties
  <2> QED
    BY <2>1, <1>4, <1>5, <1>m
<1>9. \A j \in 2..Len(m) : d[j] = c[j - 1]
  <2>1. \A j \in 1..(Len(t) + Len(c)) :
             (t \o c)[j] = IF j <= Len(t) THEN t[j] ELSE c[j - Len(t)]
    BY <1>4, <1>5, ConcatProperties
  <2>2. ASSUME NEW j \in 2..Len(m) PROVE (t \o c)[j] = c[j - 1]
    <3>1. j \in 1..(Len(t) + Len(c)) /\ ~(j <= Len(t))
      BY <1>4, <1>5, <1>m
    <3>2. (t \o c)[j] = c[j - Len(t)]
      BY <2>1, <3>1
    <3> QED
      BY <3>2, <1>4
  <2> QED
    BY <2>2
<1>10. d = ToFront(m, r)
  BY <1>3 DEF c
<1> HIDE DEF d
<1>11. \A j \in 2..(r + 1) : d[j] = m[j - 1]
  <2> SUFFICES ASSUME NEW j \in 2..(r + 1) PROVE d[j] = m[j - 1]
    OBVIOUS
  <2>1. j \in 2..Len(m) /\ j - 1 \in 1..r
    OBVIOUS
  <2> QED
    BY <2>1, <1>6, <1>9
<1>12. \A j \in (r + 2)..Len(m) : d[j] = m[j]
  <2> SUFFICES ASSUME NEW j \in (r + 2)..Len(m) PROVE d[j] = m[j]
    OBVIOUS
  <2>1. j \in 2..Len(m) /\ j - 1 \in (r + 1)..(Len(m) - 1) /\ (j - 1) + 1 = j
    OBVIOUS
  <2> QED
    BY <2>1, <1>7, <1>9
<1> QED
  BY <1>8, <1>10, <1>11, <1>12

\* What a selector was used for last depends on the selectors before only.
LEMMA UsesKept ==
  ASSUME NEW i \in Nat, NEW g, \A j \in 1..(i - 1) : selectors'[j] = selectors[j]
  PROVE  LastUse(i, g)' = LastUse(i, g)
<1> DEFINE after == {j \in 1..(i - 1) : selectors'[j] = g}
           before == {j \in 1..(i - 1) : selectors[j] = g}
<1>1. LastUse(i, g)' = IF after = {} THEN -g ELSE CHOOSE j \in after : \A l \in after : l <= j
  BY DEF LastUse
<1>2. LastUse(i, g) = IF before = {} THEN -g ELSE CHOOSE j \in before : \A l \in before : l <= j
  BY DEF LastUse
<1>3. after = before
  OBVIOUS
<1> QED
  BY <1>1, <1>2, <1>3

\* The newest selector is the one used last.
LEMMA NewestUse ==
  ASSUME NEW k \in Nat, NEW g,
         \A j \in 1..k : selectors'[j] = selectors[j]
  PROVE  LastUse(k + 2, g)' = IF selectors'[k + 1] = g THEN k + 1 ELSE LastUse(k + 1, g)
<1> DEFINE uses == {j \in 1..(k + 1) : selectors'[j] = g}
           before == {j \in 1..k : selectors[j] = g}
<1>1. LastUse(k + 2, g)' =
        IF uses = {} THEN -g ELSE CHOOSE j \in uses : \A l \in uses : l <= j
  <2>1. (k + 2) - 1 = k + 1
    OBVIOUS
  <2> QED
    BY <2>1 DEF LastUse
<1>2. LastUse(k + 1, g) =
        IF before = {} THEN -g ELSE CHOOSE j \in before : \A l \in before : l <= j
  <2>1. (k + 1) - 1 = k
    OBVIOUS
  <2> QED
    BY <2>1 DEF LastUse
<1>3. CASE selectors'[k + 1] = g
  <2>1. k + 1 \in uses /\ \A l \in uses : l <= k + 1 /\ l \in Int
    BY <1>3
  <2> HIDE DEF uses
  <2>2. ASSUME NEW j \in uses, \A l \in uses : l <= j PROVE j = k + 1
    BY <2>1, <2>2
  <2>3. (CHOOSE j \in uses : \A l \in uses : l <= j) = k + 1
    BY <2>1, <2>2
  <2> QED
    BY <1>1, <1>3, <2>1, <2>3
<1>4. CASE selectors'[k + 1] # g
  <2>1. uses = before
    BY <1>4
  <2> QED
    BY <1>1, <1>2, <1>4, <2>1
<1> QED
  BY <1>3, <1>4

LEMMA SelectorInvInit == Bzip2Init => SelectorInv
<1> SUFFICES ASSUME Bzip2Init PROVE SelectorInv
  OBVIOUS
<1> USE DEF Bzip2Init
<1>1. 0..(groups - 1) = {} /\ 1..groups = {} /\ <<>> \in Seq({}) /\ <<>> \in Seq(Nat)
  OBVIOUS
<1>2. ByRecency
  BY <1>1 DEF ByRecency
<1>3. RankInList
  BY DEF RankInList
<1>4. SelectorTypes
  BY <1>1 DEF SelectorTypes
<1>5. SelectorsByRecency
  BY DEF SelectorsByRecency
<1> QED
  BY <1>2, <1>3, <1>4, <1>5 DEF SelectorInv

\* The groups used since a selector's own last use.
Newer(i) ==
  {g \in 0..(groups - 1) \ {selectors[i]} : LastUse(i, g) >= LastUse(i, selectors[i])}

LEMMA NewerAfter ==
  ASSUME NEW i \in Nat, NEW t, groups' = groups, selectors'[i] = t,
         \A j \in 1..(i - 1) : selectors'[j] = selectors[j]
  PROVE  Newer(i)' = {g \in 0..(groups - 1) \ {t} : LastUse(i, g) >= LastUse(i, t)}
<1>1. \A g : LastUse(i, g)' = LastUse(i, g)
  BY UsesKept
<1>2. LastUse(i, selectors[i])' = LastUse(i, t)
  <2> DEFINE after == {j \in 1..(i - 1) : selectors'[j] = selectors'[i]}
             before == {j \in 1..(i - 1) : selectors[j] = t}
  <2>1. LastUse(i, selectors[i])' =
          IF after = {} THEN -(selectors'[i])
          ELSE CHOOSE j \in after : \A l \in after : l <= j
    BY DEF LastUse
  <2>2. LastUse(i, t) =
          IF before = {} THEN -t ELSE CHOOSE j \in before : \A l \in before : l <= j
    BY DEF LastUse
  <2>3. after = before
    OBVIOUS
  <2> QED
    BY <2>1, <2>2, <2>3
<1> QED
  BY <1>1, <1>2 DEF Newer

LEMMA NewerKept ==
  ASSUME NEW i \in Nat, groups' = groups, selectors'[i] = selectors[i],
         \A j \in 1..(i - 1) : selectors'[j] = selectors[j]
  PROVE  Newer(i)' = Newer(i)
<1>1. Newer(i)' = {g \in 0..(groups - 1) \ {selectors[i]} :
                     LastUse(i, g) >= LastUse(i, selectors[i])}
  BY NewerAfter
<1> QED
  BY <1>1 DEF Newer

LEMMA RecencyRestated ==
  SelectorsByRecency <=>
    \A i \in DOMAIN selectors :
      selectors[i] \in 0..(groups - 1) /\ Cardinality(Newer(i)) = ranks[i]
BY DEF SelectorsByRecency, Newer

LEMMA RecencyThen ==
  SelectorsByRecency' <=>
    \A i \in DOMAIN selectors' :
      selectors'[i] \in 0..(groups' - 1) /\ Cardinality(Newer(i)') = ranks'[i]
BY DEF SelectorsByRecency, Newer

\* The steps that leave the selectors and their list alone.
LEMMA SelectorFrame ==
  ASSUME SelectorInv, UNCHANGED <<groups, mtf, selectors, ranks>>,
         verdict' \in [Parsers -> {"run", "raised"}], RankInList'
  PROVE  SelectorInv'
<1>u. \A i \in Nat : \A g : LastUse(i, g)' = LastUse(i, g)
  BY UsesKept
<1>l. Len(selectors) \in Nat /\ DOMAIN selectors \subseteq Nat
  BY DEF SelectorInv, SelectorTypes
<1>2. ByRecency'
  <2>1. \A g : Used(g)' = Used(g)
    BY <1>u, <1>l DEF Used
  <2>2. \A i, j \in 1..groups, g, h \in 0..(groups - 1) :
          i < j /\ mtf[i] = g /\ mtf[j] = h => Used(g)' > Used(h)'
    BY <2>1 DEF SelectorInv, ByRecency
  <2>3. /\ groups \in Nat /\ mtf \in Seq(0..(groups - 1)) /\ Len(mtf) = groups
        /\ \A g \in 0..(groups - 1) : \E j \in 1..groups : mtf[j] = g
        /\ \A g \in 0..(groups - 1) : Used(g)' \in Int /\ Used(g)' <= Len(selectors)
    BY <2>1 DEF SelectorInv, ByRecency
  <2> QED
    BY <2>2, <2>3 DEF ByRecency
<1>4. SelectorTypes'
  BY DEF SelectorInv, SelectorTypes
<1>5. SelectorsByRecency'
  <2>1. \A i \in DOMAIN selectors : Newer(i)' = Newer(i)
    BY <1>l, NewerKept
  <2> QED
    BY <2>1, RecencyRestated, RecencyThen DEF SelectorInv
<1> QED
  BY <1>2, <1>4, <1>5 DEF SelectorInv

\* A selector is complete: its group moves to the front, and the unary code is
\* the number of groups that were before it.
LEMMA SelectorRead ==
  ASSUME SelectorInv, groups > 0, rank < groups,
         mtf' = ToFront(mtf, rank), selectors' = Append(selectors, mtf[rank + 1]),
         ranks' = Append(ranks, rank), rank' = 0, groups' = groups,
         verdict' \in [Parsers -> {"run", "raised"}]
  PROVE  SelectorInv'
<1>1. PICK k \in Nat : k = Len(selectors)
  BY DEF SelectorInv, SelectorTypes
<1>2. PICK t : t = mtf[rank + 1]
  OBVIOUS
<1>3. /\ groups \in Nat /\ rank \in Nat /\ mtf \in Seq(0..(groups - 1)) /\ Len(mtf) = groups
      /\ rank + 1 \in 1..groups /\ t \in 0..(groups - 1)
      /\ selectors \in Seq(0..(groups - 1)) /\ ranks \in Seq(Nat) /\ Len(ranks) = k
  <2>1. /\ groups \in Nat /\ rank \in Nat /\ mtf \in Seq(0..(groups - 1)) /\ Len(mtf) = groups
    BY DEF SelectorInv, ByRecency, RankInList
  <2>2. rank + 1 \in 1..groups /\ rank + 1 \in 1..Len(mtf)
    BY <2>1
  <2>3. t \in 0..(groups - 1)
    <3> DEFINE S == 0..(groups - 1)
    <3>1. mtf \in Seq(S)
      BY <2>1
    <3> HIDE DEF S
    <3>2. \A i \in 1..Len(mtf) : mtf[i] \in S
      BY <3>1
    <3> QED
      BY <3>2, <2>2, <1>2 DEF S
  <2>4. selectors \in Seq(0..(groups - 1)) /\ ranks \in Seq(Nat) /\ Len(ranks) = k
    BY <1>1 DEF SelectorInv, SelectorTypes
  <2> QED
    BY <2>1, <2>2, <2>3, <2>4
<1>4. /\ selectors' \in Seq(0..(groups - 1)) /\ Len(selectors') = k + 1
      /\ selectors'[k + 1] = t
      /\ \A j \in 1..k : selectors'[j] = selectors[j]
  BY <1>1, <1>2, <1>3
<1>5. /\ ranks' \in Seq(Nat) /\ Len(ranks') = k + 1 /\ ranks'[k + 1] = rank
      /\ \A j \in 1..k : ranks'[j] = ranks[j]
  <2>1. ranks \in Seq(Nat) /\ rank \in Nat /\ Len(ranks) = k
    BY <1>3
  <2> QED
    BY <2>1
<1>6. \A g : Used(g) = LastUse(k + 1, g)
  BY <1>1 DEF Used
<1>7. \A g : Used(g)' = IF t = g THEN k + 1 ELSE Used(g)
  <2>1. \A g : Used(g)' = LastUse(k + 2, g)'
    <3>1. Len(selectors') + 1 = k + 2
      BY <1>4
    <3> QED
      BY <3>1 DEF Used
  <2>2. \A g : LastUse(k + 2, g)' = IF selectors'[k + 1] = g THEN k + 1 ELSE LastUse(k + 1, g)
    BY <1>4, NewestUse
  <2> QED
    BY <2>1, <2>2, <1>4, <1>6
<1>8. /\ \A g \in 0..(groups - 1) : \E j \in 1..groups : mtf[j] = g
      /\ \A g \in 0..(groups - 1) : Used(g) \in Int /\ Used(g) <= k
  BY <1>1 DEF SelectorInv, ByRecency
<1>9. \A j \in 1..groups : mtf[j] \in 0..(groups - 1) /\ Used(mtf[j]) \in Int
  <2> DEFINE S == 0..(groups - 1)
  <2>1. mtf \in Seq(S) /\ Len(mtf) = groups /\ \A g \in S : Used(g) \in Int
    BY <1>3, <1>8
  <2> HIDE DEF S
  <2>2. \A i \in 1..Len(mtf) : mtf[i] \in S
    BY <2>1
  <2> QED
    BY <2>1, <2>2 DEF S
<1>d. \A i, j \in 1..groups : i < j => Used(mtf[i]) > Used(mtf[j])
  <2>1. \A i, j \in 1..groups, g, h \in 0..(groups - 1) :
          i < j /\ mtf[i] = g /\ mtf[j] = h => Used(g) > Used(h)
    BY DEF SelectorInv, ByRecency
  <2> QED
    BY <2>1, <1>9
<1>10. \A i, j \in 1..groups : mtf[i] = mtf[j] => i = j
  <2> SUFFICES ASSUME NEW i \in 1..groups, NEW j \in 1..groups, mtf[i] = mtf[j], i # j
               PROVE FALSE
    OBVIOUS
  <2>1. i < j \/ j < i
    BY <1>3
  <2>2. Used(mtf[i]) > Used(mtf[j]) \/ Used(mtf[j]) > Used(mtf[i])
    BY <2>1, <1>d
  <2> QED
    BY <2>2, <1>9
<1>11. /\ mtf' \in Seq(0..(groups - 1)) /\ Len(mtf') = groups /\ mtf'[1] = t
       /\ \A j \in 2..(rank + 1) : mtf'[j] = mtf[j - 1]
       /\ \A j \in (rank + 2)..groups : mtf'[j] = mtf[j]
  <2> DEFINE S == 0..(groups - 1)
  <2>1. mtf \in Seq(S) /\ rank \in Nat /\ rank < Len(mtf)
    BY <1>3
  <2> HIDE DEF S
  <2> DEFINE new == ToFront(mtf, rank)
  <2>2. /\ new \in Seq(S) /\ Len(new) = Len(mtf)
        /\ new[1] = mtf[rank + 1]
        /\ \A j \in 2..(rank + 1) : new[j] = mtf[j - 1]
        /\ \A j \in (rank + 2)..Len(mtf) : new[j] = mtf[j]
    BY <2>1, FrontOf
  <2> HIDE DEF new
  <2>3. Len(mtf) = groups /\ t = mtf[rank + 1]
    BY <1>2, <1>3
  <2>4. /\ new \in Seq(S) /\ Len(new) = groups /\ new[1] = t
        /\ \A j \in 2..(rank + 1) : new[j] = mtf[j - 1]
        /\ \A j \in (rank + 2)..groups : new[j] = mtf[j]
    BY ONLY <2>2, <2>3
  <2>5. mtf' = new
    BY DEF new
  <2> QED
    BY ONLY <2>4, <2>5 DEF S
<1> DEFINE idx(j) == IF j <= rank + 1 THEN j - 1 ELSE j
<1>12. \A j \in 2..groups :
         idx(j) \in 1..groups /\ idx(j) # rank + 1 /\ mtf'[j] = mtf[idx(j)]
  <2>1. \A j \in 2..(rank + 1) : mtf'[j] = mtf[j - 1]
    BY <1>11
  <2>2. \A j \in (rank + 2)..groups : mtf'[j] = mtf[j]
    BY <1>11
  <2> SUFFICES ASSUME NEW j \in 2..groups
               PROVE  idx(j) \in 1..groups /\ idx(j) # rank + 1 /\ mtf'[j] = mtf[idx(j)]
    OBVIOUS
  <2>3. rank \in Nat /\ groups \in Nat
    BY <1>3
  <2>4. CASE j <= rank + 1
    <3>1. j \in 2..(rank + 1) /\ idx(j) = j - 1
      BY ONLY <2>3, <2>4, j \in 2..groups
    <3>2. idx(j) \in 1..groups /\ idx(j) # rank + 1
      BY ONLY <2>3, <3>1, j \in 2..groups
    <3> HIDE DEF idx
    <3> QED
      BY ONLY <2>1, <3>1, <3>2
  <2>5. CASE ~(j <= rank + 1)
    <3>1. j \in (rank + 2)..groups /\ idx(j) = j
      BY ONLY <2>3, <2>5, j \in 2..groups
    <3>2. idx(j) \in 1..groups /\ idx(j) # rank + 1
      BY ONLY <2>3, <3>1, j \in 2..groups
    <3> HIDE DEF idx
    <3> QED
      BY ONLY <2>2, <3>1, <3>2
  <2> QED
    BY ONLY <2>4, <2>5
<1>13. \A i, j \in 2..groups : i < j => idx(i) < idx(j)
  BY <1>3
<1>14. \A j \in 2..groups : mtf[idx(j)] # t
  BY <1>2, <1>3, <1>10, <1>12
<1>15. ByRecency'
  <2>1. \A g \in 0..(groups - 1) : \E j \in 1..groups : mtf'[j] = g
    <3> SUFFICES ASSUME NEW g \in 0..(groups - 1) PROVE \E j \in 1..groups : mtf'[j] = g
      OBVIOUS
    <3>1. PICK j \in 1..groups : mtf[j] = g
      BY <1>8
    <3>2. CASE j <= rank
      <4>1. j + 1 \in 2..(rank + 1) /\ j + 1 \in 1..groups /\ (j + 1) - 1 = j
        BY <3>2, <1>3
      <4> QED
        BY <4>1, <3>1, <1>11
    <3>3. CASE j = rank + 1
      <4>1. 1 \in 1..groups
        BY <1>3
      <4> QED
        BY <4>1, <3>1, <3>3, <1>2, <1>11
    <3>4. CASE j > rank + 1
      <4>1. j \in (rank + 2)..groups
        BY <3>4, <1>3
      <4> QED
        BY <4>1, <3>1, <1>11
    <3> QED
      BY <3>2, <3>3, <3>4, <1>3
  <2>2. \A g \in 0..(groups - 1) : Used(g)' \in Int /\ Used(g)' <= k + 1
    BY <1>7, <1>8
  <2>3. ASSUME NEW i \in 1..groups, NEW j \in 1..groups,
               NEW g \in 0..(groups - 1), NEW h \in 0..(groups - 1),
               i < j, mtf'[i] = g, mtf'[j] = h
        PROVE  Used(g)' > Used(h)'
    <3>1. j \in 2..groups
      BY <2>3, <1>3
    <3>2. idx(j) \in 1..groups /\ mtf[idx(j)] = h /\ h # t
      BY <2>3, <3>1, <1>12, <1>14
    <3>3. Used(h)' = Used(h) /\ Used(h) \in Int /\ Used(h) <= k
      BY <3>2, <1>7, <1>8
    <3>4. CASE i = 1
      <4>1. Used(g)' = k + 1
        BY <3>4, <2>3, <1>7, <1>11
      <4> QED
        BY <4>1, <3>3
    <3>5. CASE i # 1
      <4>1. i \in 2..groups
        BY <3>5, <1>3
      <4>2. idx(i) \in 1..groups /\ mtf[idx(i)] = g /\ g # t /\ idx(i) < idx(j)
        BY <2>3, <3>1, <4>1, <1>12, <1>13, <1>14
      <4> HIDE DEF idx
      <4>3. Used(g) > Used(h)
        BY <4>2, <3>2, <1>d
      <4>4. Used(g)' = Used(g)
        BY <4>2, <1>7
      <4> QED
        BY <4>3, <4>4, <3>3
    <3> QED
      BY <3>4, <3>5
  <2>4. groups' = groups /\ groups \in Nat /\ Len(selectors') = k + 1
    BY <1>3, <1>4
  <2>5. mtf' \in Seq(0..(groups - 1)) /\ Len(mtf') = groups
    BY <1>11
  <2> HIDE DEF idx
  <2> QED
    BY <2>1, <2>2, <2>3, <2>4, <2>5 DEF ByRecency
<1>16. RankInList'
  BY <1>3 DEF RankInList
<1>17. SelectorTypes'
  BY <1>4, <1>5 DEF SelectorTypes
<1>18. Cardinality(Newer(k + 1)') = rank
  <2> DEFINE f == [g \in 0..(groups - 1) |-> Used(g)]
  <2>1. f \in [0..(groups - 1) -> Int] /\ \A g \in 0..(groups - 1) : f[g] = Used(g)
    BY <1>8
  <2>2. mtf \in [1..groups -> 0..(groups - 1)] /\ rank \in 0..(groups - 1)
    <3>1. DOMAIN mtf = 1..groups /\ mtf = [i \in DOMAIN mtf |-> mtf[i]]
      BY <1>3
    <3>2. \A i \in 1..groups : mtf[i] \in 0..(groups - 1)
      BY <1>9
    <3>3. rank \in 0..(groups - 1)
      BY <1>3
    <3> QED
      BY <3>1, <3>2, <3>3
  <2>3. \A i, j \in 1..groups : i < j => f[mtf[i]] > f[mtf[j]]
    BY <2>1, <1>9, <1>d
  <2> HIDE DEF f
  <2>4. \A g \in 0..(groups - 1) : \E j \in 1..groups : mtf[j] = g
    BY <1>8
  <2>5. groups \in Nat
    BY <1>3
  <2>6. Cardinality(Preceding(groups, f, mtf[rank + 1])) = rank
    <3>1. Descending(groups, mtf, f)
      BY <2>1, <2>2, <2>3, <2>4, <2>5 DEF Descending
    <3> QED
      BY <3>1, <2>2, BeforeInOrder
  <2>7. Newer(k + 1)' = {g \in 0..(groups - 1) \ {t} : LastUse(k + 1, g) >= LastUse(k + 1, t)}
    <3>1. k + 1 \in Nat /\ selectors'[k + 1] = t
          /\ \A j \in 1..((k + 1) - 1) : selectors'[j] = selectors[j]
      BY <1>4
    <3> QED
      BY <3>1, NewerAfter
  <2>8. Newer(k + 1)' = Preceding(groups, f, t)
    BY <2>7, <2>1, <1>6, <1>3 DEF Preceding
  <2> QED
    BY <2>6, <2>8, <1>2
<1>19. SelectorsByRecency'
  <2>1. ASSUME NEW i \in 1..k
        PROVE  selectors'[i] \in 0..(groups - 1) /\ Cardinality(Newer(i)') = ranks'[i]
    <3>1. Newer(i)' = Newer(i)
      <4>1. i \in Nat /\ selectors'[i] = selectors[i] /\ \A j \in 1..(i - 1) : selectors'[j] = selectors[j]
        BY <1>4
      <4> QED
        BY <4>1, NewerKept
    <3>2. selectors[i] \in 0..(groups - 1) /\ Cardinality(Newer(i)) = ranks[i]
      BY <1>1, RecencyRestated DEF SelectorInv
    <3> QED
      BY <3>1, <3>2, <1>4, <1>5
  <2>2. DOMAIN selectors' = 1..(k + 1) /\ \A i \in 1..(k + 1) : i \in 1..k \/ i = k + 1
    BY <1>4
  <2> QED
    BY <2>1, <2>2, <1>3, <1>4, <1>5, <1>18, RecencyThen
<1> QED
  BY <1>15, <1>16, <1>17, <1>19 DEF SelectorInv

LEMMA BlockStarts ==
  ASSUME SelectorInv, NEW r \in BOOLEAN, NEW u \in UsedCounts, NEW g \in GroupCounts,
         BlockHead(r, u, g)
  PROVE  SelectorInv'
<1>1. /\ groups' = g /\ g \in Nat /\ mtf' = [i \in 1..g |-> i - 1]
      /\ rank' = 0 /\ selectors' = <<>> /\ ranks' = <<>>
  BY FieldsAssumption DEF BlockHead
<1>2. verdict' \in [Parsers -> {"run", "raised"}]
  BY RefuseStops DEF BlockHead, SelectorInv, SelectorTypes
<1>3. ByRecency'
  <2>1. \A h : Used(h)' = -h
    BY <1>1 DEF Used, LastUse
  <2>2. mtf' \in Seq(0..(g - 1)) /\ Len(mtf') = g /\ \A j \in 1..g : mtf'[j] = j - 1
    BY <1>1
  <2>3. \A h \in 0..(g - 1) : \E j \in 1..g : mtf'[j] = h
    <3> SUFFICES ASSUME NEW h \in 0..(g - 1) PROVE \E j \in 1..g : mtf'[j] = h
      OBVIOUS
    <3>1. h + 1 \in 1..g /\ (h + 1) - 1 = h
      BY <1>1
    <3> QED
      BY <3>1, <2>2
  <2>4. \A h \in 0..(g - 1) : Used(h)' \in Int /\ Used(h)' <= Len(selectors')
    BY <2>1, <1>1
  <2>5. \A i, j \in 1..g, a, b \in 0..(g - 1) :
          i < j /\ mtf'[i] = a /\ mtf'[j] = b => Used(a)' > Used(b)'
    BY <2>1, <2>2, <1>1
  <2> QED
    BY <1>1, <2>2, <2>3, <2>4, <2>5 DEF ByRecency
<1>4. RankInList'
  BY <1>1 DEF RankInList
<1>5. SelectorTypes'
  BY <1>1, <1>2 DEF SelectorTypes
<1>6. SelectorsByRecency'
  BY <1>1 DEF SelectorsByRecency
<1> QED
  BY <1>3, <1>4, <1>5, <1>6 DEF SelectorInv

LEMMA BitOfSelector ==
  ASSUME SelectorInv, NEW one \in BOOLEAN, SelectorBit(one)
  PROVE  SelectorInv'
<1>1. /\ at = "selectors" /\ Alive /\ at' = at /\ groups' = groups
      /\ rank \in Nat /\ groups \in Nat /\ (groups > 0 => rank < groups)
      /\ verdict \in [Parsers -> {"run", "raised"}]
  BY DEF SelectorBit, SelectorInv, RankInList, SelectorTypes, ByRecency
<1>2. CASE one
  <2>1. /\ rank' = rank + 1 /\ Refuse(rank + 1 >= groups, Parsers)
        /\ UNCHANGED <<mtf, selectors, ranks>>
    BY <1>2 DEF SelectorBit
  <2>2. /\ verdict' \in [Parsers -> {"run", "raised"}]
        /\ rank + 1 >= groups => \A p \in Parsers : verdict'[p] # "run"
    BY <2>1, <1>1 DEF Refuse, Raised2
  <2>3. RankInList'
    BY <2>1, <2>2, <1>1 DEF RankInList, Alive
  <2> QED
    BY <2>1, <2>2, <2>3, <1>1, SelectorFrame
<1>3. CASE ~one /\ groups = 0
  <2>1. /\ rank' = 0 /\ mtf' = mtf /\ Refuse(groups = 0, Parsers) /\ selectors' = selectors
        /\ ranks' = Append(ranks, rank)
    BY <1>3 DEF SelectorBit
  <2>2. verdict' \in [Parsers -> {"run", "raised"}]
    BY <2>1, <1>1 DEF Refuse, Raised2
  <2>3. Len(selectors) \in Nat
    BY DEF SelectorInv, SelectorTypes
  <2>4. ByRecency'
    BY <2>1, <2>3, <1>1, <1>3 DEF SelectorInv, ByRecency
  <2>5. RankInList'
    BY <2>1, <1>1, <1>3 DEF RankInList
  <2>6. SelectorTypes'
    BY <2>1, <2>2, <1>1, <1>3 DEF SelectorInv, SelectorTypes
  <2>7. SelectorsByRecency'
    <3>1. DOMAIN selectors = {}
      BY <1>3 DEF SelectorInv, SelectorsByRecency
    <3> QED
      BY <2>1, <3>1 DEF SelectorsByRecency
  <2> QED
    BY <2>4, <2>5, <2>6, <2>7 DEF SelectorInv
<1>4. CASE ~one /\ groups # 0
  <2>1. /\ rank' = 0 /\ mtf' = ToFront(mtf, rank)
        /\ selectors' = Append(selectors, mtf[rank + 1]) /\ ranks' = Append(ranks, rank)
        /\ Refuse(groups = 0, Parsers)
    BY <1>4 DEF SelectorBit
  <2>2. verdict' \in [Parsers -> {"run", "raised"}]
    BY <2>1, <1>1 DEF Refuse, Raised2
  <2>3. groups > 0
    BY <1>1, <1>4
  <2> QED
    BY <2>1, <2>2, <2>3, <1>1, SelectorRead
<1> QED
  BY <1>2, <1>3, <1>4

LEMMA SelectorInvNext == SelectorInv /\ [Bzip2Next]_bzip2Vars => SelectorInv'
<1> SUFFICES ASSUME SelectorInv, [Bzip2Next]_bzip2Vars PROVE SelectorInv'
  OBVIOUS
<1>t. verdict \in [Parsers -> {"run", "raised"}]
  BY DEF SelectorInv, SelectorTypes
\* What is left to show of a step that keeps the selectors.
<1>f. ASSUME UNCHANGED <<groups, mtf, rank, selectors, ranks>>,
             verdict' \in [Parsers -> {"run", "raised"}],
             \A p \in Parsers : verdict'[p] = "run" => verdict[p] = "run",
             at' \in {"selectors", "length"} => at \in {"selectors", "length"}
      PROVE  SelectorInv'
  <2>1. RankInList'
    BY <1>f DEF SelectorInv, RankInList, Alive
  <2> QED
    BY <1>f, <2>1, SelectorFrame
<1>1. ASSUME NEW good \in BOOLEAN, Method(good) PROVE SelectorInv'
  BY <1>1, <1>f, <1>t DEF Method, headVars, Refuse, Raised2
<1>2. ASSUME NEW k \in {"block", "end", "other"}, BlockType(k) PROVE SelectorInv'
  BY <1>2, <1>f, <1>t DEF BlockType, headVars, Refuse, Raised2
<1>3. ASSUME NEW l \in StartLengths, StartGroup(l) PROVE SelectorInv'
  BY <1>3, <1>f, <1>t DEF StartGroup
<1>4. ASSUME NEW d \in {-1, 1}, Delta(d) PROVE SelectorInv'
  BY <1>4, <1>f, <1>t DEF Delta
<1>5. ASSUME EndSymbol PROVE SelectorInv'
  <2>1. PICK bad : Refuse(bad, Builds("inside"))
    BY <1>5 DEF EndSymbol
  <2>2. /\ verdict' \in [Parsers -> {"run", "raised"}]
        /\ \A p \in Parsers : verdict'[p] = "run" => verdict[p] = "run"
    BY <2>1, <1>t DEF Refuse, Raised2
  <2>3. /\ UNCHANGED <<groups, mtf, rank, selectors, ranks>>
        /\ at = "length"
    BY <1>5 DEF EndSymbol
  <2> QED
    BY <2>2, <2>3, <1>f
<1>6. ASSUME BadLength PROVE SelectorInv'
  BY <1>6, <1>f, <1>t DEF BadLength, headVars, Refuse, Raised2
<1>7. ASSUME HandOver PROVE SelectorInv'
  <2>1. /\ at' = "blocktype" /\ UNCHANGED headVars /\ \E k : verdict' = Raised2(k)
    BY <1>7 DEF HandOver
  <2> QED
    BY <2>1, <1>f, <1>t DEF headVars, Raised2
<1>8. CASE UNCHANGED bzip2Vars
  BY <1>8, <1>f, <1>t DEF bzip2Vars, headVars
<1> QED
  BY <1>1, <1>2, <1>3, <1>4, <1>5, <1>6, <1>7, <1>8, BlockStarts, BitOfSelector DEF Bzip2Next

\* The selectors of every block, for every number of groups and selectors: the
\* swaps and moves of the parsers' list rank the groups by how lately they were
\* used, and each selector names a group that exists.
THEOREM SelectorOrder == StreamSpec => []SelectorsByRecency
<1>1. SelectorInv => SelectorsByRecency
  BY DEF SelectorInv
<1> QED
  BY <1>1, SelectorInvInit, SelectorInvNext, StreamBzip2, PTL DEF StreamSpec

-----------------------------------------------------------------------------
(* The bit readers.                                                          *)

\* The reader that has loaded p bytes and consumed the bits up to off.
Reader(d, off, p) == [pos |-> p, buf |-> BitsFrom(d, off, 8 * p), ok |-> TRUE]
Place(off, p) == off \in Nat /\ p \in Nat /\ off <= 8 * p

LEMMA BitsAre ==
  ASSUME NEW d \in Nat, NEW a \in Nat, NEW b \in Nat, a <= b
  PROVE  /\ BitsFrom(d, a, b) \in Seq(Nat)
         /\ Len(BitsFrom(d, a, b)) = b - a
         /\ \A i \in 1..(b - a) : BitsFrom(d, a, b)[i] = IF a + i <= 8 * d THEN a + i ELSE 0
<1>1. Larger(0, b - a) = b - a /\ b - a \in Nat
  BY DEF Larger
<1>2. BitsFrom(d, a, b) = [i \in 1..(b - a) |-> IF a + i <= 8 * d THEN a + i ELSE 0]
  BY <1>1 DEF BitsFrom, Zero
<1>3. \A i \in 1..(b - a) : (IF a + i <= 8 * d THEN a + i ELSE 0) \in Nat
  OBVIOUS
<1> QED
  BY <1>1, <1>2, <1>3

LEMMA BitsJoin ==
  \A d, a, b, c :
    d \in Nat /\ a \in Nat /\ b \in Nat /\ c \in Nat /\ a <= b /\ b <= c =>
      BitsFrom(d, a, b) \o BitsFrom(d, b, c) = BitsFrom(d, a, c)
<1> SUFFICES ASSUME NEW d, NEW a, NEW b, NEW c,
                    d \in Nat /\ a \in Nat /\ b \in Nat /\ c \in Nat /\ a <= b /\ b <= c
             PROVE  BitsFrom(d, a, b) \o BitsFrom(d, b, c) = BitsFrom(d, a, c)
  OBVIOUS
<1> DEFINE s == BitsFrom(d, a, b)
           t == BitsFrom(d, b, c)
           u == BitsFrom(d, a, c)
<1>1. s \in Seq(Nat) /\ Len(s) = b - a
      /\ \A i \in 1..(b - a) : s[i] = IF a + i <= 8 * d THEN a + i ELSE 0
  BY BitsAre
<1>2. t \in Seq(Nat) /\ Len(t) = c - b
      /\ \A i \in 1..(c - b) : t[i] = IF b + i <= 8 * d THEN b + i ELSE 0
  BY BitsAre
<1>3. u \in Seq(Nat) /\ Len(u) = c - a
      /\ \A i \in 1..(c - a) : u[i] = IF a + i <= 8 * d THEN a + i ELSE 0
  <2>1. a <= c
    OBVIOUS
  <2> QED
    BY <2>1, BitsAre
<1> HIDE DEF s, t, u
<1>4. /\ s \o t \in Seq(Nat) /\ Len(s \o t) = Len(s) + Len(t)
      /\ \A i \in 1..(Len(s) + Len(t)) :
           (s \o t)[i] = IF i <= Len(s) THEN s[i] ELSE t[i - Len(s)]
  BY <1>1, <1>2, ConcatProperties
<1>5. \A i \in 1..(c - a) : (s \o t)[i] = u[i]
  <2> SUFFICES ASSUME NEW i \in 1..(c - a) PROVE (s \o t)[i] = u[i]
    OBVIOUS
  <2>1. i \in 1..(Len(s) + Len(t))
    BY <1>1, <1>2
  <2>2. CASE i <= b - a
    <3>1. i \in 1..(b - a)
      BY <2>2
    <3> QED
      BY <2>1, <2>2, <3>1, <1>1, <1>3, <1>4
  <2>3. CASE i > b - a
    <3> DEFINE l == i - (b - a)
    <3>1. l \in 1..(c - b) /\ b + l = a + i /\ ~(i <= b - a)
      BY <2>3
    <3>2. (s \o t)[i] = t[l]
      BY <2>1, <3>1, <1>1, <1>4
    <3> HIDE DEF l
    <3>3. t[l] = IF b + l <= 8 * d THEN b + l ELSE 0
      BY <3>1, <1>2
    <3>4. u[i] = IF a + i <= 8 * d THEN a + i ELSE 0
      BY <1>3
    <3> QED
      BY <3>1, <3>2, <3>3, <3>4
  <2>4. i <= b - a \/ i > b - a
    OBVIOUS
  <2> QED
    BY <2>2, <2>3, <2>4
<1>6. Len(s \o t) = Len(u)
  BY <1>1, <1>2, <1>3, <1>4
<1>7. s \o t = u
  <2> DEFINE w == s \o t
  <2>1. w \in Seq(Nat) /\ Len(w) = c - a /\ \A i \in 1..(c - a) : w[i] = u[i]
    BY <1>3, <1>4, <1>5, <1>6
  <2> HIDE DEF w
  <2>2. w = u
    BY <2>1, <1>3
  <2> QED
    BY <2>2 DEF w
<1> QED
  BY <1>7 DEF s, t, u

LEMMA BitsDrop ==
  \A d, a, b, c :
    d \in Nat /\ a \in Nat /\ b \in Nat /\ c \in Nat /\ a + c <= b =>
      SubSeq(BitsFrom(d, a, b), c + 1, b - a) = BitsFrom(d, a + c, b)
<1> SUFFICES ASSUME NEW d, NEW a, NEW b, NEW c,
                    d \in Nat /\ a \in Nat /\ b \in Nat /\ c \in Nat /\ a + c <= b
             PROVE  SubSeq(BitsFrom(d, a, b), c + 1, b - a) = BitsFrom(d, a + c, b)
  OBVIOUS
<1> DEFINE s == BitsFrom(d, a, b)
           u == BitsFrom(d, a + c, b)
<1>1. s \in Seq(Nat) /\ Len(s) = b - a
      /\ \A i \in 1..(b - a) : s[i] = IF a + i <= 8 * d THEN a + i ELSE 0
  <2>1. a <= b
    OBVIOUS
  <2> QED
    BY <2>1, BitsAre
<1>2. u \in Seq(Nat) /\ Len(u) = b - (a + c)
      /\ \A i \in 1..(b - (a + c)) : u[i] = IF (a + c) + i <= 8 * d THEN (a + c) + i ELSE 0
  <2>1. a + c \in Nat
    OBVIOUS
  <2> QED
    BY <2>1, BitsAre
<1> HIDE DEF s, u
<1> DEFINE w == SubSeq(s, c + 1, b - a)
<1>3. w \in Seq(Nat) /\ Len(w) = (b - a) - c /\ \A i \in 1..((b - a) - c) : w[i] = s[i + c]
  BY <1>1
<1> HIDE DEF w
<1>4. \A i \in 1..((b - a) - c) : w[i] = u[i]
  <2> SUFFICES ASSUME NEW i \in 1..((b - a) - c) PROVE w[i] = u[i]
    OBVIOUS
  <2>1. i + c \in 1..(b - a) /\ i \in 1..(b - (a + c)) /\ a + (i + c) = (a + c) + i
    OBVIOUS
  <2> QED
    BY <2>1, <1>1, <1>2, <1>3
<1>5. w = u
  BY <1>2, <1>3, <1>4
<1> QED
  BY <1>5 DEF s, u, w

\* What a reader does, said of its two places.
LEMMA ReaderIs ==
  ASSUME NEW d \in Nat, NEW off, NEW p, Place(off, p)
  PROVE  /\ Reader(d, off, p).pos = p
         /\ Reader(d, off, p).buf = BitsFrom(d, off, 8 * p)
         /\ Len(Reader(d, off, p).buf) = 8 * p - off
         /\ Offset(Reader(d, off, p)) = off
<1>1. 8 * p \in Nat /\ off \in Nat /\ off <= 8 * p /\ p \in Nat
  BY DEF Place
<1>2. Len(BitsFrom(d, off, 8 * p)) = 8 * p - off
  BY <1>1, BitsAre
<1>3. Reader(d, off, p).pos = p /\ Reader(d, off, p).buf = BitsFrom(d, off, 8 * p)
  BY DEF Reader
<1> QED
  BY <1>1, <1>2, <1>3 DEF Offset

\* The records of readers, field by field.
Loaded(r, y, b) == [r EXCEPT !.pos = y, !.buf = b]

LEMMA RecordLoaded ==
  ASSUME NEW x, NEW y, NEW a, NEW b, NEW o, NEW r, r = [pos |-> x, buf |-> a, ok |-> o]
  PROVE  Loaded(r, y, b) = [pos |-> y, buf |-> b, ok |-> o]
<1> DEFINE s == Loaded(r, y, b)
           t == [pos |-> y, buf |-> b, ok |-> o]
<1>1. s["pos"] = y /\ s["buf"] = b /\ s["ok"] = o
  BY DEF Loaded
<1>2. t["pos"] = y /\ t["buf"] = b /\ t["ok"] = o
  OBVIOUS
<1>3. s = [f \in {"pos", "buf", "ok"} |-> s[f]]
  BY DEF Loaded
<1>4. t = [f \in {"pos", "buf", "ok"} |-> t[f]]
  OBVIOUS
<1> HIDE DEF s, t
<1>5. \A f \in {"pos", "buf", "ok"} : s[f] = t[f]
  BY <1>1, <1>2
<1>6. s = t
  <2>1. [f \in {"pos", "buf", "ok"} |-> s[f]] = [f \in {"pos", "buf", "ok"} |-> t[f]]
    BY <1>5
  <2> QED
    BY <1>3, <1>4, <2>1
<1> QED
  BY <1>6 DEF s, t

LEMMA RecordDropped ==
  ASSUME NEW x, NEW a, NEW b, NEW o, NEW r, r = [pos |-> x, buf |-> a, ok |-> o]
  PROVE  [r EXCEPT !.buf = b] = [pos |-> x, buf |-> b, ok |-> o]
<1> DEFINE s == [r EXCEPT !.buf = b]
           t == [pos |-> x, buf |-> b, ok |-> o]
<1>1. s["pos"] = x /\ s["buf"] = b /\ s["ok"] = o
  OBVIOUS
<1>2. t["pos"] = x /\ t["buf"] = b /\ t["ok"] = o
  OBVIOUS
<1>3. s = [f \in {"pos", "buf", "ok"} |-> s[f]]
  OBVIOUS
<1>4. t = [f \in {"pos", "buf", "ok"} |-> t[f]]
  OBVIOUS
<1> HIDE DEF s, t
<1>5. \A f \in {"pos", "buf", "ok"} : s[f] = t[f]
  BY <1>1, <1>2
<1>6. s = t
  <2>1. [f \in {"pos", "buf", "ok"} |-> s[f]] = [f \in {"pos", "buf", "ok"} |-> t[f]]
    BY <1>5
  <2> QED
    BY <1>3, <1>4, <2>1
<1> QED
  BY <1>6 DEF s, t

LEMMA LoadIs ==
  \A d, k \in Nat : \A off, p :
    Place(off, p) =>
      Load(Reader(d, off, p), d, k) = Reader(d, off, p + k) /\ Place(off, p + k)
<1> SUFFICES ASSUME NEW d \in Nat, NEW k \in Nat, NEW off, NEW p, Place(off, p)
             PROVE  Load(Reader(d, off, p), d, k) = Reader(d, off, p + k) /\ Place(off, p + k)
  OBVIOUS
<1> DEFINE a == BitsFrom(d, off, 8 * p)
           b == DataBits(d, p, p + k)
           c == BitsFrom(d, off, 8 * (p + k))
<1>1. /\ 8 * p \in Nat /\ 8 * (p + k) \in Nat /\ off \in Nat
      /\ off <= 8 * p /\ 8 * p <= 8 * (p + k) /\ p + k \in Nat
  BY DEF Place
<1>2. a \o b = c
  <2>1. b = BitsFrom(d, 8 * p, 8 * (p + k))
    BY DEF DataBits
  <2>2. BitsFrom(d, off, 8 * p) \o BitsFrom(d, 8 * p, 8 * (p + k)) = c
    BY ONLY d \in Nat, <1>1, BitsJoin, Zenon
  <2> QED
    BY <2>1, <2>2, Zenon
<1>o. PICK o : o = TRUE
  OBVIOUS
<1>3. Reader(d, off, p) = [pos |-> p, buf |-> a, ok |-> o]
  BY <1>o DEF Reader
<1>4. Load(Reader(d, off, p), d, k) = [pos |-> p + k, buf |-> a \o b, ok |-> o]
  <2> HIDE DEF a
  <2> DEFINE r == Reader(d, off, p)
  <2>1. r.pos = p /\ r.buf = a
    BY <1>3
  <2>2. DataBits(d, r.pos, r.pos + k) = b
    BY <2>1
  <2> HIDE DEF b
  <2>3. Load(r, d, k) = Loaded(r, p + k, a \o b)
    BY <2>1, <2>2 DEF Load, Loaded
  <2> HIDE DEF r
  <2>4. r = [pos |-> p, buf |-> a, ok |-> o]
    BY <1>3 DEF r
  <2>5. ASSUME NEW y, NEW t PROVE Loaded(r, y, t) = [pos |-> y, buf |-> t, ok |-> o]
    BY <2>4, RecordLoaded
  <2> QED
    BY <2>3, <2>5 DEF r
<1>5. Reader(d, off, p + k) = [pos |-> p + k, buf |-> c, ok |-> o]
  BY <1>o DEF Reader
<1>6. Place(off, p + k)
  BY <1>1 DEF Place
<1> HIDE DEF a, b, c
<1>7. [pos |-> p + k, buf |-> a \o b, ok |-> o] = [pos |-> p + k, buf |-> c, ok |-> o]
  BY <1>2
<1> QED
  BY <1>4, <1>5, <1>6, <1>7

LEMMA DropIs ==
  ASSUME NEW d \in Nat, NEW off, NEW p, Place(off, p), NEW c \in Nat, off + c <= 8 * p
  PROVE  Dropped(Reader(d, off, p), c) = Reader(d, off + c, p) /\ Place(off + c, p)
<1> DEFINE a == BitsFrom(d, off, 8 * p)
           b == BitsFrom(d, off + c, 8 * p)
           m == 8 * p
<1>1. m \in Nat /\ off \in Nat /\ off + c \in Nat /\ p \in Nat /\ off + c <= m
  BY DEF Place
<1>2. SubSeq(a, c + 1, m - off) = b
  <2> HIDE DEF m
  <2>1. off \in Nat /\ m \in Nat /\ c \in Nat /\ off + c <= m
    BY <1>1
  <2>2. SubSeq(BitsFrom(d, off, m), c + 1, m - off) = BitsFrom(d, off + c, m)
    BY ONLY d \in Nat, <2>1, BitsDrop, Zenon
  <2> QED
    BY <2>2 DEF m
<1>3. Len(a) = m - off
  BY <1>1, BitsAre
<1>o. PICK o : o = TRUE
  OBVIOUS
<1>4. Reader(d, off, p) = [pos |-> p, buf |-> a, ok |-> o]
  BY <1>o DEF Reader
<1>5. Dropped(Reader(d, off, p), c) = [pos |-> p, buf |-> b, ok |-> o]
  <2> HIDE DEF a, b
  <2> DEFINE r == Reader(d, off, p)
  <2>1. r.buf = a
    BY <1>4
  <2>2. Dropped(r, c) = [r EXCEPT !.buf = SubSeq(a, c + 1, Len(a))]
    BY <2>1 DEF Dropped
  <2>3. Dropped(r, c) = [r EXCEPT !.buf = b]
    BY <2>2, <1>2, <1>3
  <2> HIDE DEF r
  <2>4. r = [pos |-> p, buf |-> a, ok |-> o]
    BY <1>4 DEF r
  <2>5. [r EXCEPT !.buf = b] = [pos |-> p, buf |-> b, ok |-> o]
    BY <2>4, RecordDropped
  <2>6. Dropped(r, c) = [pos |-> p, buf |-> b, ok |-> o]
    BY <2>3, <2>5
  <2> QED
    BY <2>6 DEF r
<1>6. Reader(d, off + c, p) = [pos |-> p, buf |-> b, ok |-> o]
  BY <1>o DEF Reader
<1> QED
  BY <1>1, <1>5, <1>6 DEF Place

\* A word of the padded buffer is four bytes of data as long as it starts at
\* most four bytes behind the end.
LEMMA LoadWordIs ==
  ASSUME NEW d \in Nat, NEW off, NEW p, Place(off, p), p <= d + 4
  PROVE  LoadWord(Reader(d, off, p), d) = Reader(d, off, p + 4) /\ Place(off, p + 4)
<1>1. p \in Nat
  BY DEF Place
<1>2. Larger(0, Smaller(4, d + TailPad - p)) = 4
  BY <1>1 DEF Larger, Smaller, TailPad
<1>3. Zeros(WordBits - 8 * 4) = <<>>
  BY DEF Zeros, WordBits
<1>4. DataBits(d, p, p + 4) \in Seq(Nat)
  <2>1. 8 * p \in Nat /\ 8 * (p + 4) \in Nat /\ 8 * p <= 8 * (p + 4)
    BY <1>1
  <2> QED
    BY <2>1, BitsAre DEF DataBits
<1>5. PaddedWord(d, p) = DataBits(d, p, p + 4)
  BY <1>2, <1>3, <1>4, ConcatEmptySeq DEF PaddedWord
<1>6. LoadWord(Reader(d, off, p), d) = Load(Reader(d, off, p), d, 4)
  BY <1>5 DEF LoadWord, Load, Reader
<1> QED
  BY <1>6, LoadIs

LEMMA CeilDivIs ==
  ASSUME NEW a \in Nat
  PROVE  /\ CeilDiv(a, 8) \in Nat /\ a <= 8 * CeilDiv(a, 8) /\ (a = 0 => CeilDiv(a, 8) = 0)
         /\ CeilDiv(a, 32) \in Nat /\ a <= 32 * CeilDiv(a, 32) /\ (a = 0 => CeilDiv(a, 32) = 0)
         /\ a > 0 => CeilDiv(a, 32) > 0 /\ 32 * (CeilDiv(a, 32) - 1) < a
BY DEF CeilDiv

\* The bits that are missing.
LEMMA MissingIs ==
  ASSUME NEW d \in Nat, NEW off, NEW p, Place(off, p), NEW c \in Nat
  PROVE  /\ Missing(Reader(d, off, p), c) \in Nat
         /\ \/ (off + c <= 8 * p /\ Missing(Reader(d, off, p), c) = 0)
            \/ (off + c > 8 * p /\ Missing(Reader(d, off, p), c) = off + c - 8 * p)
<1>1. Missing(Reader(d, off, p), c) = Larger(0, c - (8 * p - off))
  <2>1. Len(Reader(d, off, p).buf) = 8 * p - off
    BY ReaderIs
  <2> QED
    BY <2>1 DEF Missing
<1> QED
  BY <1>1 DEF Larger, Place

\* The stock reader raises, or has the bits and no byte behind the end.
LEMMA StockFillIs ==
  ASSUME NEW d \in Nat, NEW off, NEW p, Place(off, p), NEW c \in Nat, p <= d
  PROVE  \/ ~StockFill(Reader(d, off, p), d, c).ok
         \/ \E q \in Nat : /\ StockFill(Reader(d, off, p), d, c) = Reader(d, off, q)
                          /\ Place(off, q) /\ off + c <= 8 * q /\ q <= d
<1> DEFINE r == Reader(d, off, p)
           need == Missing(r, c)
           k == CeilDiv(need, 8)
<1>1. need \in Nat
      /\ ((off + c <= 8 * p /\ need = 0) \/ (off + c > 8 * p /\ need = off + c - 8 * p)) /\ r.pos = p /\ p \in Nat
      /\ off \in Nat
  <2>1. need \in Nat
      /\ ((off + c <= 8 * p /\ need = 0) \/ (off + c > 8 * p /\ need = off + c - 8 * p))
    BY MissingIs
  <2>2. r.pos = p
    BY ReaderIs
  <2> HIDE DEF need, r
  <2> QED
    BY <2>1, <2>2 DEF Place
<1>2. k \in Nat /\ need <= 8 * k
  <2> HIDE DEF need
  <2> QED
    BY <1>1, CeilDivIs
<1>3. StockFill(r, d, c) = IF r.pos + k > d THEN Raise(r) ELSE Load(r, d, k)
  BY DEF StockFill
<1> HIDE DEF k, need
<1>4. CASE p + k > d
  <2>1. StockFill(r, d, c) = Raise(r)
    BY <1>1, <1>3, <1>4
  <2> QED
    BY <2>1 DEF Raise, Reader
<1>5. CASE ~(p + k > d)
  <2>1. StockFill(r, d, c) = Reader(d, off, p + k) /\ Place(off, p + k)
    BY <1>1, <1>2, <1>3, <1>5, LoadIs
  <2>2. p + k \in Nat /\ p + k <= d /\ off + c <= 8 * (p + k)
    BY <1>1, <1>2, <1>5
  <2> QED
    BY <2>1, <2>2
<1> QED
  BY <1>4, <1>5

\* The T1 reader over m bytes has the bits as long as the stream has them.
Filled(f, d, off, c, m) ==
  \E q \in Nat : f = Reader(d, off, q) /\ Place(off, q) /\ off + c <= 8 * q /\ q <= m

LEMMA TierFillIs ==
  ASSUME NEW d \in Nat, NEW off, NEW p, Place(off, p), NEW c \in Nat, NEW m \in Nat,
         p <= m, d <= m, off + c <= 8 * d
  PROVE  Filled(TierFill(Reader(d, off, p), d, m, c), d, off, c, m)
<1> DEFINE r == Reader(d, off, p)
           need == Missing(r, c)
           w == CeilDiv(need, 32)
           k == Smaller(4 * w, m - p)
<1>1. need \in Nat
      /\ ((off + c <= 8 * p /\ need = 0) \/ (off + c > 8 * p /\ need = off + c - 8 * p)) /\ r.pos = p
      /\ p \in Nat /\ off \in Nat
  <2>1. need \in Nat
      /\ ((off + c <= 8 * p /\ need = 0) \/ (off + c > 8 * p /\ need = off + c - 8 * p))
    BY ONLY c \in Nat, d \in Nat, Place(off, p), MissingIs
  <2>2. r.pos = p
    BY ReaderIs
  <2> HIDE DEF need, r
  <2> QED
    BY <2>1, <2>2 DEF Place
<1>2. w \in Nat /\ need <= 32 * w
  <2> HIDE DEF need
  <2> QED
    BY <1>1, CeilDivIs
<1>3. TierFill(r, d, m, c) = IF 8 * k < need THEN Raise(r) ELSE Load(r, d, k)
  BY <1>1 DEF TierFill, WordBits
<1> HIDE DEF need, w
<1>4. k \in Nat /\ need <= 8 * k /\ k <= m - p
  BY <1>1, <1>2 DEF Smaller
<1> HIDE DEF k
<1>5. TierFill(r, d, m, c) = Reader(d, off, p + k) /\ Place(off, p + k)
  BY <1>1, <1>3, <1>4, LoadIs
<1>6. p + k \in Nat /\ p + k <= m /\ off + c <= 8 * (p + k)
  BY <1>1, <1>4
<1> QED
  BY <1>5, <1>6 DEF Filled

\* The landed reader too; it never holds more bits than its table masks.
LEMMA LandedReadIs ==
  ASSUME NEW d \in Nat, NEW off, NEW p, Place(off, p), NEW c \in 0..48,
         8 * p - off <= 63, off + c <= 8 * d
  PROVE  \E q \in Nat : /\ LandedRead(Reader(d, off, p), d, c) = Reader(d, off + c, q)
                        /\ Place(off + c, q) /\ 8 * q - (off + c) <= 63
<1> DEFINE r == Reader(d, off, p)
           need == Missing(r, c)
           w == CeilDiv(need, 32)
           f == LandedFill(r, d, c)
<1>1. need \in Nat
      /\ ((off + c <= 8 * p /\ need = 0) \/ (off + c > 8 * p /\ need = off + c - 8 * p)) /\ r.pos = p
      /\ p \in Nat /\ off \in Nat /\ need <= 48 /\ c \in Nat
  <2>c. c \in Nat
    OBVIOUS
  <2>1. need \in Nat
      /\ ((off + c <= 8 * p /\ need = 0) \/ (off + c > 8 * p /\ need = off + c - 8 * p))
    BY ONLY <2>c, d \in Nat, Place(off, p), MissingIs
  <2>2. r.pos = p
    BY ReaderIs
  <2> HIDE DEF need, r
  <2> QED
    BY <2>1, <2>2 DEF Place
<1>2. /\ w \in Nat /\ need <= 32 * w /\ (need = 0 => w = 0)
      /\ need > 0 => w > 0 /\ 32 * (w - 1) < need
  <2> HIDE DEF need
  <2> QED
    BY <1>1, CeilDivIs
<1>3. f = IF w > 0 /\ p + 4 * (w - 1) >= d + 8 THEN Raise(r)
          ELSE IF w = 0 THEN r
          ELSE IF w = 1 THEN LoadWord(r, d)
          ELSE LoadWord(LoadWord(r, d), d)
  BY <1>1 DEF LandedFill, WordBits
<1> HIDE DEF need, w, f
<1>4. w \in {0, 1, 2} /\ (w > 0 => p + 4 * (w - 1) < d)
  BY <1>1, <1>2
<1>5. \E q \in Nat : /\ f = Reader(d, off, q) /\ Place(off, q)
                     /\ off + c <= 8 * q /\ 8 * q - (off + c) <= 63
  <2>1. CASE w = 0
    <3>1. f = Reader(d, off, p) /\ off + c <= 8 * p
      BY <2>1, <1>1, <1>2, <1>3
    <3> QED
      BY <3>1, <1>1
  <2>2. CASE w = 1
    <3>1. f = LoadWord(r, d) /\ p <= d + 4 /\ ~(off + c <= 8 * p)
      BY <2>2, <1>1, <1>2, <1>3, <1>4
    <3>2. f = Reader(d, off, p + 4) /\ Place(off, p + 4)
      BY <3>1, LoadWordIs
    <3>3. off + c <= 8 * (p + 4) /\ 8 * (p + 4) - (off + c) <= 63 /\ p + 4 \in Nat
      BY <2>2, <3>1, <1>1, <1>2
    <3> QED
      BY <3>2, <3>3
  <2>3. CASE w = 2
    <3>1. f = LoadWord(LoadWord(r, d), d) /\ p + 4 <= d + 4 /\ ~(off + c <= 8 * p)
      BY <2>3, <1>1, <1>2, <1>3, <1>4
    <3>2. LoadWord(r, d) = Reader(d, off, p + 4) /\ Place(off, p + 4)
      BY <3>1, <1>1, LoadWordIs
    <3>3. LoadWord(Reader(d, off, p + 4), d) = Reader(d, off, (p + 4) + 4) /\ Place(off, (p + 4) + 4)
      BY <3>1, <3>2, LoadWordIs
    <3>4. off + c <= 8 * ((p + 4) + 4) /\ 8 * ((p + 4) + 4) - (off + c) <= 63 /\ (p + 4) + 4 \in Nat
      BY <2>3, <3>1, <1>1, <1>2
    <3> QED
      BY <3>1, <3>2, <3>3, <3>4
  <2> QED
    BY <2>1, <2>2, <2>3, <1>4
<1>6. PICK q \in Nat : /\ f = Reader(d, off, q) /\ Place(off, q)
                      /\ off + c <= 8 * q /\ 8 * q - (off + c) <= 63
  BY <1>5
<1>7. LandedRead(r, d, c) = IF ~f.ok \/ Len(f.buf) - c > 64 THEN Raise(f) ELSE Dropped(f, c)
  BY DEF LandedRead, MaskTop, f
<1>8. f.ok = TRUE /\ Len(f.buf) = 8 * q - off
  <2>1. Place(off, q) /\ f = Reader(d, off, q)
    BY <1>6
  <2>2. Len(Reader(d, off, q).buf) = 8 * q - off
    BY <2>1, ReaderIs
  <2>3. f.ok = TRUE
    BY <2>1 DEF Reader
  <2> QED
    BY <2>1, <2>2, <2>3
<1>9. ~(Len(f.buf) - c > 64)
  BY <1>1, <1>6, <1>8
<1>10. LandedRead(r, d, c) = Dropped(f, c)
  BY <1>7, <1>8, <1>9
<1>11. Dropped(Reader(d, off, q), c) = Reader(d, off + c, q) /\ Place(off + c, q)
  <2>1. Place(off, q) /\ c \in Nat /\ off + c <= 8 * q
    BY <1>1, <1>6
  <2> QED
    BY <2>1, DropIs
<1> QED
  BY <1>6, <1>10, <1>11

-----------------------------------------------------------------------------
\* How far behind its place each configuration has loaded.
Within(k, d, off, p) ==
  /\ k \in {"stock", "t1"} => p <= d
  /\ k \in {"python", "native"} => 8 * p - off <= 63
  /\ k \in {"t3", "check", "hybrid"} => p <= d + 8

\* The reader of configuration k stands at bit off.
StandsAt(k, r, d, off) ==
  \E p \in Nat : Place(off, p) /\ r = Reader(d, off, p) /\ Within(k, d, off, p)

\* A reader that has the bits takes them.
LEMMA TakeBits ==
  ASSUME NEW d \in Nat, NEW off, NEW p \in Nat, Place(off, p), NEW c \in Nat, off + c <= 8 * p,
         NEW k, Within(k, d, off, p)
  PROVE  StandsAt(k, Dropped(Reader(d, off, p), c), d, off + c)
<1>1. Dropped(Reader(d, off, p), c) = Reader(d, off + c, p) /\ Place(off + c, p)
  BY DropIs
<1>2. Within(k, d, off + c, p)
  BY DEF Within, Place
<1> QED
  BY <1>1, <1>2 DEF StandsAt

LEMMA TierReads ==
  ASSUME NEW d \in Nat, NEW k \in {"t1", "t3", "check", "hybrid"}, NEW off, NEW p \in Nat,
         Place(off, p), Within(k, d, off, p), NEW c \in Nat, off + c <= 8 * d
  PROVE  \E q \in Nat : /\ TierFill(Reader(d, off, p), d, Held(k, d), c) = Reader(d, off, q)
                        /\ Place(off, q) /\ off + c <= 8 * q /\ Within(k, d, off, q)
<1> DEFINE m == Held(k, d)
<1>1. m \in Nat /\ p <= m /\ d <= m /\ (k = "t1" => m = d) /\ (k # "t1" => m = d + 8)
  BY DEF Held, Within, TailPad
<1> HIDE DEF m
<1>2. PICK q \in Nat : /\ TierFill(Reader(d, off, p), d, m, c) = Reader(d, off, q)
                      /\ Place(off, q) /\ off + c <= 8 * q /\ q <= m
  <2>1. Filled(TierFill(Reader(d, off, p), d, m, c), d, off, c, m)
    BY <1>1, TierFillIs
  <2> QED
    BY <2>1 DEF Filled
<1>3. Within(k, d, off, q)
  BY <1>1, <1>2 DEF Within
<1> QED
  BY <1>2, <1>3 DEF m

\* readbits(c) of a header field.
LEMMA FieldRead ==
  ASSUME NEW d \in Nat, NEW k \in Kinds \ {"stock"}, NEW off, NEW r, StandsAt(k, r, d, off),
         NEW c \in 0..48, off + c <= 8 * d
  PROVE  StandsAt(k, HeaderRead(k, r, d, c), d, off + c)
<1>1. PICK p \in Nat : Place(off, p) /\ r = Reader(d, off, p) /\ Within(k, d, off, p)
  BY DEF StandsAt
<1>c. c \in Nat
  OBVIOUS
<1>2. CASE k \in {"python", "native"}
  <2>1. HeaderRead(k, r, d, c) = LandedRead(r, d, c)
    BY <1>2 DEF HeaderRead
  <2>2. 8 * p - off <= 63
    BY <1>1, <1>2 DEF Within
  <2>3. PICK q \in Nat : /\ LandedRead(Reader(d, off, p), d, c) = Reader(d, off + c, q)
                        /\ Place(off + c, q) /\ 8 * q - (off + c) <= 63
    BY <1>1, <2>2, LandedReadIs
  <2>4. Within(k, d, off + c, q)
    BY <1>2, <2>3 DEF Within
  <2> QED
    BY <1>1, <2>1, <2>3, <2>4 DEF StandsAt
<1>3. CASE k \in {"t1", "t3", "check", "hybrid"}
  <2> DEFINE f == TierFill(r, d, Held(k, d), c)
  <2>1. PICK q \in Nat : /\ f = Reader(d, off, q) /\ Place(off, q) /\ off + c <= 8 * q
                        /\ Within(k, d, off, q)
    BY <1>1, <1>3, <1>c, TierReads
  <2>2. HeaderFill(k, r, d, c) = f
    BY <1>3 DEF HeaderFill
  <2>3. HeaderRead(k, r, d, c) = IF f.ok THEN Dropped(f, c) ELSE f
    BY <1>3, <2>2 DEF HeaderRead
  <2> HIDE DEF f
  <2>4. f.ok
    BY <2>1 DEF Reader
  <2>5. HeaderRead(k, r, d, c) = Dropped(Reader(d, off, q), c)
    BY <2>1, <2>3, <2>4
  <2> QED
    BY <2>1, <2>5, <1>c, TakeBits
<1> QED
  BY <1>2, <1>3 DEF Kinds

\* The stock reader, which may raise.
LEMMA StockRead ==
  ASSUME NEW d \in Nat, NEW off, NEW r, StandsAt("stock", r, d, off), NEW c \in Nat,
         NEW f, f = StockFill(r, d, c), f.ok
  PROVE  off + c <= 8 * d /\ StandsAt("stock", Dropped(f, c), d, off + c)
<1>1. PICK p \in Nat : Place(off, p) /\ r = Reader(d, off, p) /\ p <= d
  BY DEF StandsAt, Within
<1>2. PICK q \in Nat : f = Reader(d, off, q) /\ Place(off, q) /\ off + c <= 8 * q /\ q <= d
  BY <1>1, StockFillIs
<1>3. Within("stock", d, off, q)
  BY <1>2 DEF Within
<1>4. off + c <= 8 * d
  BY <1>2 DEF Place
<1> QED
  BY <1>2, <1>3, <1>4, TakeBits

\* align(): to the next byte, wherever the reader has loaded to.
NextByte(off) == 8 * CeilDiv(off, 8)

LEMMA AlignIs ==
  ASSUME NEW d \in Nat, NEW k, NEW off, NEW r, StandsAt(k, r, d, off)
  PROVE  StandsAt(k, Dropped(r, Len(r.buf) % 8), d, NextByte(off))
<1>1. PICK p \in Nat : Place(off, p) /\ r = Reader(d, off, p) /\ Within(k, d, off, p)
  BY DEF StandsAt
<1>2. Len(r.buf) = 8 * p - off
  BY <1>1, ReaderIs
<1> DEFINE c == (8 * p - off) % 8
<1>3. c \in Nat /\ off + c <= 8 * p /\ off + c = NextByte(off)
  BY <1>1 DEF Place, NextByte, CeilDiv
<1> HIDE DEF c
<1>4. StandsAt(k, Dropped(Reader(d, off, p), c), d, off + c)
  BY <1>1, <1>3, TakeBits
<1> QED
  BY <1>1, <1>2, <1>3, <1>4 DEF c

\* A reader put at a byte, before it has loaded anything.
LEMMA FreshAt ==
  ASSUME NEW d \in Nat, NEW b \in Nat
  PROVE  [Fresh EXCEPT !.pos = b] = Reader(d, 8 * b, b) /\ Place(8 * b, b)
<1> DEFINE r == [Fresh EXCEPT !.pos = b]
           t == Reader(d, 8 * b, b)
<1>1. BitsFrom(d, 8 * b, 8 * b) = <<>>
  BY DEF BitsFrom, Larger
<1>2. r["pos"] = b /\ r["buf"] = <<>> /\ r["ok"]
  BY DEF Fresh
<1>3. t["pos"] = b /\ t["buf"] = <<>> /\ t["ok"]
  BY <1>1 DEF Reader
<1>4. r = [f \in {"pos", "buf", "ok"} |-> r[f]]
  BY DEF Fresh
<1>5. t = [f \in {"pos", "buf", "ok"} |-> t[f]]
  BY DEF Reader
<1>b. r["ok"] = TRUE /\ t["ok"] = TRUE
  BY DEF Fresh, Reader
<1> HIDE DEF r, t
<1>6. \A f \in {"pos", "buf", "ok"} : r[f] = t[f]
  BY <1>2, <1>3, <1>b
<1>7. r = t
  BY <1>4, <1>5, <1>6
<1>8. Place(8 * b, b)
  BY DEF Place
<1> QED
  BY <1>7, <1>8 DEF r, t

\* Where a block's reader is put, from the place of the header's: to the byte
\* the place is in, one refill, and past the bits of it that are consumed.
LEMMA RefillAt ==
  ASSUME NEW d \in Nat, NEW off \in Nat, off <= 8 * d
  PROVE  /\ off \div 8 \in Nat /\ off \div 8 <= d /\ off % 8 \in Nat /\ off % 8 < 8
         /\ 8 * (off \div 8) + (off % 8) = off
         /\ Load([Fresh EXCEPT !.pos = off \div 8], d, 4) = Reader(d, 8 * (off \div 8), off \div 8 + 4)
         /\ Place(8 * (off \div 8), off \div 8 + 4)
<1>1. /\ off \div 8 \in Nat /\ off \div 8 <= d /\ off % 8 \in Nat /\ off % 8 < 8
      /\ 8 * (off \div 8) + (off % 8) = off
  OBVIOUS
<1> DEFINE b == off \div 8
<1> HIDE DEF b
<1>2. b \in Nat
  BY <1>1 DEF b
<1>3. [Fresh EXCEPT !.pos = b] = Reader(d, 8 * b, b) /\ Place(8 * b, b)
  BY <1>2, FreshAt
<1>4. Load(Reader(d, 8 * b, b), d, 4) = Reader(d, 8 * b, b + 4) /\ Place(8 * b, b + 4)
  <2>1. Place(8 * b, b)
    BY <1>3
  <2> QED
    BY ONLY d \in Nat, 4 \in Nat, <2>1, LoadIs
<1> QED
  BY <1>1, <1>3, <1>4 DEF b

LEMMA EnterIs ==
  ASSUME NEW d \in Nat, NEW k \in Kinds, NEW off, NEW r, StandsAt(k, r, d, off), off <= 8 * d
  PROVE  StandsAt(k, Enter(k, r, d), d, off)
<1>1. PICK p \in Nat : Place(off, p) /\ r = Reader(d, off, p) /\ Within(k, d, off, p)
  BY DEF StandsAt
<1>2. Offset(r) = off /\ off \in Nat
  BY <1>1, ReaderIs DEF Place
<1> DEFINE b == off \div 8
           c == off % 8
           w == Load([Fresh EXCEPT !.pos = b], d, 4)
<1>3. /\ b \in Nat /\ b <= d /\ c \in Nat /\ c < 8 /\ 8 * b + c = off
      /\ w = Reader(d, 8 * b, b + 4) /\ Place(8 * b, b + 4)
  BY <1>2, RefillAt
<1> DEFINE fr == [Fresh EXCEPT !.pos = b]
<1>fr. fr.pos = b /\ Len(fr.buf) = 0 /\ w = Load(fr, d, 4)
  BY DEF Fresh
<1> HIDE DEF b, c, w, fr
<1>w. w.ok
  BY <1>3 DEF Reader
<1>4. ASSUME k \in {"native", "check", "hybrid"}
      PROVE  StandsAt(k, Dropped(w, c), d, off)
  <2>1. Within(k, d, off, b + 4)
    BY <1>3, <1>4 DEF Within
  <2>2. Dropped(Reader(d, 8 * b, b + 4), c) = Reader(d, 8 * b + c, b + 4) /\ Place(8 * b + c, b + 4)
    <3> DEFINE a == 8 * b
               q == b + 4
    <3>1. a + c <= 8 * q /\ Place(a, q) /\ c \in Nat
      BY <1>3
    <3> HIDE DEF a, q
    <3>2. Dropped(Reader(d, a, q), c) = Reader(d, a + c, q) /\ Place(a + c, q)
      BY <3>1, DropIs
    <3> QED
      BY <3>2 DEF a, q
  <2> QED
    BY <1>3, <2>1, <2>2 DEF StandsAt
<1>5. CASE k \in {"native", "hybrid"}
  <2> DEFINE m == NativeHeld(k, d)
  <2>1. m \in Nat /\ m >= d + 8
    BY <1>5 DEF NativeHeld, TailPad
  <2>2. Enter(k, r, d) = NativeNew(d, m, off)
    BY <1>2, <1>5 DEF Enter
  <2> HIDE DEF m
  <2>3. NativeRefill(fr, d, m) = w
    <3>1. ~(Len(fr.buf) >= WordBits) /\ ~(Larger(0, m - fr.pos) < 4)
      BY <1>3, <1>fr, <2>1 DEF WordBits, Larger
    <3> QED
      BY <3>1, <1>fr DEF NativeRefill
  <2>4. NativeNew(d, m, off) = IF b > m \/ ~w.ok THEN Raise(Fresh) ELSE Dropped(w, c)
    BY <2>3 DEF NativeNew, b, c, fr
  <2>5. ~(b > m)
    BY <1>3, <2>1
  <2> QED
    BY <2>2, <2>4, <2>5, <1>w, <1>4, <1>5
<1>6. CASE k = "check"
  <2>1. Smaller(4, Held(k, d) - b) = 4
    BY <1>3, <1>6 DEF Held, TailPad, Smaller
  <2>2. Enter(k, r, d) = PrimedNew(d, Held(k, d), off)
    BY <1>2, <1>6 DEF Enter
  <2>3. PrimedNew(d, Held(k, d), off) = Dropped(Load(fr, d, Smaller(4, Held(k, d) - b)), c)
    BY DEF PrimedNew, b, c, fr
  <2> QED
    BY <2>1, <2>2, <2>3, <1>fr, <1>4, <1>6
<1>7. CASE k \notin {"native", "hybrid", "check"}
  BY <1>7 DEF Enter
<1> QED
  BY <1>5, <1>6, <1>7

\* A loop that keeps 32 bits buffered has the bits of any code afterwards.
LEMMA WordAhead ==
  ASSUME NEW d \in Nat, NEW k \in Kinds \ {"stock", "t1"}, NEW off, NEW p, Place(off, p),
         Within(k, d, off, p), off <= 8 * d, NEW c \in 0..20
  PROVE  \/ /\ 8 * p - off >= 32 /\ off + c <= 8 * p
         \/ /\ 8 * p - off < 32 /\ p <= d + 3 /\ off + c <= 8 * (p + 4)
            /\ 8 * (p + 4) - off >= 32
            /\ Within(k, d, off, p + 4)
<1>1. off \in Nat /\ p \in Nat /\ off <= 8 * p
  BY DEF Place
<1>2. CASE 8 * p - off >= 32
  BY <1>1, <1>2
<1>3. CASE 8 * p - off < 32
  <2>1. p <= d + 3 /\ off + c <= 8 * (p + 4) /\ 8 * (p + 4) - off >= 32 /\ 8 * (p + 4) - off <= 63
    BY <1>1, <1>3
  <2>2. Within(k, d, off, p + 4)
    BY <1>1, <2>1 DEF Within
  <2> QED
    BY <1>3, <2>1, <2>2
<1> QED
  BY <1>1, <1>2, <1>3

\* What the loop of configuration k holds when the code is looked up.
Ahead(k, f, d, off, c) ==
  \E q \in Nat : f = Reader(d, off, q) /\ Place(off, q) /\ off + c <= 8 * q /\ Within(k, d, off, q)

LEMMA LoopRefill ==
  ASSUME NEW d \in Nat, NEW k \in Kinds \ {"stock", "t1"}, NEW off, NEW r,
         StandsAt(k, r, d, off), off <= 8 * d, NEW c \in 0..20
  PROVE  Ahead(k, BeforeSymbol(k, r, d, c), d, off, c)
<1>1. PICK p \in Nat : Place(off, p) /\ r = Reader(d, off, p) /\ Within(k, d, off, p)
  BY DEF StandsAt
<1>2. Len(r.buf) = 8 * p - off /\ r.pos = p
  BY <1>1, ReaderIs
<1>3. \/ /\ 8 * p - off >= 32 /\ off + c <= 8 * p
      \/ /\ 8 * p - off < 32 /\ p <= d + 3 /\ off + c <= 8 * (p + 4)
         /\ 8 * (p + 4) - off >= 32
         /\ Within(k, d, off, p + 4)
  BY <1>1, WordAhead
<1>0. off \in Nat /\ p \in Nat /\ off <= 8 * p
  BY <1>1 DEF Place
<1> DEFINE f == BeforeSymbol(k, r, d, c)
<1>4. Load(r, d, 4) = Reader(d, off, p + 4) /\ Place(off, p + 4)
  <2>1. Place(off, p) /\ r = Reader(d, off, p)
    BY <1>1
  <2>2. Load(Reader(d, off, p), d, 4) = Reader(d, off, p + 4) /\ Place(off, p + 4)
    BY <2>1, LoadIs
  <2> QED
    BY <2>1, <2>2
<1>5. CASE 8 * p - off >= 32
  <2>1. f = r
    <3>1. CASE k = "python"
      BY <1>2, <1>5, <3>1 DEF BeforeSymbol, LandedRefill, WordBits
    <3>2. CASE k \in {"native", "hybrid"}
      BY <1>2, <1>5, <3>2 DEF BeforeSymbol, NativeRefill, WordBits
    <3>3. CASE k \in {"t3", "check"}
      <4>1. TierRefill(r, d, Held(k, d)) = r
        BY <1>2, <1>5 DEF TierRefill, WordBits
      <4>2. ~(Len(r.buf) < PrimaryBits)
        BY <1>2, <1>5 DEF PrimaryBits, Place
      <4> QED
        BY <3>3, <4>1, <4>2 DEF BeforeSymbol
    <3> QED
      BY <3>1, <3>2, <3>3 DEF Kinds
  <2>2. off + c <= 8 * p
    BY <1>0, <1>3, <1>5
  <2> HIDE DEF f
  <2>3. Ahead(k, f, d, off, c)
    BY <1>0, <1>1, <2>1, <2>2 DEF Ahead
  <2> QED
    BY <2>3 DEF f
<1>6. CASE 8 * p - off < 32
  <2>1. f = Reader(d, off, p + 4)
    <3>1. CASE k = "python"
      <4>1. f = LoadWord(r, d)
        BY <1>2, <1>6, <3>1 DEF BeforeSymbol, LandedRefill, WordBits
      <4>2. p <= d + 4
        BY <1>0, <1>3, <1>6
      <4> QED
        BY <1>1, <4>1, <4>2, LoadWordIs
    <3>2. CASE k \in {"native", "hybrid"}
      <4> DEFINE m == NativeHeld(k, d)
      <4>1. m \in Nat /\ m >= d + 8
        BY <3>2 DEF NativeHeld, TailPad
      <4>2. f = NativeRefill(r, d, m)
        BY <3>2 DEF BeforeSymbol
      <4> HIDE DEF m
      <4>3. ~(Len(r.buf) >= WordBits) /\ ~(Larger(0, m - r.pos) < 4)
        BY <1>2, <1>3, <1>6, <4>1 DEF WordBits, Larger, Place
      <4> QED
        BY <1>4, <4>2, <4>3 DEF NativeRefill
    <3>3. CASE k \in {"t3", "check"}
      <4> DEFINE m == Held(k, d)
      <4>1. m = d + 8
        BY <3>3 DEF Held, TailPad
      <4> HIDE DEF m
      <4>2. Smaller(4, Larger(0, m - r.pos)) = 4
        BY <1>2, <1>3, <1>6, <4>1 DEF Smaller, Larger
      <4>3. TierRefill(r, d, m) = Reader(d, off, p + 4)
        BY <1>2, <1>4, <1>6, <4>2 DEF TierRefill, WordBits
      <4>4. Len(Reader(d, off, p + 4).buf) = 8 * (p + 4) - off
        BY <1>4, ReaderIs
      <4>5. ~(Len(Reader(d, off, p + 4).buf) < PrimaryBits)
        BY <1>0, <1>3, <1>6, <4>4 DEF PrimaryBits
      <4> QED
        BY <3>3, <4>3, <4>5 DEF BeforeSymbol, m
    <3> QED
      BY <3>1, <3>2, <3>3 DEF Kinds
  <2>2. p + 4 \in Nat
    OBVIOUS
  <2>3. off + c <= 8 * (p + 4) /\ Within(k, d, off, p + 4)
    BY <1>0, <1>3, <1>6
  <2> HIDE DEF f
  <2>4. Ahead(k, f, d, off, c)
    BY <1>4, <2>1, <2>2, <2>3 DEF Ahead
  <2> QED
    BY <2>4 DEF f
<1>7. 8 * p - off >= 32 \/ 8 * p - off < 32
  BY <1>1 DEF Place
<1> QED
  BY <1>5, <1>6, <1>7

\* One code of c bits, where the stream has them.
OneCodeRead(k, r, d, c) ==
  LET f == BeforeSymbol(k, r, d, c) IN IF f.ok THEN Dropped(f, c) ELSE f

LEMMA SymbolRead ==
  ASSUME NEW d \in Nat, NEW k \in Kinds \ {"stock"}, NEW off, NEW r, StandsAt(k, r, d, off),
         NEW c \in 0..20, off + c <= 8 * d
  PROVE  StandsAt(k, OneCodeRead(k, r, d, c), d, off + c)
<1> DEFINE f == BeforeSymbol(k, r, d, c)
<1>1. PICK p \in Nat : Place(off, p) /\ r = Reader(d, off, p) /\ Within(k, d, off, p)
  BY DEF StandsAt
<1>c. c \in Nat
  OBVIOUS
<1>2. Ahead(k, f, d, off, c)
  <2>1. CASE k = "t1"
    <3>1. f = TierFill(r, d, Held(k, d), c)
      BY <2>1 DEF BeforeSymbol, HeaderFill
    <3>2. k \in {"t1", "t3", "check", "hybrid"}
      BY <2>1
    <3>3. \E q \in Nat : /\ TierFill(Reader(d, off, p), d, Held(k, d), c) = Reader(d, off, q)
                         /\ Place(off, q) /\ off + c <= 8 * q /\ Within(k, d, off, q)
      BY <1>1, <1>c, <3>2, TierReads
    <3> QED
      BY <1>1, <3>1, <3>3 DEF Ahead
  <2>2. CASE k # "t1"
    <3>1. off <= 8 * d
      BY <1>1, <1>c DEF Place
    <3> QED
      BY <2>2, <3>1, LoopRefill
  <2> QED
    BY <2>1, <2>2
<1> HIDE DEF f
<1>3. PICK q \in Nat : f = Reader(d, off, q) /\ Place(off, q) /\ off + c <= 8 * q /\ Within(k, d, off, q)
  BY <1>2 DEF Ahead
<1>4. f.ok
  BY <1>3 DEF Reader
<1>5. OneCodeRead(k, r, d, c) = Dropped(Reader(d, off, q), c)
  BY <1>3, <1>4 DEF OneCodeRead, f
<1> QED
  BY <1>3, <1>5, <1>c, TakeBits

\* The header reader when the block is over stands where the block ended.
LEMMA LeaveIs ==
  ASSUME NEW d \in Nat, NEW k \in Kinds, NEW off, NEW r, StandsAt(k, r, d, off), off <= 8 * d
  PROVE  StandsAt(k, Leave(k, r, d), d, off)
<1>1. PICK p \in Nat : Place(off, p) /\ r = Reader(d, off, p) /\ Within(k, d, off, p)
  BY DEF StandsAt
<1>2. Offset(r) = off /\ off \in Nat
  BY <1>1, ReaderIs DEF Place
<1> DEFINE b == off \div 8
           c == off % 8
           placed == [Fresh EXCEPT !.pos = b]
<1>3. b \in Nat /\ b <= d /\ c \in 0..48 /\ c \in Nat /\ 8 * b + c = off /\ 8 * b + c <= 8 * d
      /\ 8 * b - 8 * b <= 63
  BY <1>2
<1>4. placed = Reader(d, 8 * b, b) /\ Place(8 * b, b)
  BY <1>3, FreshAt
<1>5. Within(k, d, 8 * b, b)
  <2> HIDE DEF b
  <2> QED
    BY <1>3 DEF Within
<1>6. CASE k = "native"
  <2>1. Leave(k, r, d) = IF c = 0 THEN placed ELSE LandedRead(placed, d, c)
    BY <1>2, <1>6 DEF Leave, LandedRestore
  <2> HIDE DEF b, c, placed
  <2>2. CASE c = 0
    <3>1. Leave(k, r, d) = Reader(d, 8 * b, b) /\ off = 8 * b
      BY <1>3, <1>4, <2>1, <2>2
    <3> QED
      BY <1>3, <1>4, <1>5, <3>1 DEF StandsAt
  <2>3. CASE c # 0
    <3> DEFINE a == 8 * b
    <3>0. Place(a, b) /\ 8 * b - a <= 63 /\ a + c <= 8 * d
      BY <1>3, <1>4
    <3> HIDE DEF a
    <3>1. PICK q \in Nat : /\ LandedRead(Reader(d, a, b), d, c) = Reader(d, a + c, q)
                          /\ Place(a + c, q) /\ 8 * q - (a + c) <= 63
      BY <1>3, <3>0, LandedReadIs
    <3>2. a + c = off /\ placed = Reader(d, a, b)
      BY <1>3, <1>4 DEF a
    <3>3. Leave(k, r, d) = Reader(d, off, q) /\ Place(off, q) /\ 8 * q - off <= 63
      BY <2>1, <2>3, <3>1, <3>2
    <3>4. Within(k, d, off, q)
      BY <1>6, <3>3 DEF Within
    <3> QED
      BY <3>3, <3>4 DEF StandsAt
  <2> QED
    BY <2>2, <2>3
<1>7. CASE k \in {"check", "hybrid"}
  <2> DEFINE f == TierFill(placed, d, Held(k, d), c)
  <2>1. Leave(k, r, d) = IF c = 0 THEN placed ELSE IF f.ok THEN Dropped(f, c) ELSE f
    BY <1>2, <1>7 DEF Leave, SeekBits
  <2> HIDE DEF b, c, placed
  <2>2. CASE c = 0
    <3>1. Leave(k, r, d) = Reader(d, 8 * b, b) /\ off = 8 * b
      BY <1>3, <1>4, <2>1, <2>2
    <3> QED
      BY <1>3, <1>4, <1>5, <3>1 DEF StandsAt
  <2>3. CASE c # 0
    <3> DEFINE a == 8 * b
    <3>0. Place(a, b) /\ Within(k, d, a, b) /\ a + c <= 8 * d /\ k \in {"t1", "t3", "check", "hybrid"}
      BY <1>3, <1>4, <1>5, <1>7
    <3> HIDE DEF a
    <3>1. PICK q \in Nat : /\ TierFill(Reader(d, a, b), d, Held(k, d), c) = Reader(d, a, q)
                          /\ Place(a, q) /\ a + c <= 8 * q /\ Within(k, d, a, q)
      BY <1>3, <3>0, TierReads
    <3>2. a + c = off /\ placed = Reader(d, a, b)
      BY <1>3, <1>4 DEF a
    <3>3. f = Reader(d, a, q)
      BY <3>1, <3>2
    <3> HIDE DEF f
    <3>4. f.ok
      BY <3>3 DEF Reader
    <3>5. StandsAt(k, Dropped(Reader(d, a, q), c), d, a + c)
      BY <1>3, <3>1, TakeBits
    <3> QED
      BY <2>1, <2>3, <3>2, <3>3, <3>4, <3>5
  <2> QED
    BY <2>2, <2>3
<1>8. CASE k \notin {"native", "check", "hybrid"}
  BY <1>8 DEF Leave
<1> QED
  BY <1>6, <1>7, <1>8

-----------------------------------------------------------------------------
\* As long as the stock reader has not raised, every configuration's reader
\* stands at one bit of the stream.
AllAt(off) == /\ off <= 8 * n
              /\ \A k \in Kinds : StandsAt(k, readers[k], n, off)
ReadersInv ==
  /\ n \in Nat
  /\ readers["stock"].ok => count = readers["stock"].pos - 2 /\ \E off \in Nat : AllAt(off)

LEMMA ReadersInvInit == ReadersInit => ReadersInv
<1> SUFFICES ASSUME ReadersInit PROVE ReadersInv
  OBVIOUS
<1>n. n \in Nat
  BY ReadersAssumption DEF ReadersInit
<1>s. "stock" \in Kinds
  BY DEF Kinds
<1>1. Fresh = Reader(n, 0, 0) /\ Place(0, 0)
  <2>1. [Fresh EXCEPT !.pos = 0] = Reader(n, 8 * 0, 0) /\ Place(8 * 0, 0)
    BY <1>n, FreshAt
  <2>2. [Fresh EXCEPT !.pos = 0] = Fresh
    BY DEF Fresh
  <2> QED
    BY <2>1, <2>2
<1>2. ASSUME NEW k \in Kinds PROVE StandsAt(k, Fresh, n, 0)
  <2>1. Within(k, n, 0, 0)
    BY <1>n DEF Within
  <2> QED
    BY <1>1, <2>1 DEF StandsAt
<1>3. \A k \in Kinds : readers[k] = HeaderRead(k, Fresh, n, 16)
  BY DEF ReadersInit, MagicBits
<1> DEFINE f == StockFill(Fresh, n, 16)
<1>4. readers["stock"] = IF f.ok THEN Dropped(f, 16) ELSE f
  BY <1>s, <1>3 DEF HeaderRead, HeaderFill
<1>5. CASE ~f.ok
  BY <1>n, <1>4, <1>5 DEF ReadersInv
<1>6. CASE f.ok
  <2>1. f = Reader(n, 0, 2) /\ Place(0, 2)
    <3>1. Missing(Fresh, 16) = 16
      BY DEF Missing, Fresh, Larger
    <3>2. CeilDiv(16, 8) = 2
      BY DEF CeilDiv
    <3>3. f = IF Fresh.pos + 2 > n THEN Raise(Fresh) ELSE Load(Fresh, n, 2)
      BY <3>1, <3>2 DEF StockFill
    <3>4. ~Raise(Fresh).ok
      BY DEF Raise, Fresh
    <3>5. f = Load(Fresh, n, 2)
      BY <1>6, <3>3, <3>4
    <3> HIDE DEF f
    <3>6. f = Load(Reader(n, 0, 0), n, 2)
      BY <1>1, <3>5
    <3>7. Load(Reader(n, 0, 0), n, 2) = Reader(n, 0, 0 + 2) /\ Place(0, 0 + 2)
      BY <1>n, <1>1, LoadIs
    <3> QED
      BY <3>6, <3>7
  <2> HIDE DEF f
  <2>2. f = StockFill(Fresh, n, 16)
    BY DEF f
  <2>3. 0 + 16 <= 8 * n /\ StandsAt("stock", Dropped(f, 16), n, 0 + 16)
    <3>1. StandsAt("stock", Fresh, n, 0)
      BY <1>s, <1>2
    <3> QED
      BY <1>n, <1>6, <2>2, <3>1, StockRead
  <2>4. ASSUME NEW k \in Kinds \ {"stock"} PROVE StandsAt(k, readers[k], n, 16)
    <3>1. StandsAt(k, HeaderRead(k, Fresh, n, 16), n, 0 + 16)
      BY <1>n, <1>2, <2>3, FieldRead
    <3> QED
      BY <1>3, <3>1
  <2>5. AllAt(16)
    BY <1>4, <1>6, <2>3, <2>4 DEF AllAt
  <2>6. Dropped(f, 16).pos = 2
    <3>1. Dropped(Reader(n, 0, 2), 16) = Reader(n, 0 + 16, 2)
      BY <1>n, <2>1, DropIs
    <3> QED
      BY <2>1, <3>1 DEF Reader
  <2>7. count = readers["stock"].pos - 2
    BY <1>4, <1>6, <2>6 DEF ReadersInit
  <2> QED
    BY <1>n, <2>5, <2>7 DEF ReadersInv
<1> QED
  BY <1>5, <1>6

\* The byte a standing reader loads next is a number, and dropping bits keeps it.
LEMMA StandsPos ==
  ASSUME NEW d, NEW k, NEW off, NEW r, StandsAt(k, r, d, off), NEW c
  PROVE  r.pos \in Nat /\ Dropped(r, c).pos = r.pos
BY DEF StandsAt, Reader, Dropped

LEMMA ReadersInvNext == ReadersInv /\ [ReadersNext]_readerVars => ReadersInv'
<1> SUFFICES ASSUME ReadersInv, [ReadersNext]_readerVars PROVE ReadersInv'
  OBVIOUS
<1>n. n \in Nat
  BY DEF ReadersInv
<1>s. "stock" \in Kinds
  BY DEF Kinds
<1>1. ASSUME NEW c \in Fields, ReadField(c) PROVE ReadersInv'
  <2>c. c \in Nat /\ c \in 0..48
    BY ReadersAssumption
  <2>1. PICK off \in Nat : AllAt(off)
    BY <1>1 DEF ReadField, ReadersInv
  <2>2. \A k \in Kinds : readers'[k] = HeaderRead(k, readers[k], n, c) /\ n' = n
    BY <1>1 DEF ReadField
  <2> DEFINE f == StockFill(readers["stock"], n, c)
  <2>3. readers'["stock"] = IF f.ok THEN Dropped(f, c) ELSE f
    BY <1>s, <2>2 DEF HeaderRead, HeaderFill
  <2>4. CASE ~f.ok
    BY <1>n, <1>s, <2>2, <2>3, <2>4 DEF ReadersInv
  <2>5. CASE f.ok
    <3>1. StandsAt("stock", readers["stock"], n, off)
      BY <1>s, <2>1 DEF AllAt
    <3>2. off + c <= 8 * n /\ StandsAt("stock", readers'["stock"], n, off + c)
      <4> HIDE DEF f
      <4>1. f = StockFill(readers["stock"], n, c)
        BY DEF f
      <4>2. off + c <= 8 * n /\ StandsAt("stock", Dropped(f, c), n, off + c)
        BY <1>n, <2>c, <2>5, <3>1, <4>1, StockRead
      <4> QED
        BY <2>3, <2>5, <4>2
    <3>3. ASSUME NEW k \in Kinds \ {"stock"} PROVE StandsAt(k, readers'[k], n, off + c)
      <4>1. StandsAt(k, readers[k], n, off)
        BY <2>1 DEF AllAt
      <4>2. StandsAt(k, HeaderRead(k, readers[k], n, c), n, off + c)
        BY <1>n, <2>c, <3>2, <4>1, FieldRead
      <4> QED
        BY <2>2, <4>2
    <3>4. AllAt(off + c)'
      BY <1>s, <2>2, <3>2, <3>3 DEF AllAt
    <3>5. off + c \in Nat
      BY <2>c
    <3>6. (count = readers["stock"].pos - 2)'
      <4>1. readers["stock"].pos \in Nat /\ readers'["stock"].pos \in Nat
        BY <3>1, <3>2, StandsPos
      <4>2. count = readers["stock"].pos - 2
        BY <1>1 DEF ReadField, ReadersInv
      <4>3. count' = count + readers'["stock"].pos - readers["stock"].pos
        BY <1>1 DEF ReadField, Counts
      <4> QED
        BY <4>1, <4>2, <4>3
    <3> QED
      BY <1>n, <1>s, <2>2, <3>4, <3>5, <3>6 DEF ReadersInv
  <2> QED
    BY <2>4, <2>5
<1>2. ASSUME NEW c \in Codes, Symbol(c) PROVE ReadersInv'
  <2>c. c \in Nat /\ c \in 0..20
    BY ReadersAssumption
  <2>1. PICK off \in Nat : AllAt(off)
    BY <1>2 DEF Symbol, ReadersInv
  <2>2. \A k \in Kinds : readers'[k] = OneCodeRead(k, readers[k], n, c) /\ n' = n
    BY <1>2 DEF Symbol, OneCodeRead
  <2> DEFINE f == StockFill(readers["stock"], n, c)
  <2>3. readers'["stock"] = IF f.ok THEN Dropped(f, c) ELSE f
    BY <1>s, <2>2 DEF OneCodeRead, BeforeSymbol, HeaderFill
  <2>4. CASE ~f.ok
    BY <1>n, <1>s, <2>2, <2>3, <2>4 DEF ReadersInv
  <2>5. CASE f.ok
    <3>1. StandsAt("stock", readers["stock"], n, off)
      BY <1>s, <2>1 DEF AllAt
    <3>2. off + c <= 8 * n /\ StandsAt("stock", readers'["stock"], n, off + c)
      <4> HIDE DEF f
      <4>1. f = StockFill(readers["stock"], n, c)
        BY DEF f
      <4>2. off + c <= 8 * n /\ StandsAt("stock", Dropped(f, c), n, off + c)
        BY <1>n, <2>c, <2>5, <3>1, <4>1, StockRead
      <4> QED
        BY <2>3, <2>5, <4>2
    <3>3. ASSUME NEW k \in Kinds \ {"stock"} PROVE StandsAt(k, readers'[k], n, off + c)
      <4>1. StandsAt(k, readers[k], n, off)
        BY <2>1 DEF AllAt
      <4>2. StandsAt(k, OneCodeRead(k, readers[k], n, c), n, off + c)
        BY <1>n, <2>c, <3>2, <4>1, SymbolRead
      <4> QED
        BY <2>2, <4>2
    <3>4. AllAt(off + c)'
      BY <1>s, <2>2, <3>2, <3>3 DEF AllAt
    <3>5. off + c \in Nat
      BY <2>c
    <3>6. (count = readers["stock"].pos - 2)'
      <4>1. readers["stock"].pos \in Nat /\ readers'["stock"].pos \in Nat
        BY <3>1, <3>2, StandsPos
      <4>2. count = readers["stock"].pos - 2
        BY <1>2 DEF Symbol, ReadersInv
      <4>3. count' = count + readers'["stock"].pos - readers["stock"].pos
        BY <1>2 DEF Symbol, Counts
      <4> QED
        BY <4>1, <4>2, <4>3
    <3> QED
      BY <1>n, <1>s, <2>2, <3>4, <3>5, <3>6 DEF ReadersInv
  <2> QED
    BY <2>4, <2>5
<1>3. CASE Align
  <2>1. PICK off \in Nat : AllAt(off)
    BY <1>3 DEF Align, ReadersInv
  <2>2. \A k \in Kinds : readers'[k] = Dropped(readers[k], Len(readers[k].buf) % 8) /\ n' = n
    BY <1>3 DEF Align
  <2>3. ASSUME NEW k \in Kinds PROVE StandsAt(k, readers'[k], n, NextByte(off))
    <3>1. StandsAt(k, readers[k], n, off)
      BY <2>1 DEF AllAt
    <3>2. StandsAt(k, Dropped(readers[k], Len(readers[k].buf) % 8), n, NextByte(off))
      BY <1>n, <3>1, AlignIs
    <3> QED
      BY <2>2, <3>2
  <2>4. NextByte(off) \in Nat /\ NextByte(off) <= 8 * n
    <3>1. off <= 8 * n
      BY <2>1 DEF AllAt
    <3> QED
      BY <1>n, <3>1 DEF NextByte, CeilDiv
  <2>5. AllAt(NextByte(off))'
    BY <1>s, <2>2, <2>3, <2>4 DEF AllAt
  <2>6. (count = readers["stock"].pos - 2)'
    <3>1. StandsAt("stock", readers["stock"], n, off)
      BY <1>s, <2>1 DEF AllAt
    <3>2. readers'["stock"].pos = readers["stock"].pos
      <4> DEFINE c == Len(readers["stock"].buf) % 8
      <4>1. readers'["stock"] = Dropped(readers["stock"], c)
        BY <1>s, <2>2
      <4> HIDE DEF c
      <4>2. Dropped(readers["stock"], c).pos = readers["stock"].pos
        BY <3>1, StandsPos
      <4> QED
        BY <4>1, <4>2
    <3> QED
      BY <1>3, <3>2 DEF Align, ReadersInv
  <2> QED
    BY <1>n, <1>s, <2>2, <2>4, <2>5, <2>6 DEF ReadersInv
<1>4. CASE EnterBlock
  <2>1. PICK off \in Nat : AllAt(off)
    BY <1>4 DEF EnterBlock, ReadersInv
  <2>2. \A k \in Kinds : readers'[k] = Enter(k, readers[k], n) /\ n' = n
    BY <1>4 DEF EnterBlock
  <2>3. ASSUME NEW k \in Kinds PROVE StandsAt(k, readers'[k], n, off)
    <3>1. StandsAt(k, readers[k], n, off) /\ off <= 8 * n
      BY <2>1 DEF AllAt
    <3>2. StandsAt(k, Enter(k, readers[k], n), n, off)
      BY <1>n, <3>1, EnterIs
    <3> QED
      BY <2>2, <3>2
  <2>4. AllAt(off)'
    BY <1>s, <2>1, <2>2, <2>3 DEF AllAt
  <2>5. (count = readers["stock"].pos - 2)'
    <3>1. readers'["stock"] = readers["stock"]
      BY <1>s, <2>2 DEF Enter
    <3> QED
      BY <1>4, <3>1 DEF EnterBlock, ReadersInv
  <2> QED
    BY <1>n, <1>s, <2>2, <2>4, <2>5 DEF ReadersInv
<1>5. CASE LeaveBlock
  <2>1. PICK off \in Nat : AllAt(off)
    BY <1>5 DEF LeaveBlock, ReadersInv
  <2>2. \A k \in Kinds : readers'[k] = Leave(k, readers[k], n) /\ n' = n
    BY <1>5 DEF LeaveBlock
  <2>3. ASSUME NEW k \in Kinds PROVE StandsAt(k, readers'[k], n, off)
    <3>1. StandsAt(k, readers[k], n, off) /\ off <= 8 * n
      BY <2>1 DEF AllAt
    <3>2. StandsAt(k, Leave(k, readers[k], n), n, off)
      BY <1>n, <3>1, LeaveIs
    <3> QED
      BY <2>2, <3>2
  <2>4. AllAt(off)'
    BY <1>s, <2>1, <2>2, <2>3 DEF AllAt
  <2>5. (count = readers["stock"].pos - 2)'
    <3>1. readers'["stock"] = readers["stock"]
      BY <1>s, <2>2 DEF Leave
    <3> QED
      BY <1>5, <3>1 DEF LeaveBlock, ReadersInv
  <2> QED
    BY <1>n, <1>s, <2>2, <2>4, <2>5 DEF ReadersInv
<1>6. CASE UNCHANGED readerVars
  BY <1>6 DEF readerVars, ReadersInv, AllAt
<1> QED
  BY <1>1, <1>2, <1>3, <1>4, <1>5, <1>6 DEF ReadersNext

\* tellbits() and remainder() depend on the place in the stream and on the bytes
\* counted alone: a reader that counted short says as much too little.
LEMMA TellIs ==
  ASSUME NEW d \in Nat, NEW off, NEW p, Place(off, p), NEW short \in Int
  PROVE  /\ TellBits(Reader(d, off, p), p - short) = off - 8 * short
         /\ off % 8 = 0 => 8 * Remainder(Reader(d, off, p)) = off
<1> DEFINE r == Reader(d, off, p)
           l == Len(r.buf)
<1>1. r.pos = p /\ l = 8 * p - off
  BY ReaderIs
<1>2. off \in Nat /\ p \in Nat /\ off <= 8 * p
  BY DEF Place
<1>3. /\ TellBits(r, p - short) = 8 * (p - short - ((l + 7) \div 8)) + 7 - ((l - 1) % 8)
      /\ Remainder(r) = p - (l \div 8)
  BY <1>1 DEF TellBits, Remainder
<1> HIDE DEF l, r
<1>4. p - ((l + 7) \div 8) = off \div 8
  BY <1>1, <1>2
<1>5. 7 - ((l - 1) % 8) = off % 8
  BY <1>1, <1>2
<1>6. off % 8 = 0 => 8 * (p - (l \div 8)) = off
  BY <1>1, <1>2
<1>7. 8 * (p - short - ((l + 7) \div 8)) + 7 - ((l - 1) % 8) = off - 8 * short
  BY <1>1, <1>2, <1>4, <1>5
<1> QED
  BY <1>3, <1>6, <1>7 DEF r

LEMMA ReadersInvSameBits == ReadersInv => SameBits
<1> SUFFICES ASSUME ReadersInv, readers["stock"].ok PROVE SameBits
  BY DEF SameBits
<1>n. n \in Nat
  BY DEF ReadersInv
<1>1. PICK off \in Nat : AllAt(off)
  BY DEF ReadersInv
<1> DEFINE Short(k) == IF k = "stock" THEN 2 ELSE 0
<1>2. ASSUME NEW k \in Kinds
      PROVE  /\ readers[k].ok
             /\ readers[k].buf = BitsFrom(n, Offset(readers[k]), 8 * readers[k].pos)
             /\ Offset(readers[k]) = off
             /\ TellBits(readers[k], Counted(k)) = off - 8 * Short(k)
             /\ off % 8 = 0 => 8 * Remainder(readers[k]) = off
  <2>1. PICK p \in Nat : Place(off, p) /\ readers[k] = Reader(n, off, p)
    BY <1>1 DEF AllAt, StandsAt
  <2>2. /\ Reader(n, off, p).pos = p
        /\ Reader(n, off, p).buf = BitsFrom(n, off, 8 * p)
        /\ Offset(Reader(n, off, p)) = off
    BY <1>n, <2>1, ReaderIs
  <2>3. Counted(k) = p - Short(k)
    BY <2>1, <2>2 DEF Counted, ReadersInv
  <2>4. Short(k) \in Int
    OBVIOUS
  <2> HIDE DEF Short
  <2>5. /\ TellBits(Reader(n, off, p), p - Short(k)) = off - 8 * Short(k)
        /\ off % 8 = 0 => 8 * Remainder(Reader(n, off, p)) = off
    BY <1>n, <2>1, <2>4, TellIs
  <2>6. Reader(n, off, p).ok
    BY DEF Reader
  <2> QED
    BY <2>1, <2>2, <2>3, <2>5, <2>6
<1>3. "stock" \in Kinds
  BY DEF Kinds
<1> QED
  BY <1>2, <1>3 DEF SameBits, MagicBits

LEMMA StreamReaders ==
  /\ StreamInit => ReadersInit
  /\ [StreamNext]_streamVars => [ReadersNext]_readerVars
BY DEF StreamInit, StreamNext, streamVars, readerVars, Magic

\* The readers of the stock decoder, of its tiers and of the native back ends:
\* for streams, header fields and codes of any length, in any order of fields,
\* alignments and blocks, they hand out the same bits and stand on the same
\* bit, and none of them raises before the stock reader does.  tellbits() of each
\* names that bit, but for the stock reader's, always sixteen bits short of it.
THEOREM ReadersAgree == StreamSpec => []SameBits
BY ReadersInvInit, ReadersInvNext, ReadersInvSameBits, StreamReaders, PTL DEF StreamSpec

-----------------------------------------------------------------------------
(* The release run.                                                          *)

StageNames == {TimedStages[i] : i \in DOMAIN TimedStages}
Everything == BenchSet \X StageNames
PCs == {"none", "crate", "stage", "prove", "native", "suite_end", "wheels", "summary",
        "checks", "complete", "raised"}
Owners == Runs \cup {Before, Nothing}

Workers ==
  [pc : PCs, bench : 1..Len(Benches), stage : 1..5,
   failed : SUBSET Everything, artifacts : SUBSET Everything,
   record : [BenchSet -> Owners], module : [BenchSet -> Owners],
   timed : [BenchSet -> Owners], protocol : [BenchSet -> Owners], checked : BOOLEAN]
WorkerTypes == workers \in [Runs -> Workers]
HostTypes == installed \in [BenchSet -> Owners] /\ overlap \subseteq Runs /\ fetched \subseteq Runs

\* Where the worker is in vm_run_all.sh: prove is the wheel stage's second half,
\* native the native stage's.
StagesInOrder(w) ==
  /\ w.pc = "crate" => w.bench = 1 /\ w.stage = 1
  /\ w.pc = "prove" => w.stage = 4
  /\ w.pc = "native" => w.stage = 5

\* Every stage behind the worker has passed or is counted as failed.
Met(w, i, j) == <<Benches[i], TimedStages[j]>> \in w.artifacts \cup w.failed
Tallied(w) ==
  /\ w.pc \in {"stage", "prove", "native"} =>
       \A i \in 1..Len(Benches), j \in 1..5 :
         i < w.bench \/ (i = w.bench /\ j < w.stage) => Met(w, i, j)
  /\ w.pc = "suite_end" => \A i \in 1..Len(Benches), j \in 1..5 : Met(w, i, j)

\* A wheel stage that passed has recorded the run's own extension.
OwnRecord(r, w) ==
  \A b \in BenchSet : <<b, "wheel">> \in w.artifacts => w.record[b] = r \/ <<b, "wheel">> \in w.failed

\* Behind the suite nothing has failed and everything is there.
Vouched(r, w) ==
  /\ w.pc \in {"wheels", "summary", "checks", "complete"} =>
       w.failed = {} /\ w.artifacts = Everything
  /\ w.pc \in {"summary", "checks", "complete"} => \A b \in BenchSet : w.protocol[b] = r
  /\ w.pc = "complete" => w.checked

\* Two active workers have overlapped; without that an installed extension stays
\* until the run ends, and the native stage loads and times it.
Alone ==
  \A r, s \in Runs : Active(r) /\ Active(s) /\ r # s => r \in overlap /\ s \in overlap
Running(w) == w.pc \notin {"none", "complete", "raised"}
OwnExtension(r, w) ==
  r \notin overlap /\ w.failed = {} =>
    /\ Running(w) => \A b \in BenchSet : <<b, "wheel">> \in w.artifacts => installed[b] = r
    /\ w.pc = "native" => w.module[Benches[w.bench]] = r /\ installed[Benches[w.bench]] = r
    /\ \A b \in BenchSet : <<b, "native">> \in w.artifacts => w.module[b] = r /\ w.timed[b] = r

WorkerInv(r, w) ==
  StagesInOrder(w) /\ Tallied(w) /\ OwnRecord(r, w) /\ Vouched(r, w) /\ OwnExtension(r, w)

ReleaseInv ==
  /\ WorkerTypes /\ HostTypes /\ Alone
  /\ \A r \in Runs : WorkerInv(r, workers[r])
  /\ \A r \in fetched : At(r, "complete")

LEMMA Stages5 ==
  /\ Len(TimedStages) = 5 /\ DOMAIN TimedStages = 1..5
  /\ TimedStages[1] = "baseline" /\ TimedStages[2] = "optimized" /\ TimedStages[3] = "compare"
  /\ TimedStages[4] = "wheel" /\ TimedStages[5] = "native"
  /\ StageNames = {"baseline", "optimized", "compare", "wheel", "native"}
BY DEF TimedStages, StageNames

LEMMA ReleaseInvHolds == ReleaseInv => CompleteIsChecked
<1> SUFFICES ASSUME ReleaseInv, NEW r \in Runs
             PROVE  /\ At(r, "complete") =>
                         /\ workers[r].failed = {} /\ workers[r].checked
                         /\ workers[r].artifacts = Everything
                         /\ \A b \in BenchSet : workers[r].protocol[b] = r
                         /\ r \notin overlap => \A b \in BenchSet : workers[r].module[b] = r
                                                                    /\ workers[r].timed[b] = r
                    /\ r \in fetched => At(r, "complete")
  BY DEF CompleteIsChecked, Everything, StageNames
<1>1. r \in fetched => At(r, "complete")
  BY DEF ReleaseInv
<1>2. WorkerInv(r, workers[r])
  BY DEF ReleaseInv
<1>3. ASSUME At(r, "complete"), r \notin overlap, NEW b \in BenchSet
      PROVE  workers[r].module[b] = r /\ workers[r].timed[b] = r
  <2>1. <<b, "native">> \in Everything
    BY Stages5 DEF Everything
  <2> QED
    BY <1>2, <1>3, <2>1 DEF WorkerInv, Vouched, OwnExtension, At
<1> QED
  BY <1>1, <1>2, <1>3 DEF WorkerInv, Vouched, At

\* A stage ends, one way or the other: the next one finds it counted.
LEMMA NextStageFacts ==
  ASSUME NEW x \in Workers, x.pc \in {"stage", "prove", "native"}, NEW r \in Runs,
         OwnRecord(r, x), Met(x, x.bench, x.stage), OwnExtension(r, x),
         \A i \in 1..Len(Benches), j \in 1..5 :
           i < x.bench \/ (i = x.bench /\ j < x.stage) => Met(x, i, j)
  PROVE  NextStage(x) \in Workers /\ WorkerInv(r, NextStage(x)) /\ Running(NextStage(x))
<1> USE Stages5, BenchAssumption
<1>1. /\ x.bench \in 1..Len(Benches) /\ x.stage \in 1..5
  BY DEF Workers
<1>2. CASE x.stage < 5
  <2> DEFINE y == [x EXCEPT !.pc = "stage", !.stage = @ + 1]
  <2>1. NextStage(x) = y
    BY <1>2 DEF NextStage
  <2>2. x.stage + 1 \in 1..5
    BY <1>1, <1>2
  <2>3. y \in Workers
    BY <2>2 DEF Workers, PCs
  <2>4. y.pc = "stage" /\ y.stage = x.stage + 1 /\ y.bench = x.bench /\ y.artifacts = x.artifacts
        /\ y.failed = x.failed /\ y.record = x.record /\ y.module = x.module /\ y.timed = x.timed
    BY DEF Workers
  <2> HIDE DEF y
  <2>5. Tallied(y)
    <3> SUFFICES ASSUME NEW i \in 1..Len(Benches), NEW j \in 1..5,
                        i < x.bench \/ (i = x.bench /\ j < x.stage + 1)
                 PROVE  Met(y, i, j)
      BY <2>4 DEF Tallied
    <3>1. Met(x, i, j)
      BY <1>1
    <3> QED
      BY <2>4, <3>1 DEF Met
  <2> QED
    BY <2>1, <2>3, <2>4, <2>5
    DEF WorkerInv, StagesInOrder, OwnRecord, Vouched, OwnExtension, Running
<1>3. CASE x.stage = 5 /\ x.bench < Len(Benches)
  <2> DEFINE y == [x EXCEPT !.pc = "stage", !.stage = 1, !.bench = @ + 1]
  <2>1. NextStage(x) = y
    BY <1>3 DEF NextStage
  <2>2. x.bench + 1 \in 1..Len(Benches) /\ 1 \in 1..5 /\ "stage" \in PCs
    BY <1>1, <1>3 DEF PCs
  <2>3. y \in Workers
    <3> DEFINE q == x.bench + 1
    <3>1. y = [x EXCEPT !.pc = "stage", !.stage = 1, !.bench = q]
      OBVIOUS
    <3> HIDE DEF q, y
    <3>2. q \in 1..Len(Benches)
      BY <2>2 DEF q
    <3> QED
      BY <2>2, <3>1, <3>2 DEF Workers
  <2>4. y.pc = "stage" /\ y.stage = 1 /\ y.bench = x.bench + 1 /\ y.artifacts = x.artifacts
        /\ y.failed = x.failed /\ y.record = x.record /\ y.module = x.module /\ y.timed = x.timed
    BY DEF Workers
  <2> HIDE DEF y
  <2>5. Tallied(y)
    <3> SUFFICES ASSUME NEW i \in 1..Len(Benches), NEW j \in 1..5,
                        i < x.bench + 1 \/ (i = x.bench + 1 /\ j < 1)
                 PROVE  Met(y, i, j)
      BY <2>4 DEF Tallied
    <3>1. CASE i < x.bench \/ (i = x.bench /\ j < x.stage)
      BY <3>1, <2>4 DEF Met
    <3>2. CASE i = x.bench /\ j = x.stage
      BY <3>2, <2>4 DEF Met
    <3>3. i < x.bench \/ i = x.bench
      BY <1>1
    <3>4. j < x.stage \/ j = x.stage
      BY <1>1, <1>3
    <3> QED
      BY <3>1, <3>2, <3>3, <3>4
  <2> QED
    BY <2>1, <2>3, <2>4, <2>5
    DEF WorkerInv, StagesInOrder, OwnRecord, Vouched, OwnExtension, Running
<1>4. CASE x.stage = 5 /\ x.bench = Len(Benches)
  <2> DEFINE y == [x EXCEPT !.pc = "suite_end"]
  <2>1. NextStage(x) = y
    BY <1>4 DEF NextStage
  <2>2. y \in Workers
    BY DEF Workers, PCs
  <2>3. y.pc = "suite_end" /\ y.stage = x.stage /\ y.bench = x.bench /\ y.artifacts = x.artifacts
        /\ y.failed = x.failed /\ y.record = x.record /\ y.module = x.module /\ y.timed = x.timed
    BY DEF Workers
  <2> HIDE DEF y
  <2>4. Tallied(y)
    <3> SUFFICES ASSUME NEW i \in 1..Len(Benches), NEW j \in 1..5
                 PROVE  Met(y, i, j)
      BY <2>3 DEF Tallied
    <3> DEFINE q == Len(Benches)
    <3>1. q \in Nat /\ i \in 1..q
      OBVIOUS
    <3> HIDE DEF q
    <3>2. (i < q \/ i = q) /\ (j < 5 \/ j = 5)
      BY <3>1
    <3>3. Met(x, i, j)
      BY <1>4, <3>2 DEF q
    <3> QED
      BY <2>3, <3>3 DEF Met
  <2> QED
    BY <2>1, <2>2, <2>3, <2>4
    DEF WorkerInv, StagesInOrder, OwnRecord, Vouched, OwnExtension, Running
<1> QED
  BY <1>1, <1>2, <1>3, <1>4

\* A step of one worker that leaves the host alone.
LEMMA OwnStep ==
  ASSUME ReleaseInv, NEW r \in Runs, NEW w \in Workers, WorkerInv(r, w),
         Running(w) => Active(r), ~At(r, "complete"), Update(r, w),
         UNCHANGED <<installed, fetched, overlap>>
  PROVE  ReleaseInv'
<1>1. workers' \in [Runs -> Workers] /\ workers'[r] = w
      /\ \A s \in Runs \ {r} : workers'[s] = workers[s]
  BY DEF ReleaseInv, WorkerTypes, Update
<1>2. WorkerTypes' /\ HostTypes'
  BY <1>1 DEF ReleaseInv, WorkerTypes, HostTypes
<1>3. \A s \in Runs : Active(s)' => Active(s)
  BY <1>1 DEF Active, Running
<1>4. Alone'
  BY <1>3 DEF ReleaseInv, Alone
<1>5. ASSUME NEW s \in Runs PROVE WorkerInv(s, workers[s])'
  <2>1. \/ s = r /\ workers'[s] = w
        \/ workers'[s] = workers[s]
    BY <1>1
  <2>2. WorkerInv(s, workers'[s])
    BY <2>1 DEF ReleaseInv
  <2> QED
    BY <2>2 DEF WorkerInv, OwnExtension, StagesInOrder, Tallied, OwnRecord, Vouched, Met, Running
<1>6. \A s \in fetched' : At(s, "complete")'
  BY <1>1 DEF ReleaseInv, HostTypes, At
<1> QED
  BY <1>2, <1>4, <1>5, <1>6 DEF ReleaseInv

\* What the stage under way is.
LEMMA StageFacts ==
  ASSUME ReleaseInv, NEW r \in Runs, workers[r].pc \in {"stage", "prove", "native"}
  PROVE  /\ workers[r] \in Workers /\ WorkerInv(r, workers[r]) /\ Active(r)
         /\ Bench(r) \in BenchSet /\ StageName(r) \in StageNames
         /\ <<Bench(r), StageName(r)>> \in Everything
         /\ workers[r].pc = "prove" => StageName(r) = "wheel"
         /\ workers[r].pc = "native" => StageName(r) = "native"
         /\ StageName(r) = "native" => workers[r].stage = 5
<1>1. workers[r] \in Workers /\ WorkerInv(r, workers[r]) /\ Active(r)
  BY DEF ReleaseInv, WorkerTypes, Active
<1>2. workers[r].bench \in 1..Len(Benches) /\ workers[r].stage \in 1..5
  BY <1>1 DEF Workers
<1>3. Bench(r) \in BenchSet /\ StageName(r) \in StageNames
  BY <1>2, BenchAssumption, Stages5 DEF Bench, StageName, BenchSet, StageNames
<1>4. StageName(r) = "native" => workers[r].stage = 5
  BY <1>2, Stages5 DEF StageName
<1> QED
  BY <1>1, <1>3, <1>4, Stages5 DEF WorkerInv, StagesInOrder, StageName, Everything

\* A stage of vm_run_all.sh ends in a worker x: it has passed or is counted, and
\* what it claims about the extension is true.
LEMMA StageEnds ==
  ASSUME ReleaseInv, NEW r \in Runs, workers[r].pc \in {"stage", "prove", "native"},
         NEW x \in Workers, Update(r, NextStage(x)), UNCHANGED <<installed, fetched, overlap>>,
         x.pc = workers[r].pc, x.bench = workers[r].bench, x.stage = workers[r].stage,
         \/ /\ x.artifacts = workers[r].artifacts \cup {<<Bench(r), StageName(r)>>}
            /\ x.failed = workers[r].failed
         \/ /\ x.artifacts = workers[r].artifacts
            /\ x.failed = workers[r].failed \cup {<<Bench(r), StageName(r)>>},
         OwnRecord(r, x), OwnExtension(r, x)
  PROVE  ReleaseInv'
<1>1. WorkerInv(r, workers[r]) /\ Active(r)
  BY StageFacts
<1>2. Met(x, x.bench, x.stage)
  BY DEF Met, Bench, StageName
<1>3. \A i \in 1..Len(Benches), j \in 1..5 :
        i < x.bench \/ (i = x.bench /\ j < x.stage) => Met(x, i, j)
  BY <1>1 DEF WorkerInv, Tallied, Met
<1>4. NextStage(x) \in Workers /\ WorkerInv(r, NextStage(x)) /\ Running(NextStage(x))
  BY <1>2, <1>3, NextStageFacts
<1>5. ~At(r, "complete")
  BY DEF At
<1> QED
  BY <1>1, <1>4, <1>5, OwnStep

LEMMA StageStep ==
  ASSUME ReleaseInv, NEW r \in Runs,
         \/ TimePython(r) \/ Compare(r) \/ Prove(r) \/ TimeNative(r) \/ FailStage(r)
  PROVE  ReleaseInv'
<1> DEFINE v == workers[r]
           done == <<Bench(r), StageName(r)>>
<1>1. v.pc \in {"stage", "prove", "native"} /\ UNCHANGED <<installed, fetched, overlap>>
  BY DEF TimePython, Compare, Prove, TimeNative, FailStage, At, Same
<1>2. /\ v \in Workers /\ WorkerInv(r, v) /\ Active(r)
      /\ Bench(r) \in BenchSet /\ StageName(r) \in StageNames /\ done \in Everything
      /\ v.pc = "prove" => StageName(r) = "wheel"
      /\ v.pc = "native" => StageName(r) = "native"
  BY <1>1, StageFacts
<1>3. installed \in [BenchSet -> Owners]
  BY DEF ReleaseInv, HostTypes
<1> HIDE DEF v
<1>4. ASSUME Update(r, Failed(r, v)) PROVE ReleaseInv'
  <2> DEFINE x == [v EXCEPT !.failed = @ \cup {done}]
  <2>1. x \in Workers
    BY <1>2 DEF Workers
  <2>2. /\ x.pc = v.pc /\ x.bench = v.bench /\ x.stage = v.stage /\ x.artifacts = v.artifacts
        /\ x.failed = v.failed \cup {done} /\ x.record = v.record
    BY <1>2 DEF Workers
  <2>3. Update(r, NextStage(x))
    BY <1>4 DEF Failed, v
  <2> HIDE DEF x
  <2>4. OwnRecord(r, x)
    BY <1>2, <2>2 DEF WorkerInv, OwnRecord
  <2>5. OwnExtension(r, x)
    BY <2>2 DEF OwnExtension
  <2> QED
    BY <1>1, <2>1, <2>2, <2>3, <2>4, <2>5, StageEnds DEF v
<1>5. ASSUME Update(r, Passed(r, v)), StageName(r) \notin {"wheel", "native"} PROVE ReleaseInv'
  <2> DEFINE x == [v EXCEPT !.artifacts = @ \cup {done}]
  <2>1. x \in Workers
    BY <1>2 DEF Workers
  <2>2. /\ x.pc = v.pc /\ x.bench = v.bench /\ x.stage = v.stage /\ x.failed = v.failed
        /\ x.artifacts = v.artifacts \cup {done} /\ x.record = v.record /\ x.module = v.module
        /\ x.timed = v.timed
    BY <1>2 DEF Workers
  <2>3. Update(r, NextStage(x))
    BY <1>5 DEF Passed, v
  <2>4. \A b : <<b, "wheel">> # done /\ <<b, "native">> # done
    BY <1>5
  <2> HIDE DEF x, done
  <2>5. OwnRecord(r, x)
    BY <1>2, <2>2, <2>4 DEF WorkerInv, OwnRecord
  <2>6. OwnExtension(r, x)
    BY <1>2, <2>2, <2>4 DEF WorkerInv, OwnExtension, Running
  <2> QED
    BY <1>1, <2>1, <2>2, <2>3, <2>5, <2>6, StageEnds DEF v, done
<1>6. CASE TimePython(r)
  BY <1>5, <1>6 DEF TimePython, v
<1>7. CASE Compare(r)
  BY <1>4, <1>5, <1>7 DEF Compare, v
<1>8. CASE Prove(r)
  <2>1. StageName(r) = "wheel"
    BY <1>2, <1>8 DEF Prove, At, v
  <2> DEFINE w == [v EXCEPT !.record[Bench(r)] = installed[Bench(r)]]
  <2>2. /\ w \in Workers
        /\ w.pc = v.pc /\ w.bench = v.bench /\ w.stage = v.stage /\ w.failed = v.failed
        /\ w.artifacts = v.artifacts /\ w.module = v.module /\ w.timed = v.timed
        /\ w.record = [v.record EXCEPT ![Bench(r)] = installed[Bench(r)]]
    BY <1>2, <1>3 DEF Workers
  <2>3. v.record \in [BenchSet -> Owners]
    BY <1>2 DEF Workers
  <2> HIDE DEF w
  <2>4. CASE installed[Bench(r)] = r
    <3> DEFINE x == [w EXCEPT !.artifacts = @ \cup {done}]
    <3>1. /\ x \in Workers
          /\ x.pc = v.pc /\ x.bench = v.bench /\ x.stage = v.stage /\ x.failed = v.failed
          /\ x.artifacts = v.artifacts \cup {done} /\ x.record = w.record /\ x.module = v.module
          /\ x.timed = v.timed
      BY <1>2, <2>2 DEF Workers
    <3>2. Update(r, NextStage(x))
      BY <1>8, <2>4 DEF Prove, Passed, v, w
    <3> HIDE DEF x
    <3>3. OwnRecord(r, x)
      BY <1>2, <2>2, <2>3, <2>4, <3>1 DEF WorkerInv, OwnRecord
    <3>4. OwnExtension(r, x)
      BY <1>2, <2>1, <2>4, <3>1 DEF WorkerInv, OwnExtension, Running
    <3> QED
      BY <1>1, <3>1, <3>2, <3>3, <3>4, StageEnds DEF v
  <2>5. CASE installed[Bench(r)] # r
    <3> DEFINE x == [w EXCEPT !.failed = @ \cup {done}]
    <3>1. /\ x \in Workers
          /\ x.pc = v.pc /\ x.bench = v.bench /\ x.stage = v.stage /\ x.artifacts = v.artifacts
          /\ x.failed = v.failed \cup {done} /\ x.record = w.record
      BY <1>2, <2>2 DEF Workers
    <3>2. Update(r, NextStage(x))
      BY <1>8, <2>5 DEF Prove, Failed, v, w
    <3> HIDE DEF x
    <3>3. OwnRecord(r, x)
      BY <1>2, <2>1, <2>2, <2>3, <3>1 DEF WorkerInv, OwnRecord
    <3>4. OwnExtension(r, x)
      BY <3>1 DEF OwnExtension
    <3> QED
      BY <1>1, <3>1, <3>2, <3>3, <3>4, StageEnds DEF v
  <2> QED
    BY <2>4, <2>5
<1>9. CASE TimeNative(r)
  <2>1. StageName(r) = "native"
    BY <1>2, <1>9 DEF TimeNative, At, v
  <2> DEFINE w == [v EXCEPT !.timed[Bench(r)] = installed[Bench(r)]]
             x == [w EXCEPT !.artifacts = @ \cup {done}]
  <2>2. /\ w \in Workers
        /\ w.pc = v.pc /\ w.bench = v.bench /\ w.stage = v.stage /\ w.failed = v.failed
        /\ w.artifacts = v.artifacts /\ w.module = v.module /\ w.record = v.record
        /\ w.timed = [v.timed EXCEPT ![Bench(r)] = installed[Bench(r)]]
    BY <1>2, <1>3 DEF Workers
  <2>3. v.timed \in [BenchSet -> Owners]
    BY <1>2 DEF Workers
  <2> HIDE DEF w
  <2>4. /\ x \in Workers
        /\ x.pc = v.pc /\ x.bench = v.bench /\ x.stage = v.stage /\ x.failed = v.failed
        /\ x.artifacts = v.artifacts \cup {done} /\ x.record = v.record /\ x.module = v.module
        /\ x.timed = w.timed
    BY <1>2, <2>2 DEF Workers
  <2>5. Update(r, NextStage(x))
    BY <1>9 DEF TimeNative, Passed, v, w
  <2> HIDE DEF x
  <2>6. OwnRecord(r, x)
    BY <1>2, <2>1, <2>4 DEF WorkerInv, OwnRecord
  <2>7. v.pc = "native" /\ Bench(r) = Benches[v.bench]
    BY <1>9 DEF TimeNative, At, Bench, v
  <2>8. OwnExtension(r, x)
    BY <1>2, <2>1, <2>2, <2>3, <2>4, <2>7 DEF WorkerInv, OwnExtension, Running
  <2> QED
    BY <1>1, <2>4, <2>5, <2>6, <2>8, StageEnds DEF v
<1>10. CASE FailStage(r)
  BY <1>4, <1>10 DEF FailStage, v
<1> QED
  BY <1>6, <1>7, <1>8, <1>9, <1>10

\* The worker's own steps around the suite.
LEMMA WorkerStep ==
  ASSUME ReleaseInv, NEW r \in Runs,
         \/ CrateEvidence(r) \/ RecordModule(r) \/ SuiteEnd(r) \/ CollectWheels(r)
         \/ Summarize(r) \/ CheckAll(r) \/ FailWorker(r)
  PROVE  ReleaseInv'
<1> DEFINE v == workers[r]
<1>1. UNCHANGED <<installed, fetched, overlap>>
  BY DEF CrateEvidence, RecordModule, SuiteEnd, CollectWheels, Summarize, CheckAll, FailWorker, Same
<1>2. v \in Workers /\ WorkerInv(r, v)
  BY DEF ReleaseInv, WorkerTypes
<1>3. Active(r) /\ ~At(r, "complete") /\ Running(v)
  BY DEF CrateEvidence, RecordModule, SuiteEnd, CollectWheels, Summarize, CheckAll, FailWorker,
         At, Active, Running
<1> HIDE DEF v
<1>4. ASSUME NEW w \in Workers, WorkerInv(r, w), Update(r, w) PROVE ReleaseInv'
  BY <1>1, <1>3, <1>4, OwnStep
<1>5. ASSUME NEW c \in PCs, Update(r, [v EXCEPT !.pc = c]), WorkerInv(r, [v EXCEPT !.pc = c])
      PROVE  ReleaseInv'
  <2>1. [v EXCEPT !.pc = c] \in Workers
    BY <1>2 DEF Workers
  <2> QED
    BY <1>4, <1>5, <2>1
<1> DEFINE To(c) == [v EXCEPT !.pc = c]
<1>6. ASSUME NEW c \in PCs
      PROVE  /\ To(c).pc = c /\ To(c).bench = v.bench /\ To(c).stage = v.stage
             /\ To(c).failed = v.failed /\ To(c).artifacts = v.artifacts
             /\ To(c).record = v.record /\ To(c).module = v.module /\ To(c).timed = v.timed
             /\ To(c).protocol = v.protocol /\ To(c).checked = v.checked
  BY <1>2 DEF Workers
<1>7. ASSUME NEW c \in {"stage", "suite_end", "wheels", "summary", "checks", "raised"},
             Update(r, To(c)), Tallied(To(c)), Vouched(r, To(c))
      PROVE  ReleaseInv'
  <2>1. c \in PCs
    BY DEF PCs
  <2>2. /\ To(c).pc = c /\ To(c).bench = v.bench /\ To(c).stage = v.stage
        /\ To(c).failed = v.failed /\ To(c).artifacts = v.artifacts
        /\ To(c).record = v.record /\ To(c).module = v.module /\ To(c).timed = v.timed
    BY <1>6, <2>1
  <2> HIDE DEF To
  <2>3. StagesInOrder(To(c)) /\ OwnRecord(r, To(c))
    BY <1>2, <2>2 DEF WorkerInv, StagesInOrder, OwnRecord
  <2>4. OwnExtension(r, To(c))
    BY <1>2, <1>3, <2>2 DEF WorkerInv, OwnExtension
  <2>5. WorkerInv(r, To(c))
    BY <1>7, <2>3, <2>4 DEF WorkerInv
  <2> QED
    BY <1>5, <1>7, <2>1, <2>5 DEF To
<1> HIDE DEF To
<1>8. CASE CrateEvidence(r)
  <2>1. Update(r, To("stage")) /\ v.bench = 1 /\ v.stage = 1
    BY <1>2, <1>8 DEF CrateEvidence, At, WorkerInv, StagesInOrder, To, v
  <2>2. To("stage").pc = "stage" /\ To("stage").bench = 1 /\ To("stage").stage = 1
    BY <1>6, <2>1 DEF PCs
  <2>3. Tallied(To("stage")) /\ Vouched(r, To("stage"))
    BY <2>2, BenchAssumption DEF Tallied, Vouched
  <2> QED
    BY <1>7, <2>1, <2>3
<1>9. CASE SuiteEnd(r)
  <2>1. CASE v.failed = {}
    <3>1. Update(r, To("wheels")) /\ v.pc = "suite_end"
      BY <1>9, <2>1 DEF SuiteEnd, At, To, v
    <3>2. \A i \in 1..Len(Benches), j \in 1..5 : <<Benches[i], TimedStages[j]>> \in v.artifacts
      BY <1>2, <2>1, <3>1 DEF WorkerInv, Tallied, Met
    <3>3. ASSUME NEW b \in BenchSet, NEW s \in StageNames PROVE <<b, s>> \in v.artifacts
      <4>1. PICK i \in 1..Len(Benches) : b = Benches[i]
        BY BenchAssumption DEF BenchSet
      <4>2. PICK j \in 1..5 : s = TimedStages[j]
        BY Stages5 DEF StageNames
      <4> QED
        BY <3>2, <4>1, <4>2
    <3>4. v.artifacts = Everything
      BY <1>2, <3>3 DEF Workers, Everything
    <3>5. /\ To("wheels").pc = "wheels" /\ To("wheels").failed = {}
          /\ To("wheels").artifacts = Everything
      BY <1>6, <2>1, <3>4 DEF PCs
    <3>6. Tallied(To("wheels")) /\ Vouched(r, To("wheels"))
      BY <3>5 DEF Tallied, Vouched
    <3> QED
      BY <1>7, <3>1, <3>6
  <2>2. CASE v.failed # {}
    <3>1. Update(r, To("raised")) /\ To("raised").pc = "raised"
      BY <1>6, <1>9, <2>2 DEF SuiteEnd, To, v, PCs
    <3> QED
      BY <1>7, <3>1 DEF Tallied, Vouched
  <2> QED
    BY <2>1, <2>2
<1>10. CASE FailWorker(r)
  <2>1. Update(r, To("raised")) /\ To("raised").pc = "raised"
    BY <1>6, <1>10 DEF FailWorker, To, v, PCs
  <2> QED
    BY <1>7, <2>1 DEF Tallied, Vouched
<1>11. CASE Summarize(r)
  <2>1. v.pc = "summary" /\ Vouched(r, v)
    BY <1>2, <1>11 DEF Summarize, At, WorkerInv, v
  <2>2. /\ Update(r, To("checks")) \/ Update(r, To("raised"))
        /\ To("checks").pc = "checks" /\ To("raised").pc = "raised"
        /\ To("checks").failed = v.failed /\ To("checks").artifacts = v.artifacts
        /\ To("checks").protocol = v.protocol
    BY <1>6, <1>11 DEF Summarize, To, v, PCs
  <2>3. Tallied(To("checks")) /\ Vouched(r, To("checks"))
    BY <2>1, <2>2 DEF Tallied, Vouched
  <2>4. Tallied(To("raised")) /\ Vouched(r, To("raised"))
    BY <2>2 DEF Tallied, Vouched
  <2> QED
    BY <1>7, <2>2, <2>3, <2>4
<1>12. CASE CollectWheels(r)
  <2> DEFINE w == [v EXCEPT !.pc = "summary", !.protocol = v.record]
  <2>1. v.pc = "wheels" /\ Update(r, w)
    BY <1>12 DEF CollectWheels, At, v
  <2>2. /\ w \in Workers
        /\ w.pc = "summary" /\ w.bench = v.bench /\ w.stage = v.stage /\ w.failed = v.failed
        /\ w.artifacts = v.artifacts /\ w.record = v.record /\ w.module = v.module
        /\ w.timed = v.timed /\ w.protocol = v.record
    BY <1>2 DEF Workers, PCs
  <2> HIDE DEF w
  <2>3. v.failed = {} /\ v.artifacts = Everything
    BY <1>2, <2>1 DEF WorkerInv, Vouched
  <2>4. \A b \in BenchSet : <<b, "wheel">> \in Everything
    BY Stages5 DEF Everything
  <2>5. \A b \in BenchSet : v.record[b] = r
    BY <1>2, <2>3, <2>4 DEF WorkerInv, OwnRecord
  <2>6. WorkerInv(r, w)
    BY <1>2, <1>3, <2>2, <2>3, <2>5
    DEF WorkerInv, StagesInOrder, Tallied, OwnRecord, Vouched, OwnExtension, Running
  <2> QED
    BY <1>4, <2>1, <2>2, <2>6
<1>13. CASE CheckAll(r)
  <2> DEFINE w == [v EXCEPT !.pc = "complete", !.checked = TRUE]
  <2>1. v.pc = "checks" /\ Update(r, w)
    BY <1>13 DEF CheckAll, At, v
  <2>2. /\ w \in Workers
        /\ w.pc = "complete" /\ w.bench = v.bench /\ w.stage = v.stage /\ w.failed = v.failed
        /\ w.artifacts = v.artifacts /\ w.record = v.record /\ w.module = v.module
        /\ w.timed = v.timed /\ w.protocol = v.protocol /\ w.checked
    BY <1>2 DEF Workers, PCs
  <2> HIDE DEF w
  <2>3. WorkerInv(r, w)
    BY <1>2, <2>1, <2>2
    DEF WorkerInv, StagesInOrder, Tallied, OwnRecord, Vouched, OwnExtension, Running
  <2> QED
    BY <1>4, <2>1, <2>2, <2>3
<1>14. CASE RecordModule(r)
  <2> DEFINE b == Bench(r)
             w == [v EXCEPT !.pc = "native", !.module[b] = installed[b]]
  <2>1. v.pc = "stage" /\ StageName(r) = "native" /\ Update(r, w)
    BY <1>14 DEF RecordModule, At, v
  <2>2. v.stage = 5 /\ b \in BenchSet /\ b = Benches[v.bench]
    BY <2>1, StageFacts DEF v, Bench
  <2>3. installed \in [BenchSet -> Owners] /\ v.module \in [BenchSet -> Owners]
    BY <1>2 DEF ReleaseInv, HostTypes, Workers
  <2> HIDE DEF b
  <2>4. /\ w \in Workers
        /\ w.pc = "native" /\ w.bench = v.bench /\ w.stage = v.stage /\ w.failed = v.failed
        /\ w.artifacts = v.artifacts /\ w.record = v.record /\ w.timed = v.timed
        /\ w.module = [v.module EXCEPT ![b] = installed[b]]
    BY <1>2, <2>2, <2>3 DEF Workers, PCs
  <2> HIDE DEF w
  <2>5. v.failed = {} => <<b, "wheel">> \in v.artifacts
    <3>1. v.bench \in 1..Len(Benches)
      BY <1>2 DEF Workers
    <3>2. Met(v, v.bench, 4)
      BY <1>2, <2>1, <2>2, <3>1 DEF WorkerInv, Tallied
    <3> QED
      BY <2>2, <3>2, Stages5 DEF Met
  <2>6. OwnExtension(r, w)
    BY <1>2, <1>3, <2>2, <2>3, <2>4, <2>5 DEF WorkerInv, OwnExtension, Running
  <2>7. WorkerInv(r, w)
    BY <1>2, <2>1, <2>2, <2>4, <2>6 DEF WorkerInv, StagesInOrder, Tallied, OwnRecord, Vouched, Met
  <2> QED
    BY <1>4, <2>1, <2>4, <2>7
<1> QED
  BY <1>8, <1>9, <1>10, <1>11, <1>12, <1>13, <1>14

\* Start, Install and Fetch change what the runs share.
LEMMA StartStep ==
  ASSUME ReleaseInv, NEW r \in Runs, Start(r)
  PROVE  ReleaseInv'
<1> DEFINE v == workers[r]
           w == [Unstarted EXCEPT !.pc = "crate"]
           others == {s \in Runs \ {r} : Active(s)}
<1>1. /\ v.pc = "none" /\ workers' = [workers EXCEPT ![r] = w]
      /\ overlap' = IF others = {} THEN overlap ELSE overlap \cup others \cup {r}
      /\ UNCHANGED <<installed, fetched>>
  BY DEF Start, At, Update
<1>2. w \in Workers
  <2>1. [b \in BenchSet |-> Nothing] \in [BenchSet -> Owners]
    BY DEF Owners
  <2>2. 1 \in 1..Len(Benches) /\ 1 \in 1..5 /\ "none" \in PCs /\ "crate" \in PCs
    BY BenchAssumption DEF PCs
  <2> QED
    BY <2>1, <2>2 DEF Unstarted, Workers
<1>3. w.pc = "crate" /\ w.bench = 1 /\ w.stage = 1 /\ w.artifacts = {} /\ w.failed = {}
  BY DEF Unstarted
<1> HIDE DEF w
<1>4. workers' \in [Runs -> Workers] /\ workers'[r] = w
      /\ \A s \in Runs \ {r} : workers'[s] = workers[s]
  BY <1>1, <1>2 DEF ReleaseInv, WorkerTypes
<1>5. overlap \subseteq overlap' /\ overlap' \subseteq Runs
  BY <1>1 DEF ReleaseInv, HostTypes
<1>6. Alone'
  <2> SUFFICES ASSUME NEW a \in Runs, NEW b \in Runs, Active(a)', Active(b)', a # b
               PROVE  a \in overlap' /\ b \in overlap'
    BY DEF Alone
  <2>1. CASE a # r /\ b # r
    BY <1>4, <1>5, <2>1 DEF ReleaseInv, Alone, Active
  <2>2. CASE a = r
    BY <1>1, <1>4, <2>2 DEF Active
  <2>3. CASE b = r
    BY <1>1, <1>4, <2>3 DEF Active
  <2> QED
    BY <2>1, <2>2, <2>3
<1>7. WorkerInv(r, w)'
  BY <1>3 DEF WorkerInv, StagesInOrder, Tallied, OwnRecord, Vouched, OwnExtension
<1>8. ASSUME NEW s \in Runs \ {r} PROVE WorkerInv(s, workers[s])'
  <2>1. WorkerInv(s, workers[s]) /\ workers'[s] = workers[s]
    BY <1>4 DEF ReleaseInv
  <2>2. overlap \subseteq overlap' /\ installed' = installed /\ fetched' = fetched
    BY <1>1, <1>5
  <2>3. (StagesInOrder(workers[s]) /\ Tallied(workers[s]))'
    BY <2>1 DEF WorkerInv, StagesInOrder, Tallied, Met
  <2>4. (OwnRecord(s, workers[s]) /\ Vouched(s, workers[s]))'
    BY <2>1 DEF WorkerInv, OwnRecord, Vouched, Met
  <2>5. OwnExtension(s, workers[s])'
    BY <2>1, <2>2 DEF WorkerInv, OwnExtension, Running
  <2> QED
    BY <2>3, <2>4, <2>5 DEF WorkerInv
<1>9. \A s \in fetched' : At(s, "complete")'
  BY <1>1, <1>4 DEF ReleaseInv, HostTypes, At
<1>10. \A s \in Runs : WorkerInv(s, workers[s])'
  <2>1. WorkerInv(r, workers[r])'
    BY <1>4, <1>7 DEF WorkerInv, OwnExtension, StagesInOrder, Tallied, OwnRecord, Vouched, Met, Running
  <2> QED
    BY <1>8, <2>1
<1> QED
  BY <1>1, <1>4, <1>5, <1>6, <1>9, <1>10 DEF ReleaseInv, WorkerTypes, HostTypes

LEMMA InstallStep ==
  ASSUME ReleaseInv, NEW r \in Runs, Install(r)
  PROVE  ReleaseInv'
<1> DEFINE v == workers[r]
<1>0. PICK w : w = [v EXCEPT !.pc = "prove"]
  OBVIOUS
<1>1. /\ v.pc = "stage" /\ StageName(r) = "wheel" /\ workers' = [workers EXCEPT ![r] = w]
      /\ installed' = [installed EXCEPT ![Bench(r)] = r]
      /\ UNCHANGED <<overlap, fetched>>
  BY <1>0 DEF Install, At, Update
<1>2. v \in Workers /\ WorkerInv(r, v) /\ Active(r) /\ Bench(r) \in BenchSet
  BY <1>1, StageFacts
<1>3. v.stage = 4
  BY <1>1, <1>2, Stages5 DEF Workers, StageName
<1>4. /\ w \in Workers
      /\ w.pc = "prove" /\ w.bench = v.bench /\ w.stage = v.stage /\ w.failed = v.failed
      /\ w.artifacts = v.artifacts /\ w.record = v.record /\ w.module = v.module
      /\ w.timed = v.timed
  BY <1>0, <1>2 DEF Workers, PCs
<1>5. workers' \in [Runs -> Workers] /\ workers'[r] = w
      /\ \A s \in Runs \ {r} : workers'[s] = workers[s]
  BY <1>1, <1>4 DEF ReleaseInv, WorkerTypes
<1>6. installed' \in [BenchSet -> Owners] /\ installed'[Bench(r)] = r
      /\ \A b \in BenchSet \ {Bench(r)} : installed'[b] = installed[b]
  BY <1>1, <1>2 DEF ReleaseInv, HostTypes, Owners
<1>7. \A s \in Runs : Active(s)' <=> Active(s)
  BY <1>1, <1>4, <1>5 DEF Active
<1>8. Alone'
  BY <1>1, <1>7 DEF ReleaseInv, Alone
<1>9. WorkerInv(r, workers[r])'
  <2>1. StagesInOrder(w) /\ Tallied(w) /\ OwnRecord(r, w) /\ Vouched(r, w)
    BY <1>1, <1>2, <1>3, <1>4 DEF WorkerInv, StagesInOrder, Tallied, OwnRecord, Vouched, Met
  <2>2. OwnExtension(r, w)'
    <3> SUFFICES ASSUME r \notin overlap, w.failed = {}
                 PROVE  /\ \A b \in BenchSet : <<b, "wheel">> \in w.artifacts => installed'[b] = r
                        /\ \A b \in BenchSet : <<b, "native">> \in w.artifacts =>
                             w.module[b] = r /\ w.timed[b] = r
      BY <1>1, <1>4 DEF OwnExtension
    <3>1. OwnExtension(r, v) /\ Running(v)
      BY <1>2 DEF WorkerInv, Active, Running
    <3> QED
      BY <1>4, <1>6, <3>1 DEF OwnExtension
  <2> QED
    BY <1>5, <2>1, <2>2 DEF WorkerInv, OwnExtension, StagesInOrder, Tallied, OwnRecord, Vouched, Met, Running
<1>10. ASSUME NEW s \in Runs \ {r} PROVE WorkerInv(s, workers[s])'
  <2>1. WorkerInv(s, workers[s]) /\ workers'[s] = workers[s]
    BY <1>5 DEF ReleaseInv
  <2>2. s \notin overlap => ~Active(s)
    BY <1>2 DEF ReleaseInv, Alone
  <2>3. OwnExtension(s, workers[s])'
    <3>1. CASE s \in overlap
      BY <1>1, <3>1 DEF OwnExtension
    <3>2. CASE s \notin overlap
      <4>1. ~Running(workers[s]) /\ workers[s].pc # "native"
        BY <2>2, <3>2 DEF Active, Running
      <4> QED
        BY <2>1, <1>1, <4>1 DEF WorkerInv, OwnExtension, Running
    <3> QED
      BY <3>1, <3>2
  <2> QED
    BY <2>1, <2>3 DEF WorkerInv, StagesInOrder, Tallied, OwnRecord, Vouched, Met
<1>11. \A s \in fetched' : At(s, "complete")'
  BY <1>1, <1>5 DEF ReleaseInv, HostTypes, At
<1> QED
  BY <1>1, <1>5, <1>6, <1>8, <1>9, <1>10, <1>11 DEF ReleaseInv, WorkerTypes, HostTypes

LEMMA SameHost ==
  ASSUME UNCHANGED <<workers, installed, overlap>>, NEW r, WorkerInv(r, workers[r])
  PROVE  WorkerInv(r, workers[r])'
BY DEF WorkerInv, OwnExtension, StagesInOrder, Tallied, OwnRecord, Vouched, Met, Running

LEMMA FetchStep ==
  ASSUME ReleaseInv, NEW r \in Runs, Fetch(r)
  PROVE  ReleaseInv'
<1>1. /\ At(r, "complete") /\ fetched' = fetched \cup {r}
      /\ UNCHANGED <<workers, installed, overlap>>
  BY DEF Fetch
<1>2. WorkerTypes' /\ HostTypes' /\ Alone'
  BY <1>1 DEF ReleaseInv, WorkerTypes, HostTypes, Alone, Active
<1>3. \A s \in Runs : WorkerInv(s, workers[s])'
  BY <1>1, SameHost DEF ReleaseInv
<1>4. \A s \in fetched' : At(s, "complete")'
  BY <1>1 DEF ReleaseInv, At
<1> QED
  BY <1>2, <1>3, <1>4 DEF ReleaseInv

LEMMA ReleaseInvInit == ReleaseInit => ReleaseInv
<1> SUFFICES ASSUME ReleaseInit PROVE ReleaseInv
  OBVIOUS
<1>1. [b \in BenchSet |-> Nothing] \in [BenchSet -> Owners] /\ 1 \in 1..Len(Benches) /\ 1 \in 1..5
      /\ "none" \in PCs
  BY BenchAssumption DEF Owners, PCs
<1>2. Unstarted \in Workers
  BY <1>1 DEF Unstarted, Workers
<1>3. WorkerTypes /\ HostTypes
  BY <1>2 DEF ReleaseInit, WorkerTypes, HostTypes, Owners
<1>4. Unstarted.pc = "none" /\ Unstarted.artifacts = {}
  BY DEF Unstarted
<1>5. \A r \in Runs : workers[r] = Unstarted
  BY DEF ReleaseInit
<1>6. Alone
  BY <1>4, <1>5 DEF Alone, Active
<1>7. ASSUME NEW r \in Runs PROVE WorkerInv(r, Unstarted)
  BY <1>4 DEF WorkerInv, StagesInOrder, Tallied, OwnRecord, Vouched, OwnExtension, Running
<1> QED
  BY <1>3, <1>5, <1>6, <1>7 DEF ReleaseInv, ReleaseInit

LEMMA ReleaseInvStep == ReleaseInv /\ [ReleaseNext]_releaseVars => ReleaseInv'
<1> SUFFICES ASSUME ReleaseInv, [ReleaseNext]_releaseVars PROVE ReleaseInv'
  OBVIOUS
<1>1. CASE UNCHANGED releaseVars
  <2>1. WorkerTypes' /\ HostTypes' /\ Alone' /\ \A s \in fetched' : At(s, "complete")'
    BY <1>1 DEF releaseVars, ReleaseInv, WorkerTypes, HostTypes, Alone, Active, At
  <2>2. \A s \in Runs : WorkerInv(s, workers[s])'
    BY <1>1, SameHost DEF releaseVars, ReleaseInv
  <2> QED
    BY <2>1, <2>2 DEF ReleaseInv
<1> QED
  BY <1>1, StartStep, InstallStep, StageStep, WorkerStep, FetchStep DEF ReleaseNext

\* A measurement run that says it is complete is: every stage of every benchmark,
\* the protocol's hashes of its own extension and, unless another run was active
\* meanwhile, the times of that extension (report/vm_refresh.py and its worker, for
\* any number of runs, benchmarks and failures).
THEOREM ReleaseComplete == ToolsSpec => []CompleteIsChecked
<1>1. ToolsInit => ReleaseInit
  BY DEF ToolsInit
<1>2. [ToolsNext]_toolVars => [ReleaseNext]_releaseVars
  BY DEF ToolsNext, toolVars
<1> QED
  BY <1>1, <1>2, ReleaseInvInit, ReleaseInvStep, ReleaseInvHolds, PTL DEF ToolsSpec

-----------------------------------------------------------------------------
(* The hardware flow.                                                        *)

Gates == [state : States, gate : Results]
IssueRecords == [stage : StageSet, body : Gates, closed : BOOLEAN]

InCommandStates == [pc : {"loaded", "truncated"}, data : Statuses, change : Changes]
StartedStates == [pc : {"render"}, hook : BOOLEAN]
RenderStates == [pc : {"rendered", "blank"}, hook : BOOLEAN, data : Statuses, clean : BOOLEAN]
LoadState == [pc |-> "load"]
FreshStates == [pc : SyncPlaces, data : Statuses, listed : Seq(IssueRecords),
                at : 1..Len(Stages), clean : BOOLEAN]
\* One that has created an issue keeps its number.
NumberedStates == [pc : SyncPlaces, data : Statuses, listed : Seq(IssueRecords),
                   at : 1..Len(Stages), clean : BOOLEAN, number : Nat]
SyncStates == FreshStates \cup NumberedStates
UserStates == {Idle, LoadState} \cup InCommandStates \cup StartedStates \cup RenderStates
                \cup SyncStates

FlowTypes ==
  /\ statusFile \in Statuses \cup {Torn, Mixed} /\ progress \in Statuses \cup {Torn, Mixed}
  /\ issues \in Seq(IssueRecords) /\ users \in [Users -> UserStates]
  /\ together \in Nat /\ behind \in BOOLEAN

\* What a command carries: its own change, and for the other fields what they may show.
Carries(m, data, c) ==
  \A e \in Changes : Shows(data, e) => e = c \/ (e \in m /\ ~SameField(e, c))
MayInv ==
  /\ Parses(statusFile) => \A c \in Changes : Shows(statusFile, c) => c \in may
  /\ \A u \in Users : InCommand(u) => Carries(may, users[u].data, users[u].change)

\* A rendering that nobody has overtaken holds the present status, and a status
\* that does not parse is one that a command has touched.
RenderInv ==
  /\ \A u \in Users :
       users[u].pc \in {"rendered", "blank"} /\ users[u].clean => users[u].data = statusFile
  /\ ~Parses(statusFile) => behind
  /\ (~behind /\ \A u \in Users : ~WillRender(u)) => progress = statusFile

\* An issue list that has only grown, with the titles it had.
Grown(old, new) == Len(old) <= Len(new) /\ \A i \in 1..Len(old) : new[i].stage = old[i].stage

\* Stage s has an issue, and the oldest shows the status.
Shown(list, s, data) ==
  LET mine == Titled(list, s)
  IN  mine # {} /\ list[Min(mine)].body = data[s] /\ list[Min(mine)].closed = (data[s].state = "done")

\* The stages that a synchronisation has still to come to.
Reached(x, j) == j < x.at \/ (j = x.at /\ x.pc = "close")
NewIssues(x, list) == Len(x.listed) + 1 .. Len(list)
Made(x, list) ==
  \A i \in NewIssues(x, list) :
    \E j \in 1..Len(Stages) : Reached(x, j) /\ list[i].stage = Stages[j]
First(x, s) == Min(Titled(x.listed, s))

\* What an undisturbed synchronisation has done, and what it finds as it was listed.
Undisturbed(x, list) ==
  /\ \A j \in 1..Len(Stages) : j < x.at => Shown(list, Stages[j], x.data)
  /\ \A i \in 1..Len(x.listed), j \in 1..Len(Stages) :
       list[i].stage = Stages[j] =>
         /\ ~Reached(x, j) => list[i] = x.listed[i]
         /\ j = x.at => list[i].closed = x.listed[i].closed
  /\ Made(x, list)
  /\ x.pc = "close" =>
       LET s == Stages[x.at]
       IN  IF Titled(x.listed, s) # {} THEN list[First(x, s)].body = x.data[s]
           ELSE /\ x.number \in NewIssues(x, list) /\ x.number = Min(Titled(list, s))
                /\ list[x.number].stage = s
                /\ list[x.number].body = x.data[s] /\ ~list[x.number].closed

SyncInv(x, list, status) ==
  x.pc \in SyncPlaces =>
    /\ x.clean => x.data = status
    /\ x.pc = "list" => x.at = 1
    /\ x.pc # "list" => Grown(x.listed, list)
    /\ x.pc # "list" /\ x.clean => Undisturbed(x, list)

SyncsInv ==
  /\ \A u \in Users : SyncInv(users[u], issues, statusFile)
  /\ settled => \A s \in StageSet : Shown(issues, s, statusFile)

\* A synchronisation that listed no issue of a stage it has yet to come to will
\* create one, and there is room for that once the stage has an issue.
IsBlind(x, s) ==
  /\ x.pc \in {"issue", "close"} /\ Titled(x.listed, s) = {}
  /\ \E j \in 1..Len(Stages) : Stages[j] = s /\ ~Reached(x, j)
Blind(s) == {u \in Users : IsBlind(users[u], s)}
NumbersInv ==
  /\ Cardinality(Syncing) <= together
  /\ \A s \in StageSet :
       Titled(issues, s) # {} => Cardinality(Titled(issues, s)) + Cardinality(Blind(s)) <= together

FlowInv == FlowTypes /\ MayInv /\ RenderInv /\ SyncsInv /\ NumbersInv

\* A whole status parses.
LEMMA StatusParses ==
  ASSUME NEW d \in Statuses
  PROVE  Parses(d)
<1>1. PICK s \in StageSet : TRUE
  BY StagesAssumption DEF StageSet
<1>2. d # Mixed
  BY <1>1 DEF Statuses, Mixed, States
<1>3. d # Torn
  <2>1. DOMAIN d = StageSet
    BY DEF Statuses
  <2>2. DOMAIN Torn = {}
    BY DEF Torn
  <2> QED
    BY <1>1, <2>1, <2>2
<1> QED
  BY <1>2, <1>3 DEF Parses

LEMMA ChangedType ==
  ASSUME NEW d \in Statuses, NEW c \in Changes
  PROVE  Changed(d, c) \in Statuses
<1>1. CASE c.field = "state"
  <2>1. c.stage \in StageSet /\ c.value \in States
    BY <1>1 DEF Changes, States, Results
  <2>2. [d EXCEPT ![c.stage].state = c.value] \in Statuses
    BY <2>1 DEF Statuses
  <2> QED
    BY <1>1, <2>2 DEF Changed
<1>2. CASE c.field # "state"
  <2>1. c.stage \in StageSet /\ c.value \in Results
    BY <1>2 DEF Changes
  <2>2. [d EXCEPT ![c.stage].gate = c.value] \in Statuses
    BY <2>1 DEF Statuses
  <2> QED
    BY <1>2, <2>2 DEF Changed
<1> QED
  BY <1>1, <1>2

\* A changed status shows the change, and the other fields as they were.
LEMMA ChangedShows ==
  ASSUME NEW d \in Statuses, NEW c \in Changes, NEW e \in Changes, Shows(Changed(d, c), e)
  PROVE  e = c \/ (Shows(d, e) /\ ~SameField(e, c))
<1> DEFINE new == Changed(d, c)
<1>0. /\ c.stage \in StageSet /\ c.field \in {"state", "gate"}
      /\ e.stage \in StageSet /\ e.field \in {"state", "gate"}
  BY DEF Changes
<1>1. /\ new[e.stage].state = IF c.field = "state" /\ c.stage = e.stage THEN c.value ELSE d[e.stage].state
      /\ new[e.stage].gate = IF c.field = "gate" /\ c.stage = e.stage THEN c.value ELSE d[e.stage].gate
  BY <1>0 DEF Changed, Statuses
<1>2. IF e.field = "state" THEN new[e.stage].state = e.value ELSE new[e.stage].gate = e.value
  BY DEF Shows
<1> HIDE DEF new
<1>3. CASE SameField(e, c)
  <2>1. e.value = c.value /\ e.stage = c.stage /\ e.field = c.field
    BY <1>0, <1>1, <1>2, <1>3 DEF SameField
  <2>2. e = c
    BY <2>1 DEF Changes
  <2> QED
    BY <2>2
<1>4. CASE ~SameField(e, c)
  <2>1. Shows(d, e)
    BY <1>0, <1>1, <1>2, <1>4 DEF SameField, Shows
  <2> QED
    BY <1>4, <2>1
<1> QED
  BY <1>3, <1>4

Moved(x, p, q, c) == [x EXCEPT !.pc = p, !.at = q, !.clean = c]
Blemished(x) == Moved(x, x.pc, x.at, FALSE)

\* A synchronisation moves within its loop or loses its cleanness; what it has
\* loaded, listed and created stays.
LEMMA SyncFields ==
  ASSUME NEW x \in SyncStates, NEW p \in SyncPlaces, NEW q \in 1..Len(Stages), NEW c \in BOOLEAN
  PROVE  /\ Moved(x, p, q, c) \in SyncStates
         /\ Moved(x, p, q, c).pc = p /\ Moved(x, p, q, c).at = q /\ Moved(x, p, q, c).clean = c
         /\ Moved(x, p, q, c).data = x.data /\ Moved(x, p, q, c).listed = x.listed
<1>1. CASE x \in FreshStates
  BY <1>1 DEF FreshStates, SyncStates, Moved
<1>2. CASE x \in NumberedStates
  BY <1>2 DEF NumberedStates, SyncStates, Moved
<1> QED
  BY <1>1, <1>2 DEF SyncStates

LEMMA SyncShape ==
  ASSUME NEW x \in UserStates
  PROVE  /\ x.pc \in SyncPlaces => x \in SyncStates
         /\ x.pc \in {"loaded", "truncated"} => x \in InCommandStates
         /\ x.pc = "render" => x \in StartedStates
         /\ x.pc \in {"rendered", "blank"} => x \in RenderStates
         /\ x \in SyncStates => x.pc \in SyncPlaces /\ x.data \in Statuses
                                /\ x.listed \in Seq(IssueRecords) /\ x.at \in 1..Len(Stages)
                                /\ x.clean \in BOOLEAN
BY DEF UserStates, LoadState, InCommandStates, StartedStates, RenderStates, SyncStates,
       FreshStates, NumberedStates, SyncPlaces, Idle

\* A disturbed synchronisation only loses its cleanness.
LEMMA DisturbedFields ==
  ASSUME NEW x \in SyncStates, x \in UserStates
  PROVE  /\ Blemished(x) \in SyncStates
         /\ Blemished(x).pc = x.pc /\ Blemished(x).at = x.at
         /\ Blemished(x).listed = x.listed
         /\ ~Blemished(x).clean
<1> DEFINE p == x.pc
           q == x.at
           c == FALSE
<1>1. p \in SyncPlaces /\ q \in 1..Len(Stages) /\ c \in BOOLEAN /\ ~c
  BY SyncShape
<1> HIDE DEF p, q, c
<1>2. /\ Moved(x, p, q, c) \in SyncStates
      /\ Moved(x, p, q, c).pc = p /\ Moved(x, p, q, c).at = q /\ Moved(x, p, q, c).clean = c
      /\ Moved(x, p, q, c).listed = x.listed
  BY <1>1, SyncFields
<1> QED
  BY <1>1, <1>2 DEF Blemished, p, q, c

\* The three changes of an undisturbed or a failed step, and the one a disturbance makes.
LEMMA SyncMoves ==
  ASSUME NEW x \in SyncStates, x \in UserStates
  PROVE  /\ [x EXCEPT !.clean = FALSE] = Blemished(x)
         /\ [x EXCEPT !.pc = "close"] = Moved(x, "close", x.at, x.clean)
         /\ [x EXCEPT !.pc = "issue", !.at = @ + 1] = Moved(x, "issue", x.at + 1, x.clean)
         /\ [[x EXCEPT !.pc = "issue", !.at = @ + 1] EXCEPT !.clean = FALSE]
              = Moved(x, "issue", x.at + 1, FALSE)
<1>1. CASE x \in FreshStates
  BY <1>1 DEF FreshStates, Moved, Blemished
<1>2. CASE x \in NumberedStates
  BY <1>2 DEF NumberedStates, Moved, Blemished
<1> QED
  BY <1>1, <1>2 DEF SyncStates

PlaceSets == {{}, SyncPlaces, SyncPlaces \cup {"rendered", "blank"}}
After(u, y, p) == Disturb(u, p, [users EXCEPT ![u] = y])

\* Process x has become z in a step of another that disturbs the places p.
Aged(x, z, p) ==
  /\ z \in UserStates /\ z.pc = x.pc
  /\ x.pc \notin p => z = x
  /\ x.pc \in p /\ x.pc \in SyncPlaces => z = Blemished(x)
  /\ x.pc \in p /\ x.pc \notin SyncPlaces => ~z.clean

LEMMA DisturbFacts ==
  ASSUME users \in [Users -> UserStates], NEW u \in Users, NEW y \in UserStates, NEW p \in PlaceSets
  PROVE  /\ After(u, y, p) \in [Users -> UserStates] /\ After(u, y, p)[u] = y
         /\ \A v \in Users : v # u => Aged(users[v], After(u, y, p)[v], p)
<1> DEFINE after == After(u, y, p)
<1>1. after = [v \in Users |-> IF v # u /\ users[v].pc \in p THEN [users[v] EXCEPT !.clean = FALSE]
                               ELSE [users EXCEPT ![u] = y][v]]
  <2>1. \A v \in Users : v # u => [users EXCEPT ![u] = y][v] = users[v]
    OBVIOUS
  <2> QED
    BY <2>1 DEF After, Disturb
<1>2. after[u] = y
  BY <1>1
<1>3. ASSUME NEW v \in Users, v # u PROVE Aged(users[v], after[v], p)
  <2> DEFINE x == users[v]
  <2>0. x \in UserStates
    OBVIOUS
  <2>1. CASE x.pc \notin p
    <3>1. after[v] = x
      BY <1>1, <1>3, <2>1
    <3> QED
      BY <2>0, <2>1, <3>1 DEF Aged
  <2>2. CASE x.pc \in p /\ x.pc \in SyncPlaces
    <3>1. after[v] = [x EXCEPT !.clean = FALSE]
      BY <1>1, <1>3, <2>2
    <3>2. x \in SyncStates
      BY <2>0, <2>2, SyncShape
    <3> HIDE DEF x, after
    <3>3. after[v] = Blemished(x) /\ Blemished(x) \in SyncStates /\ Blemished(x).pc = x.pc
      BY <2>0, <3>1, <3>2, SyncMoves, DisturbedFields
    <3>4. after[v] \in UserStates
      BY <3>3 DEF UserStates
    <3>5. Aged(x, after[v], p)
      BY <2>2, <3>3, <3>4 DEF Aged
    <3> QED
      BY <3>5 DEF x
  <2>3. CASE x.pc \in p /\ x.pc \notin SyncPlaces
    <3>1. after[v] = [x EXCEPT !.clean = FALSE]
      BY <1>1, <1>3, <2>3
    <3>2. x \in RenderStates
      BY <2>0, <2>3, SyncShape DEF PlaceSets
    <3>3. after[v] \in RenderStates /\ after[v].pc = x.pc /\ ~after[v].clean
      BY <3>1, <3>2 DEF RenderStates
    <3> QED
      BY <2>3, <3>3 DEF Aged, UserStates
  <2> QED
    BY <2>1, <2>2, <2>3
<1>4. after \in [Users -> UserStates]
  <2>1. \A v \in Users : after[v] \in UserStates
    BY <1>2, <1>3 DEF Aged
  <2> QED
    BY <1>1, <2>1
<1> QED
  BY <1>2, <1>3, <1>4

\* A step that disturbs nobody.
LEMMA QuietIs ==
  ASSUME users \in [Users -> UserStates], NEW u \in Users, NEW y
  PROVE  After(u, y, {}) = [users EXCEPT ![u] = y]
BY DEF After, Disturb

LEMMA IssueTypes ==
  ASSUME FlowTypes, NEW u \in Users, users[u] \in SyncStates
  PROVE  /\ Stage(u) \in StageSet /\ users[u].data[Stage(u)] \in Gates
         /\ WantClosed(u) \in BOOLEAN /\ users[u] \in UserStates
         /\ Onward(u) = IF users[u].at < Len(Stages) THEN [users[u] EXCEPT !.pc = "issue", !.at = @ + 1]
                        ELSE Idle
         /\ Onward(u) \in UserStates
         /\ [users[u] EXCEPT !.pc = "close"] \in UserStates
<1> DEFINE x == users[u]
<1>1. x \in UserStates /\ x \in SyncStates
  BY DEF FlowTypes
<1>2. x.at \in 1..Len(Stages) /\ x.data \in Statuses /\ x.clean \in BOOLEAN
  BY <1>1, SyncShape
<1>3. Stage(u) \in StageSet
  BY <1>2, StagesAssumption DEF Stage, StageSet
<1>4. x.data[Stage(u)] \in Gates
  BY <1>2, <1>3 DEF Statuses, Gates
<1>5. [x EXCEPT !.pc = "close"] \in UserStates
  <2> HIDE DEF x
  <2>1. [x EXCEPT !.pc = "close"] = Moved(x, "close", x.at, x.clean)
    BY <1>1, SyncMoves DEF x
  <2>2. "close" \in SyncPlaces
    BY DEF SyncPlaces
  <2>3. [x EXCEPT !.pc = "close"] \in SyncStates
    BY <1>1, <1>2, <2>1, <2>2, SyncFields DEF x
  <2> QED
    BY <2>3 DEF UserStates
<1>6. Onward(u) \in UserStates
  <2>1. CASE x.at < Len(Stages)
    <3>1. x.at + 1 \in 1..Len(Stages) /\ "issue" \in SyncPlaces
      BY <1>2, <2>1, StagesAssumption DEF SyncPlaces
    <3>2. Onward(u) = [x EXCEPT !.pc = "issue", !.at = @ + 1]
      BY <2>1 DEF Onward
    <3> HIDE DEF x
    <3>3. Onward(u) = Moved(x, "issue", x.at + 1, x.clean)
      BY <1>1, <3>2, SyncMoves DEF x
    <3>4. Onward(u) \in SyncStates
      BY <1>1, <1>2, <3>1, <3>3, SyncFields DEF x
    <3> QED
      BY <3>4 DEF UserStates
  <2>2. CASE ~(x.at < Len(Stages))
    BY <2>2 DEF Onward, UserStates
  <2> QED
    BY <2>1, <2>2
<1> QED
  BY <1>1, <1>3, <1>4, <1>5, <1>6 DEF WantClosed, Onward

WithBody(list, i, b) == [list EXCEPT ![i].body = b]
WithClosed(list, i, c) == [list EXCEPT ![i].closed = c]
SameTitles(list, new) == Len(new) = Len(list) /\ \A k \in 1..Len(list) : new[k].stage = list[k].stage

\* Editing an issue keeps its title and the other issues.
LEMMA BodyFacts ==
  ASSUME NEW list \in Seq(IssueRecords), NEW i, NEW b \in Gates
  PROVE  LET new == WithBody(list, i, b) IN
         /\ new \in Seq(IssueRecords) /\ SameTitles(list, new)
         /\ \A k \in 1..Len(list) : /\ new[k].closed = list[k].closed
                                    /\ k # i => new[k] = list[k]
                                    /\ k = i => new[k].body = b
<1> DEFINE new == WithBody(list, i, b)
<1>1. new = [k \in 1..Len(list) |-> IF k = i THEN [list[k] EXCEPT !.body = b] ELSE list[k]]
  BY DEF WithBody
<1>2. \A k \in 1..Len(list) : list[k] \in IssueRecords
  OBVIOUS
<1>3. \A k \in 1..Len(list) : new[k] \in IssueRecords /\ new[k].stage = list[k].stage
                              /\ new[k].closed = list[k].closed
                              /\ (k # i => new[k] = list[k]) /\ (k = i => new[k].body = b)
  BY <1>1, <1>2 DEF IssueRecords
<1>4. new \in [1..Len(list) -> IssueRecords]
  BY <1>1, <1>3
<1> HIDE DEF new
<1>5. new \in Seq(IssueRecords) /\ Len(new) = Len(list)
  <2>1. Len(list) \in Nat
    OBVIOUS
  <2> QED
    BY <1>4, <2>1
<1> QED
  BY <1>3, <1>5 DEF SameTitles, new

LEMMA ClosedFacts ==
  ASSUME NEW list \in Seq(IssueRecords), NEW i, NEW c \in BOOLEAN
  PROVE  LET new == WithClosed(list, i, c) IN
         /\ new \in Seq(IssueRecords) /\ SameTitles(list, new)
         /\ \A k \in 1..Len(list) : /\ new[k].body = list[k].body
                                    /\ k # i => new[k] = list[k]
                                    /\ k = i => new[k].closed = c
<1> DEFINE new == WithClosed(list, i, c)
<1>1. new = [k \in 1..Len(list) |-> IF k = i THEN [list[k] EXCEPT !.closed = c] ELSE list[k]]
  BY DEF WithClosed
<1>2. \A k \in 1..Len(list) : list[k] \in IssueRecords
  OBVIOUS
<1>3. \A k \in 1..Len(list) : new[k] \in IssueRecords /\ new[k].stage = list[k].stage
                              /\ new[k].body = list[k].body
                              /\ (k # i => new[k] = list[k]) /\ (k = i => new[k].closed = c)
  BY <1>1, <1>2 DEF IssueRecords
<1>4. new \in [1..Len(list) -> IssueRecords]
  BY <1>1, <1>3
<1> HIDE DEF new
<1>5. new \in Seq(IssueRecords) /\ Len(new) = Len(list)
  <2>1. Len(list) \in Nat
    OBVIOUS
  <2> QED
    BY <1>4, <2>1
<1> QED
  BY <1>3, <1>5 DEF SameTitles, new

-----------------------------------------------------------------------------
\* Types, and what each step does to the process that takes it.

LEMMA FlowTypesInit == FlowInit => FlowTypes
<1> SUFFICES ASSUME FlowInit PROVE FlowTypes
  OBVIOUS
<1>1. Initial \in Statuses
  BY DEF Initial, Statuses, States, Results
<1>2. users \in [Users -> UserStates]
  BY DEF FlowInit, UserStates
<1>3. issues \in Seq(IssueRecords)
  BY DEF FlowInit
<1> QED
  BY <1>1, <1>2, <1>3 DEF FlowInit, FlowTypes

SyncActs(u) == \/ StartSync(u) \/ LoadForSync(u) \/ ListIssues(u) \/ CreateIssue(u)
               \/ EditIssue(u) \/ CloseOrReopen(u) \/ IgnoreFailure(u)
Elsewhere == SyncPlaces \cup {"idle", "load"}

\* The processes are finitely many, and so are those in a synchronisation.
LEMMA SyncingIs ==
  ASSUME NEW u \in Users
  PROVE  /\ IsFiniteSet(Syncing) /\ Cardinality(Syncing) \in Nat
         /\ IsFiniteSet(Syncing \cup {u}) /\ Cardinality(Syncing \cup {u}) \in Nat
<1>1. Syncing \subseteq Users /\ Syncing \cup {u} \subseteq Users
  BY DEF Syncing
<1>2. IsFiniteSet(Syncing) /\ IsFiniteSet(Syncing \cup {u})
  BY <1>1, UsersAssumption, FS_Subset
<1> QED
  BY <1>2, FS_CardinalityType

SyncEffect(u, y, p) ==
  /\ p \in {{}, SyncPlaces} /\ users' = After(u, y, p)
  /\ y.pc \in Elsewhere /\ users[u].pc \in Elsewhere
  /\ UNCHANGED <<statusFile, progress, may, behind>>
  /\ issues' \in Seq(IssueRecords) /\ together' \in Nat

LEMMA SyncEffects ==
  ASSUME FlowTypes, NEW u \in Users, SyncActs(u)
  PROVE  \E y \in UserStates, p \in PlaceSets : SyncEffect(u, y, p)
<1>u. users \in [Users -> UserStates] /\ users[u] \in UserStates /\ issues \in Seq(IssueRecords)
      /\ {} \in PlaceSets /\ SyncPlaces \in PlaceSets
  BY DEF FlowTypes, PlaceSets
<1>a. ASSUME NEW y \in UserStates, y.pc \in Elsewhere, users[u].pc \in Elsewhere,
             users' = [users EXCEPT ![u] = y] \/ users' = After(u, y, SyncPlaces),
             UNCHANGED <<statusFile, progress, may, behind>>,
             issues' \in Seq(IssueRecords), together' \in Nat
      PROVE  \E z \in UserStates, p \in PlaceSets : SyncEffect(u, z, p)
  BY <1>a, <1>u, QuietIs DEF SyncEffect
<1>b. users[u].pc \in SyncPlaces => users[u] \in SyncStates /\ users[u].pc \in Elsewhere
  BY <1>u, SyncShape DEF Elsewhere
<1>c. ASSUME NEW y \in SyncStates PROVE y \in UserStates /\ y.pc \in Elsewhere
  BY DEF UserStates, SyncStates, FreshStates, NumberedStates, Elsewhere
<1>i. Idle \in UserStates /\ Idle.pc \in Elsewhere
  BY DEF UserStates, Idle, Elsewhere
<1>l. LoadState \in UserStates /\ LoadState.pc \in Elsewhere
  BY DEF UserStates, LoadState, Elsewhere
<1>1. CASE StartSync(u)
  <2>1. users' = [users EXCEPT ![u] = LoadState] /\ users[u].pc \in Elsewhere
    BY <1>1, <1>i DEF StartSync, LoadState
  <2> QED
    BY <1>1, <1>a, <1>l, <1>u, <2>1 DEF StartSync, FlowTypes
<1>2. CASE LoadForSync(u)
  <2> DEFINE fresh == [pc |-> "list", data |-> statusFile, listed |-> <<>>, at |-> 1, clean |-> TRUE]
             y == IF Parses(statusFile) THEN fresh ELSE Idle
  <2>1. users' = [users EXCEPT ![u] = y] /\ users[u].pc \in Elsewhere
    BY <1>2 DEF LoadForSync, Elsewhere
  <2>2. ASSUME Parses(statusFile) PROVE fresh \in SyncStates
    <3>1. statusFile \in Statuses /\ 1 \in 1..Len(Stages) /\ <<>> \in Seq(IssueRecords)
      BY <2>2, StagesAssumption DEF FlowTypes, Parses
    <3>2. fresh \in FreshStates
      BY <3>1 DEF FreshStates, SyncPlaces
    <3> QED
      BY <3>2 DEF SyncStates
  <2>3. y \in UserStates /\ y.pc \in Elsewhere
    BY <1>c, <1>i, <2>2
  <2>4. together' \in Nat
    BY <1>2, SyncingIs DEF LoadForSync, LargerOf, FlowTypes
  <2> HIDE DEF y
  <2> QED
    BY <1>2, <1>a, <1>u, <2>1, <2>3, <2>4 DEF LoadForSync
<1>3. CASE ListIssues(u)
  <2> DEFINE y == [users[u] EXCEPT !.pc = "issue", !.listed = issues]
  <2>1. users[u] \in SyncStates /\ users[u].pc \in Elsewhere
    BY <1>3, <1>b DEF ListIssues, SyncPlaces
  <2>2. y \in SyncStates
    <3>1. CASE users[u] \in FreshStates
      BY <3>1 DEF FreshStates, SyncStates, SyncPlaces, FlowTypes
    <3>2. CASE users[u] \in NumberedStates
      BY <3>2 DEF NumberedStates, SyncStates, SyncPlaces, FlowTypes
    <3> QED
      BY <2>1, <3>1, <3>2 DEF SyncStates
  <2>3. users' = [users EXCEPT ![u] = y]
    BY <1>3 DEF ListIssues
  <2> HIDE DEF y
  <2> QED
    BY <1>3, <1>a, <1>c, <1>u, <2>1, <2>2, <2>3 DEF ListIssues, FlowTypes
<1>4. CASE CreateIssue(u)
  <2> DEFINE y == [pc |-> "close", data |-> users[u].data, listed |-> users[u].listed,
                   at |-> users[u].at, clean |-> users[u].clean, number |-> Len(issues) + 1]
             e == [stage |-> Stage(u), body |-> users[u].data[Stage(u)], closed |-> FALSE]
  <2>1. users[u] \in SyncStates /\ users[u].pc \in Elsewhere
    BY <1>4, <1>b DEF CreateIssue, SyncPlaces
  <2>2. Len(issues) + 1 \in Nat
    BY <1>u
  <2>3. y \in NumberedStates
    BY <1>u, <2>1, <2>2, SyncShape DEF NumberedStates, SyncPlaces
  <2>4. e \in IssueRecords
    BY <2>1, IssueTypes DEF IssueRecords
  <2>5. issues' = Append(issues, e) /\ users' = After(u, y, SyncPlaces)
    BY <1>4 DEF CreateIssue, IssueTouched, After
  <2>6. issues' \in Seq(IssueRecords) /\ y \in SyncStates
    BY <1>u, <2>3, <2>4, <2>5 DEF SyncStates
  <2> HIDE DEF y, e
  <2> QED
    BY <1>4, <1>a, <1>c, <2>1, <2>5, <2>6 DEF CreateIssue, FlowTypes
<1>5. CASE EditIssue(u)
  <2> DEFINE y == [users[u] EXCEPT !.pc = "close"]
  <2>1. users[u] \in SyncStates /\ users[u].pc \in Elsewhere
    BY <1>5, <1>b DEF EditIssue, SyncPlaces
  <2>2. y \in UserStates /\ y.pc \in Elsewhere
    BY <2>1, IssueTypes DEF SyncStates, FreshStates, NumberedStates, Elsewhere, SyncPlaces
  <2>3. issues' = WithBody(issues, Issue(u), users[u].data[Stage(u)]) /\ users' = After(u, y, SyncPlaces)
    BY <1>5 DEF EditIssue, WithBody, IssueTouched, After
  <2>4. issues' \in Seq(IssueRecords)
    BY <1>u, <2>1, <2>3, IssueTypes, BodyFacts
  <2> HIDE DEF y
  <2> QED
    BY <1>5, <1>a, <2>1, <2>2, <2>3, <2>4 DEF EditIssue, FlowTypes
<1>6. CASE CloseOrReopen(u)
  <2>1. users[u] \in SyncStates /\ users[u].pc \in Elsewhere
    BY <1>6, <1>b DEF CloseOrReopen, SyncPlaces
  <2>2. Onward(u) \in UserStates /\ WantClosed(u) \in BOOLEAN
    BY <2>1, IssueTypes
  <2>3. Onward(u).pc \in Elsewhere
    BY <2>1 DEF Onward, Idle, SyncStates, FreshStates, NumberedStates, Elsewhere, SyncPlaces
  <2>4. issues' = issues \/ issues' = WithClosed(issues, Number(u), WantClosed(u))
    BY <1>6 DEF CloseOrReopen, WithClosed
  <2>5. issues' \in Seq(IssueRecords)
    BY <1>u, <2>2, <2>4, ClosedFacts
  <2>6. users' = After(u, Onward(u), SyncPlaces)
    BY <1>6 DEF CloseOrReopen, IssueTouched, After
  <2> QED
    BY <1>6, <1>a, <2>1, <2>2, <2>3, <2>5, <2>6 DEF CloseOrReopen, FlowTypes
<1>7. CASE IgnoreFailure(u)
  <2>1. users[u] \in SyncStates /\ users[u].pc \in Elsewhere
    BY <1>7, <1>b DEF IgnoreFailure, SyncPlaces
  <2>a. users[u].at \in 1..Len(Stages) /\ "close" \in SyncPlaces /\ "issue" \in SyncPlaces
    BY <1>u, <2>1, SyncShape DEF SyncPlaces
  <2>2. PICK y \in UserStates : users' = [users EXCEPT ![u] = y] /\ y.pc \in Elsewhere
    <3>1. CASE users' = [users EXCEPT ![u].pc = "close", ![u].clean = FALSE]
      <4>1. users' = [users EXCEPT ![u] = [@ EXCEPT !.pc = "close", !.clean = FALSE]]
        BY <3>1, <1>u
      <4>2. [users[u] EXCEPT !.pc = "close", !.clean = FALSE] = Moved(users[u], "close", users[u].at, FALSE)
        <5>1. CASE users[u] \in FreshStates
          BY <5>1 DEF FreshStates, Moved
        <5>2. CASE users[u] \in NumberedStates
          BY <5>2 DEF NumberedStates, Moved
        <5> QED
          BY <2>1, <5>1, <5>2 DEF SyncStates
      <4>3. Moved(users[u], "close", users[u].at, FALSE) \in SyncStates
        BY <2>1, <2>a, SyncFields
      <4> QED
        BY <1>c, <4>1, <4>2, <4>3
    <3>2. CASE users' = [users EXCEPT ![u] = IF Ends(u) THEN Idle ELSE [Onward(u) EXCEPT !.clean = FALSE]]
      <4>1. CASE Ends(u)
        BY <1>i, <3>2, <4>1
      <4>2. CASE ~Ends(u)
        <5>1. users[u].at < Len(Stages) /\ users[u].at + 1 \in 1..Len(Stages)
          BY <2>a, <4>2, StagesAssumption DEF Ends
        <5>2. Onward(u) = [users[u] EXCEPT !.pc = "issue", !.at = @ + 1]
          BY <5>1 DEF Onward
        <5>3. [Onward(u) EXCEPT !.clean = FALSE] = Moved(users[u], "issue", users[u].at + 1, FALSE)
          BY <1>u, <2>1, <5>2, SyncMoves
        <5>4. Moved(users[u], "issue", users[u].at + 1, FALSE) \in SyncStates
          BY <2>1, <2>a, <5>1, SyncFields
        <5> QED
          BY <1>c, <3>2, <4>2, <5>3, <5>4
      <4> QED
        BY <4>1, <4>2
    <3> QED
      BY <1>7, <3>1, <3>2 DEF IgnoreFailure
  <2> QED
    BY <1>7, <1>a, <1>u, <2>1, <2>2 DEF IgnoreFailure, FlowTypes
<1> QED
  BY <1>1, <1>2, <1>3, <1>4, <1>5, <1>6, <1>7 DEF SyncActs

PlainActs(u) == \/ LoadStatus(u) \/ Truncate(u) \/ Save(u) \/ EditStatus(u) \/ StartRender(u)
                \/ LoadForRender(u) \/ TruncateProgress(u) \/ WriteProgress(u) \/ Stop(u)
PlainEffect(u, y, p) ==
  /\ users' = After(u, y, p) /\ y.pc \notin SyncPlaces
  /\ UNCHANGED <<issues, together>>
  /\ statusFile' \in Statuses \cup {Torn, Mixed} /\ progress' \in Statuses \cup {Torn, Mixed}
  /\ behind' \in BOOLEAN
  /\ (p = {} => statusFile' = statusFile) /\ (settled' => settled /\ statusFile' = statusFile)

\* The steps of a command or a rendering, and its end, leave the issues alone.
LEMMA PlainEffects ==
  ASSUME FlowTypes, NEW u \in Users, PlainActs(u)
  PROVE  \E y \in UserStates, p \in PlaceSets : PlainEffect(u, y, p)
<1> DEFINE big == SyncPlaces \cup {"rendered", "blank"}
<1>u. /\ users \in [Users -> UserStates] /\ users[u] \in UserStates
      /\ statusFile \in Statuses \cup {Torn, Mixed} /\ progress \in Statuses \cup {Torn, Mixed}
      /\ behind \in BOOLEAN /\ {} \in PlaceSets /\ big \in PlaceSets /\ big # {}
  BY DEF FlowTypes, PlaceSets
<1>a. ASSUME NEW y \in UserStates, y.pc \notin SyncPlaces, users' = [users EXCEPT ![u] = y],
             UNCHANGED <<statusFile, issues, together, settled>>,
             progress' \in Statuses \cup {Torn, Mixed}, behind' \in BOOLEAN
      PROVE  \E z \in UserStates, p \in PlaceSets : PlainEffect(u, z, p)
  BY <1>a, <1>u, QuietIs DEF PlainEffect
<1>b. ASSUME NEW y \in UserStates, y.pc \notin SyncPlaces, users' = StatusWritten(u, [users EXCEPT ![u] = y]),
             UNCHANGED <<issues, together, progress>>, ~settled',
             statusFile' \in Statuses \cup {Torn, Mixed}, behind' \in BOOLEAN
      PROVE  \E z \in UserStates, p \in PlaceSets : PlainEffect(u, z, p)
  <2>1. users' = After(u, y, big)
    BY <1>b DEF After, StatusWritten
  <2> HIDE DEF big
  <2>2. PlainEffect(u, y, big)
    BY <1>b, <1>u, <2>1 DEF PlainEffect
  <2> QED
    BY <1>u, <2>2
<1>w. ASSUME NEW text \in Statuses \cup {Torn, Mixed}, NEW d \in Statuses
      PROVE  Written(text, d) \subseteq Statuses \cup {Torn, Mixed}
  BY DEF Written
<1>i. Idle \in UserStates /\ Idle.pc \notin SyncPlaces
  BY DEF UserStates, Idle, SyncPlaces
<1>l. LoadState \in UserStates /\ LoadState.pc \notin SyncPlaces
  BY DEF UserStates, LoadState, SyncPlaces
<1>r. ASSUME NEW h \in BOOLEAN
      PROVE  [pc |-> "render", hook |-> h] \in UserStates /\ [pc |-> "render", hook |-> h].pc \notin SyncPlaces
  BY DEF UserStates, StartedStates, SyncPlaces
<1>h. users[u].pc \in {"render", "rendered", "blank"} =>
        AfterRender(u) \in UserStates /\ AfterRender(u).pc \notin SyncPlaces
  BY <1>i, <1>l DEF AfterRender, LoadState
<1>1. CASE LoadStatus(u)
  <2>1. PICK c \in Changes :
           users' = [users EXCEPT ![u] = [pc |-> "loaded", data |-> Changed(statusFile, c), change |-> c]]
    BY <1>1 DEF LoadStatus
  <2> DEFINE y == [pc |-> "loaded", data |-> Changed(statusFile, c), change |-> c]
  <2>2. statusFile \in Statuses
    BY <1>1, <1>u DEF LoadStatus, Parses
  <2>3. y \in InCommandStates
    BY <2>2, ChangedType DEF InCommandStates
  <2>4. y \in UserStates /\ y.pc \notin SyncPlaces
    BY <2>3 DEF UserStates, SyncPlaces
  <2> HIDE DEF y
  <2>5. users' = [users EXCEPT ![u] = y]
    BY <2>1 DEF y
  <2> QED
    BY <1>1, <1>a, <1>u, <2>4, <2>5 DEF LoadStatus
<1>2. CASE Truncate(u)
  <2> DEFINE y == [users[u] EXCEPT !.pc = "truncated"]
  <2>1. users[u] \in InCommandStates
    BY <1>2, <1>u, SyncShape DEF Truncate
  <2>2. y \in UserStates /\ y.pc \notin SyncPlaces
    BY <2>1 DEF InCommandStates, UserStates, SyncPlaces
  <2>3. [users EXCEPT ![u].pc = "truncated"] = [users EXCEPT ![u] = y]
    OBVIOUS
  <2> HIDE DEF y
  <2> QED
    BY <1>2, <1>b, <2>2, <2>3 DEF Truncate
<1>3. CASE Save(u)
  <2>1. users[u] \in InCommandStates /\ users[u].data \in Statuses
    BY <1>3, <1>u, SyncShape DEF Save, InCommandStates
  <2>2. statusFile' \in Statuses \cup {Torn, Mixed}
    BY <1>3, <1>u, <1>w, <2>1 DEF Save
  <2> QED
    BY <1>3, <1>b, <1>i, <2>2 DEF Save
<1>4. CASE EditStatus(u)
  <2>1. PICK c \in Changes, base \in IF Parses(statusFile) THEN {statusFile} ELSE Repaired :
           statusFile' = Changed(base, c)
    BY <1>4 DEF EditStatus
  <2>2. base \in Statuses
    BY <1>u, <2>1 DEF Parses, Repaired
  <2>3. statusFile' \in Statuses
    BY <2>1, <2>2, ChangedType
  <2> QED
    BY <1>4, <1>b, <1>r, <1>u, <2>3 DEF EditStatus
<1>5. CASE StartRender(u)
  BY <1>5, <1>a, <1>r, <1>u DEF StartRender
<1>6. CASE LoadForRender(u)
  <2> DEFINE y == [pc |-> "rendered", hook |-> users[u].hook, data |-> statusFile, clean |-> TRUE]
             z == IF Parses(statusFile) THEN y ELSE AfterRender(u)
  <2>1. users[u] \in StartedStates
    BY <1>6, <1>u, SyncShape DEF LoadForRender
  <2>2. ASSUME Parses(statusFile) PROVE y \in UserStates /\ y.pc \notin SyncPlaces
    BY <1>u, <2>1, <2>2 DEF Parses, StartedStates, RenderStates, UserStates, SyncPlaces
  <2>3. users' = [users EXCEPT ![u] = z]
    BY <1>6 DEF LoadForRender
  <2>4. z \in UserStates /\ z.pc \notin SyncPlaces
    BY <1>6, <1>h, <2>2 DEF LoadForRender
  <2> HIDE DEF z
  <2> QED
    BY <1>6, <1>a, <1>u, <2>3, <2>4 DEF LoadForRender
<1>7. CASE TruncateProgress(u)
  <2> DEFINE y == [users[u] EXCEPT !.pc = "blank"]
  <2>1. users[u] \in RenderStates
    BY <1>7, <1>u, SyncShape DEF TruncateProgress
  <2>2. y \in UserStates /\ y.pc \notin SyncPlaces
    BY <2>1 DEF RenderStates, UserStates, SyncPlaces
  <2>3. users' = [users EXCEPT ![u] = y] /\ behind' \in BOOLEAN
    BY <1>7, <1>u DEF TruncateProgress
  <2> HIDE DEF y
  <2> QED
    BY <1>7, <1>a, <2>2, <2>3 DEF TruncateProgress
<1>8. CASE WriteProgress(u)
  <2>1. users[u] \in RenderStates /\ users[u].data \in Statuses
    BY <1>8, <1>u, SyncShape DEF WriteProgress, RenderStates
  <2>2. progress' \in Statuses \cup {Torn, Mixed} /\ behind' \in BOOLEAN
    BY <1>8, <1>u, <1>w, <2>1 DEF WriteProgress
  <2>3. AfterRender(u) \in UserStates /\ AfterRender(u).pc \notin SyncPlaces
    BY <1>8, <1>h DEF WriteProgress
  <2> QED
    BY <1>8, <1>a, <2>2, <2>3 DEF WriteProgress
<1>9. CASE Stop(u)
  <2>1. users' = [users EXCEPT ![u] = Idle] \/ users' = [users EXCEPT ![u] = LoadState]
    BY <1>9 DEF Stop, LoadState
  <2>2. behind' \in BOOLEAN
    BY <1>9, <1>u DEF Stop, Rendering
  <2> QED
    BY <1>9, <1>a, <1>i, <1>l, <1>u, <2>1, <2>2 DEF Stop
<1> QED
  BY <1>1, <1>2, <1>3, <1>4, <1>5, <1>6, <1>7, <1>8, <1>9 DEF PlainActs

LEMMA NextActs ==
  FlowNext <=> \E u \in Users : PlainActs(u) \/ SyncActs(u)
BY DEF FlowNext, PlainActs, SyncActs

LEMMA FlowTypesStep == FlowTypes /\ [FlowNext]_flowVars => FlowTypes'
<1> SUFFICES ASSUME FlowTypes, [FlowNext]_flowVars PROVE FlowTypes'
  OBVIOUS
<1>0. CASE UNCHANGED flowVars
  BY <1>0 DEF flowVars, FlowTypes
<1>1. ASSUME NEW u \in Users, PlainActs(u) PROVE FlowTypes'
  <2>1. PICK y \in UserStates, p \in PlaceSets : PlainEffect(u, y, p)
    BY <1>1, PlainEffects
  <2>2. users' \in [Users -> UserStates]
    BY <2>1, DisturbFacts DEF FlowTypes, PlainEffect
  <2> QED
    BY <2>1, <2>2 DEF FlowTypes, PlainEffect
<1>2. ASSUME NEW u \in Users, SyncActs(u) PROVE FlowTypes'
  <2>1. PICK y \in UserStates, p \in PlaceSets : SyncEffect(u, y, p)
    BY <1>2, SyncEffects
  <2>2. users' \in [Users -> UserStates]
    BY <2>1, DisturbFacts DEF FlowTypes, SyncEffect
  <2> QED
    BY <2>1, <2>2 DEF FlowTypes, SyncEffect
<1> QED
  BY <1>0, <1>1, <1>2, NextActs

\* The step of a process leaves what the others carry.
LEMMA MayAfter ==
  ASSUME FlowTypes, MayInv, NEW u \in Users, NEW y \in UserStates, NEW p \in PlaceSets,
         users' = After(u, y, p),
         Parses(statusFile') => \A c \in Changes : Shows(statusFile', c) => c \in may',
         y.pc \in {"loaded", "truncated"} => Carries(may', y.data, y.change),
         \A c \in may : c \in may' \/ \A v \in Others(u) : ~InCommand(v)
  PROVE  MayInv'
<1>1. users \in [Users -> UserStates]
  BY DEF FlowTypes
<1>2. ASSUME NEW v \in Users, users'[v].pc \in {"loaded", "truncated"}
      PROVE  Carries(may', users'[v].data, users'[v].change)
  <2>1. CASE v = u
    BY <1>1, <1>2, <2>1, DisturbFacts
  <2>2. CASE v # u
    <3>1. Aged(users[v], users'[v], p)
      BY <1>1, <2>2, DisturbFacts
    <3>2. users'[v] = users[v]
      BY <1>2, <3>1 DEF Aged, PlaceSets, SyncPlaces
    <3>3. InCommand(v) /\ v \in Others(u)
      BY <1>2, <2>2, <3>2 DEF InCommand, Others
    <3>4. Carries(may, users[v].data, users[v].change)
      BY <3>3 DEF MayInv
    <3>5. \A c \in may : c \in may'
      BY <3>3
    <3> QED
      BY <3>2, <3>4, <3>5 DEF Carries
  <2> QED
    BY <2>1, <2>2
<1>3. \A v \in Users : InCommand(v)' => Carries(may', users'[v].data, users'[v].change)
  BY <1>2 DEF InCommand
<1> QED
  BY <1>3 DEF MayInv

LEMMA MayKept ==
  ASSUME FlowTypes, MayInv, NEW u \in Users, NEW y \in UserStates, NEW p \in PlaceSets,
         users' = After(u, y, p), y.pc \notin {"loaded", "truncated"},
         statusFile' = statusFile, may' = may
  PROVE  MayInv'
<1>1. Parses(statusFile') => \A c \in Changes : Shows(statusFile', c) => c \in may'
  BY DEF MayInv
<1> QED
  BY <1>1, MayAfter

\* What the written status shows was carried, and the others keep what they carry.
LEMMA NotedFacts ==
  ASSUME NEW u \in Users, NEW d \in Statuses, NEW c \in Changes, Carries(may, d, c)
  PROVE  /\ \A e \in Changes : Shows(d, e) => e \in Noted(u, c)
         /\ \A e \in may : e \in Noted(u, c) \/ \A v \in Others(u) : ~InCommand(v)
BY DEF Noted, Carries, SameField

LEMMA MayStep == FlowTypes /\ MayInv /\ [FlowNext]_flowVars => MayInv'
<1> DEFINE big == SyncPlaces \cup {"rendered", "blank"}
<1> SUFFICES ASSUME FlowTypes, MayInv, [FlowNext]_flowVars PROVE MayInv'
  OBVIOUS
<1>0. CASE UNCHANGED flowVars
  BY <1>0 DEF flowVars, MayInv, InCommand
<1>u. /\ users \in [Users -> UserStates] /\ statusFile \in Statuses \cup {Torn, Mixed}
      /\ big \in PlaceSets /\ {} \in PlaceSets
  BY DEF FlowTypes, PlaceSets
<1>i. Idle \in UserStates /\ LoadState \in UserStates
      /\ Idle.pc \notin {"loaded", "truncated"} /\ LoadState.pc \notin {"loaded", "truncated"}
  BY DEF UserStates, Idle, LoadState
<1>r. ASSUME NEW h \in BOOLEAN
      PROVE  [pc |-> "render", hook |-> h] \in UserStates
  BY DEF UserStates, StartedStates
<1>a. ASSUME NEW u \in Users, NEW y \in UserStates, y.pc \notin {"loaded", "truncated"},
             users' = [users EXCEPT ![u] = y], statusFile' = statusFile, may' = may
      PROVE  MayInv'
  BY <1>a, <1>u, QuietIs, MayKept
<1>1. ASSUME NEW u \in Users, LoadStatus(u) PROVE MayInv'
  <2>1. PICK c \in Changes :
           users' = [users EXCEPT ![u] = [pc |-> "loaded", data |-> Changed(statusFile, c), change |-> c]]
    BY <1>1 DEF LoadStatus
  <2> DEFINE y == [pc |-> "loaded", data |-> Changed(statusFile, c), change |-> c]
  <2>2. statusFile \in Statuses /\ Parses(statusFile)
    BY <1>1, <1>u DEF LoadStatus, Parses
  <2>3. y \in InCommandStates
    BY <2>2, ChangedType DEF InCommandStates
  <2>4. y \in UserStates
    BY <2>3 DEF UserStates
  <2>5. Carries(may, y.data, y.change)
    BY <2>2, ChangedShows DEF Carries, MayInv
  <2> HIDE DEF y
  <2>6. users' = After(u, y, {})
    BY <1>u, <2>1, QuietIs DEF y
  <2>7. statusFile' = statusFile /\ may' = may
    BY <1>1 DEF LoadStatus
  <2>8. Parses(statusFile') => \A d \in Changes : Shows(statusFile', d) => d \in may'
    BY <2>7 DEF MayInv
  <2> QED
    BY <1>u, <2>4, <2>5, <2>6, <2>7, <2>8, MayAfter
<1>2. ASSUME NEW u \in Users, Truncate(u) PROVE MayInv'
  <2> DEFINE y == [users[u] EXCEPT !.pc = "truncated"]
  <2>1. users[u] \in InCommandStates /\ InCommand(u)
    BY <1>2, <1>u, SyncShape DEF Truncate, InCommand
  <2>2. y \in UserStates /\ y.data = users[u].data /\ y.change = users[u].change
    BY <2>1 DEF InCommandStates, UserStates
  <2>3. users' = After(u, y, big)
    BY <1>2 DEF Truncate, StatusWritten, After
  <2> HIDE DEF y, big
  <2>4. ~Parses(statusFile') /\ may' = may
    BY <1>2 DEF Truncate, Parses
  <2>5. Carries(may', y.data, y.change)
    BY <2>1, <2>2, <2>4 DEF MayInv
  <2> QED
    BY <1>u, <2>2, <2>3, <2>4, <2>5, MayAfter
<1>3. ASSUME NEW u \in Users, Save(u) PROVE MayInv'
  <2> DEFINE d == users[u].data
             c == users[u].change
  <2>1. users[u] \in InCommandStates /\ InCommand(u)
    BY <1>3, <1>u, SyncShape DEF Save, InCommand
  <2>2. d \in Statuses /\ c \in Changes /\ Carries(may, d, c)
    BY <2>1 DEF InCommandStates, MayInv
  <2>3. users' = After(u, Idle, big)
    BY <1>3 DEF Save, StatusWritten, After
  <2>4. may' = Noted(u, c) /\ (Parses(statusFile') => statusFile' = d)
    BY <1>3 DEF Save, Written, Parses
  <2> HIDE DEF d, c, big
  <2>5. /\ \A e \in Changes : Shows(d, e) => e \in may'
        /\ \A e \in may : e \in may' \/ \A v \in Others(u) : ~InCommand(v)
    BY <2>2, <2>4, NotedFacts
  <2> QED
    BY <1>i, <1>u, <2>3, <2>4, <2>5, MayAfter
<1>4. ASSUME NEW u \in Users, EditStatus(u) PROVE MayInv'
  <2> DEFINE y == [pc |-> "render", hook |-> TRUE]
  <2>1. PICK c \in Changes, base \in IF Parses(statusFile) THEN {statusFile} ELSE Repaired :
           statusFile' = Changed(base, c) /\ may' = Noted(u, c)
    BY <1>4 DEF EditStatus
  <2>2. base \in Statuses /\ \A e \in Changes : Shows(base, e) => e \in may
    BY <1>u, <2>1 DEF Parses, Repaired, MayInv
  <2>3. Carries(may, Changed(base, c), c) /\ Changed(base, c) \in Statuses
    BY <2>2, ChangedShows, ChangedType DEF Carries
  <2>4. /\ \A e \in Changes : Shows(statusFile', e) => e \in may'
        /\ \A e \in may : e \in may' \/ \A v \in Others(u) : ~InCommand(v)
    BY <2>1, <2>3, NotedFacts
  <2>5. users' = After(u, y, big) /\ y \in UserStates /\ y.pc \notin {"loaded", "truncated"}
    BY <1>4, <1>r DEF EditStatus, StatusWritten, After
  <2> HIDE DEF y, big
  <2> QED
    BY <1>u, <2>4, <2>5, MayAfter
<1>5. ASSUME NEW u \in Users, StartRender(u) PROVE MayInv'
  BY <1>5, <1>a, <1>r DEF StartRender
<1>6. ASSUME NEW u \in Users, LoadForRender(u) PROVE MayInv'
  <2> DEFINE y == [pc |-> "rendered", hook |-> users[u].hook, data |-> statusFile, clean |-> TRUE]
  <2>1. users[u] \in StartedStates
    BY <1>6, <1>u, SyncShape DEF LoadForRender
  <2>2. CASE Parses(statusFile)
    <3>1. users' = [users EXCEPT ![u] = y]
      BY <1>6, <2>2 DEF LoadForRender
    <3>2. y \in UserStates /\ y.pc \notin {"loaded", "truncated"}
      BY <1>u, <2>1, <2>2 DEF Parses, StartedStates, RenderStates, UserStates
    <3> HIDE DEF y
    <3> QED
      BY <1>6, <1>a, <3>1, <3>2 DEF LoadForRender
  <2>3. CASE ~Parses(statusFile)
    <3>1. users' = [users EXCEPT ![u] = Idle] \/ users' = [users EXCEPT ![u] = LoadState]
      BY <1>6, <2>3 DEF LoadForRender, AfterRender, LoadState
    <3> QED
      BY <1>6, <1>a, <1>i, <3>1 DEF LoadForRender
  <2> QED
    BY <2>2, <2>3
<1>7. ASSUME NEW u \in Users, TruncateProgress(u) PROVE MayInv'
  <2> DEFINE y == [users[u] EXCEPT !.pc = "blank"]
  <2>1. users[u] \in RenderStates
    BY <1>7, <1>u, SyncShape DEF TruncateProgress
  <2>2. y \in UserStates /\ y.pc \notin {"loaded", "truncated"}
    BY <2>1 DEF RenderStates, UserStates
  <2>3. users' = [users EXCEPT ![u] = y]
    BY <1>7 DEF TruncateProgress
  <2> HIDE DEF y
  <2> QED
    BY <1>7, <1>a, <2>2, <2>3 DEF TruncateProgress
<1>8. ASSUME NEW u \in Users, WriteProgress(u) PROVE MayInv'
  <2>1. users' = [users EXCEPT ![u] = Idle] \/ users' = [users EXCEPT ![u] = LoadState]
    BY <1>8 DEF WriteProgress, AfterRender, LoadState
  <2> QED
    BY <1>8, <1>a, <1>i, <2>1 DEF WriteProgress
<1>9. ASSUME NEW u \in Users, Stop(u) PROVE MayInv'
  <2>1. users' = [users EXCEPT ![u] = Idle] \/ users' = [users EXCEPT ![u] = LoadState]
    BY <1>9 DEF Stop, LoadState
  <2> QED
    BY <1>9, <1>a, <1>i, <2>1 DEF Stop
<1>10. ASSUME NEW u \in Users, SyncActs(u) PROVE MayInv'
  <2>1. PICK y \in UserStates, p \in PlaceSets : SyncEffect(u, y, p)
    BY <1>10, SyncEffects
  <2>2. y.pc \notin {"loaded", "truncated"}
    BY <2>1 DEF SyncEffect, Elsewhere, SyncPlaces
  <2> QED
    BY <2>1, <2>2, MayKept DEF SyncEffect
<1> QED
  BY <1>0, <1>1, <1>2, <1>3, <1>4, <1>5, <1>6, <1>7, <1>8, <1>9, <1>10, NextActs DEF PlainActs

\* The process that took the step has rendered, will render, or left the rendering alone.
LEMMA RenderAfter ==
  ASSUME FlowTypes, RenderInv, NEW u \in Users, NEW y \in UserStates, NEW p \in PlaceSets,
         users' = After(u, y, p),
         statusFile' = statusFile \/ p = SyncPlaces \cup {"rendered", "blank"},
         y.pc \in {"rendered", "blank"} /\ y.clean => y.data = statusFile',
         ~Parses(statusFile') => behind',
         ~behind' => \/ y.pc = "render" \/ (y.pc \in {"rendered", "blank"} /\ y.clean)
                     \/ progress' = statusFile'
                     \/ /\ ~behind /\ progress' = progress /\ statusFile' = statusFile
                        /\ p # SyncPlaces \cup {"rendered", "blank"} /\ ~WillRender(u)
  PROVE  RenderInv'
<1>1. users \in [Users -> UserStates]
  BY DEF FlowTypes
<1>2. users'[u] = y /\ \A v \in Users : v # u => Aged(users[v], users'[v], p)
  BY <1>1, DisturbFacts
<1>3. ASSUME NEW v \in Users, users'[v].pc \in {"rendered", "blank"}, users'[v].clean
      PROVE  users'[v].data = statusFile'
  <2>1. CASE v = u
    BY <1>2, <1>3, <2>1
  <2>2. CASE v # u
    <3>1. Aged(users[v], users'[v], p)
      BY <1>2, <2>2
    <3>2. users'[v] = users[v] /\ statusFile' = statusFile
      BY <1>3, <3>1 DEF Aged, PlaceSets, SyncPlaces
    <3> QED
      BY <1>3, <3>2 DEF RenderInv
  <2> QED
    BY <2>1, <2>2
<1>4. ASSUME ~behind', \A v \in Users : ~WillRender(v)' PROVE progress' = statusFile'
  <2>1. CASE progress' = statusFile'
    BY <2>1
  <2>2. CASE /\ ~behind /\ progress' = progress /\ statusFile' = statusFile
             /\ p # SyncPlaces \cup {"rendered", "blank"} /\ ~WillRender(u)
    <3>1. ASSUME NEW v \in Users, v # u PROVE ~WillRender(v)
      <4>1. Aged(users[v], users'[v], p) /\ ~WillRender(v)'
        BY <1>2, <1>4, <3>1
      <4>2. users[v].pc \in {"render", "rendered", "blank"} => users'[v] = users[v]
        BY <2>2, <4>1 DEF Aged, PlaceSets, SyncPlaces
      <4> QED
        BY <4>1, <4>2 DEF WillRender
    <3> QED
      BY <2>2, <3>1 DEF RenderInv
  <2>3. CASE y.pc = "render" \/ (y.pc \in {"rendered", "blank"} /\ y.clean)
    <3>1. ~WillRender(u)' /\ users'[u] = y
      BY <1>2, <1>4
    <3> QED
      BY <2>3, <3>1 DEF WillRender
  <2> QED
    BY <1>4, <2>1, <2>2, <2>3
<1> QED
  BY <1>3, <1>4 DEF RenderInv

LEMMA RenderStep == FlowTypes /\ RenderInv /\ [FlowNext]_flowVars => RenderInv'
<1> DEFINE big == SyncPlaces \cup {"rendered", "blank"}
<1> SUFFICES ASSUME FlowTypes, RenderInv, [FlowNext]_flowVars PROVE RenderInv'
  OBVIOUS
<1>0. CASE UNCHANGED flowVars
  BY <1>0 DEF flowVars, RenderInv, WillRender
<1>u. /\ users \in [Users -> UserStates] /\ statusFile \in Statuses \cup {Torn, Mixed}
      /\ big \in PlaceSets /\ {} \in PlaceSets /\ {} # big /\ SyncPlaces # big
      /\ (~Parses(statusFile) => behind)
  BY DEF FlowTypes, PlaceSets, RenderInv, SyncPlaces
<1>i. /\ Idle \in UserStates /\ LoadState \in UserStates
      /\ Idle.pc \notin {"rendered", "blank"} /\ LoadState.pc \notin {"rendered", "blank"}
  BY DEF UserStates, Idle, LoadState
<1>r. ASSUME NEW h \in BOOLEAN
      PROVE  [pc |-> "render", hook |-> h] \in UserStates
  BY DEF UserStates, StartedStates
<1>b. ASSUME NEW u \in Users, NEW y \in UserStates, y.pc \notin {"rendered", "blank"},
             users' = StatusWritten(u, [users EXCEPT ![u] = y]),
             ~behind' => y.pc = "render" /\ Parses(statusFile')
      PROVE  RenderInv'
  <2>1. users' = After(u, y, big)
    BY <1>b DEF StatusWritten, After
  <2> QED
    BY <1>b, <1>u, <2>1, RenderAfter
<1>1. ASSUME NEW u \in Users, LoadStatus(u) PROVE RenderInv'
  <2>1. PICK c \in Changes :
           users' = [users EXCEPT ![u] = [pc |-> "loaded", data |-> Changed(statusFile, c), change |-> c]]
    BY <1>1 DEF LoadStatus
  <2> DEFINE y == [pc |-> "loaded", data |-> Changed(statusFile, c), change |-> c]
  <2>2. statusFile \in Statuses
    BY <1>1, <1>u DEF LoadStatus, Parses
  <2>3. y \in InCommandStates
    BY <2>2, ChangedType DEF InCommandStates
  <2>4. y \in UserStates /\ y.pc \notin {"rendered", "blank"}
    BY <2>3 DEF UserStates
  <2> HIDE DEF y
  <2>5. users' = After(u, y, {})
    BY <1>u, <2>1, QuietIs DEF y
  <2>6. ~WillRender(u) /\ UNCHANGED <<statusFile, progress, behind>>
    BY <1>1 DEF LoadStatus, WillRender, Idle
  <2> HIDE DEF big
  <2> QED
    BY <1>u, <2>4, <2>5, <2>6, RenderAfter DEF big
<1>2. ASSUME NEW u \in Users, Truncate(u) PROVE RenderInv'
  <2> DEFINE y == [users[u] EXCEPT !.pc = "truncated"]
  <2>1. users[u] \in InCommandStates
    BY <1>2, <1>u, SyncShape DEF Truncate
  <2>2. y \in UserStates /\ y.pc \notin {"rendered", "blank"}
    BY <2>1 DEF InCommandStates, UserStates
  <2>3. [users EXCEPT ![u].pc = "truncated"] = [users EXCEPT ![u] = y]
    OBVIOUS
  <2> HIDE DEF y
  <2> QED
    BY <1>2, <1>b, <2>2, <2>3 DEF Truncate
<1>3. ASSUME NEW u \in Users, Save(u) PROVE RenderInv'
  BY <1>3, <1>b, <1>i DEF Save
<1>4. ASSUME NEW u \in Users, EditStatus(u) PROVE RenderInv'
  <2> DEFINE y == [pc |-> "render", hook |-> TRUE]
  <2>1. PICK c \in Changes, base \in IF Parses(statusFile) THEN {statusFile} ELSE Repaired :
           statusFile' = Changed(base, c)
    BY <1>4 DEF EditStatus
  <2>2. base \in Statuses
    BY <1>u, <2>1 DEF Parses, Repaired
  <2>3. Parses(statusFile')
    BY <2>1, <2>2, ChangedType, StatusParses
  <2>4. y \in UserStates /\ y.pc = "render" /\ users' = StatusWritten(u, [users EXCEPT ![u] = y])
    BY <1>4, <1>r DEF EditStatus
  <2> HIDE DEF y
  <2> QED
    BY <1>b, <2>3, <2>4
<1>5. ASSUME NEW u \in Users, StartRender(u) PROVE RenderInv'
  <2> DEFINE y == [pc |-> "render", hook |-> FALSE]
  <2>1. y \in UserStates /\ y.pc = "render" /\ users' = [users EXCEPT ![u] = y]
    BY <1>5, <1>r DEF StartRender
  <2> HIDE DEF y
  <2>2. users' = After(u, y, {})
    BY <1>u, <2>1, QuietIs
  <2>3. statusFile' = statusFile /\ behind' = behind
    BY <1>5 DEF StartRender
  <2> QED
    BY <1>u, <2>1, <2>2, <2>3, RenderAfter
<1>6. ASSUME NEW u \in Users, LoadForRender(u) PROVE RenderInv'
  <2> DEFINE y == [pc |-> "rendered", hook |-> users[u].hook, data |-> statusFile, clean |-> TRUE]
  <2>1. users[u] \in StartedStates /\ statusFile' = statusFile /\ behind' = behind
    BY <1>6, <1>u, SyncShape DEF LoadForRender
  <2>2. CASE Parses(statusFile)
    <3>1. users' = [users EXCEPT ![u] = y]
      BY <1>6, <2>2 DEF LoadForRender
    <3>2. y \in UserStates /\ y.pc = "rendered" /\ y.clean /\ y.data = statusFile
      BY <1>u, <2>1, <2>2 DEF Parses, StartedStates, RenderStates, UserStates
    <3> HIDE DEF y
    <3>3. users' = After(u, y, {})
      BY <1>u, <3>1, QuietIs
    <3> QED
      BY <1>u, <2>1, <3>2, <3>3, RenderAfter
  <2>3. CASE ~Parses(statusFile)
    <3>1. users' = [users EXCEPT ![u] = Idle] \/ users' = [users EXCEPT ![u] = LoadState]
      BY <1>6, <2>3 DEF LoadForRender, AfterRender, LoadState
    <3>2. users' = After(u, Idle, {}) \/ users' = After(u, LoadState, {})
      BY <1>u, <3>1, QuietIs
    <3>3. behind'
      BY <1>u, <2>1, <2>3
    <3> QED
      BY <1>i, <1>u, <2>1, <3>2, <3>3, RenderAfter
  <2> QED
    BY <2>2, <2>3
<1>7. ASSUME NEW u \in Users, TruncateProgress(u) PROVE RenderInv'
  <2> DEFINE y == [users[u] EXCEPT !.pc = "blank"]
  <2>1. users[u] \in RenderStates /\ users[u].pc = "rendered"
    BY <1>7, <1>u, SyncShape DEF TruncateProgress
  <2>2. /\ y \in UserStates /\ y.pc = "blank" /\ y.clean = users[u].clean /\ y.data = users[u].data
    BY <2>1 DEF RenderStates, UserStates
  <2>3. users' = [users EXCEPT ![u] = y] /\ statusFile' = statusFile
        /\ (~behind' => ~behind /\ users[u].clean)
    BY <1>7 DEF TruncateProgress
  <2> HIDE DEF y
  <2>4. users' = After(u, y, {})
    BY <1>u, <2>3, QuietIs
  <2>5. y.clean => y.data = statusFile'
    BY <2>1, <2>2, <2>3 DEF RenderInv
  <2> QED
    BY <1>u, <2>2, <2>3, <2>4, <2>5, RenderAfter
<1>8. ASSUME NEW u \in Users, WriteProgress(u) PROVE RenderInv'
  <2>1. users' = [users EXCEPT ![u] = Idle] \/ users' = [users EXCEPT ![u] = LoadState]
    BY <1>8 DEF WriteProgress, AfterRender, LoadState
  <2>2. users' = After(u, Idle, {}) \/ users' = After(u, LoadState, {})
    BY <1>u, <2>1, QuietIs
  <2>3. users[u].data \in Statuses /\ (users[u].clean => users[u].data = statusFile)
    BY <1>8, <1>u, SyncShape DEF WriteProgress, RenderStates, RenderInv
  <2>4. ~behind' => users[u].clean /\ progress' = users[u].data
    BY <1>8 DEF WriteProgress, Written
  <2>5. ~behind' => progress' = statusFile' /\ Parses(statusFile')
    BY <1>8, <2>3, <2>4, StatusParses DEF WriteProgress
  <2>6. statusFile' = statusFile
    BY <1>8 DEF WriteProgress
  <2> QED
    BY <1>i, <1>u, <2>2, <2>5, <2>6, RenderAfter
<1>9. ASSUME NEW u \in Users, Stop(u) PROVE RenderInv'
  <2>1. users' = [users EXCEPT ![u] = Idle] \/ users' = [users EXCEPT ![u] = LoadState]
    BY <1>9 DEF Stop, LoadState
  <2>2. users' = After(u, Idle, {}) \/ users' = After(u, LoadState, {})
    BY <1>u, <2>1, QuietIs
  <2>3. /\ statusFile' = statusFile /\ progress' = progress /\ (behind => behind')
        /\ (~behind' => ~behind /\ ~WillRender(u))
    BY <1>9 DEF Stop, Rendering, WillRender
  <2> HIDE DEF big
  <2> QED
    BY <1>i, <1>u, <2>2, <2>3, RenderAfter DEF big
<1>10. ASSUME NEW u \in Users, SyncActs(u) PROVE RenderInv'
  <2>1. PICK y \in UserStates, p \in PlaceSets : SyncEffect(u, y, p)
    BY <1>10, SyncEffects
  <2>2. /\ y.pc \notin {"rendered", "blank"} /\ ~WillRender(u) /\ p # big
        /\ UNCHANGED <<statusFile, progress, behind>> /\ users' = After(u, y, p)
    BY <1>u, <2>1 DEF SyncEffect, Elsewhere, SyncPlaces, WillRender
  <2> QED
    BY <1>u, <2>2, RenderAfter
<1> QED
  BY <1>0, <1>1, <1>2, <1>3, <1>4, <1>5, <1>6, <1>7, <1>8, <1>9, <1>10, NextActs DEF PlainActs
-----------------------------------------------------------------------------
\* A set of positions has a least one, and that is what Min returns.
LEMMA LeastExists ==
  ASSUME NEW S, S \subseteq Nat, S # {}
  PROVE  \E m \in S : \A i \in S : m <= i
<1>1. PICK m \in S : \A k \in S : <<k, m>> \notin OpToRel(<, Nat)
  BY WFMin, NatLessThanWellFounded, Zenon
<1>2. \A k \in S : ~(k < m)
  BY <1>1, Zenon DEF OpToRel
<1> QED
  BY <1>2

LEMMA MinIs ==
  ASSUME NEW S \in SUBSET Nat, NEW m \in S, \A i \in S : m <= i
  PROVE  Min(S) = m
<1>1. \A k \in S : (\A i \in S : k <= i) => k = m
  OBVIOUS
<1> QED
  BY <1>1 DEF Min

LEMMA TitledIn ==
  ASSUME NEW list \in Seq(IssueRecords), NEW s
  PROVE  /\ Titled(list, s) \in SUBSET Nat
         /\ \A i : i \in Titled(list, s) <=> i \in 1..Len(list) /\ list[i].stage = s
BY DEF Titled

LEMMA MinTitled ==
  ASSUME NEW list \in Seq(IssueRecords), NEW s, Titled(list, s) # {}
  PROVE  /\ Min(Titled(list, s)) \in 1..Len(list)
         /\ list[Min(Titled(list, s))].stage = s
         /\ \A i \in 1..Len(list) : list[i].stage = s => Min(Titled(list, s)) <= i
<1> DEFINE S == Titled(list, s)
<1>1. S \in SUBSET Nat /\ \A i : i \in S <=> i \in 1..Len(list) /\ list[i].stage = s
  BY TitledIn
<1> HIDE DEF S
<1>2. PICK m \in S : \A i \in S : m <= i
  BY <1>1, LeastExists DEF S
<1>3. Min(S) = m
  BY <1>1, <1>2, MinIs
<1> QED
  BY <1>1, <1>2, <1>3 DEF S

\* Lists with the same titles agree on which issues are a stage's.
LEMMA TitledSame ==
  ASSUME NEW list \in Seq(IssueRecords), NEW new \in Seq(IssueRecords), SameTitles(list, new), NEW s
  PROVE  Titled(new, s) = Titled(list, s)
<1>1. \A i : i \in Titled(new, s) <=> i \in 1..Len(new) /\ new[i].stage = s
  BY TitledIn
<1>2. \A i : i \in Titled(list, s) <=> i \in 1..Len(list) /\ list[i].stage = s
  BY TitledIn
<1>3. \A i : i \in Titled(new, s) <=> i \in Titled(list, s)
  BY <1>1, <1>2 DEF SameTitles
<1> QED
  BY <1>3

\* What was a stage's oldest issue stays it while the list grows.
LEMMA TitledGrown ==
  ASSUME NEW old \in Seq(IssueRecords), NEW new \in Seq(IssueRecords), Grown(old, new),
         NEW s, Titled(old, s) # {}
  PROVE  Titled(new, s) # {} /\ Min(Titled(new, s)) = Min(Titled(old, s))
<1> DEFINE m == Min(Titled(old, s))
<1>1. m \in 1..Len(old) /\ old[m].stage = s /\ \A i \in 1..Len(old) : old[i].stage = s => m <= i
  BY MinTitled
<1> HIDE DEF m
<1>2. Len(old) \in Nat /\ Len(new) \in Nat /\ Len(old) <= Len(new)
  BY DEF Grown
<1>3. m \in Titled(new, s)
  BY <1>1, <1>2, TitledIn DEF Grown
<1>4. \A i \in 1..Len(new) : new[i].stage = s => m <= i
  BY <1>1, <1>2 DEF Grown
<1>5. \A i \in Titled(new, s) : m <= i
  BY <1>4, TitledIn
<1> QED
  BY <1>3, <1>5, TitledIn, MinIs DEF m

LEMMA GrownSame ==
  ASSUME NEW old \in Seq(IssueRecords), NEW list \in Seq(IssueRecords), NEW new \in Seq(IssueRecords),
         Grown(old, list), SameTitles(list, new)
  PROVE  Grown(old, new)
<1>1. Len(old) \in Nat /\ Len(list) \in Nat /\ Len(new) = Len(list) /\ Len(old) <= Len(list)
  BY DEF Grown, SameTitles
<1> QED
  BY <1>1 DEF Grown, SameTitles

LEMMA GrownAppend ==
  ASSUME NEW old \in Seq(IssueRecords), NEW list \in Seq(IssueRecords), NEW e \in IssueRecords,
         Grown(old, list)
  PROVE  Grown(old, Append(list, e))
<1>1. Len(old) \in Nat /\ Len(list) \in Nat /\ Len(old) <= Len(list)
  BY DEF Grown
<1>2. Len(Append(list, e)) = Len(list) + 1 /\ \A i \in 1..Len(list) : Append(list, e)[i] = list[i]
  OBVIOUS
<1> QED
  BY <1>1, <1>2 DEF Grown

LEMMA GrownSelf ==
  ASSUME NEW list \in Seq(IssueRecords)
  PROVE  Grown(list, list)
BY DEF Grown

\* What is shown stays shown when another stage's issue is touched or made.
LEMMA ShownSame ==
  ASSUME NEW list \in Seq(IssueRecords), NEW new \in Seq(IssueRecords), SameTitles(list, new),
         NEW s, NEW data, Shown(list, s, data),
         \A i \in 1..Len(list) : list[i].stage = s => new[i] = list[i]
  PROVE  Shown(new, s, data)
<1>1. Titled(new, s) = Titled(list, s) /\ Titled(list, s) # {}
  BY TitledSame DEF Shown
<1>2. new[Min(Titled(list, s))] = list[Min(Titled(list, s))]
  BY <1>1, MinTitled
<1> QED
  BY <1>1, <1>2 DEF Shown

LEMMA ShownAppend ==
  ASSUME NEW list \in Seq(IssueRecords), NEW e \in IssueRecords,
         NEW s, NEW data, Shown(list, s, data)
  PROVE  Shown(Append(list, e), s, data)
<1> DEFINE new == Append(list, e)
<1>1. new \in Seq(IssueRecords) /\ \A i \in 1..Len(list) : new[i] = list[i]
  OBVIOUS
<1>2. Titled(list, s) # {}
  BY DEF Shown
<1>3. Grown(list, new)
  BY GrownAppend, GrownSelf
<1> HIDE DEF new
<1>4. Titled(new, s) # {} /\ Min(Titled(new, s)) = Min(Titled(list, s))
  BY <1>1, <1>2, <1>3, TitledGrown
<1>5. new[Min(Titled(list, s))] = list[Min(Titled(list, s))]
  BY <1>1, <1>2, MinTitled
<1>6. Shown(new, s, data)
  BY <1>4, <1>5 DEF Shown
<1> QED
  BY <1>6 DEF new

-----------------------------------------------------------------------------
\* The steps of one synchronisation on the list of issues.

\* A synchronisation that others have disturbed is asked for little.
LEMMA DisturbedSync ==
  ASSUME NEW x \in SyncStates, x \in UserStates, NEW list \in Seq(IssueRecords),
         NEW new \in Seq(IssueRecords), Grown(list, new), NEW before, NEW after,
         SyncInv(x, list, before)
  PROVE  SyncInv(Blemished(x), new, after)
<1>1. x.pc \in SyncPlaces /\ x.listed \in Seq(IssueRecords)
  BY SyncShape
<1> DEFINE y == Blemished(x)
<1>2. y.pc = x.pc /\ y.at = x.at /\ ~y.clean /\ y.listed = x.listed
  BY DisturbedFields
<1> HIDE DEF y
<1>3. ASSUME x.pc # "list" PROVE Grown(x.listed, new)
  <2>1. Grown(x.listed, list)
    BY <1>1, <1>3 DEF SyncInv
  <2>2. Len(x.listed) \in Nat /\ Len(list) \in Nat /\ Len(new) \in Nat
    BY <1>1
  <2> QED
    BY <2>1, <2>2 DEF Grown
<1>4. SyncInv(y, new, after)
  BY <1>1, <1>2, <1>3 DEF SyncInv
<1> QED
  BY <1>4 DEF y

\* No issue of the stage that a synchronisation is about to create one for.
LEMMA NoneYet ==
  ASSUME NEW x \in SyncStates, x \in UserStates, NEW list \in Seq(IssueRecords), x.pc = "issue",
         Grown(x.listed, list), Made(x, list), Titled(x.listed, Stages[x.at]) = {}
  PROVE  \A i \in 1..Len(list) : list[i].stage # Stages[x.at]
<1>1. x.at \in 1..Len(Stages) /\ x.listed \in Seq(IssueRecords)
  BY SyncShape
<1>2. Len(x.listed) \in Nat /\ Len(list) \in Nat /\ Len(Stages) \in Nat
  BY <1>1, StagesAssumption
<1> SUFFICES ASSUME NEW i \in 1..Len(list), list[i].stage = Stages[x.at] PROVE FALSE
  OBVIOUS
<1>3. CASE i <= Len(x.listed)
  <2>1. i \in 1..Len(x.listed)
    BY <1>2, <1>3
  <2>2. x.listed[i].stage = Stages[x.at]
    BY <2>1 DEF Grown
  <2> QED
    BY <1>1, <2>1, <2>2, TitledIn
<1>4. CASE ~(i <= Len(x.listed))
  <2>1. i \in NewIssues(x, list)
    BY <1>2, <1>4 DEF NewIssues
  <2>2. PICK j \in 1..Len(Stages) : Reached(x, j) /\ list[i].stage = Stages[j]
    BY <2>1 DEF Made
  <2>3. j < x.at
    BY <2>2 DEF Reached
  <2>4. j = x.at
    BY <1>1, <2>2, StagesAssumption
  <2> QED
    BY <1>1, <1>2, <2>3, <2>4
<1> QED
  BY <1>3, <1>4

LEMMA CreateStep ==
  ASSUME NEW x \in SyncStates, x \in UserStates, NEW list \in Seq(IssueRecords), x.pc = "issue",
         NEW status, SyncInv(x, list, status),
         Titled(x.listed, Stages[x.at]) = {},
         NEW e \in IssueRecords, e.stage = Stages[x.at], e.body = x.data[Stages[x.at]], e.closed = FALSE,
         NEW y \in SyncStates, y.pc = "close", y.at = x.at, y.data = x.data, y.listed = x.listed,
         y.clean = x.clean, y.number = Len(list) + 1
  PROVE  SyncInv(y, Append(list, e), status)
<1> DEFINE new == Append(list, e)
           s == Stages[x.at]
<1>1. x.at \in 1..Len(Stages) /\ x.listed \in Seq(IssueRecords) /\ x.pc \in SyncPlaces
  BY SyncShape
<1>2. Len(x.listed) \in Nat /\ Len(list) \in Nat /\ Len(Stages) \in Nat
  BY <1>1, StagesAssumption
<1>3. /\ new \in Seq(IssueRecords) /\ Len(new) = Len(list) + 1
      /\ \A i \in 1..Len(list) : new[i] = list[i]
      /\ new[Len(list) + 1] = e
  OBVIOUS
<1>4. Grown(x.listed, list)
  BY <1>1 DEF SyncInv
<1>5. Grown(x.listed, new)
  BY <1>1, <1>4, GrownAppend
<1>6. ASSUME NEW j \in 1..Len(Stages), Reached(x, j) PROVE Reached(y, j)
  BY <1>6 DEF Reached
<1> HIDE DEF new
<1>7. ASSUME Made(x, list) PROVE Made(y, new)
  <2> SUFFICES ASSUME NEW i \in NewIssues(y, new)
               PROVE  \E j \in 1..Len(Stages) : Reached(y, j) /\ new[i].stage = Stages[j]
    BY DEF Made
  <2>1. i \in Len(x.listed) + 1 .. Len(list) + 1
    BY <1>3 DEF NewIssues
  <2>2. CASE i = Len(list) + 1
    <3>1. Reached(y, x.at)
      BY DEF Reached
    <3> QED
      BY <1>1, <1>3, <2>2, <3>1
  <2>3. CASE i # Len(list) + 1
    <3>1. i \in NewIssues(x, list) /\ i \in 1..Len(list)
      BY <1>2, <2>1, <2>3 DEF NewIssues
    <3>2. PICK j \in 1..Len(Stages) : Reached(x, j) /\ list[i].stage = Stages[j]
      BY <1>7, <3>1 DEF Made
    <3> QED
      BY <1>3, <1>6, <3>1, <3>2
  <2> QED
    BY <2>2, <2>3
<1>8. ASSUME Made(x, list) PROVE \A i \in 1..Len(list) : list[i].stage # s
  BY <1>4, <1>8, NoneYet
<1>10. ASSUME x.clean, Undisturbed(x, list) PROVE Undisturbed(y, new)
  <2>1. ASSUME NEW j \in 1..Len(Stages), j < y.at PROVE Shown(new, Stages[j], y.data)
    BY <1>10, <2>1, ShownAppend DEF Undisturbed, new
  <2>2. ASSUME NEW i \in 1..Len(y.listed), NEW j \in 1..Len(Stages), new[i].stage = Stages[j]
        PROVE  /\ ~Reached(y, j) => new[i] = y.listed[i]
               /\ j = y.at => new[i].closed = y.listed[i].closed
    <3>1. i \in 1..Len(list) /\ i \in 1..Len(x.listed)
      BY <1>2, <1>4 DEF Grown
    <3>2. new[i] = list[i]
      BY <1>3, <3>1
    <3> QED
      BY <1>6, <1>10, <2>2, <3>1, <3>2 DEF Undisturbed
  <2>3. Made(y, new)
    BY <1>7, <1>10 DEF Undisturbed
  <2>4. /\ y.number \in NewIssues(y, new) /\ y.number = Min(Titled(new, s))
        /\ new[y.number].stage = s
        /\ new[y.number].body = y.data[s] /\ ~new[y.number].closed
    <3>1. Len(list) + 1 \in Titled(new, s) /\ Titled(new, s) \subseteq Nat
      BY <1>2, <1>3, TitledIn
    <3>2. \A i \in Titled(new, s) : Len(list) + 1 <= i
      <4> SUFFICES ASSUME NEW i \in Titled(new, s) PROVE Len(list) + 1 <= i
        OBVIOUS
      <4>1. i \in 1..Len(list) + 1 /\ new[i].stage = s
        BY <1>3, TitledIn
      <4>2. i \notin 1..Len(list)
        BY <1>3, <1>8, <1>10, <4>1 DEF Undisturbed
      <4> QED
        BY <1>2, <4>1, <4>2
    <3>3. Min(Titled(new, s)) = Len(list) + 1
      BY <3>1, <3>2, MinIs
    <3>4. Len(list) + 1 \in NewIssues(y, new)
      BY <1>2, <1>3, <1>4 DEF NewIssues, Grown
    <3> QED
      BY <1>3, <3>3, <3>4
  <2> QED
    BY <2>1, <2>2, <2>3, <2>4 DEF Undisturbed
<1>11. SyncInv(y, new, status)
  BY <1>1, <1>5, <1>10 DEF SyncInv
<1> QED
  BY <1>11 DEF new

\* The oldest issue of the stage a synchronisation is at, once it has one to edit.
OldestFacts(x, list, s) ==
  /\ First(x, s) = Min(Titled(list, s)) /\ Titled(list, s) # {}
  /\ First(x, s) \in 1..Len(x.listed) /\ First(x, s) \in 1..Len(list)
  /\ list[First(x, s)].stage = s /\ x.listed[First(x, s)].stage = s

LEMMA FirstFacts ==
  \A x, list, s :
    /\ x \in SyncStates /\ x \in UserStates /\ list \in Seq(IssueRecords)
    /\ Grown(x.listed, list) /\ Titled(x.listed, s) # {}
    => OldestFacts(x, list, s)
<1> USE DEF OldestFacts
<1> SUFFICES ASSUME NEW x \in SyncStates, NEW list \in Seq(IssueRecords), NEW s,
                    x \in UserStates, Grown(x.listed, list), Titled(x.listed, s) # {}
             PROVE  /\ First(x, s) = Min(Titled(list, s)) /\ Titled(list, s) # {}
                    /\ First(x, s) \in 1..Len(x.listed) /\ First(x, s) \in 1..Len(list)
                    /\ list[First(x, s)].stage = s /\ x.listed[First(x, s)].stage = s
  OBVIOUS
<1>1. x.listed \in Seq(IssueRecords)
  BY SyncShape
<1>2. /\ First(x, s) \in 1..Len(x.listed) /\ x.listed[First(x, s)].stage = s
  BY <1>1, MinTitled DEF First
<1>3. First(x, s) = Min(Titled(list, s)) /\ Titled(list, s) # {}
  BY <1>1, TitledGrown DEF First
<1>4. First(x, s) \in 1..Len(list) /\ list[First(x, s)].stage = s
  BY <1>3, MinTitled
<1> QED
  BY <1>2, <1>3, <1>4

LEMMA GrownTitles ==
  ASSUME NEW list \in Seq(IssueRecords), NEW new \in Seq(IssueRecords), SameTitles(list, new)
  PROVE  Grown(list, new)
BY DEF Grown, SameTitles

\* Made looks at the titles and at how far the synchronisation has come.
LEMMA MadeSame ==
  ASSUME NEW x, NEW y, NEW list, NEW new, Made(x, list), SameTitles(list, new),
         y.listed = x.listed, x.listed \in Seq(IssueRecords), list \in Seq(IssueRecords),
         \A j \in 1..Len(Stages) : Reached(x, j) => Reached(y, j)
  PROVE  Made(y, new)
<1> SUFFICES ASSUME NEW i \in NewIssues(y, new)
             PROVE  \E j \in 1..Len(Stages) : Reached(y, j) /\ new[i].stage = Stages[j]
  BY DEF Made
<1>1. i \in NewIssues(x, list) /\ i \in 1..Len(list)
  BY DEF NewIssues, SameTitles
<1>2. PICK j \in 1..Len(Stages) : Reached(x, j) /\ list[i].stage = Stages[j]
  BY <1>1 DEF Made
<1> QED
  BY <1>1, <1>2 DEF SameTitles

LEMMA EditStep ==
  ASSUME NEW x \in SyncStates, x \in UserStates, NEW list \in Seq(IssueRecords), x.pc = "issue",
         NEW status, SyncInv(x, list, status),
         Titled(x.listed, Stages[x.at]) # {}, x.data[Stages[x.at]] \in Gates,
         NEW y \in SyncStates, y.pc = "close", y.at = x.at, y.data = x.data, y.listed = x.listed,
         y.clean = x.clean,
         NEW new \in Seq(IssueRecords),
         new = WithBody(list, First(x, Stages[x.at]), x.data[Stages[x.at]])
  PROVE  SyncInv(y, new, status) /\ SameTitles(list, new)
<1> DEFINE s == Stages[x.at]
           m == First(x, s)
<1>1. x.at \in 1..Len(Stages) /\ x.listed \in Seq(IssueRecords) /\ x.pc \in SyncPlaces
  BY SyncShape
<1>2. Len(x.listed) \in Nat /\ Len(list) \in Nat /\ Len(Stages) \in Nat
  BY <1>1, StagesAssumption
<1>3. SameTitles(list, new) /\ \A k \in 1..Len(list) : /\ new[k].closed = list[k].closed
                                                       /\ k # m => new[k] = list[k]
                                                       /\ k = m => new[k].body = x.data[s]
  BY BodyFacts
<1>4. Grown(x.listed, list)
  BY <1>1 DEF SyncInv
<1>5. Grown(x.listed, new)
  BY <1>1, <1>3, <1>4, GrownSame
<1>6. /\ Titled(list, s) # {} /\ m \in 1..Len(list) /\ m \in 1..Len(x.listed)
      /\ list[m].stage = s
  <2>1. Titled(x.listed, s) # {}
    OBVIOUS
  <2> HIDE DEF s
  <2>2. /\ Titled(list, s) # {} /\ list[First(x, s)].stage = s
        /\ First(x, s) \in 1..Len(x.listed) /\ First(x, s) \in 1..Len(list)
    <3>1. OldestFacts(x, list, s)
      BY ONLY x \in SyncStates, x \in UserStates, list \in Seq(IssueRecords),
              <1>4, <2>1, FirstFacts, Zenon
    <3> QED
      BY <3>1, Zenon DEF OldestFacts
  <2> QED
    BY <2>2, Zenon
<1> HIDE DEF m, s
<1>7. \A j \in 1..Len(Stages) : Reached(x, j) => Reached(y, j)
  BY DEF Reached
<1>8. Made(x, list) => Made(y, new)
  BY <1>1, <1>3, <1>7, MadeSame
<1>9. ASSUME x.clean, Undisturbed(x, list) PROVE Undisturbed(y, new)
  <2>1. ASSUME NEW j \in 1..Len(Stages), j < y.at PROVE Shown(new, Stages[j], y.data)
    <3>1. Shown(list, Stages[j], x.data)
      BY <1>9, <2>1 DEF Undisturbed
    <3>2. Stages[j] # s
      BY <1>1, <1>2, <2>1, StagesAssumption DEF s
    <3>3. \A i \in 1..Len(list) : list[i].stage = Stages[j] => new[i] = list[i]
      BY <1>3, <1>6, <3>2
    <3> QED
      BY <1>3, <3>1, <3>3, ShownSame
  <2>2. ASSUME NEW i \in 1..Len(y.listed), NEW j \in 1..Len(Stages), new[i].stage = Stages[j]
        PROVE  /\ ~Reached(y, j) => new[i] = y.listed[i]
               /\ j = y.at => new[i].closed = y.listed[i].closed
    <3>1. i \in 1..Len(list) /\ i \in 1..Len(x.listed)
      BY <1>2, <1>4 DEF Grown
    <3>2. list[i].stage = Stages[j]
      BY <1>3, <2>2, <3>1 DEF SameTitles
    <3>3. /\ ~Reached(x, j) => list[i] = x.listed[i]
          /\ j = x.at => list[i].closed = x.listed[i].closed
      BY <1>9, <3>1, <3>2 DEF Undisturbed
    <3>4. CASE i = m
      <4>1. j = x.at
        BY <1>1, <1>6, <3>2, <3>4, StagesAssumption DEF s
      <4>2. Reached(y, j)
        BY <4>1 DEF Reached
      <4> QED
        BY <1>3, <3>1, <3>3, <4>2
    <3>5. CASE i # m
      BY <1>3, <1>7, <3>1, <3>3, <3>5
    <3> QED
      BY <3>4, <3>5
  <2>3. Made(y, new)
    BY <1>8, <1>9 DEF Undisturbed
  <2>4. Titled(y.listed, s) # {} /\ new[First(y, s)].body = y.data[s]
    <3>1. First(y, s) = m
      BY DEF First, m
    <3> QED
      BY <1>3, <1>6, <3>1 DEF s
  <2>5. y.pc = "close" => LET t == Stages[y.at]
                          IN  Titled(y.listed, t) # {} /\ new[First(y, t)].body = y.data[t]
    BY <2>4 DEF s
  <2> QED
    BY <2>1, <2>2, <2>3, <2>5 DEF Undisturbed
<1>10. SyncInv(y, new, status)
  BY <1>1, <1>5, <1>9 DEF SyncInv
<1> QED
  BY <1>3, <1>10

Want(x) == x.data[Stages[x.at]].state = "done"
Was(x) == Titled(x.listed, Stages[x.at]) # {} /\ x.listed[First(x, Stages[x.at])].closed

\* The close or the reopening of issue n, or that it needs neither.
ClosedLike(x, q, list, new) ==
  /\ SameTitles(list, new)
  /\ \A k \in 1..Len(list) : new[k].body = list[k].body /\ (k # q => new[k] = list[k])
  /\ q \in 1..Len(list) /\ (list[q].closed <=> Was(x)) => (new[q].closed <=> Want(x))

\* Everything up to the stage of x is shown, the rest is as it was listed.
UpTo(x, list) ==
  /\ \A j \in 1..Len(Stages) : j <= x.at => Shown(list, Stages[j], x.data)
  /\ Made(x, list)
  /\ \A i \in 1..Len(x.listed), j \in 1..Len(Stages) :
       j > x.at /\ list[i].stage = Stages[j] => list[i] = x.listed[i]

\* Closing or reopening: the stage is shown, and the loop goes on with the next.
LEMMA CloseStep ==
  ASSUME NEW x \in SyncStates, x \in UserStates, NEW list \in Seq(IssueRecords), x.pc = "close",
         NEW status, SyncInv(x, list, status),
         NEW q, q = IF Titled(x.listed, Stages[x.at]) # {} THEN First(x, Stages[x.at]) ELSE x.number,
         NEW new \in Seq(IssueRecords), ClosedLike(x, q, list, new)
  PROVE  x.clean => UpTo(x, new)
<1> DEFINE s == Stages[x.at]
<1>3. SameTitles(list, new)
      /\ (\A k \in 1..Len(list) : new[k].body = list[k].body /\ (k # q => new[k] = list[k]))
      /\ (q \in 1..Len(list) /\ (list[q].closed <=> Was(x)) => (new[q].closed <=> Want(x)))
  BY DEF ClosedLike
<1>1. x.at \in 1..Len(Stages) /\ x.listed \in Seq(IssueRecords) /\ x.pc \in SyncPlaces
  BY SyncShape
<1>2. Len(x.listed) \in Nat /\ Len(list) \in Nat /\ Len(Stages) \in Nat
  BY <1>1, StagesAssumption
<1>4. Grown(x.listed, list)
  BY <1>1 DEF SyncInv
<1> SUFFICES ASSUME x.clean PROVE UpTo(x, new)
  OBVIOUS
<1>5. Undisturbed(x, list)
  BY <1>1 DEF SyncInv
<1>6. /\ q \in 1..Len(list) /\ q = Min(Titled(list, s)) /\ Titled(list, s) # {}
      /\ list[q].stage = s /\ list[q].body = x.data[s] /\ (list[q].closed <=> Was(x))
  <2>1. CASE Titled(x.listed, s) # {}
    <3>1. /\ q = Min(Titled(list, s)) /\ Titled(list, s) # {}
          /\ q \in 1..Len(list) /\ q \in 1..Len(x.listed) /\ list[q].stage = s
      <4>1. q = First(x, s)
        BY <2>1
      <4> HIDE DEF s
      <4>2. /\ First(x, s) = Min(Titled(list, s)) /\ Titled(list, s) # {}
            /\ First(x, s) \in 1..Len(x.listed) /\ First(x, s) \in 1..Len(list)
            /\ list[First(x, s)].stage = s
        <5>1. OldestFacts(x, list, s)
          BY ONLY x \in SyncStates, x \in UserStates, list \in Seq(IssueRecords),
                  <1>4, <2>1, FirstFacts, Zenon
        <5> QED
          BY <5>1, Zenon DEF OldestFacts
      <4> QED
        BY <4>1, <4>2
    <3>2. list[q].body = x.data[s]
      BY <1>5, <2>1 DEF Undisturbed
    <3>3. list[q].closed = x.listed[q].closed
      BY <1>1, <1>5, <3>1 DEF Undisturbed
    <3>4. list[q].closed \in BOOLEAN /\ x.listed[q].closed \in BOOLEAN
      <4>1. list[q] \in IssueRecords /\ x.listed[q] \in IssueRecords
        BY <1>1, <3>1
      <4> QED
        BY <4>1 DEF IssueRecords
    <3>5. (list[q].closed <=> Was(x))
      BY <2>1, <3>3, <3>4 DEF Was
    <3> QED
      BY <3>1, <3>2, <3>5
  <2>2. CASE Titled(x.listed, s) = {}
    <3>1. /\ q = x.number /\ q \in NewIssues(x, list) /\ q = Min(Titled(list, s))
          /\ list[q].stage = s /\ list[q].body = x.data[s] /\ ~list[q].closed
      BY <1>5, <2>2 DEF Undisturbed
    <3>2. q \in 1..Len(list)
      BY <1>2, <3>1 DEF NewIssues
    <3>3. Titled(list, s) # {}
      BY <3>1, <3>2, TitledIn
    <3> QED
      BY <2>2, <3>1, <3>2, <3>3 DEF Was
  <2> QED
    BY <2>1, <2>2
<1>7. new[q].body = x.data[s] /\ (new[q].closed <=> Want(x))
  BY <1>3, <1>6
<1>8. Titled(new, s) = Titled(list, s)
  BY <1>3, TitledSame
<1>9. Shown(new, s, x.data)
  <2>1. new[q].closed \in BOOLEAN
    <3>1. new[q] \in IssueRecords
      BY <1>3, <1>6 DEF SameTitles
    <3> QED
      BY <3>1 DEF IssueRecords
  <2>2. new[q].closed = (x.data[s].state = "done")
    BY <1>7, <2>1 DEF Want
  <2> HIDE DEF s
  <2> QED
    BY <1>6, <1>7, <1>8, <2>2 DEF Shown
<1> HIDE DEF s
<1>10. ASSUME NEW j \in 1..Len(Stages), j # x.at
       PROVE  \A i \in 1..Len(list) : list[i].stage = Stages[j] => new[i] = list[i]
  <2>1. Stages[j] # s
    BY <1>1, <1>10, StagesAssumption DEF s
  <2> QED
    BY <1>3, <1>6, <2>1
<1>11. ASSUME NEW j \in 1..Len(Stages), j <= x.at PROVE Shown(new, Stages[j], x.data)
  <2>1. CASE j = x.at
    BY <1>9, <2>1 DEF s
  <2>2. CASE j # x.at
    <3>1. j < x.at
      BY <1>1, <1>2, <1>11, <2>2
    <3>2. Shown(list, Stages[j], x.data)
      BY <1>5, <3>1 DEF Undisturbed
    <3> QED
      BY <1>3, <1>10, <2>2, <3>2, ShownSame
  <2> QED
    BY <2>1, <2>2
<1>12. Made(x, new)
  BY <1>1, <1>3, <1>5, MadeSame DEF Undisturbed
<1>13. ASSUME NEW i \in 1..Len(x.listed), NEW j \in 1..Len(Stages),
              j > x.at, new[i].stage = Stages[j]
       PROVE  new[i] = x.listed[i]
  <2>1. i \in 1..Len(list)
    BY <1>2, <1>4 DEF Grown
  <2>2. list[i].stage = Stages[j]
    BY <1>3, <1>13, <2>1 DEF SameTitles
  <2>3. ~Reached(x, j) /\ j # x.at
    BY <1>1, <1>2, <1>13 DEF Reached
  <2>4. list[i] = x.listed[i]
    BY <1>5, <2>2, <2>3 DEF Undisturbed
  <2> QED
    BY <1>10, <2>1, <2>2, <2>3, <2>4
<1> QED
  BY <1>11, <1>12, <1>13 DEF UpTo

\* The end of a step that a synchronisation takes through its loop.
LEMMA OnwardStep ==
  ASSUME NEW x \in SyncStates, x \in UserStates, NEW list \in Seq(IssueRecords), x.pc = "close",
         NEW status, SyncInv(x, list, status),
         NEW new \in Seq(IssueRecords), SameTitles(list, new), x.at < Len(Stages),
         NEW c \in BOOLEAN,
         c => x.clean /\ UpTo(x, new)
  PROVE  SyncInv(Moved(x, "issue", x.at + 1, c), new, status)
<1>1. x.at \in 1..Len(Stages) /\ x.listed \in Seq(IssueRecords) /\ x.pc \in SyncPlaces
  BY SyncShape
<1> DEFINE p == "issue"
           q == x.at + 1
           y == Moved(x, p, q, c)
<1>2. p \in SyncPlaces /\ q \in 1..Len(Stages)
  BY <1>1, StagesAssumption DEF SyncPlaces
<1>3. /\ y.pc = "issue" /\ y.at = x.at + 1 /\ (y.clean <=> c)
      /\ y.data = x.data /\ y.listed = x.listed
  <2> HIDE DEF p, q
  <2>1. y.pc = p /\ y.at = q /\ y.clean = c /\ y.data = x.data /\ y.listed = x.listed
    BY <1>2, SyncFields
  <2> QED
    BY <2>1 DEF p, q
<1> HIDE DEF y
<1>4. Grown(x.listed, new)
  <2>1. Grown(x.listed, list)
    BY <1>1 DEF SyncInv
  <2> QED
    BY <1>1, <2>1, GrownSame
<1>5. \A j \in 1..Len(Stages) : Reached(x, j) <=> Reached(y, j)
  BY <1>1, <1>3, StagesAssumption DEF Reached
<1>7. ASSUME c PROVE Undisturbed(y, new)
  <2>1. ASSUME NEW j \in 1..Len(Stages), j < y.at PROVE Shown(new, Stages[j], y.data)
    <3>1. j <= x.at
      BY <1>1, <1>3, <2>1, StagesAssumption
    <3> QED
      BY <1>3, <1>7, <3>1 DEF UpTo
  <2>2. ASSUME NEW i \in 1..Len(y.listed), NEW j \in 1..Len(Stages), new[i].stage = Stages[j],
               j = y.at \/ ~Reached(y, j)
        PROVE  new[i] = y.listed[i]
    <3>1. j > x.at
      BY <1>1, <1>3, <2>2, StagesAssumption DEF Reached
    <3> QED
      BY <1>3, <1>7, <2>2, <3>1 DEF UpTo
  <2>3. Made(y, new)
    <3>1. \A j \in 1..Len(Stages) : Reached(x, j) => Reached(y, j)
      BY <1>5
    <3>2. Made(x, new)
      BY <1>7 DEF UpTo
    <3>3. SameTitles(new, new)
      BY DEF SameTitles
    <3> QED
      BY <1>1, <1>3, <3>1, <3>2, <3>3, MadeSame
  <2> QED
    BY <1>3, <2>1, <2>2, <2>3 DEF Undisturbed
<1>8. SyncInv(y, new, status)
  BY <1>1, <1>3, <1>4, <1>7 DEF SyncInv
<1> QED
  BY <1>8 DEF y

\* A failed edit is passed over, with the issue as it was.
LEMMA SkippedEdit ==
  ASSUME NEW x \in SyncStates, x \in UserStates, NEW list \in Seq(IssueRecords), x.pc = "issue",
         NEW status, SyncInv(x, list, status),
         NEW c \in BOOLEAN, ~c
  PROVE  SyncInv(Moved(x, "close", x.at, c), list, status)
<1>1. x.at \in 1..Len(Stages) /\ x.listed \in Seq(IssueRecords) /\ x.pc \in SyncPlaces
  BY SyncShape
<1> DEFINE p == "close"
           q == x.at
           y == Moved(x, p, q, c)
<1>2. p \in SyncPlaces /\ q \in 1..Len(Stages)
  BY <1>1 DEF SyncPlaces
<1>3. y.pc = "close" /\ y.at = x.at /\ (y.clean <=> c) /\ y.listed = x.listed
  <2> HIDE DEF p, q
  <2>1. y.pc = p /\ y.at = q /\ y.clean = c /\ y.listed = x.listed
    BY <1>2, SyncFields
  <2> QED
    BY <2>1 DEF p, q
<1> HIDE DEF y
<1>4. Grown(x.listed, list)
  BY <1>1 DEF SyncInv
<1>6. SyncInv(y, list, status)
  BY <1>3, <1>4 DEF SyncInv
<1> QED
  BY <1>6 DEF y

-----------------------------------------------------------------------------
\* The synchronisations that a step of another disturbs are asked for little, the
\* others see the lists and the status they had.
LEMMA SyncsAfter ==
  ASSUME FlowTypes, SyncsInv, NEW u \in Users, NEW y \in UserStates, NEW p \in PlaceSets,
         users' = After(u, y, p), issues' \in Seq(IssueRecords), Grown(issues, issues'),
         p = {} => issues' = issues /\ statusFile' = statusFile,
         SyncInv(y, issues', statusFile'),
         settled' => \A s \in StageSet : Shown(issues', s, statusFile')
  PROVE  SyncsInv'
<1>1. users \in [Users -> UserStates] /\ issues \in Seq(IssueRecords)
  BY DEF FlowTypes
<1>2. users'[u] = y /\ \A v \in Users : v # u => Aged(users[v], users'[v], p)
  BY <1>1, DisturbFacts
<1>3. ASSUME NEW v \in Users PROVE SyncInv(users'[v], issues', statusFile')
  <2> DEFINE x == users[v]
             z == users'[v]
  <2>0. x \in UserStates /\ SyncInv(x, issues, statusFile)
    BY <1>1 DEF SyncsInv
  <2>1. CASE v = u
    BY <1>2, <2>1
  <2>2. CASE v # u /\ x.pc \notin SyncPlaces
    <3>1. Aged(x, z, p)
      BY <1>2, <2>2
    <3>2. z.pc \notin SyncPlaces
      BY <2>2, <3>1 DEF Aged
    <3> QED
      BY <3>2 DEF SyncInv
  <2>3. CASE v # u /\ x.pc \in SyncPlaces /\ p = {}
    <3>1. Aged(x, z, p)
      BY <1>2, <2>3
    <3>2. z = x
      BY <2>3, <3>1 DEF Aged
    <3> QED
      BY <2>0, <2>3, <3>2
  <2>4. CASE v # u /\ x.pc \in SyncPlaces /\ p # {}
    <3>1. Aged(x, z, p) /\ x.pc \in p
      BY <1>2, <2>4 DEF PlaceSets
    <3>2. z = Blemished(x) /\ x \in SyncStates
      BY <2>0, <2>4, <3>1, SyncShape DEF Aged
    <3> HIDE DEF x, z
    <3>3. SyncInv(z, issues', statusFile')
      BY <1>1, <2>0, <3>2, DisturbedSync
    <3> QED
      BY <3>3 DEF z
  <2> QED
    BY <2>1, <2>2, <2>3, <2>4
<1> QED
  BY <1>3 DEF SyncsInv

LEMMA SyncsStep == FlowTypes /\ SyncsInv /\ [FlowNext]_flowVars => SyncsInv'
<1> SUFFICES ASSUME FlowTypes, SyncsInv, [FlowNext]_flowVars PROVE SyncsInv'
  OBVIOUS
<1>0. CASE UNCHANGED flowVars
  BY <1>0 DEF flowVars, SyncsInv
<1> SUFFICES ASSUME FlowNext PROVE SyncsInv'
  BY <1>0
<1> PICK u \in Users : PlainActs(u) \/ SyncActs(u)
  BY NextActs
<1>u. /\ users \in [Users -> UserStates] /\ users[u] \in UserStates /\ issues \in Seq(IssueRecords)
      /\ Grown(issues, issues) /\ {} \in PlaceSets /\ SyncPlaces \in PlaceSets
      /\ (settled => \A s \in StageSet : Shown(issues, s, statusFile))
  BY GrownSelf DEF FlowTypes, SyncsInv, PlaceSets
<1>v. SyncInv(users[u], issues, statusFile)
  BY DEF SyncsInv
<1>w. users[u].pc \in SyncPlaces => users[u] \in SyncStates
  BY <1>u, SyncShape
<1>i. /\ Idle \in UserStates /\ Idle.pc \notin SyncPlaces
      /\ LoadState \in UserStates /\ LoadState.pc \notin SyncPlaces
  BY DEF UserStates, Idle, LoadState, SyncPlaces
<1>a. ASSUME NEW y \in UserStates, SyncInv(y, issues, statusFile), users' = [users EXCEPT ![u] = y],
             issues' = issues, statusFile' = statusFile, settled' = settled
      PROVE  SyncsInv'
  <2>1. users' = After(u, y, {})
    BY <1>a, <1>u, QuietIs
  <2> QED
    BY <1>a, <1>u, <2>1, SyncsAfter
<1>b. ASSUME NEW y \in UserStates, y.pc \notin SyncPlaces PROVE SyncInv(y, issues, statusFile)
  BY <1>b DEF SyncInv
<1>c. ASSUME NEW y \in UserStates, users' = After(u, y, SyncPlaces), issues' \in Seq(IssueRecords),
             Grown(issues, issues'), SyncInv(y, issues', statusFile), statusFile' = statusFile,
             settled' => \A s \in StageSet : Shown(issues', s, statusFile)
      PROVE  SyncsInv'
  <2>1. SyncPlaces # {}
    BY DEF SyncPlaces
  <2> QED
    BY <1>c, <1>u, <2>1, SyncsAfter
<1>1. CASE PlainActs(u)
  <2>1. PICK y \in UserStates, p \in PlaceSets : PlainEffect(u, y, p)
    BY <1>1, PlainEffects
  <2>2. SyncInv(y, issues', statusFile')
    BY <2>1 DEF PlainEffect, SyncInv
  <2> QED
    BY <1>u, <2>1, <2>2, SyncsAfter DEF PlainEffect
<1>6. CASE StartSync(u)
  BY <1>6, <1>a, <1>b, <1>i DEF StartSync, LoadState
<1>7. CASE LoadForSync(u)
  <2> DEFINE y == [pc |-> "list", data |-> statusFile, listed |-> <<>>, at |-> 1, clean |-> TRUE]
  <2>1. CASE ~Parses(statusFile)
    <3>1. users' = [users EXCEPT ![u] = Idle]
      BY <1>7, <2>1 DEF LoadForSync
    <3> QED
      BY <1>7, <1>a, <1>b, <1>i, <3>1 DEF LoadForSync
  <2>2. CASE Parses(statusFile)
    <3>1. users' = [users EXCEPT ![u] = y]
      BY <1>7, <2>2 DEF LoadForSync
    <3>2. statusFile \in Statuses /\ 1 \in 1..Len(Stages) /\ <<>> \in Seq(IssueRecords)
      BY <2>2, StagesAssumption DEF FlowTypes, Parses
    <3>3. y \in UserStates /\ SyncInv(y, issues, statusFile)
      BY <3>2 DEF FreshStates, SyncStates, UserStates, SyncPlaces, SyncInv
    <3> HIDE DEF y
    <3> QED
      BY <1>7, <1>a, <3>1, <3>3 DEF LoadForSync
  <2> QED
    BY <2>1, <2>2
<1>8. CASE ListIssues(u)
  <2> DEFINE y == [users[u] EXCEPT !.pc = "issue", !.listed = issues]
  <2>1. users[u] \in SyncStates /\ users[u].pc = "list" /\ users[u].pc \in SyncPlaces
    BY <1>8, <1>w DEF ListIssues, SyncPlaces
  <2>2. /\ y.pc = "issue" /\ y.listed = issues /\ y.at = users[u].at /\ y.data = users[u].data
        /\ y.clean = users[u].clean
    BY <2>1 DEF SyncStates, FreshStates, NumberedStates
  <2>a. y \in UserStates
    <3>1. CASE users[u] \in FreshStates
      BY <1>u, <3>1 DEF FreshStates, SyncStates, UserStates, SyncPlaces
    <3>2. CASE users[u] \in NumberedStates
      BY <1>u, <3>2 DEF NumberedStates, SyncStates, UserStates, SyncPlaces
    <3> QED
      BY <2>1, <3>1, <3>2 DEF SyncStates
  <2>3. users' = [users EXCEPT ![u] = y]
    BY <1>8 DEF ListIssues
  <2>4. y.at = 1 /\ (y.clean => y.data = statusFile)
    BY <1>v, <2>1, <2>2 DEF SyncInv
  <2> HIDE DEF y
  <2>5. NewIssues(y, issues) = {}
    BY <1>u, <2>2 DEF NewIssues
  <2>6. Made(y, issues)
    BY <2>5 DEF Made
  <2>7. Undisturbed(y, issues)
    BY <2>2, <2>4, <2>6 DEF Undisturbed
  <2>8. SyncInv(y, issues, statusFile)
    BY <1>u, <2>2, <2>4, <2>7 DEF SyncInv
  <2> QED
    BY <1>8, <1>a, <2>a, <2>3, <2>8 DEF ListIssues
<1>9. CASE CreateIssue(u)
  <2> DEFINE x == users[u]
             y == [pc |-> "close", data |-> users[u].data, listed |-> users[u].listed,
                   at |-> users[u].at, clean |-> users[u].clean, number |-> Len(issues) + 1]
             e == [stage |-> Stage(u), body |-> users[u].data[Stage(u)], closed |-> FALSE]
  <2>1. users[u] \in SyncStates /\ users[u].pc = "issue"
    BY <1>9, <1>w DEF CreateIssue, SyncPlaces
  <2>2. Len(issues) + 1 \in Nat
    BY <1>u
  <2>3. y \in NumberedStates
    BY <1>u, <2>1, <2>2, SyncShape DEF NumberedStates, SyncPlaces
  <2>4. y \in UserStates /\ y \in SyncStates
    BY <2>3 DEF UserStates, SyncStates
  <2>5. e \in IssueRecords
    BY <2>1, IssueTypes DEF IssueRecords
  <2>6. issues' = Append(issues, e) /\ users' = After(u, y, SyncPlaces) /\ statusFile' = statusFile
        /\ ~settled'
    BY <1>9 DEF CreateIssue, IssueTouched, After
  <2>7. Titled(x.listed, Stages[x.at]) = {}
    BY <1>9 DEF CreateIssue, Known, Stage
  <2>8. /\ y.pc = "close" /\ y.at = x.at /\ y.data = x.data /\ y.listed = x.listed
        /\ y.clean = x.clean /\ y.number = Len(issues) + 1
        /\ e.stage = Stages[x.at] /\ e.body = x.data[Stages[x.at]] /\ e.closed = FALSE
    BY DEF Stage
  <2>9. x \in SyncStates /\ x \in UserStates /\ x.pc = "issue"
        /\ SyncInv(x, issues, statusFile)
    BY <1>u, <1>v, <2>1
  <2> HIDE DEF x, y, e
  <2>10. SyncInv(y, Append(issues, e), statusFile)
    BY <1>u, <2>4, <2>5, <2>7, <2>8, <2>9, CreateStep
  <2>11. Append(issues, e) \in Seq(IssueRecords) /\ Grown(issues, Append(issues, e))
    BY <1>u, <2>5, GrownAppend
  <2> QED
    BY <1>c, <2>4, <2>6, <2>10, <2>11
<1>10. CASE EditIssue(u)
  <2> DEFINE x == users[u]
             c == x.clean
             q == x.at
             y == Moved(x, "close", q, c)
             new == issues'
  <2>1. users[u] \in SyncStates /\ users[u].pc = "issue"
    BY <1>10, <1>w DEF EditIssue, SyncPlaces
  <2>2. x.data[Stages[x.at]] \in Gates
    BY <2>1, IssueTypes DEF Stage
  <2>3. q \in 1..Len(Stages) /\ c \in BOOLEAN /\ "close" \in SyncPlaces
    BY <1>u, <2>1, SyncShape DEF SyncPlaces
  <2>4. new = WithBody(issues, First(x, Stages[x.at]), x.data[Stages[x.at]])
    BY <1>10 DEF EditIssue, WithBody, Issue, Stage, First
  <2>5. users' = After(u, y, SyncPlaces) /\ statusFile' = statusFile /\ ~settled'
    <3>1. y = [x EXCEPT !.pc = "close"]
      BY <1>u, <2>1, SyncMoves
    <3> QED
      BY <1>10, <1>u, <3>1 DEF EditIssue, IssueTouched, After
  <2>6. Titled(x.listed, Stages[x.at]) # {}
    BY <1>10 DEF EditIssue, Known, Stage
  <2>7. x \in SyncStates /\ x \in UserStates /\ x.pc = "issue"
        /\ SyncInv(x, issues, statusFile)
    BY <1>u, <1>v, <2>1
  <2>8. new \in Seq(IssueRecords)
    BY <1>u, <2>2, <2>4, BodyFacts
  <2>9. /\ y \in SyncStates /\ y \in UserStates /\ y.pc = "close" /\ y.at = x.at
        /\ y.data = x.data /\ y.listed = x.listed /\ y.clean = x.clean
    <3>1. q = x.at /\ c = x.clean
      OBVIOUS
    <3> HIDE DEF x, q, c
    <3> QED
      BY <2>3, <2>7, <3>1, SyncFields DEF UserStates
  <2> HIDE DEF x, y, new
  <2>10. SyncInv(y, new, statusFile) /\ SameTitles(issues, new)
    BY <1>u, <2>2, <2>4, <2>6, <2>7, <2>8, <2>9, EditStep
  <2>11. Grown(issues, new)
    BY <1>u, <2>8, <2>10, GrownTitles
  <2> QED
    BY <1>c, <2>5, <2>8, <2>9, <2>10, <2>11 DEF new
<1>11. CASE CloseOrReopen(u)
  <2> DEFINE x == users[u]
             s == Stages[x.at]
             want == WantClosed(u)
             was == WasClosed(u)
             q == Number(u)
             new == issues'
             y == Onward(u)
  <2>1. users[u] \in SyncStates /\ users[u].pc = "close"
    BY <1>11, <1>w DEF CloseOrReopen, SyncPlaces
  <2>2. want \in BOOLEAN /\ y \in UserStates
    BY <2>1, IssueTypes
  <2>3. x \in SyncStates /\ x \in UserStates /\ x.pc = "close"
        /\ SyncInv(x, issues, statusFile) /\ x.listed \in Seq(IssueRecords)
        /\ x.at \in 1..Len(Stages) /\ x.clean \in BOOLEAN
    BY <1>u, <1>v, <2>1, SyncShape
  <2>4. was \in BOOLEAN
    <3>1. CASE Titled(x.listed, s) = {}
      BY <3>1 DEF WasClosed, Known, Stage
    <3>2. CASE Titled(x.listed, s) # {}
      <4> HIDE DEF x, s
      <4>1. Min(Titled(x.listed, s)) \in 1..Len(x.listed)
        BY <2>3, <3>2, MinTitled
      <4>2. x.listed[Min(Titled(x.listed, s))] \in IssueRecords
        BY <2>3, <4>1
      <4>3. x.listed[Min(Titled(x.listed, s))].closed \in BOOLEAN
        BY <4>2 DEF IssueRecords
      <4> QED
        BY <4>3 DEF WasClosed, Known, Stage, Issue, x, s
    <3> QED
      BY <3>1, <3>2
  <2>5. /\ (want <=> Want(x)) /\ (was <=> Was(x))
        /\ q = IF Titled(x.listed, s) # {} THEN First(x, s) ELSE x.number
    BY DEF WantClosed, WasClosed, Known, Number, Issue, Stage, First, Want, Was
  <2>6. /\ (want <=> was) => new = issues
        /\ ~(want <=> was) => new = WithClosed(issues, q, want)
    BY <1>11, <2>2, <2>4 DEF CloseOrReopen, WithClosed
  <2>7. new \in Seq(IssueRecords)
    BY <1>u, <2>2, <2>6, ClosedFacts
  <2>8. users' = After(u, y, SyncPlaces) /\ statusFile' = statusFile
        /\ (settled' => x.at = Len(Stages) /\ x.clean)
    BY <1>11 DEF CloseOrReopen, IssueTouched, After, Ends
  <2>9. x.at < Len(Stages) => y = Moved(x, "issue", x.at + 1, x.clean)
    BY <2>3, SyncMoves DEF Onward
  <2>10. ~(x.at < Len(Stages)) => y = Idle
    BY DEF Onward
  <2> HIDE DEF x, y, s, want, was, q, new
  <2>a. ClosedLike(x, q, issues, new)
    <3>1. CASE want <=> was
      BY <2>5, <2>6, <3>1 DEF ClosedLike, SameTitles
    <3>2. CASE ~(want <=> was)
      <4>1. /\ new = WithClosed(issues, q, want) /\ SameTitles(issues, new)
            /\ \A k \in 1..Len(issues) : /\ new[k].body = issues[k].body
                                         /\ k # q => new[k] = issues[k]
                                         /\ k = q => new[k].closed = want
        BY <1>u, <2>2, <2>6, <3>2, ClosedFacts
      <4> QED
        BY <2>5, <4>1 DEF ClosedLike
    <3> QED
      BY <3>1, <3>2
  <2>b. SameTitles(issues, new)
    BY <2>a DEF ClosedLike
  <2>11. x.clean => UpTo(x, new)
    BY <1>u, <2>3, <2>5, <2>7, <2>a, CloseStep DEF s
  <2>12. Grown(issues, new)
    BY <1>u, <2>7, <2>b, GrownTitles
  <2>13. SyncInv(y, new, statusFile)
    <3>1. CASE x.at < Len(Stages)
      <4> DEFINE c == x.clean
      <4>1. c \in BOOLEAN /\ (c => x.clean) /\ y = Moved(x, "issue", x.at + 1, c)
        BY <2>3, <2>9, <3>1
      <4>2. c => x.clean /\ UpTo(x, new)
        BY <2>11
      <4> HIDE DEF c
      <4>3. SyncInv(Moved(x, "issue", x.at + 1, c), new, statusFile)
        BY <1>u, <2>3, <2>7, <2>b, <3>1, <4>1, <4>2, OnwardStep
      <4> QED
        BY <4>1, <4>3
    <3>2. CASE ~(x.at < Len(Stages))
      BY <2>10, <3>2 DEF SyncInv, Idle, SyncPlaces
    <3> QED
      BY <3>1, <3>2
  <2>14. ASSUME settled' PROVE \A t \in StageSet : Shown(new, t, statusFile)
    <3> SUFFICES ASSUME NEW t \in StageSet PROVE Shown(new, t, statusFile)
      OBVIOUS
    <3>1. PICK j \in 1..Len(Stages) : t = Stages[j]
      BY StagesAssumption DEF StageSet
    <3>2. x.at = Len(Stages) /\ x.clean /\ j <= x.at
      BY <2>8, <2>14, StagesAssumption
    <3>3. x.data = statusFile
      BY <2>3, <3>2 DEF SyncInv, SyncPlaces
    <3> QED
      BY <2>11, <3>1, <3>2, <3>3 DEF UpTo
  <2> QED
    BY <1>c, <2>2, <2>7, <2>8, <2>12, <2>13, <2>14 DEF new
<1>12. CASE IgnoreFailure(u)
  <2> DEFINE x == users[u]
             c == FALSE
  <2>1. users[u] \in SyncStates /\ users[u].pc \in {"issue", "close"} /\ users[u].pc \in SyncPlaces
    BY <1>12, <1>w DEF IgnoreFailure, SyncPlaces
  <2>2. x \in SyncStates /\ x \in UserStates
        /\ SyncInv(x, issues, statusFile) /\ x.at \in 1..Len(Stages)
        /\ c \in BOOLEAN /\ ~c
    BY <1>u, <1>v, <2>1, SyncShape
  <2>a. issues' = issues /\ statusFile' = statusFile /\ settled' = settled
    BY <1>12 DEF IgnoreFailure
  <2>b. /\ Moved(x, "close", x.at, c) \in UserStates
        /\ x.at < Len(Stages) => Moved(x, "issue", x.at + 1, c) \in UserStates
    <3>1. /\ "close" \in SyncPlaces /\ "issue" \in SyncPlaces
          /\ x.at < Len(Stages) => x.at + 1 \in 1..Len(Stages)
      BY <2>2, StagesAssumption DEF SyncPlaces
    <3> HIDE DEF x, c
    <3> QED
      BY <2>2, <3>1, SyncFields DEF UserStates
  <2>3. CASE users[u].pc = "issue" /\ users' = [users EXCEPT ![u].pc = "close", ![u].clean = FALSE]
    <3>1. users' = [users EXCEPT ![u] = [@ EXCEPT !.pc = "close", !.clean = FALSE]]
      BY <2>3, <1>u
    <3>2. [users[u] EXCEPT !.pc = "close", !.clean = FALSE] = Moved(x, "close", x.at, c)
      <4>1. CASE users[u] \in FreshStates
        BY <4>1 DEF FreshStates, Moved
      <4>2. CASE users[u] \in NumberedStates
        BY <4>2 DEF NumberedStates, Moved
      <4> QED
        BY <2>1, <4>1, <4>2 DEF SyncStates
    <3>3. users' = [users EXCEPT ![u] = Moved(x, "close", x.at, c)]
      BY <3>1, <3>2
    <3>4. x.pc = "issue"
      BY <2>3
    <3>5. SyncInv(Moved(x, "close", x.at, c), issues, statusFile)
      <4> HIDE DEF x, c
      <4> QED
        BY <1>u, <2>2, <3>4, SkippedEdit
    <3> QED
      BY <1>a, <2>a, <2>b, <3>3, <3>5
  <2>4. CASE /\ users[u].pc = "close"
             /\ users' = [users EXCEPT ![u] = IF Ends(u) THEN Idle ELSE [Onward(u) EXCEPT !.clean = FALSE]]
    <3>1. CASE Ends(u)
      <4>1. users' = [users EXCEPT ![u] = Idle]
        BY <2>4, <3>1
      <4> QED
        BY <1>a, <1>b, <1>i, <2>a, <4>1
    <3>2. CASE ~Ends(u)
      <4>1. x.at < Len(Stages)
        BY <2>2, <3>2, StagesAssumption DEF Ends
      <4>2. Onward(u) = [users[u] EXCEPT !.pc = "issue", !.at = @ + 1]
        BY <4>1 DEF Onward
      <4>3. [Onward(u) EXCEPT !.clean = FALSE] = Moved(x, "issue", x.at + 1, c)
        BY <1>u, <2>1, <4>2, SyncMoves
      <4>4. users' = [users EXCEPT ![u] = Moved(x, "issue", x.at + 1, c)]
        BY <2>4, <3>2, <4>3
      <4>5. SameTitles(issues, issues) /\ x.pc = "close"
        BY <2>4 DEF SameTitles
      <4>6. SyncInv(Moved(x, "issue", x.at + 1, c), issues, statusFile)
        <5> HIDE DEF x, c
        <5> QED
          BY <1>u, <2>2, <4>1, <4>5, OnwardStep
      <4> QED
        BY <1>a, <2>a, <2>b, <4>1, <4>4, <4>6
    <3> QED
      BY <3>1, <3>2
  <2> QED
    BY <1>12, <2>3, <2>4 DEF IgnoreFailure
<1> QED
  BY <1>1, <1>6, <1>7, <1>8, <1>9, <1>10, <1>11, <1>12 DEF SyncActs

-----------------------------------------------------------------------------
\* How many issues a stage has.

LEMMA IssueCounts ==
  ASSUME FlowTypes, NEW s
  PROVE  /\ IsFiniteSet(Titled(issues, s)) /\ Cardinality(Titled(issues, s)) \in Nat
         /\ IsFiniteSet(Blind(s)) /\ Cardinality(Blind(s)) \in Nat /\ Blind(s) \subseteq Syncing
<1>1. issues \in Seq(IssueRecords) /\ Len(issues) \in Nat
  BY DEF FlowTypes
<1>2. Titled(issues, s) \subseteq 1..Len(issues)
  BY <1>1, TitledIn
<1>a. 1 \in Int /\ Len(issues) \in Int
  BY <1>1
<1>b. IsFiniteSet(1..Len(issues))
  BY <1>a, FS_Interval
<1>3. IsFiniteSet(Titled(issues, s))
  BY <1>2, <1>b, FS_Subset
<1>4. Blind(s) \subseteq Users /\ Blind(s) \subseteq Syncing
  BY DEF Blind, IsBlind, Syncing, InSync, SyncPlaces
<1>5. IsFiniteSet(Blind(s))
  BY <1>4, UsersAssumption, FS_Subset
<1> QED
  BY <1>3, <1>4, <1>5, FS_CardinalityType

\* A smaller or equal set of processes has no more of them.
LEMMA FewerUsers ==
  ASSUME NEW S \in SUBSET Users, NEW T \in SUBSET S
  PROVE  Cardinality(T) \in Nat /\ Cardinality(S) \in Nat /\ Cardinality(T) <= Cardinality(S)
<1>1. IsFiniteSet(S)
  BY UsersAssumption, FS_Subset
<1>2. IsFiniteSet(T) /\ Cardinality(T) <= Cardinality(S)
  BY <1>1, FS_Subset
<1> QED
  BY <1>1, <1>2, FS_CardinalityType

\* A step of one process leaves where the others are and what they have listed.
LEMMA OthersStay ==
  ASSUME FlowTypes, NEW u \in Users, NEW y \in UserStates, NEW p \in PlaceSets, users' = After(u, y, p)
  PROVE  /\ users'[u] = y
         /\ \A v \in Users : v # u => /\ users'[v].pc = users[v].pc
                                      /\ \A s : IsBlind(users'[v], s) => IsBlind(users[v], s)
<1>1. users \in [Users -> UserStates]
  BY DEF FlowTypes
<1>2. users'[u] = y /\ \A v \in Users : v # u => Aged(users[v], users'[v], p)
  BY <1>1, DisturbFacts
<1>3. ASSUME NEW v \in Users, v # u
      PROVE  /\ users'[v].pc = users[v].pc
             /\ \A s : IsBlind(users'[v], s) => IsBlind(users[v], s)
  <2> DEFINE x == users[v]
             z == users'[v]
  <2>1. z.pc = x.pc /\ Aged(x, z, p) /\ x \in UserStates
    BY <1>1, <1>2, <1>3 DEF Aged
  <2>2. CASE x.pc \notin SyncPlaces
    BY <2>1, <2>2 DEF IsBlind, SyncPlaces
  <2>3. CASE x.pc \in SyncPlaces
    <3>1. x \in SyncStates /\ (z = x \/ z = Blemished(x))
      BY <2>1, <2>3, SyncShape DEF Aged
    <3> HIDE DEF x, z
    <3>2. z.at = x.at /\ z.listed = x.listed
      BY <2>1, <3>1, DisturbedFields
    <3>3. \A s : IsBlind(z, s) => IsBlind(x, s)
      BY <2>1, <3>2 DEF IsBlind, Reached
    <3> QED
      BY <2>1, <3>3 DEF x, z
  <2> QED
    BY <2>2, <2>3
<1> QED
  BY <1>2, <1>3

LEMMA NumbersAfter ==
  ASSUME FlowTypes, NumbersInv, NEW u \in Users, NEW y \in UserStates, NEW p \in PlaceSets,
         users' = After(u, y, p), issues' \in Seq(IssueRecords), SameTitles(issues, issues'),
         together' \in Nat, together <= together',
         y.pc \in SyncPlaces => InSync(u) \/ Cardinality(Syncing \cup {u}) <= together',
         \A s \in StageSet : Titled(issues, s) # {} /\ IsBlind(y, s) => IsBlind(users[u], s)
  PROVE  NumbersInv'
<1>1. issues \in Seq(IssueRecords) /\ together \in Nat
  BY DEF FlowTypes
<1>2. /\ users'[u] = y
      /\ \A v \in Users : v # u => /\ users'[v].pc = users[v].pc
                                   /\ \A s : IsBlind(users'[v], s) => IsBlind(users[v], s)
  BY OthersStay
<1>3. Cardinality(Syncing') <= together'
  <2>1. Syncing' \subseteq Syncing \cup {u} /\ Syncing' \subseteq Users /\ Syncing \cup {u} \subseteq Users
    BY <1>2 DEF Syncing, InSync
  <2>2. CASE y.pc \in SyncPlaces /\ ~InSync(u)
    <3>1. Cardinality(Syncing \cup {u}) <= together'
      BY <2>2
    <3> QED
      BY <2>1, <3>1, FewerUsers
  <2>3. CASE ~(y.pc \in SyncPlaces /\ ~InSync(u))
    <3>1. Syncing' \subseteq Syncing /\ Syncing \subseteq Users
      BY <1>2, <2>3 DEF Syncing, InSync
    <3>2. Cardinality(Syncing) <= together
      BY DEF NumbersInv
    <3> QED
      BY <1>1, <3>1, <3>2, FewerUsers
  <2> QED
    BY <2>2, <2>3
<1>4. ASSUME NEW s \in StageSet, Titled(issues', s) # {}
      PROVE  Cardinality(Titled(issues', s)) + Cardinality(Blind(s)') <= together'
  <2>1. Titled(issues', s) = Titled(issues, s)
    BY <1>1, TitledSame
  <2>2. Blind(s)' \subseteq Blind(s) /\ Blind(s) \subseteq Users
    BY <1>2, <1>4, <2>1 DEF Blind
  <2>3. Cardinality(Blind(s)') <= Cardinality(Blind(s)) /\ Cardinality(Blind(s)') \in Nat
        /\ Cardinality(Blind(s)) \in Nat
    BY <2>2, FewerUsers
  <2>4. Cardinality(Titled(issues, s)) + Cardinality(Blind(s)) <= together
    BY <1>4, <2>1 DEF NumbersInv
  <2>5. Cardinality(Titled(issues, s)) \in Nat
    BY IssueCounts
  <2> QED
    BY <1>1, <2>1, <2>3, <2>4, <2>5
<1> QED
  BY <1>3, <1>4 DEF NumbersInv

\* Whoever creates an issue no longer counts among those who will.
LEMMA CreateNumbers ==
  ASSUME FlowTypes, NumbersInv, NEW u \in Users, NEW y \in UserStates,
         users[u] \in SyncStates, users[u].pc = "issue",
         NEW e \in IssueRecords, e.stage = Stages[users[u].at],
         Titled(users[u].listed, Stages[users[u].at]) = {},
         y.pc = "close", y.at = users[u].at, y.listed = users[u].listed,
         users' = After(u, y, SyncPlaces), issues' = Append(issues, e), together' = together
  PROVE  NumbersInv'
<1> DEFINE x == users[u]
           new == Append(issues, e)
<1>1. /\ issues \in Seq(IssueRecords) /\ together \in Nat /\ x \in UserStates /\ x.at \in 1..Len(Stages)
      /\ SyncPlaces \in PlaceSets /\ issues' = new
  BY SyncShape DEF FlowTypes, PlaceSets
<1>s. PICK s \in StageSet : s = Stages[x.at]
  BY <1>1, StagesAssumption DEF StageSet
<1>2. /\ users'[u] = y
      /\ \A v \in Users : v # u => /\ users'[v].pc = users[v].pc
                                   /\ \A t : IsBlind(users'[v], t) => IsBlind(users[v], t)
  BY <1>1, OthersStay
<1>3. \A j \in 1..Len(Stages) : Stages[j] = s => j = x.at
  BY <1>1, <1>s, StagesAssumption
<1>4. IsBlind(x, s) /\ ~IsBlind(y, s) /\ \A t : IsBlind(y, t) => IsBlind(x, t)
  <2>1. IsBlind(x, s)
    BY <1>1, <1>s DEF IsBlind, Reached
  <2>2. ~IsBlind(y, s)
    BY <1>3 DEF IsBlind, Reached
  <2>3. \A t : IsBlind(y, t) => IsBlind(x, t)
    BY DEF IsBlind, Reached
  <2> QED
    BY <2>1, <2>2, <2>3
<1>5. Syncing' \subseteq Syncing /\ u \in Syncing /\ Syncing \subseteq Users
  BY <1>2 DEF Syncing, InSync, SyncPlaces
<1>6. Cardinality(Syncing) <= together /\ Cardinality(Syncing') <= together' /\ Cardinality(Syncing) \in Nat
  BY <1>1, <1>5, FewerUsers DEF NumbersInv
<1>7. Len(issues) \in Nat /\ new \in Seq(IssueRecords) /\ Len(new) = Len(issues) + 1
      /\ (\A i \in 1..Len(issues) : new[i] = issues[i]) /\ new[Len(issues) + 1] = e
  BY <1>1
<1> HIDE DEF x, new
<1>8. ASSUME NEW t \in StageSet, t # s PROVE Titled(new, t) = Titled(issues, t)
  <2>1. \A i : i \in Titled(new, t) <=> i \in 1..Len(new) /\ new[i].stage = t
    BY <1>7, TitledIn
  <2>2. \A i : i \in Titled(issues, t) <=> i \in 1..Len(issues) /\ issues[i].stage = t
    BY <1>1, TitledIn
  <2>3. \A i : i \in 1..Len(new) <=> i \in 1..Len(issues) \/ i = Len(issues) + 1
    BY <1>7
  <2>4. e.stage # t
    BY <1>8, <1>s DEF x
  <2>5. \A i : i \in Titled(new, t) <=> i \in Titled(issues, t)
    BY <1>7, <2>1, <2>2, <2>3, <2>4
  <2> QED
    BY <2>5
<1>9. Titled(new, s) = Titled(issues, s) \cup {Len(issues) + 1} /\ Len(issues) + 1 \notin Titled(issues, s)
  <2>1. \A i : i \in Titled(new, s) <=> i \in 1..Len(new) /\ new[i].stage = s
    BY <1>7, TitledIn
  <2>2. \A i : i \in Titled(issues, s) <=> i \in 1..Len(issues) /\ issues[i].stage = s
    BY <1>1, TitledIn
  <2>3. \A i : i \in 1..Len(new) <=> i \in 1..Len(issues) \/ i = Len(issues) + 1
    BY <1>7
  <2>4. e.stage = s
    BY <1>s DEF x
  <2>5. \A i : i \in Titled(new, s) <=> i \in Titled(issues, s) \/ i = Len(issues) + 1
    BY <1>7, <2>1, <2>2, <2>3, <2>4
  <2>6. Len(issues) + 1 \notin 1..Len(issues)
    BY <1>7
  <2> QED
    BY <2>2, <2>5, <2>6
<1>10. \A t : Blind(t)' \subseteq Blind(t)
  BY <1>2, <1>4 DEF Blind, x
<1>11. Blind(s)' \subseteq Blind(s) \ {u} /\ u \in Blind(s)
  BY <1>2, <1>4, <1>10 DEF Blind, x
<1>12. Cardinality(Titled(new, s)) = Cardinality(Titled(issues, s)) + 1
  BY <1>9, IssueCounts, FS_AddElement
<1>13. \A t : Cardinality(Titled(issues, t)) \in Nat /\ IsFiniteSet(Blind(t)) /\ Cardinality(Blind(t)) \in Nat
              /\ Blind(t) \subseteq Syncing
  BY IssueCounts
<1>14. ASSUME NEW t \in StageSet, Titled(new, t) # {}
       PROVE  Cardinality(Titled(new, t)) + Cardinality(Blind(t)') <= together'
  <2>1. CASE t # s
    <3>1. Titled(new, t) = Titled(issues, t) /\ Cardinality(Titled(issues, t)) \in Nat
      BY <1>8, <1>13, <2>1
    <3>2. Cardinality(Titled(issues, t)) + Cardinality(Blind(t)) <= together
      BY <1>14, <3>1 DEF NumbersInv
    <3>3. Blind(t)' \subseteq Blind(t) /\ Blind(t) \subseteq Users
      BY <1>10 DEF Blind
    <3>4. Cardinality(Blind(t)') <= Cardinality(Blind(t)) /\ Cardinality(Blind(t)') \in Nat
          /\ Cardinality(Blind(t)) \in Nat
      BY <3>3, FewerUsers
    <3> QED
      BY <1>1, <3>1, <3>2, <3>4
  <2>2. CASE t = s /\ Titled(issues, s) # {}
    <3>1. Cardinality(Titled(issues, s)) + Cardinality(Blind(s)) <= together
      BY <1>3, <2>2 DEF NumbersInv
    <3>2. Cardinality(Blind(s) \ {u}) = Cardinality(Blind(s)) - 1
      BY <1>11, <1>13, FS_RemoveElement
    <3>3. Blind(s) \ {u} \subseteq Users
      BY DEF Blind
    <3>4. Cardinality(Blind(s)') <= Cardinality(Blind(s) \ {u}) /\ Cardinality(Blind(s)') \in Nat
      BY <1>11, <3>3, FewerUsers
    <3> QED
      BY <1>1, <1>12, <1>13, <2>2, <3>1, <3>2, <3>4
  <2>3. CASE t = s /\ Titled(issues, s) = {}
    <3>1. Cardinality(Titled(issues, s)) = 0
      BY <2>3, FS_EmptySet
    <3>2. Cardinality(Syncing \ {u}) = Cardinality(Syncing) - 1
      BY <1>5, SyncingIs, FS_RemoveElement
    <3>3. Blind(s)' \subseteq Syncing \ {u} /\ Syncing \ {u} \subseteq Users
      BY <1>5, <1>11, <1>13
    <3>4. Cardinality(Blind(s)') <= Cardinality(Syncing \ {u}) /\ Cardinality(Blind(s)') \in Nat
      BY <3>3, FewerUsers
    <3> QED
      BY <1>1, <1>6, <1>12, <2>3, <3>1, <3>2, <3>4
  <2> QED
    BY <2>1, <2>2, <2>3
<1> QED
  BY <1>1, <1>6, <1>14 DEF NumbersInv

\* A synchronisation that moves on is blind to no more stages.
LEMMA MovedBlind ==
  ASSUME NEW x \in SyncStates, NEW q \in 1..Len(Stages), NEW c \in BOOLEAN, NEW s,
         NEW p \in {"issue", "close"}, x.pc \in {"issue", "close"},
         (p = "close" /\ q = x.at) \/ (p = "issue" /\ q = x.at + 1),
         IsBlind(Moved(x, p, q, c), s)
  PROVE  IsBlind(x, s)
<1> DEFINE y == Moved(x, p, q, c)
<1>1. p \in SyncPlaces
  BY DEF SyncPlaces
<1>2. y.pc = p /\ y.at = q /\ y.listed = x.listed
  BY <1>1, SyncFields
<1>3. x.at \in 1..Len(Stages) /\ Len(Stages) \in Nat
  BY SyncShape, StagesAssumption DEF UserStates
<1> HIDE DEF y
<1>4. \A j \in 1..Len(Stages) : Reached(x, j) => Reached(y, j)
  BY <1>2, <1>3 DEF Reached
<1>5. IsBlind(y, s)
  BY DEF y
<1> QED
  BY <1>2, <1>4, <1>5 DEF IsBlind

LEMMA NumbersStep == FlowTypes /\ NumbersInv /\ [FlowNext]_flowVars => NumbersInv'
<1> SUFFICES ASSUME FlowTypes, NumbersInv, [FlowNext]_flowVars PROVE NumbersInv'
  OBVIOUS
<1>0. CASE UNCHANGED flowVars
  BY <1>0 DEF flowVars, NumbersInv, Blind, Syncing, InSync
<1> SUFFICES ASSUME FlowNext PROVE NumbersInv'
  BY <1>0
<1> PICK u \in Users : PlainActs(u) \/ SyncActs(u)
  BY NextActs
<1>u. /\ users \in [Users -> UserStates] /\ users[u] \in UserStates /\ issues \in Seq(IssueRecords)
      /\ together \in Nat /\ together <= together /\ {} \in PlaceSets /\ SyncPlaces \in PlaceSets
      /\ SameTitles(issues, issues)
  BY DEF FlowTypes, PlaceSets, SameTitles
<1>w. users[u].pc \in SyncPlaces => users[u] \in SyncStates /\ InSync(u)
  BY <1>u, SyncShape DEF InSync
<1>i. /\ Idle \in UserStates /\ Idle.pc \notin SyncPlaces
      /\ LoadState \in UserStates /\ LoadState.pc \notin SyncPlaces
  BY DEF UserStates, Idle, LoadState, SyncPlaces
<1>n. ASSUME NEW y, y.pc \notin SyncPlaces, NEW s PROVE ~IsBlind(y, s)
  BY <1>n DEF IsBlind, SyncPlaces
<1>a. ASSUME NEW y \in UserStates, users' = [users EXCEPT ![u] = y], UNCHANGED <<issues, together>>,
             y.pc \in SyncPlaces => InSync(u),
             \A s \in StageSet : Titled(issues, s) # {} /\ IsBlind(y, s) => IsBlind(users[u], s)
      PROVE  NumbersInv'
  <2>1. users' = After(u, y, {})
    BY <1>a, <1>u, QuietIs
  <2> QED
    BY <1>a, <1>u, <2>1, NumbersAfter
<1>m. ASSUME users[u] \in SyncStates
      PROVE  /\ users[u].at \in 1..Len(Stages) /\ users[u].clean \in BOOLEAN
             /\ users[u].at < Len(Stages) => users[u].at + 1 \in 1..Len(Stages)
  BY <1>m, <1>u, SyncShape, StagesAssumption
<1>1. CASE PlainActs(u)
  <2>1. PICK y \in UserStates, p \in PlaceSets : PlainEffect(u, y, p)
    BY <1>1, PlainEffects
  <2> QED
    BY <1>n, <1>u, <2>1, NumbersAfter DEF PlainEffect
<1>2. CASE StartSync(u)
  BY <1>2, <1>a, <1>i, <1>n DEF StartSync, LoadState
<1>3. CASE LoadForSync(u)
  <2> DEFINE y == [pc |-> "list", data |-> statusFile, listed |-> <<>>, at |-> 1, clean |-> TRUE]
  <2>1. CASE ~Parses(statusFile)
    <3>1. users' = [users EXCEPT ![u] = Idle] /\ UNCHANGED <<issues, together>>
      BY <1>3, <2>1 DEF LoadForSync
    <3> QED
      BY <1>a, <1>i, <1>n, <3>1
  <2>2. CASE Parses(statusFile)
    <3>1. users' = [users EXCEPT ![u] = y]
      BY <1>3, <2>2 DEF LoadForSync
    <3>2. statusFile \in Statuses /\ 1 \in 1..Len(Stages) /\ <<>> \in Seq(IssueRecords)
      BY <2>2, StagesAssumption DEF FlowTypes, Parses
    <3>3. y \in UserStates /\ \A s : ~IsBlind(y, s)
      BY <3>2 DEF FreshStates, SyncStates, UserStates, SyncPlaces, IsBlind
    <3> HIDE DEF y
    <3>4. users' = After(u, y, {})
      BY <1>u, <3>1, QuietIs
    <3>5. together' = LargerOf(together, Cardinality(Syncing \cup {u})) /\ issues' = issues
      BY <1>3, <2>2 DEF LoadForSync
    <3> DEFINE size == Cardinality(Syncing \cup {u})
    <3>6. size \in Nat
      BY SyncingIs
    <3> HIDE DEF size
    <3>7. together' \in Nat /\ together <= together' /\ size <= together'
      BY <1>u, <3>5, <3>6 DEF LargerOf, size
    <3> USE DEF size
    <3> QED
      BY <1>u, <3>3, <3>4, <3>5, <3>7, NumbersAfter
  <2> QED
    BY <2>1, <2>2
<1>4. CASE ListIssues(u)
  <2> DEFINE y == [users[u] EXCEPT !.pc = "issue", !.listed = issues]
  <2>1. users[u] \in SyncStates /\ InSync(u)
    BY <1>4, <1>w DEF ListIssues, SyncPlaces
  <2>2. y \in UserStates /\ y.listed = issues
    <3>1. CASE users[u] \in FreshStates
      BY <1>u, <3>1 DEF FreshStates, SyncStates, UserStates, SyncPlaces
    <3>2. CASE users[u] \in NumberedStates
      BY <1>u, <3>2 DEF NumberedStates, SyncStates, UserStates, SyncPlaces
    <3> QED
      BY <2>1, <3>1, <3>2 DEF SyncStates
  <2>3. users' = [users EXCEPT ![u] = y] /\ UNCHANGED <<issues, together>>
    BY <1>4 DEF ListIssues
  <2> HIDE DEF y
  <2>4. \A s : Titled(issues, s) # {} => ~IsBlind(y, s)
    BY <2>2 DEF IsBlind
  <2> QED
    BY <1>a, <2>1, <2>2, <2>3, <2>4
<1>5. CASE CreateIssue(u)
  <2> DEFINE y == [pc |-> "close", data |-> users[u].data, listed |-> users[u].listed,
                   at |-> users[u].at, clean |-> users[u].clean, number |-> Len(issues) + 1]
             e == [stage |-> Stage(u), body |-> users[u].data[Stage(u)], closed |-> FALSE]
  <2>1. users[u] \in SyncStates /\ users[u].pc = "issue"
    BY <1>5, <1>w DEF CreateIssue, SyncPlaces
  <2>2. Len(issues) + 1 \in Nat
    BY <1>u
  <2>3. y \in NumberedStates
    BY <1>u, <2>1, <2>2, SyncShape DEF NumberedStates, SyncPlaces
  <2>4. y \in UserStates
    BY <2>3 DEF UserStates, SyncStates
  <2>5. e \in IssueRecords
    BY <2>1, IssueTypes DEF IssueRecords
  <2>6. issues' = Append(issues, e) /\ users' = After(u, y, SyncPlaces) /\ together' = together
    BY <1>5 DEF CreateIssue, IssueTouched, After
  <2>7. Titled(users[u].listed, Stages[users[u].at]) = {} /\ e.stage = Stages[users[u].at]
        /\ y.pc = "close" /\ y.at = users[u].at /\ y.listed = users[u].listed
    BY <1>5 DEF CreateIssue, Known, Stage
  <2> HIDE DEF y, e
  <2> QED
    BY <2>1, <2>4, <2>5, <2>6, <2>7, CreateNumbers
<1>6. CASE EditIssue(u)
  <2> DEFINE x == users[u]
             q == x.at
             c == x.clean
             y == Moved(x, "close", q, c)
  <2>1. x \in SyncStates /\ x.pc = "issue" /\ InSync(u)
    BY <1>6, <1>w DEF EditIssue, SyncPlaces
  <2>2. issues' = WithBody(issues, Issue(u), x.data[Stage(u)]) /\ together' = together
    BY <1>6 DEF EditIssue, WithBody
  <2>3. issues' \in Seq(IssueRecords) /\ SameTitles(issues, issues')
    BY <1>u, <2>1, <2>2, IssueTypes, BodyFacts
  <2>4. users' = After(u, y, SyncPlaces) /\ y \in UserStates
    <3>1. y = [x EXCEPT !.pc = "close"]
      BY <1>u, <2>1, SyncMoves
    <3>2. [x EXCEPT !.pc = "close"] \in UserStates
      BY <2>1, IssueTypes
    <3> QED
      BY <1>6, <1>u, <3>1, <3>2 DEF EditIssue, IssueTouched, After
  <2>5. q \in 1..Len(Stages) /\ c \in BOOLEAN /\ q = x.at
    BY <1>m, <2>1
  <2> HIDE DEF x, q, c
  <2>6. \A s : IsBlind(y, s) => IsBlind(x, s)
    BY <2>1, <2>5, MovedBlind
  <2> HIDE DEF y
  <2> QED
    BY <1>u, <2>1, <2>2, <2>3, <2>4, <2>6, NumbersAfter DEF x
<1>7. CASE CloseOrReopen(u)
  <2> DEFINE x == users[u]
             y == Onward(u)
  <2>1. x \in SyncStates /\ x.pc = "close" /\ InSync(u)
    BY <1>7, <1>w DEF CloseOrReopen, SyncPlaces
  <2>2. WantClosed(u) \in BOOLEAN /\ y \in UserStates
    BY <2>1, IssueTypes
  <2>3. (issues' = issues \/ issues' = WithClosed(issues, Number(u), WantClosed(u))) /\ together' = together
    BY <1>7 DEF CloseOrReopen, WithClosed
  <2>4. issues' \in Seq(IssueRecords) /\ SameTitles(issues, issues')
    BY <1>u, <2>2, <2>3, ClosedFacts
  <2>5. users' = After(u, y, SyncPlaces)
    BY <1>7 DEF CloseOrReopen, IssueTouched, After
  <2>6. \A s : IsBlind(y, s) => IsBlind(x, s)
    <3>1. CASE x.at < Len(Stages)
      <4>1. y = Moved(x, "issue", x.at + 1, x.clean)
        BY <1>u, <2>1, <3>1, SyncMoves DEF Onward
      <4>2. x.at + 1 \in 1..Len(Stages) /\ x.clean \in BOOLEAN
        BY <1>m, <2>1, <3>1
      <4> HIDE DEF x, y
      <4> QED
        BY <2>1, <4>1, <4>2, MovedBlind
    <3>2. CASE ~(x.at < Len(Stages))
      <4>1. y = Idle
        BY <3>2 DEF Onward
      <4> QED
        BY <1>i, <1>n, <4>1
    <3> QED
      BY <3>1, <3>2
  <2> HIDE DEF y
  <2> QED
    BY <1>u, <2>1, <2>2, <2>3, <2>4, <2>5, <2>6, NumbersAfter
<1>8. CASE IgnoreFailure(u)
  <2> DEFINE x == users[u]
             c == FALSE
  <2>1. x \in SyncStates /\ x.pc \in {"issue", "close"} /\ InSync(u) /\ c \in BOOLEAN
    BY <1>8, <1>w DEF IgnoreFailure, SyncPlaces
  <2>2. UNCHANGED <<issues, together>>
    BY <1>8 DEF IgnoreFailure
  <2>m. ASSUME NEW p \in {"issue", "close"}, NEW q \in 1..Len(Stages), users' = [users EXCEPT ![u] = Moved(x, p, q, c)],
               (p = "close" /\ q = x.at) \/ (p = "issue" /\ q = x.at + 1)
        PROVE  NumbersInv'
    <3> HIDE DEF c
    <3>1. p \in SyncPlaces
      BY DEF SyncPlaces
    <3>2. Moved(x, p, q, c) \in UserStates
      BY <2>1, <3>1, SyncFields DEF UserStates
    <3>3. \A s : IsBlind(Moved(x, p, q, c), s) => IsBlind(x, s)
      BY <2>1, <2>m, MovedBlind
    <3> QED
      BY <1>a, <2>1, <2>2, <2>m, <3>2, <3>3
  <2>3. CASE users[u].pc = "issue" /\ users' = [users EXCEPT ![u].pc = "close", ![u].clean = FALSE]
    <3>1. users' = [users EXCEPT ![u] = [@ EXCEPT !.pc = "close", !.clean = FALSE]]
      BY <2>3, <1>u
    <3>2. [users[u] EXCEPT !.pc = "close", !.clean = FALSE] = Moved(x, "close", x.at, c)
      <4>1. CASE users[u] \in FreshStates
        BY <4>1 DEF FreshStates, Moved
      <4>2. CASE users[u] \in NumberedStates
        BY <4>2 DEF NumberedStates, Moved
      <4> QED
        BY <2>1, <4>1, <4>2 DEF SyncStates
    <3>3. users' = [users EXCEPT ![u] = Moved(x, "close", x.at, c)] /\ x.at \in 1..Len(Stages)
      BY <1>m, <2>1, <3>1, <3>2
    <3> QED
      BY <2>m, <3>3
  <2>4. CASE /\ users[u].pc = "close"
             /\ users' = [users EXCEPT ![u] = IF Ends(u) THEN Idle ELSE [Onward(u) EXCEPT !.clean = FALSE]]
    <3>1. CASE Ends(u)
      <4>1. users' = [users EXCEPT ![u] = Idle]
        BY <2>4, <3>1
      <4> QED
        BY <1>a, <1>i, <1>n, <2>2, <4>1
    <3>2. CASE ~Ends(u)
      <4>1. x.at < Len(Stages) /\ x.at + 1 \in 1..Len(Stages)
        BY <1>m, <2>1, <3>2, StagesAssumption DEF Ends
      <4>2. Onward(u) = [users[u] EXCEPT !.pc = "issue", !.at = @ + 1]
        BY <4>1 DEF Onward
      <4>3. [Onward(u) EXCEPT !.clean = FALSE] = Moved(x, "issue", x.at + 1, c)
        BY <1>u, <2>1, <4>2, SyncMoves
      <4>4. users' = [users EXCEPT ![u] = Moved(x, "issue", x.at + 1, c)]
        BY <2>4, <3>2, <4>3
      <4> QED
        BY <2>m, <4>1, <4>4
    <3> QED
      BY <3>1, <3>2
  <2> QED
    BY <1>8, <2>3, <2>4 DEF IgnoreFailure
<1> QED
  BY <1>1, <1>2, <1>3, <1>4, <1>5, <1>6, <1>7, <1>8 DEF SyncActs

-----------------------------------------------------------------------------
LEMMA FlowInit_Inv == FlowInit => FlowInv
<1> SUFFICES ASSUME FlowInit PROVE FlowInv
  OBVIOUS
<1>1. users \in [Users -> UserStates] /\ \A u \in Users : users[u] = Idle
  BY FlowTypesInit DEF FlowInit, FlowTypes
<1>2. \A u \in Users : users[u].pc = "idle"
  BY <1>1 DEF Idle
<1>3. MayInv
  BY <1>2 DEF FlowInit, MayInv, InCommand
<1>4. RenderInv
  <2>1. Initial \in Statuses
    BY DEF Initial, Statuses, States, Results
  <2> QED
    BY <1>2, <2>1, StatusParses DEF FlowInit, RenderInv
<1>5. SyncsInv
  BY <1>2 DEF FlowInit, SyncsInv, SyncInv, SyncPlaces
<1>6. NumbersInv
  <2>1. Syncing = {}
    BY <1>2 DEF Syncing, InSync, SyncPlaces
  <2>2. Cardinality(Syncing) <= together
    BY <2>1, FS_EmptySet DEF FlowInit
  <2>3. \A s : Titled(issues, s) = {}
    BY DEF FlowInit, Titled
  <2> QED
    BY <2>2, <2>3 DEF NumbersInv
<1> QED
  BY <1>3, <1>4, <1>5, <1>6, FlowTypesInit DEF FlowInv

LEMMA FlowStep == FlowInv /\ [FlowNext]_flowVars => FlowInv'
BY FlowTypesStep, MayStep, RenderStep, SyncsStep, NumbersStep DEF FlowInv

LEMMA FlowInvHolds == FlowInv => MirrorsSettle
<1> SUFFICES ASSUME FlowInv PROVE MirrorsSettle
  OBVIOUS
<1>1. Parses(statusFile) => \A c \in Changes : Shows(statusFile, c) => c \in may
  BY DEF FlowInv, MayInv
<1>2. ASSUME NEW s \in StageSet PROVE Cardinality(Titled(issues, s)) <= together
  <2>1. together \in Nat /\ Cardinality(Titled(issues, s)) \in Nat /\ Cardinality(Blind(s)) \in Nat
    BY IssueCounts DEF FlowInv, FlowTypes
  <2>2. CASE Titled(issues, s) = {}
    BY <2>1, <2>2, FS_EmptySet
  <2>3. CASE Titled(issues, s) # {}
    <3>1. Cardinality(Titled(issues, s)) + Cardinality(Blind(s)) <= together
      BY <2>3 DEF FlowInv, NumbersInv
    <3> QED
      BY <2>1, <3>1
  <2> QED
    BY <2>2, <2>3
<1>3. ASSUME settled, NEW s \in StageSet
      PROVE  LET issue == issues[Min(Titled(issues, s))]
             IN  /\ Titled(issues, s) # {}
                 /\ issue.body = statusFile[s] /\ issue.closed = (statusFile[s].state = "done")
  BY <1>3 DEF FlowInv, SyncsInv, Shown
<1>4. (~behind /\ \A u \in Users : ~WillRender(u)) => progress = statusFile
  BY DEF FlowInv, RenderInv
<1> QED
  BY <1>1, <1>2, <1>3, <1>4 DEF MirrorsSettle

\* For any processes, any stages and any number of commands, edits, renderings,
\* synchronisations, failed calls and killed processes of tools/hw: a change of
\* STATUS.json is lost only to another command that was under way when it was saved,
\* a stage never has more issues than synchronisations have run at once, one that ran
\* to its end undisturbed leaves the issues showing the status, and PROGRESS.md shows
\* it unless status.py wrote it, or a rendering landed late, mixed with another or
\* not at all.
THEOREM MirrorsSettled == ToolsSpec => []MirrorsSettle
<1>1. ToolsInit => FlowInv
  BY FlowInit_Inv DEF ToolsInit
<1>2. FlowInv /\ [ToolsNext]_toolVars => FlowInv'
  <2> SUFFICES ASSUME FlowInv, [ToolsNext]_toolVars PROVE FlowInv'
    OBVIOUS
  <2>1. [FlowNext]_flowVars
    BY DEF ToolsNext, toolVars
  <2> QED
    BY <2>1, FlowStep
<1>3. FlowInv => MirrorsSettle
  BY FlowInvHolds
<1> QED
  BY <1>1, <1>2, <1>3, PTL DEF ToolsSpec
=============================================================================
