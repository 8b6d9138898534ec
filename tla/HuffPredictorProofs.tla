------------------------ MODULE HuffPredictorProofs ------------------------
(* The cycle model of huffman_engine's aligner, for every sequence of code   *)
(* lengths, rate of beats, back-pressure, build time and start bit: no bit   *)
(* is lost, every cycle is counted, and the refill is hidden.                *)
EXTENDS HuffPredictor, FiniteSetTheorems, SequenceTheorems, TLAPS

-----------------------------------------------------------------------------
(* Sums of code lengths.                                                     *)

AddOp(p, a, b) == a + b
Tally == INSTANCE FoldLaws WITH Op <- AddOp

LEMMA LeastOne ==
  \A S : S \subseteq Nat /\ S # {} => \E k \in S : \A m \in S : ~(m < k)
<1> SUFFICES ASSUME NEW S, S \subseteq Nat, S # {} PROVE \E k \in S : \A m \in S : ~(m < k)
  OBVIOUS
<1>1. PICK k \in S : \A m \in S : <<m, k>> \notin OpToRel(<, Nat)
  BY WFMin, NatLessThanWellFounded, Zenon
<1>2. \A m \in S : ~(m < k)
  BY <1>1, Zenon DEF OpToRel
<1> QED
  BY <1>2

CodeLengths == Seq(1..Window)

\* The bits of the first k symbols.
Sofar(lens, k) == SumOf(SubSeq(lens, 1, k))

LEMMA SumIsFold == \A s : SumOf(s) = Tally!Fold(0, 0, s)
  BY DEF SumOf, AddOp, Tally!Fold, FoldLeft, Tally!FoldLeft, MapThenFoldSet, Tally!MapThenFoldSet,
         Max, Tally!Max

LEMMA SumNone == SumOf(<<>>) = 0
  BY SumIsFold, Tally!FoldNothing

LEMMA SumAppend ==
  ASSUME NEW s \in CodeLengths, NEW l \in 1..Window
  PROVE  SumOf(Append(s, l)) = SumOf(s) + l
<1>1. Tally!Fold(0, 0, Append(s, l)) = AddOp(0, Tally!Fold(0, 0, s), l)
  BY Tally!FoldAppend DEF CodeLengths
<1> QED
  BY <1>1, SumIsFold DEF AddOp

LEMMA SofarNone == \A lens \in CodeLengths : Sofar(lens, 0) = 0
<1> SUFFICES ASSUME NEW lens \in CodeLengths PROVE SubSeq(lens, 1, 0) = <<>>
  BY SumNone DEF Sofar
<1> QED
  BY SubSeqEmpty

LEMMA SofarAll == \A lens \in CodeLengths : Sofar(lens, Len(lens)) = SumOf(lens)
<1> SUFFICES ASSUME NEW lens \in CodeLengths PROVE SubSeq(lens, 1, Len(lens)) = lens
  BY DEF Sofar
<1> QED
  BY SubSeqFull DEF CodeLengths

LEMMA SofarStep ==
  ASSUME NEW lens \in CodeLengths, NEW k \in 0..(Len(lens) - 1)
  PROVE  /\ lens[k + 1] \in 1..Window
         /\ Sofar(lens, k + 1) = Sofar(lens, k) + lens[k + 1]
<1>1. lens \in Seq(1..Window) /\ Len(lens) \in Nat /\ k \in Nat
  BY DEF CodeLengths
<1>2. k + 1 \in 1..Len(lens)
  BY <1>1
<1>3. lens[k + 1] \in 1..Window
  BY <1>1, <1>2, ElementOfSeq
<1>4. SubSeq(lens, 1, k) \in Seq(1..Window)
  <2>1. ASSUME NEW i \in 1..k PROVE lens[i] \in 1..Window
    <3>1. i \in 1..Len(lens)
      BY <1>1
    <3> QED
      BY <1>1, <3>1, ElementOfSeq
  <2> QED
    BY <1>1, <2>1, SubSeqProperties
<1>5. SubSeq(lens, 1, k + 1) = Append(SubSeq(lens, 1, k), lens[k + 1])
  BY <1>1, <1>2, <1>3
<1> QED
  BY <1>3, <1>4, <1>5, SumAppend DEF Sofar, CodeLengths

LEMMA SofarIsNat == \A lens \in CodeLengths : \A k \in 0..Len(lens) : Sofar(lens, k) \in Nat
<1> SUFFICES ASSUME NEW lens \in CodeLengths PROVE \A k \in 0..Len(lens) : Sofar(lens, k) \in Nat
  OBVIOUS
<1>. DEFINE Bad == {k \in 0..Len(lens) : Sofar(lens, k) \notin Nat}
<1> SUFFICES ASSUME Bad # {} PROVE FALSE
  OBVIOUS
<1>1. Len(lens) \in Nat
  BY DEF CodeLengths
<1>2. PICK k \in Bad : \A y \in Bad : ~(y < k)
  <2>1. Bad \subseteq Nat
    OBVIOUS
  <2> HIDE DEF Bad
  <2> QED
    BY <2>1, LeastOne
<1>3. k \in Nat /\ k # 0
  BY SofarNone
<1>4. k - 1 \in 0..(Len(lens) - 1) /\ k - 1 \in Nat /\ k - 1 < k /\ (k - 1) + 1 = k
  BY <1>1, <1>3
<1>5. k - 1 \notin Bad
  BY <1>2, <1>4
<1>6. Sofar(lens, k - 1) \in Nat
  BY <1>1, <1>4, <1>5
<1>7. lens[k] \in 1..Window /\ Sofar(lens, k) = Sofar(lens, k - 1) + lens[k]
  BY <1>4, SofarStep
<1>8. Sofar(lens, k) \in Nat
  <2> HIDE DEF Bad
  <2> QED
    BY <1>6, <1>7 DEF Window
<1> QED
  BY <1>8

\* The symbols still to come need no more bits than are left.
LEMMA SofarBelow == \A lens \in CodeLengths : \A k \in 0..Len(lens) : Sofar(lens, k) <= SumOf(lens)
<1> SUFFICES ASSUME NEW lens \in CodeLengths
             PROVE  \A k \in 0..Len(lens) : Sofar(lens, k) <= SumOf(lens)
  OBVIOUS
<1>. DEFINE n == Len(lens)
            Bad == {j \in 0..n : ~(Sofar(lens, n - j) <= SumOf(lens))}
<1>1. n \in Nat
  BY DEF CodeLengths
<1>2. Bad = {}
  <2> SUFFICES ASSUME Bad # {} PROVE FALSE
    OBVIOUS
  <2>1. PICK j \in Bad : \A y \in Bad : ~(y < j)
    <3>1. Bad \subseteq Nat
      BY <1>1
    <3> HIDE DEF Bad
    <3> QED
      BY <3>1, LeastOne
  <2>2. j \in 0..n /\ j \in Nat
    BY <1>1
  <2>3. j # 0
    <3>1. n - 0 = n /\ n \in 0..n
      BY <1>1
    <3>2. Sofar(lens, n - 0) = SumOf(lens) /\ SumOf(lens) \in Nat
      BY <3>1, SofarAll, SofarIsNat
    <3>3. Sofar(lens, n - 0) <= SumOf(lens)
      BY <3>2
    <3> HIDE DEF n
    <3> QED
      BY <3>3
  <2>4. j - 1 \in Nat /\ j - 1 \in 0..n /\ j - 1 < j
    BY <1>1, <2>2, <2>3
  <2>5. j - 1 \notin Bad
    BY <2>1, <2>4
  <2>6. n - j \in 0..(n - 1) /\ (n - j) + 1 = n - (j - 1)
    BY <1>1, <2>2, <2>3
  <2>7. Sofar(lens, n - (j - 1)) <= SumOf(lens)
    BY <2>4, <2>5
  <2>8. /\ lens[(n - j) + 1] \in 1..Window
        /\ Sofar(lens, n - (j - 1)) = Sofar(lens, n - j) + lens[(n - j) + 1]
    <3>1. Sofar(lens, (n - j) + 1) = Sofar(lens, n - j) + lens[(n - j) + 1]
      BY <2>6, SofarStep
    <3>2. lens[(n - j) + 1] \in 1..Window
      BY <2>6, SofarStep
    <3> HIDE DEF n
    <3> QED
      BY <2>6, <3>1, <3>2
  <2>9. Sofar(lens, n - j) \in Nat /\ SumOf(lens) \in Nat
    <3>1. n - j \in 0..n /\ n \in 0..n
      BY <1>1, <2>6
    <3> QED
      BY <3>1, SofarIsNat, SofarAll
  <2>10. Sofar(lens, n - j) <= SumOf(lens)
    <3> DEFINE l == lens[(n - j) + 1]
               a == Sofar(lens, n - j)
               b == Sofar(lens, n - (j - 1))
               c == SumOf(lens)
    <3> HIDE DEF n
    <3>1. l \in 1..20 /\ b = a + l /\ b <= c /\ a \in Nat /\ c \in Nat
      BY <2>7, <2>8, <2>9 DEF Window
    <3> HIDE DEF l, a, b, c
    <3>2. a <= c
      BY <3>1
    <3> QED
      BY <3>2 DEF a, c
  <2> QED
    BY <2>10
<1>3. ASSUME NEW k \in 0..n PROVE Sofar(lens, k) <= SumOf(lens)
  <2>1. n - k \in 0..n /\ n - (n - k) = k
    BY <1>1
  <2>2. n - k \notin Bad
    BY <1>2
  <2>3. Sofar(lens, n - (n - k)) <= SumOf(lens)
    BY <2>1, <2>2
  <2> HIDE DEF n
  <2> QED
    BY <2>1, <2>3
<1> QED
  BY <1>3
-----------------------------------------------------------------------------
(* The aligner between two cycles.                                           *)

Aligners ==
  [n : Nat, occ : 0..BufBits, fifo : 0..FifoBeats, next : Nat, begin : Nat, cycles : Nat,
   refill : Nat, out : Nat, consumed : Nat, arrived : Nat, stalled : BOOLEAN]

\* Every bit of a beat is in the buffer, in the FIFO or consumed; what is
\* consumed are the codes of the symbols decoded; every cycle has its name.
Accounted(a, lens) ==
  /\ a.n <= Len(lens) /\ a.consumed = Sofar(lens, a.n)
  /\ a.occ + Refill * a.fifo + a.consumed = Refill * a.arrived
  /\ a.cycles = a.begin + a.n + a.refill + a.out

\* With a beat in every cycle the next one is there in the next cycle, and
\* behind the first cycle the buffer always has a refill: more than a window.
Fed(a) ==
  /\ a.next <= a.cycles + 1
  /\ IF a.cycles = a.begin THEN a.refill = 0 ELSE a.occ >= Refill
  /\ a.refill <= 1

CycleInv ==
  stage = "cycles" =>
    /\ job \in Runs /\ aligner \in Aligners
    /\ Accounted(aligner, job.lens)
    /\ job.every = 1 => Fed(aligner)

LEMMA CycleInvImplies == CycleInv => RefillIsHidden
  BY DEF CycleInv, RefillIsHidden, Aligners, Accounted, Fed

\* A job of the cycle model.
LEMMA JobType ==
  ASSUME job \in Runs
  PROVE  /\ job.lens \in CodeLengths /\ job.every \in Nat \ {0} /\ job.stall \in Nat
         /\ job.start \in Nat /\ job.build \in Nat
  BY RunsAssumption DEF CodeLengths, Window

\* What a cycle adds: beats that have arrived go to the FIFO, one of them from
\* there to the buffer.
LEMMA TickKeeps ==
  ASSUME NEW a \in Aligners, NEW every \in Nat \ {0}
  PROVE  /\ Tick(a, every) \in Aligners
         /\ \E took \in 0..FifoBeats :
              /\ Tick(a, every) = [a EXCEPT !.fifo = @ + took, !.next = @ + took * every,
                                            !.arrived = @ + took]
              /\ every = 1 /\ a.next <= a.cycles =>
                   a.next + took <= a.cycles + 1 /\ a.fifo + took >= 1
<1>. DEFINE due == IF a.next > a.cycles THEN 0 ELSE ((a.cycles - a.next) \div every) + 1
            room == FifoBeats - a.fifo
            took == IF due < room THEN due ELSE room
<1>1. a.next \in Nat /\ a.cycles \in Nat /\ a.fifo \in 0..2 /\ a.arrived \in Nat
  BY DEF Aligners, FifoBeats
<1>2. due \in Nat
  BY <1>1
<1>3. room \in 0..2
  BY <1>1 DEF FifoBeats
<1>4. every = 1 /\ a.next <= a.cycles => due = a.cycles - a.next + 1
  BY <1>1
<1>5. Tick(a, every) = [a EXCEPT !.fifo = @ + took, !.next = @ + took * every, !.arrived = @ + took]
  BY DEF Tick
<1> HIDE DEF due
<1>6. took \in 0..2 /\ a.fifo + took \in 0..2
  BY <1>1, <1>2, <1>3 DEF FifoBeats
<1>7. every = 1 /\ a.next <= a.cycles => a.next + took <= a.cycles + 1 /\ a.fifo + took >= 1
  BY <1>1, <1>2, <1>3, <1>4 DEF FifoBeats
<1> HIDE DEF took
<1>8. a.next + took * every \in Nat /\ a.arrived + took \in Nat
  <2>1. took \in Nat /\ every \in Nat
    BY <1>6
  <2>2. took * every \in Nat
    BY <2>1
  <2> QED
    BY <1>1, <2>1, <2>2
<1> QED
  BY <1>5, <1>6, <1>7, <1>8 DEF Aligners, FifoBeats

LEMMA RefilledKeeps ==
  ASSUME NEW a \in Aligners
  PROVE  /\ Refilled(a) \in Aligners
         /\ \E got \in 0..1 :
              /\ Refilled(a) = [a EXCEPT !.occ = @ + Refill * got, !.fifo = @ - got]
              /\ a.fifo >= 1 /\ a.occ <= Refill => got = 1
<1>1. a.occ \in 0..64 /\ a.fifo \in 0..2
  BY DEF Aligners, BufBits, FifoBeats
<1>2. CASE a.fifo > 0 /\ a.occ <= BufBits - Refill
  <2>1. a.occ + Refill \in 0..64 /\ a.fifo - 1 \in 0..2 /\ ~(a.occ + Refill > BufBits)
    BY <1>1, <1>2 DEF BufBits, Refill
  <2>2. Refilled(a) = [a EXCEPT !.occ = a.occ + Refill, !.fifo = a.fifo - 1]
    BY <1>2, <2>1 DEF Refilled
  <2>3. a.occ + Refill * 1 = a.occ + Refill
    BY <1>1 DEF Refill
  <2>4. Refilled(a) = [a EXCEPT !.occ = @ + Refill * 1, !.fifo = @ - 1]
    BY <2>2, <2>3
  <2>5. Refilled(a) \in Aligners
    BY <2>1, <2>2 DEF Aligners, BufBits, FifoBeats
  <2>6. 1 \in 0..1
    OBVIOUS
  <2> QED
    BY <2>4, <2>5, <2>6
<1>3. CASE ~(a.fifo > 0 /\ a.occ <= BufBits - Refill)
  <2>1. Refilled(a) = a
    BY <1>3 DEF Refilled
  <2>2. a.occ + Refill * 0 = a.occ /\ a.fifo - 0 = a.fifo
    BY <1>1 DEF Refill
  <2>3. [a EXCEPT !.occ = a.occ + Refill * 0, !.fifo = a.fifo - 0] = a
    BY <2>2 DEF Aligners
  <2>4. ~(a.fifo >= 1 /\ a.occ <= Refill)
    BY <1>1, <1>3 DEF BufBits, Refill
  <2>5. 0 \in 0..1 /\ Refilled(a) = [a EXCEPT !.occ = @ + Refill * 0, !.fifo = @ - 0]
    BY <2>1, <2>3
  <2> QED
    BY <2>1, <2>4, <2>5
<1> QED
  BY <1>2, <1>3

\* A whole cycle of the job: the fields an action sets before it stay.
LEMMA CycleKeeps ==
  ASSUME job \in Runs, NEW a \in Aligners
  PROVE  LET b == Cycle(a) IN
         /\ b \in Aligners
         /\ b.n = a.n /\ b.begin = a.begin /\ b.cycles = a.cycles + 1 /\ b.refill = a.refill
         /\ b.out = a.out /\ b.consumed = a.consumed /\ b.stalled = a.stalled
         /\ b.occ + Refill * b.fifo - Refill * b.arrived
              = a.occ + Refill * a.fifo - Refill * a.arrived
         /\ b.occ >= a.occ
         /\ job.every = 1 /\ a.next <= a.cycles + 1 =>
              /\ b.next <= b.cycles + 1
              /\ b.occ >= Refill
<1>. DEFINE c == [a EXCEPT !.cycles = @ + 1]
            d == Tick(c, job.every)
            b == Cycle(a)
<1>1. a.occ \in 0..64 /\ a.fifo \in 0..2 /\ a.next \in Nat /\ a.cycles \in Nat /\ a.arrived \in Nat
  BY DEF Aligners, BufBits, FifoBeats
<1>2. /\ c \in Aligners /\ c.cycles = a.cycles + 1 /\ c.occ = a.occ /\ c.fifo = a.fifo /\ c.next = a.next
      /\ c.arrived = a.arrived /\ c.n = a.n /\ c.begin = a.begin /\ c.refill = a.refill /\ c.out = a.out
      /\ c.consumed = a.consumed /\ c.stalled = a.stalled
  BY <1>1 DEF Aligners
<1>3. job.every \in Nat \ {0}
  BY JobType
<1>4. d \in Aligners
  BY <1>2, <1>3, TickKeeps
<1>5. PICK took \in 0..FifoBeats :
        /\ d = [c EXCEPT !.fifo = @ + took, !.next = @ + took * job.every, !.arrived = @ + took]
        /\ job.every = 1 /\ c.next <= c.cycles => c.next + took <= c.cycles + 1 /\ c.fifo + took >= 1
  BY <1>2, <1>3, TickKeeps
<1>6. b = Refilled(d)
  BY DEF Cycle
<1> HIDE DEF c
<1>7. /\ d.fifo = a.fifo + took /\ d.next = a.next + took * job.every /\ d.arrived = a.arrived + took
      /\ d.cycles = a.cycles + 1 /\ d.occ = a.occ /\ d.n = a.n /\ d.begin = a.begin
      /\ d.refill = a.refill /\ d.out = a.out /\ d.consumed = a.consumed /\ d.stalled = a.stalled
  BY <1>2, <1>5 DEF Aligners
<1>8. job.every = 1 /\ a.next <= a.cycles + 1 =>
        d.next = a.next + took /\ a.next + took <= d.cycles + 1 /\ d.fifo >= 1
  <2>1. took \in Nat
    BY DEF FifoBeats
  <2> HAVE job.every = 1 /\ a.next <= a.cycles + 1
  <2>2. took * job.every = took
    BY <2>1
  <2>3. c.next + took <= c.cycles + 1 /\ c.fifo + took >= 1
    BY <1>2, <1>5
  <2> QED
    BY <1>2, <1>7, <2>2, <2>3
<1> HIDE DEF d
<1>9. b \in Aligners
  BY <1>4, <1>6, RefilledKeeps
<1>10. PICK got \in 0..1 :
         /\ b = [d EXCEPT !.occ = @ + Refill * got, !.fifo = @ - got]
         /\ d.fifo >= 1 /\ d.occ <= Refill => got = 1
  BY <1>4, <1>6, RefilledKeeps
<1> HIDE DEF b
<1>11. /\ b.occ = d.occ + Refill * got /\ b.fifo = d.fifo - got /\ b.next = d.next
       /\ b.arrived = d.arrived /\ b.cycles = d.cycles /\ b.n = d.n /\ b.begin = d.begin
       /\ b.refill = d.refill /\ b.out = d.out /\ b.consumed = d.consumed /\ b.stalled = d.stalled
  BY <1>4, <1>10 DEF Aligners
<1>12. /\ b.occ + Refill * b.fifo - Refill * b.arrived
            = a.occ + Refill * a.fifo - Refill * a.arrived
       /\ b.occ >= a.occ
  <2>1. took \in Nat /\ got \in 0..1
    BY DEF FifoBeats
  <2>2. b.occ = a.occ + 32 * got
    BY ONLY <1>7, <1>11 DEF Refill
  <2>3. b.fifo = a.fifo + took - got
    BY ONLY <1>1, <1>7, <1>11, <2>1
  <2>4. b.arrived = a.arrived + took
    BY ONLY <1>7, <1>11
  <2>5. b.occ >= a.occ
    BY ONLY <1>1, <2>1, <2>2
  <2>6. b.occ + 32 * b.fifo - 32 * b.arrived = a.occ + 32 * a.fifo - 32 * a.arrived
    BY ONLY <1>1, <2>1, <2>2, <2>3, <2>4
  <2> QED
    BY <2>5, <2>6 DEF Refill
<1>13. job.every = 1 /\ a.next <= a.cycles + 1 => b.next <= b.cycles + 1 /\ b.occ >= Refill
  <2> HAVE job.every = 1 /\ a.next <= a.cycles + 1
  <2>1. b.next <= b.cycles + 1 /\ d.fifo >= 1
    BY <1>8, <1>11
  <2>2. CASE a.occ <= Refill
    <3>1. got = 1
      BY <1>7, <1>10, <2>1, <2>2
    <3>2. b.occ = a.occ + 32
      BY ONLY <1>1, <1>7, <1>11, <3>1 DEF Refill
    <3>3. b.occ >= Refill
      BY ONLY <1>1, <3>2 DEF Refill
    <3> QED
      BY <2>1, <3>3
  <2>3. CASE ~(a.occ <= Refill)
    <3>1. b.occ >= Refill
      BY ONLY <1>1, <1>12, <2>3, <1>9 DEF Refill, Aligners, BufBits
    <3> QED
      BY <2>1, <3>1
  <2> QED
    BY <2>2, <2>3
<1> QED
  BY <1>7, <1>9, <1>11, <1>12, <1>13 DEF b

-----------------------------------------------------------------------------
(* The invariant, step by step.                                              *)

LEMMA CycleInvInit == PredictorInit => CycleInv
<1> SUFFICES ASSUME PredictorInit, stage = "cycles" PROVE CycleInv
  BY DEF CycleInv
<1>1. PICK r \in Runs : job = r /\ aligner = AlignerStart(r)
  BY DEF PredictorInit, Init
<1>. DEFINE skip == job.start \div Refill
            first == skip * job.every
            begin == IF job.build > first THEN job.build ELSE first
<1>2. job \in Runs
  BY <1>1
<1>3. skip \in Nat
  BY <1>2, JobType DEF Refill
<1>4. first \in Nat
  <2> HIDE DEF skip
  <2> QED
    BY <1>2, <1>3, JobType
<1>5. aligner = [n |-> 0, occ |-> 0, fifo |-> 0, next |-> first + 1, begin |-> begin, cycles |-> begin,
                 refill |-> 0, out |-> 0, consumed |-> 0, arrived |-> 0, stalled |-> FALSE]
  BY <1>1 DEF AlignerStart
<1> HIDE DEF first
<1>6. begin \in Nat /\ first <= begin
  BY <1>2, <1>4, JobType
<1> HIDE DEF begin
<1>7. aligner \in Aligners
  BY <1>4, <1>5, <1>6 DEF Aligners, BufBits, FifoBeats
<1>8. job.lens \in CodeLengths /\ Len(job.lens) \in Nat
  BY <1>2, JobType DEF CodeLengths
<1>9. Accounted(aligner, job.lens)
  BY <1>5, <1>6, <1>8, SofarNone DEF Accounted, Refill
<1>10. Fed(aligner)
  BY <1>4, <1>5, <1>6 DEF Fed
<1> QED
  BY <1>2, <1>7, <1>9, <1>10 DEF CycleInv

LEMMA Fields ==
  \A a \in Aligners :
    /\ a.n \in Nat /\ a.occ \in 0..64 /\ a.fifo \in 0..2 /\ a.next \in Nat /\ a.begin \in Nat
    /\ a.cycles \in Nat /\ a.refill \in Nat /\ a.out \in Nat /\ a.consumed \in Nat
    /\ a.arrived \in Nat /\ a.stalled \in BOOLEAN
  BY DEF Aligners, BufBits, FifoBeats

LEMMA Balance ==
  ASSUME NEW x \in Int, NEW y \in Int, NEW z \in Int, NEW u \in Int, NEW v \in Int, NEW w \in Int,
         NEW k \in Int,
         x + 32 * y - 32 * z = u + 32 * v - 32 * w, u + 32 * v + k = 32 * w
  PROVE  x + 32 * y + k = 32 * z
  OBVIOUS

\* What the three actions share: an aligner a set up before the cycle.
LEMMA CycleStep ==
  ASSUME job \in Runs, UNCHANGED <<stage, job>>, NEW a \in Aligners,
         aligner' \in Aligners,
         LET b == Cycle(a) IN
           /\ aligner'.n = b.n /\ aligner'.occ = b.occ /\ aligner'.fifo = b.fifo
           /\ aligner'.next = b.next /\ aligner'.begin = b.begin /\ aligner'.cycles = b.cycles
           /\ aligner'.refill = b.refill /\ aligner'.out = b.out /\ aligner'.consumed = b.consumed
           /\ aligner'.arrived = b.arrived,
         a.n <= Len(job.lens), a.consumed = Sofar(job.lens, a.n),
         a.occ + Refill * a.fifo + a.consumed = Refill * a.arrived,
         a.cycles + 1 = a.begin + a.n + a.refill + a.out,
         a.cycles >= a.begin, job.every = 1 => a.next <= a.cycles + 1 /\ a.refill <= 1
  PROVE  CycleInv'
<1>. DEFINE b == Cycle(a)
<1>1. /\ b \in Aligners
      /\ b.n = a.n /\ b.begin = a.begin /\ b.cycles = a.cycles + 1 /\ b.refill = a.refill
      /\ b.out = a.out /\ b.consumed = a.consumed
      /\ b.occ + Refill * b.fifo - Refill * b.arrived
           = a.occ + Refill * a.fifo - Refill * a.arrived
      /\ job.every = 1 /\ a.next <= a.cycles + 1 => b.next <= b.cycles + 1 /\ b.occ >= Refill
  BY CycleKeeps
<1> HIDE DEF b
<1>2. a.occ \in Nat /\ a.fifo \in Nat /\ a.consumed \in Nat /\ a.arrived \in Nat /\ a.begin \in Nat
      /\ a.cycles \in Nat
  <2>1. a.occ \in 0..64 /\ a.fifo \in 0..2 /\ a.consumed \in Nat /\ a.arrived \in Nat
        /\ a.begin \in Nat /\ a.cycles \in Nat
    BY Fields
  <2> QED
    BY ONLY <2>1
<1>3. b.occ \in 0..64 /\ b.fifo \in 0..2 /\ b.arrived \in Nat
  BY ONLY <1>1, Fields
<1>4. b.occ + Refill * b.fifo + b.consumed = Refill * b.arrived
  <2>1. b.occ + 32 * b.fifo - 32 * b.arrived = a.occ + 32 * a.fifo - 32 * a.arrived
        /\ b.consumed = a.consumed
    BY <1>1 DEF Refill
  <2>2. a.occ + 32 * a.fifo + a.consumed = 32 * a.arrived
    BY DEF Refill
  <2>3. b.occ \in Nat /\ b.fifo \in Nat
    BY ONLY <1>3
  <2>4. b.occ + 32 * b.fifo + a.consumed = 32 * b.arrived
    <3> DEFINE x == b.occ
               y == b.fifo
               z == b.arrived
               u == a.occ
               v == a.fifo
               w == a.arrived
               k == a.consumed
    <3>1. x \in Int /\ y \in Int /\ z \in Int /\ u \in Int /\ v \in Int /\ w \in Int /\ k \in Int
      BY ONLY <1>2, <1>3, <2>3
    <3>2. x + 32 * y - 32 * z = u + 32 * v - 32 * w /\ u + 32 * v + k = 32 * w
      BY ONLY <2>1, <2>2
    <3> HIDE DEF x, y, z, u, v, w, k
    <3>3. x + 32 * y + k = 32 * z
      BY ONLY <3>1, <3>2, Balance
    <3> QED
      BY ONLY <3>3 DEF x, y, z, k
  <2> QED
    BY <2>1, <2>4 DEF Refill
<1>5. aligner'.n = a.n /\ aligner'.consumed = a.consumed /\ aligner'.begin = a.begin
      /\ aligner'.cycles = a.cycles + 1 /\ aligner'.refill = a.refill /\ aligner'.out = a.out
      /\ aligner'.occ = b.occ /\ aligner'.fifo = b.fifo /\ aligner'.arrived = b.arrived
      /\ aligner'.next = b.next
  BY <1>1 DEF b
<1>6. Accounted(aligner', job.lens)
  BY <1>1, <1>4, <1>5 DEF Accounted
<1>7. job.every = 1 => Fed(aligner')
  BY <1>1, <1>2, <1>5 DEF Fed
<1> QED
  BY <1>6, <1>7 DEF CycleInv

LEMMA KeepsOutStall == ASSUME CycleInv, OutStall PROVE CycleInv'
<1>. DEFINE a == [aligner EXCEPT !.out = @ + 1]
<1>1. stage = "cycles" /\ job \in Runs /\ aligner \in Aligners /\ Accounted(aligner, job.lens)
      /\ (job.every = 1 => Fed(aligner)) /\ UNCHANGED <<stage, job>>
  BY DEF OutStall, Simulating, CycleInv, vars
<1>2. /\ a \in Aligners /\ a.n = aligner.n /\ a.occ = aligner.occ /\ a.fifo = aligner.fifo
      /\ a.next = aligner.next /\ a.begin = aligner.begin /\ a.cycles = aligner.cycles
      /\ a.refill = aligner.refill /\ a.out = aligner.out + 1 /\ a.consumed = aligner.consumed
      /\ a.arrived = aligner.arrived
  BY <1>1 DEF Aligners
<1>3. aligner' = [Cycle(a) EXCEPT !.stalled = TRUE]
  BY DEF OutStall
<1> HIDE DEF a
<1>4. Cycle(a) \in Aligners
  BY <1>1, <1>2, CycleKeeps
<1>5. aligner' \in Aligners
  BY <1>3, <1>4 DEF Aligners
<1>6. LET b == Cycle(a) IN
        /\ aligner'.n = b.n /\ aligner'.occ = b.occ /\ aligner'.fifo = b.fifo
        /\ aligner'.next = b.next /\ aligner'.begin = b.begin /\ aligner'.cycles = b.cycles
        /\ aligner'.refill = b.refill /\ aligner'.out = b.out /\ aligner'.consumed = b.consumed
        /\ aligner'.arrived = b.arrived
  BY <1>3, <1>4 DEF Aligners
<1>7. a.cycles + 1 = a.begin + a.n + a.refill + a.out /\ a.cycles >= a.begin
  <2>1. /\ aligner.n \in Nat /\ aligner.begin \in Nat /\ aligner.refill \in Nat
        /\ aligner.out \in Nat /\ aligner.cycles \in Nat
    BY ONLY <1>1, Fields
  <2>2. aligner.cycles = aligner.begin + aligner.n + aligner.refill + aligner.out
    BY ONLY <1>1 DEF Accounted
  <2> QED
    BY ONLY <1>2, <2>1, <2>2
<1>8. job.every = 1 => a.next <= a.cycles + 1 /\ a.refill <= 1
  BY <1>1, <1>2 DEF Fed
<1> QED
  BY <1>1, <1>2, <1>5, <1>6, <1>7, <1>8, CycleStep DEF Accounted

\* Without a whole window the first beat is still on its way.
LEMMA KeepsRefillStall == ASSUME CycleInv, RefillStall PROVE CycleInv'
<1>. DEFINE a == [aligner EXCEPT !.refill = @ + 1]
<1>1. stage = "cycles" /\ job \in Runs /\ aligner \in Aligners /\ Accounted(aligner, job.lens)
      /\ (job.every = 1 => Fed(aligner)) /\ UNCHANGED <<stage, job>> /\ aligner.occ < Window
  BY DEF RefillStall, Simulating, CycleInv, vars
<1>2. /\ a \in Aligners /\ a.n = aligner.n /\ a.occ = aligner.occ /\ a.fifo = aligner.fifo
      /\ a.next = aligner.next /\ a.begin = aligner.begin /\ a.cycles = aligner.cycles
      /\ a.refill = aligner.refill + 1 /\ a.out = aligner.out /\ a.consumed = aligner.consumed
      /\ a.arrived = aligner.arrived
  BY <1>1 DEF Aligners
<1>3. aligner' = Cycle(a)
  BY DEF RefillStall
<1> HIDE DEF a
<1>4. aligner' \in Aligners
  BY <1>1, <1>2, <1>3, CycleKeeps
<1>5. a.cycles + 1 = a.begin + a.n + a.refill + a.out /\ a.cycles >= a.begin
  <2>1. /\ aligner.n \in Nat /\ aligner.begin \in Nat /\ aligner.refill \in Nat
        /\ aligner.out \in Nat /\ aligner.cycles \in Nat
    BY ONLY <1>1, Fields
  <2>2. aligner.cycles = aligner.begin + aligner.n + aligner.refill + aligner.out
    BY ONLY <1>1 DEF Accounted
  <2> QED
    BY ONLY <1>2, <2>1, <2>2
<1>6. job.every = 1 => a.next <= a.cycles + 1 /\ a.refill <= 1
  <2> HAVE job.every = 1
  <2>1. ~(aligner.occ >= Refill)
    BY <1>1 DEF Aligners, Window, Refill, BufBits
  <2>2. aligner.refill = 0
    BY <1>1, <2>1 DEF Fed
  <2> QED
    BY <1>1, <1>2, <2>2 DEF Fed
<1> QED
  BY <1>1, <1>2, <1>3, <1>4, <1>5, <1>6, CycleStep DEF Accounted

\* A symbol is in the buffer: with a whole window any code is, and in the tail
\* the codes to come need no more than what is left.
LEMMA KeepsConsume == ASSUME CycleInv, Consume PROVE CycleInv'
<1>. DEFINE l == job.lens[aligner.n + 1]
            a == [aligner EXCEPT !.occ = @ - l, !.consumed = @ + l, !.n = @ + 1, !.stalled = FALSE]
            n == aligner.n
            c == aligner.consumed
            total == SumOf(job.lens)
<1>1. stage = "cycles" /\ job \in Runs /\ aligner \in Aligners /\ Accounted(aligner, job.lens)
      /\ (job.every = 1 => Fed(aligner)) /\ UNCHANGED <<stage, job>> /\ n < Len(job.lens)
  BY DEF Consume, Simulating, CycleInv, vars
<1>2. job.lens \in CodeLengths /\ Len(job.lens) \in Nat /\ n \in Nat
  BY <1>1, JobType DEF Aligners, CodeLengths
<1>3. n \in 0..(Len(job.lens) - 1) /\ n + 1 \in 0..Len(job.lens)
  BY <1>1, <1>2
<1>4. l \in 1..Window /\ Sofar(job.lens, n + 1) = c + l
  BY <1>1, <1>2, <1>3, SofarStep DEF Accounted
<1>5. c + l <= total
  BY <1>2, <1>3, <1>4, SofarBelow
<1>6. c \in Nat /\ aligner.occ \in 0..64 /\ l \in 1..20
  BY <1>1, <1>4 DEF Aligners, Window, BufBits
<1>7. total \in Nat
  BY <1>2, SofarIsNat, SofarAll
<1>8. aligner.occ >= 20 \/ total - c <= aligner.occ
  BY DEF Consume, InTail, Left, Window
<1>9. aligner' = Cycle(a)
  BY DEF Consume
<1> HIDE DEF l, total
<1>10. aligner.occ - l \in 0..64
  BY <1>5, <1>6, <1>7, <1>8
<1>11. /\ a \in Aligners /\ a.n = n + 1 /\ a.occ = aligner.occ - l /\ a.fifo = aligner.fifo
       /\ a.next = aligner.next /\ a.begin = aligner.begin /\ a.cycles = aligner.cycles
       /\ a.refill = aligner.refill /\ a.out = aligner.out /\ a.consumed = c + l
       /\ a.arrived = aligner.arrived
  <2>1. c + l \in Nat /\ n + 1 \in Nat
    BY <1>2, <1>6
  <2> QED
    BY <1>1, <1>10, <2>1 DEF Aligners, BufBits
<1> HIDE DEF a
<1>12. aligner' \in Aligners
  BY <1>1, <1>9, <1>11, CycleKeeps
<1>. DEFINE was == aligner
<1> HIDE DEF was
<1>17. /\ was \in Aligners /\ was.cycles = was.begin + was.n + was.refill + was.out
       /\ was.occ + 32 * was.fifo + was.consumed = 32 * was.arrived
       /\ n = was.n /\ c = was.consumed
  BY <1>1 DEF Accounted, Refill, was
<1>18. /\ was.n \in Nat /\ was.occ \in 0..64 /\ was.fifo \in 0..2 /\ was.begin \in Nat
       /\ was.cycles \in Nat /\ was.refill \in Nat /\ was.out \in Nat /\ was.consumed \in Nat
       /\ was.arrived \in Nat
  BY ONLY <1>17, Fields
<1>19. /\ a.n = was.n + 1 /\ a.occ = was.occ - l /\ a.fifo = was.fifo /\ a.begin = was.begin
       /\ a.cycles = was.cycles /\ a.refill = was.refill /\ a.out = was.out
       /\ a.consumed = was.consumed + l /\ a.arrived = was.arrived
  BY <1>11, <1>17 DEF was
<1>13. a.cycles + 1 = a.begin + a.n + a.refill + a.out /\ a.cycles >= a.begin
  BY ONLY <1>17, <1>18, <1>19
<1>14. a.occ + Refill * a.fifo + a.consumed = Refill * a.arrived
  BY ONLY <1>6, <1>17, <1>18, <1>19 DEF Refill
<1>15. job.every = 1 => a.next <= a.cycles + 1 /\ a.refill <= 1
  BY <1>1, <1>11 DEF Fed
<1>16. a.n <= Len(job.lens) /\ a.consumed = Sofar(job.lens, a.n)
  BY <1>3, <1>4, <1>11
<1> QED
  BY <1>1, <1>9, <1>11, <1>12, <1>13, <1>14, <1>15, <1>16, CycleStep

LEMMA CycleInvNext == CycleInv /\ [PredictorNext]_<<vars, predictVars>> => CycleInv'
<1> SUFFICES ASSUME CycleInv, [PredictorNext]_<<vars, predictVars>> PROVE CycleInv'
  OBVIOUS
<1>1. CASE Tiers8
  BY <1>1 DEF Tiers8, Next, DecodeSymbol, DecodeTail, CycleInv
<1>2. CASE PredictBzip2
  BY <1>2 DEF PredictBzip2, CycleInv, vars
<1>3. CASE PredictEvent
  BY <1>3 DEF PredictEvent, CycleInv, vars
<1>4. CASE OutStall
  BY <1>4, KeepsOutStall
<1>5. CASE RefillStall
  BY <1>5, KeepsRefillStall
<1>6. CASE Consume
  BY <1>6, KeepsConsume
<1>7. CASE UNCHANGED <<vars, predictVars>>
  BY <1>7 DEF vars, predictVars, CycleInv
<1> QED
  BY <1>1, <1>2, <1>3, <1>4, <1>5, <1>6, <1>7 DEF PredictorNext

\* The cycle model loses no bit and counts every cycle, for codes of any
\* lengths up to a window, any rate of beats, back-pressure, build time and
\* start bit; with a beat in every cycle a decode waits for the buffer in the
\* first cycle at most, so the refill of the aligner costs nothing behind it.
THEOREM RefillHidden == PredictorSpec => []RefillIsHidden
<1>1. PredictorSpec => []CycleInv
  BY CycleInvInit, CycleInvNext, PTL DEF PredictorSpec
<1> QED
  BY <1>1, CycleInvImplies, PTL
=============================================================================
