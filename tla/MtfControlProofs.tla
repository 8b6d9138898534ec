-------------------------- MODULE MtfControlProofs --------------------------
(* Proofs about the control plane of mtf_cam, from the wires up.  The two    *)
(* cells, for every depth of at least two and all sets of items, addresses   *)
(* and words: the ring buffer implements the item queue, and the AXI4-Lite   *)
(* slave serves its transactions one for one.  The register file and the     *)
(* controller, for every set of requests, read addresses, faults and live    *)
(* words, and the driver over them.                                          *)
EXTENDS MtfHost, HwCells, SequenceTheorems, TLAPS

-----------------------------------------------------------------------------
(* The item FIFO: the pointers agree with the count, and each edge changes   *)
(* the contents as the queue promises.                                       *)

FifoInv == FifoTypeOK /\ PointersAgree

LEMMA WritesAreShort ==
  ASSUME NEW wr \in Writes
  PROVE  wr \in Seq(Item) /\ Len(wr) \in 0..2 /\ (wr = <<>> <=> Len(wr) = 0)
<1>1. CASE wr = <<>>
  BY <1>1
<1>2. ASSUME NEW a \in Item, wr = <<a>>
      PROVE  wr \in Seq(Item) /\ Len(wr) = 1 /\ wr # <<>>
  BY <1>2
<1>3. ASSUME NEW a \in Item, NEW b \in Item, wr = <<a, b>>
      PROVE  wr \in Seq(Item) /\ Len(wr) = 2 /\ wr # <<>>
  BY <1>3
<1>4. Len(wr) \in 0..2
  BY <1>1, <1>2, <1>3 DEF Writes
<1> QED
  BY <1>1, <1>2, <1>3, <1>4 DEF Writes

\* item_fifo.sv: wrapping is the same whether a pointer moves in one step or
\* in two.
LEMMA AheadFacts ==
  ASSUME NEW p \in Cells, NEW k \in 0..Depth
  PROVE  /\ Ahead(p, k) \in Cells
         /\ Ahead(p, 0) = p
         /\ Advance(p) \in Cells
         /\ Advance(p) = Ahead(p, 1)
         /\ k < Depth => Advance(Ahead(p, k)) = Ahead(p, k + 1)
         /\ k < Depth => Ahead(Advance(p), k) = Ahead(p, k + 1)
  BY FifoAssumption DEF Ahead, Advance, Cells

\* item_fifo.sv: two cells at different distances below Depth are different.
LEMMA AheadInjective ==
  ASSUME NEW p \in Cells, NEW j \in 0..(Depth - 1), NEW k \in 0..(Depth - 1)
  PROVE  Ahead(p, j) = Ahead(p, k) => j = k
  BY FifoAssumption DEF Ahead, Cells

\* item_fifo.sv: with the write pointer c cells ahead of the read pointer, n
\* writes and d pops leave it c + n - d cells ahead; two free cells suffice.
LEMMA EdgeFacts ==
  ASSUME NEW r \in Cells, NEW c \in 0..Depth, NEW n \in 0..2, NEW d \in 0..1,
         d <= c, n # 0 => c + 2 <= Depth
  PROVE  /\ c + n - d \in 0..Depth
         /\ Ahead(Ahead(r, c), n) = Ahead(Ahead(r, d), c + n - d)
         /\ Ahead(Ahead(r, c), n) \in Cells
         /\ Ahead(r, d) \in Cells
  BY FifoAssumption DEF Ahead, Cells

\* item_fifo.sv: the cell read as item i after the edge, seen from the old
\* read pointer.
LEMMA ReadFacts ==
  ASSUME NEW r \in Cells, NEW c \in 0..Depth, NEW n \in 0..2, NEW d \in 0..1,
         d <= c, n # 0 => c + 2 <= Depth, NEW i \in 1..(c + n - d)
  PROVE  /\ i + d - 1 \in 0..(c + 1)
         /\ i + d - 1 \in 0..(Depth - 1)
         /\ Ahead(Ahead(r, d), i - 1) = Ahead(r, i + d - 1)
  BY FifoAssumption DEF Ahead, Cells

\* item_fifo.sv: the cells still to be read are not the ones written, and the
\* second item goes to the cell after the first.
LEMMA CellFacts ==
  ASSUME NEW r \in Cells, NEW c \in 0..Depth, NEW k \in 0..(Depth - 1)
  PROVE  /\ Ahead(r, k) \in Cells
         /\ k < c /\ c + 2 <= Depth => /\ Ahead(r, k) # Ahead(r, c)
                                       /\ Ahead(r, k) # Advance(Ahead(r, c))
         /\ k = c + 1 => Ahead(r, k) = Advance(Ahead(r, c))
         /\ Advance(Ahead(r, c)) # Ahead(r, c)
  BY FifoAssumption DEF Ahead, Advance, Cells

LEMMA FifoInvInit == FifoInit => FifoInv
<1> SUFFICES ASSUME FifoInit PROVE FifoInv
  OBVIOUS
<1>1. NoPort \in Ports
  BY DEF NoPort, Ports, Writes
<1>2. FifoTypeOK
  BY <1>1, FifoAssumption DEF FifoInit, FifoTypeOK, Cells
<1> QED
  BY <1>2, AheadFacts DEF FifoInit, FifoInv, FifoTypeOK, PointersAgree

\* One edge of item_fifo.sv that respects can_wr2_o keeps the invariant.
LEMMA FifoInvStep == FifoInv /\ [FifoNext]_fifoVars => FifoInv'
<1> SUFFICES ASSUME FifoInv, [FifoNext]_fifoVars PROVE FifoInv'
  OBVIOUS
<1> USE DEF FifoInv, FifoTypeOK
<1>1. ASSUME NEW p \in Ports, p.wr # <<>> => CanWrite2(cnt), FifoEdge(p)
      PROVE  FifoInv'
  <2> DEFINE wr == p.wr
  <2>1. wr \in Writes /\ p.rd \in BOOLEAN /\ p.flush \in BOOLEAN
    BY DEF Ports
  <2>2. wr \in Seq(Item) /\ Len(wr) \in 0..2 /\ (wr = <<>> <=> Len(wr) = 0)
    BY <2>1, WritesAreShort
  <2>3. mem' \in [Cells -> Item]
    <3>1. \A i \in 1..Len(wr) : wr[i] \in Item
      BY <2>2, ElementOfSeq
    <3>2. Len(wr) = 2 => wr[1] \in Item /\ wr[2] \in Item
      BY <3>1
    <3>3. wr # <<>> => wr[1] \in Item
      BY <2>2, <3>1
    <3> HIDE DEF wr
    <3> QED
      BY <1>1, <3>2, <3>3 DEF FifoEdge, MemAfter, wr
  <2> DEFINE n == Len(p.wr)
             d == IF DoRead(p.rd) THEN 1 ELSE 0
  <2>4. /\ rptr \in Cells /\ wptr = Ahead(rptr, cnt) /\ cnt \in 0..Depth
        /\ n \in 0..2 /\ d \in 0..1 /\ d <= cnt /\ (n # 0 => cnt + 2 <= Depth)
    <3>1. d \in 0..1 /\ d <= cnt
      BY FifoAssumption DEF DoRead
    <3>2. n # 0 => cnt + 2 <= Depth
      BY <1>1, <2>2, FifoAssumption DEF CanWrite2
    <3> QED
      BY <2>2, <3>1, <3>2 DEF PointersAgree
  <2>5. ~p.flush => /\ cnt' = cnt + n - d
                    /\ rptr' = Ahead(rptr, d)
                    /\ wptr' = Ahead(wptr, n)
    <3> SUFFICES ASSUME ~p.flush PROVE /\ cnt' = cnt + n - d
                                       /\ rptr' = Ahead(rptr, d)
                                       /\ wptr' = Ahead(wptr, n)
      OBVIOUS
    <3>1. cnt' = cnt + n - d
      BY <1>1 DEF FifoEdge, CountAfter
    <3>2. rptr' = Ahead(rptr, d)
      BY <1>1, <2>4, AheadFacts, FifoAssumption DEF FifoEdge
    <3>3. wptr' = WriteTo(p.wr)
      BY <1>1 DEF FifoEdge
    <3>4. WriteTo(p.wr) = IF n = 0 THEN wptr ELSE IF n = 1 THEN Advance(wptr)
                          ELSE Advance(Advance(wptr))
      BY <2>2 DEF WriteTo
    <3> HIDE DEF n
    <3>5. WriteTo(p.wr) = Ahead(wptr, n)
      BY <2>4, <3>4, FifoAssumption DEF Advance, Ahead, Cells
    <3> QED
      BY <3>1, <3>2, <3>3, <3>5 DEF n
  <2> HIDE DEF n, d
  <2>6. cnt' \in 0..Depth /\ wptr' \in Cells /\ rptr' \in Cells /\ PointersAgree'
    <3>1. CASE p.flush
      <4>1. cnt' = 0 /\ wptr' = 0 /\ rptr' = 0
        BY <3>1, <1>1 DEF FifoEdge
      <4> QED
        BY <4>1, FifoAssumption DEF PointersAgree, Ahead, Cells
    <3>2. CASE ~p.flush
      BY <3>2, <2>4, <2>5, EdgeFacts DEF PointersAgree
    <3> QED
      BY <3>1, <3>2
  <2>7. port' \in Ports
    BY <1>1 DEF FifoEdge
  <2> QED
    BY <2>3, <2>6, <2>7
<1>2. CASE UNCHANGED fifoVars
  BY <1>2 DEF fifoVars, PointersAgree
<1> QED
  BY <1>1, <1>2 DEF FifoNext

\* The registers of item_fifo.sv keep their ranges and agree: no write ever
\* lands on an unread item.
THEOREM FifoInvariant == FifoSpec => [](FifoTypeOK /\ PointersAgree)
<1>1. FifoSpec => []FifoInv
  BY FifoInvInit, FifoInvStep, PTL DEF FifoSpec
<1> QED
  BY <1>1, PTL DEF FifoInv

-----------------------------------------------------------------------------
LEMMA ContentsAreSeq ==
  ASSUME FifoTypeOK
  PROVE  /\ Contents \in Seq(Item)
         /\ Len(Contents) = cnt
         /\ \A i \in 1..cnt : Contents[i] = mem[Ahead(rptr, i - 1)]
<1>1. \A i \in 1..cnt : Ahead(rptr, i - 1) \in Cells
  BY AheadFacts, FifoAssumption DEF FifoTypeOK
<1>2. cnt \in Nat /\ Contents \in [1..cnt -> Item]
  BY <1>1, FifoAssumption DEF FifoTypeOK, Contents
<1> QED
  BY <1>2 DEF Contents

\* item_fifo.sv: after an edge without a flush the cells from the new read
\* pointer on hold what was left of the old contents and then the new items.
LEMMA ContentsAfter ==
  ASSUME FifoInv, FifoInv', NEW p \in Ports,
         p.wr # <<>> => CanWrite2(cnt), FifoEdge(p)
  PROVE  Contents' = QueueAfter(Contents, p.flush, p.wr, p.rd)
<1> DEFINE left == Dequeue(Contents, p.rd)
           popped == IF DoRead(p.rd) THEN 1 ELSE 0
<1>1. p.wr \in Writes /\ p.rd \in BOOLEAN /\ p.flush \in BOOLEAN
  BY DEF Ports
<1>2. p.wr \in Seq(Item) /\ Len(p.wr) \in 0..2 /\ (p.wr = <<>> <=> Len(p.wr) = 0)
  BY <1>1, WritesAreShort
<1>3. /\ Contents \in Seq(Item) /\ Len(Contents) = cnt
      /\ \A i \in 1..cnt : Contents[i] = mem[Ahead(rptr, i - 1)]
  BY ContentsAreSeq DEF FifoInv
<1>4. /\ Contents' \in Seq(Item) /\ Len(Contents') = cnt'
      /\ \A i \in 1..cnt' : Contents'[i] = mem'[Ahead(rptr', i - 1)]
  <2>1. FifoTypeOK'
    BY DEF FifoInv
  <2>2. \A i \in 1..cnt' : Ahead(rptr', i - 1) \in Cells
    <3>1. /\ rptr' \in Cells /\ cnt' \in 0..Depth
          /\ \A i \in 1..cnt' : i - 1 \in 0..Depth
      BY <2>1, FifoAssumption DEF FifoTypeOK
    <3> QED
      BY <3>1, AheadFacts
  <2>3. cnt' \in Nat /\ Contents' \in [1..cnt' -> Item]
    BY <2>1, <2>2, FifoAssumption DEF FifoTypeOK, Contents
  <2> QED
    BY <2>3 DEF Contents
<1>5. CASE p.flush
  <2>1. cnt' = 0
    BY <1>5 DEF FifoEdge
  <2> QED
    BY <1>4, <1>5, <2>1 DEF QueueAfter
<1>6. CASE ~p.flush
  <2>0. /\ rptr \in Cells /\ wptr \in Cells /\ cnt \in 0..Depth
        /\ wptr = Ahead(rptr, cnt) /\ mem \in [Cells -> Item]
    BY DEF FifoInv, FifoTypeOK, PointersAgree
  <2>1. /\ left \in Seq(Item)
        /\ Len(left) = cnt - popped
        /\ \A i \in 1..(cnt - popped) : left[i] = mem[Ahead(rptr, i + popped - 1)]
    <3>1. CASE DoRead(p.rd)
      <4>1. Contents # <<>> /\ p.rd
        BY <3>1, <1>3 DEF DoRead
      <4>2. left = Tail(Contents)
        BY <4>1 DEF Dequeue, Readable
      <4> HIDE DEF left
      <4>3. /\ left \in Seq(Item) /\ Len(left) = cnt - 1
            /\ \A i \in 1..Len(left) : left[i] = Contents[i + 1]
        BY <4>1, <4>2, <1>3, HeadTailProperties
      <4>4. popped = 1
        BY <3>1
      <4>5. \A i \in 1..(cnt - 1) : i + 1 \in 1..cnt /\ i + 1 = i + 1 + 1 - 1
        BY <2>0, FifoAssumption
      <4>6. \A i \in 1..(cnt - 1) : left[i] = mem[Ahead(rptr, i + 1 - 1)]
        <5>1. \A i \in 1..(cnt - 1) : left[i] = Contents[i + 1]
          BY <4>3
        <5>2. \A i \in 1..(cnt - 1) : Contents[i + 1] = mem[Ahead(rptr, i + 1 - 1)]
          BY <4>5, <1>3
        <5> QED
          BY <5>1, <5>2
      <4> QED
        BY <4>3, <4>4, <4>6
    <3>2. CASE ~DoRead(p.rd)
      <4>1. left = Contents
        BY <3>2, <1>3 DEF DoRead, Dequeue, Readable
      <4>2. popped = 0
        BY <3>2
      <4> QED
        BY <4>1, <4>2, <1>3
    <3> QED
      BY <3>1, <3>2
  <2> HIDE DEF left
  <2>2. /\ left \o p.wr \in Seq(Item)
        /\ Len(left \o p.wr) = cnt - popped + Len(p.wr)
        /\ \A i \in 1..(cnt - popped + Len(p.wr)) :
             (left \o p.wr)[i] = IF i <= cnt - popped THEN left[i]
                                 ELSE p.wr[i - (cnt - popped)]
    <3> HIDE DEF popped
    <3> DEFINE n == cnt - popped
    <3>1. Len(left) = n /\ left \in Seq(Item)
      BY <2>1
    <3> HIDE DEF n
    <3>2. /\ left \o p.wr \in Seq(Item)
          /\ Len(left \o p.wr) = n + Len(p.wr)
          /\ \A i \in 1..(n + Len(p.wr)) :
               (left \o p.wr)[i] = IF i <= n THEN left[i] ELSE p.wr[i - n]
      BY <3>1, <1>2, ConcatProperties
    <3> QED
      BY <3>2 DEF n
  <2>3. cnt' = cnt - popped + Len(p.wr) /\ popped \in 0..1 /\ popped <= cnt
    <3>1. cnt' = cnt + Len(p.wr) - popped
      BY <1>6 DEF FifoEdge, CountAfter
    <3>2. popped \in 0..1 /\ popped <= cnt
      BY <2>0, FifoAssumption DEF DoRead
    <3> HIDE DEF popped
    <3> QED
      BY <3>1, <3>2, <1>2, <2>0, FifoAssumption
  <2>4. rptr' = Ahead(rptr, popped)
    BY <1>6, <2>0, AheadFacts, FifoAssumption DEF FifoEdge
  <2> DEFINE n == Len(p.wr)
  <2>5. /\ popped \in 0..1 /\ popped <= cnt /\ n \in 0..2
        /\ n # 0 => cnt + 2 <= Depth
        /\ cnt' = cnt + n - popped
    <3>1. n # 0 => cnt + 2 <= Depth
      BY <1>2, <2>0, FifoAssumption DEF CanWrite2
    <3>2. cnt' = cnt + n - popped
      BY <1>6 DEF FifoEdge, CountAfter
    <3> QED
      BY <1>2, <2>3, <3>1, <3>2
  <2>6. mem' = [c \in Cells |-> IF n = 2 /\ c = Advance(wptr) THEN p.wr[2]
                                ELSE IF n # 0 /\ c = wptr THEN p.wr[1] ELSE mem[c]]
    BY <1>2 DEF FifoEdge, MemAfter
  <2>7. \A i \in 1..(cnt - popped + n) :
          (left \o p.wr)[i] = IF i <= cnt - popped THEN left[i]
                              ELSE p.wr[i - (cnt - popped)]
    BY <2>2
  <2> HIDE DEF popped, n
  <2>8. ASSUME NEW i \in 1..cnt'
        PROVE  Contents'[i] = (left \o p.wr)[i]
    <3> DEFINE k == i + popped - 1
    <3>1. i \in 1..(cnt + n - popped) /\ i \in 1..(cnt - popped + n)
      BY <2>0, <2>5
    <3>2. /\ k \in 0..(cnt + 1) /\ k \in 0..(Depth - 1)
          /\ Ahead(Ahead(rptr, popped), i - 1) = Ahead(rptr, k)
      BY <3>1, <2>0, <2>5, ReadFacts
    <3>3. Contents'[i] = mem'[Ahead(rptr, k)]
      BY <1>4, <2>4, <3>2
    <3>4. k < cnt <=> i <= cnt - popped
      BY <2>0, <2>5, <3>1, FifoAssumption
    <3>5. k >= cnt => i - (cnt - popped) = k - cnt + 1 /\ n >= k - cnt + 1
      BY <2>0, <2>5, <3>1, FifoAssumption
    <3>6. k < cnt => i \in 1..(cnt - popped)
      BY <2>0, <2>5, <3>1, FifoAssumption
    <3>7. k < cnt => mem[Ahead(rptr, k)] = mem[Ahead(rptr, i + popped - 1)]
      OBVIOUS
    <3> HIDE DEF k
    <3>8. CASE k < cnt
      <4>1. /\ Ahead(rptr, k) \in Cells
            /\ n # 0 => Ahead(rptr, k) # wptr /\ Ahead(rptr, k) # Advance(wptr)
        BY <3>2, <3>8, <2>0, <2>5, CellFacts
      <4>2. mem'[Ahead(rptr, k)] = mem[Ahead(rptr, k)]
        BY <4>1, <2>6
      <4>3. (left \o p.wr)[i] = left[i] /\ left[i] = mem[Ahead(rptr, k)]
        BY <3>1, <3>4, <3>6, <3>7, <3>8, <2>1, <2>7
      <4> QED
        BY <3>3, <4>2, <4>3
    <3>9. CASE k = cnt
      <4>1. n # 0 /\ i - (cnt - popped) = 1 /\ ~(i <= cnt - popped)
        BY <3>4, <3>5, <3>9, <2>0, <2>5
      <4>2. Ahead(rptr, k) = wptr /\ Advance(wptr) # wptr /\ wptr \in Cells
        BY <3>9, <3>2, <2>0, CellFacts
      <4>3. mem'[wptr] = p.wr[1]
        BY <4>1, <4>2, <2>6
      <4>4. (left \o p.wr)[i] = p.wr[1]
        BY <3>1, <4>1, <2>7
      <4> QED
        BY <3>3, <4>2, <4>3, <4>4
    <3>10. CASE k = cnt + 1
      <4>1. n = 2 /\ i - (cnt - popped) = 2 /\ ~(i <= cnt - popped)
        BY <3>4, <3>5, <3>10, <2>0, <2>5, FifoAssumption
      <4>2. Ahead(rptr, k) = Advance(wptr) /\ Advance(wptr) \in Cells
        BY <3>10, <3>2, <2>0, CellFacts
      <4>3. mem'[Advance(wptr)] = p.wr[2]
        BY <4>1, <4>2, <2>6
      <4>4. (left \o p.wr)[i] = p.wr[2]
        BY <3>1, <4>1, <2>7
      <4> QED
        BY <3>3, <4>2, <4>3, <4>4
    <3>11. k < cnt \/ k = cnt \/ k = cnt + 1
      BY <3>2, <2>0, FifoAssumption
    <3> QED
      BY <3>8, <3>9, <3>10, <3>11
  <2>9. Contents' = left \o p.wr
    BY <1>4, <2>2, <2>3, <2>8, SeqEqual
  <2> QED
    BY <1>6, <2>9 DEF QueueAfter, left
<1> QED
  BY <1>1, <1>5, <1>6

\* item_fifo.sv implements the queue the rest of mtf_cam relies on.
THEOREM FifoImplementsQueue == FifoSpec => ImplementsQueue
<1>1. FifoInit => Queue!QueueInit
  BY DEF FifoInit, Queue!QueueInit, Contents, NoPort, Queue!NoPort
<1>2. FifoInv /\ FifoInv' /\ [FifoNext]_fifoVars
        => [Queue!QueueNext]_<<Contents, port>>
  <2> SUFFICES ASSUME FifoInv, FifoInv', [FifoNext]_fifoVars
               PROVE  [Queue!QueueNext]_<<Contents, port>>
    OBVIOUS
  <2>1. ASSUME NEW p \in Ports, p.wr # <<>> => CanWrite2(cnt), FifoEdge(p)
        PROVE  Queue!QueueEdge(p)
    <3>1. Len(Contents) = cnt
      BY ContentsAreSeq DEF FifoInv
    <3>2. Contents' = QueueAfter(Contents, p.flush, p.wr, p.rd)
      BY <2>1, ContentsAfter
    <3>3. port' = p
      BY <2>1 DEF FifoEdge
    <3> QED
      BY <2>1, <3>1, <3>2, <3>3
      DEF Queue!QueueEdge, Queue!QueueAfter, Queue!Dequeue, Queue!Readable,
          Queue!CanWrite2, QueueAfter, Dequeue, Readable, CanWrite2
  <2>2. CASE UNCHANGED fifoVars
    BY <2>2 DEF fifoVars, Contents, Ahead
  <2> QED
    BY <2>1, <2>2 DEF FifoNext, Queue!QueueNext, Queue!Ports, Ports, Queue!Writes, Writes
<1>3. FifoSpec => []FifoInv
  BY FifoInvariant, PTL DEF FifoInv
<1> QED
  BY <1>1, <1>2, <1>3, PTL DEF FifoSpec, ImplementsQueue, Queue!QueueSpec

-----------------------------------------------------------------------------
(* The AXI4-Lite slave.                                                      *)

SlaveFlags ==
  /\ awSeen \in BOOLEAN /\ wSeen \in BOOLEAN /\ wrErrSeen \in BOOLEAN
  /\ wrotePulse \in BOOLEAN /\ readPulse \in BOOLEAN
  /\ wstate \in WStates /\ rstate \in RStates

\* The histories are the registers: a half is open while its flag is set, a
\* pulse while the write waits for its answer or for the master to take it.
OpenIsSeen ==
  /\ awOpen = Flag(awSeen) /\ wOpen = Flag(wSeen)
  /\ pulses = Flag(wstate \in {"W_WAIT", "W_RESP"})
  /\ wstate # "W_IDLE" => awSeen /\ wSeen

\* The cycle after a pulse is the first of W_WAIT, and of R_CAPT: there, and
\* only there, the answer is taken over.
AnswerIsTaken ==
  /\ wrotePulse => wstate = "W_WAIT" /\ ~wrErrSeen
  /\ wstate = "W_WAIT" => (wrotePulse <=> ~wrErrSeen)
  /\ wstate = "W_WAIT" /\ wrErrSeen => wrErr = verdict
  /\ wstate = "W_RESP" => wrErr = verdict
  /\ readPulse <=> rstate = "R_CAPT"
  /\ rstate = "R_RESP" => answer = [data |-> rdData, err |-> rdErr]

SlaveInv == SlaveFlags /\ OpenIsSeen /\ AnswerIsTaken

LEMMA SlaveInvHolds == SlaveInv => OneForOne
BY DEF SlaveInv, SlaveFlags, OpenIsSeen, AnswerIsTaken, OneForOne, Flag, WStates

LEMMA SlaveInvInit == SlaveInit => SlaveInv
BY DEF SlaveInit, AxiInit, SlaveInv, SlaveFlags, OpenIsSeen, AnswerIsTaken, Flag, WStates, RStates

\* An edge of the write channel, state by state.
LEMMA WriteEdgeKeepsInv ==
  ASSUME SlaveInv, NEW aw, NEW w,
         NEW bready \in BOOLEAN, NEW err \in BOOLEAN, NEW hold \in BOOLEAN,
         WriteEdge(aw, w, bready, err, hold)
  PROVE  SlaveInv'
<1>1. /\ wstate' = WStateAfter(aw, w, bready, hold)
      /\ awSeen' = ((awSeen \/ AwTaken(aw)) /\ ~Answered(bready))
      /\ wSeen' = ((wSeen \/ WTaken(w)) /\ ~Answered(bready))
      /\ wrErr' = IF CapturesError THEN err ELSE wrErr
      /\ wrErrSeen' = CASE wstate = "W_PULSE" -> FALSE
                        [] wstate = "W_WAIT" -> TRUE
                        [] OTHER -> wrErrSeen
  BY DEF WriteEdge, WriteStep
<1>2. /\ awOpen' = awOpen + Flag(AwTaken(aw)) - Flag(Answered(bready))
      /\ wOpen' = wOpen + Flag(WTaken(w)) - Flag(Answered(bready))
      /\ pulses' = pulses + Flag(wstate = "W_PULSE") - Flag(Answered(bready))
      /\ wrotePulse' = (wstate = "W_PULSE")
      /\ verdict' = IF wrotePulse THEN err ELSE verdict
  BY DEF WriteEdge
<1>3. UNCHANGED <<readPulse, answer, rstate, rdData, rdErr>>
  BY DEF WriteEdge, readVars, readHistory
<1>4. SlaveFlags'
  BY <1>1, <1>2, <1>3 DEF SlaveInv, SlaveFlags, WStates, WStateAfter, AfterPulse, Answered
<1>5. OpenIsSeen'
  <2>1. /\ SlaveFlags /\ OpenIsSeen
        /\ Answered(bready) => wstate = "W_RESP"
        /\ AwTaken(aw) \in BOOLEAN /\ WTaken(w) \in BOOLEAN /\ Answered(bready) \in BOOLEAN
        /\ AwTaken(aw) => ~awSeen /\ wstate = "W_IDLE"
        /\ WTaken(w) => ~wSeen /\ wstate = "W_IDLE"
    BY DEF SlaveInv, Answered, AwTaken, WTaken, AwReady, WReady
  <2>2. awOpen' = Flag(awSeen') /\ wOpen' = Flag(wSeen')
    BY <1>1, <1>2, <2>1 DEF SlaveFlags, OpenIsSeen, Flag
  <2>3. CASE wstate = "W_IDLE"
    BY <1>1, <1>2, <2>1, <2>2, <2>3 DEF SlaveFlags, OpenIsSeen, Flag, WStateAfter, WrStart
  <2>4. CASE wstate = "W_PULSE"
    BY <1>1, <1>2, <2>1, <2>2, <2>4 DEF SlaveFlags, OpenIsSeen, Flag, WStateAfter, AfterPulse
  <2>5. CASE wstate = "W_WAIT"
    BY <1>1, <1>2, <2>1, <2>2, <2>5 DEF SlaveFlags, OpenIsSeen, Flag, WStateAfter, AfterPulse
  <2>6. CASE wstate = "W_RESP"
    BY <1>1, <1>2, <2>1, <2>2, <2>6 DEF SlaveFlags, OpenIsSeen, Flag, WStateAfter, Answered
  <2> QED
    BY <2>1, <2>3, <2>4, <2>5, <2>6 DEF SlaveFlags, WStates
<1>6. AnswerIsTaken'
  BY <1>1, <1>2, <1>3 DEF SlaveInv, SlaveFlags, AnswerIsTaken, WStates, WStateAfter, AfterPulse,
                          CapturesError
<1> QED
  BY <1>4, <1>5, <1>6 DEF SlaveInv

LEMMA ReadEdgeKeepsInv ==
  ASSUME SlaveInv, NEW ar, NEW rready \in BOOLEAN, NEW data, NEW err \in BOOLEAN,
         ReadEdge(ar, rready, data, err)
  PROVE  SlaveInv'
<1>1. UNCHANGED <<wstate, awSeen, wSeen, wrErr, wrErrSeen, awOpen, wOpen, pulses, wrotePulse, verdict>>
  BY DEF ReadEdge, writeVars, writeHistory
<1>2. /\ rstate' = RStateAfter(ar, rready)
      /\ rdData' = IF CapturesAnswer THEN data ELSE rdData
      /\ rdErr' = IF CapturesAnswer THEN err ELSE rdErr
      /\ readPulse' = (rstate = "R_PULSE")
      /\ answer' = IF readPulse THEN [data |-> data, err |-> err] ELSE answer
  BY DEF ReadEdge, ReadStep
<1>3. SlaveFlags' /\ OpenIsSeen'
  BY <1>1, <1>2 DEF SlaveInv, SlaveFlags, OpenIsSeen, RStates, RStateAfter
<1>4. AnswerIsTaken'
  BY <1>1, <1>2 DEF SlaveInv, SlaveFlags, AnswerIsTaken, RStates, RStateAfter, CapturesAnswer
<1> QED
  BY <1>3, <1>4 DEF SlaveInv

\* Each write is taken once and answered once with its own error, each read with
\* its own word, for any master, any decoder and any length of the hold.
THEOREM SlaveOneForOne == CellsSpec => []OneForOne
<1>1. CellsInit => SlaveInv
  BY SlaveInvInit DEF CellsInit
<1>2. SlaveInv /\ [FifoCell \/ SlaveCell]_cellVars => SlaveInv'
  <2> SUFFICES ASSUME SlaveInv, [FifoCell \/ SlaveCell]_cellVars
               PROVE  SlaveInv'
    OBVIOUS
  <2>1. CASE SlaveCell
    BY <2>1, WriteEdgeKeepsInv, ReadEdgeKeepsInv DEF SlaveCell, SlaveNext
  <2>2. CASE UNCHANGED slaveVars
    BY <2>2 DEF slaveVars, axiVars, writeVars, readVars, writeHistory, readHistory, SlaveInv,
                SlaveFlags, OpenIsSeen, AnswerIsTaken
  <2> QED
    BY <2>1, <2>2 DEF FifoCell, cellVars
<1> QED
  BY <1>1, <1>2, SlaveInvHolds, PTL DEF CellsSpec

\* The queue is implemented also where the slave shares the specification: its
\* steps stutter.
THEOREM CellsImplementQueue == CellsSpec => ImplementsQueue
<1>1. CellsInit => FifoInit
  BY DEF CellsInit
<1>2. [FifoCell \/ SlaveCell]_cellVars => [FifoNext]_fifoVars
  BY DEF FifoCell, SlaveCell, cellVars
<1>3. CellsSpec => FifoSpec
  BY <1>1, <1>2, PTL DEF CellsSpec, FifoSpec
<1> QED
  BY <1>3, FifoImplementsQueue

-----------------------------------------------------------------------------
(* The register file and the controller.                                     *)

\* The doorbell protocol, cycle by cycle: the decision and the pulse both fall
\* into the W_WAIT of their own write, while the FSM is idle.
DecisionWaits ==
  dbPending => wstate = "W_WAIT" /\ dbHold /\ ~doorbell /\ ~running
HoldIsDecision == dbHold => dbPending
PulseWaits == doorbell => wstate = "W_WAIT" /\ ~running /\ ~dbPending
AbortIsFresh == abort => ~startedSince

Flags ==
  /\ dbPending \in BOOLEAN /\ dbHold \in BOOLEAN /\ doorbell \in BOOLEAN
  /\ abort \in BOOLEAN /\ running \in BOOLEAN /\ startedSince \in BOOLEAN

ControlInv ==
  /\ Flags
  /\ DecisionWaits /\ HoldIsDecision /\ PulseWaits
  /\ RunsOnChecked /\ AbortIsFresh

-----------------------------------------------------------------------------
\* Reset establishes the invariant.
LEMMA ControlInvInit == ControlInit => ControlInv
BY DEF ControlInit, AxiInit, RegsInit, ControlInv, Flags, DecisionWaits, HoldIsDecision,
       PulseWaits, RunsOnChecked, AbortIsFresh, Busy

\* Without a pulse the decoder sees no request: nothing is decided, written or
\* aborted.
LEMMA QuietDecoder ==
  ASSUME wstate # "W_PULSE", NEW busy \in BOOLEAN
  PROVE  /\ ~Decides(WriteRequest, busy)
         /\ ~Aborts(WriteRequest)
         /\ ConfigAfter(WriteRequest, busy) = config
BY DEF WriteRequest, Decides, Rings, Aborts, Controls, Hits, ConfigAfter, Configures

\* A clock edge, whatever the master and the running block do on it, keeps the
\* invariant.
LEMMA EdgeKeepsInv ==
  ASSUME ControlInv,
         NEW aw, NEW w, NEW bready, NEW ar, NEW rready, NEW sets, NEW live,
         Edge(aw, w, bready, ar, rready, sets, live)
  PROVE  ControlInv'
<1> DEFINE wr == WriteRequest
<1>1. /\ dbPending' = Decides(wr, Busy)
      /\ dbHold' = HoldAfter(wr, Busy)
      /\ doorbell' = (dbPending /\ ~ErrParam(config))
      /\ abort' = Aborts(wr)
      /\ config' = ConfigAfter(wr, Busy)
      /\ running' = RunningAfter(sets)
      /\ checked' = IF Busy THEN checked ELSE config
      /\ startedSince' = IF Aborts(wr) THEN FALSE ELSE startedSince \/ (doorbell /\ ~running)
  BY DEF Edge, RegsEdge, AbortAfter, AbortRequested
<1>2. wstate' = WStateAfter(aw, w, bready, dbHold)
  BY DEF Edge, WriteStep
<1>3. Busy \in BOOLEAN
  BY DEF ControlInv, Flags, Busy
<1>4. Decides(wr, Busy) \in BOOLEAN /\ Aborts(wr) \in BOOLEAN
  BY DEF Decides, Rings, Aborts, Controls, Hits
<1>5. wstate = "W_PULSE" => wstate' = "W_WAIT"
  BY <1>2 DEF WStateAfter, AfterPulse
<1>6. wstate = "W_WAIT" /\ dbHold => wstate' = "W_WAIT"
  BY <1>2 DEF WStateAfter
<1>7. wstate # "W_PULSE" => ~Decides(wr, Busy) /\ ~Aborts(wr) /\ config' = config
  BY <1>1, <1>3, QuietDecoder
<1>8. Decides(wr, Busy) => ~Busy /\ ~running /\ ~doorbell
  BY DEF Decides, Busy
<1>9. ~running => running' = doorbell
  BY <1>1 DEF RunningAfter
<1>10. Busy => config' = config
  BY <1>1 DEF ConfigAfter
<1> HIDE DEF wr
<1>11. Flags'
  <2>1. RunningAfter(sets) \in BOOLEAN
    BY DEF RunningAfter, NoEvent, ControlInv, Flags
  <2>2. HoldAfter(wr, Busy) \in BOOLEAN
    BY DEF HoldAfter
  <2> QED
    BY <1>1, <1>4, <2>1, <2>2 DEF ControlInv, Flags
<1>12. DecisionWaits'
  <2> SUFFICES ASSUME dbPending'
               PROVE  wstate' = "W_WAIT" /\ dbHold' /\ ~doorbell' /\ ~running'
    BY DEF DecisionWaits
  <2>1. wstate = "W_PULSE" /\ Decides(wr, Busy)
    BY <1>1, <1>7
  <2>2. ~dbPending
    BY <2>1 DEF ControlInv, DecisionWaits
  <2> QED
    BY <1>1, <1>5, <1>8, <1>9, <2>1, <2>2 DEF HoldAfter, ControlInv, Flags
<1>13. HoldIsDecision'
  BY <1>1, <1>4 DEF HoldIsDecision, HoldAfter, ControlInv, Flags
<1>14. PulseWaits'
  <2> SUFFICES ASSUME doorbell'
               PROVE  wstate' = "W_WAIT" /\ ~running' /\ ~dbPending'
    BY DEF PulseWaits
  <2>1. dbPending /\ wstate = "W_WAIT" /\ dbHold /\ ~doorbell /\ ~running
    BY <1>1 DEF ControlInv, DecisionWaits
  <2> QED
    BY <1>1, <1>6, <1>7, <1>9, <2>1
<1>15. RunsOnChecked'
  <2> SUFFICES ASSUME Busy'
               PROVE  config' = checked' /\ ~ErrParam(checked')
    BY DEF RunsOnChecked, ErrParam, Above, Zero
  <2>1. CASE Busy
    BY <1>1, <1>10, <2>1 DEF ControlInv, RunsOnChecked
  <2>2. CASE ~Busy
    <3>1. ~running'
      BY <1>9, <2>2 DEF Busy
    <3>2. doorbell' /\ dbPending /\ ~ErrParam(config)
      BY <1>1, <3>1 DEF Busy
    <3>3. config' = config /\ checked' = config
      BY <1>1, <1>7, <2>2, <3>2 DEF ControlInv, DecisionWaits
    <3> QED
      BY <3>2, <3>3
  <2> QED
    BY <2>1, <2>2
<1>16. AbortIsFresh'
  BY <1>1 DEF AbortIsFresh
<1> QED
  BY <1>11, <1>12, <1>13, <1>14, <1>15, <1>16 DEF ControlInv

LEMMA StutterKeepsInv == ASSUME ControlInv, UNCHANGED controlVars PROVE ControlInv'
BY DEF ControlInv, Flags, DecisionWaits, HoldIsDecision, PulseWaits, RunsOnChecked,
       AbortIsFresh, Busy, controlVars, axiVars, writeVars, regsVars, decideVars, historyVars

\* Every step of any master is a clock edge.
LEMMA NextIsEdge ==
  ASSUME ControlNext
  PROVE  \E aw, w, bready, ar, rready, sets, live :
           Edge(aw, w, bready, ar, rready, sets, live)
BY DEF ControlNext, Quiet, Send, Ask

LEMMA ControlInvAlways == ControlSpec => []ControlInv
<1>1. ControlInit => ControlInv
  BY ControlInvInit
<1>2. ControlInv /\ [ControlNext]_controlVars => ControlInv'
  BY NextIsEdge, EdgeKeepsInv, StutterKeepsInv
<1> QED
  BY <1>1, <1>2, PTL DEF ControlSpec

-----------------------------------------------------------------------------
\* An accepted doorbell meets an idle FSM, whatever the master does.
THEOREM ControlDoorbell == ControlSpec => []DoorbellMeetsIdle
<1>1. ControlInv => DoorbellMeetsIdle
  BY DEF ControlInv, PulseWaits, DoorbellMeetsIdle
<1> QED
  BY <1>1, ControlInvAlways, PTL

\* A block runs on the very configuration that was checked, to its end.
THEOREM ControlConfig == ControlSpec => []RunsOnChecked
<1>1. ControlInv => RunsOnChecked
  BY DEF ControlInv
<1> QED
  BY <1>1, ControlInvAlways, PTL

\* An abort request never stops an invocation begun after it.
THEOREM ControlAbort == ControlSpec => []AbortHitsOwn
<1>1. ControlInv => AbortHitsOwn
  BY DEF ControlInv, AbortIsFresh, AbortHitsOwn
<1> QED
  BY <1>1, ControlInvAlways, PTL

\* BRESP of a doorbell write comes after its decision.
THEOREM ControlResponse == ControlSpec => []ResponseAfterDecision
<1>1. ControlInv => ResponseAfterDecision
  BY DEF ControlInv, DecisionWaits, HoldIsDecision, ResponseAfterDecision
<1> QED
  BY <1>1, ControlInvAlways, PTL

\* A flag once set or being raised is lost only to a clear of that flag on that
\* edge.
THEOREM ControlFlags == ControlSpec => FlagsKept
<1>1. ASSUME NEW aw, NEW w, NEW bready, NEW ar, NEW rready, NEW sets, NEW live,
             Edge(aw, w, bready, ar, rready, sets, live)
      PROVE  (sticky \cup ending') \ sticky' \subseteq Cleared(WriteRequest)
  <2>1. ending' = sets /\ sticky' = StickyAfter(WriteRequest, Busy, sets)
    BY <1>1 DEF Edge, RegsEdge
  <2> QED
    BY <2>1 DEF StickyAfter
<1>2. [ControlNext]_controlVars =>
        [(sticky \cup ending') \ sticky' \subseteq Cleared(WriteRequest)]_controlVars
  BY <1>1, NextIsEdge
<1> QED
  BY <1>2, PTL DEF ControlSpec, FlagsKept

\* Every block begun and not yet cleared is on the way to the reader: it runs,
\* or its flag is in STATUS; and what a read has fetched showed it.
EndFlags == {DONE, ABORTED} \cup RunErrors
BlockIsVisible == accounted => Busy \/ sticky \cap EndFlags # {}
StatusInv == rstate \in RStates /\ BlockIsVisible /\ StatusShowsBlock

\* A block that ends leaves a flag, unless STATUS is cleared on that edge.
LEMMA EndLeavesFlag ==
  ASSUME NEW sets \in Events, running, sets # NoEvent
  PROVE  sets \cap EndFlags # {}
BY WordAssumption DEF Events, NoEvent, EndFlags, RunErrors

LEMMA EdgeKeepsStatus ==
  ASSUME StatusInv,
         NEW aw, NEW w, NEW bready, NEW ar, NEW rready, NEW sets, NEW live,
         Edge(aw, w, bready, ar, rready, sets, live)
  PROVE  StatusInv'
<1>1. /\ sticky' = StickyAfter(WriteRequest, Busy, sets)
      /\ doorbell' = (dbPending /\ ~ErrParam(config))
      /\ running' = RunningAfter(sets) /\ sets \in Events
      /\ accounted' = IF Cleared(WriteRequest) # Zero THEN running' ELSE accounted \/ doorbell
      /\ rdDataAns' = IF ReadRequest = <<>> \/ ~Mapped(ReadRequest[1]) THEN Zero
                      ELSE ReadWord(ReadRequest[1], Busy, live)
  BY DEF Edge, RegsEdge
<1>2. /\ rstate' = RStateAfter(ar, rready)
      /\ rdAddr' = IF ArTaken(ar) THEN ar[1] ELSE rdAddr
  BY DEF Edge, ReadStep
<1>3. rstate' \in RStates
  BY <1>2 DEF StatusInv, RStates, RStateAfter
<1>4. Cleared(WriteRequest) = Zero => sticky \cup sets \subseteq sticky'
  BY <1>1 DEF StickyAfter, Zero
<1>5. BlockIsVisible'
  <2> SUFFICES ASSUME accounted', ~running'
               PROVE  sticky' \cap EndFlags # {}
    BY DEF BlockIsVisible, Busy, EndFlags
  <2>1. Cleared(WriteRequest) = Zero /\ (accounted \/ doorbell)
    BY <1>1
  <2>2. CASE running
    <3>1. sets \cap EndFlags # {}
      BY <1>1, <2>2, EndLeavesFlag DEF RunningAfter
    <3> QED
      BY <1>4, <2>1, <3>1
  <2>3. CASE ~running
    <3>1. sticky \cap EndFlags # {}
      BY <1>1, <2>1, <2>3 DEF RunningAfter, StatusInv, BlockIsVisible, Busy
    <3> QED
      BY <1>4, <2>1, <3>1
  <2> QED
    BY <2>2, <2>3
<1>6. StatusShowsBlock'
  <2> SUFFICES ASSUME rstate' = "R_CAPT", rdAddr' = STATUS, accounted'
               PROVE  rdDataAns' \cap ({BUSY} \cup EndFlags) # {}
    BY DEF StatusShowsBlock, EndFlags
  <2>1. rstate = "R_PULSE" /\ rdAddr = STATUS
    BY <1>2 DEF StatusInv, RStates, RStateAfter, ArTaken
  <2>2. rdDataAns' = sticky \cup (IF Busy THEN {BUSY} ELSE {})
    <3>1. ReadRequest # <<>> /\ ReadRequest[1] = STATUS
      BY <2>1 DEF ReadRequest
    <3>2. Mapped(STATUS)
      BY DEF Mapped, STATUS
    <3>3. ReadWord(STATUS, Busy, live) = sticky \cup (IF Busy THEN {BUSY} ELSE {})
      BY DEF ReadWord, STATUS, IRQ_EN, IRQ_STATUS, DBG_SEL, ConfigAddrs, LiveAddrs,
             SYMBOL_LIMIT, BYTES_LIMIT, USED
    <3> QED
      BY <1>1, <3>1, <3>2, <3>3
  <2>3. Busy \/ sticky \cap EndFlags # {}
    BY <1>1 DEF RunningAfter, StatusInv, BlockIsVisible, Busy
  <2> QED
    BY <2>2, <2>3
<1> QED
  BY <1>3, <1>5, <1>6 DEF StatusInv

\* A STATUS read shows every block begun, running or ended, that software has
\* not cleared since, on whatever edges the read, the doorbell and the end fall.
THEOREM ControlStatus == ControlSpec => []StatusShowsBlock
<1>1. ControlInit => StatusInv
  BY DEF ControlInit, AxiInit, StatusInv, RStates, BlockIsVisible, StatusShowsBlock
<1>2. StatusInv /\ [ControlNext]_controlVars => StatusInv'
  <2>1. StatusInv /\ UNCHANGED controlVars => StatusInv'
    BY DEF StatusInv, BlockIsVisible, StatusShowsBlock, Busy, controlVars, axiVars, readVars,
           regsVars, decideVars, historyVars
  <2> QED
    BY <2>1, NextIsEdge, EdgeKeepsStatus
<1>3. StatusInv => StatusShowsBlock
  BY DEF StatusInv
<1> QED
  BY <1>1, <1>2, <1>3, PTL DEF ControlSpec

\* irq is high exactly while an enabled flag is set.
THEOREM ControlIrq == ControlSpec => []IrqFollows
<1>1. ControlInit => IrqFollows
  BY DEF ControlInit, RegsInit, IrqFollows, Zero
<1>2. IrqFollows /\ [ControlNext]_controlVars => IrqFollows'
  <2>1. ASSUME NEW aw, NEW w, NEW bready, NEW ar, NEW rready, NEW sets, NEW live,
               Edge(aw, w, bready, ar, rready, sets, live)
        PROVE  IrqFollows'
    BY <2>1 DEF Edge, RegsEdge, IrqAfter, IrqFollows
  <2>2. IrqFollows /\ UNCHANGED controlVars => IrqFollows'
    BY DEF IrqFollows, controlVars, regsVars
  <2> QED
    BY <2>1, <2>2, NextIsEdge
<1> QED
  BY <1>1, <1>2, PTL DEF ControlSpec

-----------------------------------------------------------------------------
\* Every step of the driver, of the other coroutine and of the bus between them
\* is a clock edge of the control plane.
LEMMA HostNextIsEdge ==
  ASSUME HostNext
  PROVE  \E aw, w, bready, ar, rready, sets, live :
           Edge(aw, w, bready, ar, rready, sets, live)
<1>1. ASSUME NEW aw, NEW w, NEW bready, NEW ar, NEW rready, NEW sets,
             Wires(aw, w, bready, ar, rready, sets)
      PROVE  Edge(aw, w, bready, ar, rready, sets, Zero)
  BY <1>1 DEF Wires
<1>2. \E aw, w, bready, ar, rready, sets : Wires(aw, w, bready, ar, rready, sets)
  BY DEF HostNext, Rest, Enter, Issue, IssueAbort, Between, TransferWrite, TransferRead,
         Transfer, Complete
<1> QED
  BY <1>1, <1>2

\* Under the driver too a block runs on the configuration its doorbell checked,
\* and no abort, of either coroutine, reaches the block after.
THEOREM HostConfig == HostSpec => [](RunsOnChecked /\ AbortHitsOwn /\ DoorbellMeetsIdle)
<1>1. HostInit => ControlInv
  BY ControlInvInit DEF HostInit
<1>2. ControlInv /\ [HostNext]_hostVars => ControlInv'
  <2>1. ControlInv /\ HostNext => ControlInv'
    BY HostNextIsEdge, EdgeKeepsInv
  <2>2. ControlInv /\ UNCHANGED hostVars => ControlInv'
    BY StutterKeepsInv DEF hostVars
  <2> QED
    BY <2>1, <2>2
<1>3. ControlInv => RunsOnChecked /\ AbortHitsOwn /\ DoorbellMeetsIdle
  BY DEF ControlInv, AbortIsFresh, PulseWaits, AbortHitsOwn, DoorbellMeetsIdle
<1> QED
  BY <1>1, <1>2, <1>3, PTL DEF HostSpec

-----------------------------------------------------------------------------
(* The driver's call and the block it starts.                                *)

\* The transaction on the bus is the coroutine's, and the decoder has seen it.
Mine == txn # <<>> /\ txn[1].by = "driver"
Sent == Mine /\ wstate \in {"W_WAIT", "W_RESP"}
Pending == dbPending \/ doorbell

\* At most one transaction: the access the coroutine awaits or the other
\* coroutine's abort, and the slave holds its halves or nothing.
BusShape ==
  /\ wstate \in WStates /\ rstate \in RStates /\ awSeen \in BOOLEAN /\ wSeen \in BOOLEAN
  /\ pc \in Places
  /\ txn = <<>> \/ txn = <<AbortAccess>> \/ (pc # "OUT" /\ txn = <<Access>>)
  /\ txn = <<>> \/ ~txn[1].write => wstate = "W_IDLE" /\ ~awSeen /\ ~wSeen
  /\ txn = <<>> \/ txn[1].write => rstate = "R_IDLE"
  /\ txn # <<>> /\ txn[1].write =>
       /\ awSeen => wrAddr = txn[1].addr
       /\ wSeen => wrData = Body(txn[1])
       /\ wstate # "W_IDLE" => awSeen /\ wSeen
  /\ txn # <<>> /\ ~txn[1].write /\ rstate # "R_IDLE" => rdAddr = STATUS

\* configure() has written the words up to its step; from then on the registers
\* hold what the call wants.
Written(a) == \E i \in DOMAIN ConfigOrder : ConfigOrder[i] = a
StepDone(j) == j < step \/ (j = step /\ Sent)
Configured ==
  /\ config \in [ConfigAddrs -> Word] /\ want \in Wanted
  /\ \A a \in ConfigAddrs : Written(a) \/ config[a] = Zero
  /\ pc = "CONFIGURE" =>
       /\ step \in DOMAIN ConfigOrder
       /\ \A j \in DOMAIN ConfigOrder :
            StepDone(j) => config[ConfigOrder[j]] = want[ConfigOrder[j]]
  /\ pc \in {"CLEAR", "RING", "CHECK", "POLL"} => config = want

\* Where no block can be running.
Idle ==
  \/ pc = "OUT" /\ ~timedOut
  \/ pc \in {"CONFIGURE", "CLEAR", "FINISH"}
  \/ pc = "RING" /\ ~Sent
  \/ pc = "ABORT" /\ Mine /\ wstate = "W_RESP"

\* The doorbell's two outcomes: the call's own block, whose flag is all there
\* is in STATUS, or the rejection.
Ends == {{DONE}, {ABORTED}} \cup {{e} : e \in RunErrors}
Began ==
  /\ begun /\ ranWanted /\ sticky = own
  /\ (running /\ own = {}) \/ (~running /\ own \in Ends)
Rejected == ~begun /\ ~running /\ sticky = {ERR_PARAM} /\ ErrParam(want)

Phases ==
  /\ Idle => ~Busy
  /\ Pending => pc = "RING" /\ Sent /\ ~running
  /\ pc = "ABORT" /\ Mine /\ wstate = "W_WAIT" => abort
  /\ pc = "CLEAR" => ~begun
  /\ pc = "CLEAR" /\ Sent => sticky = Zero
  /\ pc = "RING" /\ (~Sent \/ Pending) => ~begun /\ sticky = Zero
  /\ pc = "RING" /\ Sent /\ ~Pending => Began \/ Rejected
  /\ pc = "CHECK" => Began \/ Rejected
  /\ pc = "POLL" => Began
  /\ pc = "FINISH" => begun /\ ranWanted /\ result.flags = own

\* The word a STATUS read has fetched: a block still running at that time, its
\* flag, or the rejection.
Shown(s) == IF begun THEN s = {BUSY} \/ (~running /\ s = own) ELSE s = {ERR_PARAM}
Fetched ==
  Mine /\ pc \in {"CHECK", "POLL"} =>
    /\ rstate = "R_CAPT" => Shown(rdDataAns)
    /\ rstate = "R_RESP" => Shown(rdData)

Results ==
  /\ sticky \subseteq Sticky \ {ERR_BUSY}
  /\ result.kind \in {"RETURNED", "RAISED"} => pc = "OUT" /\ ~timedOut
  /\ pc = "OUT" /\ timedOut => result.kind = "TIMEOUT"
  /\ ReturnsOwnResult

HostInv == BusShape /\ Configured /\ Phases /\ Fetched /\ Results

LEMMA HostInvInit == HostInit => HostInv
<1> SUFFICES ASSUME HostInit PROVE HostInv
  OBVIOUS
<1> USE DEF HostInit, ControlInit, AxiInit, RegsInit
<1>1. BusShape
  BY DEF BusShape, WStates, RStates, Places
<1>2. Configured
  BY DEF Configured, Word, Zero
<1>3. Phases
  BY DEF Phases, Idle, Busy, Pending
<1>4. Fetched
  BY DEF Fetched
<1>5. Results
  BY DEF Results, ReturnsOwnResult, Zero
<1> QED
  BY <1>1, <1>2, <1>3, <1>4, <1>5 DEF HostInv

\* An edge on which the decoder sees no write and no doorbell is decided: the
\* running block may end, and that is all.
Quietly(sets) ==
  /\ config' = config /\ sticky' = sticky \cup sets /\ ~dbPending' /\ ~doorbell'
  /\ ~running => ~running' /\ sets = {}
  /\ running => (running' /\ sets = {}) \/ (~running' /\ sets \in Ends)
  /\ running /\ abort => ~running'
  /\ begun' <=> (begun /\ pc # "CONFIGURE")
  /\ ranWanted' = ranWanted /\ own' = own \cup sets

LEMMA EventsAre ==
  ASSUME NEW sets \in Events
  PROVE  /\ ~running => sets = {}
         /\ running => sets = {} \/ sets \in Ends
         /\ running /\ abort => sets # {}
BY WordAssumption DEF Events, NoEvent, Ends

LEMMA QuietEdge ==
  ASSUME ControlInv, wstate # "W_PULSE", ~dbPending, ~doorbell,
         NEW aw, NEW w, NEW bready, NEW ar, NEW rready, NEW sets,
         Wires(aw, w, bready, ar, rready, sets)
  PROVE  Quietly(sets)
<1>1. Edge(aw, w, bready, ar, rready, sets, Zero) /\ OwnAfter(sets)
  BY DEF Wires
<1>2. WriteRequest = <<>>
  BY DEF WriteRequest
<1>3. /\ ~Refused(<<>>, Busy) /\ ~Decides(<<>>, Busy) /\ Cleared(<<>>) = {} /\ ~Rejects
      /\ ~Configures(<<>>)
  BY DEF Refused, Decides, Rings, Controls, Hits, Configures, Cleared, Rejects, Zero
<1>4. config' = config
  BY <1>1, <1>2, <1>3 DEF Edge, RegsEdge, ConfigAfter
<1>5. sticky' = sticky \cup sets
  BY <1>1, <1>2, <1>3 DEF Edge, RegsEdge, StickyAfter
<1>6. ~dbPending' /\ ~doorbell'
  BY <1>1, <1>2, <1>3 DEF Edge, RegsEdge
<1>7. running' = RunningAfter(sets) /\ sets \in Events
  BY <1>1 DEF Edge
<1>8. running \in BOOLEAN
  BY DEF ControlInv, Flags
<1>9. RunningAfter(sets) = IF running THEN sets = {} ELSE FALSE
  BY <1>8 DEF RunningAfter, NoEvent, ControlInv, Flags
<1>10. {} \notin Ends
  BY DEF Ends
<1>11. /\ ~running => ~running' /\ sets = {}
       /\ running => (running' /\ sets = {}) \/ (~running' /\ sets \in Ends)
       /\ running /\ abort => ~running'
  BY <1>7, <1>9, <1>10, EventsAre
<1>12. (begun' <=> (begun /\ pc # "CONFIGURE")) /\ ranWanted' = ranWanted /\ own' = own \cup sets
  BY <1>1 DEF OwnAfter
<1> QED
  BY <1>4, <1>5, <1>6, <1>11, <1>12 DEF Quietly

\* Where the bus can be quiet: outside a write's pulse and its decision.
LEMMA QuietBus ==
  ASSUME ControlInv, wstate \notin {"W_PULSE", "W_WAIT"}
  PROVE  ~dbPending /\ ~doorbell
BY DEF ControlInv, DecisionWaits, PulseWaits

\* The slave over one edge.
LEMMA SlaveEdge ==
  ASSUME NEW aw, NEW w, NEW bready, NEW ar, NEW rready, NEW sets,
         Wires(aw, w, bready, ar, rready, sets)
  PROVE  /\ wrAddr' = IF AwTaken(aw) THEN aw[1] ELSE wrAddr
         /\ wrData' = IF WTaken(w) THEN w[1] ELSE wrData
         /\ wstate' = WStateAfter(aw, w, bready, dbHold)
         /\ awSeen' = ((awSeen \/ AwTaken(aw)) /\ ~Answered(bready))
         /\ wSeen' = ((wSeen \/ WTaken(w)) /\ ~Answered(bready))
         /\ rstate' = RStateAfter(ar, rready)
         /\ rdAddr' = IF ArTaken(ar) THEN ar[1] ELSE rdAddr
         /\ rdData' = IF CapturesAnswer THEN rdDataAns ELSE rdData
BY DEF Wires, Edge, WriteStep, ReadStep, Capture

LEMMA AccessKept ==
  ASSUME UNCHANGED callVars
  PROVE  Access' = Access /\ pc' = pc
BY DEF callVars, Access

LEMMA AccessIs ==
  ASSUME pc \in Places \ {"OUT"}
  PROVE  /\ Access.by = "driver"
         /\ ~Access.write <=> pc \in {"CHECK", "POLL"}
         /\ ~Access.write => Access.addr = STATUS
BY DEF Access, WriteOf, ReadOf, Places

\* An edge without a transaction leaves the slave idle.
LEMMA IdleSlave ==
  ASSUME BusShape, txn = <<>>, NEW sets, Between(sets)
  PROVE  /\ wstate' = "W_IDLE" /\ ~awSeen' /\ ~wSeen' /\ rstate' = "R_IDLE"
         /\ awSeen' \in BOOLEAN /\ wSeen' \in BOOLEAN
<1>1. Wires(<<>>, <<>>, FALSE, <<>>, FALSE, sets)
  BY DEF Between
<1>2. /\ wstate' = WStateAfter(<<>>, <<>>, FALSE, dbHold)
      /\ awSeen' = ((awSeen \/ AwTaken(<<>>)) /\ ~Answered(FALSE))
      /\ wSeen' = ((wSeen \/ WTaken(<<>>)) /\ ~Answered(FALSE))
      /\ rstate' = RStateAfter(<<>>, FALSE)
  BY <1>1, SlaveEdge
<1>3. wstate = "W_IDLE" /\ ~awSeen /\ ~wSeen /\ rstate = "R_IDLE"
  BY DEF BusShape
<1> QED
  BY <1>2, <1>3 DEF WStateAfter, WrStart, AwTaken, WTaken, Answered, RStateAfter, ArTaken

LEMMA BusIssue ==
  ASSUME BusShape, Rest \/ Issue \/ IssueAbort
  PROVE  BusShape'
<1>1. PICK sets \in Events : Between(sets)
  BY DEF Rest, Issue, IssueAbort
<1>2. txn = <<>> /\ UNCHANGED callVars
  BY DEF Rest, Issue, IssueAbort, Between
<1>3. /\ wstate' = "W_IDLE" /\ ~awSeen' /\ ~wSeen' /\ rstate' = "R_IDLE"
      /\ awSeen' \in BOOLEAN /\ wSeen' \in BOOLEAN
  BY <1>1, <1>2, IdleSlave
<1>4. pc' = pc /\ pc \in Places /\ Access' = Access /\ AbortAccess' = AbortAccess
  BY <1>2, AccessKept DEF BusShape, AbortAccess
<1>5. txn' = <<>> \/ txn' = <<AbortAccess>> \/ (pc # "OUT" /\ txn' = <<Access>>)
  BY <1>2 DEF Rest, Issue, IssueAbort
<1> QED
  BY <1>3, <1>4, <1>5 DEF BusShape, WStates, RStates

LEMMA BusEnter ==
  ASSUME BusShape, Enter
  PROVE  BusShape'
<1>1. PICK sets \in Events : Between(sets)
  BY DEF Enter
<1>2. txn = <<>> /\ txn' = <<>> /\ pc' \in Places
  BY DEF Enter, Between, Call, Recover, Places
<1>3. /\ wstate' = "W_IDLE" /\ ~awSeen' /\ ~wSeen' /\ rstate' = "R_IDLE"
      /\ awSeen' \in BOOLEAN /\ wSeen' \in BOOLEAN
  BY <1>1, <1>2, IdleSlave
<1> QED
  BY <1>2, <1>3 DEF BusShape, WStates, RStates

LEMMA BusWrite ==
  ASSUME BusShape, TransferWrite
  PROVE  /\ BusShape'
         /\ wstate = "W_PULSE" => wstate' = "W_WAIT"
         /\ wstate = "W_WAIT" => wstate' = IF dbHold THEN "W_WAIT" ELSE "W_RESP"
         /\ wstate = "W_IDLE" => wstate' \in {"W_IDLE", "W_PULSE"}
         /\ wstate # "W_RESP" /\ rstate' = "R_IDLE"
<1>1. PICK aw \in Offer(txn[1].addr, AwReady), w \in Offer(Body(txn[1]), WReady), sets \in Events :
        Wires(aw, w, FALSE, <<>>, FALSE, sets)
  BY DEF TransferWrite, Transfer
<1>2. txn # <<>> /\ txn[1].write /\ wstate # "W_RESP" /\ UNCHANGED <<txn, callVars>>
  BY DEF TransferWrite, Transfer, InFlight
<1>3. /\ wrAddr' = IF AwTaken(aw) THEN aw[1] ELSE wrAddr
      /\ wrData' = IF WTaken(w) THEN w[1] ELSE wrData
      /\ wstate' = WStateAfter(aw, w, FALSE, dbHold)
      /\ awSeen' = ((awSeen \/ AwTaken(aw)) /\ ~Answered(FALSE))
      /\ wSeen' = ((wSeen \/ WTaken(w)) /\ ~Answered(FALSE))
      /\ rstate' = RStateAfter(<<>>, FALSE)
  BY <1>1, SlaveEdge
<1>4. rstate = "R_IDLE" /\ rstate' = "R_IDLE"
  BY <1>2, <1>3 DEF BusShape, RStateAfter, ArTaken
<1>5. AwTaken(aw) => aw[1] = txn[1].addr
  BY <1>1 DEF Offer, AwTaken
<1>6. WTaken(w) => w[1] = Body(txn[1])
  BY <1>1 DEF Offer, WTaken
<1>7. awSeen' \in BOOLEAN /\ wSeen' \in BOOLEAN
      /\ (awSeen' <=> awSeen \/ AwTaken(aw)) /\ (wSeen' <=> wSeen \/ WTaken(w))
  BY <1>2, <1>3 DEF Answered
<1>8. Body(txn[1])' = Body(txn[1]) /\ AbortAccess' = AbortAccess /\ txn' = txn
  BY <1>2 DEF Body, AbortAccess
<1>9. pc' = pc /\ Access' = Access
  BY <1>2, AccessKept
<1>10. (awSeen' => wrAddr' = txn[1].addr) /\ (wSeen' => wrData' = Body(txn[1]))
  BY <1>2, <1>3, <1>5, <1>6, <1>7 DEF BusShape
<1>11. /\ wstate' \in WStates
       /\ wstate = "W_PULSE" => wstate' = "W_WAIT"
       /\ wstate = "W_WAIT" => wstate' = IF dbHold THEN "W_WAIT" ELSE "W_RESP"
       /\ wstate = "W_IDLE" =>
            wstate' = IF (awSeen \/ AwTaken(aw)) /\ (wSeen \/ WTaken(w)) THEN "W_PULSE" ELSE "W_IDLE"
  BY <1>2, <1>3 DEF BusShape, WStates, WStateAfter, WrStart, AfterPulse
<1>12. wstate' # "W_IDLE" => awSeen' /\ wSeen'
  BY <1>2, <1>7, <1>11 DEF BusShape
<1>13. txn = <<AbortAccess>> \/ (pc # "OUT" /\ txn = <<Access>>)
  BY <1>2 DEF BusShape
<1>14. BusShape'
  BY <1>2, <1>4, <1>7, <1>8, <1>9, <1>10, <1>11, <1>12, <1>13 DEF BusShape, RStates
<1> QED
  BY <1>2, <1>4, <1>11, <1>14

LEMMA BusRead ==
  ASSUME BusShape, TransferRead
  PROVE  BusShape' /\ wstate = "W_IDLE" /\ wstate' = "W_IDLE"
<1>1. PICK ar \in Offer(txn[1].addr, rstate = "R_IDLE"), sets \in Events :
        Wires(<<>>, <<>>, FALSE, ar, FALSE, sets)
  BY DEF TransferRead, Transfer
<1>2. txn # <<>> /\ ~txn[1].write /\ UNCHANGED <<txn, callVars>>
  BY DEF TransferRead, Transfer
<1>3. /\ wstate' = WStateAfter(<<>>, <<>>, FALSE, dbHold)
      /\ awSeen' = ((awSeen \/ AwTaken(<<>>)) /\ ~Answered(FALSE))
      /\ wSeen' = ((wSeen \/ WTaken(<<>>)) /\ ~Answered(FALSE))
      /\ rstate' = RStateAfter(ar, FALSE)
      /\ rdAddr' = IF ArTaken(ar) THEN ar[1] ELSE rdAddr
  BY <1>1, SlaveEdge
<1>4. wstate = "W_IDLE" /\ ~awSeen /\ ~wSeen
  BY <1>2 DEF BusShape
<1>5. /\ wstate' = "W_IDLE" /\ ~awSeen' /\ ~wSeen'
      /\ awSeen' \in BOOLEAN /\ wSeen' \in BOOLEAN
  BY <1>3, <1>4 DEF WStateAfter, WrStart, AwTaken, WTaken, Answered
<1>6. pc' = pc /\ Access' = Access /\ AbortAccess' = AbortAccess /\ txn' = txn
  BY <1>2, AccessKept DEF AbortAccess
<1>7. txn = <<Access>> /\ pc # "OUT" /\ pc \in Places
  BY <1>2 DEF BusShape, AbortAccess, WriteOf
<1>8. txn[1].addr = STATUS
  BY <1>2, <1>7, AccessIs
<1>9. rstate' \in RStates
  BY <1>3 DEF BusShape, RStates, RStateAfter
<1>10. rstate' # "R_IDLE" => rdAddr' = STATUS
  BY <1>1, <1>2, <1>3, <1>8 DEF BusShape, Offer, ArTaken, RStateAfter
<1> QED
  BY <1>2, <1>4, <1>5, <1>6, <1>7, <1>9, <1>10 DEF BusShape, WStates

LEMMA BusComplete ==
  ASSUME BusShape, Complete
  PROVE  /\ BusShape' /\ txn' = <<>> /\ wstate' = "W_IDLE"
         /\ txn # <<>> /\ txn[1].write => wstate = "W_RESP"
         /\ ~txn[1].write => wstate = "W_IDLE" /\ rstate = "R_RESP"
         /\ pc' \in Places
<1>1. PICK sets \in Events : Wires(<<>>, <<>>, TRUE, <<>>, TRUE, sets)
  BY DEF Complete
<1>2. txn # <<>> /\ txn' = <<>> /\ (wstate = "W_RESP" \/ rstate = "R_RESP")
  BY DEF Complete
<1>3. /\ wstate' = WStateAfter(<<>>, <<>>, TRUE, dbHold)
      /\ awSeen' = ((awSeen \/ AwTaken(<<>>)) /\ ~Answered(TRUE))
      /\ wSeen' = ((wSeen \/ WTaken(<<>>)) /\ ~Answered(TRUE))
      /\ rstate' = RStateAfter(<<>>, TRUE)
  BY <1>1, SlaveEdge
<1>4. /\ txn[1].write => wstate = "W_RESP" /\ rstate = "R_IDLE"
      /\ ~txn[1].write => wstate = "W_IDLE" /\ ~awSeen /\ ~wSeen /\ rstate = "R_RESP"
  BY <1>2 DEF BusShape
<1>5. /\ wstate' = "W_IDLE" /\ ~awSeen' /\ ~wSeen' /\ rstate' = "R_IDLE"
      /\ awSeen' \in BOOLEAN /\ wSeen' \in BOOLEAN
  BY <1>3, <1>4 DEF WStateAfter, WrStart, AwTaken, WTaken, Answered, RStateAfter, ArTaken
<1>6. pc' \in Places
  <2>1. CASE txn[1].by = "driver"
    <3>1. Resume(rdData) /\ pc # "OUT" /\ pc \in Places
      BY <1>2, <2>1 DEF Complete, BusShape, AbortAccess, WriteOf
    <3> QED
      BY <3>1 DEF Resume, Goto, Leave, Poll, Places, BusShape
  <2>2. CASE txn[1].by # "driver"
    BY <2>2 DEF Complete, callVars, BusShape
  <2> QED
    BY <2>1, <2>2
<1> QED
  BY <1>2, <1>4, <1>5, <1>6 DEF BusShape, WStates, RStates

LEMMA BusKept ==
  ASSUME BusShape, HostNext
  PROVE  BusShape'
BY BusIssue, BusEnter, BusWrite, BusRead, BusComplete DEF HostNext

LEMMA EndsAre ==
  ASSUME NEW e \in Ends
  PROVE  /\ e \subseteq Sticky \ {ERR_BUSY} /\ ERR_PARAM \notin e /\ BUSY \notin e
         /\ e \cap ErrMask # {} => e \subseteq RunErrors
         /\ e # {} /\ e # Zero
BY DEF Ends, Sticky, RunErrors, ERR_BUSY, ERR_PARAM, DONE, ABORTED, BUSY, ErrMask, Zero

\* The outcome of the doorbell stands while the block goes on or ends.
LEMMA OutcomeKept ==
  ASSUME NEW sets, Quietly(sets), pc # "CONFIGURE", want' = want
  PROVE  (Began => Began') /\ (Rejected => Rejected')
<1>1. Began => Began'
  <2> SUFFICES ASSUME Began PROVE Began'
    OBVIOUS
  <2>1. begun' /\ ranWanted' /\ sticky' = own'
    BY DEF Began, Quietly
  <2>2. CASE running
    <3>1. own = {} /\ own' = sets
      BY <2>2 DEF Began, Quietly
    <3> QED
      BY <2>1, <2>2, <3>1 DEF Began, Quietly
  <2>3. CASE ~running
    <3>1. own \in Ends /\ own' = own /\ ~running'
      BY <2>3 DEF Began, Quietly
    <3> QED
      BY <2>1, <3>1 DEF Began
  <2> QED
    BY <2>2, <2>3
<1>2. Rejected => Rejected'
  BY DEF Rejected, Quietly, ErrParam, Zero, Above
<1> QED
  BY <1>1, <1>2

LEMMA StickyKept ==
  ASSUME NEW sets, Quietly(sets), sticky \subseteq Sticky \ {ERR_BUSY}
  PROVE  sticky' \subseteq Sticky \ {ERR_BUSY}
<1>1. sets \subseteq Sticky \ {ERR_BUSY}
  BY EndsAre DEF Quietly
<1> QED
  BY <1>1 DEF Quietly

\* A quiet edge on which no access ends.
LEMMA StillKept ==
  ASSUME ControlInv, HostInv, NEW sets, Quietly(sets), UNCHANGED callVars, ~Pending,
         Sent' <=> Sent,
         Mine' /\ wstate' = "W_RESP" => Mine /\ wstate \in {"W_WAIT", "W_RESP"},
         ~(Mine' /\ wstate' = "W_WAIT")
  PROVE  Configured' /\ Phases' /\ Results'
<1>1. UNCHANGED <<pc, step, want, result, timedOut>>
  BY DEF callVars
<1>2. Configured'
  <2>1. \A j : StepDone(j)' <=> StepDone(j)
    BY <1>1 DEF StepDone
  <2>2. config' = config
    BY DEF Quietly
  <2> QED
    BY <1>1, <2>1, <2>2 DEF HostInv, Configured, Written
<1>3. ~Pending'
  BY DEF Pending, Quietly
<1>4. Idle' => ~Busy'
  <2>1. Idle' /\ pc # "ABORT" => Idle
    BY <1>1 DEF Idle
  <2>2. Idle' /\ pc = "ABORT" => Idle \/ (Mine /\ wstate = "W_WAIT")
    BY <1>1 DEF Idle
  <2>3. Idle => ~running
    BY DEF HostInv, Phases, Busy
  <2>4. pc = "ABORT" /\ Mine /\ wstate = "W_WAIT" => abort
    BY DEF HostInv, Phases
  <2>5. Idle' => ~running'
    BY <2>1, <2>2, <2>3, <2>4 DEF Quietly
  <2> QED
    BY <2>5, <1>3 DEF Busy, Pending
<1>5. pc = "CLEAR" => ~begun'
  BY DEF HostInv, Phases, Quietly
<1>6. ~running /\ pc # "CONFIGURE" => sticky' = sticky /\ own' = own /\ (begun' <=> begun) /\ sets = {}
  BY DEF Quietly
<1>7. pc = "CLEAR" /\ Sent => sticky' = Zero
  <2>1. pc = "CLEAR" => ~running
    BY DEF HostInv, Phases, Idle, Busy
  <2> QED
    BY <1>6, <2>1 DEF HostInv, Phases
<1>8. pc = "RING" /\ ~Sent => ~begun' /\ sticky' = Zero
  <2>1. pc = "RING" /\ ~Sent => ~running
    BY DEF HostInv, Phases, Idle, Busy
  <2> QED
    BY <1>6, <2>1 DEF HostInv, Phases
<1>9. pc = "RING" /\ Sent => Began' \/ Rejected'
  BY <1>1, OutcomeKept DEF HostInv, Phases
<1>10. pc = "CHECK" => Began' \/ Rejected'
  BY <1>1, OutcomeKept DEF HostInv, Phases
<1>11. pc = "POLL" => Began'
  BY <1>1, OutcomeKept DEF HostInv, Phases
<1>12. pc = "FINISH" => begun' /\ ranWanted' /\ result.flags = own'
  <2>1. pc = "FINISH" => ~running
    BY DEF HostInv, Phases, Idle, Busy
  <2> QED
    BY <1>6, <2>1 DEF HostInv, Phases, Quietly
<1>13. Phases'
  BY <1>1, <1>3, <1>4, <1>5, <1>7, <1>8, <1>9, <1>10, <1>11, <1>12 DEF Phases
<1>14. sticky' \subseteq Sticky \ {ERR_BUSY}
  BY StickyKept DEF HostInv, Results
<1>15. ReturnsOwnResult'
  <2>1. result.kind \in {"RETURNED", "RAISED"} => ~running /\ pc # "CONFIGURE"
    BY DEF HostInv, Results, Phases, Idle, Busy
  <2>2. ReturnsOwnResult /\ ranWanted' = ranWanted
    BY DEF HostInv, Results, Quietly
  <2>3. ERR_BUSY \notin sticky'
    BY <1>14
  <2>4. ErrParam(want)' <=> ErrParam(want)
    BY <1>1 DEF ErrParam, Above, Zero
  <2> QED
    BY <1>1, <1>6, <2>1, <2>2, <2>3, <2>4 DEF ReturnsOwnResult
<1>16. Results'
  BY <1>1, <1>14, <1>15 DEF HostInv, Results
<1> QED
  BY <1>2, <1>13, <1>16

LEMMA IssueKept ==
  ASSUME ControlInv, HostInv, Rest \/ Issue \/ IssueAbort
  PROVE  HostInv'
<1>1. PICK sets \in Events : Between(sets)
  BY DEF Rest, Issue, IssueAbort
<1>2. txn = <<>> /\ UNCHANGED callVars
  BY DEF Rest, Issue, IssueAbort, Between
<1>3. wstate = "W_IDLE" /\ wstate' = "W_IDLE" /\ rstate' = "R_IDLE"
  BY <1>1, <1>2, IdleSlave DEF HostInv, BusShape
<1>4. ~dbPending /\ ~doorbell
  BY <1>3, QuietBus
<1>5. Quietly(sets)
  BY <1>1, <1>3, <1>4, QuietEdge DEF Between
<1>6. ~Sent /\ ~Sent'
  BY <1>3 DEF Sent
<1>7. Configured' /\ Phases' /\ Results'
  BY <1>2, <1>3, <1>4, <1>5, <1>6, StillKept DEF Pending
<1>8. Fetched'
  BY <1>3 DEF Fetched
<1>9. BusShape'
  BY BusIssue DEF HostInv
<1> QED
  BY <1>7, <1>8, <1>9 DEF HostInv

\* A call begins only while no block runs: the caller answered the timeout.
LEMMA EnterKept ==
  ASSUME AbortsOnTimeout, ControlInv, HostInv, Enter
  PROVE  HostInv'
<1>1. PICK sets \in Events : Between(sets)
  BY DEF Enter
<1>2. txn = <<>> /\ txn' = <<>> /\ pc = "OUT"
  BY DEF Enter, Between, Call, Recover
<1>3. wstate = "W_IDLE" /\ wstate' = "W_IDLE" /\ rstate' = "R_IDLE"
  BY <1>1, <1>2, IdleSlave DEF HostInv, BusShape
<1>4. ~dbPending /\ ~doorbell
  BY <1>3, QuietBus
<1>5. Quietly(sets)
  BY <1>1, <1>3, <1>4, QuietEdge DEF Between
<1>6. ~Sent' /\ ~Mine' /\ ~Pending'
  BY <1>2, <1>5 DEF Sent, Mine, Pending, Quietly
<1>7. sticky' \subseteq Sticky \ {ERR_BUSY} /\ config' = config
  BY <1>5, StickyKept DEF HostInv, Results, Quietly
<1>8. CASE Call
  <2>1. pc' = "CONFIGURE" /\ step' = 1 /\ want' \in Wanted /\ result'.kind = "NONE" /\ ~timedOut
    BY <1>8 DEF Call
  <2>2. ~running' /\ ~Busy'
    BY <1>2, <1>5, <1>6, <2>1 DEF HostInv, Phases, Idle, Busy, Quietly, Pending
  <2>3. 1 \in DOMAIN ConfigOrder /\ \A j \in DOMAIN ConfigOrder : ~(j < 1)
    BY HostAssumption
  <2>4. Configured'
    BY <1>6, <1>7, <2>1, <2>3 DEF HostInv, Configured, Written, StepDone
  <2>5. Phases'
    BY <1>6, <2>1, <2>2 DEF Phases
  <2>6. Results'
    BY <1>7, <2>1 DEF Results, ReturnsOwnResult
  <2>7. Fetched' /\ BusShape'
    BY <1>6, BusEnter DEF Fetched, HostInv
  <2> QED
    BY <2>4, <2>5, <2>6, <2>7 DEF HostInv
<1>9. CASE Recover
  <2>1. pc' = "ABORT" /\ timedOut /\ UNCHANGED <<want, result, timedOut, step>>
    BY <1>9 DEF Recover
  <2>2. result.kind = "TIMEOUT"
    BY <1>2, <2>1 DEF HostInv, Results
  <2>3. Configured'
    BY <1>7, <2>1 DEF HostInv, Configured, Written
  <2>4. Phases'
    BY <1>6, <2>1 DEF Phases, Idle
  <2>5. Results'
    BY <1>7, <2>1, <2>2 DEF Results, ReturnsOwnResult
  <2>6. Fetched' /\ BusShape'
    BY <1>6, BusEnter DEF Fetched, HostInv
  <2> QED
    BY <2>3, <2>4, <2>5, <2>6 DEF HostInv
<1> QED
  BY <1>8, <1>9 DEF Enter

\* A word shown stays what it was while the block goes on.
LEMMA ShownKept ==
  ASSUME NEW sets, Quietly(sets), pc # "CONFIGURE", NEW s, Shown(s)
  PROVE  Shown(s)'
BY DEF Shown, Quietly

\* The word the decoder answers a STATUS read with.
LEMMA StatusWord ==
  ASSUME NEW aw, NEW w, NEW bready, NEW ar, NEW rready, NEW sets,
         Wires(aw, w, bready, ar, rready, sets), rstate = "R_PULSE", rdAddr = STATUS
  PROVE  rdDataAns' = sticky \cup (IF Busy THEN {BUSY} ELSE {})
<1>1. rdDataAns' = IF ReadRequest = <<>> \/ ~Mapped(ReadRequest[1]) THEN Zero
                   ELSE ReadWord(ReadRequest[1], Busy, Zero)
  BY DEF Wires, Edge, RegsEdge
<1>2. ReadRequest # <<>> /\ ReadRequest[1] = STATUS
  BY DEF ReadRequest
<1>3. Mapped(STATUS)
  BY DEF Mapped, STATUS
<1>4. ReadWord(STATUS, Busy, Zero) = sticky \cup (IF Busy THEN {BUSY} ELSE {})
  BY DEF ReadWord, STATUS, IRQ_EN, IRQ_STATUS, DBG_SEL, ConfigAddrs, LiveAddrs,
         SYMBOL_LIMIT, BYTES_LIMIT, USED
<1> QED
  BY <1>1, <1>2, <1>3, <1>4

LEMMA ReadKept ==
  ASSUME ControlInv, HostInv, TransferRead
  PROVE  HostInv'
<1>1. PICK ar \in Offer(txn[1].addr, rstate = "R_IDLE"), sets \in Events :
        Wires(<<>>, <<>>, FALSE, ar, FALSE, sets)
  BY DEF TransferRead, Transfer
<1>2. BusShape' /\ wstate = "W_IDLE" /\ wstate' = "W_IDLE"
  BY BusRead DEF HostInv
<1>3. txn # <<>> /\ ~txn[1].write /\ txn' = txn /\ UNCHANGED callVars /\ rstate # "R_RESP"
  BY DEF TransferRead, Transfer, InFlight
<1>4. ~dbPending /\ ~doorbell
  BY <1>2, QuietBus
<1>5. Quietly(sets)
  BY <1>1, <1>2, <1>4, QuietEdge
<1>6. ~Sent /\ ~Sent'
  BY <1>2 DEF Sent
<1>7. Configured' /\ Phases' /\ Results'
  BY <1>2, <1>4, <1>5, <1>6, <1>3, StillKept DEF Pending
<1>8. Fetched'
  <2> SUFFICES ASSUME Mine, pc \in {"CHECK", "POLL"}
               PROVE  /\ rstate' = "R_CAPT" => Shown(rdDataAns)'
                      /\ rstate' = "R_RESP" => Shown(rdData)'
    BY <1>3 DEF Fetched, Mine, callVars
  <2>1. /\ rstate' = RStateAfter(ar, FALSE)
        /\ rdData' = IF CapturesAnswer THEN rdDataAns ELSE rdData
    BY <1>1, SlaveEdge
  <2>2. ASSUME rstate' = "R_RESP" PROVE Shown(rdData)'
    <3>1. rstate = "R_CAPT" /\ rdData' = rdDataAns
      BY <1>3, <2>1, <2>2 DEF HostInv, BusShape, RStates, RStateAfter, CapturesAnswer
    <3>2. Shown(rdDataAns)
      BY <3>1 DEF HostInv, Fetched
    <3> QED
      BY <1>5, <3>1, <3>2 DEF Shown, Quietly
  <2>3. ASSUME rstate' = "R_CAPT" PROVE Shown(rdDataAns)'
    <3>1. rstate = "R_PULSE"
      BY <1>3, <2>1, <2>3 DEF HostInv, BusShape, RStates, RStateAfter
    <3>2. rdAddr = STATUS
      BY <1>3, <3>1 DEF HostInv, BusShape
    <3>3. rdDataAns' = sticky \cup (IF Busy THEN {BUSY} ELSE {})
      BY <1>1, <3>1, <3>2, StatusWord
    <3>4. Began \/ Rejected
      BY DEF HostInv, Phases
    <3>5. Busy <=> running
      BY <1>4 DEF Busy
    <3> QED
      BY <1>5, <3>3, <3>4, <3>5 DEF Shown, Quietly, Began, Rejected
  <2> QED
    BY <2>2, <2>3
<1> QED
  BY <1>2, <1>7, <1>8 DEF HostInv

-----------------------------------------------------------------------------
\* The writes, as the decoder sees them on the edge of the pulse.
LEMMA PulseSees ==
  ASSUME BusShape, txn # <<>>, txn[1].write, wstate = "W_PULSE"
  PROVE  WriteRequest = <<[addr |-> txn[1].addr, data |-> txn[1].data, strb |-> AllLanes]>>
<1>1. wrAddr = txn[1].addr /\ wrData = Body(txn[1])
  BY DEF BusShape
<1> QED
  BY <1>1 DEF WriteRequest, Body

LEMMA WholeWord ==
  ASSUME NEW old, old \subseteq 0..31, NEW d, d \subseteq 0..31
  PROVE  ApplyStrb(old, d, AllLanes) = d
<1>1. \A b \in 0..31 : b \div 8 \in AllLanes
  BY DEF AllLanes
<1> QED
  BY <1>1 DEF ApplyStrb

\* The edge of a pulse with no doorbell under way: wr is the request.
LEMMA PulseEdge ==
  ASSUME ControlInv, wstate = "W_PULSE",
         NEW aw, NEW w, NEW bready, NEW ar, NEW rready, NEW sets,
         Wires(aw, w, bready, ar, rready, sets)
  PROVE  /\ config' = ConfigAfter(WriteRequest, Busy)
         /\ sticky' = ((sticky \cup sets) \ Cleared(WriteRequest))
                        \cup (IF Refused(WriteRequest, Busy) THEN {ERR_BUSY} ELSE {})
         /\ dbPending' = Decides(WriteRequest, Busy) /\ ~doorbell'
         /\ abort' = Aborts(WriteRequest)
         /\ (Busy <=> running)
         /\ ~running => ~running' /\ sets = {}
         /\ running => (running' /\ sets = {}) \/ (~running' /\ sets \in Ends)
         /\ running /\ abort => ~running'
         /\ begun' <=> (begun /\ pc # "CONFIGURE")
         /\ ranWanted' = ranWanted /\ own' = own \cup sets
<1>1. Edge(aw, w, bready, ar, rready, sets, Zero) /\ OwnAfter(sets)
  BY DEF Wires
<1>2. ~dbPending /\ ~doorbell /\ running \in BOOLEAN
  BY DEF ControlInv, DecisionWaits, PulseWaits, Flags
<1>3. ~Rejects
  BY <1>2 DEF Rejects
<1>4. running' = RunningAfter(sets) /\ sets \in Events
  BY <1>1 DEF Edge
<1>5. RunningAfter(sets) = IF running THEN sets = {} ELSE FALSE
  BY <1>2 DEF RunningAfter, NoEvent, ControlInv, Flags
<1>6. {} \notin Ends
  BY DEF Ends
<1>7. /\ ~running => ~running' /\ sets = {}
      /\ running => (running' /\ sets = {}) \/ (~running' /\ sets \in Ends)
      /\ running /\ abort => ~running'
  BY <1>4, <1>5, <1>6, EventsAre
<1>8. (begun' <=> (begun /\ pc # "CONFIGURE")) /\ ranWanted' = ranWanted /\ own' = own \cup sets
  BY <1>1, <1>2 DEF OwnAfter
<1>9. /\ config' = ConfigAfter(WriteRequest, Busy)
      /\ sticky' = StickyAfter(WriteRequest, Busy, sets)
      /\ dbPending' = Decides(WriteRequest, Busy)
      /\ doorbell' = (dbPending /\ ~ErrParam(config))
      /\ abort' = Aborts(WriteRequest)
  BY <1>1 DEF Edge, RegsEdge, AbortAfter
<1>10. sticky' = ((sticky \cup sets) \ Cleared(WriteRequest))
                        \cup (IF Refused(WriteRequest, Busy) THEN {ERR_BUSY} ELSE {})
  BY <1>3, <1>9 DEF StickyAfter
<1> QED
  BY <1>2, <1>7, <1>8, <1>9, <1>10 DEF Busy

\* An abort write: as quiet as no write at all, but the pulse is on its way.
LEMMA AbortPulse ==
  ASSUME ControlInv, BusShape, wstate = "W_PULSE", txn # <<>>, txn[1].write,
         txn[1].addr = CTRL, txn[1].data = {ABORT},
         NEW aw, NEW w, NEW bready, NEW ar, NEW rready, NEW sets,
         Wires(aw, w, bready, ar, rready, sets)
  PROVE  Quietly(sets) /\ abort'
<1>1. WriteRequest = <<[addr |-> CTRL, data |-> {ABORT}, strb |-> AllLanes]>>
  BY PulseSees
<1>2. Aborts(WriteRequest) /\ ~Rings(WriteRequest)
  BY <1>1 DEF Aborts, Rings, Controls, Hits, AllLanes, ABORT, DOORBELL
<1>3. Cleared(WriteRequest) = {} /\ ~Configures(WriteRequest)
  BY <1>1 DEF Cleared, Hits, Configures, CTRL, STATUS, ConfigAddrs, SYMBOL_LIMIT, BYTES_LIMIT,
              USED, Zero
<1>4. ~Refused(WriteRequest, Busy) /\ ~Decides(WriteRequest, Busy)
      /\ ConfigAfter(WriteRequest, Busy) = config
  BY <1>2, <1>3 DEF Refused, Decides, ConfigAfter
<1>5. /\ config' = config /\ sticky' = sticky \cup sets /\ ~dbPending' /\ ~doorbell' /\ abort'
      /\ ~running => ~running' /\ sets = {}
      /\ running => (running' /\ sets = {}) \/ (~running' /\ sets \in Ends)
      /\ running /\ abort => ~running'
      /\ begun' <=> (begun /\ pc # "CONFIGURE")
      /\ ranWanted' = ranWanted /\ own' = own \cup sets
  <2>1. /\ config' = ConfigAfter(WriteRequest, Busy)
        /\ sticky' = ((sticky \cup sets) \ Cleared(WriteRequest))
                        \cup (IF Refused(WriteRequest, Busy) THEN {ERR_BUSY} ELSE {})
        /\ dbPending' = Decides(WriteRequest, Busy) /\ ~doorbell'
        /\ abort' = Aborts(WriteRequest)
        /\ ~running => ~running' /\ sets = {}
        /\ running => (running' /\ sets = {}) \/ (~running' /\ sets \in Ends)
        /\ running /\ abort => ~running'
        /\ begun' <=> (begun /\ pc # "CONFIGURE")
        /\ ranWanted' = ranWanted /\ own' = own \cup sets
    BY PulseEdge
  <2>2. sticky' = sticky \cup sets
    BY <1>3, <1>4, <2>1
  <2> QED
    BY <1>2, <1>4, <2>1, <2>2
<1> QED
  BY <1>5 DEF Quietly

\* The other writes meet an idle engine.
LEMMA IdlePulse ==
  ASSUME ControlInv, wstate = "W_PULSE", ~Busy,
         NEW aw, NEW w, NEW bready, NEW ar, NEW rready, NEW sets,
         Wires(aw, w, bready, ar, rready, sets)
  PROVE  /\ config' = ConfigAfter(WriteRequest, FALSE)
         /\ sticky' = sticky \ Cleared(WriteRequest)
         /\ (dbPending' <=> Rings(WriteRequest) /\ ~Aborts(WriteRequest)) /\ ~doorbell'
         /\ ~running /\ ~running' /\ begun' = (begun /\ pc # "CONFIGURE")
         /\ ranWanted' = ranWanted /\ own' = own
<1>1. /\ config' = ConfigAfter(WriteRequest, Busy)
      /\ sticky' = ((sticky \cup sets) \ Cleared(WriteRequest))
                        \cup (IF Refused(WriteRequest, Busy) THEN {ERR_BUSY} ELSE {})
      /\ dbPending' = Decides(WriteRequest, Busy) /\ ~doorbell'
      /\ (Busy <=> running)
      /\ ~running => ~running' /\ sets = {}
      /\ ranWanted' = ranWanted /\ own' = own \cup sets
  BY PulseEdge
<1>2. ~Refused(WriteRequest, Busy)
  BY DEF Refused
<1>3. ConfigAfter(WriteRequest, Busy) = ConfigAfter(WriteRequest, FALSE)
  BY DEF ConfigAfter
<1>4. Decides(WriteRequest, Busy) <=> Rings(WriteRequest) /\ ~Aborts(WriteRequest)
  BY DEF Decides
<1>5. begun' = (begun /\ pc # "CONFIGURE")
  <2>1. ~doorbell
    BY DEF Busy
  <2> QED
    BY <2>1 DEF Wires, OwnAfter
<1> QED
  BY <1>1, <1>2, <1>3, <1>4, <1>5

LEMMA CallResults ==
  ASSUME Results, pc # "OUT", UNCHANGED <<pc, result, timedOut>>,
         sticky' \subseteq Sticky \ {ERR_BUSY}
  PROVE  Results'
BY DEF Results, ReturnsOwnResult

\* One word of configure().
LEMMA ConfigurePulse ==
  ASSUME ControlInv, HostInv, wstate = "W_PULSE", pc = "CONFIGURE", txn = <<Access>>,
         txn' = txn, UNCHANGED callVars, wstate' = "W_WAIT",
         NEW aw, NEW w, NEW bready, NEW ar, NEW rready, NEW sets,
         Wires(aw, w, bready, ar, rready, sets)
  PROVE  Configured' /\ Phases' /\ Results'
<1>1. UNCHANGED <<pc, step, want, result, timedOut>>
  BY DEF callVars
<1>2. ~Busy
  BY DEF HostInv, Phases, Idle
<1> DEFINE a == ConfigOrder[step]
<1>3. step \in DOMAIN ConfigOrder /\ a \in ConfigAddrs /\ want \in [ConfigAddrs -> Word]
  BY HostAssumption DEF HostInv, Configured
<1>4. txn[1] = WriteOf(a, want[a], "driver")
  BY DEF Access
<1>5. WriteRequest = <<[addr |-> a, data |-> want[a], strb |-> AllLanes]>>
  BY <1>4, PulseSees DEF HostInv, WriteOf
<1> HIDE DEF a
<1>6. a # CTRL /\ a # STATUS
  BY <1>3 DEF ConfigAddrs, SYMBOL_LIMIT, BYTES_LIMIT, USED, CTRL, STATUS
<1>7. ~Rings(WriteRequest) /\ Cleared(WriteRequest) = {} /\ Configures(WriteRequest)
  BY <1>3, <1>5, <1>6 DEF Rings, Controls, Hits, Cleared, Configures, Zero
<1>8. config \in [ConfigAddrs -> Word]
  BY DEF HostInv, Configured
<1>9. Merged(config[a], WriteRequest) = want[a]
  <2>1. config[a] \subseteq 0..31 /\ want[a] \subseteq 0..31
    BY <1>3, <1>8 DEF Word
  <2> QED
    BY <1>5, <2>1, WholeWord DEF Merged
<1>10. config' = [config EXCEPT ![a] = want[a]] /\ sticky' = sticky /\ ~dbPending' /\ ~doorbell'
       /\ ~running' /\ ~begun'
  <2>1. ConfigAfter(WriteRequest, FALSE) = [config EXCEPT ![a] = want[a]]
    BY <1>5, <1>7, <1>9 DEF ConfigAfter
  <2> QED
    BY <1>2, <1>7, <2>1, IdlePulse
<1>11. Configured'
  <2>1. config' \in [ConfigAddrs -> Word]
    BY <1>3, <1>8, <1>10
  <2>2. ASSUME NEW b \in ConfigAddrs, ~Written(b) PROVE config'[b] = Zero
    <3>1. b # a /\ config[b] = Zero
      BY <1>3, <2>2 DEF Written, HostInv, Configured, a
    <3> QED
      BY <1>8, <1>10, <3>1
  <2>3. ASSUME NEW j \in DOMAIN ConfigOrder, StepDone(j)'
        PROVE  config'[ConfigOrder[j]] = want[ConfigOrder[j]]
    <3>1. CASE ConfigOrder[j] = a
      BY <1>3, <1>8, <1>10, <3>1
    <3>2. CASE ConfigOrder[j] # a
      <4>1. StepDone(j)
        BY <1>1, <2>3, <3>2 DEF StepDone, a
      <4>2. config[ConfigOrder[j]] = want[ConfigOrder[j]]
        BY <4>1 DEF HostInv, Configured
      <4>3. ConfigOrder[j] \in ConfigAddrs
        BY HostAssumption
      <4> QED
        BY <1>8, <1>10, <3>2, <4>2, <4>3
    <3> QED
      BY <3>1, <3>2
  <2> QED
    BY <1>1, <1>3, <2>1, <2>2, <2>3 DEF Configured, Written, HostInv
<1>12. Phases'
  BY <1>1, <1>10 DEF Phases, Pending, Busy
<1>13. Results'
  BY <1>1, <1>10, CallResults DEF HostInv, Results
<1> QED
  BY <1>11, <1>12, <1>13

\* clear(), before the doorbell and after the end.
LEMMA ClearPulse ==
  ASSUME ControlInv, HostInv, wstate = "W_PULSE", pc \in {"CLEAR", "FINISH"}, txn = <<Access>>,
         txn' = txn, UNCHANGED callVars, wstate' = "W_WAIT",
         NEW aw, NEW w, NEW bready, NEW ar, NEW rready, NEW sets,
         Wires(aw, w, bready, ar, rready, sets)
  PROVE  Configured' /\ Phases' /\ Results'
<1>1. UNCHANGED <<pc, step, want, result, timedOut>>
  BY DEF callVars
<1>2. ~Busy
  BY DEF HostInv, Phases, Idle
<1>3. txn[1] = WriteOf(STATUS, Sticky, "driver")
  BY DEF Access, StartClears
<1>4. WriteRequest = <<[addr |-> STATUS, data |-> Sticky, strb |-> AllLanes]>>
  BY <1>3, PulseSees DEF HostInv, WriteOf
<1>5. ~Rings(WriteRequest) /\ ~Configures(WriteRequest)
  BY <1>4 DEF Rings, Controls, Hits, Configures, CTRL, STATUS, ConfigAddrs, SYMBOL_LIMIT,
              BYTES_LIMIT, USED
<1>6. Cleared(WriteRequest) = Sticky
  <2>1. Sticky \subseteq 0..31 /\ {} \subseteq 0..31
    BY DEF Sticky, RunErrors, DONE, ABORTED, ERR_BUSY, ERR_PARAM
  <2>2. ApplyStrb({}, Sticky, AllLanes) = Sticky
    BY <2>1, WholeWord
  <2> QED
    BY <1>4, <2>2 DEF Cleared, Hits, Merged, Zero
<1>7. config' = config /\ sticky' = Zero /\ ~dbPending' /\ ~doorbell' /\ ~running'
      /\ (begun' <=> begun) /\ ranWanted' = ranWanted /\ own' = own
  <2>1. ConfigAfter(WriteRequest, FALSE) = config
    BY <1>5 DEF ConfigAfter
  <2>2. sticky \ Sticky = Zero
    BY DEF HostInv, Results, Zero
  <2> QED
    BY <1>2, <1>5, <1>6, <2>1, <2>2, IdlePulse
<1>8. Configured'
  BY <1>1, <1>7 DEF HostInv, Configured, Written
<1>9. Phases'
  BY <1>1, <1>7 DEF HostInv, Phases, Pending, Busy
<1>10. Results'
  <2>1. sticky' \subseteq Sticky \ {ERR_BUSY}
    BY <1>7 DEF Zero
  <2> QED
    BY <1>1, <2>1, CallResults DEF HostInv
<1> QED
  BY <1>8, <1>9, <1>10

\* The doorbell.
LEMMA RingPulse ==
  ASSUME ControlInv, HostInv, wstate = "W_PULSE", pc = "RING", txn = <<Access>>,
         txn' = txn, UNCHANGED callVars, wstate' = "W_WAIT",
         NEW aw, NEW w, NEW bready, NEW ar, NEW rready, NEW sets,
         Wires(aw, w, bready, ar, rready, sets)
  PROVE  Configured' /\ Phases' /\ Results'
<1>1. UNCHANGED <<pc, step, want, result, timedOut>>
  BY DEF callVars
<1>s. ~Sent
  BY DEF Sent
<1>2. ~Busy /\ ~begun /\ sticky = Zero
  BY <1>s DEF HostInv, Phases, Idle
<1>3. txn[1] = WriteOf(CTRL, {DOORBELL}, "driver")
  BY DEF Access
<1>4. WriteRequest = <<[addr |-> CTRL, data |-> {DOORBELL}, strb |-> AllLanes]>>
  BY <1>3, PulseSees DEF HostInv, WriteOf
<1>5. Rings(WriteRequest) /\ ~Aborts(WriteRequest)
  BY <1>4 DEF Aborts, Rings, Controls, Hits, AllLanes, ABORT, DOORBELL
<1>6. Cleared(WriteRequest) = {} /\ ~Configures(WriteRequest)
  BY <1>4 DEF Cleared, Hits, Configures, CTRL, STATUS, ConfigAddrs, SYMBOL_LIMIT, BYTES_LIMIT,
              USED, Zero
<1>7. config' = config /\ sticky' = Zero /\ dbPending' /\ ~doorbell' /\ ~running'
      /\ ~begun'
  <2>1. ConfigAfter(WriteRequest, FALSE) = config
    BY <1>6 DEF ConfigAfter
  <2> QED
    BY <1>2, <1>5, <1>6, <2>1, IdlePulse DEF Zero
<1>8. Configured'
  BY <1>1, <1>7 DEF HostInv, Configured, Written
<1>9. Mine' /\ Sent'
  BY <1>3 DEF Mine, Sent, WriteOf
<1>10. Phases'
  BY <1>1, <1>7, <1>9 DEF HostInv, Phases, Pending, Idle
<1>11. Results'
  <2>1. sticky' \subseteq Sticky \ {ERR_BUSY}
    BY <1>7 DEF Zero
  <2> QED
    BY <1>1, <2>1, CallResults DEF HostInv
<1> QED
  BY <1>8, <1>10, <1>11

\* The abort write of either coroutine.
LEMMA AbortKept ==
  ASSUME ControlInv, HostInv, wstate = "W_PULSE", txn = <<AbortAccess>> \/ pc = "ABORT",
         txn # <<>>, txn' = txn, UNCHANGED callVars, wstate' = "W_WAIT",
         NEW aw, NEW w, NEW bready, NEW ar, NEW rready, NEW sets,
         Wires(aw, w, bready, ar, rready, sets)
  PROVE  Configured' /\ Phases' /\ Results'
<1>1. UNCHANGED <<pc, step, want, result, timedOut>>
  BY DEF callVars
<1>2. txn = <<AbortAccess>> \/ (pc = "ABORT" /\ txn = <<Access>>)
  BY DEF HostInv, BusShape
<1>3. txn[1].write /\ txn[1].addr = CTRL /\ txn[1].data = {ABORT}
  BY <1>2 DEF AbortAccess, Access, WriteOf
<1>4. Quietly(sets) /\ abort'
  BY <1>3, AbortPulse DEF HostInv
<1>5. ~Sent /\ ~Pending
  BY DEF Sent, Pending, ControlInv, DecisionWaits, PulseWaits
<1>6. CASE txn = <<AbortAccess>>
  <2>1. ~Mine' /\ ~Sent'
    BY <1>6 DEF Mine, Sent, AbortAccess, WriteOf
  <2> QED
    BY <1>4, <1>5, <2>1, StillKept
<1>7. CASE pc = "ABORT"
  <2>1. config' = config /\ ~Pending'
    BY <1>4 DEF Quietly, Pending
  <2>2. Configured'
    BY <1>1, <1>7, <2>1 DEF HostInv, Configured, Written
  <2>3. Phases'
    BY <1>1, <1>4, <1>7, <2>1 DEF Phases, Idle
  <2>4. Results'
    BY <1>1, <1>4, <1>7, StickyKept, CallResults DEF HostInv, Results
  <2> QED
    BY <2>2, <2>3, <2>4
<1> QED
  BY <1>2, <1>6, <1>7

\* The decision: the block begins, or STATUS shows the rejection.
LEMMA DecisionKept ==
  ASSUME ControlInv, HostInv, dbPending, txn' = txn, UNCHANGED callVars, wstate' = "W_WAIT",
         NEW aw, NEW w, NEW bready, NEW ar, NEW rready, NEW sets,
         Wires(aw, w, bready, ar, rready, sets)
  PROVE  Configured' /\ Phases' /\ Results'
<1>1. UNCHANGED <<pc, step, want, result, timedOut>>
  BY DEF callVars
<1>2. Edge(aw, w, bready, ar, rready, sets, Zero) /\ OwnAfter(sets)
  BY DEF Wires
<1>3. wstate = "W_WAIT" /\ ~doorbell /\ ~running
  BY DEF ControlInv, DecisionWaits
<1>4. pc = "RING" /\ Sent /\ ~begun /\ sticky = Zero /\ config = want
  BY DEF HostInv, Phases, Pending, Configured
<1>5. WriteRequest = <<>>
  BY <1>3 DEF WriteRequest
<1>6. sets = {} /\ ~running'
  BY <1>2, <1>3, EventsAre DEF Edge, RunningAfter
<1>7. /\ config' = ConfigAfter(<<>>, Busy)
      /\ sticky' = StickyAfter(<<>>, Busy, {})
      /\ dbPending' = Decides(<<>>, Busy)
      /\ doorbell' = (dbPending /\ ~ErrParam(config))
  BY <1>2, <1>5, <1>6 DEF Edge, RegsEdge
<1>8. ~dbPending' /\ config' = config
  BY <1>7 DEF Decides, Rings, Controls, Hits, ConfigAfter, Configures
<1>9. sticky' = IF ErrParam(config) THEN {ERR_PARAM} ELSE Zero
  BY <1>4, <1>7 DEF StickyAfter, Cleared, Hits, Refused, Rings, Controls, Configures, Rejects, Zero
<1>10. doorbell' <=> ~ErrParam(config)
  BY <1>7
<1>11. ~begun'
  BY <1>2, <1>3, <1>4 DEF OwnAfter
<1>12. Sent'
  BY <1>4 DEF Sent, Mine
<1>13. ErrParam(want)' <=> ErrParam(config)
  BY <1>1, <1>4 DEF ErrParam, Above, Zero
<1>14. Configured'
  <2>1. pc' = "RING" /\ config' = want' /\ config' = config /\ want' = want
    BY <1>1, <1>4, <1>8
  <2>2. config \in [ConfigAddrs -> Word] /\ want \in Wanted
        /\ \A a \in ConfigAddrs : Written(a) \/ config[a] = Zero
    BY DEF HostInv, Configured
  <2> QED
    BY <2>1, <2>2 DEF Configured, Written
<1>15. Phases'
  <2>1. Pending' => ~begun' /\ sticky' = Zero
    BY <1>8, <1>9, <1>10, <1>11 DEF Pending
  <2>2. ~Pending' => Rejected'
    BY <1>6, <1>8, <1>9, <1>10, <1>11, <1>13 DEF Pending, Rejected
  <2> QED
    BY <1>1, <1>4, <1>6, <1>12, <2>1, <2>2 DEF Phases, Idle
<1>16. Results'
  <2>1. sticky' \subseteq Sticky \ {ERR_BUSY}
    BY <1>9 DEF Zero, Sticky, RunErrors, ERR_BUSY, ERR_PARAM
  <2> QED
    BY <1>1, <1>4, <2>1, CallResults DEF HostInv
<1> QED
  BY <1>14, <1>15, <1>16

\* The pulse: the call's own block begins, on the wanted configuration.
LEMMA PulseKept ==
  ASSUME ControlInv, HostInv, doorbell, txn' = txn, UNCHANGED callVars, wstate' = "W_RESP",
         NEW aw, NEW w, NEW bready, NEW ar, NEW rready, NEW sets,
         Wires(aw, w, bready, ar, rready, sets)
  PROVE  Configured' /\ Phases' /\ Results'
<1>1. UNCHANGED <<pc, step, want, result, timedOut>>
  BY DEF callVars
<1>2. Edge(aw, w, bready, ar, rready, sets, Zero) /\ OwnAfter(sets)
  BY DEF Wires
<1>3. wstate = "W_WAIT" /\ ~dbPending /\ ~running /\ doorbell = TRUE
  BY DEF ControlInv, PulseWaits, Flags
<1>4. pc = "RING" /\ Sent /\ ~begun /\ sticky = Zero /\ config = want
  BY DEF HostInv, Phases, Pending, Configured
<1>5. WriteRequest = <<>>
  BY <1>3 DEF WriteRequest
<1>6. sets = {} /\ running'
  BY <1>2, <1>3, EventsAre DEF Edge, RunningAfter
<1>7. /\ config' = ConfigAfter(<<>>, Busy)
      /\ sticky' = StickyAfter(<<>>, Busy, {})
      /\ dbPending' = Decides(<<>>, Busy)
      /\ doorbell' = (dbPending /\ ~ErrParam(config))
  BY <1>2, <1>5, <1>6 DEF Edge, RegsEdge
<1>8. ~dbPending' /\ ~doorbell' /\ config' = config
  BY <1>3, <1>7 DEF Decides, Rings, Controls, Hits, ConfigAfter, Configures
<1>9. sticky' = Zero
  BY <1>3, <1>4, <1>7 DEF StickyAfter, Cleared, Hits, Refused, Rings, Controls, Configures,
     Rejects, Zero
<1>10. begun' /\ ranWanted' = (config = want) /\ own' = {}
  BY <1>2, <1>3 DEF OwnAfter
<1>11. Sent'
  BY <1>4 DEF Sent, Mine
<1>12. Began'
  BY <1>4, <1>6, <1>9, <1>10 DEF Began, Zero
<1>13. Configured'
  <2>1. pc' = "RING" /\ config' = want' /\ config' = config /\ want' = want
    BY <1>1, <1>4, <1>8
  <2>2. config \in [ConfigAddrs -> Word] /\ want \in Wanted
        /\ \A a \in ConfigAddrs : Written(a) \/ config[a] = Zero
    BY DEF HostInv, Configured
  <2> QED
    BY <2>1, <2>2 DEF Configured, Written
<1>14. Phases'
  BY <1>1, <1>4, <1>8, <1>11, <1>12 DEF Phases, Idle, Pending
<1>15. Results'
  <2>1. sticky' \subseteq Sticky \ {ERR_BUSY}
    BY <1>9 DEF Zero
  <2> QED
    BY <1>1, <1>4, <2>1, CallResults DEF HostInv
<1> QED
  BY <1>13, <1>14, <1>15

LEMMA WriteKept ==
  ASSUME ControlInv, HostInv, TransferWrite
  PROVE  HostInv'
<1>1. PICK aw \in Offer(txn[1].addr, AwReady), w \in Offer(Body(txn[1]), WReady), sets \in Events :
        Wires(aw, w, FALSE, <<>>, FALSE, sets)
  BY DEF TransferWrite, Transfer
<1>2. txn # <<>> /\ txn[1].write /\ txn' = txn /\ UNCHANGED callVars
  BY DEF TransferWrite, Transfer
<1>3. /\ BusShape'
      /\ wstate = "W_PULSE" => wstate' = "W_WAIT"
      /\ wstate = "W_WAIT" => wstate' = IF dbHold THEN "W_WAIT" ELSE "W_RESP"
      /\ wstate = "W_IDLE" => wstate' \in {"W_IDLE", "W_PULSE"}
      /\ wstate # "W_RESP" /\ rstate' = "R_IDLE"
  BY BusWrite DEF HostInv
<1>4. Fetched'
  BY <1>3 DEF Fetched
<1>5. CASE wstate = "W_IDLE"
  <2>1. ~dbPending /\ ~doorbell
    BY <1>5, QuietBus
  <2>2. Quietly(sets)
    BY <1>1, <1>5, <2>1, QuietEdge
  <2>3. ~Sent /\ ~Sent' /\ wstate' # "W_RESP" /\ wstate' # "W_WAIT"
    BY <1>3, <1>5 DEF Sent
  <2> QED
    BY <1>2, <1>3, <1>4, <2>1, <2>2, <2>3, StillKept DEF Pending, HostInv
<1>6. CASE wstate = "W_PULSE"
  <2>1. txn = <<AbortAccess>> \/ (pc \in Places \ {"OUT"} /\ txn = <<Access>>)
    BY <1>2 DEF HostInv, BusShape
  <2>2. wstate' = "W_WAIT"
    BY <1>3, <1>6
  <2>3. txn = <<Access>> /\ pc \in Places \ {"OUT"} => pc \notin {"CHECK", "POLL"}
    BY <1>2, AccessIs
  <2>4. Configured' /\ Phases' /\ Results'
    <3>1. CASE txn = <<AbortAccess>> \/ pc = "ABORT"
      BY <1>1, <1>2, <1>6, <2>2, <3>1, AbortKept
    <3>2. CASE txn = <<Access>> /\ pc = "CONFIGURE"
      BY <1>1, <1>2, <1>6, <2>2, <3>2, ConfigurePulse
    <3>3. CASE txn = <<Access>> /\ pc \in {"CLEAR", "FINISH"}
      BY <1>1, <1>2, <1>6, <2>2, <3>3, ClearPulse
    <3>4. CASE txn = <<Access>> /\ pc = "RING"
      BY <1>1, <1>2, <1>6, <2>2, <3>4, RingPulse
    <3> QED
      BY <2>1, <2>3, <3>1, <3>2, <3>3, <3>4 DEF Places
  <2> QED
    BY <1>3, <1>4, <2>4 DEF HostInv
<1>7. CASE wstate = "W_WAIT"
  <2>1. CASE dbPending
    <3>1. wstate' = "W_WAIT"
      BY <1>3, <1>7, <2>1 DEF ControlInv, DecisionWaits
    <3> QED
      BY <1>1, <1>2, <1>3, <1>4, <2>1, <3>1, DecisionKept DEF HostInv
  <2>2. CASE doorbell
    <3>1. wstate' = "W_RESP"
      BY <1>3, <1>7, <2>2 DEF ControlInv, PulseWaits, HoldIsDecision
    <3> QED
      BY <1>1, <1>2, <1>3, <1>4, <2>2, <3>1, PulseKept DEF HostInv
  <2>3. CASE ~dbPending /\ ~doorbell
    <3>1. wstate' = "W_RESP"
      BY <1>3, <1>7, <2>3 DEF ControlInv, HoldIsDecision
    <3>2. Quietly(sets)
      BY <1>1, <1>7, <2>3, QuietEdge
    <3>3. (Sent' <=> Sent) /\ (Mine' <=> Mine)
      BY <1>2, <1>7, <3>1 DEF Sent, Mine
    <3> QED
      BY <1>2, <1>3, <1>4, <1>7, <2>3, <3>1, <3>2, <3>3, StillKept DEF Pending, HostInv
  <2> QED
    BY <2>1, <2>2, <2>3
<1> QED
  BY <1>3, <1>5, <1>6, <1>7 DEF HostInv, BusShape, WStates

-----------------------------------------------------------------------------
\* An access ends, of the other coroutine or of the call.
LEMMA CompleteKept ==
  ASSUME ControlInv, HostInv, Complete
  PROVE  HostInv'
<1>1. PICK sets \in Events : Wires(<<>>, <<>>, TRUE, <<>>, TRUE, sets)
  BY DEF Complete
<1>2. /\ BusShape' /\ txn' = <<>> /\ wstate' = "W_IDLE"
      /\ txn # <<>> /\ txn[1].write => wstate = "W_RESP"
      /\ ~txn[1].write => wstate = "W_IDLE" /\ rstate = "R_RESP"
  BY BusComplete DEF HostInv
<1>3. txn # <<>> /\ wstate \notin {"W_PULSE", "W_WAIT"}
  BY <1>2 DEF Complete
<1>4. ~dbPending /\ ~doorbell
  BY <1>3, QuietBus
<1>5. Quietly(sets)
  BY <1>1, <1>3, <1>4, QuietEdge
<1>6. ~Mine' /\ ~Sent' /\ ~Pending'
  BY <1>2, <1>5 DEF Mine, Sent, Pending, Quietly
<1>7. Fetched'
  BY <1>6 DEF Fetched
<1>8. sticky' \subseteq Sticky \ {ERR_BUSY} /\ config' = config
  BY <1>5, StickyKept DEF HostInv, Results, Quietly
<1>9. CASE txn[1].by # "driver"
  <2>1. UNCHANGED callVars /\ ~Mine
    BY <1>9 DEF Complete, Mine
  <2>2. ~Sent
    BY <2>1 DEF Sent
  <2>3. Configured' /\ Phases' /\ Results'
    BY <1>4, <1>5, <1>6, <2>1, <2>2, StillKept DEF Pending
  <2> QED
    BY <1>2, <1>7, <2>3 DEF HostInv
<1>10. CASE txn[1].by = "driver"
  <2>1. Mine /\ txn = <<Access>> /\ pc \in Places \ {"OUT"}
    BY <1>3, <1>10 DEF Mine, HostInv, BusShape, AbortAccess, WriteOf
  <2>2. Resume(rdData) /\ want' = want
    BY <1>10 DEF Complete, Resume
  <2>3. pc \notin {"CHECK", "POLL"} => wstate = "W_RESP" /\ Sent
    BY <1>2, <1>3, <2>1, AccessIs DEF Sent
  <2>4. pc \in {"CHECK", "POLL"} => rstate = "R_RESP" /\ Shown(rdData)
    BY <1>2, <1>3, <2>1, AccessIs DEF HostInv, Fetched
  <2>5. ~running => ~running' /\ sets = {} /\ sticky' = sticky /\ own' = own
    BY <1>5 DEF Quietly
  <2>6. want \in Wanted /\ config \in [ConfigAddrs -> Word]
        /\ \A a \in ConfigAddrs : Written(a) \/ config[a] = Zero
    BY DEF HostInv, Configured
  <2>7. CASE pc = "CONFIGURE"
    <3>1. ~running' /\ ~begun'
      BY <1>5, <2>7 DEF HostInv, Phases, Idle, Busy, Quietly
    <3>2. step \in DOMAIN ConfigOrder /\ DOMAIN ConfigOrder = 1..Len(ConfigOrder)
      BY <2>7, HostAssumption DEF HostInv, Configured
    <3>3. \A j \in DOMAIN ConfigOrder : j <= step => config[ConfigOrder[j]] = want[ConfigOrder[j]]
      <4>1. \A j \in DOMAIN ConfigOrder : j <= step => StepDone(j)
        BY <2>3, <2>7, <3>2 DEF StepDone
      <4> QED
        BY <2>7, <4>1 DEF HostInv, Configured
    <3>4. CASE step = Len(ConfigOrder)
      <4>1. pc' = "CLEAR" /\ UNCHANGED <<step, result, timedOut>>
        BY <2>2, <2>7, <3>4 DEF Resume, Goto
      <4>2. config = want
        <5>1. \A a \in ConfigAddrs : config[a] = want[a]
          <6> SUFFICES ASSUME NEW a \in ConfigAddrs PROVE config[a] = want[a]
            OBVIOUS
          <6>1. CASE Written(a)
            BY <3>2, <3>3, <3>4, <6>1 DEF Written
          <6>2. CASE ~Written(a)
            BY <2>6, <6>2, HostAssumption DEF Written
          <6> QED
            BY <6>1, <6>2
        <5>2. want \in [ConfigAddrs -> Word]
          BY <2>6, HostAssumption
        <5> QED
          BY <2>6, <5>1, <5>2
      <4>3. Configured'
        BY <1>8, <2>2, <2>6, <4>1, <4>2 DEF Configured, Written
      <4>4. Phases'
        BY <1>6, <3>1, <4>1 DEF Phases, Busy, Pending
      <4>5. Results'
        BY <1>8, <2>7, <4>1 DEF HostInv, Results, ReturnsOwnResult
      <4> QED
        BY <1>2, <1>7, <4>3, <4>4, <4>5 DEF HostInv
    <3>5. CASE step # Len(ConfigOrder)
      <4>1. pc' = "CONFIGURE" /\ step' = step + 1 /\ UNCHANGED <<result, timedOut>>
        BY <2>2, <2>7, <3>5 DEF Resume
      <4>2. Configured'
        <5>1. step + 1 \in DOMAIN ConfigOrder
          BY <3>2, <3>5
        <5>2. \A j \in DOMAIN ConfigOrder : StepDone(j)' => j <= step
          BY <1>6, <3>2, <4>1 DEF StepDone
        <5> QED
          BY <1>8, <2>2, <2>6, <3>3, <4>1, <5>1, <5>2 DEF Configured, Written
      <4>3. Phases'
        BY <1>6, <3>1, <4>1 DEF Phases, Busy, Pending
      <4>4. Results'
        BY <1>8, <2>7, <4>1 DEF HostInv, Results, ReturnsOwnResult
      <4> QED
        BY <1>2, <1>7, <4>2, <4>3, <4>4 DEF HostInv
    <3> QED
      BY <3>4, <3>5
  <2>8. CASE pc = "CLEAR"
    <3>1. pc' = "RING" /\ UNCHANGED <<step, result, timedOut>>
      BY <2>2, <2>8 DEF Resume, Goto
    <3>2. ~running /\ ~begun /\ sticky = Zero /\ config = want
      BY <2>3, <2>8 DEF HostInv, Phases, Idle, Busy, Configured
    <3>3. Configured'
      BY <1>8, <2>2, <2>6, <3>1, <3>2 DEF Configured, Written
    <3>4. Phases'
      BY <1>5, <1>6, <2>5, <2>8, <3>1, <3>2 DEF Phases, Busy, Pending, Quietly
    <3>5. Results'
      BY <1>8, <2>8, <3>1 DEF HostInv, Results, ReturnsOwnResult
    <3> QED
      BY <1>2, <1>7, <3>3, <3>4, <3>5 DEF HostInv
  <2>9. CASE pc = "RING"
    <3>1. pc' = "CHECK" /\ UNCHANGED <<step, result, timedOut>>
      BY <2>2, <2>9 DEF Resume, Goto
    <3>2. (Began \/ Rejected) /\ config = want
      BY <1>4, <2>3, <2>9 DEF HostInv, Phases, Pending, Configured
    <3>3. Began' \/ Rejected'
      BY <1>5, <2>2, <2>9, <3>2, OutcomeKept
    <3>4. Configured'
      BY <1>8, <2>2, <2>6, <3>1, <3>2 DEF Configured, Written
    <3>5. Phases'
      BY <1>6, <3>1, <3>3 DEF Phases, Idle
    <3>6. Results'
      BY <1>8, <2>9, <3>1 DEF HostInv, Results, ReturnsOwnResult
    <3> QED
      BY <1>2, <1>7, <3>4, <3>5, <3>6 DEF HostInv
  <2>10. CASE pc = "CHECK"
    <3>1. (Began \/ Rejected) /\ config = want /\ Shown(rdData)
      BY <2>4, <2>10 DEF HostInv, Phases, Configured
    <3>2. CASE ERR_PARAM \in rdData
      <4>1. /\ pc' = "OUT" /\ result' = [kind |-> "RAISED", flags |-> rdData] /\ ~timedOut'
        BY <2>2, <2>10, <3>2 DEF Resume, Leave
      <4>2. Rejected /\ rdData = {ERR_PARAM}
        BY <3>1, <3>2, EndsAre DEF Shown, Began, Rejected, BUSY, ERR_PARAM
      <4>3. Rejected'
        BY <1>5, <2>2, <2>10, <4>2, OutcomeKept
      <4>4. Configured'
        BY <1>8, <2>2, <2>6, <4>1 DEF Configured, Written
      <4>5. Phases'
        BY <1>6, <4>1, <4>3 DEF Phases, Rejected, Busy, Pending
      <4>6. Results'
        BY <1>8, <4>1, <4>2, <4>3 DEF Results, ReturnsOwnResult, Rejected
      <4> QED
        BY <1>2, <1>7, <4>4, <4>5, <4>6 DEF HostInv
    <3>3. CASE ERR_PARAM \notin rdData
      <4>1. pc' = "POLL" /\ UNCHANGED <<step, result, timedOut>>
        BY <2>2, <2>10, <3>3 DEF Resume, Goto
      <4>2. Began
        BY <3>1, <3>3 DEF Shown, Rejected
      <4>3. Began'
        BY <1>5, <2>2, <2>10, <4>2, OutcomeKept
      <4>4. Configured'
        BY <1>8, <2>2, <2>6, <3>1, <4>1 DEF Configured, Written
      <4>5. Phases'
        BY <1>6, <4>1, <4>3 DEF Phases, Idle
      <4>6. Results'
        BY <1>8, <2>10, <4>1 DEF HostInv, Results, ReturnsOwnResult
      <4> QED
        BY <1>2, <1>7, <4>4, <4>5, <4>6 DEF HostInv
    <3> QED
      BY <3>2, <3>3
  <2>11. CASE pc = "POLL"
    <3>1. Began /\ config = want /\ Shown(rdData)
      BY <2>4, <2>11 DEF HostInv, Phases, Configured
    <3>2. Began'
      BY <1>5, <2>2, <2>11, <3>1, OutcomeKept
    <3>3. Poll(rdData)
      BY <2>2, <2>11 DEF Resume
    <3>4. BUSY \notin rdData => ~running /\ rdData = own /\ own \in Ends
      BY <3>1 DEF Shown, Began
    <3>5. CASE BUSY \notin rdData /\ rdData \cap ErrMask # {}
      <4>1. pc' = "OUT" /\ result' = [kind |-> "RAISED", flags |-> rdData] /\ ~timedOut'
        BY <3>3, <3>5 DEF Poll, StillBusy, Leave
      <4>2. own' = rdData /\ own' \subseteq RunErrors /\ ~running' /\ begun'
        BY <2>5, <3>2, <3>4, <3>5, EndsAre DEF Began
      <4>3. Configured'
        BY <1>8, <2>2, <2>6, <4>1 DEF Configured, Written
      <4>4. Phases'
        BY <1>6, <4>1, <4>2 DEF Phases, Busy, Pending
      <4>5. Results'
        BY <1>8, <4>1, <4>2 DEF Results, ReturnsOwnResult
      <4> QED
        BY <1>2, <1>7, <4>3, <4>4, <4>5 DEF HostInv
    <3>6. CASE /\ ~(BUSY \notin rdData /\ rdData \cap ErrMask # {})
               /\ BUSY \notin rdData /\ rdData \cap {DONE, ABORTED} # {}
      <4>1. pc' = "FINISH" /\ result' = [kind |-> "NONE", flags |-> rdData] /\ timedOut' = timedOut
        BY <3>3, <3>6 DEF Poll, StillBusy
      <4>2. own' = rdData /\ ~running' /\ begun' /\ ranWanted'
        BY <2>5, <3>2, <3>4, <3>6 DEF Began
      <4>3. Configured'
        BY <1>8, <2>2, <2>6, <4>1 DEF Configured, Written
      <4>4. Phases'
        BY <1>6, <4>1, <4>2 DEF Phases, Busy, Pending
      <4>5. Results'
        BY <1>8, <4>1 DEF Results, ReturnsOwnResult
      <4> QED
        BY <1>2, <1>7, <4>3, <4>4, <4>5 DEF HostInv
    <3>7. CASE /\ ~(BUSY \notin rdData /\ rdData \cap ErrMask # {})
               /\ ~(BUSY \notin rdData /\ rdData \cap {DONE, ABORTED} # {})
      <4>1. CASE LastPoll
        <5>1. pc' = "OUT" /\ result' = [kind |-> "TIMEOUT", flags |-> rdData] /\ timedOut'
          BY <3>3, <3>7, <4>1 DEF Poll, StillBusy, Leave
        <5>2. Configured'
          BY <1>8, <2>2, <2>6, <5>1 DEF Configured, Written
        <5>3. Phases'
          BY <1>6, <5>1 DEF Phases, Idle
        <5>4. Results'
          BY <1>8, <5>1 DEF Results, ReturnsOwnResult
        <5> QED
          BY <1>2, <1>7, <5>2, <5>3, <5>4 DEF HostInv
      <4>2. CASE ~LastPoll
        <5>1. pc' = "POLL" /\ UNCHANGED <<step, result, timedOut>>
          BY <2>11, <3>3, <3>7, <4>2 DEF Poll, StillBusy
        <5>2. Configured'
          BY <1>8, <2>2, <2>6, <3>1, <5>1 DEF Configured, Written
        <5>3. Phases'
          BY <1>6, <3>2, <5>1 DEF Phases, Idle
        <5>4. Results'
          BY <1>8, <2>11, <5>1 DEF HostInv, Results, ReturnsOwnResult
        <5> QED
          BY <1>2, <1>7, <5>2, <5>3, <5>4 DEF HostInv
      <4> QED
        BY <4>1, <4>2
    <3> QED
      BY <3>5, <3>6, <3>7
  <2>12. CASE pc = "FINISH"
    <3>1. pc' = "OUT" /\ result' = [kind |-> "RETURNED", flags |-> result.flags] /\ ~timedOut'
      BY <2>2, <2>12 DEF Resume, Leave
    <3>2. begun /\ ranWanted /\ result.flags = own /\ ~running
      BY <2>12 DEF HostInv, Phases, Idle, Busy
    <3>3. begun' /\ ranWanted' /\ own' = own /\ ~running'
      BY <1>5, <2>12, <3>2 DEF Quietly
    <3>4. Configured'
      BY <1>8, <2>2, <2>6, <3>1 DEF Configured, Written
    <3>5. Phases'
      BY <1>6, <3>1, <3>3 DEF Phases, Busy, Pending
    <3>6. Results'
      BY <1>8, <3>1, <3>2, <3>3 DEF Results, ReturnsOwnResult
    <3> QED
      BY <1>2, <1>7, <3>4, <3>5, <3>6 DEF HostInv
  <2>13. CASE pc = "ABORT"
    <3>1. pc' = "OUT" /\ result' = [kind |-> "NONE", flags |-> {}] /\ ~timedOut'
      BY <2>2, <2>13 DEF Resume, Leave
    <3>2. ~running
      BY <2>1, <2>3, <2>13 DEF HostInv, Phases, Idle, Busy
    <3>3. Configured'
      BY <1>8, <2>2, <2>6, <3>1 DEF Configured, Written
    <3>4. Phases'
      BY <1>6, <2>5, <3>1, <3>2 DEF Phases, Busy, Pending
    <3>5. Results'
      BY <1>8, <3>1 DEF Results, ReturnsOwnResult
    <3> QED
      BY <1>2, <1>7, <3>3, <3>4, <3>5 DEF HostInv
  <2> QED
    BY <2>1, <2>7, <2>8, <2>9, <2>10, <2>11, <2>12, <2>13 DEF Places
<1> QED
  BY <1>9, <1>10

LEMMA HostStutter == ASSUME HostInv, UNCHANGED hostVars PROVE HostInv'
<1>1. /\ UNCHANGED <<wstate, awSeen, wSeen, wrAddr, wrData, rstate, rdAddr, rdData>>
      /\ UNCHANGED <<config, sticky, dbPending, doorbell, abort, rdDataAns, running>>
      /\ UNCHANGED <<pc, step, want, result, timedOut, txn, begun, ranWanted, own>>
      /\ UNCHANGED callVars
  BY DEF hostVars, controlVars, axiVars, writeVars, readVars, regsVars, decideVars, callVars, ownVars
<1>2. BusShape'
  BY <1>1, AccessKept DEF HostInv, BusShape, AbortAccess, Body
<1>3. Configured'
  BY <1>1 DEF HostInv, Configured, Written, StepDone, Sent, Mine
<1>4. Phases' /\ Fetched'
  BY <1>1 DEF HostInv, Phases, Fetched, Idle, Busy, Sent, Mine, Pending, Began, Rejected, Shown,
     ErrParam, Above, Zero
<1>5. Results'
  BY <1>1 DEF HostInv, Results, ReturnsOwnResult, ErrParam, Above, Zero
<1> QED
  BY <1>2, <1>3, <1>4, <1>5 DEF HostInv

\* expand_block answers for the block it started itself, on the configuration of
\* this call and with the flag that ended it, or for its own rejected doorbell:
\* however the other coroutine's aborts, the block's end and the timeouts fall, as
\* long as a timeout is answered with an abort.
THEOREM HostReturns ==
  ASSUME AbortsOnTimeout
  PROVE  HostSpec => []ReturnsOwnResult
<1>1. HostInit => ControlInv /\ HostInv
  BY ControlInvInit, HostInvInit DEF HostInit
<1>2. ControlInv /\ HostInv /\ [HostNext]_hostVars => ControlInv' /\ HostInv'
  <2>1. ControlInv /\ HostInv /\ HostNext => ControlInv' /\ HostInv'
    BY HostNextIsEdge, EdgeKeepsInv, IssueKept, EnterKept, WriteKept, ReadKept, CompleteKept
       DEF HostNext
  <2>2. ControlInv /\ HostInv /\ UNCHANGED hostVars => ControlInv' /\ HostInv'
    BY StutterKeepsInv, HostStutter DEF hostVars
  <2> QED
    BY <2>1, <2>2
<1>3. HostInv => ReturnsOwnResult
  BY DEF HostInv, Results
<1> QED
  BY <1>1, <1>2, <1>3, PTL DEF HostSpec
=============================================================================
