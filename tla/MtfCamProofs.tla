---------------------------- MODULE MtfCamProofs ----------------------------
(* mtf_cam for every list size, lane count, queue depth, run maximum and set *)
(* of beats.  First the invocation FSM with its list, run accumulator and    *)
(* drain side; then the whole against its functional model: the bytes on m_l *)
(* are those of golden/list_model.py, and the scoreboard of tb/env.py has no *)
(* complaint.  The two sides are folds over what was heard and what was      *)
(* delivered; FoldLaws says how a fold goes on by one element.               *)
EXTENDS MtfCamHistory, FiniteSetTheorems, SequenceTheorems, TLAPS

-----------------------------------------------------------------------------
(* The move-to-front list for every used map and every sequence of fills,    *)
(* restarts and moves.  The type invariant is not inductive alone: the fill  *)
(* index stays in the array because it and the bytes still to come add up to *)
(* the size of the used map, and the permutation property of a finished list *)
(* is what the fill leaves behind.                                           *)

ListInv == ListTypeOK /\ FillProgress /\ Permutation /\ FillAscending

\* A fill over the bytes src that are left of u, with base entries written, is
\* where it should be: what ListInv says of a fill in progress.
FillPoint(u, src, base) ==
  /\ u \in SUBSET Bytes
  /\ src \subseteq u
  /\ base \in Nat
  /\ base + Cardinality(src) = Cardinality(u)
  /\ \A i, j \in 0..(base - 1) : i < j => lst[i] < lst[j]
  /\ \A i \in 0..(base - 1) : \A b \in src : lst[i] < b
  /\ {lst[i] : i \in 0..(base - 1)} = u \ src

LEMMA BytesFinite ==
  /\ IsFiniteSet(Bytes)
  /\ Cardinality(Bytes) = NList
  /\ \A S \in SUBSET Bytes :
       IsFiniteSet(S) /\ Cardinality(S) \in Nat /\ Cardinality(S) <= NList
<1>1. IsFiniteSet(Bytes) /\ Cardinality(Bytes) = NList
  BY FS_Interval, NListAssumption DEF Bytes
<1>2. ASSUME NEW S \in SUBSET Bytes
      PROVE  IsFiniteSet(S) /\ Cardinality(S) \in Nat /\ Cardinality(S) <= NList
  BY <1>1, FS_Subset, FS_CardinalityType
<1> QED
  BY <1>1, <1>2

LEMMA ListInvInit == ListInit => ListInv
<1> SUFFICES ASSUME ListInit PROVE ListInv
  OBVIOUS
<1>1. ListTypeOK
  <2>1. 0 \in 0..NList
    BY NListAssumption
  <2> QED
    BY <2>1 DEF ListInit, ListTypeOK
<1>2. FillProgress
  BY FS_EmptySet DEF ListInit, FillProgress
<1>3. Permutation /\ FillAscending
  BY DEF ListInit, Permutation, FillAscending, Live
<1> QED
  BY <1>1, <1>2, <1>3 DEF ListInv

\* mtf_list.sv, the fill cycle: writing the lowest byte left behind the bytes
\* already written keeps the list sorted and complete.
LEMMA FillKeepsInv ==
  ASSUME lst \in [Ranks -> Bytes],
         NEW u, NEW src, NEW base,
         FillPoint(u, src, base), Fill(src, base), used' = u
  PROVE  ListInv'
<1> USE DEF FillPoint
<1>1. /\ IsFiniteSet(u) /\ IsFiniteSet(src)
      /\ Cardinality(u) \in Nat /\ Cardinality(u) <= NList
      /\ Cardinality(src) \in Nat
  BY BytesFinite
<1>2. ASSUME NEW b \in src, IsLowest(b, src),
             lst' = [lst EXCEPT ![base] = b],
             rem' = src \ {b}, fillIdx' = base + 1, filling' = (src \ {b} # {})
      PROVE  ListInv'
  <2>1. Cardinality(src) # 0 /\ Cardinality(src \ {b}) = Cardinality(src) - 1
    BY <1>1, FS_EmptySet, FS_RemoveElement
  <2>2. base \in Ranks
    BY <1>1, <2>1, NListAssumption DEF Ranks
  <2>3. /\ lst' \in [Ranks -> Bytes]
        /\ lst'[base] = b
        /\ \A i \in 0..(base - 1) : lst'[i] = lst[i] /\ i \in Ranks
    <3>1. b \in Bytes
      OBVIOUS
    <3>2. \A i \in 0..(base - 1) : i \in Ranks /\ i # base
      BY <2>2, NListAssumption DEF Ranks
    <3> QED
      BY <1>2, <2>2, <3>1, <3>2
  <2>4. Live' = 0..base /\ \A i \in Live' : i = base \/ i \in 0..(base - 1)
    BY <1>2, <2>2 DEF Live, Ranks
  <2>5. ListTypeOK'
    <3>1. filling' \in BOOLEAN
      BY <1>2
    <3>2. fillIdx' \in 0..NList
      BY <1>2, <2>2, NListAssumption DEF Ranks
    <3>3. rem' \in SUBSET Bytes /\ used' \in SUBSET Bytes
      BY <1>2
    <3> QED
      BY <2>3, <3>1, <3>2, <3>3 DEF ListTypeOK
  <2>6. FillProgress'
    <3>1. filling' <=> rem' # {}
      BY <1>2
    <3>2. fillIdx' + Cardinality(rem') = Cardinality(used') /\ rem' \subseteq used'
      BY <1>1, <1>2, <2>1
    <3> QED
      BY <3>1, <3>2 DEF FillProgress
  <2>7. \A i, j \in Live' : i < j => lst'[i] < lst'[j]
    BY <2>2, <2>3, <2>4 DEF Ranks
  <2>8. \A i \in Live' : \A c \in rem' : lst'[i] < c
    BY <1>2, <2>3, <2>4 DEF IsLowest, Bytes
  <2>9. {lst'[i] : i \in Live'} = u \ rem'
    <3>1. {lst'[i] : i \in Live'} = {lst[i] : i \in 0..(base - 1)} \cup {b}
      BY <2>2, <2>3, <2>4 DEF Ranks
    <3> QED
      BY <3>1, <1>2
  <2>10. \A i, j \in Live' : lst'[i] = lst'[j] => i = j
    <3>1. \A i \in Live' : i \in Int /\ lst'[i] \in Int
      BY <2>2, <2>3, <2>4 DEF Ranks, Bytes
    <3> QED
      BY <2>7, <3>1
  <2> QED
    BY <2>5, <2>6, <2>7, <2>8, <2>9, <2>10 DEF ListInv, Permutation, FillAscending
<1>3. ASSUME src = {}, rem' = src, fillIdx' = base, filling' = FALSE, lst' = lst
      PROVE  ListInv'
  <2>1. Cardinality(src) = 0
    BY <1>3, FS_EmptySet
  <2>2. base \in 0..NList
    BY <1>1, <2>1
  <2>3. ListTypeOK' /\ FillProgress' /\ FillAscending'
    BY <1>1, <1>3, <2>1, <2>2 DEF ListTypeOK, FillProgress, FillAscending
  <2>4. Live' = 0..(base - 1)
    BY <1>3 DEF Live
  <2>5. \A i, j \in Live' : lst'[i] = lst'[j] => i = j
    <3>1. \A i \in Live' : i \in Int /\ lst'[i] \in Int
      BY <1>3, <2>2, <2>4, NListAssumption DEF Ranks, Bytes
    <3>2. \A i, j \in 0..(base - 1) : i < j => lst[i] < lst[j]
      OBVIOUS
    <3> QED
      BY <1>3, <2>4, <3>1, <3>2
  <2>6. Permutation'
    BY <1>3, <2>4, <2>5 DEF Permutation
  <2> QED
    BY <2>3, <2>6 DEF ListInv
<1> QED
  BY <1>2, <1>3 DEF Fill

\* mtf_list.sv, the parallel shift: a rotation of ranks 0..r of a finished
\* list holds the same bytes, each once.
LEMMA MoveKeepsInv ==
  ASSUME ListInv, ~filling, NEW r \in Live, MoveToFront(r), used' = used
  PROVE  ListInv'
<1> USE DEF ListInv, ListTypeOK
<1>1. /\ lst \in [Ranks -> Bytes] /\ fillIdx \in 0..NList /\ r \in Ranks
      /\ r < fillIdx /\ Live \subseteq Ranks
  BY NListAssumption DEF Live, Ranks
<1>2. /\ lst' = Rotated(lst, r)
      /\ rem' = rem /\ filling' = filling /\ fillIdx' = fillIdx /\ Live' = Live
  BY DEF MoveToFront, Live
<1>3. ListTypeOK'
  <2>1. lst' \in [Ranks -> Bytes]
    BY <1>1, <1>2, NListAssumption DEF Rotated, Ranks
  <2> QED
    BY <1>2, <2>1
<1>4. FillProgress' /\ FillAscending'
  BY <1>2 DEF FillProgress, FillAscending
<1>5. \A i \in Live :
        /\ i = 0 => lst'[i] = lst[r]
        /\ i # 0 /\ i <= r => lst'[i] = lst[i - 1] /\ i - 1 \in Live
        /\ i > r /\ i # 0 => lst'[i] = lst[i]
  BY <1>1, <1>2 DEF Rotated, Ranks, Live
<1>6. \A i, j \in Live : lst[i] = lst[j] => i = j
  BY DEF Permutation
<1>7. \A i, j \in Live : lst'[i] = lst'[j] => i = j
  BY <1>1, <1>5, <1>6 DEF Live, Ranks
<1>8. \A i \in Live : \E j \in Live : lst'[i] = lst[j]
  BY <1>1, <1>5 DEF Live, Ranks
<1>9. \A j \in Live : \E i \in Live : lst'[i] = lst[j]
  <2> TAKE j \in Live
  <2>1. CASE j = r
    <3>1. 0 \in Live
      BY <1>1 DEF Live, Ranks
    <3> QED
      BY <2>1, <1>5, <3>1
  <2>2. CASE j < r
    <3>1. j + 1 \in Live /\ j + 1 # 0 /\ j + 1 <= r /\ (j + 1) - 1 = j
      BY <2>2, <1>1 DEF Live, Ranks
    <3>2. lst'[j + 1] = lst[(j + 1) - 1]
      BY <1>5, <3>1
    <3> QED
      BY <3>1, <3>2
  <2>3. CASE j > r
    BY <2>3, <1>1, <1>5 DEF Live, Ranks
  <2> QED
    BY <2>1, <2>2, <2>3, <1>1 DEF Live, Ranks
<1>10. {lst'[i] : i \in Live} = {lst[i] : i \in Live}
  BY <1>8, <1>9
<1> QED
  BY <1>2, <1>3, <1>4, <1>7, <1>10 DEF Permutation

\* One edge of mtf_list.sv under the contract mtf_ctrl.sv keeps: a move names a
\* live rank and no fill is running then.
LEMMA ListStepKeepsInv ==
  ASSUME ListInv,
         NEW start \in BOOLEAN, NEW u, NEW mv,
         start => u \in SUBSET Bytes,
         mv # NoMove => ~start /\ ~filling /\ mv \in Live,
         ListStep(start, u, mv)
  PROVE  ListInv'
<1> USE DEF ListInv
<1>1. lst \in [Ranks -> Bytes] /\ rem \in SUBSET Bytes /\ fillIdx \in 0..NList /\ used \in SUBSET Bytes
  BY DEF ListTypeOK
<1>2. CASE start
  <2>1. FillPoint(u, u, 0)
    BY <1>2, BytesFinite DEF FillPoint
  <2>2. Fill(u, 0) /\ used' = u
    BY <1>2 DEF ListStep, InitBusy, FillSource, FillBase
  <2> QED
    BY <1>1, <2>1, <2>2, FillKeepsInv
<1>3. CASE ~start /\ filling
  <2>1. FillPoint(used, rem, fillIdx)
    BY <1>1, <1>3 DEF FillPoint, FillProgress, Permutation, FillAscending, Live
  <2>2. Fill(rem, fillIdx) /\ used' = used
    BY <1>3 DEF ListStep, InitBusy, FillSource, FillBase
  <2> QED
    BY <1>1, <2>1, <2>2, FillKeepsInv
<1>4. CASE ~start /\ ~filling /\ mv # NoMove
  <2>1. MoveToFront(mv) /\ used' = used
    BY <1>4 DEF ListStep, InitBusy
  <2> QED
    BY <1>4, <2>1, MoveKeepsInv
<1>5. CASE ~start /\ ~filling /\ mv = NoMove
  <2>1. UNCHANGED listVars
    BY <1>5 DEF ListStep, InitBusy, listVars
  <2> QED
    BY <2>1 DEF listVars, ListTypeOK, FillProgress, Permutation, FillAscending, Live
<1> QED
  BY <1>2, <1>3, <1>4, <1>5

LEMMA ListInvStep == ListInv /\ [ListNext]_listVars => ListInv'
<1> SUFFICES ASSUME ListInv, [ListNext]_listVars PROVE ListInv'
  OBVIOUS
<1>1. ASSUME NEW u \in SUBSET Bytes, ListStart(u) PROVE ListInv'
  BY <1>1, ListStepKeepsInv DEF ListStart
<1>2. CASE ListTick
  BY <1>2, ListStepKeepsInv DEF ListTick
<1>3. ASSUME NEW r \in Ranks, ListMove(r) PROVE ListInv'
  <2>1. r \in Live /\ ~filling
    BY <1>3 DEF ListMove, Live, Ranks, ListInv, ListTypeOK
  <2> QED
    BY <1>3, <2>1, ListStepKeepsInv DEF ListMove
<1>4. CASE UNCHANGED listVars
  BY <1>4 DEF listVars, ListInv, ListTypeOK, FillProgress, Permutation, FillAscending, Live
<1> QED
  BY <1>1, <1>2, <1>3, <1>4 DEF ListNext

LEMMA ListInvariant == ListSpec => []ListInv
  BY ListInvInit, ListInvStep, PTL DEF ListSpec

\* The registers of mtf_list.sv keep their types: no fill, whenever restarted,
\* writes outside the array.
THEOREM ListTypes == ListSpec => []ListTypeOK
  BY ListInvariant, PTL DEF ListInv

\* Property (i) of formal/mtf_list_inv.sv for every list size: the live entries
\* are a permutation of the used bytes filled so far.
THEOREM ListIsPermutation == ListSpec => [](Permutation /\ FillProgress)
  BY ListInvariant, PTL DEF ListInv

-----------------------------------------------------------------------------
(* The run accumulator for every RunMax: its invariants are inductive        *)
(* together, because the range of a group ties the length to the weight.     *)

RunInv == RunTypeOK /\ GroupRange

\* mtf_run.sv: the range of a pending group bounds the weight by the largest
\* length, and with it the next sum; this is why 22 bits are enough.
LEMMA GroupBounds == RunInv => NoWrap
  BY RunAssumption DEF RunInv, RunTypeOK, GroupRange, NoWrap, RunSum

\* One edge of mtf_run.sv keeps the range of the group: the overflow test runs
\* before the addition is registered, and a cleared group starts at weight one.
LEMMA RunInvStep == RunInv /\ [RunNext]_runVars => RunInv'
<1> USE RunAssumption DEF RunInv, RunTypeOK, GroupRange
<1> SUFFICES ASSUME RunInv, [RunNext]_runVars PROVE RunInv'
  OBVIOUS
<1>1. ASSUME NEW bit \in 0..1, ~RunOverflow(bit), RunAccumulate(bit)
      PROVE  RunInv'
  BY <1>1 DEF RunOverflow, RunAccumulate, RunSum
<1>2. ASSUME NEW commit \in BOOLEAN, RunClear(commit)
      PROVE  RunInv'
  BY <1>2 DEF RunClear
<1>3. CASE RunRestart
  BY <1>3 DEF RunRestart
<1>4. CASE UNCHANGED runVars
  BY <1>4 DEF runVars
<1> QED
  BY <1>1, <1>2, <1>3, <1>4 DEF RunNext

LEMMA RunInvInit == RunInit => RunInv
  BY RunAssumption DEF RunInit, RunInv, RunTypeOK, GroupRange

\* The registers of mtf_run.sv keep their types and a group its range.
THEOREM RunInvariant == RunSpec => [](RunTypeOK /\ GroupRange)
<1>1. RunSpec => []RunInv
  BY RunInvInit, RunInvStep, PTL DEF RunSpec
<1> QED
  BY <1>1, PTL DEF RunInv

\* The adder of mtf_run.sv never wraps, whatever run symbols arrive.
THEOREM RunNeverWraps == RunSpec => []NoWrap
<1>1. RunSpec => []RunInv
  BY RunInvariant, PTL DEF RunInv
<1> QED
  BY <1>1, GroupBounds, PTL

Ctls == {"run", "last", "stop", "discard"}

-----------------------------------------------------------------------------
(* The drain side: one edge of mtf_expand.sv and mtf_pack.sv.                *)

LEMMA MergedFacts ==
  ASSUME DrainTypeOK, NEW ctl, NEW ready
  PROVE  /\ Merged(ctl, ready) \in Seq(Bytes)
         /\ Len(Merged(ctl, ready)) = Len(buf) + Len(Accepted(ctl, ready))
         /\ Len(Accepted(ctl, ready)) \in 0..W
         /\ exp = <<>> \/ ~PackReady(ctl, ready) => Merged(ctl, ready) = buf
         /\ exp # <<>> /\ PackReady(ctl, ready) => Len(Accepted(ctl, ready)) > 0
<1>1. exp # <<>> => exp[1].count \in 1..RunMax /\ exp[1].byte \in Bytes
  <2>1. exp # <<>> => 1 \in 1..Len(exp)
    BY EmptySeq DEF DrainTypeOK
  <2>2. exp # <<>> => exp[1] \in Item
    BY <2>1, ElementOfSeq DEF DrainTypeOK
  <2> QED
    BY <2>2 DEF Item
<1>2. exp # <<>> => LaneCount \in 1..W
  BY <1>1, LaneAssumption, RunAssumption DEF LaneCount
<1>3. /\ Accepted(ctl, ready) \in Seq(Bytes)
      /\ Len(Accepted(ctl, ready)) \in 0..W
      /\ exp # <<>> /\ PackReady(ctl, ready) => Len(Accepted(ctl, ready)) > 0
      /\ exp = <<>> \/ ~PackReady(ctl, ready) => Accepted(ctl, ready) = <<>>
  <2>1. CASE exp = <<>> \/ ~PackReady(ctl, ready)
    BY <2>1, LaneAssumption DEF Accepted
  <2>2. CASE exp # <<>> /\ PackReady(ctl, ready)
    <3> DEFINE n == LaneCount
    <3>1. n \in 1..W
      BY <2>2, <1>2
    <3>2. Accepted(ctl, ready) = [i \in 1..n |-> exp[1].byte]
      BY <2>2 DEF Accepted
    <3> HIDE DEF n
    <3>3. n \in Nat /\ Accepted(ctl, ready) \in [1..n -> Bytes]
      BY <2>2, <1>1, <3>1, <3>2, LaneAssumption
    <3> QED
      BY <2>2, <3>1, <3>3, LaneAssumption
  <2> QED
    BY <2>1, <2>2
<1> QED
  BY <1>3, ConcatProperties, ConcatEmptySeq DEF Merged, DrainTypeOK

LEMMA DrainTypeInit == DrainInit => DrainTypeOK
<1>1. \A S : <<>> \in Seq(S) /\ Len(<<>>) = 0
  BY EmptySeq
<1>2. 0 <= Depth /\ 0 <= W /\ 0 <= 1
  BY DepthAssumption, LaneAssumption
<1> QED
  BY <1>1, <1>2 DEF DrainInit, DrainTypeOK

\* The output register holding one beat of n bytes.
LEMMA OneBeat ==
  ASSUME NEW bytes \in Seq(Bytes), Len(bytes) \in 1..W, NEW last \in BOOLEAN,
         NEW o, o = <<[bytes |-> bytes, last |-> last]>>
  PROVE  /\ o \in Seq(Beat) /\ Len(o) <= 1
         /\ o # <<>> => Len(o[1].bytes) \in 1..W
<1>1. [bytes |-> bytes, last |-> last] \in Beat
  BY DEF Beat
<1> QED
  BY <1>1

\* No edge overfills the queue, the buffer or a beat.
LEMMA DrainTypeStep ==
  ASSUME DrainTypeOK, NEW ctl \in Ctls, NEW ready \in BOOLEAN,
         NEW wr \in Seq(Item), Len(wr) <= 2,
         wr # <<>> => Queue!CanWrite2(Len(fifo)),
         DrainEdge(ctl, wr, ready)
  PROVE  DrainTypeOK'
<1> DEFINE m == Merged(ctl, ready)
<1>1. m \in Seq(Bytes) /\ Len(m) \in 0..(2 * W) /\ Len(buf) \in 0..W /\ buf \in Seq(Bytes)
  <2>1. Len(buf) \in 0..W /\ buf \in Seq(Bytes)
    BY LenProperties, LaneAssumption DEF DrainTypeOK
  <2> QED
    BY <2>1, MergedFacts, LaneAssumption
<1>2. fifo' \in Seq(Item) /\ Len(fifo') <= Depth
  <2> DEFINE q == Queue!Dequeue(fifo, Pop(ctl, ready))
  <2>1. q \in Seq(Item) /\ Len(q) <= Len(fifo) /\ Len(fifo) \in 0..Depth
    BY HeadTailProperties, LenProperties, DepthAssumption
    DEF Queue!Dequeue, Queue!Readable, DrainTypeOK
  <2>2. fifo' = IF ctl = "stop" THEN <<>> ELSE q \o wr
    BY DEF DrainEdge, Queue!QueueAfter
  <2> HIDE DEF q
  <2>3. q \o wr \in Seq(Item) /\ Len(q \o wr) = Len(q) + Len(wr)
    BY <2>1, ConcatProperties
  <2>4. Len(q) \in Nat /\ Len(wr) \in Nat /\ (wr = <<>> => Len(wr) = 0)
    BY <2>1, LenProperties
  <2>5. Len(q \o wr) <= Depth
    BY <2>1, <2>3, <2>4, DepthAssumption DEF Queue!CanWrite2
  <2> QED
    BY <2>2, <2>3, <2>5, EmptySeq, DepthAssumption
<1>3. exp' \in Seq(Item) /\ Len(exp') <= 1
  <2>1. exp' = ExpandAfter(ctl, ready)
    BY DEF DrainEdge
  <2>2. Pop(ctl, ready) => Head(fifo) \in Item
    BY HeadTailProperties DEF Pop, Queue!Readable, DrainTypeOK
  <2>3. exp # <<>> /\ ~Finishing => [exp[1] EXCEPT !.count = @ - W] \in Item
    <3> SUFFICES ASSUME exp # <<>>, ~Finishing
                 PROVE  [exp[1] EXCEPT !.count = @ - W] \in Item
      OBVIOUS
    <3>1. exp[1] \in Item
      BY ElementOfSeq, EmptySeq DEF DrainTypeOK
    <3>2. exp[1].count > W
      BY <3>1, LaneAssumption, RunAssumption DEF Item, Finishing
    <3> QED
      BY <3>1, <3>2, LaneAssumption, RunAssumption DEF Item
  <2> QED
    BY <2>1, <2>2, <2>3 DEF ExpandAfter, DrainTypeOK
<1>4. /\ buf' = BufAfter(ctl, ready) /\ out' = OutAfter(ctl, ready)
      /\ EmitFull(ctl, ready) <=> Len(m) > W
  BY DEF DrainEdge, EmitFull
<1>5. EmitFull(ctl, ready) =>
        /\ SubSeq(m, 1, W) \in Seq(Bytes) /\ Len(SubSeq(m, 1, W)) = W
        /\ SubSeq(m, W + 1, Len(m)) \in Seq(Bytes)
        /\ Len(SubSeq(m, W + 1, Len(m))) \in 1..W
  <2> SUFFICES ASSUME Len(m) > W
               PROVE  /\ SubSeq(m, 1, W) \in Seq(Bytes) /\ Len(SubSeq(m, 1, W)) = W
                      /\ SubSeq(m, W + 1, Len(m)) \in Seq(Bytes)
                      /\ Len(SubSeq(m, W + 1, Len(m))) \in 1..W
    BY <1>4
  <2> HIDE DEF m
  <2>1. \A i \in 1..Len(m) : m[i] \in Bytes
    BY <1>1, ElementOfSeq
  <2>2. (\A i \in 1..W : m[i] \in Bytes) /\ (\A i \in (W + 1)..Len(m) : m[i] \in Bytes)
    BY <1>1, <2>1, LaneAssumption
  <2> QED
    BY <1>1, <2>2, SubSeqProperties, LaneAssumption
<1>6. buf' \in Seq(Bytes) /\ Len(buf') <= W
  BY <1>1, <1>4, <1>5, LaneAssumption, EmptySeq DEF BufAfter
<1>7. /\ out' \in Seq(Beat) /\ Len(out') <= 1
      /\ out' # <<>> => Len(out'[1].bytes) \in 1..W
  <2>1. CASE ctl = "discard"
    BY <2>1, <1>4 DEF OutAfter
  <2>2. CASE ctl # "discard" /\ EmitFull(ctl, ready)
    <3>1. out' = <<[bytes |-> SubSeq(m, 1, W), last |-> FALSE]>>
      BY <2>2, <1>4 DEF OutAfter
    <3>2. Len(SubSeq(m, 1, W)) \in 1..W
      BY <2>2, <1>5, LaneAssumption
    <3> QED
      BY <2>2, <1>5, <3>1, <3>2, OneBeat
  <2>3. CASE ctl # "discard" /\ ~EmitFull(ctl, ready) /\ EmitFlush(ctl, ready)
    <3>1. FlushLast(ctl) \in BOOLEAN
      BY DEF FlushLast, DrainTypeOK
    <3>2. Len(buf) \in 1..W
      BY <2>3, <1>1, EmptySeq, LaneAssumption DEF EmitFlush
    <3>3. out' = <<[bytes |-> buf, last |-> FlushLast(ctl)]>>
      BY <2>3, <1>4 DEF OutAfter
    <3> QED
      BY <3>1, <3>2, <3>3, <1>1, OneBeat
  <2>4. CASE ctl # "discard" /\ ~EmitFull(ctl, ready) /\ ~EmitFlush(ctl, ready)
    <3>1. out' = IF ready THEN <<>> ELSE out
      BY <2>4, <1>4 DEF OutAfter
    <3> QED
      BY <3>1 DEF DrainTypeOK
  <2> QED
    BY <2>1, <2>2, <2>3, <2>4
<1>8. flushing' \in BOOLEAN /\ flushLast' \in BOOLEAN
  BY DEF DrainEdge, DrainTypeOK, FlushLast
<1> QED
  BY <1>2, <1>3, <1>6, <1>7, <1>8 DEF DrainTypeOK

-----------------------------------------------------------------------------
(* The controller.                                                           *)

\* INIT counts one cycle behind the fill until it leaves, so that a decoding
\* block has a finished list; the symbol budget has a beat left until the beat
\* that uses it up ends the block.
CamInv ==
  /\ TypeOK /\ ListInv /\ RunInv
  /\ state = "INIT" => fillIdx = initCycles + 1
  /\ state \in {"DECODE", "DRAIN"} => ~filling /\ initCycles = fillIdx
  /\ state \in {"INIT", "DECODE"} => symbolsIn < symbolLimit
  /\ symbolsIn <= symbolLimit
  /\ committed <= bytesLimit

LEMMA BeatTypes ==
  ASSUME NEW b \in Beats
  PROVE  b.value \in Nat /\ b.type \in 0..7 /\ b.last \in BOOLEAN
  BY BeatsAssumption

\* mtf_list.sv without a move: a running fill advances by one entry, a finished
\* list stays as it is.
LEMMA HoldFacts ==
  ASSUME ListInv, ListHold
  PROVE  /\ ListInv'
         /\ filling => fillIdx' = fillIdx + 1
         /\ ~filling => fillIdx' = fillIdx /\ filling' = FALSE
<1>1. ListInv'
  BY ListStepKeepsInv DEF ListHold
<1>2. filling \in BOOLEAN /\ (filling => rem # {})
  BY DEF ListInv, ListTypeOK, FillProgress
<1>3. CASE filling
  BY <1>1, <1>2, <1>3 DEF ListHold, ListStep, InitBusy, FillSource, FillBase, Fill
<1>4. CASE ~filling
  BY <1>1, <1>2, <1>4 DEF ListHold, ListStep, InitBusy, NoMove
<1> QED
  BY <1>1, <1>3, <1>4

\* mtf_list.sv on the doorbell edge: the first used byte is already written.
LEMMA DoorbellFacts ==
  ASSUME ListInv, NEW u \in SUBSET Bytes, u # {}, ListStep(TRUE, u, NoMove)
  PROVE  ListInv' /\ fillIdx' = 1
<1>1. ListInv'
  BY ListStepKeepsInv
<1>2. Fill(u, 0)
  BY DEF ListStep, InitBusy, FillSource, FillBase
<1> QED
  BY <1>1, <1>2 DEF Fill

\* mtf_ctrl.sv and mtf_cam.sv: what the checks of a clean beat guarantee to the
\* list, the accumulator, the queue and the budgets.
LEMMA CleanBeat ==
  ASSUME CamInv, state = "DECODE", NEW b \in Beats, Verdict(b) = "NONE"
  PROVE  /\ ValidType0(b) \/ ValidEob(b)
         /\ IsRun(b) => b.value \in 0..1 /\ ~RunOverflow(b.value)
         /\ IsMtf(b) => Rank(b) \in Live /\ Rank(b) # NoMove
         /\ ItemBytes(b) \in Nat /\ committed + ItemBytes(b) <= bytesLimit
         /\ ~ValidEob(b) => symbolsIn + 1 < symbolLimit
         /\ Items(b) \in Seq(Item) /\ Len(Items(b)) <= 2
<1>1. b.value \in Nat
  BY BeatTypes
<1>2. /\ fillIdx \in 0..NList /\ lst \in [Ranks -> Bytes] /\ run \in 0..RunMax
      /\ symbolsIn \in Nat /\ symbolLimit \in Nat /\ symbolsIn < symbolLimit
      /\ committed \in Nat /\ bytesLimit \in Nat
  BY DEF CamInv, TypeOK, ListTypeOK, RunTypeOK
<1>3. /\ ValidType0(b) \/ ValidEob(b)
      /\ IsRun(b) => ~RunOverflow(b.value)
      /\ ~OverBudget(b)
  BY DEF Verdict
<1>4. IsMtf(b) => Rank(b) \in Live /\ Rank(b) # NoMove /\ Rank(b) \in Ranks
  BY <1>1, <1>2, NListAssumption DEF IsMtf, ValidType0, Rank, Live, NoMove, Ranks
<1>5. ItemBytes(b) \in Nat
  BY <1>2, RunAssumption DEF ItemBytes
<1>6. Items(b) \in Seq(Item) /\ Len(Items(b)) <= 2
  <2>1. 0 \in Ranks
    BY NListAssumption DEF Ranks
  <2>2. run # 0 => [count |-> run, byte |-> lst[0]] \in Item
    BY <1>2, <2>1, RunAssumption DEF Item
  <2>3. IsMtf(b) => [count |-> 1, byte |-> lst[Rank(b)]] \in Item
    BY <1>2, <1>4, RunAssumption DEF Item
  <2>4. PendingRun \in Seq(Item) /\ Len(PendingRun) \in 0..1
    BY <2>2 DEF PendingRun
  <2>5. CASE IsMtf(b)
    <3> DEFINE mtf == <<[count |-> 1, byte |-> lst[Rank(b)]]>>
    <3>1. mtf \in Seq(Item) /\ Len(mtf) = 1
      BY <2>3, <2>5
    <3>2. Items(b) = PendingRun \o mtf
      BY <2>5 DEF Items
    <3> HIDE DEF mtf
    <3>3. /\ PendingRun \o mtf \in Seq(Item)
          /\ Len(PendingRun \o mtf) = Len(PendingRun) + Len(mtf)
      BY <2>4, <3>1, ConcatProperties
    <3>4. Len(PendingRun \o mtf) <= 2
      BY <2>4, <3>1, <3>3
    <3> QED
      BY <3>2, <3>3, <3>4
  <2>6. CASE ~IsMtf(b)
    <3>1. CASE ValidEob(b)
      <4>1. Items(b) = PendingRun
        BY <2>6, <3>1 DEF Items
      <4>2. Len(PendingRun) <= 2
        BY <2>4
      <4> QED
        BY <2>4, <4>1, <4>2
    <3>2. CASE ~ValidEob(b)
      <4>1. Items(b) = <<>>
        BY <2>6, <3>2 DEF Items
      <4> QED
        BY <4>1, EmptySeq
    <3> QED
      BY <3>1, <3>2
  <2> QED
    BY <2>5, <2>6
<1>7. ~ValidEob(b) => symbolsIn + 1 < symbolLimit
  BY <1>2, <1>3 DEF OverBudget
<1>8. committed + ItemBytes(b) <= bytesLimit
  BY <1>2, <1>3, <1>5 DEF OverBudget
<1>9. IsRun(b) => b.value \in 0..1
  BY <1>1 DEF IsRun
<1> QED
  BY <1>3, <1>4, <1>5, <1>6, <1>7, <1>8, <1>9

LEMMA CamInvInit == Init => CamInv
<1> SUFFICES ASSUME Init PROVE CamInv
  OBVIOUS
<1>1. ListInv /\ RunInv /\ DrainTypeOK
  BY ListInvInit, RunInvInit, DrainTypeInit DEF Init
<1>2. 0 \in 0..(2 * NList - 1)
  BY NListAssumption
<1>3. TypeOK
  BY <1>1, <1>2 DEF Init, TypeOK, ListInv, RunInv, States, Outcomes
<1> QED
  BY <1>1, <1>3 DEF Init, CamInv

\* RunHold, RunAccumulate, RunClear and RunRestart keep the accumulator's
\* invariant: RunInvStep for the wires mtf_ctrl.sv drives.
LEMMA RunFacts ==
  ASSUME RunInv,
         \/ RunHold
         \/ \E bit \in 0..1 : ~RunOverflow(bit) /\ RunAccumulate(bit)
         \/ \E commit \in BOOLEAN : RunClear(commit)
         \/ RunRestart
  PROVE  RunInv'
  BY RunInvStep DEF RunHold, RunNext

\* mtf_cam.sv, BYTES_OUT: a handshake adds the live lanes of the beat.
LEMMA CountFacts ==
  ASSUME TypeOK, NEW ready \in BOOLEAN, CountOut(ready)
  PROVE  LanesOut(ready) \in Nat /\ bytesOut' \in Nat
<1>1. out # <<>> => Len(out[1].bytes) \in Nat
  BY LaneAssumption DEF TypeOK, DrainTypeOK
<1>2. LanesOut(ready) \in Nat
  BY <1>1 DEF LanesOut
<1> QED
  BY <1>2 DEF CountOut, TypeOK

\* An edge of the drain side that enqueues nothing.
LEMMA QuietDrain ==
  ASSUME DrainTypeOK, NEW ctl \in Ctls, NEW ready \in BOOLEAN,
         DrainEdge(ctl, <<>>, ready)
  PROVE  DrainTypeOK'
<1>1. <<>> \in Seq(Item) /\ Len(<<>>) <= 2
  BY EmptySeq
<1> QED
  BY <1>1, DrainTypeStep

\* An error or an abort: the list and the accumulator go on, the drain side
\* is flushed.
LEMMA DiscardFacts ==
  ASSUME CamInv, NEW ready \in BOOLEAN, NEW why \in Errors \cup {"ABORTED"},
         Discard(ready, why), symbolsIn' \in Nat, symbolsIn' <= symbolLimit,
         initCycles' \in 0..(2 * NList - 1)
  PROVE  CamInv'
<1>1. ListInv' /\ RunInv' /\ DrainTypeOK'
  BY HoldFacts, RunFacts, QuietDrain DEF CamInv, TypeOK, Discard, Ctls
<1>2. bytesOut' \in Nat
  BY CountFacts DEF CamInv, Discard
<1>3. TypeOK'
  BY <1>1, <1>2 DEF CamInv, TypeOK, ListInv, RunInv, Discard, States, Outcomes, limitVars
<1> QED
  BY <1>1, <1>3 DEF CamInv, Discard, limitVars

\* One edge of the whole mtf_cam keeps the invariant, arm by arm of the FSM.
LEMMA CamInvStep == CamInv /\ [Next]_vars => CamInv'
<1> SUFFICES ASSUME CamInv, [Next]_vars PROVE CamInv'
  OBVIOUS
<1> USE DEF limitVars, countVars, ctrlVars
<1>0. /\ ListInv /\ RunInv /\ DrainTypeOK /\ TypeOK
      /\ fillIdx \in 0..NList /\ NList \in Nat \ {0}
      /\ filling \in BOOLEAN
  BY NListAssumption DEF CamInv, TypeOK, ListTypeOK
<1>1. ASSUME NEW ready \in BOOLEAN, Idle(ready) PROVE CamInv'
  <2>1. ListInv' /\ RunInv' /\ DrainTypeOK' /\ bytesOut' \in Nat
    BY <1>0, <1>1, HoldFacts, RunFacts, QuietDrain, CountFacts DEF Idle, Ctls
  <2>2. TypeOK'
    BY <1>1, <2>1 DEF CamInv, TypeOK, ListInv, RunInv, Idle
  <2> QED
    BY <1>1, <2>1, <2>2 DEF CamInv, Idle
<1>2. ASSUME NEW ready \in BOOLEAN, InitStep(ready) PROVE CamInv'
  <2>1. ListInv' /\ RunInv' /\ DrainTypeOK' /\ bytesOut' \in Nat
    BY <1>0, <1>2, HoldFacts, RunFacts, QuietDrain, CountFacts DEF InitStep, Ctls
  <2>2. fillIdx = initCycles + 1 /\ initCycles \in Nat
    BY <1>2, <1>0 DEF InitStep, CamInv, TypeOK
  <2>3. NextCycle = initCycles + 1 /\ NextCycle \in 0..(2 * NList - 1)
    BY <1>0, <2>2 DEF NextCycle
  <2>4. InitDone <=> ~filling
    BY DEF InitDone, InitBusy
  <2>5. CASE filling
    <3>1. fillIdx' = fillIdx + 1 /\ state' = "INIT" /\ initCycles' = initCycles + 1
      BY <1>0, <1>2, <2>3, <2>4, <2>5, HoldFacts DEF InitStep
    <3>2. TypeOK'
      BY <1>2, <2>1, <2>3, <3>1 DEF CamInv, TypeOK, ListInv, RunInv, InitStep, States
    <3> QED
      BY <1>2, <2>1, <2>2, <3>1, <3>2 DEF CamInv, InitStep
  <2>6. CASE ~filling
    <3>1. /\ fillIdx' = fillIdx /\ ~filling' /\ state' = "DECODE"
          /\ initCycles' = initCycles + 1
      BY <1>0, <1>2, <2>3, <2>4, <2>6, HoldFacts DEF InitStep
    <3>2. TypeOK'
      BY <1>2, <2>1, <2>3, <3>1 DEF CamInv, TypeOK, ListInv, RunInv, InitStep, States
    <3> QED
      BY <1>2, <2>1, <2>2, <3>1, <3>2 DEF CamInv, InitStep
  <2> QED
    BY <2>5, <2>6
<1>3. ASSUME NEW ready \in BOOLEAN, Wait(ready) PROVE CamInv'
  <2>1. ListInv' /\ RunInv' /\ DrainTypeOK' /\ bytesOut' \in Nat
    BY <1>0, <1>3, HoldFacts, RunFacts, QuietDrain, CountFacts DEF Wait, Ctls
  <2>2. TypeOK'
    BY <1>3, <2>1 DEF CamInv, TypeOK, ListInv, RunInv, Wait
  <2>3. ~filling /\ fillIdx' = fillIdx /\ ~filling'
    BY <1>0, <1>3, HoldFacts DEF CamInv, Wait
  <2> QED
    BY <1>3, <2>1, <2>2, <2>3 DEF CamInv, Wait
<1>4. ASSUME NEW ready \in BOOLEAN, DrainStep(ready) PROVE CamInv'
  <2>1. ListInv' /\ RunInv' /\ DrainTypeOK' /\ bytesOut' \in Nat
    BY <1>0, <1>4, HoldFacts, RunFacts, QuietDrain, CountFacts DEF DrainStep, Ctls
  <2>2. flushIssued' \in BOOLEAN
    BY <1>4 DEF DrainStep
  <2>3. TypeOK'
    BY <1>4, <2>1, <2>2 DEF CamInv, TypeOK, ListInv, RunInv, DrainStep
  <2>4. ~filling /\ fillIdx' = fillIdx /\ ~filling'
    BY <1>0, <1>4, HoldFacts DEF CamInv, DrainStep
  <2> QED
    BY <1>4, <2>1, <2>3, <2>4 DEF CamInv, DrainStep
<1>5. ASSUME NEW ready \in BOOLEAN, Done(ready) PROVE CamInv'
  <2>1. ListInv' /\ RunInv' /\ DrainTypeOK' /\ bytesOut' \in Nat
    BY <1>0, <1>5, HoldFacts, RunFacts, QuietDrain, CountFacts DEF Done, Ctls
  <2>2. TypeOK'
    BY <1>5, <2>1 DEF CamInv, TypeOK, ListInv, RunInv, Done, States, Outcomes
  <2> QED
    BY <1>5, <2>1, <2>2 DEF CamInv, Done
<1>6. ASSUME NEW ready \in BOOLEAN, Abort(ready) PROVE CamInv'
  <2>1. initCycles' \in 0..(2 * NList - 1)
    BY <1>0, <1>6 DEF Abort, NextCycle, TypeOK
  <2> QED
    BY <1>6, <2>1, DiscardFacts DEF Abort, CamInv, TypeOK
<1>7. ASSUME NEW ready \in BOOLEAN, NEW b \in Beats, AcceptRun(ready, b)
      PROVE  CamInv'
  <2>1. /\ state = "DECODE" /\ Verdict(b) = "NONE" /\ IsRun(b)
        /\ CanAccept /\ DrainEdge("run", Items(b), ready)
    BY <1>7 DEF AcceptRun, Accept
  <2>2. ListInv' /\ RunInv' /\ bytesOut' \in Nat
    BY <1>0, <1>7, <2>1, HoldFacts, RunFacts, CountFacts, CleanBeat DEF AcceptRun, Accept
  <2>3. DrainTypeOK'
    BY <1>0, <2>1, CleanBeat, DrainTypeStep DEF CanAccept, Ctls
  <2>4. /\ symbolsIn' \in Nat /\ symbolsIn' < symbolLimit
        /\ committed' \in Nat /\ committed' <= bytesLimit
    <3>1. ~ValidEob(b)
      BY <2>1 DEF IsRun, ValidEob
    <3> QED
      BY <1>0, <1>7, <2>1, <3>1, CleanBeat DEF AcceptRun, Accept, TypeOK
  <2>5. TypeOK'
    BY <1>7, <2>2, <2>3, <2>4 DEF CamInv, TypeOK, ListInv, RunInv, AcceptRun, Accept
  <2>6. ~filling /\ fillIdx' = fillIdx /\ ~filling'
    BY <1>0, <1>7, <2>1, HoldFacts DEF CamInv, AcceptRun
  <2> QED
    BY <1>0, <1>7, <2>1, <2>2, <2>4, <2>5, <2>6 DEF CamInv, AcceptRun, Accept, TypeOK
<1>8. ASSUME NEW ready \in BOOLEAN, NEW b \in Beats, AcceptMtf(ready, b)
      PROVE  CamInv'
  <2>1. /\ state = "DECODE" /\ Verdict(b) = "NONE" /\ IsMtf(b)
        /\ CanAccept /\ DrainEdge("run", Items(b), ready) /\ ~filling
    BY <1>8 DEF AcceptMtf, Accept, CamInv
  <2>2. ListStep(FALSE, {}, Rank(b)) /\ Rank(b) \in Live /\ Rank(b) # NoMove
    BY <1>8, <2>1, CleanBeat DEF AcceptMtf
  <2>3. ListInv' /\ fillIdx' = fillIdx /\ ~filling'
    <3>1. ListInv'
      BY <1>0, <2>1, <2>2, ListStepKeepsInv
    <3>2. MoveToFront(Rank(b))
      BY <2>1, <2>2 DEF ListStep, InitBusy
    <3> QED
      BY <2>1, <3>1, <3>2 DEF MoveToFront
  <2>4. RunInv' /\ bytesOut' \in Nat
    BY <1>0, <1>8, RunFacts, CountFacts DEF AcceptMtf, Accept
  <2>5. DrainTypeOK'
    BY <1>0, <2>1, CleanBeat, DrainTypeStep DEF CanAccept, Ctls
  <2>6. /\ symbolsIn' \in Nat /\ symbolsIn' < symbolLimit
        /\ committed' \in Nat /\ committed' <= bytesLimit
    <3>1. ~ValidEob(b)
      BY <2>1 DEF IsMtf, ValidType0, ValidEob
    <3> QED
      BY <1>0, <1>8, <2>1, <3>1, CleanBeat DEF AcceptMtf, Accept, TypeOK
  <2>7. TypeOK'
    BY <1>8, <2>3, <2>4, <2>5, <2>6 DEF CamInv, TypeOK, ListInv, RunInv, AcceptMtf, Accept
  <2> QED
    BY <1>0, <1>8, <2>1, <2>3, <2>4, <2>6, <2>7 DEF CamInv, AcceptMtf, Accept, TypeOK
<1>9. ASSUME NEW ready \in BOOLEAN, NEW b \in Beats, AcceptEob(ready, b)
      PROVE  CamInv'
  <2>1. /\ state = "DECODE" /\ Verdict(b) = "NONE" /\ ValidEob(b)
        /\ CanAccept /\ DrainEdge("run", Items(b), ready)
    BY <1>9 DEF AcceptEob, Accept
  <2>2. ListInv' /\ RunInv' /\ bytesOut' \in Nat
    BY <1>0, <1>9, HoldFacts, RunFacts, CountFacts DEF AcceptEob, Accept
  <2>3. DrainTypeOK'
    BY <1>0, <2>1, CleanBeat, DrainTypeStep DEF CanAccept, Ctls
  <2>4. /\ symbolsIn' \in Nat /\ symbolsIn' <= symbolLimit
        /\ committed' \in Nat /\ committed' <= bytesLimit
    BY <1>0, <1>9, <2>1, CleanBeat DEF CamInv, AcceptEob, Accept, TypeOK
  <2>5. TypeOK'
    BY <1>9, <2>2, <2>3, <2>4
    DEF CamInv, TypeOK, ListInv, RunInv, AcceptEob, Accept, States, FlushIssuedAtEob
  <2>6. ~filling /\ fillIdx' = fillIdx /\ ~filling'
    BY <1>0, <1>9, <2>1, HoldFacts DEF CamInv, AcceptEob
  <2> QED
    BY <1>0, <1>9, <2>1, <2>2, <2>4, <2>5, <2>6 DEF CamInv, AcceptEob, Accept, TypeOK
<1>10. ASSUME NEW ready \in BOOLEAN, NEW b \in Beats, Reject(ready, b)
       PROVE  CamInv'
  <2>1. Verdict(b) \in Errors /\ Discard(ready, Verdict(b))
    BY <1>10 DEF Reject, Verdict, Errors
  <2>2. symbolsIn' \in Nat /\ symbolsIn' <= symbolLimit
    BY <1>10 DEF Reject, CamInv, TypeOK
  <2>3. initCycles' \in 0..(2 * NList - 1)
    BY <1>10 DEF Reject, CamInv, TypeOK
  <2> QED
    BY <2>1, <2>2, <2>3, DiscardFacts
<1>11. ASSUME NEW ready \in BOOLEAN, NEW u \in (SUBSET Bytes) \ {{}},
              NEW s \in SymbolLimits, NEW l \in BytesLimits,
              Doorbell(ready, u, s, l)
       PROVE  CamInv'
  <2>1. ListInv' /\ fillIdx' = 1
    BY <1>0, <1>11, DoorbellFacts DEF Doorbell
  <2>2. RunInv' /\ DrainTypeOK'
    BY <1>0, <1>11, RunFacts, QuietDrain DEF Doorbell, Ctls
  <2>3. s \in Nat \ {0} /\ l \in Nat
    BY LimitsAssumption
  <2>4. TypeOK'
    BY <1>0, <1>11, <2>1, <2>2, <2>3
    DEF TypeOK, ListInv, RunInv, Doorbell, States, Outcomes
  <2> QED
    BY <1>11, <2>1, <2>2, <2>3, <2>4 DEF CamInv, Doorbell
<1>12. CASE UNCHANGED vars
  <2>1. UNCHANGED listVars /\ UNCHANGED runVars /\ UNCHANGED drainVars
    BY <1>12 DEF vars
  <2>2. ListInv'
    BY <1>0, <2>1, ListInvStep
  <2>3. RunInv'
    BY <1>0, <2>1, RunInvStep
  <2>4. DrainTypeOK'
    BY <1>0, <2>1 DEF drainVars, DrainTypeOK
  <2> QED
    BY <1>12, <2>1, <2>2, <2>3, <2>4
    DEF vars, listVars, CamInv, TypeOK, ListInv, RunInv
<1> QED
  BY <1>1, <1>2, <1>3, <1>4, <1>5, <1>6, <1>7, <1>8, <1>9, <1>10, <1>11, <1>12
  DEF Next, Advance, Symbol

LEMMA CamInvariant == Spec => []CamInv
  BY CamInvInit, CamInvStep, PTL DEF Spec

\* The registers of mtf_cam keep their types.
THEOREM CamTypes == Spec => []TypeOK
  BY CamInvariant, PTL DEF CamInv

\* mtf_ctrl.sv decodes only with the finished list of its own used map, also
\* after an abort in the middle of a fill.
THEOREM CamListReady == Spec => []DecodeListReady
<1>1. CamInv => DecodeListReady
  BY DEF CamInv, DecodeListReady, ListInv, FillProgress
<1> QED
  BY <1>1, CamInvariant, PTL

\* mtf_cam.sv never commits more bytes than BYTES_LIMIT (p_bytes_budget), nor
\* accepts more beats than SYMBOL_LIMIT.
THEOREM CamBudgets == Spec => [](BytesBudget /\ SymbolBudget)
<1>1. CamInv => BytesBudget /\ SymbolBudget
  BY DEF CamInv, BytesBudget, SymbolBudget
<1> QED
  BY <1>1, CamInvariant, PTL

-----------------------------------------------------------------------------
(* The beats: what reaches m_l, and when the block is over.                  *)

\* Until the final flush is issued the packer holds a byte back whenever a beat
\* is on offer, so there is always one left to carry TLAST.
Streaming == state \in {"INIT", "DECODE"} \/ (state = "DRAIN" /\ ~flushIssued)

FullBeat == out # <<>> => buf # <<>> /\ ~out[1].last /\ Len(out[1].bytes) = W

StreamInv ==
  /\ IdleQuiet /\ LastBeatIsLast /\ FlushEndsBlock
  /\ Streaming => ~flushing /\ FullBeat
  /\ state = "IDLE" /\ flushing => ~flushLast

\* mtf_pack.sv: without input, or while flushing, no full beat is forced out.
LEMMA NoInputFacts ==
  ASSUME DrainTypeOK, NEW ctl, NEW ready, exp = <<>> \/ ~PackReady(ctl, ready)
  PROVE  Merged(ctl, ready) = buf /\ ~EmitFull(ctl, ready)
<1>1. Len(buf) \in Nat /\ Len(buf) <= W
  BY LenProperties DEF DrainTypeOK
<1> QED
  BY <1>1, MergedFacts, LaneAssumption DEF EmitFull

\* mtf_pack.sv between the doorbell and the final flush.
LEMMA StreamEdge ==
  ASSUME DrainTypeOK, ~flushing, FullBeat, NEW ready \in BOOLEAN, NEW wr,
         DrainEdge("run", wr, ready)
  PROVE  ~flushing' /\ FullBeat'
<1> DEFINE m == Merged("run", ready)
<1>1. ~FlushActive("run") /\ ~EmitFlush("run", ready)
  BY DEF FlushActive, EmitFlush
<1>2. /\ m \in Seq(Bytes) /\ buf \in Seq(Bytes) /\ Len(m) \in Nat /\ Len(buf) \in Nat
      /\ Len(m) >= Len(buf) /\ W \in Nat \ {0} /\ Len(m) <= 2 * W
  BY MergedFacts, LenProperties, LaneAssumption DEF DrainTypeOK
<1>3. /\ buf' = BufAfter("run", ready) /\ out' = OutAfter("run", ready)
      /\ EmitFull("run", ready) <=> Len(m) > W
      /\ ~flushing'
  BY <1>1 DEF DrainEdge, EmitFull
<1>4. CASE Len(m) > W
  <2>1. /\ out' = <<[bytes |-> SubSeq(m, 1, W), last |-> FALSE]>>
        /\ buf' = SubSeq(m, W + 1, Len(m))
    BY <1>1, <1>3, <1>4 DEF OutAfter, BufAfter
  <2> HIDE DEF m
  <2>2. \A i \in 1..Len(m) : m[i] \in Bytes
    BY <1>2, ElementOfSeq
  <2>3. (\A i \in 1..W : m[i] \in Bytes) /\ (\A i \in (W + 1)..Len(m) : m[i] \in Bytes)
    BY <1>2, <1>4, <2>2
  <2>4. Len(SubSeq(m, 1, W)) = W
    BY <1>2, <2>3, SubSeqProperties
  <2>5. SubSeq(m, W + 1, Len(m)) \in Seq(Bytes) /\ Len(SubSeq(m, W + 1, Len(m))) > 0
    BY <1>2, <1>4, <2>3, SubSeqProperties
  <2>6. SubSeq(m, W + 1, Len(m)) # <<>>
    <3> DEFINE s == SubSeq(m, W + 1, Len(m))
    <3>1. s \in Seq(Bytes) /\ Len(s) > 0
      BY <2>5
    <3> HIDE DEF s
    <3>2. s # <<>>
      BY <3>1, EmptySeq
    <3> QED
      BY <3>2 DEF s
  <2>7. out'[1].last = FALSE /\ out'[1].bytes = SubSeq(m, 1, W)
    BY <2>1
  <2>8. Len(out'[1].bytes) = W
    BY <2>4, <2>7
  <2>9. FullBeat'
    BY <2>1, <2>6, <2>7, <2>8 DEF FullBeat
  <2> QED
    BY <1>3, <2>9
<1>5. CASE ~(Len(m) > W)
  <2>1. out' = (IF ready THEN <<>> ELSE out) /\ buf' = m
    BY <1>1, <1>3, <1>5 DEF OutAfter, BufAfter
  <2>2. buf # <<>> => m # <<>>
    BY <1>2, EmptySeq
  <2> QED
    BY <1>3, <2>1, <2>2 DEF FullBeat
<1> QED
  BY <1>4, <1>5

\* mtf_expand.sv and mtf_pack.sv with nothing more to come: the buffered bytes
\* leave as one flush beat as soon as the output register is free.
LEMMA SettleEdge ==
  ASSUME DrainTypeOK, NEW ctl \in {"run", "last", "stop"}, NEW ready \in BOOLEAN,
         ctl = "stop" \/ DrainReady,
         DrainEdge(ctl, <<>>, ready)
  PROVE  /\ fifo' = <<>> /\ exp' = <<>>
         /\ buf' = IF EmitFlush(ctl, ready) THEN <<>> ELSE buf
         /\ out' = IF EmitFlush(ctl, ready)
                     THEN <<[bytes |-> buf, last |-> FlushLast(ctl)]>>
                     ELSE IF ready THEN <<>> ELSE out
         /\ flushing' = (FlushActive(ctl) /\ buf # <<>> /\ ~EmitFlush(ctl, ready))
         /\ flushLast' = FlushLast(ctl)
<1>1. exp = <<>> \/ ~PackReady(ctl, ready)
  BY DEF DrainReady, PackReady, FlushActive
<1>2. Merged(ctl, ready) = buf /\ ~EmitFull(ctl, ready)
  BY <1>1, NoInputFacts
<1>3. /\ buf' = (IF EmitFlush(ctl, ready) THEN <<>> ELSE buf)
      /\ out' = (IF EmitFlush(ctl, ready)
                    THEN <<[bytes |-> buf, last |-> FlushLast(ctl)]>>
                    ELSE IF ready THEN <<>> ELSE out)
  BY <1>2 DEF DrainEdge, BufAfter, OutAfter
<1>4. flushing' = (FlushActive(ctl) /\ buf # <<>> /\ ~EmitFlush(ctl, ready))
  BY DEF DrainEdge
<1>5. flushLast' = FlushLast(ctl)
  BY DEF DrainEdge, FlushLast, DrainTypeOK
<1>6. CASE ctl = "stop"
  BY <1>3, <1>4, <1>5, <1>6 DEF DrainEdge, ExpandAfter, Queue!QueueAfter
<1>7. CASE ctl # "stop"
  <2>1. fifo = <<>> /\ exp = <<>>
    BY <1>7 DEF DrainReady, Queue!Readable
  <2>2. ~Pop(ctl, ready)
    BY <2>1 DEF Pop, Queue!Readable
  <2>3. exp' = <<>>
    BY <1>7, <2>1, <2>2 DEF DrainEdge, ExpandAfter
  <2>4. fifo' = <<>> \o <<>>
    BY <1>7, <2>1, <2>2 DEF DrainEdge, Queue!QueueAfter, Queue!Dequeue
  <2>5. <<>> \o <<>> = <<>>
    BY EmptySeq, ConcatEmptySeq
  <2> QED
    BY <1>3, <1>4, <1>5, <2>3, <2>4, <2>5
<1> QED
  BY <1>6, <1>7

LEMMA DiscardEdge ==
  ASSUME DrainTypeOK, fifo = <<>>, exp = <<>>, NEW ready \in BOOLEAN,
         DrainEdge("discard", <<>>, ready)
  PROVE  out' = <<>> /\ buf' = <<>> /\ ~flushing'
  BY DEF DrainEdge, OutAfter, BufAfter

LEMMA StreamInvInit == Init => StreamInv
  BY DEF Init, DrainInit, StreamInv, IdleQuiet, LastBeatIsLast, FlushEndsBlock, Streaming

\* An error or an abort: whatever was queued is dropped, and what is flushed
\* carries no TLAST.
LEMMA StreamDiscard ==
  ASSUME CamInv, StreamInv, NEW ready \in BOOLEAN, NEW why, Discard(ready, why)
  PROVE  StreamInv'
<1>1. DrainTypeOK /\ DrainEdge("stop", <<>>, ready) /\ state' = "IDLE"
      /\ flushIssued' = flushIssued
  BY DEF CamInv, TypeOK, Discard
<1>2. /\ fifo' = <<>> /\ exp' = <<>> /\ ~flushLast'
      /\ buf' = IF EmitFlush("stop", ready) THEN <<>> ELSE buf
      /\ out' = IF EmitFlush("stop", ready)
                  THEN <<[bytes |-> buf, last |-> FALSE]>>
                  ELSE IF ready THEN <<>> ELSE out
  <2>1. FlushLast("stop") = FALSE
    BY DEF FlushLast
  <2> QED
    BY <1>1, <2>1, SettleEdge
<1>3. LastBeatIsLast'
  <2>1. CASE EmitFlush("stop", ready)
    <3>1. out'[1] = [bytes |-> buf, last |-> FALSE]
      BY <1>2, <2>1
    <3> QED
      BY <1>1, <3>1 DEF LastBeatIsLast
  <2>2. CASE ~EmitFlush("stop", ready)
    <3>1. out' # <<>> => out' = out /\ buf' = buf
      BY <1>2, <2>2
    <3> QED
      BY <1>1, <1>2, <3>1 DEF StreamInv, LastBeatIsLast, DrainReady, Queue!Readable
  <2> QED
    BY <2>1, <2>2
<1> QED
  BY <1>1, <1>2, <1>3 DEF StreamInv, IdleQuiet, FlushEndsBlock, Streaming

\* INIT and DECODE, and DRAIN while bytes are still on the way to the packer:
\* every beat is full and none is the last.
LEMMA StreamGoesOn ==
  ASSUME CamInv, StreamInv, Streaming, NEW ready \in BOOLEAN, NEW wr,
         DrainEdge("run", wr, ready),
         state' \in {"INIT", "DECODE"} \/ (state' = "DRAIN" /\ ~flushIssued')
  PROVE  StreamInv'
<1>1. ~flushing' /\ FullBeat'
  BY StreamEdge DEF CamInv, TypeOK, StreamInv
<1>2. LastBeatIsLast'
  BY <1>1 DEF LastBeatIsLast, FullBeat
<1> QED
  BY <1>1, <1>2 DEF StreamInv, IdleQuiet, FlushEndsBlock, Streaming

\* One edge of the whole mtf_cam keeps the invariant of the beats.
LEMMA StreamInvStep == CamInv /\ StreamInv /\ [Next]_vars => StreamInv'
<1> SUFFICES ASSUME CamInv, StreamInv, [Next]_vars PROVE StreamInv'
  OBVIOUS
<1> USE DEF ctrlVars
<1>0. DrainTypeOK
  BY DEF CamInv, TypeOK
<1>1. ASSUME NEW ready \in BOOLEAN, Idle(ready) PROVE StreamInv'
  <2>1. /\ DrainReady /\ DrainEdge("run", <<>>, ready)
        /\ state = "IDLE" /\ state' = "IDLE" /\ flushIssued' = flushIssued
    BY <1>1 DEF Idle, StreamInv, IdleQuiet, DrainReady, Queue!Readable
  <2>2. /\ fifo' = <<>> /\ exp' = <<>> /\ flushLast' = flushLast
        /\ buf' = IF EmitFlush("run", ready) THEN <<>> ELSE buf
        /\ out' = IF EmitFlush("run", ready)
                    THEN <<[bytes |-> buf, last |-> flushLast]>>
                    ELSE IF ready THEN <<>> ELSE out
        /\ flushing' => flushing
        /\ EmitFlush("run", ready) => flushing
    <3>1. FlushLast("run") = flushLast /\ (FlushActive("run") <=> flushing)
      BY DEF FlushLast, FlushActive
    <3> QED
      BY <1>0, <2>1, <3>1, SettleEdge DEF EmitFlush
  <2>3. LastBeatIsLast'
    <3>1. CASE EmitFlush("run", ready)
      <4>1. out'[1] = [bytes |-> buf, last |-> flushLast] /\ ~flushLast
        BY <2>1, <2>2, <3>1 DEF StreamInv
      <4> QED
        BY <2>1, <4>1 DEF LastBeatIsLast
    <3>2. CASE ~EmitFlush("run", ready)
      <4>1. out' # <<>> => out' = out /\ buf' = buf
        BY <2>2, <3>2
      <4> QED
        BY <2>1, <2>2, <4>1 DEF StreamInv, LastBeatIsLast, DrainReady, Queue!Readable
    <3> QED
      BY <3>1, <3>2
  <2> QED
    BY <2>1, <2>2, <2>3 DEF StreamInv, IdleQuiet, FlushEndsBlock, Streaming
<1>2. ASSUME NEW ready \in BOOLEAN, InitStep(ready) PROVE StreamInv'
  BY <1>2, StreamGoesOn DEF InitStep, Streaming
<1>3. ASSUME NEW ready \in BOOLEAN, Wait(ready) PROVE StreamInv'
  BY <1>3, StreamGoesOn DEF Wait, Streaming
<1>4. ASSUME NEW ready \in BOOLEAN, DrainStep(ready) PROVE StreamInv'
  <2>1. state = "DRAIN" /\ state' = "DRAIN"
    BY <1>4 DEF DrainStep
  <2>2. CASE ~flushIssued /\ ~DrainReady
    <3>1. ~flushIssued' /\ DrainEdge("run", <<>>, ready)
      BY <1>4, <2>2 DEF DrainStep, IssueFlush
    <3> QED
      BY <2>1, <2>2, <3>1, StreamGoesOn DEF Streaming
  <2>3. CASE ~flushIssued /\ DrainReady
    <3>1. flushIssued' /\ DrainEdge("last", <<>>, ready)
      BY <1>4, <2>3 DEF DrainStep, IssueFlush
    <3>2. FlushLast("last") = TRUE /\ FlushActive("last")
      BY DEF FlushLast, FlushActive
    <3>3. /\ fifo' = <<>> /\ exp' = <<>> /\ flushLast'
          /\ buf' = IF EmitFlush("last", ready) THEN <<>> ELSE buf
          /\ out' = IF EmitFlush("last", ready)
                      THEN <<[bytes |-> buf, last |-> TRUE]>>
                      ELSE IF ready THEN <<>> ELSE out
          /\ flushing' = (buf # <<>> /\ ~EmitFlush("last", ready))
      BY <1>0, <2>3, <3>1, <3>2, SettleEdge
    <3>4. FullBeat
      BY <2>1, <2>3 DEF StreamInv, Streaming
    <3>5. LastBeatIsLast' /\ FlushEndsBlock'
      <4>1. DrainReady'
        BY <3>3 DEF DrainReady, Queue!Readable
      <4>2. CASE EmitFlush("last", ready)
        <5>1. out'[1] = [bytes |-> buf, last |-> TRUE] /\ buf' = <<>>
          BY <3>3, <4>2
        <5> QED
          BY <3>1, <4>1, <5>1 DEF LastBeatIsLast, FlushEndsBlock
      <4>3. CASE ~EmitFlush("last", ready)
        <5>1. buf' = buf /\ (out' # <<>> => out' = out) /\ flushing' = (buf # <<>>)
          BY <3>3, <4>3
        <5>2. LastBeatIsLast'
          BY <3>4, <5>1 DEF LastBeatIsLast, FullBeat
        <5>3. FlushEndsBlock'
          BY <3>3, <3>4, <4>1, <5>1 DEF FlushEndsBlock, FullBeat
        <5> QED
          BY <5>2, <5>3
      <4> QED
        BY <4>2, <4>3
    <3> QED
      BY <2>1, <3>1, <3>5 DEF StreamInv, IdleQuiet, Streaming
  <2>4. CASE flushIssued
    <3>1. /\ flushIssued' /\ DrainEdge("run", <<>>, ready)
          /\ DrainReady
      BY <1>4, <2>1, <2>4 DEF DrainStep, IssueFlush, StreamInv, FlushEndsBlock
    <3>2. FlushLast("run") = flushLast /\ (FlushActive("run") <=> flushing)
      BY DEF FlushLast, FlushActive
    <3>3. /\ fifo' = <<>> /\ exp' = <<>> /\ flushLast' = flushLast
          /\ buf' = IF EmitFlush("run", ready) THEN <<>> ELSE buf
          /\ out' = IF EmitFlush("run", ready)
                      THEN <<[bytes |-> buf, last |-> flushLast]>>
                      ELSE IF ready THEN <<>> ELSE out
          /\ flushing' = (flushing /\ buf # <<>> /\ ~EmitFlush("run", ready))
      BY <1>0, <3>1, <3>2, SettleEdge
    <3>4. DrainReady'
      BY <3>3 DEF DrainReady, Queue!Readable
    <3>5. LastBeatIsLast' /\ FlushEndsBlock'
      <4>1. CASE EmitFlush("run", ready)
        <5>1. buf # <<>> /\ flushing /\ flushLast
          BY <2>1, <2>4, <3>2, <4>1 DEF EmitFlush, StreamInv, FlushEndsBlock
        <5>2. out'[1] = [bytes |-> buf, last |-> flushLast] /\ buf' = <<>>
          BY <3>3, <4>1
        <5> QED
          BY <3>1, <3>4, <5>1, <5>2 DEF LastBeatIsLast, FlushEndsBlock
      <4>2. CASE ~EmitFlush("run", ready)
        <5>1. /\ buf' = buf /\ (out' # <<>> => out' = out)
              /\ flushing' = (flushing /\ buf # <<>>)
          BY <3>3, <4>2
        <5>2. LastBeatIsLast'
          BY <2>1, <3>1, <3>4, <5>1 DEF StreamInv, LastBeatIsLast
        <5>3. FlushEndsBlock'
          BY <2>1, <2>4, <3>3, <3>4, <5>1 DEF StreamInv, FlushEndsBlock
        <5> QED
          BY <5>2, <5>3
      <4> QED
        BY <4>1, <4>2
    <3> QED
      BY <2>1, <3>1, <3>5 DEF StreamInv, IdleQuiet, Streaming
  <2> QED
    BY <2>2, <2>3, <2>4
<1>5. ASSUME NEW ready \in BOOLEAN, Done(ready) PROVE StreamInv'
  <2>1. /\ DrainReady /\ buf = <<>> /\ out = <<>> /\ ~flushing
        /\ DrainEdge("run", <<>>, ready) /\ state' = "IDLE"
    BY <1>5 DEF Done, DoneNow, PackIdle, StreamInv, FlushEndsBlock
  <2>2. ~EmitFlush("run", ready) /\ ~FlushActive("run")
    BY <2>1 DEF EmitFlush, FlushActive
  <2>3. fifo' = <<>> /\ exp' = <<>> /\ buf' = <<>> /\ out' = <<>> /\ ~flushing'
    BY <1>0, <2>1, <2>2, SettleEdge
  <2> QED
    BY <2>1, <2>3 DEF StreamInv, IdleQuiet, LastBeatIsLast, FlushEndsBlock, Streaming
<1>6. ASSUME NEW ready \in BOOLEAN, Abort(ready) PROVE StreamInv'
  BY <1>6, StreamDiscard DEF Abort
<1>7. ASSUME NEW ready \in BOOLEAN, NEW b \in Beats, AcceptRun(ready, b)
      PROVE  StreamInv'
  BY <1>7, StreamGoesOn DEF AcceptRun, Accept, Streaming
<1>8. ASSUME NEW ready \in BOOLEAN, NEW b \in Beats, AcceptMtf(ready, b)
      PROVE  StreamInv'
  BY <1>8, StreamGoesOn DEF AcceptMtf, Accept, Streaming
<1>9. ASSUME NEW ready \in BOOLEAN, NEW b \in Beats, AcceptEob(ready, b)
      PROVE  StreamInv'
  BY <1>9, StreamGoesOn DEF AcceptEob, Accept, Streaming, FlushIssuedAtEob
<1>10. ASSUME NEW ready \in BOOLEAN, NEW b \in Beats, Reject(ready, b)
       PROVE  StreamInv'
  BY <1>10, StreamDiscard DEF Reject
<1>11. ASSUME NEW ready \in BOOLEAN, NEW u \in (SUBSET Bytes) \ {{}},
              NEW s \in SymbolLimits, NEW l \in BytesLimits,
              Doorbell(ready, u, s, l)
       PROVE  StreamInv'
  <2>1. /\ fifo = <<>> /\ exp = <<>> /\ DrainEdge("discard", <<>>, ready)
        /\ state' = "INIT"
    BY <1>11 DEF Doorbell, StreamInv, IdleQuiet
  <2>2. out' = <<>> /\ buf' = <<>> /\ ~flushing'
    BY <1>0, <2>1, DiscardEdge
  <2> QED
    BY <2>1, <2>2
    DEF StreamInv, IdleQuiet, LastBeatIsLast, FlushEndsBlock, Streaming, FullBeat
<1>12. CASE UNCHANGED vars
  BY <1>12
  DEF vars, drainVars, StreamInv, IdleQuiet, LastBeatIsLast, FlushEndsBlock,
      Streaming, FullBeat, DrainReady, Queue!Readable
<1> QED
  BY <1>1, <1>2, <1>3, <1>4, <1>5, <1>6, <1>7, <1>8, <1>9, <1>10, <1>11, <1>12
  DEF Next, Advance, Symbol

LEMMA StreamInvariant == Spec => [](CamInv /\ StreamInv)
<1>1. Init => CamInv /\ StreamInv
  BY CamInvInit, StreamInvInit
<1>2. CamInv /\ StreamInv /\ [Next]_vars => (CamInv /\ StreamInv)'
  BY CamInvStep, StreamInvStep
<1> QED
  BY <1>1, <1>2, PTL DEF Spec

\* mtf_expand.sv, item_fifo.sv: an error or an abort leaves no item behind that
\* the next block could emit.
THEOREM CamIdleQuiet == Spec => []IdleQuiet
  BY StreamInvariant, PTL DEF StreamInv

\* mtf_pack.sv: TLAST is on the last byte of the block, and only a cut-short
\* block has a beat that is neither full nor last.
THEOREM CamLastBeat == Spec => []LastBeatIsLast
  BY StreamInvariant, PTL DEF StreamInv

\* mtf_ctrl.sv with mtf_pack.sv: once the final flush is issued, what is left
\* of the block ends with a TLAST beat.
THEOREM CamFlushEnds == Spec => []FlushEndsBlock
  BY StreamInvariant, PTL DEF StreamInv

\* mtf_pack.sv, o_free_next: with the register full and no handshake nothing
\* can replace the beat.
LEMMA StalledBeat ==
  ASSUME DrainTypeOK, NEW ctl \in {"run", "last", "stop"}, NEW wr, NEW ready \in BOOLEAN,
         out # <<>>, LanesOut(ready) = 0, DrainEdge(ctl, wr, ready)
  PROVE  out' = out
<1>1. ~ready
  <2>1. Len(out[1].bytes) \in 1..W
    BY DEF DrainTypeOK
  <2> QED
    BY <2>1, LaneAssumption DEF LanesOut
<1>2. ~OutFree(ready)
  BY <1>1 DEF OutFree
<1>3. ~EmitFull(ctl, ready) /\ ~EmitFlush(ctl, ready)
  BY <1>2, NoInputFacts DEF PackReady, EmitFlush
<1> QED
  BY <1>1, <1>3 DEF DrainEdge, OutAfter

\* m_l AXI4-Stream (p_ml_stable): an offered beat stays as it is until it is
\* taken; only the doorbell withdraws one.
THEOREM CamBeatStable == Spec => BeatStable
<1>1. CamInv /\ [Next]_vars =>
        [out # <<>> /\ bytesOut' = bytesOut /\ ~(state = "IDLE" /\ state' = "INIT")
           => out' = out]_vars
  <2> SUFFICES ASSUME CamInv, Next, out # <<>>, bytesOut' = bytesOut,
                      ~(state = "IDLE" /\ state' = "INIT")
               PROVE  out' = out
    OBVIOUS
  <2>1. TypeOK /\ DrainTypeOK
    BY DEF CamInv, TypeOK
  <2>2. ASSUME NEW ready \in BOOLEAN, CountOut(ready) PROVE LanesOut(ready) = 0
    BY <2>1, <2>2, CountFacts DEF CountOut, TypeOK
  <2>3. ASSUME NEW ready \in BOOLEAN, CountOut(ready),
               \E ctl \in {"run", "last", "stop"} : \E wr : DrainEdge(ctl, wr, ready)
        PROVE  out' = out
    BY <2>1, <2>2, <2>3, StalledBeat
  <2>4. ASSUME NEW ready \in BOOLEAN, Advance(ready) PROVE out' = out
    BY <2>3, <2>4 DEF Advance, Idle, InitStep, Wait, DrainStep, Done
  <2>5. ASSUME NEW ready \in BOOLEAN, Abort(ready) PROVE out' = out
    BY <2>3, <2>5 DEF Abort, Discard
  <2>6. ASSUME NEW ready \in BOOLEAN, NEW b \in Beats, Symbol(ready, b)
        PROVE  out' = out
    BY <2>3, <2>6 DEF Symbol, AcceptRun, AcceptMtf, AcceptEob, Accept, Reject, Discard
  <2>7. ~(\E ready \in BOOLEAN, u \in (SUBSET Bytes) \ {{}}, s \in SymbolLimits,
            l \in BytesLimits : Doorbell(ready, u, s, l))
    BY DEF Doorbell
  <2> QED
    BY <2>4, <2>5, <2>6, <2>7 DEF Next
<1> QED
  BY <1>1, CamInvariant, PTL DEF Spec, BeatStable

-----------------------------------------------------------------------------
(* The bytes of a line of items and of the beats delivered.                  *)

Copies(item) == [i \in 1..item.count |-> item.byte]
JoinOp(p, bytes, item) == bytes \o Copies(item)
Join == INSTANCE FoldLaws WITH Op <- JoinOp

\* What the expander makes of a line of items.
Flat(items) == Join!Fold(0, <<>>, items)

LEMMA CopiesType ==
  ASSUME NEW item \in Item
  PROVE  Copies(item) \in Seq(Bytes) /\ Len(Copies(item)) = item.count
<1>1. item.count \in Nat /\ item.byte \in Bytes
  BY RunAssumption DEF Item
<1> QED
  BY <1>1 DEF Copies

LEMMA Joined == \A s, t \in Seq(Bytes) : s \o t \in Seq(Bytes)
  BY ConcatProperties

LEMMA Regroup == \A s, t, u \in Seq(Bytes) : (s \o t) \o u = s \o (t \o u)
  BY ConcatAssociative

LEMMA RegroupItems == \A s, t, u \in Seq(Item) : (s \o t) \o u = s \o (t \o u)
  BY ConcatAssociative

LEMMA OneItem == \A s \in Seq(Item) : Len(s) = 1 => s[1] \in Item /\ s = <<s[1]>>
  OBVIOUS

LEMMA AppendItem == \A s \in Seq(Item), x \in Item : Append(s, x) = s \o <<x>>
  BY AppendIsConcat

LEMMA AppendRegroups ==
  \A front, t, x : front \in Seq(Item) /\ t \in Seq(Item) /\ x \in Item =>
    front \o Append(t, x) = Append(front \o t, x) /\ front \o t \in Seq(Item)
<1> SUFFICES ASSUME NEW front \in Seq(Item), NEW t \in Seq(Item), NEW x \in Item
             PROVE  front \o Append(t, x) = Append(front \o t, x) /\ front \o t \in Seq(Item)
  OBVIOUS
<1>1. front \o t \in Seq(Item)
  BY ConcatProperties
<1>2. <<x>> \in Seq(Item)
  OBVIOUS
<1>3. Append(t, x) = t \o <<x>> /\ Append(front \o t, x) = (front \o t) \o <<x>>
  BY <1>1, AppendItem
<1>4. (front \o t) \o <<x>> = front \o (t \o <<x>>)
  BY <1>2, RegroupItems
<1> QED
  BY <1>1, <1>3, <1>4

\* Concatenation under a name of its own: with the sequence theory out of sight,
\* the provers regroup by the two laws alone.
Cat(s, t) == s \o t

LEMMA CatLaws ==
  /\ \A s, t \in Seq(Bytes) : Cat(s, t) \in Seq(Bytes)
  /\ \A s, t, u \in Seq(Bytes) : Cat(Cat(s, t), u) = Cat(s, Cat(t, u))
  BY Joined, Regroup DEF Cat

LEMMA FlatNone == Flat(<<>>) = <<>>
  BY Join!FoldNothing DEF Flat

LEMMA FlatAppend ==
  ASSUME NEW items \in Seq(Item), NEW item \in Item
  PROVE  Flat(Append(items, item)) = Flat(items) \o Copies(item)
  BY Join!FoldAppend DEF Flat, JoinOp

\* A set of natural numbers has a least one: what fails somewhere fails first.
LEMMA LeastOne == \A S : S \subseteq Nat /\ S # {} => \E n \in S : \A m \in S : ~(m < n)
<1> SUFFICES ASSUME NEW S, S \subseteq Nat, S # {} PROVE \E n \in S : \A m \in S : ~(m < n)
  OBVIOUS
<1>1. PICK n \in S : \A m \in S : <<m, n>> \notin OpToRel(<, Nat)
  BY WFMin, NatLessThanWellFounded, Zenon
<1>2. \A m \in S : ~(m < n)
  BY <1>1, Zenon DEF OpToRel
<1> QED
  BY <1>2

LEMMA FlatType == \A items \in Seq(Item) : Flat(items) \in Seq(Bytes)
<1>. DEFINE Bad == {Len(s) : s \in {t \in Seq(Item) : Flat(t) \notin Seq(Bytes)}}
<1> SUFFICES ASSUME Bad # {} PROVE FALSE
  OBVIOUS
<1>1. Bad \subseteq Nat
  BY LenProperties
<1>2. PICK n \in Bad : \A m \in Bad : ~(m < n)
  <2> HIDE DEF Bad
  <2> QED
    BY ONLY Bad # {}, <1>1, LeastOne
<1>3. PICK s \in Seq(Item) : Len(s) = n /\ Flat(s) \notin Seq(Bytes)
  BY <1>2
<1>4. s # <<>>
  BY <1>3, FlatNone, EmptySeq
<1>5. PICK t \in Seq(Item), x \in Item : s = Append(t, x)
  BY <1>4, SequenceEmptyOrAppend
<1>6. Len(t) \in Nat /\ n \in Nat /\ Len(t) < n
  BY <1>3, <1>5, AppendProperties, LenProperties
<1>7. Flat(t) \in Seq(Bytes)
  <2>1. Len(t) \notin Bad
    BY <1>2, <1>6
  <2> QED
    BY <2>1
<1>8. Flat(s) = Flat(t) \o Copies(x)
  BY <1>5, FlatAppend
<1> QED
  BY <1>3, <1>7, <1>8, CopiesType, ConcatProperties

\* Items that join the line at its end come out behind the others.
LEMMA FlatConcat ==
  \A front, items \in Seq(Item) : Flat(front \o items) = Flat(front) \o Flat(items)
<1> SUFFICES ASSUME NEW front \in Seq(Item)
             PROVE  \A items \in Seq(Item) : Flat(front \o items) = Flat(front) \o Flat(items)
  OBVIOUS
<1>. DEFINE Wrong(t) == Flat(front \o t) # Flat(front) \o Flat(t)
            Bad == {Len(s) : s \in {t \in Seq(Item) : Wrong(t)}}
<1> SUFFICES ASSUME Bad # {} PROVE FALSE
  OBVIOUS
<1>1. Bad \subseteq Nat
  BY LenProperties
<1>2. PICK n \in Bad : \A m \in Bad : ~(m < n)
  <2> HIDE DEF Bad
  <2> QED
    BY ONLY Bad # {}, <1>1, LeastOne
<1>3. PICK s \in Seq(Item) : Len(s) = n /\ Wrong(s)
  BY <1>2
<1>4. s # <<>>
  <2> SUFFICES ASSUME s = <<>> PROVE FALSE
    OBVIOUS
  <2>1. front \o s = front
    BY ConcatEmptySeq
  <2>2. Flat(front) \o Flat(s) = Flat(front)
    BY FlatNone, FlatType, ConcatEmptySeq
  <2> QED
    BY <1>3, <2>1, <2>2
<1>5. PICK t \in Seq(Item), x \in Item : s = Append(t, x)
  BY <1>4, SequenceEmptyOrAppend
<1>6. Len(t) \in Nat /\ n \in Nat /\ Len(t) < n
  BY <1>3, <1>5, AppendProperties, LenProperties
<1>7. ~Wrong(t)
  <2>1. Len(t) \notin Bad
    BY <1>2, <1>6
  <2> HIDE DEF Wrong
  <2> QED
    BY <2>1
<1>8. front \o s = Append(front \o t, x) /\ front \o t \in Seq(Item)
  <2>1. front \o Append(t, x) = Append(front \o t, x) /\ front \o t \in Seq(Item)
    BY ONLY front \in Seq(Item), t \in Seq(Item), x \in Item, AppendRegroups, Zenon
  <2> QED
    BY <1>5, <2>1, Zenon
<1>9. Flat(front \o s) = (Flat(front) \o Flat(t)) \o Copies(x)
  BY <1>7, <1>8, FlatAppend
<1>10. Flat(s) = Flat(t) \o Copies(x) /\ Flat(t) \in Seq(Bytes) /\ Copies(x) \in Seq(Bytes)
  BY <1>5, FlatAppend, FlatType, CopiesType
<1>11. (Flat(front) \o Flat(t)) \o Copies(x) = Flat(front) \o (Flat(t) \o Copies(x))
  <2>1. Flat(front) \in Seq(Bytes)
    BY FlatType
  <2> QED
    BY <1>10, <2>1, Joined, Regroup
<1> QED
  BY <1>3, <1>9, <1>10, <1>11

LEMMA FlatOne == \A item \in Item : Flat(<<item>>) = Copies(item)
<1> TAKE item \in Item
<1>1. <<item>> = Append(<<>>, item)
  OBVIOUS
<1>2. Flat(<<item>>) = <<>> \o Copies(item)
  BY <1>1, FlatAppend, FlatNone, EmptySeq
<1> QED
  BY <1>2, CopiesType, ConcatEmptySeq

\* The expander takes the items from the head of the line.
LEMMA FlatCons ==
  \A items \in Seq(Item) : \A item \in Item :
    Flat(<<item>> \o items) = Copies(item) \o Flat(items)
<1> TAKE items \in Seq(Item)
<1> TAKE item \in Item
<1>1. <<item>> \in Seq(Item)
  OBVIOUS
<1> QED
  BY <1>1, FlatConcat, FlatOne

-----------------------------------------------------------------------------
(* One edge of the drain side neither loses nor makes up a byte.             *)

\* The bytes of the beat on offer, and those handed over on this edge.
OnOffer == IF out = <<>> THEN <<>> ELSE out[1].bytes
Handed(ready) == IF ready THEN OnOffer ELSE <<>>

LEMMA DrainParts ==
  ASSUME DrainTypeOK, NEW ctl, NEW ready
  PROVE  /\ OnOffer \in Seq(Bytes) /\ Handed(ready) \in Seq(Bytes) /\ buf \in Seq(Bytes)
         /\ Accepted(ctl, ready) \in Seq(Bytes)
         /\ exp # <<>> => exp[1] \in Item /\ exp = <<exp[1]>>
<1>1. OnOffer \in Seq(Bytes)
  <2>1. out # <<>> => out[1] \in Beat
    BY EmptySeq, ElementOfSeq DEF DrainTypeOK
  <2> QED
    BY <2>1 DEF OnOffer, Beat
<1>2. Handed(ready) \in Seq(Bytes)
  BY <1>1 DEF Handed
<1>3. exp # <<>> => exp[1] \in Item /\ exp = <<exp[1]>>
  <2>1. exp # <<>> => Len(exp) = 1 /\ exp \in Seq(Item)
    <3>1. exp \in Seq(Item) /\ Len(exp) <= 1
      BY DEF DrainTypeOK
    <3>2. Len(exp) \in Nat /\ (Len(exp) = 0 => exp = <<>>)
      BY ONLY <3>1, EmptySeq, LenProperties
    <3> QED
      BY <3>1, <3>2
  <2> QED
    BY ONLY <2>1, OneItem
<1>4. Accepted(ctl, ready) \in Seq(Bytes)
  <2>1. CASE exp # <<>> /\ PackReady(ctl, ready)
    <3> DEFINE n == LaneCount
    <3>1. n \in Nat /\ exp[1].byte \in Bytes
      BY <2>1, <1>3, LaneAssumption, RunAssumption DEF LaneCount, Item
    <3>2. Accepted(ctl, ready) = [i \in 1..n |-> exp[1].byte]
      BY <2>1 DEF Accepted
    <3> HIDE DEF n
    <3> QED
      BY <3>1, <3>2
  <2>2. CASE ~(exp # <<>> /\ PackReady(ctl, ready))
    <3>1. Accepted(ctl, ready) = <<>>
      BY <2>2 DEF Accepted
    <3> QED
      BY <3>1
  <2> QED
    BY <2>1, <2>2
<1> QED
  BY <1>1, <1>2, <1>3, <1>4 DEF DrainTypeOK

\* mtf_pack.sv: what is on offer, buffered and accepted is handed over, on offer
\* or buffered behind the edge, in the same order.
LEMMA PackerEdge ==
  ASSUME DrainTypeOK, NEW ctl, ctl # "discard", NEW wr, NEW ready \in BOOLEAN,
         DrainEdge(ctl, wr, ready)
  PROVE  OnOffer \o (buf \o Accepted(ctl, ready)) = Handed(ready) \o (OnOffer' \o buf')
<1> DEFINE acc == Accepted(ctl, ready)
           m == buf \o acc
<1>1. /\ OnOffer \in Seq(Bytes) /\ Handed(ready) \in Seq(Bytes) /\ buf \in Seq(Bytes)
      /\ acc \in Seq(Bytes)
  BY DrainParts
<1>2. m \in Seq(Bytes) /\ Merged(ctl, ready) = m
  BY <1>1, Joined, Regroup DEF Merged
<1>3. out' = OutAfter(ctl, ready) /\ buf' = BufAfter(ctl, ready)
  BY DEF DrainEdge
<1>4. acc = <<>> \/ (PackReady(ctl, ready) /\ ~FlushActive(ctl) /\ OutFree(ready))
  BY DEF Accepted, PackReady
<1>5. OutFree(ready) => OnOffer = Handed(ready)
  BY DEF OutFree, OnOffer, Handed
<1>6. Len(m) > W => acc # <<>>
  BY <1>1, ConcatEmptySeq, LaneAssumption DEF DrainTypeOK
<1> HIDE DEF acc, m
<1>7. CASE Len(m) > W
  <2>1. out' = <<[bytes |-> SubSeq(m, 1, W), last |-> FALSE]>> /\ buf' = SubSeq(m, W + 1, Len(m))
    <3>1. EmitFull(ctl, ready) /\ ~EmitFlush(ctl, ready)
      BY <1>2, <1>4, <1>6, <1>7 DEF EmitFull, EmitFlush
    <3> QED
      BY <1>2, <1>3, <3>1 DEF OutAfter, BufAfter
  <2>2. OnOffer' = SubSeq(m, 1, W)
    BY <2>1 DEF OnOffer
  <2>3. SubSeq(m, 1, W) \o SubSeq(m, W + 1, Len(m)) = m
    <3>1. SubSeq(m, 1, W) \o SubSeq(m, W + 1, Len(m)) = SubSeq(m, 1, Len(m))
      <4>1. 1 \in 1..Len(m) + 1 /\ W \in (1 - 1)..Len(m) /\ Len(m) \in W..Len(m)
        BY <1>2, <1>7, LaneAssumption, LenProperties
      <4> QED
        BY <1>2, <4>1, ConcatAdjacentSubSeq
    <3> QED
      BY <1>2, <3>1, SubSeqFull
  <2>4. OnOffer = Handed(ready)
    BY <1>4, <1>5, <1>6, <1>7
  <2> QED
    BY <2>1, <2>2, <2>3, <2>4 DEF m, acc
<1>8. CASE ~(Len(m) > W) /\ EmitFlush(ctl, ready)
  <2>1. ~EmitFull(ctl, ready) /\ FlushActive(ctl) /\ OutFree(ready)
    BY <1>2, <1>8 DEF EmitFull, EmitFlush
  <2>2. acc = <<>> /\ m = buf
    BY <1>1, <1>4, <2>1, ConcatEmptySeq DEF m
  <2>3. out' = <<[bytes |-> buf, last |-> FlushLast(ctl)]>> /\ buf' = <<>>
    BY <1>3, <1>8, <2>1 DEF OutAfter, BufAfter
  <2>4. OnOffer' = buf
    BY <2>3 DEF OnOffer
  <2>5. buf \o buf' = buf
    BY <1>1, <2>3, ConcatEmptySeq
  <2> QED
    BY <1>5, <2>1, <2>2, <2>4, <2>5 DEF m, acc
<1>9. CASE ~(Len(m) > W) /\ ~EmitFlush(ctl, ready)
  <2>1. out' = (IF ready THEN <<>> ELSE out) /\ buf' = m
    BY <1>2, <1>3, <1>9 DEF OutAfter, BufAfter, EmitFull
  <2>2. CASE ready
    <3>1. OnOffer' = <<>> /\ Handed(ready) = OnOffer
      BY <2>1, <2>2 DEF OnOffer, Handed
    <3>2. <<>> \o m = m
      BY <1>2, ConcatEmptySeq
    <3> QED
      BY <2>1, <3>1, <3>2 DEF m, acc
  <2>3. CASE ~ready
    <3>1. OnOffer' = OnOffer /\ Handed(ready) = <<>>
      BY <2>1, <2>3 DEF OnOffer, Handed
    <3>2. <<>> \o (OnOffer \o m) = OnOffer \o m
      BY <1>1, <1>2, Joined, Regroup, ConcatEmptySeq
    <3> QED
      BY <2>1, <3>1, <3>2 DEF m, acc
  <2> QED
    BY <2>2, <2>3
<1> QED
  BY <1>7, <1>8, <1>9

\* mtf_expand.sv and the queue: the items written join the line at its end, the
\* lanes accepted leave it at its head.
LEMMA ExpanderEdge ==
  ASSUME DrainTypeOK, NEW ctl, ctl # "stop", NEW wr \in Seq(Item), NEW ready \in BOOLEAN,
         DrainEdge(ctl, wr, ready)
  PROVE  Flat((exp \o fifo) \o wr) = Accepted(ctl, ready) \o Flat(exp' \o fifo')
<1> DEFINE acc == Accepted(ctl, ready)
           pop == Pop(ctl, ready)
<1>1. fifo \in Seq(Item) /\ exp \in Seq(Item) /\ acc \in Seq(Bytes)
  BY DrainParts DEF DrainTypeOK
<1>2. exp # <<>> => exp[1] \in Item /\ exp = <<exp[1]>>
  BY DrainParts
<1>3. /\ fifo' = (IF pop THEN Tail(fifo) ELSE fifo) \o wr
      /\ exp' = ExpandAfter(ctl, ready)
  BY DEF DrainEdge, Queue!QueueAfter, Queue!Dequeue, Pop
<1>4. pop => fifo # <<>> /\ Head(fifo) \in Item /\ Tail(fifo) \in Seq(Item)
             /\ fifo = <<Head(fifo)>> \o Tail(fifo)
  <2>1. pop => fifo # <<>>
    BY DEF Pop, Queue!Readable
  <2> QED
    BY <1>1, <2>1, HeadTailProperties
<1>5. \A s, t, u \in Seq(Item) : (s \o t) \o u = s \o (t \o u) /\ s \o t \in Seq(Item)
  <2>1. \A s, t \in Seq(Item) : s \o t \in Seq(Item)
    BY ConcatProperties
  <2> QED
    BY <2>1, RegroupItems
<1>6. \A s \in Seq(Item) : <<>> \o s = s
  BY ConcatEmptySeq
<1>7. \A s \in Seq(Bytes) : <<>> \o s = s
  BY ConcatEmptySeq
<1>8. \A s \in Seq(Item) : Flat(s) \in Seq(Bytes)
  BY FlatType
<1>9. CASE exp = <<>>
  <2>1. acc = <<>>
    BY <1>9 DEF Accepted
  <2>2. exp' \o fifo' = (exp \o fifo) \o wr
    <3>1. CASE pop
      <4>1. exp' = <<Head(fifo)>> /\ fifo' = Tail(fifo) \o wr
        BY <1>3, <3>1 DEF ExpandAfter
      <4>2. <<Head(fifo)>> \in Seq(Item)
        BY <1>4, <3>1
      <4>3. <<Head(fifo)>> \o (Tail(fifo) \o wr) = fifo \o wr
        BY <1>4, <1>5, <3>1, <4>2
      <4> QED
        BY <1>1, <1>6, <1>9, <4>1, <4>3
    <3>2. CASE ~pop
      <4>1. exp' = exp /\ fifo' = fifo \o wr
        BY <1>3, <1>9, <3>2 DEF ExpandAfter
      <4> QED
        BY <1>1, <1>5, <4>1
    <3> QED
      BY <3>1, <3>2
  <2> QED
    BY <1>1, <1>5, <1>7, <1>8, <2>1, <2>2
<1>10. CASE exp # <<>> /\ ~PackReady(ctl, ready)
  <2>1. acc = <<>>
    BY <1>10 DEF Accepted
  <2>2. exp' = exp /\ fifo' = fifo \o wr
    BY <1>3, <1>10 DEF ExpandAfter, Pop
  <2>3. exp' \o fifo' = (exp \o fifo) \o wr
    BY <1>1, <1>5, <2>2
  <2> QED
    BY <1>1, <1>5, <1>7, <1>8, <2>1, <2>3
<1>11. CASE exp # <<>> /\ PackReady(ctl, ready) /\ Finishing
  <2> DEFINE rest == exp' \o fifo'
  <2>1. acc = Copies(exp[1])
    BY <1>11 DEF Accepted, LaneCount, Finishing, Copies
  <2>2. rest \in Seq(Item) /\ rest = fifo \o wr
    <3>1. CASE pop
      <4>1. exp' = <<Head(fifo)>> /\ fifo' = Tail(fifo) \o wr
        BY <1>3, <3>1 DEF ExpandAfter
      <4>2. <<Head(fifo)>> \in Seq(Item)
        BY <1>4, <3>1
      <4>3. <<Head(fifo)>> \o (Tail(fifo) \o wr) = fifo \o wr
        BY <1>4, <1>5, <3>1, <4>2
      <4> QED
        BY <1>1, <1>5, <4>1, <4>3
    <3>2. CASE ~pop
      <4>1. exp' = <<>> /\ fifo' = fifo \o wr
        BY <1>3, <1>11, <3>2 DEF ExpandAfter
      <4> QED
        BY <1>1, <1>5, <1>6, <4>1
    <3> QED
      BY <3>1, <3>2
  <2> HIDE DEF rest
  <2>3. (exp \o fifo) \o wr = <<exp[1]>> \o rest
    <3>1. (exp \o fifo) \o wr = exp \o rest
      <4>1. (exp \o fifo) \o wr = exp \o (fifo \o wr)
        BY <1>1, RegroupItems
      <4> QED
        BY <4>1, <2>2
    <3>2. exp = <<exp[1]>>
      BY <1>2, <1>11
    <3> QED
      BY ONLY <3>1, <3>2
  <2>4. Flat(<<exp[1]>> \o rest) = Copies(exp[1]) \o Flat(rest)
    BY <1>2, <1>11, <2>2, FlatCons
  <2> QED
    BY <2>1, <2>3, <2>4 DEF rest
<1>12. CASE exp # <<>> /\ PackReady(ctl, ready) /\ ~Finishing
  <2> DEFINE left == [exp[1] EXCEPT !.count = @ - W]
             tail == fifo \o wr
  <2>1. exp' = <<left>> /\ fifo' = tail
    BY <1>3, <1>12 DEF ExpandAfter, Pop
  <2>2. exp[1] \in Item /\ exp[1].count > W
    BY <1>2, <1>12, LaneAssumption, RunAssumption DEF Finishing, Item
  <2>3. left \in Item /\ left.count = exp[1].count - W /\ left.byte = exp[1].byte
    <3>1. exp[1].count - W \in 1..RunMax
      BY <2>2, LaneAssumption, RunAssumption DEF Item
    <3> QED
      BY <2>2, <3>1 DEF Item
  <2>4. Copies(exp[1]) = acc \o Copies(left)
    <3> DEFINE n == exp[1].count
               b == exp[1].byte
    <3>1. acc = [i \in 1..W |-> b]
      BY <1>12, <2>2 DEF Accepted, LaneCount, Finishing
    <3>2. Copies(exp[1]) = [i \in 1..n |-> b] /\ Copies(left) = [i \in 1..(n - W) |-> b]
      BY <2>3 DEF Copies
    <3>3. n \in Nat /\ n > W /\ W \in Nat
      BY <2>2, LaneAssumption, RunAssumption DEF Item
    <3> HIDE DEF n, b, left
    <3> QED
      BY <3>1, <3>2, <3>3
  <2>5. tail \in Seq(Item) /\ <<left>> \in Seq(Item)
    BY <1>1, <1>5, <2>3
  <2>6. (exp \o fifo) \o wr = <<exp[1]>> \o tail
    <3>1. (exp \o fifo) \o wr = exp \o tail
      BY <1>1, <1>5
    <3>2. exp = <<exp[1]>>
      BY <1>2, <1>12
    <3> HIDE DEF tail
    <3> QED
      BY ONLY <3>1, <3>2
  <2> HIDE DEF tail, left
  <2>7. /\ Flat(<<exp[1]>> \o tail) = Copies(exp[1]) \o Flat(tail)
        /\ Flat(<<left>> \o tail) = Copies(left) \o Flat(tail)
    BY <2>2, <2>3, <2>5, FlatCons
  <2>8. (acc \o Copies(left)) \o Flat(tail) = acc \o (Copies(left) \o Flat(tail))
    <3>1. Copies(left) \in Seq(Bytes) /\ Flat(tail) \in Seq(Bytes)
      BY <1>8, <2>3, <2>5, CopiesType
    <3> QED
      BY <1>1, <3>1, Joined, Regroup
  <2> QED
    BY <2>1, <2>4, <2>6, <2>7, <2>8
<1> QED
  BY <1>9, <1>10, <1>11, <1>12

\* The bytes between the queue and m_l.
Owed == OnOffer \o (buf \o Flat(exp \o fifo))

LEMMA OwedType == DrainTypeOK => Owed \in Seq(Bytes)
<1> SUFFICES ASSUME DrainTypeOK PROVE Owed \in Seq(Bytes)
  OBVIOUS
<1>1. exp \o fifo \in Seq(Item)
  BY ConcatProperties DEF DrainTypeOK
<1> QED
  BY <1>1, DrainParts, FlatType, Joined, Regroup DEF Owed

\* What is owed and what is written is what is handed over and still owed.
LEMMA OwedEdge ==
  ASSUME DrainTypeOK, DrainTypeOK', NEW ctl \in {"run", "last"}, NEW wr \in Seq(Item),
         NEW ready \in BOOLEAN, DrainEdge(ctl, wr, ready)
  PROVE  Owed \o Flat(wr) = Handed(ready) \o Owed'
<1> DEFINE acc == Accepted(ctl, ready)
           line == Flat(exp \o fifo)
           next == Flat(exp' \o fifo')
           late == Flat(wr)
<1>1. /\ OnOffer \in Seq(Bytes) /\ Handed(ready) \in Seq(Bytes) /\ buf \in Seq(Bytes)
      /\ acc \in Seq(Bytes)
  BY DrainParts
<1>2. exp \o fifo \in Seq(Item) /\ exp' \o fifo' \in Seq(Item)
  BY ConcatProperties DEF DrainTypeOK
<1>3. line \in Seq(Bytes) /\ next \in Seq(Bytes) /\ late \in Seq(Bytes)
  BY <1>2, FlatType
<1>4. OnOffer' \in Seq(Bytes) /\ buf' \in Seq(Bytes)
  <2>1. out' # <<>> => out'[1] \in Beat
    BY EmptySeq, ElementOfSeq DEF DrainTypeOK
  <2> QED
    BY <2>1 DEF OnOffer, Beat, DrainTypeOK
<1>5. OnOffer \o (buf \o acc) = Handed(ready) \o (OnOffer' \o buf')
  BY PackerEdge
<1>6. line \o late = acc \o next
  <2>1. Flat((exp \o fifo) \o wr) = acc \o next
    BY ExpanderEdge
  <2>2. Flat((exp \o fifo) \o wr) = line \o late
    BY <1>2, FlatConcat
  <2> QED
    BY <2>1, <2>2
<1>7. Owed = OnOffer \o (buf \o line) /\ Owed' = OnOffer' \o (buf' \o next)
  BY DEF Owed
<1> DEFINE left == Handed(ready)
<1>8. left \in Seq(Bytes) /\ Cat(OnOffer, Cat(buf, acc)) = Cat(left, Cat(OnOffer', buf'))
  BY <1>1, <1>5 DEF Cat
<1>9. Cat(line, late) = Cat(acc, next)
  BY <1>6 DEF Cat
<1> HIDE DEF acc, line, next, late, left
<1>10. Cat(Cat(OnOffer, Cat(buf, line)), late) = Cat(OnOffer, Cat(buf, Cat(line, late)))
  BY ONLY <1>1, <1>3, CatLaws
<1>11. Cat(Cat(OnOffer, Cat(buf, acc)), next) = Cat(OnOffer, Cat(buf, Cat(acc, next)))
  BY ONLY <1>1, <1>3, CatLaws
<1>12. Cat(Cat(left, Cat(OnOffer', buf')), next) = Cat(left, Cat(OnOffer', Cat(buf', next)))
  BY ONLY <1>3, <1>4, <1>8, CatLaws
<1> QED
  BY <1>7, <1>8, <1>9, <1>10, <1>11, <1>12 DEF late, left, Cat

\* An error or an abort drops the line, and nothing of what is behind it.
LEMMA StopEdge ==
  ASSUME DrainTypeOK, NEW ready \in BOOLEAN, DrainEdge("stop", <<>>, ready)
  PROVE  OnOffer \o buf = Handed(ready) \o (OnOffer' \o buf')
<1>1. Accepted("stop", ready) = <<>>
  BY DEF Accepted, PackReady, FlushActive
<1>2. buf \o <<>> = buf
  BY ConcatEmptySeq DEF DrainTypeOK
<1>3. OnOffer \o (buf \o Accepted("stop", ready)) = Handed(ready) \o (OnOffer' \o buf')
  BY PackerEdge
<1> QED
  BY <1>1, <1>2, <1>3

-----------------------------------------------------------------------------
(* The two streams as the monitors record them.                              *)

BytesOp(p, bytes, beat) == bytes \o beat.bytes
Sent == INSTANCE FoldLaws WITH Op <- BytesOp

LEMMA ReceivedIsFold == \A beats : BytesOf(beats) = Sent!Fold(0, <<>>, beats)
  BY DEF BytesOf, BytesOp, Sent!Fold, FoldLeft, Sent!FoldLeft, MapThenFoldSet, Sent!MapThenFoldSet,
         Max, Sent!Max

LEMMA ReceivedNone == BytesOf(<<>>) = <<>>
  BY ReceivedIsFold, Sent!FoldNothing

\* What the monitor of m_l adds on an edge is what is handed over.
LEMMA ReceivedEdge ==
  ASSUME DrainTypeOK, delivered \in Seq(Beat), Received \in Seq(Bytes), NEW ready \in BOOLEAN,
         Observe(ready)
  PROVE  /\ delivered' \in Seq(Beat)
         /\ Received' = Received \o Handed(ready)
         /\ Len(Handed(ready)) = LanesOut(ready)
<1>1. CASE ready /\ out # <<>>
  <2> DEFINE beat == out[1]
  <2>1. beat \in Beat /\ out = <<beat>>
    <3>1. out \in Seq(Beat)
      BY DEF DrainTypeOK
    <3> DEFINE n == Len(out)
    <3>2. n \in Nat \ {0} /\ n <= 1
      BY <1>1, <3>1, EmptySeq DEF DrainTypeOK
    <3> HIDE DEF n
    <3>3. n = 1
      BY ONLY <3>2
    <3>4. Len(out) = 1
      BY ONLY <3>3 DEF n
    <3> QED
      BY ONLY <3>1, <3>4 DEF beat
  <2>2. delivered' = delivered \o out
    BY <1>1 DEF Observe
  <2>3. Received' = BytesOf(delivered') /\ Received = BytesOf(delivered)
    BY DEF Received
  <2>4. Handed(ready) = beat.bytes /\ LanesOut(ready) = Len(beat.bytes)
    BY <1>1 DEF Handed, OnOffer, LanesOut
  <2> HIDE DEF beat
  <2>5. delivered' = Append(delivered, beat) /\ delivered' \in Seq(Beat)
    BY <2>1, <2>2, AppendIsConcat, AppendProperties
  <2>6. Sent!Fold(0, <<>>, Append(delivered, beat)) = BytesOp(0, Sent!Fold(0, <<>>, delivered), beat)
    BY <2>1, Sent!FoldAppend
  <2>7. BytesOf(delivered') = BytesOf(delivered) \o beat.bytes
    BY <2>5, <2>6, ReceivedIsFold DEF BytesOp
  <2> QED
    BY <2>3, <2>4, <2>5, <2>7
<1>2. CASE ~(ready /\ out # <<>>)
  <2>1. delivered' = delivered
    <3>1. CASE ready
      BY <1>2, <3>1, ConcatEmptySeq DEF Observe
    <3>2. CASE ~ready
      BY <3>2 DEF Observe
    <3> QED
      BY <3>1, <3>2
  <2>2. Handed(ready) = <<>> /\ LanesOut(ready) = 0
    BY <1>2 DEF Handed, OnOffer, LanesOut
  <2>3. Received \o <<>> = Received
    BY ConcatEmptySeq
  <2> QED
    BY <2>1, <2>2, <2>3 DEF Received
<1> QED
  BY <1>1, <1>2

-----------------------------------------------------------------------------
(* The functional model, symbol by symbol.                                   *)

GoldOp(eob, g, s) == GoldenStep(g, s, eob)
Gold == INSTANCE FoldLaws WITH Op <- GoldOp

LEMMA GoldenIsFold ==
  \A symbols, u, eob : ExpandAll(symbols, u, eob) = Gold!Fold(eob, GoldenStart(u), symbols)
  BY DEF ExpandAll, GoldOp, Gold!Fold, FoldLeft, Gold!FoldLeft, MapThenFoldSet, Gold!MapThenFoldSet,
         Max, Gold!Max

LEMMA GoldenNone == \A u, eob : ExpandAll(<<>>, u, eob) = GoldenStart(u)
  BY GoldenIsFold, Gold!FoldNothing

LEMMA GoldenAppend ==
  ASSUME NEW S, NEW symbols \in Seq(S), NEW s, NEW u, NEW eob
  PROVE  ExpandAll(Append(symbols, s), u, eob) = GoldenStep(ExpandAll(symbols, u, eob), s, eob)
<1>1. Gold!Fold(eob, GoldenStart(u), Append(symbols, s))
        = GoldOp(eob, Gold!Fold(eob, GoldenStart(u), symbols), s)
  BY Gold!FoldAppend
<1> QED
  BY <1>1, GoldenIsFold DEF GoldOp

\* The symbols heard and the state of the functional model behind them.
Values(beats) == [i \in DOMAIN beats |-> beats[i].value]
Eob == Cardinality(used) + 1
Model == ExpandAll(Values(Clean), used, Eob)

LEMMA ValuesAppend ==
  ASSUME NEW beats \in Seq(Beats), NEW b \in Beats
  PROVE  Values(Append(beats, b)) = Append(Values(beats), b.value) /\ Values(beats) \in Seq(Nat)
<1>1. \A i \in 1..Len(beats) : beats[i].value \in Nat
  BY ElementOfSeq, BeatTypes
<1>2. Values(beats) \in Seq(Nat)
  BY <1>1 DEF Values
<1>3. Values(Append(beats, b)) = Append(Values(beats), b.value)
  BY DEF Values
<1> QED
  BY <1>2, <1>3

\* The entries in use, as the functional model has them.
ListView == [i \in 1..fillIdx |-> lst[i - 1]]

\* Two ascending enumerations of the same bytes are the same.
LEMMA AscendingUnique ==
  ASSUME NEW n \in Nat, NEW S \in SUBSET Int,
         NEW l \in [1..n -> S], NEW k \in [1..n -> S],
         \A i, j \in 1..n : i < j => l[i] < l[j],
         \A i, j \in 1..n : i < j => k[i] < k[j],
         \A b \in S : \E i \in 1..n : l[i] = b,
         \A b \in S : \E i \in 1..n : k[i] = b
  PROVE  l = k
<1>. DEFINE Bad == {i \in 1..n : l[i] # k[i]}
<1> SUFFICES ASSUME Bad # {} PROVE FALSE
  OBVIOUS
<1>1. PICK i \in Bad : \A j \in Bad : ~ (<<j, i>> \in OpToRel(<, Nat))
  <2>1. Bad \subseteq Nat
    OBVIOUS
  <2> HIDE DEF Bad
  <2> QED
    BY <2>1, WFMin, NatLessThanWellFounded
<1>2. i \in 1..n /\ l[i] # k[i] /\ l[i] \in Int /\ k[i] \in Int
  OBVIOUS
<1>3. \A j \in 1..n : j < i => l[j] = k[j]
  <2> SUFFICES ASSUME NEW j \in 1..n, j < i, j \in Bad PROVE FALSE
    OBVIOUS
  <2>1. j \in Nat /\ i \in Nat
    BY <1>2
  <2>2. <<j, i>> \in OpToRel(<, Nat)
    BY <2>1 DEF OpToRel
  <2> QED
    BY <1>1, <2>2
<1>4. CASE l[i] < k[i]
  <2>1. PICK j \in 1..n : k[j] = l[i]
    OBVIOUS
  <2>2. j < i \/ j = i \/ i < j
    BY <1>2
  <2>3. ~(j < i)
    BY <1>2, <1>3, <2>1
  <2>4. ~(i < j)
    BY <1>2, <1>4, <2>1
  <2> QED
    BY <1>2, <2>1, <2>2, <2>3, <2>4
<1>5. CASE k[i] < l[i]
  <2>1. PICK j \in 1..n : l[j] = k[i]
    OBVIOUS
  <2>2. j < i \/ j = i \/ i < j
    BY <1>2
  <2>3. ~(j < i)
    BY <1>2, <1>3, <2>1
  <2>4. ~(i < j)
    BY <1>2, <1>5, <2>1
  <2> QED
    BY <1>2, <2>1, <2>2, <2>3, <2>4
<1> QED
  BY <1>2, <1>4, <1>5

Ascending == \A i, j \in Live : i < j => lst[i] < lst[j]

\* mtf_list.sv: the list a finished fill leaves behind is the model's first list.
LEMMA FirstList ==
  ASSUME ListInv, ~filling, Ascending
  PROVE  GoldenList(used) = ListView
<1> DEFINE n == Cardinality(used)
<1>1. rem = {} /\ n \in Nat /\ fillIdx = n /\ fillIdx \in 0..NList /\ lst \in [Ranks -> Bytes]
      /\ used \in SUBSET Bytes
  <2>1. rem = {} /\ used \in SUBSET Bytes /\ n \in Nat
    BY BytesFinite DEF ListInv, ListTypeOK, FillProgress
  <2>2. fillIdx + Cardinality({}) = n
    BY <2>1 DEF ListInv, FillProgress
  <2>3. Cardinality({}) = 0
    BY FS_EmptySet
  <2> QED
    BY <2>1, <2>2, <2>3 DEF ListInv, ListTypeOK
<1>2. {lst[i] : i \in 0..(n - 1)} = used
  BY <1>1 DEF ListInv, Permutation, Live
<1>3. ListView = [i \in 1..n |-> lst[i - 1]]
  BY <1>1 DEF ListView
<1>4. ListView \in [1..n -> used]
  <2>1. \A i \in 1..n : i - 1 \in 0..(n - 1)
    BY <1>1
  <2>2. \A i \in 1..n : lst[i - 1] \in used
    BY <1>2, <2>1
  <2> QED
    BY <1>3, <2>2
<1>5. \A i, j \in 1..n : i < j => ListView[i] < ListView[j]
  <2> SUFFICES ASSUME NEW i \in 1..n, NEW j \in 1..n, i < j PROVE lst[i - 1] < lst[j - 1]
    BY <1>3
  <2>1. i - 1 \in Live /\ j - 1 \in Live /\ i - 1 < j - 1
    BY <1>1 DEF Live
  <2> QED
    BY <2>1 DEF Ascending
<1>6. \A b \in used : \E i \in 1..n : ListView[i] = b
  <2> TAKE b \in used
  <2>1. PICK j \in 0..(n - 1) : lst[j] = b
    BY <1>2
  <2>2. j + 1 \in 1..n /\ ListView[j + 1] = lst[j]
    BY <1>1, <1>3
  <2> QED
    BY <2>1, <2>2
<1> DEFINE Enumerates(l) == /\ \A i, j \in DOMAIN l : i < j => l[i] < l[j]
                            /\ \A b \in used : \E i \in DOMAIN l : l[i] = b
<1>7. Enumerates(ListView) /\ DOMAIN ListView = 1..n
  BY <1>3, <1>5, <1>6
<1>8. GoldenList(used) \in [1..n -> used] /\ Enumerates(GoldenList(used))
  BY <1>4, <1>7 DEF GoldenList
<1>9. used \in SUBSET Int
  BY <1>1, NListAssumption DEF Bytes
<1>10. DOMAIN GoldenList(used) = 1..n
  BY <1>8
<1> DEFINE g == GoldenList(used)
           v == ListView
<1>11. g \in [1..n -> used] /\ v \in [1..n -> used]
  BY <1>4, <1>8
<1>12. /\ \A i, j \in 1..n : i < j => g[i] < g[j]
       /\ \A b \in used : \E i \in 1..n : g[i] = b
  BY <1>8, <1>10
<1>13. /\ \A i, j \in 1..n : i < j => v[i] < v[j]
       /\ \A b \in used : \E i \in 1..n : v[i] = b
  BY <1>5, <1>6
<1> HIDE DEF n, g, v
<1>14. g = v
  BY <1>1, <1>9, <1>11, <1>12, <1>13, AscendingUnique
<1> QED
  BY <1>14 DEF g, v

\* mtf_list.sv: the parallel shift is the model's pop and insert.
LEMMA MoveGolden ==
  ASSUME NEW n \in Nat, NEW S, NEW l \in Seq(S), Len(l) = n, NEW r \in 1..(n - 1)
  PROVE  GoldenFront(l, r)
           = [i \in 1..n |-> IF i = 1 THEN l[r + 1] ELSE IF i <= r + 1 THEN l[i - 1] ELSE l[i]]
<1> DEFINE left == SubSeq(l, 1, r)
           right == SubSeq(l, r + 2, n)
           rest == left \o right
           front == <<l[r + 1]>>
           want == [i \in 1..n |-> IF i = 1 THEN l[r + 1] ELSE IF i <= r + 1 THEN l[i - 1] ELSE l[i]]
<1>1. GoldenFront(l, r) = front \o rest
  <2>1. (r + 1) - 1 = r /\ (r + 1) + 1 = r + 2
    OBVIOUS
  <2> QED
    BY <2>1 DEF GoldenFront, RemoveAt
<1>2. \A i \in 1..n : l[i] \in S
  BY ElementOfSeq
<1>3. /\ left \in Seq(S) /\ Len(left) = r
      /\ \A i \in 1..r : left[i] = l[i]
  <2>1. \A i \in 1..r : l[i] \in S
    BY <1>2
  <2>2. /\ left \in Seq(S) /\ Len(left) = (IF 1 <= r THEN r - 1 + 1 ELSE 0)
        /\ \A i \in 1..(r - 1 + 1) : left[i] = l[1 + i - 1]
    BY <2>1, SubSeqProperties
  <2> HIDE DEF left
  <2> QED
    BY <2>2
<1>4. /\ right \in Seq(S) /\ Len(right) = n - r - 1
      /\ \A i \in 1..(n - r - 1) : right[i] = l[r + 1 + i]
  <2>1. \A i \in (r + 2)..n : l[i] \in S
    BY <1>2
  <2>2. /\ right \in Seq(S) /\ Len(right) = (IF r + 2 <= n THEN n - (r + 2) + 1 ELSE 0)
        /\ \A i \in 1..(n - (r + 2) + 1) : right[i] = l[(r + 2) + i - 1]
    <3>1. r + 2 \in Int /\ n \in Int
      OBVIOUS
    <3> QED
      BY <2>1, <3>1, SubSeqProperties
  <2> HIDE DEF right
  <2>3. n - (r + 2) + 1 = n - r - 1 /\ \A i \in Int : (r + 2) + i - 1 = r + 1 + i
    OBVIOUS
  <2> QED
    BY <2>2, <2>3
<1> HIDE DEF left, right
<1>5. /\ rest \in Seq(S) /\ Len(rest) = n - 1
      /\ \A i \in 1..(n - 1) : rest[i] = IF i <= r THEN l[i] ELSE l[i + 1]
  <2>1. /\ rest \in Seq(S) /\ Len(rest) = Len(left) + Len(right)
        /\ \A i \in 1..(Len(left) + Len(right)) :
             rest[i] = IF i <= Len(left) THEN left[i] ELSE right[i - Len(left)]
    BY <1>3, <1>4, ConcatProperties
  <2> HIDE DEF rest
  <2>2. Len(left) + Len(right) = n - 1
    BY <1>3, <1>4
  <2>3. ASSUME NEW i \in 1..(n - 1) PROVE rest[i] = IF i <= r THEN l[i] ELSE l[i + 1]
    <3>1. CASE i <= r
      BY <1>3, <2>1, <2>2, <3>1
    <3>2. CASE ~(i <= r)
      <4>1. i - r \in 1..(n - r - 1) /\ r + 1 + (i - r) = i + 1
        BY <3>2
      <4>2. rest[i] = right[i - r]
        BY <1>3, <2>1, <2>2, <3>2
      <4>3. right[i - r] = l[r + 1 + (i - r)]
        BY <1>4, <4>1
      <4> QED
        BY <3>2, <4>1, <4>2, <4>3
    <3> QED
      BY <3>1, <3>2
  <2> QED
    BY <2>1, <2>2, <2>3
<1>6. front \in Seq(S) /\ Len(front) = 1 /\ front[1] = l[r + 1]
  BY <1>2
<1> HIDE DEF rest, front
<1>7. /\ front \o rest \in Seq(S) /\ Len(front \o rest) = n
      /\ \A i \in 1..n : (front \o rest)[i] = IF i <= 1 THEN front[i] ELSE rest[i - 1]
  <2>1. Len(front) + Len(rest) = n
    BY <1>5, <1>6
  <2>2. /\ front \o rest \in Seq(S) /\ Len(front \o rest) = Len(front) + Len(rest)
        /\ \A i \in 1..(Len(front) + Len(rest)) :
             (front \o rest)[i] = IF i <= Len(front) THEN front[i] ELSE rest[i - Len(front)]
    <3>1. front \in Seq(S) /\ rest \in Seq(S)
      BY <1>5, <1>6
    <3> QED
      BY ONLY <3>1, ConcatProperties
  <2> QED
    BY <1>6, <2>1, <2>2
<1>8. ASSUME NEW i \in 1..n PROVE (front \o rest)[i] = want[i]
  <2>1. CASE i = 1
    BY <1>6, <1>7, <2>1
  <2>2. CASE i # 1
    <3>1. i - 1 \in 1..(n - 1) /\ (i - 1) + 1 = i /\ (i - 1 <= r <=> i <= r + 1)
      BY <2>2
    <3>2. (front \o rest)[i] = rest[i - 1]
      BY <1>7, <2>2
    <3> QED
      BY <1>5, <2>2, <3>1, <3>2
  <2> QED
    BY <2>1, <2>2
<1>9. DOMAIN (front \o rest) = 1..n /\ front \o rest = [i \in 1..n |-> (front \o rest)[i]]
  BY <1>7, LenProperties
<1> QED
  BY <1>1, <1>8, <1>9

LEMMA ViewFacts ==
  ASSUME ListTypeOK
  PROVE  /\ ListView \in Seq(Bytes) /\ Len(ListView) = fillIdx
         /\ \A i \in 1..fillIdx : ListView[i] = lst[i - 1]
<1>1. fillIdx \in 0..NList /\ lst \in [Ranks -> Bytes]
  BY DEF ListTypeOK
<1>2. \A i \in 1..fillIdx : i - 1 \in Ranks
  BY <1>1, NListAssumption DEF Ranks
<1>3. \A i \in 1..fillIdx : lst[i - 1] \in Bytes
  BY <1>1, <1>2
<1>4. fillIdx \in Nat
  BY <1>1, NListAssumption
<1> QED
  BY <1>3, <1>4 DEF ListView

\* One move of the list, as the model makes it.
LEMMA MoveView ==
  ASSUME ListInv, ~filling, NEW r \in Live, r # 0, ListStep(FALSE, {}, r)
  PROVE  ListView' = GoldenFront(ListView, r)
<1>1. fillIdx \in Nat /\ fillIdx <= NList /\ ListTypeOK /\ NList \in Nat
  BY NListAssumption DEF ListInv, ListTypeOK
<1>2. r \in 1..(fillIdx - 1)
  BY <1>1 DEF Live
<1>3. lst' = Rotated(lst, r) /\ fillIdx' = fillIdx
  <2>1. r # NoMove
    BY <1>1, <1>2 DEF NoMove
  <2> QED
    BY <2>1 DEF ListStep, InitBusy, MoveToFront
<1> DEFINE n == fillIdx
           l == ListView
<1>4. /\ l \in Seq(Bytes) /\ Len(l) = n
      /\ \A i \in 1..n : l[i] = lst[i - 1]
  BY <1>1, ViewFacts
<1>5. GoldenFront(l, r)
        = [i \in 1..n |-> IF i = 1 THEN l[r + 1] ELSE IF i <= r + 1 THEN l[i - 1] ELSE l[i]]
  <2> HIDE DEF n, l
  <2> QED
    BY <1>1, <1>2, <1>4, MoveGolden DEF n
<1>6. ListView' = [i \in 1..n |-> Rotated(lst, r)[i - 1]]
  BY <1>3 DEF ListView
<1>7. ASSUME NEW i \in 1..n
      PROVE  Rotated(lst, r)[i - 1] = IF i = 1 THEN l[r + 1] ELSE IF i <= r + 1 THEN l[i - 1] ELSE l[i]
  <2>1. i - 1 \in Ranks
    BY <1>1 DEF Ranks
  <2>2. Rotated(lst, r)[i - 1]
          = IF i - 1 = 0 THEN lst[r] ELSE IF i - 1 <= r THEN lst[(i - 1) - 1] ELSE lst[i - 1]
    BY <2>1 DEF Rotated
  <2>3. l[r + 1] = lst[r]
    <3>1. r + 1 \in 1..n /\ (r + 1) - 1 = r
      BY <1>1, <1>2
    <3> QED
      BY <1>4, <3>1
  <2>4. l[i] = lst[i - 1] /\ (i # 1 => l[i - 1] = lst[(i - 1) - 1])
    <3>1. i # 1 => i - 1 \in 1..n
      BY <1>1
    <3> HIDE DEF l
    <3> QED
      BY <1>4, <3>1
  <2>5. (i - 1 = 0 <=> i = 1) /\ (i - 1 <= r <=> i <= r + 1)
    BY <1>2
  <2> QED
    BY <2>2, <2>3, <2>4, <2>5
<1> HIDE DEF n, l
<1> QED
  BY <1>5, <1>6, <1>7 DEF n, l

\* A fill in progress appends bytes above all those it has written.
LEMMA HoldAscending ==
  ASSUME ListInv, Ascending, ListHold
  PROVE  Ascending'
<1>1. fillIdx \in 0..NList /\ lst \in [Ranks -> Bytes] /\ NList \in Nat /\ rem \in SUBSET Bytes
  BY NListAssumption DEF ListInv, ListTypeOK
<1>2. CASE filling
  <2>1. Fill(rem, fillIdx) /\ rem # {}
    BY <1>2 DEF ListHold, ListStep, InitBusy, FillSource, FillBase, ListInv, FillProgress
  <2>2. PICK b \in rem : lst' = [lst EXCEPT ![fillIdx] = b] /\ fillIdx' = fillIdx + 1
    BY <2>1 DEF Fill
  <2>3. \A i \in Live : lst[i] < b
    BY <1>2 DEF ListInv, FillAscending
  <2>4. ASSUME NEW i \in Live', NEW j \in Live', i < j PROVE lst'[i] < lst'[j]
    <3>1. i \in Live /\ i # fillIdx /\ i \in Ranks /\ (j = fillIdx \/ (j \in Live /\ j # fillIdx))
          /\ j \in 0..fillIdx
      BY <1>1, <2>2, <2>4 DEF Live, Ranks
    <3>2. lst'[i] = lst[i]
      BY <1>1, <2>2, <3>1
    <3>3. CASE j = fillIdx
      <4>1. CASE j \in Ranks
        BY <1>1, <2>2, <2>3, <3>1, <3>2, <3>3, <4>1
      <4>2. CASE j \notin Ranks
        <5>1. fillIdx = NList
          BY <1>1, <3>3, <4>2 DEF Ranks
        <5>2. fillIdx' \in 0..NList
          BY HoldFacts DEF ListInv, ListTypeOK
        <5> QED
          BY <1>1, <2>2, <5>1, <5>2
      <4> QED
        BY <4>1, <4>2
    <3>4. CASE j \in Live /\ j # fillIdx
      <4>1. lst'[j] = lst[j]
        BY <1>1, <2>2, <3>4 DEF Live, Ranks
      <4> QED
        BY <2>4, <3>1, <3>2, <3>4, <4>1 DEF Ascending
    <3> QED
      BY <3>1, <3>3, <3>4
  <2> QED
    BY <2>4 DEF Ascending
<1>3. CASE ~filling
  <2>1. lst' = lst /\ fillIdx' = fillIdx
    BY <1>3 DEF ListHold, ListStep, InitBusy, NoMove
  <2> QED
    BY <2>1 DEF Ascending, Live
<1>4. filling \in BOOLEAN
  BY DEF ListInv, ListTypeOK
<1> QED
  BY <1>2, <1>3, <1>4

ModelState == [list : Seq(Bytes), run : Nat, weight : Nat, bytes : Seq(Bytes), longest : Nat]

\* The run that waits, as the expander and as the model write it.
LEMMA PendingFlat ==
  ASSUME CamInv
  PROVE  /\ PendingRun \in Seq(Item)
         /\ Flat(PendingRun) \in Seq(Bytes) /\ Len(Flat(PendingRun)) = run
         /\ Flat(PendingRun) = [i \in 1..run |-> lst[0]]
<1>1. run \in 0..RunMax /\ RunMax \in Nat /\ lst[0] \in Bytes
  <2>1. 0 \in Ranks
    BY NListAssumption DEF Ranks
  <2> QED
    BY <2>1, RunAssumption DEF CamInv, TypeOK, ListTypeOK, RunTypeOK
<1>2. CASE run # 0
  <2> DEFINE item == [count |-> run, byte |-> lst[0]]
  <2>1. item \in Item
    BY <1>1, <1>2 DEF Item
  <2>2. PendingRun = <<item>>
    BY <1>2 DEF PendingRun
  <2>3. Copies(item) = [i \in 1..run |-> lst[0]]
    BY DEF Copies
  <2>4. item.count = run
    OBVIOUS
  <2> HIDE DEF item
  <2>5. Flat(<<item>>) = Copies(item) /\ Copies(item) \in Seq(Bytes) /\ Len(Copies(item)) = run
    BY <2>1, <2>4, FlatOne, CopiesType
  <2>6. <<item>> \in Seq(Item)
    BY <2>1
  <2> QED
    BY <2>2, <2>3, <2>5, <2>6
<1>3. CASE run = 0
  <2>1. PendingRun = <<>>
    BY <1>3 DEF PendingRun
  <2>2. Flat(PendingRun) = <<>>
    BY <2>1, FlatNone
  <2>3. [i \in 1..run |-> lst[0]] = <<>>
    BY <1>3
  <2> QED
    BY <1>3, <2>1, <2>2, <2>3, EmptySeq
<1> QED
  BY <1>1, <1>2, <1>3

\* The items a clean beat enqueues stand for the bytes counted for it: those of
\* the run it ends, and the one its rank selects.
LEMMA ItemsFlat ==
  ASSUME CamInv, state = "DECODE", NEW b \in Beats, Verdict(b) = "NONE"
  PROVE  /\ Flat(Items(b)) \in Seq(Bytes) /\ Len(Flat(Items(b))) = ItemBytes(b)
         /\ IsMtf(b) => Flat(Items(b)) = Append(Flat(PendingRun), lst[Rank(b)])
         /\ ~IsMtf(b) => Flat(Items(b)) = IF ValidEob(b) THEN Flat(PendingRun) ELSE <<>>
<1>1. /\ PendingRun \in Seq(Item)
      /\ Flat(PendingRun) \in Seq(Bytes) /\ Len(Flat(PendingRun)) = run
  BY PendingFlat
<1>2. run \in Nat
  BY RunAssumption DEF CamInv, TypeOK, RunTypeOK
<1>3. CASE IsMtf(b)
  <2> DEFINE byte == lst[Rank(b)]
             item == [count |-> 1, byte |-> byte]
  <2>1. Rank(b) \in Live
    BY <1>3, CleanBeat
  <2>2. byte \in Bytes
    <3>1. Rank(b) \in Ranks
      BY <2>1, NListAssumption DEF CamInv, TypeOK, ListTypeOK, Live, Ranks
    <3> QED
      BY <3>1 DEF CamInv, TypeOK, ListTypeOK
  <2>3. item \in Item /\ Copies(item) = <<byte>>
    BY <2>2, RunAssumption DEF Item, Copies
  <2>4. Items(b) = PendingRun \o <<item>>
    BY <1>3 DEF Items
  <2> HIDE DEF item, byte
  <2>5. <<item>> \in Seq(Item)
    BY <2>3
  <2>6. Flat(PendingRun \o <<item>>) = Flat(PendingRun) \o Flat(<<item>>)
    BY <1>1, <2>5, FlatConcat
  <2>7. Flat(<<item>>) = <<byte>>
    BY <2>3, FlatOne
  <2>8. Flat(Items(b)) = Flat(PendingRun) \o <<byte>>
    BY <2>4, <2>6, <2>7
  <2>9. /\ Flat(Items(b)) = Append(Flat(PendingRun), byte)
        /\ Flat(Items(b)) \in Seq(Bytes)
        /\ Len(Flat(Items(b))) = run + 1
    BY <1>1, <2>2, <2>8, AppendIsConcat, AppendProperties
  <2>10. ItemBytes(b) = run + 1
    BY <1>3 DEF ItemBytes
  <2> QED
    BY <1>3, <2>9, <2>10 DEF byte
<1>4. CASE ~IsMtf(b) /\ ValidEob(b)
  <2>1. Items(b) = PendingRun /\ ItemBytes(b) = run
    BY <1>2, <1>4 DEF Items, ItemBytes
  <2> QED
    BY <1>1, <1>4, <2>1
<1>5. CASE ~IsMtf(b) /\ ~ValidEob(b)
  <2>1. Items(b) = <<>> /\ ItemBytes(b) = 0
    BY <1>5 DEF Items, ItemBytes
  <2>2. Flat(Items(b)) = <<>>
    BY <2>1, FlatNone
  <2> QED
    BY <1>5, <2>1, <2>2, EmptySeq
<1> QED
  BY <1>3, <1>4, <1>5

\* A decoding block has as many symbols as the list has entries, and at least
\* one of them.
LEMMA DecodeEob ==
  ASSUME CamInv, state = "DECODE"
  PROVE  Eob = fillIdx + 1 /\ ListInv /\ ~filling
<1>1. ListInv /\ ~filling
  BY DEF CamInv
<1>2. rem = {}
  BY <1>1 DEF ListInv, FillProgress
<1>3. fillIdx + Cardinality({}) = Cardinality(used)
  BY <1>1, <1>2 DEF ListInv, FillProgress
<1>4. fillIdx \in Nat
  BY <1>1, NListAssumption DEF ListInv, ListTypeOK
<1> QED
  BY <1>1, <1>3, <1>4, FS_EmptySet DEF Eob

\* The sequencer and the functional model make the same of a clean beat.
GoldenFollows(g, h, b) ==
  /\ h \in ModelState
  /\ h.bytes = g.bytes \o Flat(Items(b))
  /\ IsRun(b) =>
       /\ h.list = g.list /\ h.run = RunSum(b.value) /\ h.weight = 2 * weight
       /\ h.longest = g.longest
  /\ ~IsRun(b) => h.run = 0 /\ h.weight = 1 /\ h.longest = Longest(g)
  /\ IsMtf(b) => h.list = GoldenFront(ListView, Rank(b))

LEMMA GoldenSymbol ==
  ASSUME CamInv, state = "DECODE", fillIdx >= 1, NEW b \in Beats, Verdict(b) = "NONE",
         NEW g \in ModelState, g.list = ListView, g.run = run, g.weight = weight
  PROVE  GoldenFollows(g, GoldenStep(g, b.value, Eob), b)
<1> DEFINE h == GoldenStep(g, b.value, Eob)
           s == b.value
<1>1. s \in Nat
  BY BeatTypes
<1>2. /\ ValidType0(b) \/ ValidEob(b)
      /\ IsRun(b) => s \in 0..1 /\ ~RunOverflow(s)
      /\ IsMtf(b) => Rank(b) \in Live
  BY CleanBeat
<1>3. /\ run \in Nat /\ weight \in Nat /\ fillIdx \in Nat /\ Eob = fillIdx + 1
      /\ ListView \in Seq(Bytes) /\ Len(ListView) = fillIdx
      /\ \A i \in 1..fillIdx : ListView[i] = lst[i - 1]
  BY DecodeEob, ViewFacts, RunAssumption, NListAssumption
  DEF CamInv, TypeOK, ListTypeOK, RunTypeOK
<1>4. g.bytes \in Seq(Bytes) /\ g.longest \in Nat
  BY DEF ModelState
<1>5. CASE IsRun(b)
  <2>1. s <= 1 /\ s \in 0..1
    BY <1>2, <1>5
  <2>2. h = [g EXCEPT !.run = @ + g.weight * (1 + s), !.weight = 2 * @]
    BY <2>1 DEF GoldenStep
  <2>3. RunSum(s) \in Nat
    BY <1>3, <2>1 DEF RunSum
  <2>4. g.run + g.weight * (1 + s) = RunSum(s) /\ 2 * g.weight = 2 * weight
    BY DEF RunSum
  <2>5. h = [g EXCEPT !.run = RunSum(s), !.weight = 2 * weight]
    BY <2>2, <2>4
  <2>6. ~IsMtf(b) /\ ~ValidEob(b)
    BY <1>1, <1>5 DEF IsRun, IsMtf, ValidEob
  <2>7. Flat(Items(b)) = <<>>
    BY <2>6, ItemsFlat
  <2>8. g.bytes \o <<>> = g.bytes
    BY <1>4, ConcatEmptySeq
  <2>9. 2 * weight \in Nat
    BY <1>3
  <2> HIDE DEF h
  <2>10. /\ h \in ModelState /\ h.bytes = g.bytes /\ h.list = g.list
         /\ h.run = RunSum(s) /\ h.weight = 2 * weight /\ h.longest = g.longest
    <3> DEFINE sum == RunSum(s)
               next == 2 * weight
    <3> HIDE DEF sum, next
    <3>1. h = [g EXCEPT !.run = sum, !.weight = next] /\ sum \in Nat /\ next \in Nat
      BY <2>3, <2>5, <2>9 DEF sum, next
    <3>2. /\ h \in ModelState /\ h.bytes = g.bytes /\ h.list = g.list
          /\ h.run = sum /\ h.weight = next /\ h.longest = g.longest
      BY <3>1 DEF ModelState
    <3> QED
      BY <3>2 DEF sum, next
  <2> QED
    BY <1>5, <2>6, <2>7, <2>8, <2>10 DEF GoldenFollows, h
<1>6. CASE ~IsRun(b)
  <2> DEFINE ended == [g EXCEPT !.run = 0, !.weight = 1, !.longest = Longest(g),
                                !.bytes = @ \o GoldenRun(g)]
  <2>1. ~(s <= 1)
    BY <1>1, <1>2, <1>3, <1>6 DEF IsRun, ValidType0, ValidEob
  <2>2. GoldenRun(g) = Flat(PendingRun) /\ Flat(PendingRun) \in Seq(Bytes)
    <3>1. ListView[1] = lst[0]
      BY <1>3
    <3> QED
      BY <3>1, PendingFlat DEF GoldenRun
  <2>3. Longest(g) \in Nat
    BY <1>3, <1>4 DEF Longest
  <2>4. g.bytes \o Flat(PendingRun) \in Seq(Bytes)
    BY <1>4, <2>2, Joined
  <2>5. /\ ended \in ModelState /\ ended.run = 0 /\ ended.weight = 1
        /\ ended.longest = Longest(g) /\ ended.list = ListView
        /\ ended.bytes = g.bytes \o Flat(PendingRun)
    <3> DEFINE most == Longest(g)
               all == g.bytes \o Flat(PendingRun)
    <3>1. ended = [g EXCEPT !.run = 0, !.weight = 1, !.longest = most, !.bytes = all]
      BY <2>2
    <3>2. most \in Nat /\ all \in Seq(Bytes)
      BY <2>3, <2>4
    <3> HIDE DEF most, all, ended
    <3>3. /\ ended \in ModelState /\ ended.run = 0 /\ ended.weight = 1
          /\ ended.longest = most /\ ended.list = g.list /\ ended.bytes = all
      BY <3>1, <3>2 DEF ModelState
    <3> QED
      BY <3>3 DEF most, all
  <2>6. h = IF s = Eob THEN ended
            ELSE [ended EXCEPT !.list = GoldenFront(@, s - 1), !.bytes = Append(@, g.list[s])]
    BY <2>1 DEF GoldenStep
  <2> HIDE DEF ended, h
  <2>7. CASE ValidEob(b)
    <3>1. h = ended
      BY <1>3, <2>6, <2>7 DEF ValidEob
    <3>2. ~IsMtf(b)
      BY <2>7 DEF ValidEob, IsMtf, ValidType0
    <3>3. Flat(Items(b)) = Flat(PendingRun)
      BY <2>7, <3>2, ItemsFlat
    <3> QED
      BY <1>6, <2>5, <3>1, <3>2, <3>3 DEF GoldenFollows, h
  <2>8. CASE ~ValidEob(b)
    <3>1. IsMtf(b) /\ s <= fillIdx /\ s >= 2 /\ Rank(b) = s - 1 /\ Rank(b) \in Live
      BY <1>1, <1>2, <2>1, <2>8 DEF IsMtf, ValidType0, Rank
    <3>2. s # Eob
      BY <1>1, <1>3, <3>1
    <3>3. g.list[s] = lst[Rank(b)] /\ lst[Rank(b)] \in Bytes
      <4>1. s \in 1..fillIdx
        BY <1>1, <1>3, <3>1
      <4>2. ListView[s] = lst[s - 1] /\ ListView[s] \in Bytes
        BY <1>3, <4>1, ElementOfSeq
      <4> QED
        BY <3>1, <4>2
    <3>4. Flat(Items(b)) = Append(Flat(PendingRun), lst[Rank(b)])
      BY <3>1, ItemsFlat
    <3>5. Append(g.bytes \o Flat(PendingRun), lst[Rank(b)])
            = g.bytes \o Append(Flat(PendingRun), lst[Rank(b)])
      <4> DEFINE p == Flat(PendingRun)
                 x == lst[Rank(b)]
                 y == g.bytes
      <4>1. p \in Seq(Bytes) /\ x \in Bytes /\ y \in Seq(Bytes)
        BY <1>4, <2>2, <3>3
      <4> HIDE DEF p, x, y
      <4>2. Append(y \o p, x) = (y \o p) \o <<x>> /\ Append(p, x) = p \o <<x>>
            /\ <<x>> \in Seq(Bytes)
        BY <4>1, Joined, AppendIsConcat
      <4>3. (y \o p) \o <<x>> = y \o (p \o <<x>>)
        BY <4>1, <4>2, Regroup
      <4>4. Append(y \o p, x) = y \o Append(p, x)
        BY <4>2, <4>3
      <4> QED
        BY <4>4 DEF p, x, y
    <3>6. GoldenFront(ListView, Rank(b)) \in Seq(Bytes)
      <4> DEFINE r == Rank(b)
                 l == ListView
                 n == fillIdx
                 moved == [i \in 1..n |-> IF i = 1 THEN l[r + 1] ELSE IF i <= r + 1 THEN l[i - 1] ELSE l[i]]
      <4>1. n \in Nat /\ l \in Seq(Bytes) /\ Len(l) = n /\ r \in 1..(n - 1)
        BY <1>1, <1>3, <3>1
      <4> HIDE DEF r, l, n
      <4>2. GoldenFront(l, r) = moved
        BY <4>1, MoveGolden
      <4>3. \A i \in 1..n : l[i] \in Bytes
        BY <4>1, ElementOfSeq
      <4>4. \A i \in 1..n : (IF i = 1 THEN l[r + 1] ELSE IF i <= r + 1 THEN l[i - 1] ELSE l[i]) \in Bytes
        BY <4>1, <4>3
      <4>5. moved \in Seq(Bytes)
        BY <4>1, <4>4
      <4> QED
        BY <4>2, <4>5 DEF r, l, n
    <3> DEFINE moved == GoldenFront(ListView, Rank(b))
               longer == g.bytes \o Flat(Items(b))
    <3>7. h = [ended EXCEPT !.list = moved, !.bytes = longer]
      BY <2>5, <2>6, <3>1, <3>2, <3>3, <3>4, <3>5
    <3>8. moved \in Seq(Bytes) /\ longer \in Seq(Bytes)
      BY <1>4, <3>6, ItemsFlat, Joined
    <3> HIDE DEF moved, longer
    <3>9. /\ h \in ModelState /\ h.run = 0 /\ h.weight = 1 /\ h.longest = ended.longest
          /\ h.list = moved /\ h.bytes = longer
      BY <2>5, <3>7, <3>8 DEF ModelState
    <3> QED
      BY <1>6, <2>5, <3>9 DEF GoldenFollows, h, moved, longer
  <2> QED
    BY <2>7, <2>8
<1> QED
  BY <1>5, <1>6

-----------------------------------------------------------------------------
(* The invariant of a block: every byte the model has made so far is         *)
(* delivered or still on its way; once the block has stopped, what is not    *)
(* behind the packer may be lost.                                            *)

\* The list, the run and the longest run of the model are those in the registers.
InStep ==
  /\ Model \in ModelState
  /\ Model.list = ListView /\ Model.run = run /\ Model.weight = weight

\* A block that is stopped has delivered a part of what the model made, and the
\* packer goes on with it.
Cut(q) == Model.bytes = Received \o (OnOffer \o (buf \o q))

HistInv ==
  /\ heard \in Seq(Beats) /\ delivered \in Seq(Beat)
  /\ Received \in Seq(Bytes) /\ bytesOut = Len(Received)
  /\ Model.bytes \in Seq(Bytes) /\ committed = Len(Model.bytes)
  /\ Model.longest = maxRun
  /\ state # "IDLE" => status = "NONE" /\ fillIdx >= 1 /\ Model.bytes = Received \o Owed
  /\ state = "IDLE" => \E q \in Seq(Bytes) : Cut(q)
  /\ state = "INIT" => heard = <<>> /\ run = 0 /\ weight = 1 /\ Ascending
  /\ state = "DECODE" => InStep

\* The model moves on with the symbols accepted only.
LEMMA SameModel ==
  ASSUME used' = used, heard' = heard,
         status' = status \/ (status \notin Errors /\ status' \notin Errors)
  PROVE  Model' = Model
<1>1. Clean' = Clean /\ Eob' = Eob
  BY DEF Clean, Eob
<1> QED
  BY <1>1 DEF Model

LEMMA ModelAtStart ==
  ASSUME heard = <<>>, status \notin Errors
  PROVE  Model = GoldenStart(used)
<1>1. Values(Clean) = <<>>
  BY DEF Values, Clean
<1> QED
  BY <1>1, GoldenNone DEF Model

LEMMA ModelAccepts ==
  ASSUME heard \in Seq(Beats), NEW b \in Beats, heard' = Append(heard, b), used' = used,
         status \notin Errors, status' \notin Errors
  PROVE  Model' = GoldenStep(Model, b.value, Eob)
<1>1. Clean = heard /\ Clean' = Append(heard, b) /\ Eob' = Eob
  BY DEF Clean, Eob
<1>2. Values(Append(heard, b)) = Append(Values(heard), b.value) /\ Values(heard) \in Seq(Nat)
  BY ValuesAppend
<1> DEFINE old == Values(heard)
           new == Values(Append(heard, b))
<1>3. Model' = ExpandAll(new, used, Eob) /\ Model = ExpandAll(old, used, Eob)
  BY <1>1 DEF Model
<1> HIDE DEF old, new
<1>4. ExpandAll(Append(old, b.value), used, Eob) = GoldenStep(ExpandAll(old, used, Eob), b.value, Eob)
  <2>1. old \in Seq(Nat)
    BY <1>2 DEF old
  <2> QED
    BY <2>1, GoldenAppend
<1>5. new = Append(old, b.value)
  BY <1>2 DEF old, new
<1> QED
  BY <1>3, <1>4, <1>5

LEMMA ModelRejects ==
  ASSUME heard \in Seq(Beats), NEW b \in Beats, heard' = Append(heard, b), used' = used,
         status \notin Errors, status' \in Errors
  PROVE  Model' = Model
<1>1. Clean = heard /\ Clean' = Front(Append(heard, b)) /\ Eob' = Eob
  BY DEF Clean, Eob
<1>2. Front(Append(heard, b)) = heard
  <2> DEFINE longer == Append(heard, b)
  <2>1. longer \in Seq(Beats) /\ Len(longer) = Len(heard) + 1 /\ Len(heard) \in Nat
        /\ \A i \in 1..Len(heard) : longer[i] = heard[i]
    BY AppendProperties, LenProperties
  <2>2. Front(longer) = SubSeq(longer, 1, Len(heard))
    BY <2>1 DEF Front
  <2> HIDE DEF longer
  <2> DEFINE n == Len(heard)
  <2>3. n \in Nat /\ \A i \in 1..n : longer[i] \in Beats
    BY <2>1, ElementOfSeq
  <2> HIDE DEF n
  <2>4. /\ SubSeq(longer, 1, n) \in Seq(Beats)
        /\ Len(SubSeq(longer, 1, n)) = (IF 1 <= n THEN n - 1 + 1 ELSE 0)
        /\ \A i \in 1..(n - 1 + 1) : SubSeq(longer, 1, n)[i] = longer[1 + i - 1]
    BY <2>3, SubSeqProperties
  <2> DEFINE front == SubSeq(longer, 1, n)
  <2> HIDE DEF front
  <2>5. front \in Seq(Beats) /\ Len(front) = n /\ \A i \in 1..n : front[i] = longer[i]
    BY <2>3, <2>4 DEF front
  <2>6. front = heard
    BY <2>1, <2>5, SeqEqual DEF n
  <2> QED
    BY <2>2, <2>6 DEF front, n, longer
<1> QED
  BY <1>1, <1>2 DEF Model

\* What the monitor of m_l and BYTES_OUT make of an edge.
LEMMA Delivery ==
  ASSUME CamInv, HistInv, NEW ready \in BOOLEAN, Observe(ready), CountOut(ready)
  PROVE  /\ delivered' \in Seq(Beat) /\ Received' = Received \o Handed(ready)
         /\ Received' \in Seq(Bytes) /\ bytesOut' = Len(Received')
<1>1. DrainTypeOK /\ delivered \in Seq(Beat) /\ Received \in Seq(Bytes) /\ bytesOut = Len(Received)
  BY DEF CamInv, TypeOK, HistInv
<1> DEFINE left == Handed(ready)
<1>2. delivered' \in Seq(Beat) /\ Received' = Received \o left /\ Len(left) = LanesOut(ready)
  BY <1>1, ReceivedEdge
<1>3. left \in Seq(Bytes)
  BY <1>1, DrainParts
<1>4. bytesOut' = bytesOut + LanesOut(ready)
  BY DEF CountOut
<1> HIDE DEF left
<1> QED
  BY <1>1, <1>2, <1>3, <1>4, ConcatProperties DEF left

\* A running block: what the model adds is written to the line.
LEMMA Passing ==
  ASSUME CamInv, CamInv', HistInv, NEW ctl \in {"run", "last"}, NEW wr \in Seq(Item),
         NEW ready \in BOOLEAN, DrainEdge(ctl, wr, ready), Observe(ready), CountOut(ready),
         Model.bytes = Received \o Owed, Model'.bytes = Model.bytes \o Flat(wr)
  PROVE  /\ delivered' \in Seq(Beat)
         /\ Received' \in Seq(Bytes) /\ bytesOut' = Len(Received')
         /\ Model'.bytes = Received' \o Owed'
<1> DEFINE left == Handed(ready)
           late == Flat(wr)
<1>1. DrainTypeOK /\ DrainTypeOK' /\ Received \in Seq(Bytes)
  BY DEF CamInv, TypeOK, HistInv
<1>2. /\ delivered' \in Seq(Beat) /\ Received' = Received \o left
      /\ Received' \in Seq(Bytes) /\ bytesOut' = Len(Received')
  BY Delivery
<1>3. Owed \o late = left \o Owed'
  BY <1>1, OwedEdge
<1>4. left \in Seq(Bytes) /\ late \in Seq(Bytes) /\ Owed \in Seq(Bytes)
  BY <1>1, DrainParts, FlatType, OwedType
<1>5. Owed' \in Seq(Bytes)
  <2>1. out' # <<>> => out'[1] \in Beat
    BY <1>1, EmptySeq, ElementOfSeq DEF DrainTypeOK
  <2>2. OnOffer' \in Seq(Bytes) /\ buf' \in Seq(Bytes)
    BY <1>1, <2>1 DEF OnOffer, Beat, DrainTypeOK
  <2>3. exp' \o fifo' \in Seq(Item)
    BY <1>1, ConcatProperties DEF DrainTypeOK
  <2>4. Flat(exp' \o fifo') \in Seq(Bytes)
    BY <2>3, FlatType
  <2> DEFINE o == OnOffer'
             u == buf'
             f == Flat(exp' \o fifo')
  <2>5. Owed' = o \o (u \o f)
    BY DEF Owed
  <2> HIDE DEF o, u, f
  <2>6. o \in Seq(Bytes) /\ u \in Seq(Bytes) /\ f \in Seq(Bytes)
    BY <2>2, <2>4 DEF o, u, f
  <2> QED
    BY <2>5, <2>6, Joined
<1> DEFINE now == Owed
           after == Owed'
           bytes == Received
<1>6. Model'.bytes = (bytes \o now) \o late
  OBVIOUS
<1> HIDE DEF left, late, now, after, bytes
<1>7. (bytes \o now) \o late = (bytes \o left) \o after
  <2>1. bytes \in Seq(Bytes) /\ now \in Seq(Bytes) /\ late \in Seq(Bytes) /\ left \in Seq(Bytes)
        /\ after \in Seq(Bytes) /\ now \o late = left \o after
    BY <1>1, <1>3, <1>4, <1>5 DEF bytes, now, after
  <2>2. (bytes \o now) \o late = bytes \o (now \o late)
    BY <2>1, Regroup
  <2>3. (bytes \o left) \o after = bytes \o (left \o after)
    BY <2>1, Regroup
  <2> QED
    BY <2>1, <2>2, <2>3
<1> QED
  BY <1>2, <1>6, <1>7 DEF bytes, after

\* A stopped block: the packer goes on with what it holds.
LEMMA Cutting ==
  ASSUME CamInv, CamInv', HistInv, NEW ctl, ctl # "discard", NEW ready \in BOOLEAN,
         DrainEdge(ctl, <<>>, ready), Accepted(ctl, ready) = <<>>,
         Observe(ready), CountOut(ready), NEW q \in Seq(Bytes), Cut(q), Model' = Model
  PROVE  /\ delivered' \in Seq(Beat)
         /\ Received' \in Seq(Bytes) /\ bytesOut' = Len(Received')
         /\ Cut(q)'
<1> DEFINE left == Handed(ready)
           o == OnOffer
           p == OnOffer'
           c == buf'
           bytes == Received
<1>1. DrainTypeOK /\ DrainTypeOK' /\ bytes \in Seq(Bytes)
  BY DEF CamInv, TypeOK, HistInv
<1>2. /\ delivered' \in Seq(Beat) /\ Received' = bytes \o left
      /\ Received' \in Seq(Bytes) /\ bytesOut' = Len(Received')
  BY Delivery
<1>3. left \in Seq(Bytes) /\ o \in Seq(Bytes) /\ buf \in Seq(Bytes)
  BY <1>1, DrainParts
<1>4. p \in Seq(Bytes) /\ c \in Seq(Bytes)
  <2>1. out' # <<>> => out'[1] \in Beat
    BY <1>1, EmptySeq, ElementOfSeq DEF DrainTypeOK
  <2> QED
    BY <1>1, <2>1 DEF OnOffer, Beat, DrainTypeOK
<1>5. o \o (buf \o <<>>) = left \o (p \o c)
  BY <1>1, PackerEdge
<1>6. Model.bytes = bytes \o (o \o (buf \o q))
  BY DEF Cut
<1>7. Model'.bytes = Received' \o (p \o (c \o q)) => Cut(q)'
  BY DEF Cut
<1> HIDE DEF left, o, p, c, bytes
<1>8. o \o buf = left \o (p \o c)
  BY <1>3, <1>5, ConcatEmptySeq
<1>9. bytes \o (o \o (buf \o q)) = (bytes \o left) \o (p \o (c \o q))
  <2>1. Cat(o, Cat(buf, q)) = Cat(Cat(o, buf), q)
    BY ONLY <1>3, q \in Seq(Bytes), CatLaws
  <2>2. Cat(Cat(left, Cat(p, c)), q) = Cat(left, Cat(p, Cat(c, q)))
    BY ONLY <1>3, <1>4, q \in Seq(Bytes), CatLaws
  <2>3. Cat(bytes, Cat(left, Cat(p, Cat(c, q)))) = Cat(Cat(bytes, left), Cat(p, Cat(c, q)))
    BY ONLY <1>1, <1>3, <1>4, q \in Seq(Bytes), CatLaws
  <2>4. Cat(o, buf) = Cat(left, Cat(p, c))
    BY <1>8 DEF Cat
  <2>5. Cat(bytes, Cat(o, Cat(buf, q))) = Cat(Cat(bytes, left), Cat(p, Cat(c, q)))
    BY ONLY <2>1, <2>2, <2>3, <2>4
  <2> QED
    BY ONLY <2>5 DEF Cat
<1> QED
  BY <1>2, <1>6, <1>7, <1>9

LEMMA HistInvInit == HInit => HistInv
<1> SUFFICES ASSUME HInit PROVE HistInv
  OBVIOUS
<1>1. /\ heard = <<>> /\ delivered = <<>> /\ status = "NONE" /\ state = "IDLE"
      /\ out = <<>> /\ buf = <<>> /\ bytesOut = 0 /\ committed = 0 /\ maxRun = 0
  BY DEF HInit, Init, DrainInit, RunInit
<1>2. Model = GoldenStart(used)
  BY <1>1, ModelAtStart DEF Errors
<1>3. Model.bytes = <<>> /\ Model.longest = 0
  BY <1>2 DEF GoldenStart
<1>4. Received = <<>>
  BY <1>1, ReceivedNone DEF Received
<1>5. OnOffer = <<>>
  BY <1>1 DEF OnOffer
<1>6. Cut(<<>>)
  BY <1>1, <1>3, <1>4, <1>5, EmptySeq, ConcatEmptySeq DEF Cut
<1> QED
  BY <1>1, <1>3, <1>4, <1>6, EmptySeq DEF HistInv

LEMMA HoldUsed == ASSUME ListHold PROVE used' = used
  BY DEF ListHold, ListStep

\* An edge without a symbol of a running block that goes on running.
LEMMA Running ==
  ASSUME CamInv, CamInv', HistInv, NEW ready \in BOOLEAN, state # "IDLE",
         NEW ctl \in {"run", "last"}, DrainEdge(ctl, <<>>, ready),
         Observe(ready), CountOut(ready), UNCHANGED heard, ListHold, RunHold,
         status' \notin Errors, committed' = committed
  PROVE  /\ heard' \in Seq(Beats) /\ delivered' \in Seq(Beat)
         /\ Received' \in Seq(Bytes) /\ bytesOut' = Len(Received')
         /\ Model' = Model
         /\ Model'.bytes \in Seq(Bytes) /\ committed' = Len(Model'.bytes)
         /\ Model'.longest = maxRun'
         /\ Model'.bytes = Received' \o Owed'
<1>1. Model' = Model
  BY HoldUsed, SameModel DEF HistInv, Errors
<1>2. Model.bytes \in Seq(Bytes) /\ Model.bytes = Received \o Owed
  BY DEF HistInv
<1>3. Model'.bytes = Model.bytes \o Flat(<<>>)
  BY <1>1, <1>2, FlatNone, ConcatEmptySeq
<1>4. <<>> \in Seq(Item)
  BY EmptySeq
<1>5. /\ delivered' \in Seq(Beat)
      /\ Received' \in Seq(Bytes) /\ bytesOut' = Len(Received')
      /\ Model'.bytes = Received' \o Owed'
  BY <1>2, <1>3, <1>4, Passing
<1>6. heard' \in Seq(Beats) /\ committed = Len(Model.bytes) /\ Model.longest = maxRun
  BY DEF HistInv
<1>7. maxRun' = maxRun
  BY DEF RunHold, runVars
<1> QED
  BY <1>1, <1>2, <1>5, <1>6, <1>7

\* An error or an abort.
LEMMA Stopping ==
  ASSUME CamInv, CamInv', HistInv, NEW ready \in BOOLEAN, NEW why, state # "IDLE",
         Discard(ready, why), Observe(ready), heard' \in Seq(Beats), Model' = Model
  PROVE  HistInv'
<1>1. DrainTypeOK /\ DrainEdge("stop", <<>>, ready) /\ CountOut(ready) /\ state' = "IDLE"
      /\ committed' = committed /\ RunHold
  BY DEF CamInv, TypeOK, Discard
<1>2. Accepted("stop", ready) = <<>>
  BY DEF Accepted, PackReady, FlushActive
<1>3. Flat(exp \o fifo) \in Seq(Bytes)
  <2>1. exp \o fifo \in Seq(Item)
    BY <1>1, ConcatProperties DEF DrainTypeOK
  <2> QED
    BY <2>1, FlatType
<1>4. PICK q \in Seq(Bytes) : Cut(q)
  BY <1>3 DEF HistInv, Owed, Cut
<1>5. /\ delivered' \in Seq(Beat)
      /\ Received' \in Seq(Bytes) /\ bytesOut' = Len(Received')
      /\ Cut(q)'
  BY <1>1, <1>2, <1>3, <1>4, Cutting
<1>6. maxRun' = maxRun
  BY <1>1 DEF RunHold, runVars
<1>7. Model'.bytes \in Seq(Bytes) /\ committed' = Len(Model'.bytes) /\ Model'.longest = maxRun'
  BY <1>1, <1>6 DEF HistInv
<1>8. \E r \in Seq(Bytes) : Cut(r)'
  BY <1>4, <1>5
<1> QED
  BY <1>1, <1>5, <1>7, <1>8 DEF HistInv

LEMMA HoldFilled ==
  ASSUME ListInv, ListHold, fillIdx >= 1
  PROVE  fillIdx' >= 1
<1>1. filling \in BOOLEAN /\ fillIdx \in Nat
  BY NListAssumption DEF ListInv, ListTypeOK
<1>2. CASE filling
  <2>1. fillIdx' = fillIdx + 1
    BY <1>2, HoldFacts
  <2> QED
    BY <1>1, <2>1
<1>3. CASE ~filling
  <2>1. fillIdx' = fillIdx
    BY <1>3, HoldFacts
  <2> QED
    BY <2>1
<1> QED
  BY <1>1, <1>2, <1>3

\* A symbol accepted: the model and the sequencer take the same step.
LEMMA Accepting ==
  ASSUME CamInv, CamInv', HistInv, NEW ready \in BOOLEAN, NEW b \in Beats, Accept(ready, b),
         Observe(ready), heard' = Append(heard, b), used' = used,
         maxRun' = IF IsRun(b) THEN maxRun ELSE IF run > maxRun THEN run ELSE maxRun
  PROVE  /\ heard' \in Seq(Beats) /\ delivered' \in Seq(Beat)
         /\ Received' \in Seq(Bytes) /\ bytesOut' = Len(Received')
         /\ Model'.bytes \in Seq(Bytes) /\ committed' = Len(Model'.bytes)
         /\ Model'.longest = maxRun'
         /\ Model'.bytes = Received' \o Owed'
         /\ status' = "NONE" /\ fillIdx >= 1
         /\ GoldenFollows(Model, Model', b)
<1>1. /\ state = "DECODE" /\ Verdict(b) = "NONE" /\ DrainEdge("run", Items(b), ready)
      /\ committed' = committed + ItemBytes(b) /\ CountOut(ready) /\ status' = status
  BY DEF Accept
<1>2. /\ heard \in Seq(Beats) /\ status = "NONE" /\ fillIdx >= 1 /\ InStep
      /\ Model.bytes \in Seq(Bytes) /\ committed = Len(Model.bytes) /\ Model.longest = maxRun
      /\ Model.bytes = Received \o Owed
  BY <1>1 DEF HistInv
<1>3. Model' = GoldenStep(Model, b.value, Eob)
  BY <1>1, <1>2, ModelAccepts DEF Errors
<1>4. GoldenFollows(Model, Model', b)
  <2> DEFINE g == Model
             h == GoldenStep(Model, b.value, Eob)
  <2>1. g \in ModelState /\ g.list = ListView /\ g.run = run /\ g.weight = weight
    BY <1>2 DEF InStep
  <2> HIDE DEF g
  <2>2. GoldenFollows(g, GoldenStep(g, b.value, Eob), b)
    BY <1>1, <1>2, <2>1, GoldenSymbol
  <2>3. GoldenFollows(Model, GoldenStep(Model, b.value, Eob), b)
    BY <2>2 DEF g
  <2> QED
    BY <1>3, <2>3
<1> DEFINE late == Flat(Items(b))
           h == Model'
<1>5. late \in Seq(Bytes) /\ Len(late) = ItemBytes(b) /\ Items(b) \in Seq(Item)
  BY <1>1, ItemsFlat, CleanBeat
<1>6. h.bytes = Model.bytes \o late
  BY <1>4 DEF GoldenFollows
<1>7. /\ delivered' \in Seq(Beat)
      /\ Received' \in Seq(Bytes) /\ bytesOut' = Len(Received')
      /\ h.bytes = Received' \o Owed'
  BY <1>1, <1>2, <1>5, <1>6, Passing
<1>8. h.bytes \in Seq(Bytes) /\ committed' = Len(h.bytes)
  <2> DEFINE old == Model.bytes
             new == h.bytes
             count == ItemBytes(b)
  <2>1. new = old \o late /\ old \in Seq(Bytes) /\ late \in Seq(Bytes) /\ Len(late) = count
        /\ committed = Len(old) /\ committed' = committed + count
    BY <1>1, <1>2, <1>5, <1>6
  <2> HIDE DEF old, new, late, count
  <2>2. new \in Seq(Bytes) /\ committed' = Len(new)
    BY <2>1, ConcatProperties
  <2> QED
    BY <2>2 DEF new
<1>9. h.longest = maxRun'
  <2>1. CASE IsRun(b)
    BY <1>2, <1>4, <2>1 DEF GoldenFollows
  <2>2. CASE ~IsRun(b)
    <3>1. h.longest = Longest(Model)
      BY <1>4, <2>2 DEF GoldenFollows
    <3>2. Longest(Model) = IF run > maxRun THEN run ELSE maxRun
      BY <1>2 DEF Longest, InStep
    <3> QED
      BY <2>2, <3>1, <3>2
  <2> QED
    BY <2>1, <2>2
<1>10. heard' \in Seq(Beats)
  BY <1>2, AppendProperties
<1> QED
  BY <1>1, <1>2, <1>4, <1>7, <1>8, <1>9, <1>10

\* One edge of mtf_cam and of the monitors of its streams.
LEMMA HistInvStep ==
  CamInv /\ CamInv' /\ StreamInv /\ HistInv /\ [HNext]_<<vars, historyVars>> => HistInv'
<1> SUFFICES ASSUME CamInv, CamInv', StreamInv, HistInv, [HNext]_<<vars, historyVars>>
             PROVE  HistInv'
  OBVIOUS
<1> USE DEF ctrlVars, limitVars, countVars
<1>0. /\ ListInv /\ RunInv /\ DrainTypeOK /\ TypeOK /\ ListTypeOK
      /\ fillIdx \in Nat /\ filling \in BOOLEAN
      /\ heard \in Seq(Beats)
  <2>1. ListInv /\ RunInv /\ TypeOK
    BY DEF CamInv
  <2>2. ListTypeOK /\ DrainTypeOK
    BY <2>1 DEF TypeOK
  <2>3. fillIdx \in Nat /\ filling \in BOOLEAN
    BY <2>2, NListAssumption DEF ListTypeOK
  <2>4. heard \in Seq(Beats)
    BY DEF HistInv
  <2> QED
    BY <2>1, <2>2, <2>3, <2>4
<1>1. ASSUME NEW ready \in BOOLEAN, Idle(ready), Observe(ready), UNCHANGED heard PROVE HistInv'
  <2>1. /\ state = "IDLE" /\ state' = "IDLE" /\ status' = status /\ committed' = committed
        /\ ListHold /\ RunHold /\ DrainEdge("run", <<>>, ready) /\ CountOut(ready)
    BY <1>1 DEF Idle
  <2>2. Model' = Model
    BY <1>1, <2>1, HoldUsed, SameModel
  <2>3. PICK q \in Seq(Bytes) : Cut(q)
    BY <2>1 DEF HistInv
  <2>4. Accepted("run", ready) = <<>>
    BY <2>1 DEF StreamInv, IdleQuiet, Accepted
  <2>5. /\ delivered' \in Seq(Beat)
        /\ Received' \in Seq(Bytes) /\ bytesOut' = Len(Received')
        /\ Cut(q)'
    BY <1>1, <2>1, <2>2, <2>3, <2>4, Cutting
  <2>6. \E r \in Seq(Bytes) : Cut(r)'
    BY <2>3, <2>5
  <2>7. maxRun' = maxRun
    BY <2>1 DEF RunHold, runVars
  <2>8. Model'.bytes \in Seq(Bytes) /\ committed' = Len(Model'.bytes) /\ Model'.longest = maxRun'
        /\ heard' \in Seq(Beats)
    BY <1>1, <2>1, <2>2, <2>7 DEF HistInv
  <2> QED
    BY <2>1, <2>5, <2>6, <2>8 DEF HistInv
<1>2. ASSUME NEW ready \in BOOLEAN, InitStep(ready), Observe(ready), UNCHANGED heard
      PROVE  HistInv'
  <2>1. /\ state = "INIT" /\ state' = (IF InitDone THEN "DECODE" ELSE "INIT")
        /\ status' = status /\ committed' = committed
        /\ ListHold /\ RunHold /\ DrainEdge("run", <<>>, ready) /\ CountOut(ready)
    BY <1>2 DEF InitStep
  <2>2. /\ status = "NONE" /\ fillIdx >= 1 /\ heard = <<>> /\ run = 0 /\ weight = 1 /\ Ascending
    BY <2>1 DEF HistInv
  <2>3. /\ heard' \in Seq(Beats) /\ delivered' \in Seq(Beat)
        /\ Received' \in Seq(Bytes) /\ bytesOut' = Len(Received')
        /\ Model' = Model
        /\ Model'.bytes \in Seq(Bytes) /\ committed' = Len(Model'.bytes)
        /\ Model'.longest = maxRun'
        /\ Model'.bytes = Received' \o Owed'
    BY <1>2, <2>1, <2>2, Running DEF Errors
  <2>4. fillIdx' >= 1
    BY <1>0, <2>1, <2>2, HoldFilled
  <2>5. run' = 0 /\ weight' = 1 /\ Ascending'
    BY <1>0, <2>1, <2>2, HoldAscending DEF RunHold, runVars
  <2>6. state' = "DECODE" => InStep'
    <3> SUFFICES ASSUME state' = "DECODE" PROVE InStep'
      OBVIOUS
    <3>1. ~filling
      BY <2>1 DEF InitDone, InitBusy
    <3>2. Model = GoldenStart(used)
      BY <2>2, ModelAtStart DEF Errors
    <3>3. GoldenList(used) = ListView /\ ListView \in Seq(Bytes)
      BY <1>0, <2>2, <3>1, FirstList, ViewFacts
    <3>4. ListView' = ListView
      <4>1. lst' = lst /\ fillIdx' = fillIdx
        BY <2>1, <3>1 DEF ListHold, ListStep, InitBusy, NoMove
      <4> QED
        BY <4>1 DEF ListView
    <3>5. <<>> \in Seq(Bytes)
      BY EmptySeq
    <3> DEFINE l == ListView
    <3>6. Model' = [list |-> l, run |-> 0, weight |-> 1, bytes |-> <<>>, longest |-> 0]
      BY <2>3, <3>2, <3>3 DEF GoldenStart
    <3> HIDE DEF l
    <3>7. Model' \in ModelState /\ Model'.list = l /\ Model'.run = 0 /\ Model'.weight = 1
      <4>1. l \in Seq(Bytes)
        BY <3>3 DEF l
      <4> QED
        BY <3>5, <3>6, <4>1 DEF ModelState
    <3> QED
      BY <2>5, <3>4, <3>7 DEF InStep, l, ModelState
  <2> QED
    BY <1>2, <2>1, <2>2, <2>3, <2>4, <2>5, <2>6 DEF HistInv
<1>3. ASSUME NEW ready \in BOOLEAN, Wait(ready), Observe(ready), UNCHANGED heard PROVE HistInv'
  <2>1. /\ state = "DECODE" /\ state' = "DECODE" /\ status' = status /\ committed' = committed
        /\ ListHold /\ RunHold /\ DrainEdge("run", <<>>, ready) /\ CountOut(ready)
    BY <1>3 DEF Wait
  <2>2. status = "NONE" /\ fillIdx >= 1 /\ InStep
    BY <2>1 DEF HistInv
  <2>3. /\ heard' \in Seq(Beats) /\ delivered' \in Seq(Beat)
        /\ Received' \in Seq(Bytes) /\ bytesOut' = Len(Received')
        /\ Model' = Model
        /\ Model'.bytes \in Seq(Bytes) /\ committed' = Len(Model'.bytes)
        /\ Model'.longest = maxRun'
        /\ Model'.bytes = Received' \o Owed'
    BY <1>3, <2>1, <2>2, Running DEF Errors
  <2>4. lst' = lst /\ fillIdx' = fillIdx /\ run' = run /\ weight' = weight
    <3>1. ~filling
      BY <2>1 DEF CamInv
    <3> QED
      BY <2>1, <3>1 DEF ListHold, ListStep, InitBusy, NoMove, RunHold, runVars
  <2>5. InStep'
    <3>1. ListView' = ListView
      BY <2>4 DEF ListView
    <3> QED
      BY <2>2, <2>3, <2>4, <3>1 DEF InStep, ModelState
  <2> QED
    BY <2>1, <2>2, <2>3, <2>4, <2>5 DEF HistInv
<1>4. ASSUME NEW ready \in BOOLEAN, DrainStep(ready), Observe(ready), UNCHANGED heard
      PROVE  HistInv'
  <2>1. /\ state = "DRAIN" /\ state' = "DRAIN" /\ status' = status /\ committed' = committed
        /\ ListHold /\ RunHold /\ CountOut(ready)
        /\ DrainEdge(IF IssueFlush(ready) THEN "last" ELSE "run", <<>>, ready)
    BY <1>4 DEF DrainStep
  <2>2. status = "NONE" /\ fillIdx >= 1
    BY <2>1 DEF HistInv
  <2>3. PICK ctl \in {"run", "last"} : DrainEdge(ctl, <<>>, ready)
    BY <2>1
  <2>4. /\ heard' \in Seq(Beats) /\ delivered' \in Seq(Beat)
        /\ Received' \in Seq(Bytes) /\ bytesOut' = Len(Received')
        /\ Model' = Model
        /\ Model'.bytes \in Seq(Bytes) /\ committed' = Len(Model'.bytes)
        /\ Model'.longest = maxRun'
        /\ Model'.bytes = Received' \o Owed'
    BY <1>4, <2>1, <2>2, <2>3, Running DEF Errors
  <2>5. fillIdx' >= 1
    BY <1>0, <2>1, <2>2, HoldFilled
  <2> QED
    BY <2>1, <2>2, <2>4, <2>5 DEF HistInv
<1>5. ASSUME NEW ready \in BOOLEAN, Done(ready), Observe(ready), UNCHANGED heard PROVE HistInv'
  <2>1. /\ state = "DRAIN" /\ state' = "IDLE" /\ status' = "DONE" /\ committed' = committed
        /\ ListHold /\ RunHold /\ CountOut(ready) /\ DrainEdge("run", <<>>, ready)
    BY <1>5 DEF Done, DoneNow
  <2>2. /\ heard' \in Seq(Beats) /\ delivered' \in Seq(Beat)
        /\ Received' \in Seq(Bytes) /\ bytesOut' = Len(Received')
        /\ Model' = Model
        /\ Model'.bytes \in Seq(Bytes) /\ committed' = Len(Model'.bytes)
        /\ Model'.longest = maxRun'
        /\ Model'.bytes = Received' \o Owed'
    BY <1>5, <2>1, Running DEF Errors
  <2>3. \E r \in Seq(Bytes) : Cut(r)'
    <3>1. exp' \o fifo' \in Seq(Item)
      BY ConcatProperties DEF CamInv, TypeOK, DrainTypeOK
    <3>2. Flat(exp' \o fifo') \in Seq(Bytes)
      BY <3>1, FlatType
    <3>3. Model'.bytes = Received' \o (OnOffer' \o (buf' \o Flat(exp' \o fifo')))
      BY <2>2 DEF Owed
    <3>4. PICK r \in Seq(Bytes) : Model'.bytes = Received' \o (OnOffer' \o (buf' \o r))
      BY <3>2, <3>3
    <3> QED
      BY <3>4 DEF Cut
  <2> QED
    BY <2>1, <2>2, <2>3 DEF HistInv
<1>6. ASSUME NEW ready \in BOOLEAN, Abort(ready), Observe(ready), UNCHANGED heard PROVE HistInv'
  <2>1. state # "IDLE" /\ Discard(ready, "ABORTED") /\ status' = "ABORTED" /\ ListHold
    BY <1>6 DEF Abort, Discard
  <2>2. status = "NONE"
    BY <2>1 DEF HistInv
  <2>3. Model' = Model
    BY <1>6, <2>1, <2>2, HoldUsed, SameModel DEF Errors
  <2>4. heard' \in Seq(Beats)
    BY <1>0, <1>6
  <2> QED
    BY <1>6, <2>1, <2>3, <2>4, Stopping
<1>7. ASSUME NEW ready \in BOOLEAN, NEW b \in Beats, AcceptRun(ready, b), Observe(ready),
             heard' = Append(heard, b)
      PROVE  HistInv'
  <2>1. /\ Accept(ready, b) /\ IsRun(b) /\ RunAccumulate(b.value) /\ ListHold
        /\ state = "DECODE" /\ state' = "DECODE"
    BY <1>7 DEF AcceptRun, Accept
  <2>2. maxRun' = maxRun /\ run' = RunSum(b.value) /\ weight' = 2 * weight
    BY <2>1 DEF RunAccumulate
  <2>3. /\ heard' \in Seq(Beats) /\ delivered' \in Seq(Beat)
        /\ Received' \in Seq(Bytes) /\ bytesOut' = Len(Received')
        /\ Model'.bytes \in Seq(Bytes) /\ committed' = Len(Model'.bytes)
        /\ Model'.longest = maxRun'
        /\ Model'.bytes = Received' \o Owed'
        /\ status' = "NONE" /\ fillIdx >= 1
        /\ GoldenFollows(Model, Model', b)
    BY <1>7, <2>1, <2>2, HoldUsed, Accepting
  <2>4. lst' = lst /\ fillIdx' = fillIdx
    <3>1. ~filling
      BY <2>1 DEF CamInv
    <3> QED
      BY <2>1, <3>1 DEF ListHold, ListStep, InitBusy, NoMove
  <2>5. InStep'
    <3>1. ListView' = ListView
      BY <2>4 DEF ListView
    <3>2. Model.list = ListView
      BY <2>1 DEF HistInv, InStep
    <3>3. /\ Model' \in ModelState
          /\ Model'.list = Model.list /\ Model'.run = RunSum(b.value) /\ Model'.weight = 2 * weight
      BY <2>1, <2>3 DEF GoldenFollows
    <3> QED
      BY <2>2, <3>1, <3>2, <3>3 DEF InStep, ModelState
  <2> QED
    BY <2>1, <2>3, <2>4, <2>5 DEF HistInv
<1>8. ASSUME NEW ready \in BOOLEAN, NEW b \in Beats, AcceptMtf(ready, b), Observe(ready),
             heard' = Append(heard, b)
      PROVE  HistInv'
  <2>1. /\ Accept(ready, b) /\ IsMtf(b) /\ RunClear(run # 0) /\ ListStep(FALSE, {}, Rank(b))
        /\ state = "DECODE" /\ state' = "DECODE" /\ Verdict(b) = "NONE"
    BY <1>8 DEF AcceptMtf, Accept
  <2>2. ~IsRun(b)
    BY <2>1, BeatTypes DEF IsRun, IsMtf
  <2>3. run \in Nat /\ maxRun \in Nat
    BY <1>0, RunAssumption DEF TypeOK, RunTypeOK
  <2>4. maxRun' = (IF run > maxRun THEN run ELSE maxRun) /\ run' = 0 /\ weight' = 1
    BY <2>1, <2>3 DEF RunClear
  <2>5. used' = used
    BY <2>1 DEF ListStep
  <2>6. /\ heard' \in Seq(Beats) /\ delivered' \in Seq(Beat)
        /\ Received' \in Seq(Bytes) /\ bytesOut' = Len(Received')
        /\ Model'.bytes \in Seq(Bytes) /\ committed' = Len(Model'.bytes)
        /\ Model'.longest = maxRun'
        /\ Model'.bytes = Received' \o Owed'
        /\ status' = "NONE" /\ fillIdx >= 1
        /\ GoldenFollows(Model, Model', b)
    BY <1>8, <2>1, <2>2, <2>4, <2>5, Accepting
  <2>7. ~filling /\ Rank(b) \in Live /\ Rank(b) # NoMove /\ Rank(b) # 0
    <3>1. ~filling /\ Rank(b) \in Live /\ Rank(b) # NoMove
      BY <2>1, CleanBeat DEF CamInv
    <3>2. Rank(b) # 0
      BY <2>1, BeatTypes DEF IsMtf, Rank
    <3> QED
      BY <3>1, <3>2
  <2>8. ListView' = GoldenFront(ListView, Rank(b))
    <3> DEFINE r == Rank(b)
    <3>1. r \in Live /\ r # 0 /\ ListStep(FALSE, {}, r)
      BY <2>1, <2>7
    <3> HIDE DEF r
    <3>2. ListView' = GoldenFront(ListView, r)
      BY <1>0, <2>7, <3>1, MoveView
    <3> QED
      BY <3>2 DEF r
  <2>9. fillIdx' = fillIdx
    BY <2>1, <2>7 DEF ListStep, InitBusy, MoveToFront
  <2>10. InStep'
    <3>1. /\ Model' \in ModelState
          /\ Model'.list = GoldenFront(ListView, Rank(b)) /\ Model'.run = 0 /\ Model'.weight = 1
      BY <2>1, <2>2, <2>6 DEF GoldenFollows
    <3> QED
      BY <2>4, <2>8, <3>1 DEF InStep, ModelState
  <2> QED
    BY <2>1, <2>6, <2>9, <2>10 DEF HistInv
<1>9. ASSUME NEW ready \in BOOLEAN, NEW b \in Beats, AcceptEob(ready, b), Observe(ready),
             heard' = Append(heard, b)
      PROVE  HistInv'
  <2>1. /\ Accept(ready, b) /\ ValidEob(b) /\ RunClear(run # 0) /\ ListHold
        /\ state' = "DRAIN"
    BY <1>9 DEF AcceptEob
  <2>2. ~IsRun(b)
    BY <2>1 DEF IsRun, ValidEob
  <2>3. run \in Nat /\ maxRun \in Nat
    BY <1>0, RunAssumption DEF TypeOK, RunTypeOK
  <2>4. maxRun' = (IF run > maxRun THEN run ELSE maxRun)
    BY <2>1, <2>3 DEF RunClear
  <2>5. /\ heard' \in Seq(Beats) /\ delivered' \in Seq(Beat)
        /\ Received' \in Seq(Bytes) /\ bytesOut' = Len(Received')
        /\ Model'.bytes \in Seq(Bytes) /\ committed' = Len(Model'.bytes)
        /\ Model'.longest = maxRun'
        /\ Model'.bytes = Received' \o Owed'
        /\ status' = "NONE" /\ fillIdx >= 1
        /\ GoldenFollows(Model, Model', b)
    BY <1>9, <2>1, <2>2, <2>4, HoldUsed, Accepting
  <2>6. fillIdx' >= 1
    BY <1>0, <2>1, <2>5, HoldFilled
  <2> QED
    BY <2>1, <2>5, <2>6 DEF HistInv
<1>10. ASSUME NEW ready \in BOOLEAN, NEW b \in Beats, Reject(ready, b), Observe(ready),
              heard' = Append(heard, b)
       PROVE  HistInv'
  <2>1. /\ state = "DECODE" /\ Discard(ready, Verdict(b)) /\ status' = Verdict(b) /\ ListHold
        /\ Verdict(b) \in Errors
    BY <1>10 DEF Reject, Discard, Verdict, Errors
  <2>2. status = "NONE"
    BY <2>1 DEF HistInv
  <2>3. Model' = Model
    BY <1>0, <1>10, <2>1, <2>2, HoldUsed, ModelRejects DEF Errors
  <2>4. heard' \in Seq(Beats)
    BY <1>0, <1>10, AppendProperties
  <2> DEFINE why == Verdict(b)
  <2>5. Discard(ready, why)
    BY <2>1
  <2> HIDE DEF why
  <2> QED
    BY <1>10, <2>1, <2>3, <2>4, <2>5, Stopping
<1>11. ASSUME NEW ready \in BOOLEAN, NEW u \in (SUBSET Bytes) \ {{}},
              NEW s \in SymbolLimits, NEW l \in BytesLimits,
              Doorbell(ready, u, s, l), heard' = <<>>, delivered' = <<>>
       PROVE  HistInv'
  <2>1. /\ state = "IDLE" /\ state' = "INIT" /\ status' = "NONE"
        /\ committed' = 0 /\ bytesOut' = 0 /\ DrainEdge("discard", <<>>, ready)
        /\ ListStep(TRUE, u, NoMove) /\ RunRestart
    BY <1>11 DEF Doorbell
  <2>2. fillIdx' = 1
    BY <1>0, <2>1, DoorbellFacts
  <2>3. Ascending'
    BY <2>2 DEF Ascending, Live
  <2>4. /\ out' = <<>> /\ buf' = <<>> /\ fifo' = <<>> /\ exp' = <<>>
    <3>1. fifo = <<>> /\ exp = <<>>
      BY <2>1 DEF StreamInv, IdleQuiet
    <3>2. ~Pop("discard", ready)
      BY <3>1 DEF Pop, Queue!Readable
    <3>3. <<>> \o <<>> = <<>>
      BY EmptySeq, ConcatEmptySeq
    <3> QED
      BY <2>1, <3>1, <3>2, <3>3
      DEF DrainEdge, OutAfter, BufAfter, ExpandAfter, Queue!QueueAfter, Queue!Dequeue
  <2>5. Owed' = <<>>
    <3>1. OnOffer' = <<>> /\ exp' \o fifo' = <<>> \o <<>>
      BY <2>4 DEF OnOffer
    <3>2. <<>> \o <<>> = <<>>
      BY EmptySeq, ConcatEmptySeq
    <3> QED
      BY <2>4, <3>1, <3>2, FlatNone DEF Owed
  <2>6. Received' = <<>>
    BY <1>11, ReceivedNone DEF Received
  <2>7. Model' = GoldenStart(used')
    <3>1. Values(Clean') = <<>>
      BY <1>11, <2>1 DEF Values, Clean, Errors
    <3> QED
      BY <3>1, GoldenNone DEF Model
  <2>8. Model'.bytes = <<>> /\ Model'.longest = 0
    BY <2>7 DEF GoldenStart
  <2>9. run' = 0 /\ weight' = 1 /\ maxRun' = 0
    BY <2>1 DEF RunRestart
  <2>10. /\ <<>> \in Seq(Beats) /\ <<>> \in Seq(Beat) /\ <<>> \in Seq(Bytes)
         /\ Len(<<>>) = 0 /\ <<>> \o <<>> = <<>>
    BY EmptySeq, ConcatEmptySeq
  <2> QED
    BY <1>11, <2>1, <2>2, <2>3, <2>5, <2>6, <2>8, <2>9, <2>10 DEF HistInv
<1>12. CASE UNCHANGED <<vars, historyVars>>
  <2>1. UNCHANGED <<heard, delivered, state, status, committed, bytesOut, maxRun, run, weight,
                    fillIdx, lst, used, out, buf, exp, fifo>>
    BY <1>12 DEF vars, historyVars, drainVars, runVars, listVars
  <2>2. Model' = Model
    BY <2>1, SameModel
  <2>3. /\ Received' = Received /\ Owed' = Owed /\ OnOffer' = OnOffer /\ ListView' = ListView
        /\ Ascending' = Ascending
    BY <2>1 DEF Received, Owed, OnOffer, ListView, Ascending, Live
  <2>4. InStep => InStep'
    BY <2>1, <2>2, <2>3 DEF InStep, ModelState
  <2>5. ASSUME NEW q \in Seq(Bytes), Cut(q) PROVE Cut(q)'
    BY <2>1, <2>2, <2>3, <2>5 DEF Cut
  <2>6. state = "IDLE" => \E q \in Seq(Bytes) : Cut(q)'
    BY <2>5 DEF HistInv
  <2> QED
    BY <2>1, <2>2, <2>3, <2>4, <2>6 DEF HistInv
<1> QED
  BY <1>1, <1>2, <1>3, <1>4, <1>5, <1>6, <1>7, <1>8, <1>9, <1>10, <1>11, <1>12
  DEF HNext, HAdvance, HAbort, HSymbol, HDoorbell, Advance, Symbol

LEMMA HistNext == [HNext]_<<vars, historyVars>> => [Next]_vars
  BY DEF HNext, HAdvance, HAbort, HSymbol, HDoorbell, Next, historyVars

LEMMA HistInvariant == HSpec => [](CamInv /\ StreamInv /\ HistInv)
<1>1. HInit => CamInv /\ StreamInv /\ HistInv
  BY CamInvInit, StreamInvInit, HistInvInit DEF HInit
<1>2. CamInv /\ StreamInv /\ HistInv /\ [HNext]_<<vars, historyVars>>
        => (CamInv /\ StreamInv /\ HistInv)'
  <2> SUFFICES ASSUME CamInv, StreamInv, HistInv, [HNext]_<<vars, historyVars>>
               PROVE  CamInv' /\ StreamInv' /\ HistInv'
    OBVIOUS
  <2>1. [Next]_vars
    BY HistNext
  <2>2. CamInv' /\ StreamInv'
    BY <2>1, CamInvStep, StreamInvStep
  <2> QED
    BY <2>2, HistInvStep
<1> QED
  BY <1>1, <1>2, PTL DEF HSpec

LEMMA PrefixOfConcat ==
  ASSUME NEW s \in Seq(Bytes), NEW t \in Seq(Bytes)
  PROVE  IsPrefix(s, s \o t)
<1>1. /\ s \o t \in Seq(Bytes) /\ Len(s \o t) = Len(s) + Len(t)
      /\ Len(s) \in Nat /\ Len(t) \in Nat
  BY ConcatProperties, LenProperties
<1>2. \A i \in 1..Len(s) : (s \o t)[i] = s[i]
  BY <1>1, ConcatProperties
<1>3. SubSeq(s \o t, 1, Len(s)) = s
  <2> DEFINE n == Len(s)
             all == s \o t
             front == SubSeq(all, 1, n)
  <2>1. n \in Nat /\ \A i \in 1..n : all[i] = s[i] /\ all[i] \in Bytes
    BY <1>1, <1>2, ElementOfSeq
  <2> HIDE DEF n, all
  <2>2. /\ front \in Seq(Bytes) /\ Len(front) = (IF 1 <= n THEN n - 1 + 1 ELSE 0)
        /\ \A i \in 1..(n - 1 + 1) : front[i] = all[1 + i - 1]
    BY <2>1, SubSeqProperties
  <2> HIDE DEF front
  <2>3. front \in Seq(Bytes) /\ Len(front) = n /\ \A i \in 1..n : front[i] = s[i]
    BY <2>1, <2>2
  <2>4. front = s
    BY <2>3, SeqEqual DEF n
  <2> QED
    BY <2>4 DEF front, n, all
<1> QED
  BY <1>1, <1>3 DEF IsPrefix

LEMMA HistInvImplies == CamInv /\ HistInv => DeliveredIsPrefix
<1> SUFFICES ASSUME CamInv, HistInv PROVE DeliveredIsPrefix
  OBVIOUS
<1>1. Golden = Model.bytes
  BY DEF Golden, Expand, Model, Values, Eob
<1>2. PICK rest \in Seq(Bytes) : Model.bytes = Received \o rest
  <2>1. CASE state = "IDLE"
    <3>1. PICK q \in Seq(Bytes) : Cut(q)
      BY <2>1 DEF HistInv
    <3>2. OnOffer \in Seq(Bytes) /\ buf \in Seq(Bytes)
      BY DrainParts DEF CamInv, TypeOK
    <3>3. OnOffer \o (buf \o q) \in Seq(Bytes)
      BY <3>2, Joined
    <3> QED
      BY <3>1, <3>3 DEF Cut
  <2>2. CASE state # "IDLE"
    <3>1. Owed \in Seq(Bytes)
      BY OwedType DEF CamInv, TypeOK
    <3> QED
      BY <2>2, <3>1 DEF HistInv
  <2> QED
    BY <2>1, <2>2
<1>3. IsPrefix(Received, Model.bytes)
  <2>1. Received \in Seq(Bytes)
    BY DEF HistInv
  <2> QED
    BY <1>2, <2>1, PrefixOfConcat
<1> QED
  BY <1>1, <1>3 DEF HistInv, DeliveredIsPrefix

\* list_model.py against mtf_cam: whatever stalls, errors, aborts and restarts
\* occur, the bytes delivered for a block are a prefix of what the functional
\* model makes of the symbols accepted, and the counters count exactly them.
THEOREM HistoryDelivers == HSpec => []DeliveredIsPrefix
  BY HistInvariant, HistInvImplies, PTL

-----------------------------------------------------------------------------
(* The scoreboard's walk over the beats heard.                               *)

WalkOp(p, w, b) == Walk(w, b, p)
Track == INSTANCE FoldLaws WITH Op <- WalkOp

Limits == [nUsed |-> Cardinality(used), runMax |-> RunMax,
           symbolLimit |-> symbolLimit, bytesLimit |-> bytesLimit]
Walked == Track!Fold(Limits, WalkStart, heard)

WalkState == [run : Nat, weight : Nat, committed : Nat, heard : Nat, stop : Outcomes]

\* While symbols are decoded the walk holds what the registers hold; then it has
\* stopped where the sequencer did.
WalkInv ==
  /\ symbolsIn = Len(heard)
  /\ state = "DECODE" =>
       /\ Walked \in WalkState
       /\ Walked.run = run /\ Walked.weight = weight /\ Walked.committed = committed
       /\ Walked.heard = symbolsIn /\ Walked.stop = "NONE"
  /\ state = "DRAIN" => Walked.stop = "DONE" /\ Walked.heard = symbolsIn
  /\ status \in Errors \cup {"DONE"} =>
       /\ Walked.stop = status /\ Walked.heard = symbolsIn
       /\ initCycles = Cardinality(used)

-----------------------------------------------------------------------------
(* The shape of the beats delivered.                                         *)

Full(beat) == Len(beat.bytes) = W /\ ~beat.last

\* Full beats only, none of them the last.
Regular(beats, n) ==
  /\ \A i \in 1..Len(beats) : Full(beats[i])
  /\ n = W * Len(beats)

\* Full beats, and one that ended the block.
Ended(beats, n, last) ==
  /\ beats # <<>>
  /\ \A i \in 1..(Len(beats) - 1) : Full(beats[i])
  /\ beats[Len(beats)].last = last
  /\ Len(beats[Len(beats)].bytes) \in 1..W
  /\ n = W * (Len(beats) - 1) + Len(beats[Len(beats)].bytes)

\* The walk stops a beat with the verdict of the sequencer.
LEMMA StopIsVerdict ==
  ASSUME CamInv, state = "DECODE", NEW b \in Beats,
         NEW w, w.run = run, w.weight = weight, w.committed = committed, w.heard = symbolsIn
  PROVE  /\ Stop(w, b, Limits) = IF Verdict(b) # "NONE" THEN Verdict(b)
                                 ELSE IF ValidEob(b) THEN "DONE" ELSE "NONE"
         /\ RunSymbol(b) <=> IsRun(b)
         /\ Verdict(b) = "NONE" => (MtfSymbol(b, Limits.nUsed) <=> IsMtf(b))
         /\ RunAfter(w, b) = RunSum(b.value)
<1>1. /\ Limits.nUsed = fillIdx /\ Limits.runMax = RunMax
      /\ Limits.symbolLimit = symbolLimit /\ Limits.bytesLimit = bytesLimit
  <2>1. Cardinality(used) = fillIdx
    <3>1. rem = {} /\ fillIdx \in Nat /\ Cardinality({}) = 0
      BY FS_EmptySet, DecodeEob, NListAssumption DEF ListInv, ListTypeOK, FillProgress
    <3>2. fillIdx + Cardinality(rem) = Cardinality(used)
      BY DecodeEob DEF ListInv, FillProgress
    <3> QED
      BY <3>1, <3>2
  <2> QED
    BY <2>1 DEF Limits
<1>2. /\ b.value \in Nat /\ fillIdx \in Nat /\ committed \in Nat /\ run \in Nat
      /\ committed <= bytesLimit
  BY BeatTypes, NListAssumption, RunAssumption DEF CamInv, TypeOK, ListTypeOK, RunTypeOK
<1> DEFINE p == Limits
<1>3. /\ RunSymbol(b) <=> IsRun(b)
      /\ EndSymbol(b, p.nUsed) <=> ValidEob(b)
      /\ KnownSymbol(b, p.nUsed) <=> ValidType0(b) \/ ValidEob(b)
      /\ RunAfter(w, b) = RunSum(b.value)
      /\ ValidType0(b) \/ ValidEob(b) => (MtfSymbol(b, p.nUsed) <=> IsMtf(b))
  <2>1. RunSymbol(b) <=> IsRun(b)
    BY DEF RunSymbol, IsRun
  <2>2. EndSymbol(b, p.nUsed) <=> ValidEob(b)
    BY <1>1 DEF EndSymbol, ValidEob
  <2>3. KnownSymbol(b, p.nUsed) <=> ValidType0(b) \/ ValidEob(b)
    BY <1>1, <2>2 DEF KnownSymbol, ValidType0
  <2>4. RunAfter(w, b) = RunSum(b.value)
    BY DEF RunAfter, RunSum
  <2>5. MtfSymbol(b, p.nUsed) <=> IsMtf(b)
    BY <1>1, <1>2 DEF MtfSymbol, IsMtf, ValidType0
  <2> QED
    BY <2>1, <2>2, <2>3, <2>4, <2>5
<1>4. ASSUME ValidType0(b) \/ ValidEob(b)
      PROVE  ~RunSymbol(b) /\ BytesAfter(w, b, p.nUsed) > p.bytesLimit
               <=> committed + ItemBytes(b) > bytesLimit
  <2>1. CASE IsRun(b)
    <3>1. ItemBytes(b) = 0
      BY <1>2, <2>1 DEF ItemBytes, IsRun, IsMtf, ValidEob
    <3>2. bytesLimit \in Nat
      BY DEF CamInv, TypeOK
    <3> QED
      BY <1>2, <1>3, <2>1, <3>1, <3>2
  <2>2. CASE ~IsRun(b)
    <3>1. IsMtf(b) \/ ValidEob(b)
      BY <1>2, <1>4, <2>2 DEF IsMtf, IsRun, ValidType0
    <3>2. BytesAfter(w, b, p.nUsed) = committed + run + (IF IsMtf(b) THEN 1 ELSE 0)
      BY <1>3, <1>4 DEF BytesAfter
    <3>3. ItemBytes(b) = run + (IF IsMtf(b) THEN 1 ELSE 0)
      BY <3>1 DEF ItemBytes
    <3>4. BytesAfter(w, b, p.nUsed) = committed + ItemBytes(b)
      BY <1>2, <3>2, <3>3
    <3> QED
      BY <1>1, <1>3, <2>2, <3>4
  <2> QED
    BY <2>1, <2>2
<1>5. Stop(w, b, p) = IF Verdict(b) # "NONE" THEN Verdict(b)
                      ELSE IF ValidEob(b) THEN "DONE" ELSE "NONE"
  <2> HIDE DEF p
  <2>1. CASE b.last /\ b.type # 3
    BY <2>1 DEF Stop, Verdict
  <2>2. CASE ~(b.last /\ b.type # 3) /\ ~(ValidType0(b) \/ ValidEob(b))
    BY <1>3, <2>2 DEF Stop, Verdict
  <2>3. CASE ~(b.last /\ b.type # 3) /\ (ValidType0(b) \/ ValidEob(b))
    <3>1. RunSymbol(b) /\ RunAfter(w, b) > p.runMax <=> IsRun(b) /\ RunOverflow(b.value)
      BY <1>1, <1>3 DEF RunOverflow, p
    <3>2. ~EndSymbol(b, p.nUsed) /\ w.heard + 1 = p.symbolLimit
            <=> ~ValidEob(b) /\ symbolsIn + 1 = symbolLimit
      BY <1>1, <1>3 DEF p
    <3>3. OverBudget(b) <=> \/ ~RunSymbol(b) /\ BytesAfter(w, b, p.nUsed) > p.bytesLimit
                            \/ ~EndSymbol(b, p.nUsed) /\ w.heard + 1 = p.symbolLimit
      BY <1>4, <2>3, <3>2 DEF OverBudget
    <3> QED
      BY <1>3, <2>3, <3>1, <3>3 DEF Stop, Verdict
  <2> QED
    BY <2>1, <2>2, <2>3
<1>6. Verdict(b) = "NONE" => ValidType0(b) \/ ValidEob(b)
  BY DEF Verdict
<1> QED
  BY <1>3, <1>5, <1>6

LEMMA WalkNone == ASSUME heard = <<>> PROVE Walked = WalkStart
  BY Track!FoldNothing DEF Walked

LEMMA WalkAppend ==
  ASSUME heard \in Seq(Beats), NEW b \in Beats, heard' = Append(heard, b), Limits' = Limits
  PROVE  Walked' = Walk(Walked, b, Limits)
<1> DEFINE p == Limits
           w == Walked
<1>1. Walked' = Track!Fold(p, WalkStart, Append(heard, b)) /\ w = Track!Fold(p, WalkStart, heard)
  BY DEF Walked
<1> HIDE DEF p, w
<1>2. Track!Fold(p, WalkStart, Append(heard, b)) = WalkOp(p, Track!Fold(p, WalkStart, heard), b)
  BY Track!FoldAppend
<1> QED
  BY <1>1, <1>2 DEF WalkOp, p, w

\* The walk over an accepted beat.
LEMMA WalkAccept ==
  ASSUME CamInv, state = "DECODE", heard \in Seq(Beats), NEW b \in Beats, WalkInv,
         heard' = Append(heard, b), Limits' = Limits, Verdict(b) = "NONE"
  PROVE  /\ Walked' \in WalkState
         /\ Walked'.heard = symbolsIn + 1
         /\ IsRun(b) =>
              /\ Walked'.run = RunSum(b.value) /\ Walked'.weight = 2 * weight
              /\ Walked'.committed = committed /\ Walked'.stop = "NONE"
         /\ ~IsRun(b) =>
              /\ Walked'.run = 0 /\ Walked'.weight = 1
              /\ Walked'.committed = committed + ItemBytes(b)
              /\ Walked'.stop = IF ValidEob(b) THEN "DONE" ELSE "NONE"
<1> DEFINE w == Walked
           s == Stop(w, b, Limits)
           k == w.heard + 1
<1>1. /\ w \in WalkState /\ w.run = run /\ w.weight = weight /\ w.committed = committed
      /\ w.heard = symbolsIn /\ w.stop = "NONE"
  BY DEF WalkInv
<1>2. Walked' = Walk(w, b, Limits)
  BY WalkAppend
<1> HIDE DEF w
<1>3. /\ s = IF ValidEob(b) THEN "DONE" ELSE "NONE"
      /\ RunSymbol(b) <=> IsRun(b)
      /\ MtfSymbol(b, Limits.nUsed) <=> IsMtf(b)
      /\ RunAfter(w, b) = RunSum(b.value)
  BY <1>1, StopIsVerdict
<1> DEFINE next == [w EXCEPT !.heard = k, !.stop = s]
<1>4. Walk(w, b, Limits)
        = CASE next.stop \notin {"NONE", "DONE"} -> next
            [] RunSymbol(b) /\ next.stop = "NONE" ->
                 [next EXCEPT !.run = RunAfter(w, b), !.weight = 2 * @]
            [] OTHER ->
                 [next EXCEPT !.run = 0, !.weight = 1, !.committed = BytesAfter(w, b, Limits.nUsed)]
  BY <1>1 DEF Walk
<1>5. s \in {"NONE", "DONE"} /\ k \in Nat /\ k = symbolsIn + 1
  BY <1>1, <1>3 DEF CamInv, TypeOK
<1> HIDE DEF s, k
<1>6. /\ next \in WalkState /\ next.heard = k /\ next.stop = s
      /\ next.run = run /\ next.weight = weight /\ next.committed = committed
  BY <1>1, <1>5 DEF WalkState, Outcomes
<1>7. /\ weight \in Nat /\ committed \in Nat /\ run \in Nat /\ b.value \in Nat
  BY BeatTypes, RunAssumption DEF CamInv, TypeOK, RunTypeOK
<1> HIDE DEF next
<1>8. CASE IsRun(b)
  <2> DEFINE sum == RunSum(b.value)
             twice == 2 * weight
  <2>1. ~ValidEob(b) /\ s = "NONE"
    BY <1>3, <1>8 DEF IsRun, ValidEob
  <2>2. Walk(w, b, Limits) = [next EXCEPT !.run = sum, !.weight = twice]
    BY <1>3, <1>4, <1>6, <1>8, <2>1
  <2>3. sum \in Nat /\ twice \in Nat
    <3>1. b.value = 0 \/ b.value = 1
      BY <1>7, <1>8 DEF IsRun
    <3> QED
      BY <1>7, <3>1 DEF RunSum
  <2> DEFINE after == [next EXCEPT !.run = sum, !.weight = twice]
  <2> HIDE DEF sum, twice
  <2>4. /\ after \in WalkState /\ after.run = sum /\ after.weight = twice
        /\ after.heard = k /\ after.stop = s /\ after.committed = committed
    BY <1>6, <2>3 DEF WalkState
  <2> HIDE DEF after
  <2>5. Walked' = after
    BY <1>2, <2>2 DEF after
  <2> QED
    BY <1>5, <1>8, <2>1, <2>4, <2>5 DEF sum, twice
<1>9. CASE ~IsRun(b)
  <2> DEFINE all == BytesAfter(w, b, Limits.nUsed)
             after == [next EXCEPT !.run = 0, !.weight = 1, !.committed = all]
  <2>1. next.stop \in {"NONE", "DONE"} /\ ~RunSymbol(b)
    BY <1>3, <1>5, <1>6, <1>9
  <2>2. Walk(w, b, Limits) = after
    BY <1>4, <2>1
  <2>3. all = committed + ItemBytes(b) /\ all \in Nat
    <3>1. all = committed + run + (IF IsMtf(b) THEN 1 ELSE 0)
      BY <1>1, <1>3 DEF BytesAfter
    <3>2. IsMtf(b) \/ ValidEob(b)
      BY <1>9, CleanBeat, BeatTypes DEF IsMtf, IsRun, ValidType0
    <3>3. ItemBytes(b) = run + (IF IsMtf(b) THEN 1 ELSE 0)
      BY <3>2 DEF ItemBytes
    <3> HIDE DEF all
    <3> QED
      BY <1>7, <3>1, <3>3
  <2> HIDE DEF all
  <2>4. /\ after \in WalkState /\ after.run = 0 /\ after.weight = 1
        /\ after.heard = k /\ after.stop = s /\ after.committed = all
    BY <1>6, <2>3 DEF WalkState
  <2> HIDE DEF after
  <2>5. Walked' = after
    BY <1>2, <2>2
  <2> QED
    BY <1>3, <1>5, <1>9, <2>3, <2>4, <2>5
<1> QED
  BY <1>8, <1>9

\* The walk over a faulty beat.
LEMMA WalkReject ==
  ASSUME CamInv, state = "DECODE", heard \in Seq(Beats), NEW b \in Beats, WalkInv,
         heard' = Append(heard, b), Limits' = Limits, Verdict(b) # "NONE"
  PROVE  Walked'.stop = Verdict(b) /\ Walked'.heard = symbolsIn + 1
<1> DEFINE w == Walked
           s == Stop(w, b, Limits)
           k == w.heard + 1
<1>1. /\ w \in WalkState /\ w.run = run /\ w.weight = weight /\ w.committed = committed
      /\ w.heard = symbolsIn /\ w.stop = "NONE"
  BY DEF WalkInv
<1>2. Walked' = Walk(w, b, Limits)
  BY WalkAppend
<1> HIDE DEF w
<1>3. s = Verdict(b) /\ s \in Errors
  <2>1. s = Verdict(b)
    BY <1>1, StopIsVerdict
  <2>2. Verdict(b) \in Errors
    BY DEF Verdict, Errors
  <2> QED
    BY <2>1, <2>2
<1> DEFINE next == [w EXCEPT !.heard = k, !.stop = s]
<1>4. Walk(w, b, Limits)
        = CASE next.stop \notin {"NONE", "DONE"} -> next
            [] RunSymbol(b) /\ next.stop = "NONE" ->
                 [next EXCEPT !.run = RunAfter(w, b), !.weight = 2 * @]
            [] OTHER ->
                 [next EXCEPT !.run = 0, !.weight = 1, !.committed = BytesAfter(w, b, Limits.nUsed)]
  BY <1>1 DEF Walk
<1>5. k = symbolsIn + 1
  BY <1>1
<1> HIDE DEF s, k
<1>6. next.stop = s /\ next.heard = k
  BY <1>1 DEF WalkState
<1> HIDE DEF next
<1>7. Walk(w, b, Limits) = next
  BY <1>3, <1>4, <1>6 DEF Errors
<1> QED
  BY <1>2, <1>3, <1>5, <1>6, <1>7

LEMMA SameWalk ==
  ASSUME used' = used, heard' = heard, UNCHANGED limitVars
  PROVE  Limits' = Limits /\ Walked' = Walked
<1>1. Limits' = Limits
  BY DEF limitVars, Limits
<1> QED
  BY <1>1 DEF Walked

LEMMA WalkInvInit == HInit => WalkInv
  BY EmptySeq DEF HInit, Init, WalkInv, Errors

\* INIT_CYCLES while a finished list is in use.
LEMMA CyclesCount ==
  ASSUME CamInv, state \in {"DECODE", "DRAIN"}
  PROVE  initCycles = Cardinality(used)
<1>1. ListInv /\ ~filling /\ initCycles = fillIdx
  BY DEF CamInv
<1>2. rem = {} /\ fillIdx \in Nat /\ Cardinality({}) = 0
  BY <1>1, FS_EmptySet, NListAssumption DEF ListInv, ListTypeOK, FillProgress
<1>3. fillIdx + Cardinality(rem) = Cardinality(used)
  BY <1>1 DEF ListInv, FillProgress
<1> QED
  BY <1>1, <1>2, <1>3

LEMMA WalkInvStep ==
  CamInv /\ HistInv /\ WalkInv /\ [HNext]_<<vars, historyVars>> => WalkInv'
<1> SUFFICES ASSUME CamInv, HistInv, WalkInv, [HNext]_<<vars, historyVars>>
             PROVE  WalkInv'
  OBVIOUS
<1> USE DEF ctrlVars, countVars
<1>0. heard \in Seq(Beats) /\ symbolsIn = Len(heard) /\ symbolsIn \in Nat
  BY DEF CamInv, TypeOK, HistInv, WalkInv
<1>1. ASSUME NEW ready \in BOOLEAN, Idle(ready), UNCHANGED heard PROVE WalkInv'
  <2>1. /\ state = "IDLE" /\ state' = "IDLE" /\ status' = status /\ symbolsIn' = symbolsIn
        /\ initCycles' = initCycles /\ used' = used
    BY <1>1, HoldUsed DEF Idle
  <2>2. Walked' = Walked
    BY <1>1, <2>1, SameWalk DEF Idle
  <2> QED
    BY <1>1, <2>1, <2>2 DEF WalkInv
<1>2. ASSUME NEW ready \in BOOLEAN, InitStep(ready), UNCHANGED heard PROVE WalkInv'
  <2>1. /\ state = "INIT" /\ state' \in {"INIT", "DECODE"} /\ status' = status
        /\ symbolsIn' = symbolsIn /\ committed' = committed /\ used' = used /\ RunHold
    BY <1>2, HoldUsed DEF InitStep
  <2>2. /\ status = "NONE" /\ heard = <<>> /\ run = 0 /\ weight = 1
        /\ committed = Len(Model.bytes)
    BY <2>1 DEF HistInv
  <2>3. Walked' = WalkStart
    BY <1>2, <2>1, <2>2, SameWalk, WalkNone DEF InitStep
  <2>4. committed = 0 /\ symbolsIn = 0
    <3>1. Model.bytes = <<>>
      BY <2>2, ModelAtStart DEF Errors, GoldenStart
    <3> QED
      BY <1>0, <2>2, <3>1, EmptySeq
  <2>5. WalkStart \in WalkState
    BY DEF WalkStart, WalkState, Outcomes
  <2>6. run' = 0 /\ weight' = 1
    BY <2>1, <2>2 DEF RunHold, runVars
  <2> QED
    BY <1>2, <2>1, <2>2, <2>3, <2>4, <2>5, <2>6 DEF WalkInv, WalkStart, WalkState, Errors
<1>3. ASSUME NEW ready \in BOOLEAN, Wait(ready), UNCHANGED heard PROVE WalkInv'
  <2>1. /\ state = "DECODE" /\ state' = "DECODE" /\ status' = status /\ committed' = committed
        /\ symbolsIn' = symbolsIn /\ used' = used /\ run' = run /\ weight' = weight
        /\ status = "NONE"
    BY <1>3, HoldUsed DEF Wait, HistInv, RunHold, runVars
  <2>2. Walked' = Walked
    BY <1>3, <2>1, SameWalk DEF Wait
  <2> QED
    BY <1>3, <2>1, <2>2 DEF WalkInv, WalkState, Errors
<1>4. ASSUME NEW ready \in BOOLEAN, DrainStep(ready), UNCHANGED heard PROVE WalkInv'
  <2>1. /\ state = "DRAIN" /\ state' = "DRAIN" /\ status' = status /\ symbolsIn' = symbolsIn
        /\ used' = used /\ status = "NONE"
    BY <1>4, HoldUsed DEF DrainStep, HistInv
  <2>2. Walked' = Walked
    BY <1>4, <2>1, SameWalk DEF DrainStep
  <2> QED
    BY <1>4, <2>1, <2>2 DEF WalkInv, Errors
<1>5. ASSUME NEW ready \in BOOLEAN, Done(ready), UNCHANGED heard PROVE WalkInv'
  <2>1. /\ state = "DRAIN" /\ state' = "IDLE" /\ status' = "DONE" /\ symbolsIn' = symbolsIn
        /\ used' = used /\ initCycles' = initCycles
    BY <1>5, HoldUsed DEF Done, DoneNow
  <2>2. Walked' = Walked
    BY <1>5, <2>1, SameWalk DEF Done
  <2>3. initCycles = Cardinality(used)
    BY <2>1, CyclesCount
  <2> QED
    BY <1>5, <2>1, <2>2, <2>3 DEF WalkInv, Errors
<1>6. ASSUME NEW ready \in BOOLEAN, Abort(ready), UNCHANGED heard PROVE WalkInv'
  <2>1. state' = "IDLE" /\ status' = "ABORTED" /\ symbolsIn' = symbolsIn
    BY <1>6 DEF Abort, Discard
  <2> QED
    BY <1>6, <2>1 DEF WalkInv, Errors
<1>7. ASSUME NEW ready \in BOOLEAN, NEW b \in Beats, Accept(ready, b), used' = used,
             heard' = Append(heard, b)
      PROVE  /\ state = "DECODE" /\ Verdict(b) = "NONE" /\ status' = "NONE"
             /\ committed' = committed + ItemBytes(b)
             /\ symbolsIn' = symbolsIn + 1 /\ symbolsIn' = Len(heard')
             /\ Limits' = Limits
  <2>1. /\ state = "DECODE" /\ Verdict(b) = "NONE" /\ status' = status
        /\ committed' = committed + ItemBytes(b) /\ symbolsIn' = symbolsIn + 1
        /\ UNCHANGED limitVars
    BY <1>7 DEF Accept
  <2>2. status = "NONE"
    BY <2>1 DEF HistInv
  <2>3. Len(Append(heard, b)) = Len(heard) + 1
    BY <1>0, AppendProperties
  <2> QED
    BY <1>0, <1>7, <2>1, <2>2, <2>3 DEF Limits, limitVars
<1>8. ASSUME NEW ready \in BOOLEAN, NEW b \in Beats, AcceptRun(ready, b), heard' = Append(heard, b)
      PROVE  WalkInv'
  <2>1. /\ Accept(ready, b) /\ IsRun(b) /\ used' = used /\ state' = state
        /\ run' = RunSum(b.value) /\ weight' = 2 * weight
    BY <1>8, HoldUsed DEF AcceptRun, RunAccumulate
  <2>2. /\ state = "DECODE" /\ Verdict(b) = "NONE" /\ status' = "NONE"
        /\ committed' = committed + ItemBytes(b)
        /\ symbolsIn' = symbolsIn + 1 /\ symbolsIn' = Len(heard')
        /\ Limits' = Limits
    BY <1>7, <1>8, <2>1
  <2>3. /\ Walked' \in WalkState /\ Walked'.heard = symbolsIn + 1
        /\ Walked'.run = RunSum(b.value) /\ Walked'.weight = 2 * weight
        /\ Walked'.committed = committed /\ Walked'.stop = "NONE"
    BY <1>0, <1>8, <2>1, <2>2, WalkAccept
  <2>4. committed' = committed
    <3>1. ItemBytes(b) = 0
      BY <2>1, BeatTypes DEF ItemBytes, IsRun, IsMtf, ValidEob
    <3> QED
      BY <2>2, <3>1 DEF CamInv, TypeOK
  <2> QED
    BY <2>1, <2>2, <2>3, <2>4 DEF WalkInv, WalkState, Errors
<1>9. ASSUME NEW ready \in BOOLEAN, NEW b \in Beats, AcceptMtf(ready, b), heard' = Append(heard, b)
      PROVE  WalkInv'
  <2>1. /\ Accept(ready, b) /\ IsMtf(b) /\ ~IsRun(b) /\ ~ValidEob(b) /\ used' = used
        /\ state' = state /\ run' = 0 /\ weight' = 1
    <3>1. /\ Accept(ready, b) /\ IsMtf(b) /\ used' = used
          /\ state' = state /\ run' = 0 /\ weight' = 1
      BY <1>9 DEF AcceptMtf, ListStep, RunClear
    <3>2. ~IsRun(b) /\ ~ValidEob(b)
      BY <3>1, BeatTypes DEF IsMtf, ValidType0, IsRun, ValidEob
    <3> QED
      BY <3>1, <3>2
  <2>2. /\ state = "DECODE" /\ Verdict(b) = "NONE" /\ status' = "NONE"
        /\ committed' = committed + ItemBytes(b)
        /\ symbolsIn' = symbolsIn + 1 /\ symbolsIn' = Len(heard')
        /\ Limits' = Limits
    BY <1>7, <1>9, <2>1
  <2>3. /\ Walked' \in WalkState /\ Walked'.heard = symbolsIn + 1
        /\ Walked'.run = 0 /\ Walked'.weight = 1
        /\ Walked'.committed = committed + ItemBytes(b) /\ Walked'.stop = "NONE"
    BY <1>0, <1>9, <2>1, <2>2, WalkAccept
  <2> QED
    BY <2>1, <2>2, <2>3 DEF WalkInv, WalkState, Errors
<1>10. ASSUME NEW ready \in BOOLEAN, NEW b \in Beats, AcceptEob(ready, b), heard' = Append(heard, b)
       PROVE  WalkInv'
  <2>1. /\ Accept(ready, b) /\ ValidEob(b) /\ ~IsRun(b) /\ used' = used /\ state' = "DRAIN"
    BY <1>10, HoldUsed DEF AcceptEob, IsRun, ValidEob
  <2>2. /\ state = "DECODE" /\ Verdict(b) = "NONE" /\ status' = "NONE"
        /\ symbolsIn' = symbolsIn + 1 /\ symbolsIn' = Len(heard')
        /\ Limits' = Limits
    BY <1>7, <1>10, <2>1
  <2>3. Walked'.heard = symbolsIn + 1 /\ Walked'.stop = "DONE"
    BY <1>0, <1>10, <2>1, <2>2, WalkAccept
  <2> QED
    BY <2>1, <2>2, <2>3 DEF WalkInv, Errors
<1>11. ASSUME NEW ready \in BOOLEAN, NEW b \in Beats, Reject(ready, b), heard' = Append(heard, b)
       PROVE  WalkInv'
  <2>1. /\ state = "DECODE" /\ Verdict(b) # "NONE" /\ status' = Verdict(b) /\ state' = "IDLE"
        /\ symbolsIn' = symbolsIn + 1 /\ initCycles' = initCycles /\ used' = used
        /\ UNCHANGED limitVars
    BY <1>11, HoldUsed DEF Reject, Discard
  <2>2. Limits' = Limits
    BY <2>1 DEF Limits, limitVars
  <2>3. Walked'.stop = Verdict(b) /\ Walked'.heard = symbolsIn + 1
    BY <1>0, <1>11, <2>1, <2>2, WalkReject
  <2>4. initCycles = Cardinality(used)
    BY <2>1, CyclesCount
  <2>5. Len(Append(heard, b)) = Len(heard) + 1
    BY <1>0, AppendProperties
  <2> QED
    BY <1>0, <1>11, <2>1, <2>3, <2>4, <2>5 DEF WalkInv
<1>12. ASSUME NEW ready \in BOOLEAN, NEW u \in (SUBSET Bytes) \ {{}},
              NEW s \in SymbolLimits, NEW l \in BytesLimits,
              Doorbell(ready, u, s, l), heard' = <<>>
       PROVE  WalkInv'
  <2>1. state' = "INIT" /\ status' = "NONE" /\ symbolsIn' = 0
    BY <1>12 DEF Doorbell
  <2> QED
    BY <1>12, <2>1, EmptySeq DEF WalkInv, Errors
<1>13. CASE UNCHANGED <<vars, historyVars>>
  <2>1. /\ UNCHANGED <<heard, state, status, committed, symbolsIn, run, weight, used, initCycles>>
        /\ UNCHANGED limitVars
    BY <1>13 DEF vars, historyVars, runVars, listVars
  <2>2. Walked' = Walked
    BY <2>1, SameWalk
  <2> QED
    BY <2>1, <2>2 DEF WalkInv, WalkState
<1> QED
  BY <1>1, <1>2, <1>3, <1>4, <1>5, <1>6, <1>8, <1>9, <1>10, <1>11, <1>12, <1>13
  DEF HNext, HAdvance, HAbort, HSymbol, HDoorbell, Advance, Symbol

-----------------------------------------------------------------------------
(* The beats handed over, edge by edge.                                      *)

\* No beat cut short has been handed over yet.  Until the final flush is issued
\* the packer keeps a byte back behind every beat it lets go, so the flush finds
\* one to mark; what a faulty block flushes is not marked.
Opening ==
  /\ Regular(delivered, bytesOut)
  /\ Streaming /\ delivered # <<>> => buf # <<>>
  /\ state = "DRAIN" /\ flushIssued /\ out = <<>> /\ buf = <<>> => delivered = <<>>
  /\ state = "IDLE" /\ out # <<>> => ~out[1].last /\ (buf # <<>> => Full(out[1]))
  /\ status = "DONE" => delivered = <<>> /\ out = <<>> /\ buf = <<>>

\* The flush beat has been handed over and nothing is behind it.
Closed ==
  /\ Ended(delivered, bytesOut, state = "DRAIN" \/ status = "DONE")
  /\ out = <<>> /\ buf = <<>>
  /\ state = "IDLE" \/ (state = "DRAIN" /\ flushIssued)

\* Nothing is claimed of the beats of an aborted block.
BeatsInv == status # "ABORTED" => Opening \/ Closed

Handing(ready) == ready /\ out # <<>>

LEMMA DeliveredGrows ==
  ASSUME DrainTypeOK, delivered \in Seq(Beat), NEW ready \in BOOLEAN, Observe(ready)
  PROVE  /\ Handing(ready) => delivered' = Append(delivered, out[1])
         /\ ~Handing(ready) => delivered' = delivered
         /\ out # <<>> => out[1] \in Beat /\ Len(out[1].bytes) \in 1..W
<1>1. ASSUME out # <<>> PROVE out = <<out[1]>> /\ out[1] \in Beat /\ Len(out[1].bytes) \in 1..W
  <2>1. out \in Seq(Beat)
    BY DEF DrainTypeOK
  <2> DEFINE n == Len(out)
  <2>2. n \in Nat \ {0} /\ n <= 1
    BY <1>1, <2>1, EmptySeq DEF DrainTypeOK
  <2> HIDE DEF n
  <2>3. n = 1
    BY ONLY <2>2
  <2>4. Len(out) = 1
    BY ONLY <2>3 DEF n
  <2>5. out = <<out[1]>> /\ out[1] \in Beat
    BY ONLY <2>1, <2>4
  <2> QED
    BY <1>1, <2>5 DEF DrainTypeOK
<1>2. ASSUME Handing(ready) PROVE delivered' = Append(delivered, out[1])
  <2>1. delivered' = delivered \o out
    BY <1>2 DEF Observe, Handing
  <2> QED
    BY <1>1, <1>2, <2>1, AppendIsConcat DEF Handing
<1>3. ASSUME ~Handing(ready) PROVE delivered' = delivered
  BY <1>3, ConcatEmptySeq DEF Observe, Handing
<1> QED
  BY <1>1, <1>2, <1>3

\* The invariant's parts about one edge of the monitor and of BYTES_OUT.
LEMMA NotHanding ==
  ASSUME CamInv, HistInv, NEW ready \in BOOLEAN, Observe(ready), CountOut(ready), ~Handing(ready)
  PROVE  delivered' = delivered /\ bytesOut' = bytesOut
<1>1. delivered' = delivered
  BY DeliveredGrows DEF CamInv, TypeOK, HistInv
<1> QED
  BY <1>1 DEF CountOut, LanesOut, Handing, CamInv, TypeOK

LEMMA RegularEdge ==
  ASSUME CamInv, HistInv, NEW ready \in BOOLEAN, Observe(ready), CountOut(ready),
         Regular(delivered, bytesOut), out # <<>> => Full(out[1])
  PROVE  Regular(delivered', bytesOut')
<1>1. CASE Handing(ready)
  <2> DEFINE beat == out[1]
             n == Len(delivered)
  <2>1. delivered' = Append(delivered, beat) /\ delivered \in Seq(Beat) /\ beat \in Beat
    BY <1>1, DeliveredGrows DEF CamInv, TypeOK, HistInv, Handing
  <2>2. Full(beat) /\ bytesOut' = bytesOut + W /\ bytesOut = W * n
    BY <1>1 DEF Handing, CountOut, LanesOut, Full, Regular
  <2>3. /\ n \in Nat /\ Len(delivered') = n + 1
        /\ \A i \in 1..n : delivered'[i] = delivered[i]
        /\ delivered'[n + 1] = beat
    BY <2>1, AppendProperties, LenProperties
  <2>4. \A i \in 1..n : Full(delivered[i])
    BY DEF Regular
  <2>5. W * n + W = W * (n + 1)
    BY <2>3, LaneAssumption
  <2> HIDE DEF beat, n
  <2>6. \A i \in 1..(n + 1) : Full(delivered'[i])
    <3> TAKE i \in 1..(n + 1)
    <3>1. i \in 1..n \/ i = n + 1
      BY <2>3
    <3> QED
      BY <2>2, <2>3, <2>4, <3>1
  <2> QED
    BY <2>2, <2>3, <2>5, <2>6 DEF Regular
<1>2. CASE ~Handing(ready)
  BY <1>2, NotHanding
<1> QED
  BY <1>1, <1>2

LEMMA LastEdge ==
  ASSUME CamInv, HistInv, NEW ready \in BOOLEAN, Observe(ready), CountOut(ready),
         Regular(delivered, bytesOut), Handing(ready)
  PROVE  Ended(delivered', bytesOut', out[1].last)
<1> DEFINE beat == out[1]
           n == Len(delivered)
<1>1. /\ delivered' = Append(delivered, beat) /\ delivered \in Seq(Beat) /\ beat \in Beat
      /\ Len(beat.bytes) \in 1..W
  BY DeliveredGrows DEF CamInv, TypeOK, HistInv, Handing
<1>2. bytesOut' = W * n + Len(beat.bytes)
  BY DEF Handing, CountOut, LanesOut, Regular
<1>3. /\ n \in Nat /\ Len(delivered') = n + 1 /\ delivered' \in Seq(Beat)
      /\ \A i \in 1..n : delivered'[i] = delivered[i]
      /\ delivered'[n + 1] = beat
  BY <1>1, AppendProperties, LenProperties
<1>4. \A i \in 1..n : Full(delivered[i])
  BY DEF Regular
<1> HIDE DEF beat, n
<1>5. delivered' # <<>>
  BY <1>3, EmptySeq
<1>6. n + 1 - 1 = n
  BY <1>3
<1> QED
  BY <1>1, <1>2, <1>3, <1>4, <1>5, <1>6 DEF Ended, beat

\* mtf_pack.sv: a byte in the buffer stays there or makes room for another until
\* a flush takes it.
LEMMA BufferHolds ==
  ASSUME DrainTypeOK, ~flushing, NEW ready \in BOOLEAN, NEW wr,
         DrainEdge("run", wr, ready), buf # <<>>
  PROVE  buf' # <<>>
<1> DEFINE m == Merged("run", ready)
<1>1. ~FlushActive("run") /\ ~EmitFlush("run", ready)
  BY DEF FlushActive, EmitFlush
<1>2. /\ m \in Seq(Bytes) /\ buf \in Seq(Bytes) /\ Len(m) \in Nat /\ Len(buf) \in Nat
      /\ Len(m) >= Len(buf) /\ W \in Nat \ {0} /\ Len(m) <= 2 * W
  BY MergedFacts, LenProperties, LaneAssumption DEF DrainTypeOK
<1>3. buf' = BufAfter("run", ready) /\ (EmitFull("run", ready) <=> Len(m) > W)
  BY DEF DrainEdge, EmitFull
<1>4. CASE Len(m) > W
  <2>1. buf' = SubSeq(m, W + 1, Len(m))
    BY <1>1, <1>3, <1>4 DEF BufAfter
  <2> HIDE DEF m
  <2>2. \A i \in 1..Len(m) : m[i] \in Bytes
    BY <1>2, ElementOfSeq
  <2>3. \A i \in (W + 1)..Len(m) : m[i] \in Bytes
    BY <1>2, <1>4, <2>2
  <2> DEFINE s == SubSeq(m, W + 1, Len(m))
  <2>5. s \in Seq(Bytes) /\ Len(s) > 0
    BY <1>2, <1>4, <2>3, SubSeqProperties
  <2> HIDE DEF s
  <2>6. s # <<>>
    BY <2>5, EmptySeq
  <2> QED
    BY <2>1, <2>6 DEF s
<1>5. CASE ~(Len(m) > W)
  <2>1. buf' = m
    BY <1>1, <1>3, <1>5 DEF BufAfter
  <2> QED
    BY <1>2, <2>1, EmptySeq
<1> QED
  BY <1>4, <1>5

LEMMA BeatsInvInit == HInit => BeatsInv
<1> SUFFICES ASSUME HInit PROVE BeatsInv
  OBVIOUS
<1>1. delivered = <<>> /\ bytesOut = 0 /\ out = <<>> /\ buf = <<>> /\ state = "IDLE" /\ status = "NONE"
  BY DEF HInit, Init, DrainInit
<1>2. Regular(delivered, bytesOut)
  BY <1>1, EmptySeq, LaneAssumption DEF Regular
<1> QED
  BY <1>1, <1>2 DEF BeatsInv, Opening, Streaming

\* While bytes are on the way to the packer.
LEMMA BeatsGoOn ==
  ASSUME CamInv, StreamInv, HistInv, BeatsInv, Streaming, NEW ready \in BOOLEAN, NEW wr,
         DrainEdge("run", wr, ready), Observe(ready), CountOut(ready), status' = status,
         state' \in {"INIT", "DECODE"} \/ (state' = "DRAIN" /\ ~flushIssued')
  PROVE  BeatsInv'
<1>1. DrainTypeOK /\ ~flushing /\ FullBeat /\ status = "NONE"
  BY DEF CamInv, TypeOK, StreamInv, HistInv, Streaming
<1>2. Opening
  BY <1>1 DEF BeatsInv, Closed, Streaming
<1>3. Regular(delivered', bytesOut')
  <2>1. out # <<>> => Full(out[1])
    BY <1>1 DEF FullBeat, Full
  <2> QED
    BY <1>2, <2>1, RegularEdge DEF Opening
<1>4. delivered' # <<>> => buf' # <<>>
  <2>1. buf # <<>> => buf' # <<>>
    BY <1>1, BufferHolds
  <2>2. CASE Handing(ready)
    BY <1>1, <2>1, <2>2 DEF Handing, FullBeat
  <2>3. CASE ~Handing(ready)
    BY <1>2, <2>1, <2>3, NotHanding DEF Opening
  <2> QED
    BY <2>2, <2>3
<1> QED
  BY <1>1, <1>3, <1>4 DEF BeatsInv, Opening

\* Nothing more comes from the expander: the flush pulse, and the edges of the
\* flush behind it.
LEMMA BeatsFlush ==
  ASSUME CamInv, StreamInv, HistInv, BeatsInv, NEW ready \in BOOLEAN,
         DrainStep(ready), DrainReady, Observe(ready)
  PROVE  BeatsInv'
<1>1. /\ DrainTypeOK /\ state = "DRAIN" /\ state' = "DRAIN" /\ status' = status /\ status = "NONE"
      /\ CountOut(ready) /\ flushIssued'
  BY DEF CamInv, TypeOK, HistInv, DrainStep, IssueFlush
<1> DEFINE ctl == IF IssueFlush(ready) THEN "last" ELSE "run"
<1>2. /\ ctl \in {"run", "last", "stop"} /\ DrainEdge(ctl, <<>>, ready)
      /\ ctl \in {"last", "stop"} <=> ~flushIssued
      /\ ctl = "last" <=> ~flushIssued
  BY DEF DrainStep, IssueFlush
<1> HIDE DEF ctl
<1>3. /\ buf' = IF EmitFlush(ctl, ready) THEN <<>> ELSE buf
      /\ out' = IF EmitFlush(ctl, ready)
                  THEN <<[bytes |-> buf, last |-> FlushLast(ctl)]>>
                  ELSE IF ready THEN <<>> ELSE out
  BY <1>1, <1>2, SettleEdge
<1>4. /\ EmitFlush(ctl, ready) => out' # <<>> /\ buf # <<>>
      /\ ~EmitFlush(ctl, ready) => out' = (IF ready THEN <<>> ELSE out) /\ buf' = buf
  BY <1>3 DEF EmitFlush
<1>5. CASE ~flushIssued
  <2>1. Streaming /\ FullBeat
    BY <1>1, <1>5 DEF StreamInv, Streaming
  <2>2. Opening
    BY <1>1, <1>5 DEF BeatsInv, Closed
  <2>3. Regular(delivered', bytesOut')
    <3>1. out # <<>> => Full(out[1])
      BY <2>1 DEF FullBeat, Full
    <3> QED
      BY <1>1, <2>2, <3>1, RegularEdge DEF Opening
  <2>4. out' = <<>> /\ buf' = <<>> => delivered' = <<>>
    <3> SUFFICES ASSUME out' = <<>>, buf' = <<>> PROVE delivered' = <<>>
      OBVIOUS
    <3>1. buf = <<>>
      BY <1>4
    <3>2. out = <<>> /\ delivered = <<>>
      BY <2>1, <2>2, <3>1 DEF FullBeat, Opening
    <3> QED
      BY <1>1, <3>2, NotHanding DEF Handing
  <2> QED
    BY <1>1, <2>3, <2>4 DEF BeatsInv, Opening, Streaming
<1>6. CASE flushIssued /\ Closed
  <2>1. out' = <<>> /\ buf' = <<>>
    BY <1>4, <1>6 DEF Closed
  <2>2. delivered' = delivered /\ bytesOut' = bytesOut
    BY <1>1, <1>6, NotHanding DEF Handing, Closed
  <2>3. Ended(delivered', bytesOut', TRUE)
    BY <1>1, <1>6, <2>2 DEF Closed
  <2> QED
    BY <1>1, <2>1, <2>3 DEF BeatsInv, Closed
<1>7. CASE flushIssued /\ Opening /\ buf # <<>>
  <2>1. Regular(delivered', bytesOut')
    <3>1. out # <<>> => Full(out[1])
      BY <1>1, <1>7 DEF StreamInv, LastBeatIsLast, Full
    <3> QED
      BY <1>1, <1>7, <3>1, RegularEdge DEF Opening
  <2>2. ~(out' = <<>> /\ buf' = <<>>)
    BY <1>4, <1>7
  <2> QED
    BY <1>1, <2>1, <2>2 DEF BeatsInv, Opening, Streaming
<1>8. CASE flushIssued /\ Opening /\ buf = <<>>
  <2>1. out' = (IF ready THEN <<>> ELSE out) /\ buf' = <<>>
    BY <1>4, <1>8
  <2>2. out # <<>> => out[1].last = TRUE
    <3>1. out # <<>> => out[1].last /\ out[1].last \in BOOLEAN
      <4>1. out # <<>> => out[1] \in Beat
        BY <1>1, DeliveredGrows DEF HistInv
      <4> QED
        BY <1>1, <1>8, <4>1 DEF StreamInv, FlushEndsBlock, Beat
    <3> QED
      BY <3>1
  <2>3. CASE Handing(ready)
    <3>1. Ended(delivered', bytesOut', TRUE)
      BY <1>1, <1>8, <2>2, <2>3, LastEdge DEF Opening, Handing
    <3>2. out' = <<>>
      BY <2>1, <2>3 DEF Handing
    <3> QED
      BY <1>1, <2>1, <3>1, <3>2 DEF BeatsInv, Closed
  <2>4. CASE ~Handing(ready)
    <3>1. delivered' = delivered /\ bytesOut' = bytesOut /\ out' = out
      BY <1>1, <2>1, <2>4, NotHanding DEF Handing
    <3> QED
      BY <1>1, <1>8, <2>1, <3>1 DEF BeatsInv, Opening, Streaming
  <2> QED
    BY <2>3, <2>4
<1> QED
  BY <1>1, <1>5, <1>6, <1>7, <1>8 DEF BeatsInv

\* The flush of a faulty block, and what is left of a flush in IDLE.
LEMMA BeatsSettle ==
  ASSUME CamInv, StreamInv, HistInv, BeatsInv, NEW ready \in BOOLEAN,
         Idle(ready), Observe(ready)
  PROVE  BeatsInv'
<1> SUFFICES ASSUME status # "ABORTED" PROVE BeatsInv'
  BY DEF Idle, BeatsInv
<1>1. /\ DrainTypeOK /\ DrainReady /\ DrainEdge("run", <<>>, ready)
      /\ state = "IDLE" /\ state' = "IDLE" /\ status' = status /\ CountOut(ready)
  BY DEF CamInv, TypeOK, Idle, StreamInv, IdleQuiet, DrainReady, Queue!Readable, ctrlVars
<1>2. /\ buf' = IF EmitFlush("run", ready) THEN <<>> ELSE buf
      /\ out' = IF EmitFlush("run", ready)
                  THEN <<[bytes |-> buf, last |-> flushLast]>>
                  ELSE IF ready THEN <<>> ELSE out
      /\ EmitFlush("run", ready) => flushing /\ ~flushLast /\ buf # <<>>
  <2>1. FlushLast("run") = flushLast /\ (FlushActive("run") <=> flushing)
    BY DEF FlushLast, FlushActive
  <2> QED
    BY <1>1, <2>1, SettleEdge DEF EmitFlush, StreamInv
<1>3. CASE Closed
  <2>1. out' = <<>> /\ buf' = <<>>
    BY <1>2, <1>3 DEF Closed
  <2>2. delivered' = delivered /\ bytesOut' = bytesOut
    BY <1>1, <1>3, NotHanding DEF Handing, Closed
  <2>3. Ended(delivered', bytesOut', state' = "DRAIN" \/ status' = "DONE")
    BY <1>1, <1>3, <2>2 DEF Closed
  <2> QED
    BY <1>1, <2>1, <2>3 DEF BeatsInv, Closed
<1>4. CASE Opening /\ buf # <<>>
  <2>1. Regular(delivered', bytesOut')
    BY <1>1, <1>4, RegularEdge DEF Opening
  <2>2. status' # "DONE"
    BY <1>1, <1>4 DEF Opening
  <2>3. ASSUME out' # <<>> PROVE ~out'[1].last /\ (buf' # <<>> => Full(out'[1]))
    <3>1. CASE EmitFlush("run", ready)
      <4>1. out'[1] = [bytes |-> buf, last |-> flushLast] /\ buf' = <<>> /\ ~flushLast
        BY <1>2, <3>1
      <4> QED
        BY <4>1
    <3>2. CASE ~EmitFlush("run", ready)
      <4>1. out' = out
        BY <1>2, <2>3, <3>2
      <4> QED
        BY <1>1, <1>4, <2>3, <4>1 DEF Opening
    <3> QED
      BY <3>1, <3>2
  <2> QED
    BY <1>1, <2>1, <2>2, <2>3 DEF BeatsInv, Opening, Streaming, Full
<1>5. CASE Opening /\ buf = <<>>
  <2>1. out' = (IF ready THEN <<>> ELSE out) /\ buf' = <<>>
    BY <1>2, <1>5
  <2>2. CASE Handing(ready)
    <3>1. out[1].last = FALSE
      <4>1. out[1] \in Beat
        BY <1>1, <2>2, DeliveredGrows DEF HistInv, Handing
      <4>2. ~out[1].last
        BY <1>1, <1>5, <2>2 DEF Opening, Handing
      <4> QED
        BY <4>1, <4>2 DEF Beat
    <3>2. status # "DONE"
      BY <1>5, <2>2 DEF Opening, Handing
    <3>3. Ended(delivered', bytesOut', FALSE)
      BY <1>1, <1>5, <2>2, <3>1, LastEdge DEF Opening
    <3>4. out' = <<>>
      BY <2>1, <2>2 DEF Handing
    <3> QED
      BY <1>1, <2>1, <3>2, <3>3, <3>4 DEF BeatsInv, Closed
  <2>3. CASE ~Handing(ready)
    <3>1. delivered' = delivered /\ bytesOut' = bytesOut /\ out' = out
      BY <1>1, <2>1, <2>3, NotHanding DEF Handing
    <3> QED
      BY <1>1, <1>5, <2>1, <3>1 DEF BeatsInv, Opening, Streaming
  <2> QED
    BY <2>2, <2>3
<1> QED
  BY <1>3, <1>4, <1>5 DEF BeatsInv

\* A faulty beat while symbols are decoded.
LEMMA BeatsReject ==
  ASSUME CamInv, StreamInv, HistInv, BeatsInv, NEW ready \in BOOLEAN, NEW why \in Errors,
         state = "DECODE", Discard(ready, why), Observe(ready)
  PROVE  BeatsInv'
<1>1. /\ DrainTypeOK /\ DrainEdge("stop", <<>>, ready) /\ state' = "IDLE" /\ status' = why
      /\ CountOut(ready) /\ FullBeat /\ Streaming /\ why # "DONE" /\ status = "NONE"
  BY DEF CamInv, TypeOK, Discard, StreamInv, Streaming, Errors, HistInv
<1>2. Opening
  BY <1>1 DEF BeatsInv, Closed
<1>3. /\ buf' = IF EmitFlush("stop", ready) THEN <<>> ELSE buf
      /\ out' = IF EmitFlush("stop", ready)
                  THEN <<[bytes |-> buf, last |-> FALSE]>>
                  ELSE IF ready THEN <<>> ELSE out
  <2>1. FlushLast("stop") = FALSE
    BY DEF FlushLast
  <2> QED
    BY <1>1, <2>1, SettleEdge
<1>4. Regular(delivered', bytesOut')
  <2>1. out # <<>> => Full(out[1])
    BY <1>1 DEF FullBeat, Full
  <2> QED
    BY <1>1, <1>2, <2>1, RegularEdge DEF Opening
<1>5. ASSUME out' # <<>> PROVE ~out'[1].last /\ (buf' # <<>> => Full(out'[1]))
  <2>1. CASE EmitFlush("stop", ready)
    <3>1. out'[1] = [bytes |-> buf, last |-> FALSE] /\ buf' = <<>>
      BY <1>3, <2>1
    <3> QED
      BY <3>1
  <2>2. CASE ~EmitFlush("stop", ready)
    <3>1. out' = out
      BY <1>3, <1>5, <2>2
    <3> QED
      BY <1>1, <1>5, <3>1 DEF FullBeat, Full
  <2> QED
    BY <2>1, <2>2
<1> QED
  BY <1>1, <1>4, <1>5 DEF BeatsInv, Opening, Streaming, Full

LEMMA BeatsDone ==
  ASSUME CamInv, StreamInv, HistInv, BeatsInv, NEW ready \in BOOLEAN,
         Done(ready), Observe(ready)
  PROVE  BeatsInv'
<1>1. /\ DrainTypeOK /\ DrainReady /\ buf = <<>> /\ out = <<>> /\ ~flushing
      /\ DrainEdge("run", <<>>, ready) /\ state = "DRAIN" /\ state' = "IDLE"
      /\ flushIssued /\ CountOut(ready) /\ status' = "DONE" /\ status = "NONE"
  BY DEF CamInv, TypeOK, HistInv, Done, DoneNow, PackIdle, StreamInv, FlushEndsBlock
<1>2. ~EmitFlush("run", ready)
  BY <1>1 DEF EmitFlush
<1>3. buf' = <<>> /\ out' = <<>>
  BY <1>1, <1>2, SettleEdge
<1>4. delivered' = delivered /\ bytesOut' = bytesOut
  BY <1>1, NotHanding DEF Handing
<1>5. CASE Opening
  <2>1. delivered = <<>>
    BY <1>1, <1>5 DEF Opening
  <2> QED
    BY <1>1, <1>3, <1>4, <1>5, <2>1 DEF BeatsInv, Opening, Streaming
<1>6. CASE Closed
  <2>1. Ended(delivered', bytesOut', TRUE)
    BY <1>1, <1>4, <1>6 DEF Closed
  <2> QED
    BY <1>1, <1>3, <2>1 DEF BeatsInv, Closed
<1> QED
  BY <1>1, <1>5, <1>6 DEF BeatsInv

\* A block that ran to its end has handed over everything.
AllSent == status = "DONE" => Received = Model.bytes

ScoreInv == WalkInv /\ BeatsInv /\ AllSent

LEMMA BeatsInvStep ==
  CamInv /\ StreamInv /\ HistInv /\ BeatsInv /\ [HNext]_<<vars, historyVars>> => BeatsInv'
<1> SUFFICES ASSUME CamInv, StreamInv, HistInv, BeatsInv, [HNext]_<<vars, historyVars>>
             PROVE  BeatsInv'
  OBVIOUS
<1>1. ASSUME NEW ready \in BOOLEAN, Idle(ready), Observe(ready) PROVE BeatsInv'
  BY <1>1, BeatsSettle
<1>2. ASSUME NEW ready \in BOOLEAN, InitStep(ready), Observe(ready) PROVE BeatsInv'
  BY <1>2, BeatsGoOn DEF InitStep, Streaming
<1>3. ASSUME NEW ready \in BOOLEAN, Wait(ready), Observe(ready) PROVE BeatsInv'
  BY <1>3, BeatsGoOn DEF Wait, Streaming, ctrlVars
<1>4. ASSUME NEW ready \in BOOLEAN, DrainStep(ready), Observe(ready) PROVE BeatsInv'
  <2>1. CASE DrainReady
    BY <1>4, <2>1, BeatsFlush
  <2>2. CASE ~DrainReady
    <3>1. state = "DRAIN" /\ ~flushIssued
      BY <1>4, <2>2 DEF DrainStep, StreamInv, FlushEndsBlock
    <3>2. /\ DrainEdge("run", <<>>, ready) /\ ~flushIssued' /\ state' = "DRAIN"
          /\ CountOut(ready) /\ status' = status
      BY <1>4, <2>2, <3>1 DEF DrainStep, IssueFlush
    <3> QED
      BY <1>4, <3>1, <3>2, BeatsGoOn DEF Streaming
  <2> QED
    BY <2>1, <2>2
<1>5. ASSUME NEW ready \in BOOLEAN, Done(ready), Observe(ready) PROVE BeatsInv'
  BY <1>5, BeatsDone
<1>6. ASSUME NEW ready \in BOOLEAN, Abort(ready), Observe(ready) PROVE BeatsInv'
  BY <1>6 DEF Abort, Discard, BeatsInv
<1>7. ASSUME NEW ready \in BOOLEAN, NEW b \in Beats, AcceptRun(ready, b), Observe(ready)
      PROVE  BeatsInv'
  BY <1>7, BeatsGoOn DEF AcceptRun, Accept, Streaming, ctrlVars
<1>8. ASSUME NEW ready \in BOOLEAN, NEW b \in Beats, AcceptMtf(ready, b), Observe(ready)
      PROVE  BeatsInv'
  BY <1>8, BeatsGoOn DEF AcceptMtf, Accept, Streaming, ctrlVars
<1>9. ASSUME NEW ready \in BOOLEAN, NEW b \in Beats, AcceptEob(ready, b), Observe(ready)
      PROVE  BeatsInv'
  BY <1>9, BeatsGoOn DEF AcceptEob, Accept, Streaming, FlushIssuedAtEob
<1>10. ASSUME NEW ready \in BOOLEAN, NEW b \in Beats, Reject(ready, b), Observe(ready)
       PROVE  BeatsInv'
  <2>1. Verdict(b) \in Errors /\ state = "DECODE" /\ Discard(ready, Verdict(b))
    BY <1>10 DEF Reject, Verdict, Errors
  <2> QED
    BY <1>10, <2>1, BeatsReject
<1>11. ASSUME NEW ready \in BOOLEAN, NEW u \in (SUBSET Bytes) \ {{}},
              NEW s \in SymbolLimits, NEW l \in BytesLimits,
              Doorbell(ready, u, s, l), delivered' = <<>>
       PROVE  BeatsInv'
  <2>1. /\ fifo = <<>> /\ exp = <<>> /\ DrainEdge("discard", <<>>, ready) /\ DrainTypeOK
        /\ state' = "INIT" /\ status' = "NONE" /\ bytesOut' = 0
    BY <1>11 DEF Doorbell, StreamInv, IdleQuiet, CamInv, TypeOK
  <2>2. Regular(delivered', bytesOut')
    BY <1>11, <2>1, EmptySeq, LaneAssumption DEF Regular
  <2> QED
    BY <1>11, <2>1, <2>2 DEF BeatsInv, Opening
<1>12. CASE UNCHANGED <<vars, historyVars>>
  <2>1. UNCHANGED <<delivered, bytesOut, state, flushIssued, status, out, buf>>
    BY <1>12 DEF vars, historyVars, drainVars, ctrlVars
  <2> QED
    BY <2>1 DEF BeatsInv, Opening, Closed, Regular, Ended, Full, Streaming
<1> QED
  BY <1>1, <1>2, <1>3, <1>4, <1>5, <1>6, <1>7, <1>8, <1>9, <1>10, <1>11, <1>12
  DEF HNext, HAdvance, HAbort, HSymbol, HDoorbell, Advance, Symbol

LEMMA AllSentStep ==
  CamInv /\ StreamInv /\ HistInv /\ BeatsInv /\ AllSent /\ [HNext]_<<vars, historyVars>> => AllSent'
<1> SUFFICES ASSUME CamInv, StreamInv, HistInv, BeatsInv, AllSent,
                    [HNext]_<<vars, historyVars>>, status' = "DONE"
             PROVE  Received' = Model'.bytes
  BY DEF AllSent
<1>1. ASSUME NEW ready \in BOOLEAN, Idle(ready), Observe(ready), UNCHANGED heard
      PROVE  Received' = Model'.bytes
  <2>1. status = "DONE" /\ status' = status /\ used' = used /\ CountOut(ready)
    BY <1>1, HoldUsed DEF Idle
  <2>2. out = <<>>
    BY <2>1 DEF BeatsInv, Opening, Closed
  <2>3. delivered' = delivered
    BY <1>1, <2>1, <2>2, NotHanding DEF Handing
  <2> QED
    BY <1>1, <2>1, <2>3, SameModel DEF AllSent, Received
<1>2. ASSUME NEW ready \in BOOLEAN, Done(ready), Observe(ready), UNCHANGED heard
      PROVE  Received' = Model'.bytes
  <2>1. /\ state = "DRAIN" /\ status \notin Errors /\ status' \notin Errors /\ used' = used
        /\ out = <<>> /\ buf = <<>> /\ fifo = <<>> /\ exp = <<>> /\ CountOut(ready)
    BY <1>2, HoldUsed DEF Done, DoneNow, PackIdle, HistInv, Errors, StreamInv, FlushEndsBlock,
                          DrainReady, Queue!Readable
  <2>2. Model.bytes = Received \o Owed /\ Received \in Seq(Bytes)
    BY <2>1 DEF HistInv
  <2>3. Owed = <<>>
    <3>1. \A S : \A s \in Seq(S) : <<>> \o s = s
      BY ConcatEmptySeq
    <3>2. exp \o fifo = <<>> /\ Flat(<<>>) = <<>> /\ <<>> \o <<>> = <<>>
      BY <2>1, <3>1, FlatNone, EmptySeq
    <3> QED
      BY <2>1, <3>2 DEF Owed, OnOffer
  <2>4. delivered' = delivered
    BY <1>2, <2>1, NotHanding DEF Handing
  <2>5. Received \o <<>> = Received
    BY <2>2, ConcatEmptySeq
  <2>6. Model' = Model
    BY <1>2, <2>1, SameModel
  <2> QED
    BY <2>2, <2>3, <2>4, <2>5, <2>6 DEF Received
<1>3. CASE UNCHANGED <<vars, historyVars>>
  <2>1. UNCHANGED <<delivered, heard, status, used>>
    BY <1>3 DEF vars, historyVars, listVars
  <2> QED
    BY <2>1, SameModel DEF AllSent, Received
<1>4. state # "IDLE" => status # "DONE"
  BY DEF HistInv
<1>5. ASSUME NEW ready \in BOOLEAN, NEW b \in Beats, Symbol(ready, b) PROVE FALSE
  <2>1. state = "DECODE" /\ status' \in Errors \cup {status}
    BY <1>5 DEF Symbol, AcceptRun, AcceptMtf, AcceptEob, Accept, Reject, Discard, Verdict, Errors
  <2> QED
    BY <1>4, <2>1 DEF Errors
<1>6. ASSUME NEW ready \in BOOLEAN, InitStep(ready) \/ Wait(ready) \/ DrainStep(ready) PROVE FALSE
  BY <1>4, <1>6 DEF InitStep, Wait, DrainStep
<1>7. ASSUME NEW ready \in BOOLEAN, Abort(ready) PROVE FALSE
  BY <1>7 DEF Abort, Discard
<1>8. ASSUME NEW ready \in BOOLEAN, NEW u, NEW s, NEW l, Doorbell(ready, u, s, l) PROVE FALSE
  BY <1>8 DEF Doorbell
<1> QED
  BY <1>1, <1>2, <1>3, <1>5, <1>6, <1>7, <1>8
  DEF HNext, HAdvance, HAbort, HSymbol, HDoorbell, Advance

LEMMA ScoreInvariant == HSpec => [](CamInv /\ HistInv /\ ScoreInv)
<1>1. HInit => CamInv /\ StreamInv /\ HistInv /\ ScoreInv
  <2>1. HInit => Init /\ status = "NONE"
    BY DEF HInit, Init
  <2> QED
    BY <2>1, CamInvInit, StreamInvInit, HistInvInit, WalkInvInit, BeatsInvInit DEF ScoreInv, AllSent
<1>2. CamInv /\ StreamInv /\ HistInv /\ ScoreInv /\ [HNext]_<<vars, historyVars>>
        => (CamInv /\ StreamInv /\ HistInv /\ ScoreInv)'
  BY HistNext, CamInvStep, StreamInvStep, HistInvStep, WalkInvStep, BeatsInvStep, AllSentStep
  DEF ScoreInv
<1> QED
  BY <1>1, <1>2, PTL DEF HSpec

-----------------------------------------------------------------------------
(* What the scoreboard asks of the shape of the beats.                       *)

LEMMA DivMod ==
  ASSUME NEW w \in Nat \ {0}, NEW n \in Nat
  PROVE  n \div w \in Nat /\ n % w \in 0..(w - 1) /\ n = w * (n \div w) + (n % w)
  OBVIOUS

LEMMA DivModUnique ==
  ASSUME NEW w \in Nat \ {0}, NEW k \in Nat, NEW j \in Nat,
         NEW r \in 0..(w - 1), NEW q \in 0..(w - 1), w * k + r = w * j + q
  PROVE  k = j /\ r = q
<1>1. \A x, y \in Nat : x < y => w * (x + 1) <= w * y /\ w * (x + 1) = w * x + w
  OBVIOUS
<1>2. ~(k < j) /\ ~(j < k)
  BY <1>1
<1>3. k = j
  BY <1>2
<1> QED
  BY <1>3

LEMMA DivModOf ==
  ASSUME NEW w \in Nat \ {0}, NEW k \in Nat, NEW r \in 0..(w - 1)
  PROVE  (w * k + r) \div w = k /\ (w * k + r) % w = r
<1> DEFINE n == w * k + r
<1>1. n \in Nat
  OBVIOUS
<1> HIDE DEF n
<1> DEFINE d == n \div w
           m == n % w
<1>2. d \in Nat /\ m \in 0..(w - 1) /\ n = w * d + m
  BY <1>1, DivMod
<1> HIDE DEF d, m
<1>3. k = d /\ r = m
  BY <1>2, DivModUnique DEF n
<1> QED
  BY <1>3 DEF d, m, n

LEMMA RegularShape ==
  ASSUME NEW beats \in Seq(Beat), NEW n \in Nat, Regular(beats, n), NEW done, done => beats = <<>>,
         done \in BOOLEAN
  PROVE  BeatShape(beats, n, W, done)
<1> DEFINE k == Len(beats)
<1>1. k \in Nat /\ W \in Nat \ {0} /\ n = W * k + 0
  BY LenProperties, LaneAssumption DEF Regular
<1>2. \A i \in 1..k : beats[i] \in Beat /\ Len(beats[i].bytes) = W /\ ~beats[i].last
  BY ElementOfSeq DEF Regular, Full
<1>3. DOMAIN beats = 1..k /\ (done => k = 0)
  BY EmptySeq
<1> HIDE DEF k
<1>4. n % W = 0
  <2>1. 0 \in 0..(W - 1)
    BY <1>1
  <2>2. (W * k + 0) % W = 0
    BY <1>1, <2>1, DivModOf
  <2> QED
    BY <1>1, <2>2
<1>5. (n + W - 1) \div W = k
  <2>1. n + W - 1 = W * k + (W - 1) /\ W - 1 \in 0..(W - 1)
    BY <1>1
  <2> QED
    BY <1>1, <2>1, DivModOf
<1>6. \A i \in 1..k : beats[i].last = FALSE /\ ~done
  BY <1>1, <1>2, <1>3 DEF Beat
<1> QED
  BY <1>2, <1>3, <1>4, <1>5, <1>6 DEF BeatShape, k

LEMMA EndedShape ==
  ASSUME NEW beats \in Seq(Beat), NEW n \in Nat, NEW done \in BOOLEAN, Ended(beats, n, done)
  PROVE  BeatShape(beats, n, W, done)
<1> DEFINE k == Len(beats) - 1
           r == Len(beats[Len(beats)].bytes)
<1>1. /\ k \in Nat /\ W \in Nat \ {0} /\ Len(beats) = k + 1 /\ DOMAIN beats = 1..(k + 1)
      /\ beats[k + 1].last = done /\ Len(beats[k + 1].bytes) = r
  BY LenProperties, EmptySeq, LaneAssumption DEF Ended
<1>2. r \in 1..W /\ n = W * k + r
  BY <1>1 DEF Ended
<1>3. \A i \in 1..k : beats[i] \in Beat /\ Len(beats[i].bytes) = W /\ ~beats[i].last
  BY <1>1, ElementOfSeq DEF Ended, Full
<1> HIDE DEF k, r
<1>4. (n + W - 1) \div W = k + 1
  <2> DEFINE j == k + 1
             q == r - 1
  <2>1. n + W - 1 = W * j + q /\ q \in 0..(W - 1) /\ j \in Nat
    BY <1>1, <1>2
  <2> HIDE DEF j, q
  <2>2. (W * j + q) \div W = j
    BY <1>1, <2>1, DivModOf
  <2> QED
    BY <2>1, <2>2 DEF j
<1>5. r = (IF n % W # 0 THEN n % W ELSE W)
  <2>1. CASE r = W
    <3>1. n = W * (k + 1) + 0 /\ k + 1 \in Nat /\ 0 \in 0..(W - 1)
      BY <1>1, <1>2, <2>1
    <3>2. n % W = 0
      BY <1>1, <3>1, DivModOf
    <3> QED
      BY <2>1, <3>2
  <2>2. CASE r # W
    <3>1. r \in 0..(W - 1)
      BY <1>1, <1>2, <2>2
    <3>2. n % W = r
      BY <1>1, <1>2, <3>1, DivModOf
    <3> QED
      BY <1>2, <3>2
  <2> QED
    BY <2>1, <2>2
<1>6. \A i \in 1..(k + 1) :
        /\ i = k + 1 => beats[i].last = done /\ Len(beats[i].bytes) = r
        /\ i # k + 1 => beats[i].last = FALSE /\ Len(beats[i].bytes) = W
  <2> TAKE i \in 1..(k + 1)
  <2>1. i # k + 1 => i \in 1..k
    BY <1>1
  <2>2. \A j \in 1..k : beats[j].last = FALSE /\ Len(beats[j].bytes) = W
    BY <1>3 DEF Beat
  <2> QED
    BY <1>1, <2>1, <2>2
<1> QED
  BY <1>1, <1>4, <1>5, <1>6 DEF BeatShape

-----------------------------------------------------------------------------
(* The prediction of the scoreboard.                                         *)

LEMMA WalkedIsFold ==
  FoldLeft(LAMBDA x, b : Walk(x, b, Limits), WalkStart, heard) = Walked
  BY DEF Walked, WalkOp, Track!Fold, FoldLeft, Track!FoldLeft, MapThenFoldSet, Track!MapThenFoldSet,
         Max, Track!Max

LEMMA OutcomeIs ==
  ASSUME CamInv, HistInv, WalkInv, status \in Errors \cup {"DONE"}
  PROVE  /\ Outcome.stop = status /\ Outcome.symbolsIn = symbolsIn
         /\ Outcome.maxRun = maxRun /\ Outcome.bytes = Model.bytes
<1> DEFINE n == Len(heard)
           cut == IF Walked.stop \in {"NONE", "DONE"} THEN Walked.heard ELSE Walked.heard - 1
           values == [i \in 1..cut |-> heard[i].value]
           golden == ExpandAll(values, used, Cardinality(used) + 1)
<1>1. Walked.stop = status /\ Walked.heard = n /\ symbolsIn = n /\ n \in Nat /\ heard \in Seq(Beats)
  BY LenProperties DEF WalkInv, HistInv
<1>2. Outcome = [stop |-> Walked.stop, symbolsIn |-> Walked.heard,
                 bytes |-> golden.bytes, maxRun |-> golden.longest]
  BY WalkedIsFold DEF Outcome, ComputeOutcome, Limits
<1>3. values = Values(Clean)
  <2>1. CASE status = "DONE"
    BY <1>1, <2>1 DEF Values, Clean, Errors
  <2>2. CASE status \in Errors
    <3>1. cut = n - 1
      BY <1>1, <2>2 DEF Errors
    <3>2. n # 0
      <4>1. heard # <<>>
        BY <1>1, <2>2, WalkNone DEF WalkStart, Errors
      <4> QED
        BY <1>1, <4>1, EmptySeq
    <3>3. Clean = SubSeq(heard, 1, n - 1)
      BY <2>2 DEF Clean, Front
    <3>4. SubSeq(heard, 1, n - 1) = [i \in 1..(n - 1) |-> heard[i]]
      BY <1>1, <3>2
    <3> QED
      BY <3>1, <3>3, <3>4 DEF Values
  <2> QED
    BY <2>1, <2>2
<1>4. golden = Model
  BY <1>3 DEF Model, Eob
<1>5. Model.longest = maxRun
  BY DEF HistInv
<1> QED
  BY <1>1, <1>2, <1>4, <1>5

LEMMA ScoreInvImplies == CamInv /\ HistInv /\ ScoreInv => ScoreboardPasses
<1> SUFFICES ASSUME CamInv, HistInv, ScoreInv, status \in Errors \cup {"DONE"}
             PROVE  /\ Outcome.stop = status
                    /\ Outcome.symbolsIn = symbolsIn /\ Outcome.maxRun = maxRun
                    /\ initCycles = Cardinality(used)
                    /\ BeatShape(delivered, Len(Received), W, status = "DONE")
                    /\ IF status = "DONE" THEN Received = Outcome.bytes
                                          ELSE IsPrefix(Received, Outcome.bytes)
  BY DEF ScoreboardPasses
<1>1. /\ Outcome.stop = status /\ Outcome.symbolsIn = symbolsIn
      /\ Outcome.maxRun = maxRun /\ Outcome.bytes = Model.bytes
  BY OutcomeIs DEF ScoreInv
<1>2. initCycles = Cardinality(used)
  BY DEF ScoreInv, WalkInv
<1>3. BeatShape(delivered, Len(Received), W, status = "DONE")
  <2>1. /\ delivered \in Seq(Beat) /\ Len(Received) = bytesOut /\ bytesOut \in Nat
        /\ state = "IDLE" /\ status # "ABORTED"
    BY DEF HistInv, CamInv, TypeOK, Errors
  <2>2. CASE Opening
    <3>1. Regular(delivered, bytesOut) /\ (status = "DONE" => delivered = <<>>)
      BY <2>2 DEF Opening
    <3> QED
      BY <2>1, <3>1, RegularShape
  <2>3. CASE Closed
    <3>1. Ended(delivered, bytesOut, status = "DONE")
      BY <2>1, <2>3 DEF Closed
    <3> QED
      BY <2>1, <3>1, EndedShape
  <2> QED
    BY <2>1, <2>2, <2>3 DEF ScoreInv, BeatsInv
<1>4. IF status = "DONE" THEN Received = Outcome.bytes ELSE IsPrefix(Received, Outcome.bytes)
  <2>1. Golden = Model.bytes
    BY DEF Golden, Expand, Model, Values, Eob
  <2>2. IsPrefix(Received, Golden)
    BY HistInvImplies DEF DeliveredIsPrefix
  <2> QED
    BY <1>1, <2>1, <2>2 DEF ScoreInv, AllSent
<1> QED
  BY <1>1, <1>2, <1>3, <1>4

\* tb/env.py against mtf_cam: whatever stalls, errors, aborts and restarts came
\* before, the scoreboard has no complaint about a block that ended by itself.
THEOREM HistoryScore == HSpec => []ScoreboardPasses
  BY ScoreInvariant, ScoreInvImplies, PTL

-----------------------------------------------------------------------------
(* The refinement of MtfBlock: the bytes owed are counted, no longer told    *)
(* apart.                                                                    *)

CountOp(p, n, item) == n + item.count
Tally == INSTANCE FoldLaws WITH Op <- CountOp

LEMMA ItemsBytesIsFold == \A items : ItemsBytes(items) = Tally!Fold(0, 0, items)
  BY DEF ItemsBytes, CountOp, Tally!Fold, FoldLeft, Tally!FoldLeft, MapThenFoldSet,
         Tally!MapThenFoldSet, Max, Tally!Max

LEMMA ItemsBytesNone == ItemsBytes(<<>>) = 0
  BY ItemsBytesIsFold, Tally!FoldNothing

LEMMA ItemsBytesAppend ==
  ASSUME NEW items \in Seq(Item), NEW item \in Item
  PROVE  ItemsBytes(Append(items, item)) = ItemsBytes(items) + item.count
<1>1. Tally!Fold(0, 0, Append(items, item)) = CountOp(0, Tally!Fold(0, 0, items), item)
  BY Tally!FoldAppend
<1> QED
  BY <1>1, ItemsBytesIsFold DEF CountOp

\* The counts of a line of items add up to the bytes the expander makes of it.
Tallied(s) == ItemsBytes(s) = Len(Flat(s))
Untallied(n) == \E s \in Seq(Item) : Len(s) = n /\ ~Tallied(s)

LEMMA LeastUntallied ==
  ASSUME NEW z \in Seq(Item), ~Tallied(z)
  PROVE  \E n \in Nat : Untallied(n) /\ \A m \in Nat : Untallied(m) => ~(m < n)
<1> DEFINE S == {n \in Nat : Untallied(n)}
<1>1. Len(z) \in S
  BY LenProperties DEF Untallied
<1>2. S \subseteq Nat /\ S # {}
  BY <1>1
<1> HIDE DEF S
<1>3. \E n \in S : \A m \in S : ~(m < n)
  BY ONLY <1>2, LeastOne
<1> QED
  BY ONLY <1>3 DEF S

LEMMA ItemsBytesFlat == \A items \in Seq(Item) : ItemsBytes(items) = Len(Flat(items))
<1> SUFFICES ASSUME NEW z \in Seq(Item), ~Tallied(z) PROVE FALSE
  BY DEF Tallied
<1>1. PICK n \in Nat : Untallied(n) /\ \A m \in Nat : Untallied(m) => ~(m < n)
  BY LeastUntallied
<1>3. PICK s \in Seq(Item) : Len(s) = n /\ ~Tallied(s)
  BY <1>1 DEF Untallied
<1>4. s # <<>>
  BY <1>3, FlatNone, ItemsBytesNone, EmptySeq DEF Tallied
<1>5. PICK t \in Seq(Item), x \in Item : s = Append(t, x)
  BY <1>4, SequenceEmptyOrAppend
<1>6. Len(t) \in Nat /\ Len(t) < n
  BY <1>3, <1>5, AppendProperties, LenProperties
<1>7. Tallied(t)
  BY <1>1, <1>6 DEF Untallied
<1>8. Len(Flat(s)) = Len(Flat(t)) + x.count
  <2>1. Flat(s) = Flat(t) \o Copies(x) /\ Flat(t) \in Seq(Bytes)
    BY <1>5, FlatAppend, FlatType
  <2>2. Copies(x) \in Seq(Bytes) /\ Len(Copies(x)) = x.count
    BY CopiesType
  <2> DEFINE f == Flat(t)
             c == Copies(x)
  <2>3. f \in Seq(Bytes) /\ c \in Seq(Bytes) /\ Flat(s) = f \o c
    BY <2>1, <2>2
  <2> HIDE DEF f, c
  <2>4. Len(f \o c) = Len(f) + Len(c)
    BY <2>3, ConcatProperties
  <2> QED
    BY <2>2, <2>3, <2>4 DEF f, c
<1>9. ItemsBytes(s) = ItemsBytes(t) + x.count
  BY <1>5, ItemsBytesAppend
<1> QED
  BY <1>3, <1>7, <1>8, <1>9 DEF Tallied

LEMMA PendingIsOwed ==
  DrainTypeOK => Pending = Len(Owed) /\ Pending \in Nat /\ Owed \in Seq(Bytes)
<1> SUFFICES ASSUME DrainTypeOK PROVE Pending = Len(Owed) /\ Pending \in Nat
  BY OwedType
<1>1. exp \in Seq(Item) /\ fifo \in Seq(Item) /\ buf \in Seq(Bytes) /\ OnOffer \in Seq(Bytes)
  BY DrainParts DEF DrainTypeOK
<1>2. Flat(exp \o fifo) = Flat(exp) \o Flat(fifo) /\ Flat(exp) \in Seq(Bytes) /\ Flat(fifo) \in Seq(Bytes)
  BY <1>1, FlatConcat, FlatType
<1>3. ItemsBytes(exp) = Len(Flat(exp)) /\ ItemsBytes(fifo) = Len(Flat(fifo))
  BY <1>1, ItemsBytesFlat
<1>4. OutBytes = Len(OnOffer)
  BY EmptySeq DEF OutBytes, OnOffer
<1> DEFINE e == Flat(exp)
           f == Flat(fifo)
<1>5. Owed = OnOffer \o (buf \o (e \o f)) /\ Pending = Len(OnOffer) + Len(buf) + Len(e) + Len(f)
  BY <1>2, <1>3, <1>4 DEF Owed, Pending
<1>6. e \in Seq(Bytes) /\ f \in Seq(Bytes)
  BY <1>2
<1> HIDE DEF e, f
<1>7. Len(e \o f) = Len(e) + Len(f) /\ e \o f \in Seq(Bytes)
  BY <1>6, ConcatProperties
<1>8. Len(buf \o (e \o f)) = Len(buf) + Len(e \o f) /\ buf \o (e \o f) \in Seq(Bytes)
  BY <1>1, <1>7, ConcatProperties
<1>9. Len(OnOffer \o (buf \o (e \o f))) = Len(OnOffer) + Len(buf \o (e \o f))
  BY <1>1, <1>8, ConcatProperties
<1> QED
  BY <1>1, <1>5, <1>6, <1>7, <1>8, <1>9, LenProperties

\* The lanes of a beat handed over are bytes owed.
LEMMA LanesFacts ==
  ASSUME DrainTypeOK, NEW ready \in BOOLEAN
  PROVE  /\ LanesOut(ready) \in 0..W /\ LanesOut(ready) = Len(Handed(ready))
         /\ LanesOut(ready) <= OutBytes /\ OutBytes \in 0..W
<1>1. out # <<>> => Len(out[1].bytes) \in 1..W
  BY DEF DrainTypeOK
<1> QED
  BY <1>1, EmptySeq, LaneAssumption DEF LanesOut, Handed, OnOffer, OutBytes

LEMMA PendingEdge ==
  ASSUME DrainTypeOK, DrainTypeOK', NEW ctl \in {"run", "last"}, NEW wr \in Seq(Item),
         NEW ready \in BOOLEAN, DrainEdge(ctl, wr, ready)
  PROVE  /\ LanesOut(ready) \in 0..W /\ LanesOut(ready) <= Pending /\ Pending \in Nat
         /\ Pending' = (Pending - LanesOut(ready)) + ItemsBytes(wr)
<1> DEFINE left == Handed(ready)
           late == Flat(wr)
           next == Owed'
<1>1. Owed \o late = left \o next
  BY OwedEdge
<1>2. /\ Owed \in Seq(Bytes) /\ left \in Seq(Bytes) /\ late \in Seq(Bytes)
      /\ Len(late) = ItemsBytes(wr)
  BY OwedType, DrainParts, FlatType, ItemsBytesFlat
<1>3. next \in Seq(Bytes) /\ Pending' = Len(next)
  <2>1. (DrainTypeOK => Pending = Len(Owed) /\ Pending \in Nat /\ Owed \in Seq(Bytes))'
    BY PendingIsOwed, PTL
  <2> QED
    BY <2>1
<1>4. Pending = Len(Owed) /\ Pending \in Nat
  BY PendingIsOwed
<1>5. LanesOut(ready) = Len(left) /\ LanesOut(ready) \in 0..W /\ LanesOut(ready) <= Pending
  <2>1. LanesOut(ready) <= OutBytes /\ OutBytes \in Nat /\ LanesOut(ready) \in Nat
    BY LanesFacts, LaneAssumption
  <2>2. /\ Len(buf) \in Nat /\ ItemsBytes(exp) \in Nat /\ ItemsBytes(fifo) \in Nat
    BY ItemsBytesFlat, FlatType, LenProperties DEF DrainTypeOK
  <2> QED
    BY <2>1, <2>2, LanesFacts DEF Pending
<1> HIDE DEF left, late, next
<1>6. Len(Owed \o late) = Len(Owed) + Len(late) /\ Len(left \o next) = Len(left) + Len(next)
  BY <1>2, <1>3, ConcatProperties
<1>7. Len(late) \in Nat /\ Len(left) \in Nat /\ Len(next) \in Nat
  BY <1>2, <1>3, LenProperties
<1>8. Pending' = (Pending - Len(left)) + Len(late)
  BY <1>1, <1>3, <1>4, <1>6, <1>7
<1> QED
  BY <1>2, <1>4, <1>5, <1>8

\* How MtfBlock names the states of the FSM.
Phase(s) == IF s = "IDLE" THEN "IDLE" ELSE IF s = "DRAIN" THEN "ENDING" ELSE "BUSY"

\* An edge that takes no symbol, or a run symbol: at most a beat leaves.
LEMMA QuietEdge ==
  ASSUME DrainTypeOK, DrainTypeOK', NEW ctl \in {"run", "last"}, NEW ready \in BOOLEAN,
         DrainEdge(ctl, <<>>, ready)
  PROVE  /\ LanesOut(ready) \in 0..W /\ LanesOut(ready) <= Pending /\ Pending \in Nat
         /\ Pending' = Pending - LanesOut(ready)
<1>1. <<>> \in Seq(Item)
  BY EmptySeq
<1>2. /\ LanesOut(ready) \in 0..W /\ LanesOut(ready) <= Pending /\ Pending \in Nat
      /\ Pending' = (Pending - LanesOut(ready)) + ItemsBytes(<<>>)
  BY <1>1, PendingEdge
<1> QED
  BY <1>2, ItemsBytesNone, LaneAssumption

LEMMA OfferType == DrainTypeOK => OnOffer \in Seq(Bytes)
  BY DrainParts

LEMMA PackedBytes == DrainTypeOK => OutBytes \in 0..W /\ Len(buf) \in 0..W
<1> SUFFICES ASSUME DrainTypeOK PROVE OutBytes \in 0..W /\ Len(buf) \in 0..W
  OBVIOUS
<1>1. out # <<>> => Len(out[1].bytes) \in 1..W
  BY DEF DrainTypeOK
<1>2. Len(buf) \in Nat /\ Len(buf) <= W
  BY LenProperties DEF DrainTypeOK
<1> QED
  BY <1>1, <1>2, LaneAssumption DEF OutBytes

\* An error or an abort: what is neither on offer nor buffered is forgotten.
LEMMA StoppedEdge ==
  ASSUME DrainTypeOK, DrainTypeOK', NEW ready \in BOOLEAN, DrainEdge("stop", <<>>, ready)
  PROVE  /\ LanesOut(ready) \in 0..W /\ LanesOut(ready) <= Pending /\ Pending \in Nat
         /\ Pending' \in 0..(Pending - LanesOut(ready)) /\ Pending' <= 2 * W
<1>1. fifo' = <<>> /\ exp' = <<>>
  BY SettleEdge
<1>2. OutBytes \in 0..W /\ Len(buf) \in 0..W /\ OutBytes' \in 0..W /\ Len(buf') \in 0..W
  <2>1. (DrainTypeOK => OutBytes \in 0..W /\ Len(buf) \in 0..W)'
    BY PackedBytes, PTL
  <2> QED
    BY <2>1, PackedBytes
<1>3. Pending' = OutBytes' + Len(buf')
  <2>1. ItemsBytes(fifo') = 0 /\ ItemsBytes(exp') = 0
    BY <1>1, ItemsBytesNone
  <2> QED
    BY <1>2, <2>1, LaneAssumption DEF Pending
<1>4. Pending >= OutBytes + Len(buf) /\ Pending \in Nat
  <2>1. /\ ItemsBytes(exp) \in Nat /\ ItemsBytes(fifo) \in Nat
    BY ItemsBytesFlat, FlatType, LenProperties DEF DrainTypeOK
  <2> QED
    BY <1>2, <2>1, LaneAssumption DEF Pending
<1>5. LanesOut(ready) \in 0..W /\ LanesOut(ready) = Len(Handed(ready))
      /\ LanesOut(ready) <= OutBytes
  BY LanesFacts
<1>6. OutBytes + Len(buf) = LanesOut(ready) + (OutBytes' + Len(buf'))
  <2> DEFINE left == Handed(ready)
             offer == OnOffer
             later == OnOffer'
             old == buf
             new == buf'
  <2>1. offer \o old = left \o (later \o new)
    BY StopEdge
  <2>2. offer \in Seq(Bytes) /\ old \in Seq(Bytes) /\ left \in Seq(Bytes) /\ new \in Seq(Bytes)
    BY DrainParts DEF DrainTypeOK
  <2>3. later \in Seq(Bytes)
    <3>1. (DrainTypeOK => OnOffer \in Seq(Bytes))'
      BY OfferType, PTL
    <3> QED
      BY <3>1
  <2>4. Len(offer) = OutBytes /\ Len(later) = OutBytes'
    BY EmptySeq DEF OutBytes, OnOffer
  <2> HIDE DEF offer, later, left, old, new
  <2>5. Len(offer \o old) = Len(offer) + Len(old) /\ Len(later \o new) = Len(later) + Len(new)
        /\ later \o new \in Seq(Bytes)
    BY <2>2, <2>3, ConcatProperties
  <2>6. Len(left \o (later \o new)) = Len(left) + Len(later \o new)
    BY <2>2, <2>5, ConcatProperties
  <2>7. Len(offer) + Len(old) = Len(left) + (Len(later) + Len(new))
    BY <2>1, <2>5, <2>6
  <2> QED
    BY <1>5, <2>4, <2>7 DEF left, old, new
<1>7. W \in Nat
  BY LaneAssumption
<1>8. Pending' \in 0..(Pending - LanesOut(ready)) /\ Pending' <= 2 * W
  <2> DEFINE p == Pending
             q == Pending'
             k == LanesOut(ready)
             o == OutBytes
             x == OutBytes'
             b == Len(buf)
             y == Len(buf')
  <2>1. o \in 0..W /\ b \in 0..W /\ x \in 0..W /\ y \in 0..W /\ k \in 0..W /\ W \in Nat
    BY <1>2, <1>5, <1>7
  <2>2. q = x + y /\ p >= o + b /\ p \in Nat /\ o + b = k + (x + y)
    BY <1>3, <1>4, <1>6
  <2> HIDE DEF p, q, k, o, x, b, y
  <2>3. q \in 0..(p - k) /\ q <= 2 * W
    BY ONLY <2>1, <2>2
  <2> QED
    BY <2>3 DEF p, q, k
<1>9. LanesOut(ready) <= Pending
  BY ONLY <1>2, <1>4, <1>5, <1>7
<1> QED
  BY ONLY <1>4, <1>5, <1>8, <1>9

\* The doorbell withdraws what is left of the block before.
LEMMA WithdrawnEdge ==
  ASSUME DrainTypeOK, fifo = <<>>, exp = <<>>, NEW ready \in BOOLEAN,
         DrainEdge("discard", <<>>, ready)
  PROVE  Pending' = 0
<1>1. out' = <<>> /\ buf' = <<>>
  BY DiscardEdge
<1>2. fifo' = <<>> /\ exp' = <<>>
  BY DEF DrainEdge, ExpandAfter, Pop, Queue!QueueAfter, Queue!Dequeue, Queue!Readable
<1>3. OutBytes' = 0 /\ Len(buf') = 0 /\ ItemsBytes(fifo') = 0 /\ ItemsBytes(exp') = 0
  BY <1>1, <1>2, ItemsBytesNone, EmptySeq DEF OutBytes
<1> QED
  BY <1>3 DEF Pending

BlockStep == [Block!BlockNext]_(Block!blockVars)

\* What an edge of the drain side is to MtfBlock, by the states before and after.
LEMMA DeliverStep ==
  ASSUME NEW k \in 0..W, k <= Pending, Pending' = Pending - k,
         state \in {"IDLE", "DRAIN"}, state' = state, status' = status
  PROVE  BlockStep
<1>1. Block!Deliver(k)
  BY DEF Block!Deliver, Block!After
<1> QED
  BY <1>1 DEF BlockStep, Block!BlockNext, Block!Leaving

LEMMA WorkStep ==
  ASSUME NEW k \in 0..W, NEW n \in 0..(RunMax + 1), k <= Pending, Pending' = (Pending - k) + n,
         state \in {"INIT", "DECODE"}, state' \in {"INIT", "DECODE"}, status' = status
  PROVE  BlockStep
<1>1. Block!Work(k, n)
  BY DEF Block!Work, Block!After
<1> QED
  BY <1>1 DEF BlockStep, Block!BlockNext, Block!Leaving

LEMMA EndStep ==
  ASSUME NEW k \in 0..W, NEW n \in 0..(RunMax + 1), k <= Pending, Pending' = (Pending - k) + n,
         state = "DECODE", state' = "DRAIN", status' = status
  PROVE  BlockStep
<1>1. Block!EndOfBlock(k, n)
  BY DEF Block!EndOfBlock, Block!After
<1> QED
  BY <1>1 DEF BlockStep, Block!BlockNext, Block!Leaving

LEMMA StopStep ==
  ASSUME NEW k \in 0..W, k <= Pending, Pending' \in 0..(Pending - k), Pending' <= 2 * W,
         state \in States, state # "IDLE", state' = "IDLE",
         NEW why \in Errors \cup {"ABORTED"}, status' = why
  PROVE  BlockStep
<1>1. Block!Stop(k, why)
  BY DEF Block!Stop, Block!After, States
<1> QED
  BY <1>1 DEF BlockStep, Block!BlockNext, Block!Leaving

LEMMA HistImplements ==
  CamInv /\ CamInv' /\ StreamInv /\ [HNext]_<<vars, historyVars>> => BlockStep
<1> SUFFICES ASSUME CamInv, CamInv', StreamInv, [HNext]_<<vars, historyVars>>
             PROVE  BlockStep
  OBVIOUS
<1>0. DrainTypeOK /\ DrainTypeOK' /\ run \in 0..RunMax /\ state \in States
      /\ (state = "IDLE" => fifo = <<>> /\ exp = <<>>)
  BY DEF CamInv, TypeOK, RunTypeOK, StreamInv, IdleQuiet
<1>1. ASSUME NEW ready \in BOOLEAN, Idle(ready) PROVE BlockStep
  <2>1. /\ state = "IDLE" /\ state' = state /\ status' = status
        /\ DrainEdge("run", <<>>, ready)
    BY <1>1 DEF Idle, ctrlVars
  <2>2. /\ LanesOut(ready) \in 0..W /\ LanesOut(ready) <= Pending
        /\ Pending' = Pending - LanesOut(ready)
    BY <1>0, <2>1, QuietEdge
  <2> QED
    BY <2>1, <2>2, DeliverStep
<1>2. ASSUME NEW ready \in BOOLEAN, InitStep(ready) \/ Wait(ready) PROVE BlockStep
  <2>1. /\ state \in {"INIT", "DECODE"} /\ state' \in {"INIT", "DECODE"} /\ status' = status
        /\ DrainEdge("run", <<>>, ready)
    BY <1>2 DEF InitStep, Wait, ctrlVars
  <2>2. /\ LanesOut(ready) \in 0..W /\ LanesOut(ready) <= Pending /\ Pending \in Nat
        /\ Pending' = Pending - LanesOut(ready)
    BY <1>0, <2>1, QuietEdge
  <2>3. 0 \in 0..(RunMax + 1) /\ Pending' = (Pending - LanesOut(ready)) + 0
    BY <2>2, RunAssumption, LaneAssumption
  <2> QED
    BY <2>1, <2>2, <2>3, WorkStep
<1>3. ASSUME NEW ready \in BOOLEAN, DrainStep(ready) PROVE BlockStep
  <2>1. /\ state = "DRAIN" /\ state' = state /\ status' = status
        /\ DrainEdge(IF IssueFlush(ready) THEN "last" ELSE "run", <<>>, ready)
    BY <1>3 DEF DrainStep
  <2>2. PICK ctl \in {"run", "last"} : DrainEdge(ctl, <<>>, ready)
    BY <2>1
  <2>3. /\ LanesOut(ready) \in 0..W /\ LanesOut(ready) <= Pending
        /\ Pending' = Pending - LanesOut(ready)
    BY <1>0, <2>2, QuietEdge
  <2> QED
    BY <2>1, <2>3, DeliverStep
<1>4. ASSUME NEW ready \in BOOLEAN, Done(ready) PROVE BlockStep
  <2>1. /\ state = "DRAIN" /\ state' = "IDLE" /\ status' = "DONE"
        /\ DrainEdge("run", <<>>, ready)
        /\ out = <<>> /\ buf = <<>> /\ fifo = <<>> /\ exp = <<>>
    BY <1>4 DEF Done, DoneNow, PackIdle, StreamInv, FlushEndsBlock, DrainReady, Queue!Readable
  <2>2. Pending = 0
    <3>1. OutBytes = 0 /\ Len(buf) = 0 /\ ItemsBytes(fifo) = 0 /\ ItemsBytes(exp) = 0
      BY <2>1, ItemsBytesNone, EmptySeq DEF OutBytes
    <3> QED
      BY <3>1 DEF Pending
  <2>3. /\ LanesOut(ready) \in 0..W /\ LanesOut(ready) <= Pending
        /\ Pending' = Pending - LanesOut(ready)
    BY <1>0, <2>1, QuietEdge
  <2>4. Pending' = 0
    BY <2>2, <2>3, LaneAssumption
  <2>5. Block!Finish
    BY <2>1, <2>2, <2>4 DEF Block!Finish
  <2> QED
    BY <2>5 DEF BlockStep, Block!BlockNext
<1>5. ASSUME NEW ready \in BOOLEAN, NEW why \in Errors \cup {"ABORTED"}, state # "IDLE",
             Discard(ready, why)
      PROVE  BlockStep
  <2>1. state' = "IDLE" /\ status' = why /\ DrainEdge("stop", <<>>, ready)
    BY <1>5 DEF Discard
  <2>2. /\ LanesOut(ready) \in 0..W /\ LanesOut(ready) <= Pending
        /\ Pending' \in 0..(Pending - LanesOut(ready)) /\ Pending' <= 2 * W
    BY <1>0, <2>1, StoppedEdge
  <2> QED
    BY <1>0, <1>5, <2>1, <2>2, StopStep
<1>6. ASSUME NEW ready \in BOOLEAN, NEW b \in Beats, Symbol(ready, b) PROVE BlockStep
  <2>1. CASE Reject(ready, b)
    <3>1. state = "DECODE" /\ Verdict(b) \in Errors /\ Discard(ready, Verdict(b))
      BY <2>1 DEF Reject, Verdict, Errors
    <3> QED
      BY <1>5, <3>1
  <2>2. CASE Accept(ready, b) /\ (UNCHANGED ctrlVars \/ state' = "DRAIN")
    <3>1. /\ state = "DECODE" /\ state' \in {"DECODE", "DRAIN"} /\ status' = status
          /\ Verdict(b) = "NONE" /\ DrainEdge("run", Items(b), ready)
      BY <2>2 DEF Accept, ctrlVars
    <3>2. Items(b) \in Seq(Item)
      BY <3>1, CleanBeat
    <3>3. ItemsBytes(Items(b)) \in 0..(RunMax + 1)
      <4>1. ItemsBytes(Items(b)) = ItemBytes(b)
        BY <3>1, <3>2, ItemsBytesFlat, ItemsFlat
      <4>2. ItemBytes(b) \in 0..(RunMax + 1)
        BY <1>0, RunAssumption DEF ItemBytes
      <4> QED
        BY <4>1, <4>2
    <3>4. /\ LanesOut(ready) \in 0..W /\ LanesOut(ready) <= Pending
          /\ Pending' = (Pending - LanesOut(ready)) + ItemsBytes(Items(b))
      BY <1>0, <3>1, <3>2, PendingEdge
    <3>5. CASE state' = "DECODE"
      BY <3>1, <3>3, <3>4, <3>5, WorkStep
    <3>6. CASE state' = "DRAIN"
      BY <3>1, <3>3, <3>4, <3>6, EndStep
    <3> QED
      BY <3>1, <3>5, <3>6
  <2> QED
    BY <1>6, <2>1, <2>2 DEF Symbol, AcceptRun, AcceptMtf, AcceptEob
<1>7. ASSUME NEW ready \in BOOLEAN, NEW u, NEW s, NEW l, Doorbell(ready, u, s, l)
      PROVE  BlockStep
  <2>1. state = "IDLE" /\ state' = "INIT" /\ status' = "NONE" /\ DrainEdge("discard", <<>>, ready)
    BY <1>7 DEF Doorbell
  <2>2. Pending' = 0
    BY <1>0, <2>1, WithdrawnEdge
  <2>3. Block!Start
    BY <2>1, <2>2 DEF Block!Start
  <2> QED
    BY <2>3 DEF BlockStep, Block!BlockNext
<1>8. CASE UNCHANGED <<vars, historyVars>>
  BY <1>8 DEF BlockStep, Block!blockVars, vars, drainVars, ctrlVars, Pending, OutBytes
<1> QED
  BY <1>1, <1>2, <1>3, <1>4, <1>5, <1>6, <1>7, <1>8
  DEF HNext, HAdvance, HAbort, HSymbol, HDoorbell, Advance, Abort

\* Every clock edge of mtf_cam is a step that MtfBlock promises, or changes
\* nothing it promises: bytes leave only when owed, at most a beat of them at a
\* time, a block is DONE only when none is left, an error or an abort adds none.
THEOREM HistoryImplements == HSpec => Block!BlockSafety
<1>1. HInit => Block!BlockInit
  <2> SUFFICES ASSUME HInit PROVE Block!BlockInit
    OBVIOUS
  <2>1. /\ out = <<>> /\ buf = <<>> /\ fifo = <<>> /\ exp = <<>>
        /\ state = "IDLE" /\ status = "NONE"
    BY DEF HInit, Init, DrainInit
  <2>2. OutBytes = 0 /\ Len(buf) = 0 /\ ItemsBytes(fifo) = 0 /\ ItemsBytes(exp) = 0
    BY <2>1, ItemsBytesNone, EmptySeq DEF OutBytes
  <2> QED
    BY <2>1, <2>2 DEF Block!BlockInit, Pending
<1>2. CamInv /\ CamInv' /\ StreamInv /\ [HNext]_<<vars, historyVars>>
        => [Block!BlockNext]_(Block!blockVars)
  BY HistImplements DEF BlockStep
<1> QED
  BY <1>1, <1>2, HistInvariant, PTL DEF HSpec, Block!BlockSafety
=============================================================================
