-------------------------- MODULE HuffEngineProofs --------------------------
(* The two beats of the output skid are enough, for every job, whatever the  *)
(* streams, the sink and the aborts do.  SkidHolds is not inductive: that C1 *)
(* and the skid together hold at most two is, with the fact that no copy is  *)
(* ever resolved in bzip2 mode.  Sequences are described by their shape, so  *)
(* the proof needs no type of the symbols.                                   *)
EXTENDS HuffEngine, SequenceTheorems, TLAPS

None(s) == s = <<>>
One(s) == \E a : s = <<a>>
Two(s) == \E a, b : s = <<a, b>>

\* A slot for everything that is under way.
SkidInv ==
  /\ \/ None(c1) /\ (None(out) \/ One(out) \/ Two(out))
     \/ One(c1) /\ (None(out) \/ One(out))
  /\ Bzip2 => dfl.st = "IDLE"

\* What push_i and the pop make of a skid of these shapes (huff_out.sv).
LEMMA Shapes ==
  ASSUME NEW a, NEW b
  PROVE  /\ Len(<<>>) = 0 /\ Len(<<a>>) = 1 /\ Len(<<a, b>>) = 2
         /\ Tail(<<a>>) = <<>> /\ Tail(<<a, b>>) = <<b>>
         /\ <<>> \o <<>> = <<>> /\ <<>> \o <<a>> = <<a>> /\ <<a>> \o <<>> = <<a>>
         /\ <<a>> \o <<b>> = <<a, b>> /\ <<a, b>> \o <<>> = <<a, b>>
         /\ <<a>> # <<>> /\ <<a, b>> # <<>>
<1>1. <<>> \in Seq({a, b}) /\ <<a>> \in Seq({a, b}) /\ <<b>> \in Seq({a, b}) /\ <<a, b>> \in Seq({a, b})
  OBVIOUS
<1>2. Len(<<>>) = 0 /\ Len(<<a>>) = 1 /\ Len(<<a, b>>) = 2
  OBVIOUS
<1>3. Tail(<<a>>) = <<>> /\ Tail(<<a, b>>) = <<b>>
  BY <1>1, <1>2
<1>4. <<>> \o <<>> = <<>> /\ <<>> \o <<a>> = <<a>> /\ <<a>> \o <<>> = <<a>>
  BY <1>1, <1>2
<1>5. <<a>> \o <<b>> = <<a, b>>
  <2>1. <<a>> \o <<b>> \in Seq({a, b}) /\ Len(<<a>> \o <<b>>) = 2
    BY <1>1, <1>2, ConcatProperties
  <2>2. (<<a>> \o <<b>>)[1] = a /\ (<<a>> \o <<b>>)[2] = b
    BY <1>1, <1>2, ConcatProperties
  <2>3. Len(<<a>> \o <<b>>) = Len(<<a, b>>)
    BY <2>1, <1>2
  <2>4. \A i \in 1..Len(<<a>> \o <<b>>) : (<<a>> \o <<b>>)[i] = <<a, b>>[i]
    BY <2>1, <2>2
  <2>5. QED
    BY <2>1, <2>3, <2>4, <1>1, SeqEqual, Zenon
<1>6. <<a, b>> \o <<>> = <<a, b>>
  BY <1>1, <1>2
<1>7. <<a>> # <<>> /\ <<a, b>> # <<>>
  BY <1>2
<1>8. QED
  BY <1>2, <1>3, <1>4, <1>5, <1>6, <1>7

LEMMA Lengths ==
  ASSUME NEW s
  PROVE  (None(s) => Len(s) = 0) /\ (One(s) => Len(s) = 1) /\ (Two(s) => Len(s) = 2)
BY Shapes DEF None, One, Two

\* C2 pushes at most one beat, and without a symbol in C1 only the beat of a
\* copy, for which it has waited until the skid has a free slot.
LEMMA PushShape ==
  ASSUME SkidInv
  PROVE  /\ None(Pushed) \/ One(Pushed)
         /\ None(c1) /\ ~None(Pushed) => dfl.st = "EMIT" /\ (None(out) \/ One(out))
<1>1. None(Pushed) \/ One(Pushed)
  BY DEF Pushed, OneBeat, None, One
<1>2. ASSUME None(c1), ~None(Pushed) PROVE InState("EMIT")
  BY <1>2 DEF Pushed, None, Resolved
<1>3. ASSUME Two(out) PROVE Full
  BY <1>3, Shapes DEF Two, Full, Skid
<1>4. QED
  BY <1>1, <1>2, <1>3 DEF SkidInv, InState, One, None

LEMMA SkidInvHolds == SkidInv => SkidHolds
<1> DEFINE held == Len(out)
<1> DEFINE new == Len(Pushed)
<1> SUFFICES ASSUME SkidInv PROVE held + new <= 2
  BY DEF SkidHolds, Skid
<1> HIDE DEF held, new
<1>1. CASE None(Pushed)
  <2>1. new = 0
    BY <1>1, Lengths DEF new
  <2>2. held \in 0..2
    BY Lengths DEF SkidInv, held
  <2>3. QED
    BY <2>1, <2>2
<1>2. CASE ~None(Pushed)
  <2>1. None(out) \/ One(out)
    BY <1>2, PushShape DEF SkidInv
  <2>2. held \in 0..1
    BY <2>1, Lengths DEF held
  <2>3. new = 1
    BY <1>2, PushShape, Lengths DEF new
  <2>4. QED
    BY <2>2, <2>3
<1>3. QED
  BY <1>1, <1>2

\* The symbol that enters C1 passed the gates.
LEMMA IssuesWhenOpen ==
  ASSUME NEW h, NEW v, NEW take, C1After(v, Wires(h, v, take)) # <<>>
  PROVE  Open(take)
BY DEF C1After, Wires, Issues, Ends

LEMMA C1Shape ==
  ASSUME NEW v, NEW w
  PROVE  None(C1After(v, w)) \/ One(C1After(v, w))
BY DEF C1After, None, One

\* The clock edge.
LEMMA EdgeKeepsSkid ==
  ASSUME SkidInv, NEW h, NEW v, NEW take, take \in BOOLEAN, take => out # <<>>,
         Edge(h, v, Wires(h, v, take), take)
  PROVE  SkidInv'
<1> DEFINE kept == IF take THEN Tail(out) ELSE out
<1>1. c1' = C1After(v, Wires(h, v, take)) /\ out' = OutAfter(take) /\ dfl' = DeflateAfter /\ job' = job
  BY DEF Edge
<1>2. Bzip2' => dfl'.st = "IDLE"
  BY <1>1 DEF DeflateAfter, Bzip2, DeflateIdle
<1>3. CASE Flushing
  BY <1>1, <1>2, <1>3, Shapes DEF C1After, OutAfter, SkidInv, None
<1>4. CASE ~Flushing
  <2>1. out' = kept \o Pushed
    BY <1>1, <1>4 DEF OutAfter
  <2>2. None(c1') \/ One(c1')
    BY <1>1, C1Shape
  <2>3. CASE None(Pushed)
    <3>1. out' = kept
      BY <2>1, <2>3, Shapes DEF None, One, Two, SkidInv
    <3>2. CASE None(c1')
      <4>1. None(kept) \/ One(kept) \/ Two(kept)
        BY Shapes DEF None, One, Two, SkidInv
      <4>2. QED
        BY <4>1, <3>1, <3>2, <1>2 DEF SkidInv
    <3>3. CASE c1' # <<>>
      <4>1. Len(out) - Count(take) + Len(c1) < 2
        BY <3>3, <1>1, IssuesWhenOpen DEF Open, Room, Skid
      <4>2. None(kept) \/ One(kept)
        BY <4>1, Shapes DEF None, One, Two, SkidInv, Count
      <4>3. QED
        BY <4>2, <3>1, <3>3, <2>2, <1>2 DEF SkidInv, None
    <3>4. QED
      BY <3>2, <3>3 DEF None
  <2>4. CASE ~None(Pushed) /\ None(c1)
    <3>1. dfl.st = "EMIT" /\ (None(out) \/ One(out)) /\ One(Pushed)
      BY <2>4, PushShape
    <3>2. ~Open(take)
      BY <3>1 DEF SkidInv, Open, DflBusy, DistIssue, InState
    <3>3. None(c1')
      BY <3>2, <1>1, IssuesWhenOpen DEF None
    <3>4. None(kept) \/ One(kept)
      BY <3>1, Shapes DEF None, One
    <3>5. One(out') \/ Two(out')
      BY <3>1, <3>4, <2>1, Shapes DEF None, One, Two
    <3>6. QED
      BY <3>3, <3>5, <1>2 DEF SkidInv
  <2>5. CASE ~None(Pushed) /\ ~None(c1)
    <3>1. One(c1) /\ (None(out) \/ One(out)) /\ One(Pushed)
      BY <2>5, PushShape DEF SkidInv
    <3>2. None(kept) \/ One(kept)
      BY <3>1, Shapes DEF None, One
    <3>3. CASE None(c1')
      BY <3>1, <3>2, <3>3, <2>1, <1>2, Shapes DEF SkidInv, None, One, Two
    <3>4. CASE c1' # <<>>
      <4>1. Len(out) - Count(take) + Len(c1) < 2
        BY <3>4, <1>1, IssuesWhenOpen DEF Open, Room, Skid
      <4>2. None(kept)
        BY <4>1, <3>1, Shapes DEF None, One, Count
      <4>3. One(out')
        BY <4>2, <3>1, <2>1, Shapes DEF None, One
      <4>4. QED
        BY <4>3, <3>4, <2>2, <1>2 DEF SkidInv, None
    <3>5. QED
      BY <3>3, <3>4 DEF None
  <2>6. QED
    BY <2>3, <2>4, <2>5
<1>5. QED
  BY <1>3, <1>4

LEMMA SkidInductive == Init => SkidInv
BY DEF Init, SkidInv, None, DeflateIdle

LEMMA SkidStep == SkidInv /\ [Next]_vars => SkidInv'
<1> SUFFICES ASSUME SkidInv, [Next]_vars PROVE SkidInv'
  OBVIOUS
<1>1. ASSUME NEW j \in Jobs, Doorbell(j) PROVE SkidInv'
  BY <1>1 DEF Doorbell, SkidInv, None, DeflateIdle
<1>2. ASSUME NEW h \in Offered, Clock(h) PROVE SkidInv'
  <2>1. PICK v \in {View}, take \in {h.ready /\ out # <<>>} : Edge(h, v, Wires(h, v, take), take)
    BY <1>2 DEF Clock
  <2>2. take \in BOOLEAN /\ (take => out # <<>>)
    OBVIOUS
  <2>3. QED
    BY <2>1, <2>2, EdgeKeepsSkid
<1>3. CASE UNCHANGED vars
  BY <1>3 DEF vars, SkidInv, None, One, Two, Bzip2
<1>4. QED
  BY <1>1, <1>2, <1>3 DEF Next

\* No beat is pushed into a full skid: the assertion of huff_out.sv, for every job
\* and every behaviour of the streams and the sink (rule R1 of huffman_engine.sv).
THEOREM EngineSkid == Spec => []SkidHolds
<1>1. Init => SkidInv
  BY SkidInductive
<1>2. SkidInv /\ [Next]_vars => SkidInv'
  BY SkidStep
<1>3. SkidInv => SkidHolds
  BY SkidInvHolds
<1>4. QED
  BY <1>1, <1>2, <1>3, PTL DEF Spec

-----------------------------------------------------------------------------
(* An abort is prompt.  AbortIsPrompt is not inductive: in DRAIN the answer  *)
(* depends on what was handed over, so the invariant follows the beat with   *)
(* TLAST from C1 through the skid to the sink.                               *)

States == {"IDLE", "PREP", "DECODE", "DRAIN", "DONE", "ERR", "ABORT"}

ControlTypes ==
  /\ ctl \in [state : States, start : BOOLEAN, pend : BOOLEAN]
  /\ cnt.eobSent \in BOOLEAN /\ seen.asked \in BOOLEAN /\ seen.waited \in Nat

\* A skid without the last beat, and one that the last beat ends.
Plain(s) ==
  \/ None(s)
  \/ \E a : s = <<a>> /\ ~a.last
  \/ \E a, b : s = <<a, b>> /\ ~a.last /\ ~b.last
Ended(s) ==
  \/ \E a : s = <<a>> /\ a.last
  \/ \E a, b : s = <<a, b>> /\ ~a.last /\ b.last
IsEnd(s) == \E a : s = <<a>> /\ a.eob
NoEnd(s) == None(s) \/ \E a : s = <<a>> /\ ~a.eob

\* The end of block is in C1, then the last beat of the skid, then handed over;
\* nothing follows it.
EndInv ==
  /\ ctl.state \in {"PREP", "DECODE"} => Plain(out) /\ NoEnd(c1) /\ ~cnt.eobSent
  /\ ctl.state = "DRAIN" =>
       \/ Plain(out) /\ IsEnd(c1) /\ ~cnt.eobSent
       \/ Ended(out) /\ None(c1) /\ dfl.st = "IDLE" /\ ~cnt.eobSent
       \/ None(out) /\ None(c1) /\ dfl.st = "IDLE" /\ cnt.eobSent

\* A pending abort is met in DRAIN only when it came with the end of block.
AbortInv ==
  /\ ctl.pend => seen.asked
  /\ ~seen.asked => seen.waited = 0
  /\ ctl.state = "IDLE" => ~ctl.pend
  /\ ctl.state \in {"PREP", "DECODE"} => ~seen.asked
  /\ ctl.state = "DRAIN" /\ seen.asked => ctl.pend /\ seen.waited = 1 /\ ~cnt.eobSent
  /\ Busy => seen.waited <= 2

PromptInv == ControlTypes /\ SkidInv /\ EndInv /\ AbortInv

LEMMA LeastExists ==
  ASSUME NEW S, S \subseteq 1..7, S # {}
  PROVE  \E x \in S : \A y \in S : x <= y
<1>1. \A y \in S : y \in 1..7
  OBVIOUS
<1>2. CASE 1 \in S
  BY <1>1, <1>2
<1>3. CASE 2 \in S /\ 1 \notin S
  BY <1>1, <1>3
<1>4. CASE 3 \in S /\ 1 \notin S /\ 2 \notin S
  BY <1>1, <1>4
<1>5. CASE 4 \in S /\ 1 \notin S /\ 2 \notin S /\ 3 \notin S
  BY <1>1, <1>5
<1>6. CASE 1 \notin S /\ 2 \notin S /\ 3 \notin S /\ 4 \notin S
  <2>1. \A y \in S : y \in 5..7
    BY <1>1, <1>6
  <2>2. CASE 5 \in S
    BY <2>1, <2>2
  <2>3. CASE 6 \in S /\ 5 \notin S
    BY <2>1, <2>3
  <2>4. CASE 5 \notin S /\ 6 \notin S
    <3>1. \A y \in S : y = 7
      BY <2>1, <2>4
    <3>2. 7 \in S
      BY <3>1
    <3> QED
      BY <3>1, <3>2
  <2> QED
    BY <2>2, <2>3, <2>4
<1> QED
  BY <1>2, <1>3, <1>4, <1>5, <1>6

LEMMA MinFacts ==
  ASSUME NEW S, S \subseteq 1..7, S # {}
  PROVE  Min(S) \in S /\ \A y \in S : Min(S) <= y
BY LeastExists DEF Min

\* What the FSM makes of its events in each state.
LEMMA PrepEvent ==
  ASSUME NEW pend \in BOOLEAN
  PROVE  /\ First(InPrep(pend)) \in {"stay", "ETABLE", "EUNDER", "ABORTED", "DECODE"}
         /\ pend => First(InPrep(pend)) \in {"ETABLE", "EUNDER", "ABORTED"}
<1> DEFINE E == InPrep(pend)
           due == {i \in DOMAIN E : E[i][1]}
<1>1. DOMAIN E = 1..4
  BY DEF InPrep
<1>2. E[1][2] = "ETABLE" /\ E[2][2] = "EUNDER" /\ E[3][2] = "ABORTED" /\ E[4][2] = "DECODE"
  BY DEF InPrep
<1>3. E[3][1] = pend
  BY DEF InPrep
<1>4. First(E) = IF due = {} THEN "stay" ELSE E[Min(due)][2]
  BY DEF First
<1> HIDE DEF E
<1>5. due \subseteq 1..4 /\ (pend => 3 \in due)
  BY <1>1, <1>3
<1> HIDE DEF due
<1>6. due # {} => Min(due) \in 1..4 /\ (pend => Min(due) \in 1..3)
  <2> SUFFICES ASSUME due # {} PROVE Min(due) \in 1..4 /\ (pend => Min(due) \in 1..3)
    OBVIOUS
  <2>1. due \subseteq 1..7
    BY <1>5
  <2>2. Min(due) \in due /\ \A i \in due : Min(due) <= i
    BY <2>1, MinFacts
  <2>3. Min(due) \in 1..4
    BY <1>5, <2>2
  <2>4. pend => Min(due) <= 3
    BY <1>5, <2>2
  <2> DEFINE m == Min(due)
  <2> HIDE DEF m
  <2>5. m \in 1..4 /\ (pend => m <= 3)
    BY <2>3, <2>4 DEF m
  <2>6. m \in 1..4 /\ (pend => m \in 1..3)
    BY <2>5
  <2> QED
    BY <2>6 DEF m
<1> QED
  BY <1>2, <1>4, <1>5, <1>6 DEF E

LEMMA DecodeEvent ==
  ASSUME NEW pend \in BOOLEAN, NEW w, w.ends \in BOOLEAN
  PROVE  /\ First(InDecode(w, pend)) \in Errors \cup {"stay", "DRAIN", "ABORTED"}
         /\ w.ends <=> First(InDecode(w, pend)) = "DRAIN"
         /\ pend => First(InDecode(w, pend)) # "stay"
<1> DEFINE E == InDecode(w, pend)
           due == {i \in DOMAIN E : E[i][1]}
<1>1. DOMAIN E = 1..7
  BY DEF InDecode
<1>2. /\ E[1][2] = "DRAIN" /\ E[2][2] = "ENOCODE" /\ E[3][2] = "ESEL" /\ E[4][2] = "EUNDER"
      /\ E[5][2] = "ESYM" /\ E[6][2] = "ELIMIT" /\ E[7][2] = "ABORTED"
  BY DEF InDecode
<1>3. E[7][1] = pend /\ E[1][1] = w.ends
  BY DEF InDecode
<1>4. First(E) = IF due = {} THEN "stay" ELSE E[Min(due)][2]
  BY DEF First
<1> HIDE DEF E
<1>5. due \subseteq 1..7 /\ (pend => 7 \in due) /\ (w.ends <=> 1 \in due)
  BY <1>1, <1>3
<1> HIDE DEF due
<1>6. due # {} => Min(due) \in 1..7 /\ (w.ends <=> Min(due) = 1)
  <2> SUFFICES ASSUME due # {} PROVE Min(due) \in 1..7 /\ (w.ends <=> Min(due) = 1)
    OBVIOUS
  <2>1. Min(due) \in due /\ \A i \in due : Min(due) <= i
    BY <1>5, MinFacts
  <2>2. Min(due) \in 1..7
    BY <1>5, <2>1
  <2>3. w.ends => Min(due) <= 1
    BY <1>5, <2>1
  <2>4. ~w.ends => Min(due) # 1
    BY <1>5, <2>1
  <2> HIDE DEF due
  <2> DEFINE m == Min(due)
  <2> HIDE DEF m
  <2>5. m \in 1..7 /\ (w.ends => m <= 1) /\ (~w.ends => m # 1)
    BY <2>2, <2>3, <2>4 DEF m
  <2>6. m \in 1..7 /\ (w.ends <=> m = 1)
    BY <2>5
  <2> QED
    BY <2>6 DEF m
<1> QED
  BY <1>2, <1>4, <1>5, <1>6 DEF E, Errors

\* In DRAIN an abort is answered, if the skid is empty once the end was handed over.
LEMMA DrainEvent ==
  ASSUME NEW pend \in BOOLEAN
  PROVE  /\ First(InDrain(pend)) \in {"stay", "DONE", "ABORTED"}
         /\ pend /\ ~cnt.eobSent => First(InDrain(pend)) = "ABORTED"
         /\ pend /\ cnt.eobSent /\ out = <<>> => First(InDrain(pend)) = "DONE"
<1> DEFINE E == InDrain(pend)
           due == {i \in DOMAIN E : E[i][1]}
<1>1. DOMAIN E = 1..3
  BY DEF InDrain
<1>2. E[1][2] = "DONE" /\ E[2][2] = "ABORTED" /\ E[3][2] = "DONE"
  BY DEF InDrain
<1>3. /\ E[1][1] <=> pend /\ cnt.eobSent /\ out = <<>>
      /\ E[2][1] <=> pend /\ ~cnt.eobSent
      /\ E[3][1] => cnt.eobSent
  BY DEF InDrain
<1>4. First(E) = IF due = {} THEN "stay" ELSE E[Min(due)][2]
  BY DEF First
<1> HIDE DEF E
<1>5. /\ due \subseteq 1..3
      /\ 1 \in due <=> pend /\ cnt.eobSent /\ out = <<>>
      /\ 2 \in due <=> pend /\ ~cnt.eobSent
      /\ 3 \in due => cnt.eobSent
  BY <1>1, <1>3
<1> HIDE DEF due
<1>6. due # {} => Min(due) \in due /\ Min(due) \in 1..3 /\ \A i \in due : Min(due) <= i
  <2> SUFFICES ASSUME due # {}
               PROVE  Min(due) \in due /\ Min(due) \in 1..3 /\ \A i \in due : Min(due) <= i
    OBVIOUS
  <2>1. due \subseteq 1..7
    BY <1>5
  <2>2. Min(due) \in due /\ \A i \in due : Min(due) <= i
    BY <2>1, MinFacts
  <2> QED
    BY <1>5, <2>2
<1>7. pend /\ ~cnt.eobSent => Min(due) = 2 /\ due # {}
  BY <1>5, <1>6
<1> QED
  BY <1>2, <1>4, <1>5, <1>6, <1>7 DEF E

\* The FSM's next state (huff_ctrl.sv).
LEMMA StateAfter ==
  /\ StateOf("stay") = ctl.state
  /\ \A e \in Errors : StateOf(e) = "ERR"
  /\ StateOf("ABORTED") = "ABORT"
  /\ \A e \in {"IDLE", "DECODE", "DRAIN", "DONE"} : StateOf(e) = e
BY DEF StateOf, Errors

\* What leaves a skid.
LEMMA PlainHead ==
  ASSUME NEW s, Plain(s), s # <<>>
  PROVE  ~s[1].last /\ Plain(Tail(s))
<1>1. ASSUME NEW a, s = <<a>>, ~a.last
      PROVE  ~s[1].last /\ Plain(Tail(s))
  BY <1>1, Shapes DEF Plain, None
<1>2. ASSUME NEW a, NEW b, s = <<a, b>>, ~a.last, ~b.last
      PROVE  ~s[1].last /\ Plain(Tail(s))
  BY <1>2, Shapes DEF Plain
<1> QED
  BY <1>1, <1>2 DEF Plain, None

LEMMA EndedHead ==
  ASSUME NEW s, Ended(s)
  PROVE  /\ s # <<>>
         /\ s[1].last => Tail(s) = <<>>
         /\ ~s[1].last => Ended(Tail(s))
<1>1. ASSUME NEW a, s = <<a>>, a.last
      PROVE  s # <<>> /\ s[1].last /\ Tail(s) = <<>>
  BY <1>1, Shapes
<1>2. ASSUME NEW a, NEW b, s = <<a, b>>, ~a.last, b.last
      PROVE  s # <<>> /\ ~s[1].last /\ Ended(Tail(s))
  BY <1>2, Shapes DEF Ended
<1> QED
  BY <1>1, <1>2 DEF Ended

\* A beat joins a skid that has room.
LEMMA PlainPush ==
  ASSUME NEW s, Plain(s), None(s) \/ One(s), NEW a
  PROVE  /\ ~a.last => Plain(s \o <<a>>)
         /\ a.last => Ended(s \o <<a>>)
<1>1. CASE None(s)
  BY <1>1, Shapes DEF None, Plain, Ended
<1>2. ASSUME NEW b, s = <<b>>
      PROVE  (~a.last => Plain(s \o <<a>>)) /\ (a.last => Ended(s \o <<a>>))
  <2>1. ~b.last
    BY <1>2, PlainHead, Shapes
  <2>2. s \o <<a>> = <<b, a>>
    BY <1>2, Shapes
  <2> QED
    BY <2>1, <2>2 DEF Plain, Ended
<1> QED
  BY <1>1, <1>2 DEF One

\* What C2 pushes: the end of block is the last beat, every other beat is not.
LEMMA PushedLast ==
  /\ IsEnd(c1) => \E a : Pushed = <<a>> /\ a.last
  /\ NoEnd(c1) => Pushed = <<>> \/ \E a : Pushed = <<a>> /\ ~a.last
  /\ None(c1) /\ dfl.st = "IDLE" => Pushed = <<>>
<1>1. ASSUME IsEnd(c1) PROVE \E a : Pushed = <<a>> /\ a.last
  <2>1. PICK a : c1 = <<a>> /\ a.eob
    BY <1>1 DEF IsEnd
  <2>2. c1 # <<>> /\ c1[1].eob
    BY <2>1, Shapes
  <2> QED
    BY <2>2 DEF Pushed, OneBeat
<1>2. ASSUME NoEnd(c1) PROVE Pushed = <<>> \/ \E a : Pushed = <<a>> /\ ~a.last
  <2>1. ~(c1 # <<>> /\ c1[1].eob)
    BY <1>2, Shapes DEF NoEnd, None
  <2>2. Pushed = <<>> \/ \E d : Pushed = OneBeat(d, FALSE)
    BY <2>1 DEF Pushed
  <2>3. ASSUME NEW d, Pushed = OneBeat(d, FALSE) PROVE \E a : Pushed = <<a>> /\ ~a.last
    BY <2>3 DEF OneBeat
  <2> QED
    BY <2>2, <2>3
<1>3. ASSUME None(c1), dfl.st = "IDLE" PROVE Pushed = <<>>
  BY <1>3 DEF Pushed, None, Resolved, InState
<1> QED
  BY <1>1, <1>2, <1>3

\* The FSM's next event, in each state.
LEMMA EventFacts ==
  ASSUME PromptInv, Busy, NEW pend \in BOOLEAN, NEW w, w.ends \in BOOLEAN,
         w.ends => Decoding
  PROVE  /\ ctl.state = "PREP" =>
              /\ Decision(w, pend) \in {"stay", "ETABLE", "EUNDER", "ABORTED", "DECODE"}
              /\ pend => Decision(w, pend) \in {"ETABLE", "EUNDER", "ABORTED"}
         /\ ctl.state = "DECODE" =>
              /\ Decision(w, pend) \in Errors \cup {"stay", "DRAIN", "ABORTED"}
              /\ w.ends <=> Decision(w, pend) = "DRAIN"
              /\ pend => Decision(w, pend) # "stay"
         /\ ctl.state = "DRAIN" =>
              /\ Decision(w, pend) \in {"stay", "DONE", "ABORTED"}
              /\ pend => Decision(w, pend) = IF cnt.eobSent THEN "DONE" ELSE "ABORTED"
         /\ ctl.state \in {"DONE", "ERR", "ABORT"} => Decision(w, pend) = "IDLE"
<1>1. CASE ctl.state = "PREP"
  BY <1>1, PrepEvent DEF Decision, Decoding
<1>2. CASE ctl.state = "DECODE"
  BY <1>2, DecodeEvent DEF Decision, Decoding
<1>3. CASE ctl.state = "DRAIN"
  <2>1. cnt.eobSent => out = <<>>
    BY <1>3 DEF PromptInv, EndInv, None
  <2>2. cnt.eobSent \in BOOLEAN
    BY DEF PromptInv, ControlTypes
  <2> QED
    BY <1>3, <2>1, <2>2, DrainEvent DEF Decision, Decoding
<1>4. CASE ctl.state \in {"DONE", "ERR", "ABORT"}
  BY <1>4 DEF Decision, Decoding
<1> QED
  BY <1>1, <1>2, <1>3, <1>4

\* The edge, seen by the FSM alone.
LEMMA EdgeKeepsControl ==
  ASSUME PromptInv, Busy, NEW h, h.abort \in BOOLEAN, NEW w, w.ends \in BOOLEAN,
         w.ends => Decoding, NEW v, NEW take \in BOOLEAN, take => out # <<>>,
         Edge(h, v, w, take)
  PROVE  /\ ControlTypes' /\ AbortInv'
         /\ w.ends <=> ctl.state = "DECODE" /\ ctl'.state = "DRAIN"
         /\ ctl'.state = "PREP" => ctl.state = "PREP"
         /\ ctl'.state = "DECODE" => ctl.state \in {"PREP", "DECODE"}
         /\ ctl'.state = "DRAIN" => ctl.state \in {"DECODE", "DRAIN"}
         /\ cnt'.eobSent <=> cnt.eobSent \/ (take /\ out[1].last)
<1> DEFINE pend == ctl.pend \/ h.abort
           event == Decision(w, pend)
<1>1. /\ ctl' = [state |-> StateOf(event), start |-> event = "DECODE",
                 pend |-> pend /\ StateOf(event) \notin {"ABORT", "IDLE"}]
      /\ seen'.asked = (seen.asked \/ h.abort)
      /\ seen'.waited = seen.waited + Count(seen.asked \/ h.abort)
      /\ cnt'.eobSent = (cnt.eobSent \/ (take /\ out[1].last))
  BY DEF Edge, ControlAfter, SeenAfter, CountersAfter
<1>2. /\ pend \in BOOLEAN /\ ctl.pend \in BOOLEAN /\ cnt.eobSent \in BOOLEAN
      /\ seen.asked \in BOOLEAN /\ seen.waited \in Nat /\ ctl.state \in States
  BY DEF PromptInv, ControlTypes
<1>3. ctl.state \in States \ {"IDLE"} /\ seen.waited <= 2
  BY <1>2 DEF Busy, PromptInv, AbortInv
<1> HIDE DEF pend, event
<1>4. /\ seen'.asked \in BOOLEAN /\ seen'.waited \in Nat /\ cnt'.eobSent \in BOOLEAN
      /\ seen'.waited = IF seen'.asked THEN seen.waited + 1 ELSE seen.waited
  BY <1>1, <1>2 DEF Count
<1>5. pend => seen'.asked
  BY <1>1 DEF PromptInv, AbortInv, pend
<1>6. /\ ctl'.state = StateOf(event)
      /\ ctl'.pend <=> pend /\ StateOf(event) \notin {"ABORT", "IDLE"}
      /\ StateOf(event) \in States => ctl' \in [state : States, start : BOOLEAN, pend : BOOLEAN]
  BY <1>1, <1>2
<1>7. seen'.asked /\ ~seen.asked => pend
  BY <1>1 DEF pend
<1>8. seen'.waited <= 2 /\ ctl'.state # "DRAIN" /\ ctl'.state \in States
        /\ (ctl'.state \in {"PREP", "DECODE"} => ~seen'.asked)
        => ControlTypes' /\ AbortInv'
  <2> SUFFICES ASSUME seen'.waited <= 2, ctl'.state # "DRAIN", ctl'.state \in States,
                      ctl'.state \in {"PREP", "DECODE"} => ~seen'.asked
               PROVE  ControlTypes' /\ AbortInv'
    OBVIOUS
  <2>1. ControlTypes'
    BY <1>4, <1>6 DEF ControlTypes
  <2>2. ~seen.asked => seen.waited = 0
    BY DEF PromptInv, AbortInv
  <2>3. seen.asked => seen'.asked
    BY <1>1
  <2> QED
    BY <2>1, <2>2, <2>3, <1>4, <1>5, <1>6 DEF AbortInv
<1>9. CASE ctl.state = "PREP"
  <2>1. ~seen.asked /\ seen.waited = 0
    BY <1>9 DEF PromptInv, AbortInv
  <2>2. /\ event \in {"stay", "ETABLE", "EUNDER", "ABORTED", "DECODE"}
        /\ pend => event \in {"ETABLE", "EUNDER", "ABORTED"}
    BY <1>9, <1>2, EventFacts DEF event
  <2>3. /\ ctl'.state \in {"PREP", "DECODE", "ERR", "ABORT"}
        /\ pend => ctl'.state \in {"ERR", "ABORT"}
    BY <1>6, <1>9, <2>2, StateAfter DEF Errors
  <2>4. seen'.waited <= 2
    BY <1>4, <2>1
  <2> QED
    BY <1>1, <1>7, <1>8, <1>9, <2>1, <2>3, <2>4 DEF States, Decoding
<1>10. CASE ctl.state = "DECODE"
  <2>1. ~seen.asked /\ seen.waited = 0 /\ ~cnt.eobSent /\ Plain(out)
    BY <1>10 DEF PromptInv, AbortInv, EndInv
  <2>2. /\ event \in Errors \cup {"stay", "DRAIN", "ABORTED"}
        /\ w.ends <=> event = "DRAIN"
        /\ pend => event # "stay"
    BY <1>10, <1>2, EventFacts DEF event
  <2>3. /\ ctl'.state \in {"DECODE", "DRAIN", "ERR", "ABORT"}
        /\ ctl'.state = "DRAIN" <=> w.ends
        /\ pend => ctl'.state # "DECODE"
    BY <1>6, <1>10, <2>2, StateAfter DEF Errors
  <2>4. seen'.waited <= 1
    BY <1>4, <2>1
  <2>5. CASE ctl'.state # "DRAIN"
    BY <1>1, <1>4, <1>7, <1>8, <1>10, <2>1, <2>3, <2>4, <2>5 DEF States
  <2>6. CASE ctl'.state = "DRAIN"
    <3>1. ~cnt'.eobSent
      BY <1>1, <2>1, PlainHead
    <3>2. ControlTypes'
      BY <1>4, <1>6, <2>6 DEF ControlTypes, States
    <3>3. AbortInv'
      BY <1>4, <1>5, <1>6, <1>7, <2>1, <2>6, <3>1 DEF AbortInv
    <3> QED
      BY <1>1, <1>10, <2>3, <2>6, <3>2, <3>3
  <2> QED
    BY <2>5, <2>6
<1>11. CASE ctl.state = "DRAIN"
  <2>1. /\ event \in {"stay", "DONE", "ABORTED"}
        /\ pend => event = IF cnt.eobSent THEN "DONE" ELSE "ABORTED"
    BY <1>11, <1>2, EventFacts DEF event
  <2>2. /\ ctl'.state \in {"DRAIN", "DONE", "ABORT"}
        /\ pend => ctl'.state # "DRAIN"
    BY <1>6, <1>11, <2>1, StateAfter
  <2>3. seen.asked => pend /\ seen.waited = 1
    BY <1>11 DEF PromptInv, AbortInv, pend
  <2>4. ~seen.asked => seen.waited = 0
    BY DEF PromptInv, AbortInv
  <2>5. seen'.waited <= 2
    BY <1>4, <2>3, <2>4
  <2>6. CASE ctl'.state # "DRAIN"
    BY <1>1, <1>8, <1>11, <2>2, <2>5, <2>6 DEF States, Decoding
  <2>7. CASE ctl'.state = "DRAIN"
    <3>1. ~pend /\ ~seen.asked /\ ~seen'.asked
      BY <2>2, <2>3, <2>7, <1>7
    <3>2. seen'.waited = 0
      BY <3>1, <2>4, <1>4
    <3>3. ControlTypes'
      BY <1>4, <1>6, <2>7 DEF ControlTypes, States
    <3>4. AbortInv'
      BY <1>6, <2>7, <3>1, <3>2 DEF AbortInv
    <3> QED
      BY <1>1, <1>11, <2>7, <3>3, <3>4 DEF Decoding
  <2> QED
    BY <2>6, <2>7
<1>12. CASE ctl.state \in {"DONE", "ERR", "ABORT"}
  <2>1. event = "IDLE"
    BY <1>12, <1>2, EventFacts DEF event
  <2>2. ctl'.state = "IDLE" /\ ~ctl'.pend
    BY <1>6, <2>1, StateAfter
  <2>3. ControlTypes'
    BY <1>4, <1>6, <2>2 DEF ControlTypes, States
  <2>4. ~seen'.asked => seen'.waited = 0
    BY <1>1, <1>4 DEF PromptInv, AbortInv
  <2>5. AbortInv'
    BY <2>2, <2>4 DEF AbortInv, Busy
  <2> QED
    BY <1>1, <1>12, <2>2, <2>3, <2>5 DEF Decoding
<1> QED
  BY <1>3, <1>9, <1>10, <1>11, <1>12 DEF States

\* The edge, seen by the beats.
LEMMA EdgeKeepsEnd ==
  ASSUME PromptInv, Busy, NEW h, h.abort \in BOOLEAN, NEW v, NEW take, take \in BOOLEAN,
         take => out # <<>>, Edge(h, v, Wires(h, v, take), take)
  PROVE  PromptInv'
<1> DEFINE w == Wires(h, v, take)
           kept == IF take THEN Tail(out) ELSE out
<1>1. w.ends \in BOOLEAN /\ w.issue \in BOOLEAN /\ (w.ends \/ w.issue => Open(take))
  BY DEF Wires, Ends, Issues
<1>2. w.ends \/ w.issue => Decoding
  BY <1>1 DEF Open
<1>3. /\ c1' = C1After(v, w) /\ out' = OutAfter(take) /\ dfl' = DeflateAfter
  BY DEF Edge
<1> HIDE DEF w
<1>4. SkidInv'
  BY EdgeKeepsSkid DEF PromptInv
<1>5. Edge(h, v, w, take)
  BY DEF w
<1>6. /\ ControlTypes' /\ AbortInv'
      /\ w.ends <=> ctl.state = "DECODE" /\ ctl'.state = "DRAIN"
      /\ ctl'.state = "PREP" => ctl.state = "PREP"
      /\ ctl'.state = "DECODE" => ctl.state \in {"PREP", "DECODE"}
      /\ ctl'.state = "DRAIN" => ctl.state \in {"DECODE", "DRAIN"}
      /\ cnt'.eobSent <=> cnt.eobSent \/ (take /\ out[1].last)
  BY <1>1, <1>2, <1>5, EdgeKeepsControl
<1>7. CASE ctl'.state \notin {"PREP", "DECODE", "DRAIN"}
  BY <1>4, <1>6, <1>7 DEF PromptInv, EndInv
<1>8. CASE ctl'.state \in {"PREP", "DECODE", "DRAIN"} /\ ctl.state \in {"PREP", "DECODE"}
  <2>1. Plain(out) /\ NoEnd(c1) /\ ~cnt.eobSent /\ ~Flushing
    BY <1>8 DEF PromptInv, EndInv, Flushing
  <2>2. out' = kept \o Pushed
    BY <1>3, <2>1 DEF OutAfter
  <2>3. ~cnt'.eobSent /\ Plain(kept)
    BY <1>6, <2>1, PlainHead
  <2>4. Plain(out')
    <3>1. CASE Pushed = <<>>
      <4>1. kept \o <<>> = kept
        BY <2>3, Shapes DEF Plain, None
      <4> QED
        BY <2>2, <2>3, <3>1, <4>1
    <3>2. ASSUME NEW a, Pushed = <<a>>, ~a.last PROVE Plain(out')
      <4>1. ~None(Pushed)
        BY <3>2, Shapes DEF None
      <4>2. None(out) \/ One(out)
        BY <4>1, PushShape DEF PromptInv, SkidInv
      <4>3. None(kept) \/ One(kept)
        BY <4>2, Shapes DEF None, One
      <4> QED
        BY <2>2, <2>3, <3>2, <4>3, PlainPush
    <3> QED
      BY <2>1, <3>1, <3>2, PushedLast
  <2>5. CASE ctl'.state = "DRAIN"
    <3>1. w.ends
      BY <1>6, <1>8, <2>5
    <3>2. IsEnd(c1')
      BY <1>3, <2>1, <3>1 DEF C1After, IsEnd
    <3> QED
      BY <1>4, <1>6, <2>3, <2>4, <2>5, <3>2 DEF PromptInv, EndInv
  <2>6. CASE ctl'.state # "DRAIN"
    <3>1. ~w.ends
      BY <1>6, <2>6
    <3>2. NoEnd(c1')
      BY <1>1, <1>3, <3>1 DEF C1After, NoEnd, None
    <3> QED
      BY <1>4, <1>6, <2>3, <2>4, <2>6, <3>2 DEF PromptInv, EndInv
  <2> QED
    BY <2>5, <2>6
<1>9. CASE ctl'.state = "DRAIN" /\ ctl.state = "DRAIN"
  <2>1. ~Flushing /\ ~Decoding
    BY <1>9 DEF Flushing, Decoding
  <2>2. out' = kept \o Pushed /\ None(c1') /\ dfl'.st = "IDLE"
    BY <1>2, <1>3, <2>1 DEF OutAfter, C1After, None, DeflateAfter, DeflateIdle
  <2>3. CASE Plain(out) /\ IsEnd(c1) /\ ~cnt.eobSent
    <3>1. ~cnt'.eobSent /\ Plain(kept)
      BY <1>6, <2>3, PlainHead
    <3>2. PICK a : Pushed = <<a>> /\ a.last
      BY <2>3, PushedLast
    <3>3. ~None(Pushed)
      BY <3>2, Shapes DEF None
    <3>4. None(out) \/ One(out)
      BY <3>3, PushShape DEF PromptInv, SkidInv
    <3>5. None(kept) \/ One(kept)
      BY <3>4, Shapes DEF None, One
    <3>6. Ended(out')
      BY <2>2, <3>1, <3>2, <3>5, PlainPush
    <3> QED
      BY <1>4, <1>6, <1>9, <2>2, <3>1, <3>6 DEF PromptInv, EndInv
  <2>4. CASE Ended(out) /\ None(c1) /\ dfl.st = "IDLE" /\ ~cnt.eobSent
    <3>1. Pushed = <<>>
      BY <2>4, PushedLast
    <3>2. kept \o <<>> = kept
      BY Shapes DEF PromptInv, SkidInv, None, One, Two
    <3>3. CASE take /\ out[1].last
      <4>1. None(out')
        BY <2>2, <2>4, <3>1, <3>2, <3>3, EndedHead DEF None
      <4> QED
        BY <1>4, <1>6, <1>9, <2>2, <3>3, <4>1 DEF PromptInv, EndInv
    <3>4. CASE ~(take /\ out[1].last)
      <4>1. Ended(out')
        BY <2>2, <2>4, <3>1, <3>2, <3>4, EndedHead
      <4> QED
        BY <1>4, <1>6, <1>9, <2>2, <2>4, <3>4, <4>1 DEF PromptInv, EndInv
    <3> QED
      BY <3>3, <3>4
  <2>5. CASE None(out) /\ None(c1) /\ dfl.st = "IDLE" /\ cnt.eobSent
    <3>1. Pushed = <<>> /\ ~take
      BY <2>5, PushedLast DEF None
    <3>2. None(out')
      BY <2>2, <2>5, <3>1, Shapes DEF None
    <3> QED
      BY <1>4, <1>6, <1>9, <2>2, <2>5, <3>2 DEF PromptInv, EndInv
  <2> QED
    BY <1>9, <2>3, <2>4, <2>5 DEF PromptInv, EndInv
<1> QED
  BY <1>6, <1>7, <1>8, <1>9

LEMMA PromptInit == Init => PromptInv
<1> SUFFICES ASSUME Init PROVE PromptInv
  OBVIOUS
<1>1. SkidInv
  BY SkidInductive
<1>2. ControlTypes /\ AbortInv /\ EndInv
  BY DEF Init, ControlTypes, States, AbortInv, EndInv, Busy
<1> QED
  BY <1>1, <1>2 DEF PromptInv

LEMMA PromptStep == PromptInv /\ [Next]_vars => PromptInv'
<1> SUFFICES ASSUME PromptInv, [Next]_vars PROVE PromptInv'
  OBVIOUS
<1>1. ASSUME NEW j \in Jobs, Doorbell(j) PROVE PromptInv'
  <2>1. SkidInv'
    BY <1>1, SkidStep DEF Next, PromptInv
  <2>2. ctl' = [ctl EXCEPT !.state = "PREP"] /\ ctl.state = "IDLE"
    BY <1>1 DEF Doorbell, Busy
  <2>3. ctl'.state = "PREP" /\ ctl'.pend = ctl.pend /\ ~ctl.pend
        /\ ctl' \in [state : States, start : BOOLEAN, pend : BOOLEAN]
    BY <2>2 DEF PromptInv, ControlTypes, AbortInv, States
  <2>4. ~cnt'.eobSent /\ cnt'.eobSent \in BOOLEAN /\ ~seen'.asked /\ seen'.asked \in BOOLEAN
        /\ seen'.waited = 0 /\ out' = <<>> /\ c1' = <<>>
    BY <1>1 DEF Doorbell
  <2>5. ControlTypes' /\ AbortInv'
    BY <2>3, <2>4 DEF ControlTypes, AbortInv, Busy
  <2>6. EndInv'
    BY <2>3, <2>4 DEF EndInv, Plain, None, NoEnd
  <2> QED
    BY <2>1, <2>5, <2>6 DEF PromptInv
<1>2. ASSUME NEW h \in Offered, Clock(h) PROVE PromptInv'
  <2>1. Busy
    BY <1>2 DEF Clock
  <2>2. h.abort \in BOOLEAN
    BY DEF Offered
  <2>3. PICK v \in {View}, take \in {h.ready /\ out # <<>>} : Edge(h, v, Wires(h, v, take), take)
    BY <1>2 DEF Clock
  <2>4. Edge(h, v, Wires(h, v, take), take)
    BY <2>3
  <2>5. take \in BOOLEAN
    OBVIOUS
  <2>6. take => out # <<>>
    OBVIOUS
  <2>7. ASSUME NEW i, NEW view, NEW t, t \in BOOLEAN, t => out # <<>>, i.abort \in BOOLEAN,
               Edge(i, view, Wires(i, view, t), t)
        PROVE  PromptInv'
    BY <2>1, <2>7, EdgeKeepsEnd
  <2> QED
    BY <2>2, <2>4, <2>5, <2>6, <2>7
<1>3. CASE UNCHANGED vars
  <2>1. SkidInv'
    BY SkidStep DEF PromptInv
  <2>2. ControlTypes' /\ AbortInv' /\ EndInv'
    BY <1>3 DEF vars, PromptInv, ControlTypes, EndInv, AbortInv, Busy
  <2> QED
    BY <2>1, <2>2 DEF PromptInv
<1> QED
  BY <1>1, <1>2, <1>3 DEF Next

\* An abort is answered within three cycles in every state of the FSM, for every
\* job and every behaviour of the streams and the sink (huff_ctrl.sv): a sink that
\* never takes a beat, or selectors that never come, do not hold it up.
THEOREM EngineAbort == Spec => []AbortIsPrompt
<1>1. PromptInv => AbortIsPrompt
  BY DEF PromptInv, AbortInv, AbortIsPrompt
<1> QED
  BY <1>1, PromptInit, PromptStep, PTL DEF Spec
=============================================================================
