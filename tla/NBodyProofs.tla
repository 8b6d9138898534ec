----------------------------- MODULE NBodyProofs -----------------------------
(* The nbody benchmark, for every number of bodies, body table, unrolling    *)
(* limit and sequence of calls: both back ends follow the stock program to   *)
(* the bit, and the tiers keep their contract.  Every integrator is shown to *)
(* be the same rounds over the pairs of one system (Rounds): a list of       *)
(* bodies, arrays, unpacked pairs and a generated program are images of the  *)
(* system, and an image of it goes where it goes.                            *)
EXTENDS NBody, FiniteSetTheorems, SequenceTheorems, WellFoundedInduction, TLAPS

\* What holds of 0 and goes on by one holds of every number up to k.
LEMMA GoesOn ==
  ASSUME NEW k \in Nat, NEW Good, 0 \in Good, \A i \in 1..k : i - 1 \in Good => i \in Good
  PROVE  k \in Good
<1>. DEFINE Bad == {i \in 0..k : i \notin Good}
<1> SUFFICES ASSUME Bad # {} PROVE FALSE
  OBVIOUS
<1>1. PICK i \in Bad : \A j \in Bad : ~ (<<j, i>> \in OpToRel(<, Nat))
  <2>1. Bad \subseteq Nat
    OBVIOUS
  <2> HIDE DEF Bad
  <2> QED
    BY <2>1, WFMin, NatLessThanWellFounded
<1>2. i \in 1..k /\ i - 1 \in 0..k /\ i - 1 \in Nat /\ i \in Nat /\ i - 1 < i
  OBVIOUS
<1>3. <<i - 1, i>> \in OpToRel(<, Nat)
  BY <1>2 DEF OpToRel
<1> QED
  BY <1>1, <1>2, <1>3

-----------------------------------------------------------------------------
(* A float, a vector, a body.                                                *)

Routes == {"pow", "sqrt", "reciprocal"}

LEMMA FloatOps ==
  \A a, b \in Float :
    /\ FAdd(a, b) \in Float /\ FSub(a, b) \in Float /\ FMul(a, b) \in Float /\ FDiv(a, b) \in Float
    /\ Pow15(a) \in Float /\ Sqrt(a) \in Float
<1>1. ASSUME NEW a \in Float, NEW b \in Float
      PROVE  /\ FAdd(a, b) \in Float /\ FMul(a, b) \in Float /\ FDiv(a, b) \in Float
             /\ Pow15(a) \in Float /\ Sqrt(a) \in Float
  <2>1. a \in Nat /\ b \in Nat
    BY DEF Float, P
  <2>2. a * b \in Nat /\ a * a \in Nat /\ 5 * a * a \in Nat /\ 7 * a * a \in Nat
    BY <2>1
  <2>3. (a * b) \div 7 \in Nat /\ (a + b) \div 5 \in Nat
    BY <2>1, <2>2
  <2>4. a * (3 * b + 2) \in Nat
    BY <2>1
  <2>5. \A x \in Nat : x % P \in Float
    BY DEF Float, P
  <2> QED
    BY <2>1, <2>2, <2>3, <2>4, <2>5 DEF FAdd, FMul, FDiv, Pow15, Sqrt
<1>2. ASSUME NEW a \in Float, NEW b \in Float PROVE FSub(a, b) \in Float
  <2>1. (P - b) % P \in Float
    BY DEF Float, P
  <2> QED
    BY <1>1, <2>1 DEF FSub
<1> QED
  BY <1>1, <1>2

LEMMA VecAdd == \A a, b \in Vec : VAdd(a, b) \in Vec /\ VSub(a, b) \in Vec
<1> SUFFICES ASSUME NEW a \in Vec, NEW b \in Vec PROVE VAdd(a, b) \in Vec /\ VSub(a, b) \in Vec
  OBVIOUS
<1>1. /\ a[1] \in Float /\ a[2] \in Float /\ a[3] \in Float
      /\ b[1] \in Float /\ b[2] \in Float /\ b[3] \in Float
  BY DEF Vec
<1> QED
  BY <1>1, FloatOps DEF VAdd, VSub, Vec

LEMMA VecTimes ==
  \A a \in Vec, x \in Float : VMul(a, x) \in Vec /\ VScale(x, a) \in Vec /\ VDiv(a, x) \in Vec
<1> SUFFICES ASSUME NEW a \in Vec, NEW x \in Float
             PROVE  VMul(a, x) \in Vec /\ VScale(x, a) \in Vec /\ VDiv(a, x) \in Vec
  OBVIOUS
<1>1. a[1] \in Float /\ a[2] \in Float /\ a[3] \in Float
  BY DEF Vec
<1> QED
  BY <1>1, FloatOps DEF VMul, VScale, VDiv, Vec

LEMMA DotType == \A a \in Vec : Dot(a) \in Float
<1> SUFFICES ASSUME NEW a \in Vec PROVE Dot(a) \in Float
  OBVIOUS
<1>1. a[1] \in Float /\ a[2] \in Float /\ a[3] \in Float
  BY DEF Vec
<1> QED
  BY <1>1, FloatOps DEF Dot

LEMMA MagType == \A route \in Routes, x, y \in Float : Mag(route, x, y) \in Float
<1> SUFFICES ASSUME NEW route \in Routes, NEW x \in Float, NEW y \in Float
             PROVE  Mag(route, x, y) \in Float
  OBVIOUS
<1>1. 1 \in Float
  BY DEF Float, P
<1>2. PowMag(x, y) \in Float
  BY FloatOps DEF PowMag
<1>3. SqrtMag(x, y) \in Float
  BY FloatOps DEF SqrtMag
<1>4. EmulatedMag(x, y) \in Float
  BY <1>1, FloatOps DEF EmulatedMag
<1> QED
  BY <1>2, <1>3, <1>4 DEF Mag, Routes

-----------------------------------------------------------------------------
(* A system: its bodies have the masses of a list.  Pairs of its bodies.     *)

Masses == Seq(Float)
Systems(mass) ==
  {bs \in [1..Len(mass) -> BodyState] : \A k \in 1..Len(mass) : bs[k].m = mass[k]}
PairsOf(mass) == {p \in (1..Len(mass)) \X (1..Len(mass)) : p[1] # p[2]}

LEMMA DtFloat == dt \in Float
  BY DEF dt, Float, P

LEMMA MassList ==
  \A mass \in Masses : Len(mass) \in Nat /\ \A k \in 1..Len(mass) : mass[k] \in Float
  BY DEF Masses

LEMMA SystemIs ==
  ASSUME NEW mass \in Masses, NEW bs \in Systems(mass)
  PROVE  /\ bs \in Seq(BodyState) /\ Len(bs) = Len(mass) /\ DOMAIN bs = 1..Len(mass)
         /\ \A k \in 1..Len(mass) : /\ bs[k] \in BodyState /\ bs[k].r \in Vec /\ bs[k].v \in Vec
                                    /\ bs[k].m = mass[k] /\ bs[k].m \in Float
                                    /\ bs[k] = [r |-> bs[k].r, v |-> bs[k].v, m |-> mass[k]]
<1>1. Len(mass) \in Nat
  BY MassList
<1>2. bs \in [1..Len(mass) -> BodyState] /\ \A k \in 1..Len(mass) : bs[k].m = mass[k]
  BY DEF Systems
<1>3. bs \in Seq(BodyState) /\ Len(bs) = Len(mass) /\ DOMAIN bs = 1..Len(mass)
  BY <1>1, <1>2
<1> QED
  BY <1>2, <1>3 DEF BodyState

LEMMA BodyIs ==
  ASSUME NEW mass \in Masses, NEW bs \in Systems(mass), NEW k \in 1..Len(mass)
  PROVE  bs[k] \in BodyState /\ bs[k].m = mass[k]
  BY DEF Systems

LEMMA PairIs ==
  ASSUME NEW mass \in Masses, NEW p \in PairsOf(mass)
  PROVE  p[1] \in 1..Len(mass) /\ p[2] \in 1..Len(mass) /\ p[1] # p[2]
  BY DEF PairsOf

-----------------------------------------------------------------------------
(* One pair.                                                                 *)

\* The two velocities behind the impulse of a pair.
Forces(bs, p, route) ==
  LET i == p[1]
      j == p[2]
      d == VSub(bs[i].r, bs[j].r)
      mag == Mag(route, dt, Dot(d))
  IN  <<VSub(bs[i].v, VMul(d, FMul(bs[j].m, mag))), VAdd(bs[j].v, VMul(d, FMul(bs[i].m, mag)))>>

\* A system with new velocities for two bodies.
Kicked(bs, i, j, a, c) == [bs EXCEPT ![i].v = a, ![j].v = c]

LEMMA ForceType ==
  ASSUME NEW mass \in Masses, NEW bs \in Systems(mass), NEW p \in PairsOf(mass), NEW route \in Routes
  PROVE  Forces(bs, p, route)[1] \in Vec /\ Forces(bs, p, route)[2] \in Vec
<1>. DEFINE d == VSub(bs[p[1]].r, bs[p[2]].r)
            mag == Mag(route, dt, Dot(d))
<1>1. /\ bs[p[1]].r \in Vec /\ bs[p[1]].v \in Vec /\ bs[p[1]].m \in Float
      /\ bs[p[2]].r \in Vec /\ bs[p[2]].v \in Vec /\ bs[p[2]].m \in Float
  BY SystemIs, PairIs
<1>2. d \in Vec
  BY <1>1, VecAdd
<1>3. mag \in Float
  BY <1>2, DotType, MagType, DtFloat
<1>4. FMul(bs[p[2]].m, mag) \in Float /\ FMul(bs[p[1]].m, mag) \in Float
  BY <1>1, <1>3, FloatOps
<1>5. VMul(d, FMul(bs[p[2]].m, mag)) \in Vec /\ VMul(d, FMul(bs[p[1]].m, mag)) \in Vec
  BY <1>2, <1>4, VecTimes
<1>6. /\ VSub(bs[p[1]].v, VMul(d, FMul(bs[p[2]].m, mag))) \in Vec
      /\ VAdd(bs[p[2]].v, VMul(d, FMul(bs[p[1]].m, mag))) \in Vec
  BY <1>1, <1>5, VecAdd
<1> QED
  BY <1>6 DEF Forces

LEMMA ImpulseIs ==
  ASSUME NEW mass \in Masses, NEW bs \in Systems(mass), NEW p \in PairsOf(mass), NEW route \in Routes
  PROVE  /\ Impulse(bs, p, route, dt) =
              Kicked(bs, p[1], p[2], Forces(bs, p, route)[1], Forces(bs, p, route)[2])
         /\ Impulse(bs, p, route, dt) \in Systems(mass)
<1>1. p[1] \in DOMAIN bs /\ p[2] \in DOMAIN bs /\ p[1] # p[2]
  BY SystemIs, PairIs
<1>2. Impulse(bs, p, route, dt) =
        Kicked(bs, p[1], p[2], Forces(bs, p, route)[1], Forces(bs, p, route)[2])
  <2>. DEFINE i == p[1]
              j == p[2]
              d == VSub(bs[i].r, bs[j].r)
              mag == Mag(route, dt, Dot(d))
              x == VMul(d, FMul(bs[j].m, mag))
              y == VMul(d, FMul(bs[i].m, mag))
              first == [bs EXCEPT ![i].v = VSub(@, x)]
  <2>1. Impulse(bs, p, route, dt) = [first EXCEPT ![j].v = VAdd(@, y)]
    BY DEF Impulse
  <2>2. first[j].v = bs[j].v
    BY <1>1
  <2>3. Forces(bs, p, route)[1] = VSub(bs[i].v, x) /\ Forces(bs, p, route)[2] = VAdd(bs[j].v, y)
    BY DEF Forces
  <2>4. [first EXCEPT ![j].v = VAdd(@, y)] = [first EXCEPT ![j].v = VAdd(bs[j].v, y)]
    <3> HIDE DEF first, i, j, x, y
    <3> QED
      BY <2>2
  <2> HIDE DEF x, y
  <2>5. [first EXCEPT ![j].v = VAdd(bs[j].v, y)] = [bs EXCEPT ![i].v = VSub(bs[i].v, x), ![j].v = VAdd(bs[j].v, y)]
    OBVIOUS
  <2> HIDE DEF first
  <2> QED
    BY <2>1, <2>3, <2>4, <2>5 DEF Kicked
<1>. DEFINE a == Forces(bs, p, route)[1]
            c == Forces(bs, p, route)[2]
<1>3. a \in Vec /\ c \in Vec
  BY ForceType
<1> HIDE DEF a, c
<1>4. bs \in [1..Len(mass) -> BodyState] /\ \A k \in 1..Len(mass) : bs[k].m = mass[k]
  BY DEF Systems
<1>5. Kicked(bs, p[1], p[2], a, c) \in Systems(mass)
  <2>. DEFINE i == p[1]
              j == p[2]
              new == Kicked(bs, i, j, a, c)
  <2>1. i \in 1..Len(mass) /\ j \in 1..Len(mass) /\ i # j
    BY PairIs
  <2> HIDE DEF i, j
  <2>2. DOMAIN new = 1..Len(mass) /\ new = [k \in 1..Len(mass) |-> new[k]]
    BY <1>4 DEF Kicked
  <2>3. new[i] = [bs[i] EXCEPT !.v = a] /\ new[j] = [bs[j] EXCEPT !.v = c]
    BY <1>4, <2>1 DEF Kicked
  <2>4. \A k \in 1..Len(mass) : k # i /\ k # j => new[k] = bs[k]
    BY <1>4, <2>1 DEF Kicked
  <2>5. \A b \in BodyState, u \in Vec : [b EXCEPT !.v = u] \in BodyState /\ [b EXCEPT !.v = u].m = b.m
    BY DEF BodyState
  <2> HIDE DEF new
  <2>6. \A k \in 1..Len(mass) : new[k] \in BodyState /\ new[k].m = mass[k]
    <3> TAKE k \in 1..Len(mass)
    <3>4. bs[k] \in BodyState /\ bs[k].m = mass[k]
      BY BodyIs
    <3>1. CASE k = i
      <4>1. new[k] = [bs[k] EXCEPT !.v = a]
        BY <2>3, <3>1
      <4> QED
        BY <1>3, <2>5, <3>4, <4>1
    <3>2. CASE k = j
      <4>1. new[k] = [bs[k] EXCEPT !.v = c]
        BY <2>3, <3>2
      <4> QED
        BY <1>3, <2>5, <3>4, <4>1
    <3>3. CASE k # i /\ k # j
      BY <1>4, <2>4, <3>3
    <3> QED
      BY <3>1, <3>2, <3>3
  <2> QED
    BY <2>2, <2>6 DEF Systems, new, i, j
<1> QED
  BY <1>2, <1>5 DEF a, c

LEMMA MovesIs ==
  ASSUME NEW mass \in Masses, NEW bs \in Systems(mass)
  PROVE  /\ Moves(bs, dt) = [k \in 1..Len(mass) |->
                               [bs[k] EXCEPT !.r = VAdd(bs[k].r, VScale(dt, bs[k].v))]]
         /\ Moves(bs, dt) \in Systems(mass)
<1>1. Moves(bs, dt) = [k \in 1..Len(mass) |-> [bs[k] EXCEPT !.r = VAdd(bs[k].r, VScale(dt, bs[k].v))]]
  BY SystemIs DEF Moves
<1>2. ASSUME NEW k \in 1..Len(mass)
      PROVE  /\ [bs[k] EXCEPT !.r = VAdd(bs[k].r, VScale(dt, bs[k].v))] \in BodyState
             /\ [bs[k] EXCEPT !.r = VAdd(bs[k].r, VScale(dt, bs[k].v))].m = mass[k]
  <2>1. bs[k].r \in Vec /\ bs[k].v \in Vec /\ bs[k] \in BodyState /\ bs[k].m = mass[k]
    BY SystemIs
  <2>2. VScale(dt, bs[k].v) \in Vec
    BY <2>1, VecTimes, DtFloat
  <2>3. VAdd(bs[k].r, VScale(dt, bs[k].v)) \in Vec
    BY <2>1, <2>2, VecAdd
  <2> QED
    BY <2>1, <2>3 DEF BodyState
<1> QED
  BY <1>1, <1>2 DEF Systems

-----------------------------------------------------------------------------
(* A round: every pair, then every body.                                     *)

Pulses(bs, pairs, route) == FoldLeft(LAMBDA s, p : Impulse(s, p, route, dt), bs, pairs)
Round(bs, pairs, route) == Moves(Pulses(bs, pairs, route), dt)
Rounds(bs, pairs, route, k) ==
  FoldLeft(LAMBDA s, i : Round(s, pairs, route), bs, [i \in 1..k |-> i])

PulseOp(p, s, x) == Impulse(s, x, p, dt)
PulseLaw == INSTANCE FoldLaws WITH Op <- PulseOp
RoundOp(p, s, x) == Round(s, p[2], p[1])
RoundLaw == INSTANCE FoldLaws WITH Op <- RoundOp

LEMMA PulsesFold == \A bs, pairs, route : Pulses(bs, pairs, route) = PulseLaw!Fold(route, bs, pairs)
  BY DEF Pulses, PulseOp, PulseLaw!Fold, FoldLeft, PulseLaw!FoldLeft,
         MapThenFoldSet, PulseLaw!MapThenFoldSet, Max, PulseLaw!Max

LEMMA RoundsFold ==
  \A bs, pairs, route, k :
    Rounds(bs, pairs, route, k) = RoundLaw!Fold(<<route, pairs>>, bs, [i \in 1..k |-> i])
  BY DEF Rounds, RoundOp, RoundLaw!Fold, FoldLeft, RoundLaw!FoldLeft,
         MapThenFoldSet, RoundLaw!MapThenFoldSet, Max, RoundLaw!Max

LEMMA RoundsAre ==
  \A bs, pairs, k :
    /\ StockAdvance(bs, pairs, dt, k) = Rounds(bs, pairs, "pow", k)
    /\ VariantSqrt(bs, pairs, dt, k) = Rounds(bs, pairs, "sqrt", k)
  BY DEF StockAdvance, VariantSqrt, Iterate, Rounds, Round, Pulses

\* Whoever follows the pairs one by one from the image of a system arrives at
\* the image of the system they lead to.
LEMMA PulsesFollow ==
  ASSUME NEW mass \in Masses, NEW bs \in Systems(mass), NEW pairs \in Seq(PairsOf(mass)),
         NEW route \in Routes, NEW F, NEW g, g[0] = F[bs],
         \A k \in 1..Len(pairs), s \in Systems(mass) :
           g[k - 1] = F[s] => g[k] = F[Impulse(s, pairs[k], route, dt)]
  PROVE  /\ g[Len(pairs)] = F[Pulses(bs, pairs, route)]
         /\ Pulses(bs, pairs, route) \in Systems(mass)
<1>. DEFINE m == Len(pairs)
<1>1. m \in Nat /\ DOMAIN pairs = 1..m
  OBVIOUS
<1>. DEFINE h == PulseLaw!Trace(route, bs, pairs, m)
<1>2. /\ h[0] = bs /\ h[m] = PulseLaw!Fold(route, bs, pairs)
      /\ \A k \in 1..m : h[k] = PulseOp(route, h[k - 1], pairs[k])
  <2>1. PulseLaw!IsTrace(h, route, bs, pairs, m)
    <3> HIDE DEF m
    <3> QED
      BY <1>1, PulseLaw!FoldTrace
  <2> HIDE DEF h
  <2> QED
    BY <2>1 DEF PulseLaw!IsTrace
<1> HIDE DEF h
<1>. DEFINE Good == {k \in 0..m : h[k] \in Systems(mass) /\ g[k] = F[h[k]]}
<1>3. 0 \in Good
  BY <1>1, <1>2
<1>4. ASSUME NEW k \in 1..m, k - 1 \in Good PROVE k \in Good
  <2>1. h[k - 1] \in Systems(mass) /\ g[k - 1] = F[h[k - 1]]
    BY <1>4
  <2>2. pairs[k] \in PairsOf(mass)
    BY <1>1
  <2>3. h[k] = Impulse(h[k - 1], pairs[k], route, dt)
    BY <1>2 DEF PulseOp
  <2>4. Impulse(h[k - 1], pairs[k], route, dt) \in Systems(mass)
    <3>. DEFINE s == h[k - 1]
                q == pairs[k]
    <3>1. s \in Systems(mass) /\ q \in PairsOf(mass)
      BY <2>1, <2>2
    <3> HIDE DEF s, q
    <3>2. Impulse(s, q, route, dt) \in Systems(mass)
      BY <3>1, ImpulseIs
    <3> QED
      BY <3>2 DEF s, q
  <2>5. g[k] = F[h[k]]
    BY <2>1, <2>3
  <2>6. k \in 0..m
    BY <1>1
  <2> QED
    BY <2>3, <2>4, <2>5, <2>6
<1>5. m \in Good
  <2> HIDE DEF m, Good
  <2> QED
    BY <1>1, <1>3, <1>4, GoesOn
<1> QED
  BY <1>2, <1>5, PulsesFold

LEMMA PulsesKeep ==
  ASSUME NEW mass \in Masses, NEW bs \in Systems(mass), NEW pairs \in Seq(PairsOf(mass)),
         NEW route \in Routes
  PROVE  Pulses(bs, pairs, route) \in Systems(mass)
<1>. DEFINE F == [s \in Systems(mass) |-> 0]
            g == [k \in 0..Len(pairs) |-> 0]
<1>1. g[0] = F[bs]
  OBVIOUS
<1>2. ASSUME NEW k \in 1..Len(pairs), NEW s \in Systems(mass)
      PROVE  g[k] = F[Impulse(s, pairs[k], route, dt)]
  <2>1. k \in 0..Len(pairs) /\ pairs[k] \in PairsOf(mass)
    OBVIOUS
  <2> QED
    BY <2>1, ImpulseIs
<1> HIDE DEF F, g
<1> QED
  BY <1>1, <1>2, PulsesFollow

LEMMA RoundKeeps ==
  ASSUME NEW mass \in Masses, NEW bs \in Systems(mass), NEW pairs \in Seq(PairsOf(mass)),
         NEW route \in Routes
  PROVE  Round(bs, pairs, route) \in Systems(mass)
  BY PulsesKeep, MovesIs DEF Round

LEMMA RoundsFollow ==
  ASSUME NEW mass \in Masses, NEW bs \in Systems(mass), NEW pairs \in Seq(PairsOf(mass)),
         NEW route \in Routes, NEW m \in Nat, NEW F, NEW g, g[0] = F[bs],
         \A k \in 1..m, s \in Systems(mass) :
           g[k - 1] = F[s] => g[k] = F[Round(s, pairs, route)]
  PROVE  /\ g[m] = F[Rounds(bs, pairs, route, m)]
         /\ Rounds(bs, pairs, route, m) \in Systems(mass)
<1>. DEFINE turns == [i \in 1..m |-> i]
            p == <<route, pairs>>
<1>. DEFINE h == RoundLaw!Trace(p, bs, turns, m)
<1>1. /\ h[0] = bs /\ h[m] = RoundLaw!Fold(p, bs, turns)
      /\ \A k \in 1..m : h[k] = RoundOp(p, h[k - 1], turns[k])
  <2>1. RoundLaw!IsTrace(h, p, bs, turns, m)
    <3>1. DOMAIN turns = 1..m
      OBVIOUS
    <3> HIDE DEF turns, p
    <3> QED
      BY <3>1, RoundLaw!FoldTrace
  <2> HIDE DEF h
  <2> QED
    BY <2>1 DEF RoundLaw!IsTrace
<1> HIDE DEF h
<1>2. \A k \in 1..m : h[k] = Round(h[k - 1], pairs, route)
  BY <1>1 DEF RoundOp
<1>. DEFINE Good == {k \in 0..m : h[k] \in Systems(mass) /\ g[k] = F[h[k]]}
<1>3. 0 \in Good
  BY <1>1
<1>4. ASSUME NEW k \in 1..m, k - 1 \in Good PROVE k \in Good
  <2>1. h[k - 1] \in Systems(mass) /\ g[k - 1] = F[h[k - 1]]
    BY <1>4
  <2>2. h[k] \in Systems(mass)
    BY <1>2, <2>1, RoundKeeps
  <2>3. g[k] = F[h[k]]
    BY <1>2, <2>1
  <2> QED
    BY <2>2, <2>3
<1>5. m \in Good
  <2> HIDE DEF Good
  <2> QED
    BY <1>3, <1>4, GoesOn
<1> QED
  BY <1>1, <1>5, RoundsFold

LEMMA RoundsKeep ==
  ASSUME NEW mass \in Masses, NEW bs \in Systems(mass), NEW pairs \in Seq(PairsOf(mass)),
         NEW route \in Routes, NEW m \in Nat
  PROVE  Rounds(bs, pairs, route, m) \in Systems(mass)
<1>. DEFINE F == [s \in Systems(mass) |-> 0]
            g == [k \in 0..m |-> 0]
<1>1. g[0] = F[bs]
  OBVIOUS
<1>2. ASSUME NEW k \in 1..m, NEW s \in Systems(mass)
      PROVE  g[k] = F[Round(s, pairs, route)]
  <2>1. k \in 0..m
    OBVIOUS
  <2> QED
    BY <2>1, RoundKeeps
<1> HIDE DEF F, g
<1> QED
  BY <1>1, <1>2, RoundsFollow

-----------------------------------------------------------------------------
(* The pairs of a system.                                                    *)

LEMMA FlattenExists ==
  ASSUME NEW m \in Nat, NEW s
  PROVE  \E f : f = [i \in 1..m |-> IF i = 1 THEN s[i] ELSE f[i - 1] \o s[i]]
<1>. DEFINE Is(f, k) == f = [i \in 1..k |-> IF i = 1 THEN s[i] ELSE f[i - 1] \o s[i]]
            Good == {k \in 0..m : \E f : Is(f, k)}
<1>1. 0 \in Good
  <2>. DEFINE f0 == [i \in 1..0 |-> s[i]]
  <2>1. Is(f0, 0)
    OBVIOUS
  <2>2. \E f : Is(f, 0)
    <3> HIDE DEF f0, Is
    <3> QED
      BY <2>1
  <2>3. 0 \in 0..m
    OBVIOUS
  <2> HIDE DEF Is
  <2> QED
    BY <2>2, <2>3
<1>2. ASSUME NEW k \in 1..m, k - 1 \in Good PROVE k \in Good
  <2>1. PICK f : Is(f, k - 1)
    BY <1>2
  <2>. DEFINE g == [i \in 1..k |-> IF i = k THEN IF k = 1 THEN s[k] ELSE f[k - 1] \o s[k] ELSE f[i]]
  <2>2. ASSUME NEW i \in 1..k
        PROVE  g[i] = IF i = 1 THEN s[i] ELSE g[i - 1] \o s[i]
    <3>1. CASE i = k
      <4>1. k # 1 => g[k - 1] = f[k - 1]
        OBVIOUS
      <4> QED
        BY <3>1, <4>1
    <3>2. CASE i # k
      <4>1. i \in 1..(k - 1) /\ g[i] = f[i] /\ (i # 1 => i - 1 \in 1..k /\ i - 1 # k)
        BY <3>2
      <4>2. i # 1 => g[i - 1] = f[i - 1]
        BY <4>1
      <4>3. f[i] = IF i = 1 THEN s[i] ELSE f[i - 1] \o s[i]
        BY <2>1, <4>1
      <4> QED
        BY <4>1, <4>2, <4>3
    <3> QED
      BY <3>1, <3>2
  <2>3. DOMAIN g = 1..k /\ g = [i \in 1..k |-> g[i]]
    OBVIOUS
  <2> HIDE DEF g
  <2>4. g = [i \in 1..k |-> IF i = 1 THEN s[i] ELSE g[i - 1] \o s[i]]
    BY <2>2, <2>3
  <2>5. k \in 0..m
    OBVIOUS
  <2> QED
    BY <2>4, <2>5
<1>3. m \in Good
  <2> HIDE DEF Good
  <2> QED
    BY <1>1, <1>2, GoesOn
<1> QED
  BY <1>3

LEMMA FlattenType ==
  ASSUME NEW S, NEW m \in Nat \ {0}, NEW s \in [1..m -> Seq(S)]
  PROVE  FlattenSeq(s) \in Seq(S)
<1>1. Len(s) = m
  OBVIOUS
<1>. DEFINE f == CHOOSE f : f = [i \in 1..m |-> IF i = 1 THEN s[i] ELSE f[i - 1] \o s[i]]
<1>2. f = [i \in 1..m |-> IF i = 1 THEN s[i] ELSE f[i - 1] \o s[i]]
  BY FlattenExists, Zenon
<1>3. FlattenSeq(s) = f[m]
  BY <1>1 DEF FlattenSeq
<1> HIDE DEF f
<1>. DEFINE Good == {0} \cup {k \in 1..m : f[k] \in Seq(S)}
<1>4. ASSUME NEW k \in 1..m, k - 1 \in Good PROVE k \in Good
  <2>1. s[k] \in Seq(S) /\ f[k] = IF k = 1 THEN s[k] ELSE f[k - 1] \o s[k]
    BY <1>2
  <2>2. CASE k = 1
    BY <2>1, <2>2
  <2>3. CASE k # 1
    <3>1. f[k - 1] \in Seq(S)
      BY <1>4, <2>3
    <3>2. f[k - 1] \o s[k] \in Seq(S)
      BY <2>1, <3>1, ConcatProperties
    <3> QED
      BY <2>1, <2>3, <3>2
  <2> QED
    BY <2>2, <2>3
<1>5. m \in Good
  <2>1. 0 \in Good /\ m \in Nat
    OBVIOUS
  <2> HIDE DEF Good
  <2> QED
    BY <2>1, <1>4, GoesOn
<1> QED
  BY <1>3, <1>5

LEMMA CombinationsType ==
  ASSUME NEW mass \in Masses, Len(mass) >= 2
  PROVE  Combinations(Len(mass)) \in Seq(PairsOf(mass))
<1>. DEFINE m == Len(mass)
            S == PairsOf(mass)
            row == [x \in 1..m-1 |-> [y \in 1..m-x |-> <<x, x + y>>]]
<1>1. m \in Nat /\ m - 1 \in Nat \ {0}
  BY MassList
<1>2. ASSUME NEW x \in 1..m-1 PROVE [y \in 1..m-x |-> <<x, x + y>>] \in Seq(S)
  <2>1. m - x \in Nat
    BY <1>1
  <2>2. ASSUME NEW y \in 1..m-x PROVE <<x, x + y>> \in S
    <3>1. x \in 1..m /\ x + y \in 1..m /\ x # x + y
      BY <1>1
    <3> QED
      BY <3>1 DEF PairsOf
  <2> HIDE DEF S, m
  <2> QED
    BY <2>1, <2>2
<1>3. row \in [1..m-1 -> Seq(S)]
  BY <1>2
<1>4. FlattenSeq(row) \in Seq(S)
  <2> HIDE DEF row, m, S
  <2> QED
    BY <1>1, <1>3, FlattenType
<1> QED
  BY <1>4 DEF Combinations

-----------------------------------------------------------------------------
(* T1: the pairs unpacked beforehand, with the masses.                       *)

Unpacked(mass, pairs) ==
  [k \in DOMAIN pairs |-> [i |-> pairs[k][1], j |-> pairs[k][2],
                           m1 |-> mass[pairs[k][1]], m2 |-> mass[pairs[k][2]]]]

LEMMA UnpackedIs ==
  ASSUME NEW mass \in Masses, NEW bs \in Systems(mass), NEW pairs \in Seq(PairsOf(mass)),
         Len(mass) >= 2
  PROVE  /\ T1Pairs(bs) = Unpacked(mass, Combinations(Len(mass)))
         /\ Source(bs, pairs) = [slots |-> Len(mass), body |-> Unpacked(mass, pairs)]
<1>1. ASSUME NEW l \in Seq(PairsOf(mass)), NEW k \in DOMAIN l
      PROVE  bs[l[k][1]].m = mass[l[k][1]] /\ bs[l[k][2]].m = mass[l[k][2]]
  <2>1. l[k] \in PairsOf(mass)
    OBVIOUS
  <2> QED
    BY <2>1, SystemIs, PairIs
<1>2. T1Pairs(bs) = Unpacked(mass, Combinations(Len(mass)))
  <2>. DEFINE l == Combinations(Len(mass))
  <2>1. l \in Seq(PairsOf(mass)) /\ l = Combinations(Len(bs))
    BY CombinationsType, SystemIs
  <2>2. T1Pairs(bs) = [k \in DOMAIN l |-> [i |-> l[k][1], j |-> l[k][2],
                                           m1 |-> bs[l[k][1]].m, m2 |-> bs[l[k][2]].m]]
    BY <2>1 DEF T1Pairs
  <2> HIDE DEF l
  <2>3. T1Pairs(bs) = Unpacked(mass, l)
    BY <2>1, <2>2, <1>1 DEF Unpacked
  <2> QED
    BY <2>3 DEF l
<1>3. Source(bs, pairs) = [slots |-> Len(mass), body |-> Unpacked(mass, pairs)]
  <2>1. Len(bs) = Len(mass)
    BY SystemIs
  <2> QED
    BY <2>1, <1>1 DEF Source, Unpacked
<1> QED
  BY <1>2, <1>3

Jolts(bs, q, route) == FoldLeft(LAMBDA s, p : T1Impulse(s, p, route, dt), bs, q)
T1Round(bs, q, route) == Moves(Jolts(bs, q, route), dt)

JoltOp(p, s, x) == T1Impulse(s, x, p, dt)
JoltLaw == INSTANCE FoldLaws WITH Op <- JoltOp
T1RoundOp(p, s, x) == T1Round(s, p[2], p[1])
T1RoundLaw == INSTANCE FoldLaws WITH Op <- T1RoundOp

LEMMA JoltsFold == \A bs, q, route : Jolts(bs, q, route) = JoltLaw!Fold(route, bs, q)
  BY DEF Jolts, JoltOp, JoltLaw!Fold, FoldLeft, JoltLaw!FoldLeft,
         MapThenFoldSet, JoltLaw!MapThenFoldSet, Max, JoltLaw!Max

LEMMA T1LoopFold ==
  \A st, route, k :
    T1Loop(st, route, dt, k).bodies
      = T1RoundLaw!Fold(<<route, st.pairs>>, st.bodies, [i \in 1..k |-> i])
<1> SUFFICES ASSUME NEW st, NEW route, NEW k
             PROVE  T1Loop(st, route, dt, k).bodies
                      = T1RoundLaw!Fold(<<route, st.pairs>>, st.bodies, [i \in 1..k |-> i])
  OBVIOUS
<1> QED
  BY DEF T1Loop, Iterate, T1Round, Jolts, T1RoundOp, T1RoundLaw!Fold, FoldLeft, T1RoundLaw!FoldLeft,
         MapThenFoldSet, T1RoundLaw!MapThenFoldSet, Max, T1RoundLaw!Max

LEMMA JoltIs ==
  ASSUME NEW mass \in Masses, NEW bs \in Systems(mass), NEW pairs \in Seq(PairsOf(mass)),
         NEW k \in 1..Len(pairs), NEW route \in Routes
  PROVE  T1Impulse(bs, Unpacked(mass, pairs)[k], route, dt) = Impulse(bs, pairs[k], route, dt)
<1>1. pairs[k] \in PairsOf(mass)
  OBVIOUS
<1>2. /\ pairs[k][1] \in DOMAIN bs /\ pairs[k][2] \in DOMAIN bs /\ pairs[k][1] # pairs[k][2]
      /\ bs[pairs[k][1]].m = mass[pairs[k][1]] /\ bs[pairs[k][2]].m = mass[pairs[k][2]]
  <2>1. pairs[k][1] \in 1..Len(mass) /\ pairs[k][2] \in 1..Len(mass) /\ pairs[k][1] # pairs[k][2]
    BY <1>1, PairIs
  <2>2. DOMAIN bs = 1..Len(mass)
    BY SystemIs
  <2> QED
    BY <2>1, <2>2, BodyIs
<1>3. Unpacked(mass, pairs)[k] = [i |-> pairs[k][1], j |-> pairs[k][2],
                                  m1 |-> mass[pairs[k][1]], m2 |-> mass[pairs[k][2]]]
  BY DEF Unpacked
<1>. DEFINE q == Unpacked(mass, pairs)[k]
            p == pairs[k]
<1>4. q.i = p[1] /\ q.j = p[2] /\ q.m1 = bs[p[1]].m /\ q.m2 = bs[p[2]].m
  BY <1>2, <1>3
<1> HIDE DEF q, p
<1>5. T1Impulse(bs, q, route, dt) =
        Kicked(bs, p[1], p[2], Forces(bs, p, route)[1], Forces(bs, p, route)[2])
  BY <1>4 DEF T1Impulse, Forces, Kicked
<1>6. p \in PairsOf(mass)
  BY <1>1 DEF p
<1>7. T1Impulse(bs, q, route, dt) = Impulse(bs, p, route, dt)
  BY <1>5, <1>6, ImpulseIs
<1> QED
  BY <1>7 DEF p, q

LEMMA JoltsAre ==
  ASSUME NEW mass \in Masses, NEW bs \in Systems(mass), NEW pairs \in Seq(PairsOf(mass)),
         NEW route \in Routes
  PROVE  Jolts(bs, Unpacked(mass, pairs), route) = Pulses(bs, pairs, route)
<1>. DEFINE m == Len(pairs)
            q == Unpacked(mass, pairs)
            F == [s \in Systems(mass) |-> s]
<1>1. m \in Nat /\ DOMAIN q = 1..m
  BY DEF Unpacked
<1>. DEFINE h == JoltLaw!Trace(route, bs, q, m)
<1>2. /\ h[0] = bs /\ h[m] = JoltLaw!Fold(route, bs, q)
      /\ \A k \in 1..m : h[k] = JoltOp(route, h[k - 1], q[k])
  <2>1. JoltLaw!IsTrace(h, route, bs, q, m)
    <3> HIDE DEF q, m
    <3> QED
      BY <1>1, JoltLaw!FoldTrace
  <2> HIDE DEF h
  <2> QED
    BY <2>1 DEF JoltLaw!IsTrace
<1> HIDE DEF h
<1>3. h[0] = F[bs]
  BY <1>2
<1>4. ASSUME NEW k \in 1..Len(pairs), NEW s \in Systems(mass), h[k - 1] = F[s]
      PROVE  h[k] = F[Impulse(s, pairs[k], route, dt)]
  <2>1. pairs[k] \in PairsOf(mass)
    OBVIOUS
  <2>2. Impulse(s, pairs[k], route, dt) \in Systems(mass)
    BY <2>1, ImpulseIs
  <2>3. h[k] = T1Impulse(s, q[k], route, dt)
    BY <1>2, <1>4 DEF JoltOp
  <2> QED
    BY <2>2, <2>3, JoltIs
<1>5. h[Len(pairs)] = F[Pulses(bs, pairs, route)] /\ Pulses(bs, pairs, route) \in Systems(mass)
  <2> HIDE DEF F, q
  <2> QED
    BY <1>3, <1>4, PulsesFollow
<1> QED
  BY <1>2, <1>5, JoltsFold

LEMMA T1Is ==
  ASSUME NEW mass \in Masses, NEW bs \in Systems(mass), NEW pairs \in Seq(PairsOf(mass)),
         NEW route \in Routes, NEW m \in Nat
  PROVE  T1Loop([bodies |-> bs, pairs |-> Unpacked(mass, pairs)], route, dt, m).bodies
           = Rounds(bs, pairs, route, m)
<1>. DEFINE F == [s \in Systems(mass) |-> s]
            turns == [i \in 1..m |-> i]
            p == <<route, Unpacked(mass, pairs)>>
<1>. DEFINE h == T1RoundLaw!Trace(p, bs, turns, m)
<1>1. /\ h[0] = bs /\ h[m] = T1RoundLaw!Fold(p, bs, turns)
      /\ \A k \in 1..m : h[k] = T1RoundOp(p, h[k - 1], turns[k])
  <2>1. T1RoundLaw!IsTrace(h, p, bs, turns, m)
    <3>1. DOMAIN turns = 1..m
      OBVIOUS
    <3> HIDE DEF turns, p
    <3> QED
      BY <3>1, T1RoundLaw!FoldTrace
  <2> HIDE DEF h
  <2> QED
    BY <2>1 DEF T1RoundLaw!IsTrace
<1> HIDE DEF h
<1>2. h[0] = F[bs]
  BY <1>1
<1>3. ASSUME NEW k \in 1..m, NEW s \in Systems(mass), h[k - 1] = F[s]
      PROVE  h[k] = F[Round(s, pairs, route)]
  <2>1. h[k] = T1Round(s, Unpacked(mass, pairs), route)
    BY <1>1, <1>3 DEF T1RoundOp
  <2>2. h[k] = Round(s, pairs, route)
    BY <2>1, JoltsAre DEF T1Round, Round
  <2> QED
    BY <2>2, RoundKeeps
<1>4. h[m] = F[Rounds(bs, pairs, route, m)] /\ Rounds(bs, pairs, route, m) \in Systems(mass)
  <2> HIDE DEF F, turns, p
  <2> QED
    BY <1>2, <1>3, RoundsFollow
<1> QED
  BY <1>1, <1>4, T1LoopFold

-----------------------------------------------------------------------------
(* Generated programs: positions and velocities in locals.                   *)

Written(l, q, route) ==
  FoldLeft(LAMBDA a, s : Statement(a, s, Mag(route, dt, Gap(a, s)), s.m1, s.m2), l, q)
Coast(l) == [l EXCEPT !.x = [i \in DOMAIN @ |-> VAdd(@[i], VScale(dt, l.u[i]))]]
Pass(l, q, route) == Coast(Written(l, q, route))
Passes(l, q, route, k) == FoldLeft(LAMBDA a, i : Pass(a, q, route), l, [i \in 1..k |-> i])

WriteOp(p, a, s) == Statement(a, s, Mag(p, dt, Gap(a, s)), s.m1, s.m2)
WriteLaw == INSTANCE FoldLaws WITH Op <- WriteOp
PassOp(p, s, x) == Pass(s, p[2], p[1])
PassLaw == INSTANCE FoldLaws WITH Op <- PassOp

LEMMA WrittenFold == \A l, q, route : Written(l, q, route) = WriteLaw!Fold(route, l, q)
  BY DEF Written, WriteOp, WriteLaw!Fold, FoldLeft, WriteLaw!FoldLeft,
         MapThenFoldSet, WriteLaw!MapThenFoldSet, Max, WriteLaw!Max

LEMMA PassesFold ==
  \A l, q, route, k : Passes(l, q, route, k) = PassLaw!Fold(<<route, q>>, l, [i \in 1..k |-> i])
  BY DEF Passes, PassOp, PassLaw!Fold, FoldLeft, PassLaw!FoldLeft,
         MapThenFoldSet, PassLaw!MapThenFoldSet, Max, PassLaw!Max

LEMMA BodyWith ==
  \A b \in BodyState : \A x :
    /\ [b EXCEPT !.r = x] = [r |-> x, v |-> b.v, m |-> b.m]
    /\ [b EXCEPT !.v = x] = [r |-> b.r, v |-> x, m |-> b.m]
  BY DEF BodyState

\* A system after the impulse of a pair and after a move, body by body.
LEMMA KickedBodies ==
  ASSUME NEW mass \in Masses, NEW bs \in Systems(mass),
         NEW i \in 1..Len(mass), NEW j \in 1..Len(mass), i # j, NEW a, NEW c
  PROVE  \A k \in 1..Len(mass) :
           /\ Kicked(bs, i, j, a, c)[k].r = bs[k].r /\ Kicked(bs, i, j, a, c)[k].m = mass[k]
           /\ k = i => Kicked(bs, i, j, a, c)[k].v = a
           /\ k = j => Kicked(bs, i, j, a, c)[k].v = c
           /\ k # i /\ k # j => Kicked(bs, i, j, a, c)[k].v = bs[k].v
<1>. DEFINE new == [bs EXCEPT ![i].v = a, ![j].v = c]
<1>1. /\ DOMAIN bs = 1..Len(mass)
      /\ \A k \in 1..Len(mass) : /\ bs[k] = [r |-> bs[k].r, v |-> bs[k].v, m |-> mass[k]]
                                 /\ bs[k] \in BodyState /\ bs[k].m = mass[k]
  BY SystemIs
<1>2. new[i] = [r |-> bs[i].r, v |-> a, m |-> mass[i]]
  BY <1>1, BodyWith
<1>3. new[j] = [r |-> bs[j].r, v |-> c, m |-> mass[j]]
  BY <1>1, BodyWith
<1>4. \A k \in 1..Len(mass) : k # i /\ k # j => new[k] = bs[k]
  BY <1>1
<1>5. Kicked(bs, i, j, a, c) = new
  BY DEF Kicked
<1> HIDE DEF new
<1>6. new[i].r = bs[i].r /\ new[i].m = mass[i] /\ new[i].v = a
  BY <1>2
<1>7. new[j].r = bs[j].r /\ new[j].m = mass[j] /\ new[j].v = c
  BY <1>3
<1>8. \A k \in 1..Len(mass) : k # i /\ k # j =>
        new[k].r = bs[k].r /\ new[k].m = mass[k] /\ new[k].v = bs[k].v
  BY <1>1, <1>4
<1> QED
  BY <1>5, <1>6, <1>7, <1>8, Zenon

LEMMA MovedBodies ==
  ASSUME NEW mass \in Masses, NEW bs \in Systems(mass)
  PROVE  Moves(bs, dt) =
           [k \in 1..Len(mass) |->
              [r |-> VAdd(bs[k].r, VScale(dt, bs[k].v)), v |-> bs[k].v, m |-> mass[k]]]
<1>1. \A k \in 1..Len(mass) :
        [bs[k] EXCEPT !.r = VAdd(bs[k].r, VScale(dt, bs[k].v))]
          = [r |-> VAdd(bs[k].r, VScale(dt, bs[k].v)), v |-> bs[k].v, m |-> mass[k]]
  <2> TAKE k \in 1..Len(mass)
  <2>. DEFINE x == VAdd(bs[k].r, VScale(dt, bs[k].v))
  <2>1. bs[k] \in BodyState /\ bs[k].m = mass[k]
    BY SystemIs
  <2> HIDE DEF x
  <2>2. [bs[k] EXCEPT !.r = x] = [r |-> x, v |-> bs[k].v, m |-> mass[k]]
    BY <2>1, BodyWith
  <2> QED
    BY <2>2 DEF x
<1>2. Moves(bs, dt) = [k \in 1..Len(mass) |-> [bs[k] EXCEPT !.r = VAdd(bs[k].r, VScale(dt, bs[k].v))]]
  BY MovesIs
<1> QED
  BY <1>1, <1>2, Zenon

Locals(bs, slots) == [x |-> [i \in 1..slots |-> bs[i].r], u |-> [i \in 1..slots |-> bs[i].v]]

\* The locals with new velocities for two slots.
Rewritten(l, i, j, a, c) == [l EXCEPT !.u[i] = a, !.u[j] = c]
Both(U, i, j, a, c) == [U EXCEPT ![i] = a, ![j] = c]

LEMMA RewrittenIs ==
  ASSUME NEW X, NEW U, NEW i, NEW j, NEW a, NEW c
  PROVE  Rewritten([x |-> X, u |-> U], i, j, a, c) = [x |-> X, u |-> Both(U, i, j, a, c)]
<1>. DEFINE l == [x |-> X, u |-> U]
            U1 == [U EXCEPT ![i] = a]
            U2 == [U1 EXCEPT ![j] = c]
<1>1. l.u = U /\ [l EXCEPT !.u = U1] = [x |-> X, u |-> U1]
  <2> HIDE DEF U1
  <2> QED
    OBVIOUS
<1>2. [l EXCEPT !.u[i] = a] = [x |-> X, u |-> U1]
  <2>1. [l EXCEPT !.u[i] = a] = [l EXCEPT !.u = [l.u EXCEPT ![i] = a]]
    BY Zenon
  <2> QED
    BY <1>1, <2>1
<1>3. [[x |-> X, u |-> U1] EXCEPT !.u[j] = c] = [x |-> X, u |-> U2]
  OBVIOUS
<1> QED
  BY <1>2, <1>3 DEF Rewritten, Both

LEMMA LocalsKicked ==
  ASSUME NEW mass \in Masses, NEW bs \in Systems(mass),
         NEW i \in 1..Len(mass), NEW j \in 1..Len(mass), i # j, NEW a, NEW c
  PROVE  Rewritten(Locals(bs, Len(mass)), i, j, a, c) = Locals(Kicked(bs, i, j, a, c), Len(mass))
<1>. DEFINE X == [k \in 1..Len(mass) |-> bs[k].r]
            U == [k \in 1..Len(mass) |-> bs[k].v]
            V == [k \in 1..Len(mass) |-> IF k = i THEN a ELSE IF k = j THEN c ELSE bs[k].v]
            new == Kicked(bs, i, j, a, c)
<1>1. \A k \in 1..Len(mass) :
        /\ new[k].r = bs[k].r /\ (k = i => new[k].v = a) /\ (k = j => new[k].v = c)
        /\ k # i /\ k # j => new[k].v = bs[k].v
  BY KickedBodies
<1> HIDE DEF new
<1>2. Locals(new, Len(mass)) = [x |-> X, u |-> V]
  BY <1>1 DEF Locals
<1>3. Both(U, i, j, a, c) = V
  BY DEF Both
<1>4. Locals(bs, Len(mass)) = [x |-> X, u |-> U]
  BY DEF Locals
<1> HIDE DEF X, U, V
<1>5. Rewritten([x |-> X, u |-> U], i, j, a, c) = [x |-> X, u |-> Both(U, i, j, a, c)]
  BY RewrittenIs
<1> QED
  BY <1>2, <1>3, <1>4, <1>5 DEF new

\* The locals written back to the list.
WrittenBack(bs, done, slots) ==
  [i \in 1..Len(bs) |->
     IF i <= slots THEN [bs[i] EXCEPT !.r = done.x[i], !.v = done.u[i]] ELSE bs[i]]

LEMMA ExecuteIs ==
  \A src, bs, k, route :
    Execute(src, bs, dt, k, route)
      = WrittenBack(bs, Passes(Locals(bs, src.slots), src.body, route, k), src.slots)
  BY DEF Execute, WrittenBack, Iterate, Passes, Pass, Coast, Written, Locals

LEMMA BodyReplaced ==
  \A b, c \in BodyState : b.m = c.m => [b EXCEPT !.r = c.r, !.v = c.v] = c
  BY DEF BodyState

LEMMA WrittenBackIs ==
  ASSUME NEW mass \in Masses, NEW bs \in Systems(mass), NEW new \in Systems(mass)
  PROVE  WrittenBack(bs, Locals(new, Len(mass)), Len(mass)) = new
<1>1. Len(bs) = Len(mass) /\ Len(mass) \in Nat
  BY SystemIs, MassList
<1>2. ASSUME NEW i \in 1..Len(mass)
      PROVE  WrittenBack(bs, Locals(new, Len(mass)), Len(mass))[i] = new[i]
  <2>1. i <= Len(mass)
    BY <1>1
  <2>2. Locals(new, Len(mass)).x[i] = new[i].r /\ Locals(new, Len(mass)).u[i] = new[i].v
    BY DEF Locals
  <2>3. WrittenBack(bs, Locals(new, Len(mass)), Len(mass))[i]
          = [bs[i] EXCEPT !.r = new[i].r, !.v = new[i].v]
    BY <1>1, <2>1, <2>2 DEF WrittenBack
  <2>4. bs[i] \in BodyState /\ new[i] \in BodyState /\ bs[i].m = new[i].m
    BY SystemIs
  <2> QED
    BY <2>3, <2>4, BodyReplaced
<1>3. new = [i \in 1..Len(mass) |-> new[i]]
  BY DEF Systems
<1>4. WrittenBack(bs, Locals(new, Len(mass)), Len(mass))
        = [i \in 1..Len(mass) |-> WrittenBack(bs, Locals(new, Len(mass)), Len(mass))[i]]
  BY <1>1 DEF WrittenBack
<1> QED
  BY <1>2, <1>3, <1>4

LEMMA WrittenIs ==
  ASSUME NEW mass \in Masses, NEW bs \in Systems(mass), NEW pairs \in Seq(PairsOf(mass)),
         NEW k \in 1..Len(pairs), NEW route \in Routes
  PROVE  LET l == Locals(bs, Len(mass))
             s == Unpacked(mass, pairs)[k]
         IN  Statement(l, s, Mag(route, dt, Gap(l, s)), s.m1, s.m2)
               = Locals(Impulse(bs, pairs[k], route, dt), Len(mass))
<1>. DEFINE q == Unpacked(mass, pairs)[k]
            p == pairs[k]
            l == Locals(bs, Len(mass))
            a == Forces(bs, p, route)[1]
            c == Forces(bs, p, route)[2]
            i == p[1]
            j == p[2]
<1>1. p \in PairsOf(mass)
  OBVIOUS
<1>2. i \in 1..Len(mass) /\ j \in 1..Len(mass) /\ i # j /\ bs[i].m = mass[i] /\ bs[j].m = mass[j]
  BY <1>1, SystemIs, PairIs
<1>3. q.i = i /\ q.j = j /\ q.m1 = bs[i].m /\ q.m2 = bs[j].m
  BY <1>2 DEF Unpacked
<1>4. /\ l.x[i] = bs[i].r /\ l.x[j] = bs[j].r /\ l.u[i] = bs[i].v /\ l.u[j] = bs[j].v
      /\ DOMAIN l.u = 1..Len(mass)
  BY <1>2 DEF Locals
<1>5. Impulse(bs, p, route, dt) = Kicked(bs, i, j, a, c)
  BY <1>1, ImpulseIs
<1> HIDE DEF q, p, i, j
<1>6. Statement(l, q, Mag(route, dt, Gap(l, q)), q.m1, q.m2) = Rewritten(l, i, j, a, c)
  <2>1. a = VSub(l.u[i], VMul(VSub(l.x[i], l.x[j]), FMul(q.m2, Mag(route, dt, Gap(l, q)))))
    BY <1>3, <1>4 DEF Gap, Forces, i, j
  <2>2. c = VAdd(l.u[j], VMul(VSub(l.x[i], l.x[j]), FMul(q.m1, Mag(route, dt, Gap(l, q)))))
    BY <1>3, <1>4 DEF Gap, Forces, i, j
  <2> HIDE DEF a, c, l
  <2> QED
    BY <1>2, <1>3, <1>4, <2>1, <2>2 DEF Statement, Rewritten
<1> HIDE DEF a, c
<1>7. Rewritten(l, i, j, a, c) = Locals(Kicked(bs, i, j, a, c), Len(mass))
  BY <1>2, LocalsKicked
<1> QED
  BY <1>5, <1>6, <1>7 DEF q, p

LEMMA CoastIs ==
  ASSUME NEW mass \in Masses, NEW bs \in Systems(mass)
  PROVE  Coast(Locals(bs, Len(mass))) = Locals(Moves(bs, dt), Len(mass))
<1>. DEFINE new == Moves(bs, dt)
<1>1. \A k \in 1..Len(mass) : new[k].r = VAdd(bs[k].r, VScale(dt, bs[k].v)) /\ new[k].v = bs[k].v
  BY MovedBodies
<1> HIDE DEF new
<1>2. Locals(new, Len(mass)) = [x |-> [k \in 1..Len(mass) |-> VAdd(bs[k].r, VScale(dt, bs[k].v))],
                                u |-> [k \in 1..Len(mass) |-> bs[k].v]]
  BY <1>1 DEF Locals
<1>. DEFINE X == [k \in 1..Len(mass) |-> bs[k].r]
            U == [k \in 1..Len(mass) |-> bs[k].v]
<1>3. Coast([x |-> X, u |-> U]) =
        [x |-> [k \in 1..Len(mass) |-> VAdd(bs[k].r, VScale(dt, bs[k].v))], u |-> U]
  <2>1. [k \in DOMAIN X |-> VAdd(X[k], VScale(dt, U[k]))]
          = [k \in 1..Len(mass) |-> VAdd(bs[k].r, VScale(dt, bs[k].v))]
    OBVIOUS
  <2> HIDE DEF X, U
  <2>2. Coast([x |-> X, u |-> U]) = [x |-> [k \in DOMAIN X |-> VAdd(X[k], VScale(dt, U[k]))], u |-> U]
    BY DEF Coast
  <2> QED
    BY <2>1, <2>2
<1>4. Locals(bs, Len(mass)) = [x |-> X, u |-> U]
  BY DEF Locals
<1> QED
  BY <1>2, <1>3, <1>4 DEF new

LEMMA WrittenAre ==
  ASSUME NEW mass \in Masses, NEW bs \in Systems(mass), NEW pairs \in Seq(PairsOf(mass)),
         NEW route \in Routes
  PROVE  Written(Locals(bs, Len(mass)), Unpacked(mass, pairs), route)
           = Locals(Pulses(bs, pairs, route), Len(mass))
<1>. DEFINE m == Len(pairs)
            q == Unpacked(mass, pairs)
            F == [s \in Systems(mass) |-> Locals(s, Len(mass))]
            l == Locals(bs, Len(mass))
<1>1. m \in Nat /\ DOMAIN q = 1..m
  BY DEF Unpacked
<1>. DEFINE h == WriteLaw!Trace(route, l, q, m)
<1>2. /\ h[0] = l /\ h[m] = WriteLaw!Fold(route, l, q)
      /\ \A k \in 1..m : h[k] = WriteOp(route, h[k - 1], q[k])
  <2>1. WriteLaw!IsTrace(h, route, l, q, m)
    <3> HIDE DEF q, m, l
    <3> QED
      BY <1>1, WriteLaw!FoldTrace
  <2> HIDE DEF h
  <2> QED
    BY <2>1 DEF WriteLaw!IsTrace
<1> HIDE DEF h
<1>3. h[0] = F[bs]
  BY <1>2
<1>4. ASSUME NEW k \in 1..Len(pairs), NEW s \in Systems(mass), h[k - 1] = F[s]
      PROVE  h[k] = F[Impulse(s, pairs[k], route, dt)]
  <2>1. pairs[k] \in PairsOf(mass)
    OBVIOUS
  <2>2. Impulse(s, pairs[k], route, dt) \in Systems(mass)
    BY <2>1, ImpulseIs
  <2>3. h[k] = WriteOp(route, Locals(s, Len(mass)), q[k])
    BY <1>2, <1>4
  <2>4. h[k] = Locals(Impulse(s, pairs[k], route, dt), Len(mass))
    BY <2>3, WrittenIs DEF WriteOp
  <2> QED
    BY <2>2, <2>4
<1>5. h[m] = F[Pulses(bs, pairs, route)] /\ Pulses(bs, pairs, route) \in Systems(mass)
  <2> HIDE DEF F, q
  <2> QED
    BY <1>3, <1>4, PulsesFollow
<1>6. h[m] = Locals(Pulses(bs, pairs, route), Len(mass))
  BY <1>5
<1> QED
  BY <1>2, <1>6, WrittenFold

LEMMA PassesAre ==
  ASSUME NEW mass \in Masses, NEW bs \in Systems(mass), NEW pairs \in Seq(PairsOf(mass)),
         NEW route \in Routes, NEW m \in Nat
  PROVE  Passes(Locals(bs, Len(mass)), Unpacked(mass, pairs), route, m)
           = Locals(Rounds(bs, pairs, route, m), Len(mass))
<1>. DEFINE F == [s \in Systems(mass) |-> Locals(s, Len(mass))]
            turns == [i \in 1..m |-> i]
            q == Unpacked(mass, pairs)
            p == <<route, q>>
            l == Locals(bs, Len(mass))
<1>. DEFINE h == PassLaw!Trace(p, l, turns, m)
<1>1. /\ h[0] = l /\ h[m] = PassLaw!Fold(p, l, turns)
      /\ \A k \in 1..m : h[k] = PassOp(p, h[k - 1], turns[k])
  <2>1. PassLaw!IsTrace(h, p, l, turns, m)
    <3>1. DOMAIN turns = 1..m
      OBVIOUS
    <3> HIDE DEF F, turns, p, l, q
    <3> QED
      BY <3>1, PassLaw!FoldTrace
  <2> HIDE DEF h
  <2> QED
    BY <2>1 DEF PassLaw!IsTrace
<1> HIDE DEF h
<1>2. h[0] = F[bs]
  BY <1>1
<1>3. ASSUME NEW k \in 1..m, NEW s \in Systems(mass), h[k - 1] = F[s]
      PROVE  h[k] = F[Round(s, pairs, route)]
  <2>1. h[k] = Pass(Locals(s, Len(mass)), q, route)
    BY <1>1, <1>3 DEF PassOp
  <2>2. Pulses(s, pairs, route) \in Systems(mass)
    BY PulsesKeep
  <2>3. h[k] = Coast(Locals(Pulses(s, pairs, route), Len(mass)))
    BY <2>1, WrittenAre DEF Pass
  <2>4. h[k] = Locals(Round(s, pairs, route), Len(mass))
    BY <2>2, <2>3, CoastIs DEF Round
  <2> QED
    BY <2>4, RoundKeeps
<1>4. h[m] = F[Rounds(bs, pairs, route, m)] /\ Rounds(bs, pairs, route, m) \in Systems(mass)
  <2> HIDE DEF F, turns, p
  <2> QED
    BY <1>2, <1>3, RoundsFollow
<1>5. h[m] = Locals(Rounds(bs, pairs, route, m), Len(mass))
  BY <1>4
<1> QED
  BY <1>1, <1>5, PassesFold

\* A program generated for a system of these masses does what the loop does.
LEMMA GeneratedIs ==
  ASSUME NEW mass \in Masses, Len(mass) >= 2, NEW bs \in Systems(mass), NEW other \in Systems(mass),
         NEW pairs \in Seq(PairsOf(mass)), NEW route \in Routes, NEW m \in Nat
  PROVE  Execute(Source(other, pairs), bs, dt, m, route) = Rounds(bs, pairs, route, m)
<1>. DEFINE src == Source(other, pairs)
            new == Rounds(bs, pairs, route, m)
            done == Passes(Locals(bs, src.slots), src.body, route, m)
<1>1. src.slots = Len(mass) /\ src.body = Unpacked(mass, pairs)
  BY UnpackedIs
<1>2. done = Locals(new, Len(mass))
  BY <1>1, PassesAre
<1>3. new \in Systems(mass)
  BY RoundsKeep
<1>4. Execute(src, bs, dt, m, route) = WrittenBack(bs, done, Len(mass))
  BY <1>1, ExecuteIs
<1> HIDE DEF src, new, done
<1>5. Execute(src, bs, dt, m, route) = new
  BY <1>2, <1>3, <1>4, WrittenBackIs
<1> QED
  BY <1>5 DEF src, new

-----------------------------------------------------------------------------
(* The state of the native module and of T2.                                 *)

Kicks(st, route) == FoldLeft(LAMBDA t, p : Kick(t, p, route, dt), st, st.pairs)
Leap(st, route) == Drift(Kicks(st, route), dt)
Leaps(st, route, k) == FoldLeft(LAMBDA s, i : Leap(s, route), st, [i \in 1..k |-> i])

KickOp(p, s, x) == Kick(s, x, p, dt)
KickLaw == INSTANCE FoldLaws WITH Op <- KickOp
LeapOp(p, s, x) == Leap(s, p)
LeapLaw == INSTANCE FoldLaws WITH Op <- LeapOp

LEMMA KicksFold == \A st, route : Kicks(st, route) = KickLaw!Fold(route, st, st.pairs)
  BY DEF Kicks, KickOp, KickLaw!Fold, FoldLeft, KickLaw!FoldLeft,
         MapThenFoldSet, KickLaw!MapThenFoldSet, Max, KickLaw!Max

LEMMA LeapsFold == \A st, route, k : Leaps(st, route, k) = LeapLaw!Fold(route, st, [i \in 1..k |-> i])
  BY DEF Leaps, LeapOp, LeapLaw!Fold, FoldLeft, LeapLaw!FoldLeft,
         MapThenFoldSet, LeapLaw!MapThenFoldSet, Max, LeapLaw!Max

LEMMA LeapsAre ==
  \A st, k : RustAdvance(st, dt, k) = Leaps(st, "pow", k) /\ T2Advance(st, dt, k) = Leaps(st, "sqrt", k)
  BY DEF RustAdvance, T2Advance, Iterate, Leaps, Leap, Kicks

ArrayState(mass, X, U) ==
  [pos |-> X, vel |-> U, mass |-> mass, pairs |-> Combinations(Len(mass))]

LEMMA ArraysAre ==
  ASSUME NEW mass \in Masses, NEW bs \in Systems(mass)
  PROVE  Arrays(bs) = ArrayState(mass, [k \in 1..Len(mass) |-> bs[k].r], [k \in 1..Len(mass) |-> bs[k].v])
<1>1. Len(bs) = Len(mass) /\ \A k \in 1..Len(mass) : bs[k].m = mass[k]
  BY SystemIs
<1>2. mass = [k \in 1..Len(mass) |-> mass[k]]
  BY DEF Masses
<1>3. [k \in 1..Len(mass) |-> bs[k].m] = [k \in 1..Len(mass) |-> mass[k]]
  BY <1>1
<1> QED
  BY <1>1, <1>2, <1>3 DEF Arrays, ArrayState

LEMMA AsBodiesOfArrays ==
  ASSUME NEW mass \in Masses, NEW bs \in Systems(mass)
  PROVE  AsBodies(Arrays(bs)) = bs
<1>1. bs = [k \in 1..Len(mass) |-> bs[k]]
  BY DEF Systems
<1>2. \A k \in 1..Len(mass) : bs[k] = [r |-> bs[k].r, v |-> bs[k].v, m |-> mass[k]]
  BY SystemIs
<1>. DEFINE X == [k \in 1..Len(mass) |-> bs[k].r]
            U == [k \in 1..Len(mass) |-> bs[k].v]
<1>3. AsBodies(ArrayState(mass, X, U)) = [i \in DOMAIN X |-> [r |-> X[i], v |-> U[i], m |-> mass[i]]]
  BY DEF AsBodies, ArrayState
<1>4. [i \in DOMAIN X |-> [r |-> X[i], v |-> U[i], m |-> mass[i]]]
        = [k \in 1..Len(mass) |-> [r |-> bs[k].r, v |-> bs[k].v, m |-> mass[k]]]
  OBVIOUS
<1> HIDE DEF X, U
<1>5. AsBodies(Arrays(bs)) = [k \in 1..Len(mass) |-> [r |-> bs[k].r, v |-> bs[k].v, m |-> mass[k]]]
  BY <1>3, <1>4, ArraysAre DEF X, U
<1> QED
  BY <1>1, <1>2, <1>5

LEMMA ArrayWith ==
  \A mass, X, V, W : /\ ArrayState(mass, X, V).vel = V
                     /\ [ArrayState(mass, X, V) EXCEPT !.vel = W] = ArrayState(mass, X, W)
  BY DEF ArrayState

\* The arrays with new velocities for two bodies.
Rekicked(st, i, j, a, c) == [st EXCEPT !.vel[i] = a, !.vel[j] = c]

LEMMA RekickedIs ==
  ASSUME NEW mass, NEW X, NEW U, NEW i, NEW j, NEW a, NEW c
  PROVE  Rekicked(ArrayState(mass, X, U), i, j, a, c) = ArrayState(mass, X, Both(U, i, j, a, c))
<1>. DEFINE l == ArrayState(mass, X, U)
            U1 == [U EXCEPT ![i] = a]
            U2 == [U1 EXCEPT ![j] = c]
<1>2. [l EXCEPT !.vel[i] = a] = ArrayState(mass, X, U1)
  <2>1. [l EXCEPT !.vel[i] = a] = [l EXCEPT !.vel = [l.vel EXCEPT ![i] = a]]
    BY Zenon
  <2> QED
    BY <2>1, ArrayWith
<1>. DEFINE l1 == ArrayState(mass, X, U1)
<1>3. [l1 EXCEPT !.vel[j] = c] = ArrayState(mass, X, U2)
  <2>1. l1.vel = U1 /\ \A W : [l1 EXCEPT !.vel = W] = ArrayState(mass, X, W)
    BY ArrayWith
  <2>2. [l1 EXCEPT !.vel[j] = c] = [l1 EXCEPT !.vel = [l1.vel EXCEPT ![j] = c]]
    BY Zenon
  <2> HIDE DEF l1, U1
  <2> QED
    BY <2>1, <2>2
<1>4. Rekicked(l, i, j, a, c) = [[l EXCEPT !.vel[i] = a] EXCEPT !.vel[j] = c]
  BY DEF Rekicked
<1> QED
  BY <1>2, <1>3, <1>4 DEF Both

LEMMA KickIs ==
  ASSUME NEW mass \in Masses, NEW bs \in Systems(mass), NEW p \in PairsOf(mass), NEW route \in Routes
  PROVE  Kick(Arrays(bs), p, route, dt) = Arrays(Impulse(bs, p, route, dt))
<1>. DEFINE a == Forces(bs, p, route)[1]
            c == Forces(bs, p, route)[2]
            i == p[1]
            j == p[2]
            X == [k \in 1..Len(mass) |-> bs[k].r]
            U == [k \in 1..Len(mass) |-> bs[k].v]
            V == [k \in 1..Len(mass) |-> IF k = i THEN a ELSE IF k = j THEN c ELSE bs[k].v]
            st == ArrayState(mass, X, U)
            new == Kicked(bs, i, j, a, c)
<1>1. i \in 1..Len(mass) /\ j \in 1..Len(mass) /\ i # j /\ bs[i].m = mass[i] /\ bs[j].m = mass[j]
  BY SystemIs, PairIs
<1>2. Impulse(bs, p, route, dt) = new /\ new \in Systems(mass)
  BY ImpulseIs
<1>3. X[i] = bs[i].r /\ X[j] = bs[j].r /\ U[i] = bs[i].v /\ U[j] = bs[j].v /\ DOMAIN U = 1..Len(mass)
  BY <1>1
<1>4. st.pos = X /\ st.vel = U /\ st.mass = mass
  BY DEF ArrayState
<1> HIDE DEF i, j, X, U
<1>5. Kick(st, p, route, dt) = Rekicked(st, i, j, a, c)
  <2>1. a = VSub(st.vel[i], VMul(VSub(st.pos[i], st.pos[j]),
                                 FMul(st.mass[j], Mag(route, dt, Dot(VSub(st.pos[i], st.pos[j]))))))
    BY <1>1, <1>3, <1>4 DEF Forces, i, j
  <2>2. c = VAdd(st.vel[j], VMul(VSub(st.pos[i], st.pos[j]),
                                 FMul(st.mass[i], Mag(route, dt, Dot(VSub(st.pos[i], st.pos[j]))))))
    BY <1>1, <1>3, <1>4 DEF Forces, i, j
  <2> HIDE DEF a, c, st
  <2>3. Kick(st, p, route, dt) =
          Rekicked(st, i, j,
            VSub(st.vel[i], VMul(VSub(st.pos[i], st.pos[j]),
                                 FMul(st.mass[j], Mag(route, dt, Dot(VSub(st.pos[i], st.pos[j])))))),
            VAdd(st.vel[j], VMul(VSub(st.pos[i], st.pos[j]),
                                 FMul(st.mass[i], Mag(route, dt, Dot(VSub(st.pos[i], st.pos[j])))))))
    BY <1>1 DEF Kick, Rekicked, i, j
  <2> QED
    BY <2>1, <2>2, <2>3
<1> HIDE DEF a, c
<1>6. Both(U, i, j, a, c) = V
  BY <1>1 DEF Both, U
<1>7. /\ [k \in 1..Len(mass) |-> new[k].r] = X
      /\ [k \in 1..Len(mass) |-> new[k].v] = V
  <2>1. \A k \in 1..Len(mass) :
          /\ new[k].r = bs[k].r /\ (k = i => new[k].v = a) /\ (k = j => new[k].v = c)
          /\ k # i /\ k # j => new[k].v = bs[k].v
    BY <1>1, KickedBodies
  <2> HIDE DEF new
  <2> QED
    BY <2>1 DEF X
<1> HIDE DEF V, new
<1>8. Arrays(new) = ArrayState(mass, X, V)
  BY <1>2, <1>7, ArraysAre
<1>9. Arrays(bs) = st
  BY ArraysAre DEF X, U
<1> QED
  BY <1>2, <1>5, <1>6, <1>8, <1>9, RekickedIs

LEMMA DriftIs ==
  ASSUME NEW mass \in Masses, NEW bs \in Systems(mass)
  PROVE  Drift(Arrays(bs), dt) = Arrays(Moves(bs, dt))
<1>. DEFINE X == [k \in 1..Len(mass) |-> bs[k].r]
            U == [k \in 1..Len(mass) |-> bs[k].v]
            Y == [k \in 1..Len(mass) |-> VAdd(bs[k].r, VScale(dt, bs[k].v))]
            new == Moves(bs, dt)
<1>1. [k \in DOMAIN X |-> VAdd(X[k], VScale(dt, U[k]))] = Y
  OBVIOUS
<1>2. new \in Systems(mass)
  BY MovesIs
<1>3. [k \in 1..Len(mass) |-> new[k].r] = Y /\ [k \in 1..Len(mass) |-> new[k].v] = U
  <2>1. \A k \in 1..Len(mass) : new[k].r = VAdd(bs[k].r, VScale(dt, bs[k].v)) /\ new[k].v = bs[k].v
    BY MovedBodies
  <2> HIDE DEF new
  <2> QED
    BY <2>1
<1>4. Arrays(bs) = ArrayState(mass, X, U)
  BY ArraysAre
<1> HIDE DEF X, U, Y, new
<1>5. Arrays(new) = ArrayState(mass, Y, U)
  BY <1>2, <1>3, ArraysAre
<1>6. Drift(ArrayState(mass, X, U), dt) = ArrayState(mass, [k \in DOMAIN X |-> VAdd(X[k], VScale(dt, U[k]))], U)
  BY DEF Drift, ArrayState
<1> QED
  BY <1>1, <1>4, <1>5, <1>6 DEF new

LEMMA KicksAre ==
  ASSUME NEW mass \in Masses, Len(mass) >= 2, NEW bs \in Systems(mass), NEW route \in Routes
  PROVE  Kicks(Arrays(bs), route) = Arrays(Pulses(bs, Combinations(Len(mass)), route))
<1>. DEFINE pairs == Combinations(Len(mass))
            m == Len(pairs)
            F == [s \in Systems(mass) |-> Arrays(s)]
            st == Arrays(bs)
<1>1. pairs \in Seq(PairsOf(mass)) /\ st.pairs = pairs
  BY CombinationsType, ArraysAre DEF ArrayState
<1> HIDE DEF pairs
<1>2. m \in Nat /\ DOMAIN pairs = 1..m
  BY <1>1
<1>. DEFINE h == KickLaw!Trace(route, st, pairs, m)
<1>3. /\ h[0] = st /\ h[m] = KickLaw!Fold(route, st, pairs)
      /\ \A k \in 1..m : h[k] = KickOp(route, h[k - 1], pairs[k])
  <2>1. KickLaw!IsTrace(h, route, st, pairs, m)
    <3> HIDE DEF m, st
    <3> QED
      BY <1>2, KickLaw!FoldTrace
  <2> HIDE DEF h
  <2> QED
    BY <2>1 DEF KickLaw!IsTrace
<1> HIDE DEF h
<1>4. h[0] = F[bs]
  BY <1>3
<1>5. ASSUME NEW k \in 1..Len(pairs), NEW s \in Systems(mass), h[k - 1] = F[s]
      PROVE  h[k] = F[Impulse(s, pairs[k], route, dt)]
  <2>1. pairs[k] \in PairsOf(mass)
    BY <1>1
  <2>2. Impulse(s, pairs[k], route, dt) \in Systems(mass)
    BY <2>1, ImpulseIs
  <2>3. h[k] = KickOp(route, Arrays(s), pairs[k])
    BY <1>3, <1>5
  <2>4. h[k] = Arrays(Impulse(s, pairs[k], route, dt))
    BY <2>1, <2>3, KickIs DEF KickOp
  <2> QED
    BY <2>2, <2>4
<1>6. h[m] = F[Pulses(bs, pairs, route)] /\ Pulses(bs, pairs, route) \in Systems(mass)
  <2> HIDE DEF F
  <2> QED
    BY <1>1, <1>4, <1>5, PulsesFollow
<1>7. h[m] = Arrays(Pulses(bs, pairs, route))
  BY <1>6
<1> QED
  BY <1>1, <1>3, <1>7, KicksFold DEF pairs

\* The native kernel and T2 do what the loop does.
LEMMA ArraysFollow ==
  ASSUME NEW mass \in Masses, Len(mass) >= 2, NEW bs \in Systems(mass), NEW route \in Routes,
         NEW m \in Nat
  PROVE  Leaps(Arrays(bs), route, m) = Arrays(Rounds(bs, Combinations(Len(mass)), route, m))
<1>. DEFINE F == [s \in Systems(mass) |-> Arrays(s)]
            turns == [i \in 1..m |-> i]
            pairs == Combinations(Len(mass))
            st == Arrays(bs)
<1>1. pairs \in Seq(PairsOf(mass))
  BY CombinationsType
<1>. DEFINE h == LeapLaw!Trace(route, st, turns, m)
<1>2. /\ h[0] = st /\ h[m] = LeapLaw!Fold(route, st, turns)
      /\ \A k \in 1..m : h[k] = LeapOp(route, h[k - 1], turns[k])
  <2>1. LeapLaw!IsTrace(h, route, st, turns, m)
    <3>1. DOMAIN turns = 1..m
      OBVIOUS
    <3> HIDE DEF F, turns, pairs, st
    <3> QED
      BY <3>1, LeapLaw!FoldTrace
  <2> HIDE DEF h
  <2> QED
    BY <2>1 DEF LeapLaw!IsTrace
<1> HIDE DEF h
<1>3. h[0] = F[bs]
  BY <1>2
<1>4. ASSUME NEW k \in 1..m, NEW s \in Systems(mass), h[k - 1] = F[s]
      PROVE  h[k] = F[Round(s, pairs, route)]
  <2>1. h[k] = Leap(Arrays(s), route)
    BY <1>2, <1>4 DEF LeapOp
  <2>2. Pulses(s, pairs, route) \in Systems(mass)
    BY <1>1, PulsesKeep
  <2>3. h[k] = Drift(Arrays(Pulses(s, pairs, route)), dt)
    BY <2>1, KicksAre DEF Leap
  <2>4. h[k] = Arrays(Round(s, pairs, route))
    BY <2>2, <2>3, DriftIs DEF Round
  <2> QED
    BY <1>1, <2>4, RoundKeeps
<1>5. h[m] = F[Rounds(bs, pairs, route, m)] /\ Rounds(bs, pairs, route, m) \in Systems(mass)
  <2> HIDE DEF F, turns, pairs, st
  <2> QED
    BY <1>1, <1>3, <1>4, RoundsFollow
<1>6. h[m] = Arrays(Rounds(bs, pairs, route, m))
  BY <1>5
<1> QED
  BY <1>2, <1>6, LeapsFold

-----------------------------------------------------------------------------
(* The momentum is taken out of one body.                                    *)

Momentum(bs) == FoldLeft(LAMBDA s, b : VSub(s, VMul(b.v, b.m)), <<0, 0, 0>>, bs)
ArrayMomentum(st) ==
  FoldLeft(LAMBDA s, i : VSub(s, VMul(st.vel[i], st.mass[i])), <<0, 0, 0>>, [i \in DOMAIN st.mass |-> i])

MomentumOp(p, s, b) == VSub(s, VMul(b.v, b.m))
MomentumLaw == INSTANCE FoldLaws WITH Op <- MomentumOp
ArrayMomentumOp(st, s, i) == VSub(s, VMul(st.vel[i], st.mass[i]))
ArrayMomentumLaw == INSTANCE FoldLaws WITH Op <- ArrayMomentumOp

LEMMA MomentumFold == \A bs : Momentum(bs) = MomentumLaw!Fold(0, <<0, 0, 0>>, bs)
  BY DEF Momentum, MomentumOp, MomentumLaw!Fold, FoldLeft, MomentumLaw!FoldLeft,
         MapThenFoldSet, MomentumLaw!MapThenFoldSet, Max, MomentumLaw!Max

LEMMA ArrayMomentumFold ==
  \A st : ArrayMomentum(st) = ArrayMomentumLaw!Fold(st, <<0, 0, 0>>, [i \in DOMAIN st.mass |-> i])
  BY DEF ArrayMomentum, ArrayMomentumOp, ArrayMomentumLaw!Fold, FoldLeft, ArrayMomentumLaw!FoldLeft,
         MapThenFoldSet, ArrayMomentumLaw!MapThenFoldSet, Max, ArrayMomentumLaw!Max

LEMMA MomentumIs ==
  ASSUME NEW mass \in Masses, NEW bs \in Systems(mass)
  PROVE  Momentum(bs) \in Vec /\ ArrayMomentum(Arrays(bs)) = Momentum(bs)
<1>. DEFINE m == Len(mass)
            base == <<0, 0, 0>>
            st == Arrays(bs)
            turns == [i \in DOMAIN st.mass |-> i]
<1>1. m \in Nat /\ DOMAIN bs = 1..m
  BY MassList, SystemIs
<1>2. st.mass = mass /\ DOMAIN mass = 1..m /\ \A k \in 1..m : st.vel[k] = bs[k].v
  BY ArraysAre DEF ArrayState, Masses
<1>3. base \in Vec
  BY DEF Vec, Float, P
<1>4. DOMAIN turns = 1..m
  BY <1>2
<1> HIDE DEF m, base, st
<1>. DEFINE g == MomentumLaw!Trace(0, base, bs, m)
<1>5. /\ g[0] = base /\ g[m] = MomentumLaw!Fold(0, base, bs)
      /\ \A k \in 1..m : g[k] = MomentumOp(0, g[k - 1], bs[k])
  <2>1. MomentumLaw!IsTrace(g, 0, base, bs, m)
    <3> QED
      BY <1>1, MomentumLaw!FoldTrace
  <2> HIDE DEF g
  <2> QED
    BY <2>1 DEF MomentumLaw!IsTrace
<1> HIDE DEF g
<1>. DEFINE h == ArrayMomentumLaw!Trace(st, base, turns, m)
<1>6. /\ h[0] = base /\ h[m] = ArrayMomentumLaw!Fold(st, base, turns)
      /\ \A k \in 1..m : h[k] = ArrayMomentumOp(st, h[k - 1], turns[k])
  <2>1. ArrayMomentumLaw!IsTrace(h, st, base, turns, m)
    <3> HIDE DEF turns
    <3> QED
      BY <1>1, <1>4, ArrayMomentumLaw!FoldTrace
  <2> HIDE DEF h
  <2> QED
    BY <2>1 DEF ArrayMomentumLaw!IsTrace
<1> HIDE DEF h
<1>. DEFINE Good == {k \in 0..m : g[k] \in Vec /\ h[k] = g[k]}
<1>7. 0 \in Good
  BY <1>1, <1>3, <1>5, <1>6
<1>8. ASSUME NEW k \in 1..m, k - 1 \in Good PROVE k \in Good
  <2>1. g[k - 1] \in Vec /\ h[k - 1] = g[k - 1]
    BY <1>8
  <2>2. bs[k].v \in Vec /\ bs[k].m = mass[k] /\ bs[k].m \in Float
    BY SystemIs DEF m
  <2>3. turns[k] = k
    BY <1>4
  <2>4. g[k] = VSub(g[k - 1], VMul(bs[k].v, bs[k].m))
    BY <1>5 DEF MomentumOp
  <2>5. h[k] = VSub(h[k - 1], VMul(bs[k].v, bs[k].m))
    BY <1>2, <1>6, <2>2, <2>3 DEF ArrayMomentumOp
  <2>6. VMul(bs[k].v, bs[k].m) \in Vec
    BY <2>2, VecTimes
  <2>7. k \in 0..m
    BY <1>1
  <2> QED
    BY <2>1, <2>4, <2>5, <2>6, <2>7, VecAdd
<1>9. m \in Good
  <2> HIDE DEF Good
  <2> QED
    BY <1>1, <1>7, <1>8, GoesOn
<1>10. Momentum(bs) = g[m]
  BY <1>5, MomentumFold DEF base
<1>11. ArrayMomentum(st) = h[m]
  BY <1>6, ArrayMomentumFold DEF base
<1> QED
  BY <1>9, <1>10, <1>11 DEF st

LEMMA OffsetIs ==
  ASSUME NEW mass \in Masses, NEW bs \in Systems(mass), NEW ref \in 1..Len(mass)
  PROVE  /\ OffsetMomentum(bs, ref) \in Systems(mass)
         /\ RustOffset(Arrays(bs), ref) = Arrays(OffsetMomentum(bs, ref))
<1>. DEFINE w == VDiv(Momentum(bs), bs[ref].m)
            new == [bs EXCEPT ![ref].v = w]
            X == [k \in 1..Len(mass) |-> bs[k].r]
            U == [k \in 1..Len(mass) |-> bs[k].v]
            st == ArrayState(mass, X, U)
<1>1. OffsetMomentum(bs, ref) = new
  BY DEF OffsetMomentum, Momentum
<1>2. w \in Vec /\ bs[ref].m = mass[ref]
  BY MomentumIs, SystemIs, VecTimes
<1>3. Arrays(bs) = st
  BY ArraysAre
<1>4. st.mass = mass /\ st.vel = U
  BY DEF ArrayState
<1>5. RustOffset(st, ref) = [st EXCEPT !.vel[ref] = w]
  <2>1. ArrayMomentum(st) = Momentum(bs)
    BY <1>3, MomentumIs
  <2> HIDE DEF st
  <2>2. RustOffset(st, ref) = [st EXCEPT !.vel[ref] = VDiv(ArrayMomentum(st), st.mass[ref])]
    BY DEF RustOffset, ArrayMomentum
  <2> QED
    BY <1>2, <1>4, <2>1, <2>2
<1> HIDE DEF w, U
<1>6. [st EXCEPT !.vel[ref] = w] = ArrayState(mass, X, [U EXCEPT ![ref] = w])
  <2>1. \A W : [st EXCEPT !.vel = W] = ArrayState(mass, X, W)
    BY ArrayWith
  <2>2. [st EXCEPT !.vel[ref] = w] = [st EXCEPT !.vel = [st.vel EXCEPT ![ref] = w]]
    BY Zenon
  <2> QED
    BY <1>4, <2>1, <2>2
<1>7. /\ new \in Systems(mass)
      /\ \A k \in 1..Len(mass) : new[k].r = bs[k].r /\ (k # ref => new[k].v = bs[k].v)
      /\ new[ref].v = w
  <2>1. bs \in [1..Len(mass) -> BodyState] /\ \A k \in 1..Len(mass) : bs[k].m = mass[k]
    BY DEF Systems
  <2> QED
    BY <1>2, <2>1 DEF Systems, BodyState
<1> HIDE DEF new
<1>8. /\ [k \in 1..Len(mass) |-> new[k].r] = X
      /\ [k \in 1..Len(mass) |-> new[k].v] = [U EXCEPT ![ref] = w]
  BY <1>7 DEF U
<1>9. Arrays(new) = ArrayState(mass, X, [U EXCEPT ![ref] = w])
  BY <1>7, <1>8, ArraysAre
<1> QED
  BY <1>1, <1>3, <1>5, <1>6, <1>7, <1>9

-----------------------------------------------------------------------------
(* The energy, from bodies and from arrays.                                  *)

Potential(bs, pairs) == FoldLeft(LAMBDA e, p : PairEnergy(e, bs, p, "pow"), 0, pairs)
KineticSum(e0, bs) == FoldLeft(Kinetic, e0, bs)
ArrayPotential(st) ==
  FoldLeft(LAMBDA e, p : FSub(e, FDiv(FMul(st.mass[p[1]], st.mass[p[2]]),
                                      Pow05(Dot(VSub(st.pos[p[1]], st.pos[p[2]]))))), 0, st.pairs)
ArrayKinetic(e0, st) ==
  FoldLeft(LAMBDA e, i : FAdd(e, FDiv(FMul(st.mass[i], Dot(st.vel[i])), 2)), e0, [i \in DOMAIN st.mass |-> i])

PotentialOp(bs, e, p) == PairEnergy(e, bs, p, "pow")
PotentialLaw == INSTANCE FoldLaws WITH Op <- PotentialOp
KineticOp(p, e, b) == Kinetic(e, b)
KineticLaw == INSTANCE FoldLaws WITH Op <- KineticOp
ArrayPotentialOp(st, e, p) ==
  FSub(e, FDiv(FMul(st.mass[p[1]], st.mass[p[2]]), Pow05(Dot(VSub(st.pos[p[1]], st.pos[p[2]])))))
ArrayPotentialLaw == INSTANCE FoldLaws WITH Op <- ArrayPotentialOp
ArrayKineticOp(st, e, i) == FAdd(e, FDiv(FMul(st.mass[i], Dot(st.vel[i])), 2))
ArrayKineticLaw == INSTANCE FoldLaws WITH Op <- ArrayKineticOp

LEMMA PotentialFold == \A bs, pairs : Potential(bs, pairs) = PotentialLaw!Fold(bs, 0, pairs)
  BY DEF Potential, PotentialOp, PotentialLaw!Fold, FoldLeft, PotentialLaw!FoldLeft,
         MapThenFoldSet, PotentialLaw!MapThenFoldSet, Max, PotentialLaw!Max

LEMMA KineticFold == \A e0, bs : KineticSum(e0, bs) = KineticLaw!Fold(0, e0, bs)
  BY DEF KineticSum, KineticOp, Kinetic, KineticLaw!Fold, FoldLeft, KineticLaw!FoldLeft,
         MapThenFoldSet, KineticLaw!MapThenFoldSet, Max, KineticLaw!Max

LEMMA ArrayPotentialFold == \A st : ArrayPotential(st) = ArrayPotentialLaw!Fold(st, 0, st.pairs)
  BY DEF ArrayPotential, ArrayPotentialOp, ArrayPotentialLaw!Fold, FoldLeft, ArrayPotentialLaw!FoldLeft,
         MapThenFoldSet, ArrayPotentialLaw!MapThenFoldSet, Max, ArrayPotentialLaw!Max

LEMMA ArrayKineticFold ==
  \A e0, st : ArrayKinetic(e0, st) = ArrayKineticLaw!Fold(st, e0, [i \in DOMAIN st.mass |-> i])
  BY DEF ArrayKinetic, ArrayKineticOp, ArrayKineticLaw!Fold, FoldLeft, ArrayKineticLaw!FoldLeft,
         MapThenFoldSet, ArrayKineticLaw!MapThenFoldSet, Max, ArrayKineticLaw!Max

LEMMA PotentialsAgree ==
  ASSUME NEW mass \in Masses, Len(mass) >= 2, NEW bs \in Systems(mass)
  PROVE  ArrayPotential(Arrays(bs)) = Potential(bs, Combinations(Len(mass)))
<1>. DEFINE pairs == Combinations(Len(mass))
            m == Len(pairs)
            st == Arrays(bs)
<1>1. pairs \in Seq(PairsOf(mass))
  BY CombinationsType
<1>2. st.pairs = pairs /\ st.mass = mass /\ \A k \in 1..Len(mass) : st.pos[k] = bs[k].r
  BY ArraysAre DEF ArrayState
<1> HIDE DEF pairs, st
<1>3. m \in Nat /\ DOMAIN pairs = 1..m
  BY <1>1
<1>. DEFINE g == PotentialLaw!Trace(bs, 0, pairs, m)
            h == ArrayPotentialLaw!Trace(st, 0, pairs, m)
<1>4. /\ g[0] = 0 /\ g[m] = PotentialLaw!Fold(bs, 0, pairs)
      /\ \A k \in 1..m : g[k] = PotentialOp(bs, g[k - 1], pairs[k])
  <2>1. PotentialLaw!IsTrace(g, bs, 0, pairs, m)
    <3> HIDE DEF m
    <3> QED
      BY <1>3, PotentialLaw!FoldTrace
  <2> HIDE DEF g
  <2> QED
    BY <2>1 DEF PotentialLaw!IsTrace
<1>5. /\ h[0] = 0 /\ h[m] = ArrayPotentialLaw!Fold(st, 0, pairs)
      /\ \A k \in 1..m : h[k] = ArrayPotentialOp(st, h[k - 1], pairs[k])
  <2>1. ArrayPotentialLaw!IsTrace(h, st, 0, pairs, m)
    <3> HIDE DEF m
    <3> QED
      BY <1>3, ArrayPotentialLaw!FoldTrace
  <2> HIDE DEF h
  <2> QED
    BY <2>1 DEF ArrayPotentialLaw!IsTrace
<1> HIDE DEF g, h
<1>. DEFINE Good == {k \in 0..m : h[k] = g[k]}
<1>6. 0 \in Good
  BY <1>3, <1>4, <1>5
<1>7. ASSUME NEW k \in 1..m, k - 1 \in Good PROVE k \in Good
  <2>1. h[k - 1] = g[k - 1] /\ k \in 0..m
    BY <1>3, <1>7
  <2>2. pairs[k] \in PairsOf(mass)
    BY <1>1, <1>3
  <2>. DEFINE p == pairs[k]
  <2>3. p[1] \in 1..Len(mass) /\ p[2] \in 1..Len(mass)
    BY <2>2, PairIs
  <2>4. /\ bs[p[1]].m = mass[p[1]] /\ bs[p[2]].m = mass[p[2]]
        /\ st.pos[p[1]] = bs[p[1]].r /\ st.pos[p[2]] = bs[p[2]].r
    <3>1. bs[p[1]].m = mass[p[1]] /\ bs[p[2]].m = mass[p[2]]
      BY <2>3, BodyIs
    <3> QED
      BY <1>2, <2>3, <3>1
  <2>5. ArrayPotentialOp(st, g[k - 1], p) = PotentialOp(bs, g[k - 1], p)
    <3> HIDE DEF p
    <3> QED
      BY <1>2, <2>4 DEF ArrayPotentialOp, PotentialOp, PairEnergy
  <2> QED
    BY <1>4, <1>5, <2>1, <2>5
<1>8. m \in Good
  <2> HIDE DEF Good, m
  <2> QED
    BY <1>3, <1>6, <1>7, GoesOn
<1> QED
  BY <1>2, <1>4, <1>5, <1>8, PotentialFold, ArrayPotentialFold DEF pairs, st

LEMMA KineticsAgree ==
  ASSUME NEW mass \in Masses, NEW bs \in Systems(mass), NEW e0
  PROVE  ArrayKinetic(e0, Arrays(bs)) = KineticSum(e0, bs)
<1>. DEFINE m == Len(mass)
            st == Arrays(bs)
            turns == [i \in DOMAIN st.mass |-> i]
<1>1. m \in Nat /\ DOMAIN bs = 1..m
  BY MassList, SystemIs
<1>2. st.mass = mass /\ DOMAIN mass = 1..m /\ \A k \in 1..m : st.vel[k] = bs[k].v
  BY ArraysAre DEF ArrayState, Masses
<1>3. DOMAIN turns = 1..m
  BY <1>2
<1> HIDE DEF m, st
<1>. DEFINE g == KineticLaw!Trace(0, e0, bs, m)
            h == ArrayKineticLaw!Trace(st, e0, turns, m)
<1>4. /\ g[0] = e0 /\ g[m] = KineticLaw!Fold(0, e0, bs)
      /\ \A k \in 1..m : g[k] = KineticOp(0, g[k - 1], bs[k])
  <2>1. KineticLaw!IsTrace(g, 0, e0, bs, m)
    BY <1>1, KineticLaw!FoldTrace
  <2> HIDE DEF g
  <2> QED
    BY <2>1 DEF KineticLaw!IsTrace
<1>5. /\ h[0] = e0 /\ h[m] = ArrayKineticLaw!Fold(st, e0, turns)
      /\ \A k \in 1..m : h[k] = ArrayKineticOp(st, h[k - 1], turns[k])
  <2>1. ArrayKineticLaw!IsTrace(h, st, e0, turns, m)
    <3> HIDE DEF turns
    <3> QED
      BY <1>1, <1>3, ArrayKineticLaw!FoldTrace
  <2> HIDE DEF h
  <2> QED
    BY <2>1 DEF ArrayKineticLaw!IsTrace
<1> HIDE DEF g, h
<1>. DEFINE Good == {k \in 0..m : h[k] = g[k]}
<1>6. 0 \in Good
  BY <1>1, <1>4, <1>5
<1>7. ASSUME NEW k \in 1..m, k - 1 \in Good PROVE k \in Good
  <2>1. h[k - 1] = g[k - 1] /\ k \in 0..m /\ turns[k] = k
    BY <1>1, <1>3, <1>7
  <2>2. bs[k].m = mass[k] /\ st.vel[k] = bs[k].v
    BY <1>2, SystemIs DEF m
  <2>3. ArrayKineticOp(st, g[k - 1], k) = KineticOp(0, g[k - 1], bs[k])
    BY <1>2, <2>2 DEF ArrayKineticOp, KineticOp, Kinetic
  <2> QED
    BY <1>4, <1>5, <2>1, <2>3
<1>8. m \in Good
  <2> HIDE DEF Good
  <2> QED
    BY <1>1, <1>6, <1>7, GoesOn
<1> QED
  BY <1>4, <1>5, <1>8, KineticFold, ArrayKineticFold DEF st

LEMMA EnergyIs ==
  ASSUME NEW mass \in Masses, Len(mass) >= 2, NEW bs \in Systems(mass)
  PROVE  RustEnergy(Arrays(bs)) = ReportEnergy(bs, Combinations(Len(mass)))
<1>1. RustEnergy(Arrays(bs)) = ArrayKinetic(ArrayPotential(Arrays(bs)), Arrays(bs))
  BY DEF RustEnergy, ArrayKinetic, ArrayPotential
<1>2. ReportEnergy(bs, Combinations(Len(mass)))
        = KineticSum(Potential(bs, Combinations(Len(mass))), bs)
  BY DEF ReportEnergy, KineticSum, Potential
<1> QED
  BY <1>1, <1>2, PotentialsAgree, KineticsAgree

-----------------------------------------------------------------------------
(* bench_nbody: the advance in a loop, on each of the back ends.             *)

Bouts(bs, pairs, k, loops) == FoldLeft(LAMBDA s, i : StockAdvance(s, pairs, dt, k), bs, [i \in 1..loops |-> i])
LandedBouts(l, bs, k, loops) == FoldLeft(LAMBDA s, i : RunAdvance(l, s, k), bs, [i \in 1..loops |-> i])
NativeBouts(st, k, loops) == FoldLeft(LAMBDA s, i : RustAdvance(s, dt, k), st, [i \in 1..loops |-> i])

BoutOp(p, s, x) == StockAdvance(s, p[1], dt, p[2])
BoutLaw == INSTANCE FoldLaws WITH Op <- BoutOp
LandedBoutOp(p, s, x) == RunAdvance(p[1], s, p[2])
LandedBoutLaw == INSTANCE FoldLaws WITH Op <- LandedBoutOp
NativeBoutOp(p, s, x) == RustAdvance(s, dt, p)
NativeBoutLaw == INSTANCE FoldLaws WITH Op <- NativeBoutOp

LEMMA BoutsFold ==
  \A bs, pairs, k, loops :
    Bouts(bs, pairs, k, loops) = BoutLaw!Fold(<<pairs, k>>, bs, [i \in 1..loops |-> i])
  BY DEF Bouts, BoutOp, BoutLaw!Fold, FoldLeft, BoutLaw!FoldLeft,
         MapThenFoldSet, BoutLaw!MapThenFoldSet, Max, BoutLaw!Max

LEMMA LandedBoutsFold ==
  \A l, bs, k, loops :
    LandedBouts(l, bs, k, loops) = LandedBoutLaw!Fold(<<l, k>>, bs, [i \in 1..loops |-> i])
  BY DEF LandedBouts, LandedBoutOp, LandedBoutLaw!Fold, FoldLeft, LandedBoutLaw!FoldLeft,
         MapThenFoldSet, LandedBoutLaw!MapThenFoldSet, Max, LandedBoutLaw!Max

LEMMA NativeBoutsFold ==
  \A st, k, loops : NativeBouts(st, k, loops) = NativeBoutLaw!Fold(k, st, [i \in 1..loops |-> i])
  BY DEF NativeBouts, NativeBoutOp, NativeBoutLaw!Fold, FoldLeft, NativeBoutLaw!FoldLeft,
         MapThenFoldSet, NativeBoutLaw!MapThenFoldSet, Max, NativeBoutLaw!Max

\* The rolled loop, or a function generated for these masses and pairs.
Fits(l, mass) ==
  /\ l.pairs = Combinations(Len(mass))
  /\ \/ l.advance = Rolled
     \/ \E other \in Systems(mass) : l.advance = BuildAdvance(other, l.pairs)

LEMMA StockIs ==
  ASSUME NEW mass \in Masses, Len(mass) >= 2, NEW bs \in Systems(mass), NEW k \in Nat
  PROVE  /\ StockAdvance(bs, Combinations(Len(mass)), dt, k) \in Systems(mass)
         /\ RustAdvance(Arrays(bs), dt, k) = Arrays(StockAdvance(bs, Combinations(Len(mass)), dt, k))
<1>. DEFINE pairs == Combinations(Len(mass))
<1>1. pairs \in Seq(PairsOf(mass)) /\ "pow" \in Routes
  BY CombinationsType DEF Routes
<1>2. StockAdvance(bs, pairs, dt, k) = Rounds(bs, pairs, "pow", k)
  BY RoundsAre
<1>3. Rounds(bs, pairs, "pow", k) \in Systems(mass)
  BY <1>1, RoundsKeep
<1>4. RustAdvance(Arrays(bs), dt, k) = Arrays(Rounds(bs, pairs, "pow", k))
  BY <1>1, LeapsAre, ArraysFollow
<1> QED
  BY <1>2, <1>3, <1>4

LEMMA RunIs ==
  ASSUME NEW mass \in Masses, Len(mass) >= 2, NEW bs \in Systems(mass), NEW k \in Nat,
         NEW l, Fits(l, mass)
  PROVE  RunAdvance(l, bs, k) = StockAdvance(bs, Combinations(Len(mass)), dt, k)
<1>. DEFINE pairs == Combinations(Len(mass))
<1>1. pairs \in Seq(PairsOf(mass)) /\ "pow" \in Routes /\ l.pairs = pairs
  BY CombinationsType DEF Routes, Fits
<1>2. CASE l.advance = Rolled
  BY <1>1, <1>2 DEF RunAdvance, Rolled, RolledAdvance
<1>3. CASE \E other \in Systems(mass) : l.advance = BuildAdvance(other, l.pairs)
  <2>1. PICK other \in Systems(mass) : l.advance = BuildAdvance(other, l.pairs)
    BY <1>3
  <2>2. l.advance.kind = "generated" /\ l.advance.src = Source(other, pairs)
    BY <1>1, <2>1 DEF BuildAdvance
  <2>3. RunAdvance(l, bs, k) = Execute(Source(other, pairs), bs, dt, k, "pow")
    BY <2>2 DEF RunAdvance, GeneratedAdvance
  <2> HIDE DEF pairs
  <2>4. Execute(Source(other, pairs), bs, dt, k, "pow") = Rounds(bs, pairs, "pow", k)
    BY <1>1, GeneratedIs
  <2>5. StockAdvance(bs, pairs, dt, k) = Rounds(bs, pairs, "pow", k)
    BY RoundsAre
  <2> QED
    BY <2>3, <2>4, <2>5 DEF pairs
<1> QED
  BY <1>2, <1>3 DEF Fits

\* Both back ends arrive where the stock program does.
LEMMA BoutsAgree ==
  ASSUME NEW mass \in Masses, Len(mass) >= 2, NEW bs \in Systems(mass), NEW k \in Nat,
         NEW loops \in Nat, NEW l
  PROVE  LET new == Bouts(bs, Combinations(Len(mass)), k, loops) IN
         /\ new \in Systems(mass)
         /\ NativeBouts(Arrays(bs), k, loops) = Arrays(new)
         /\ Fits(l, mass) => LandedBouts(l, bs, k, loops) = new
<1>. DEFINE pairs == Combinations(Len(mass))
            turns == [i \in 1..loops |-> i]
            st == Arrays(bs)
            p == <<pairs, k>>
            q == <<l, k>>
            g == BoutLaw!Trace(p, bs, turns, loops)
            h == NativeBoutLaw!Trace(k, st, turns, loops)
            f == LandedBoutLaw!Trace(q, bs, turns, loops)
<1>1. DOMAIN turns = 1..loops
  OBVIOUS
<1>2. /\ g[0] = bs /\ g[loops] = BoutLaw!Fold(p, bs, turns)
      /\ \A i \in 1..loops : g[i] = BoutOp(p, g[i - 1], turns[i])
  <2>1. BoutLaw!IsTrace(g, p, bs, turns, loops)
    <3> HIDE DEF turns, p
    <3> QED
      BY <1>1, BoutLaw!FoldTrace
  <2> HIDE DEF g
  <2> QED
    BY <2>1 DEF BoutLaw!IsTrace
<1>3. /\ h[0] = st /\ h[loops] = NativeBoutLaw!Fold(k, st, turns)
      /\ \A i \in 1..loops : h[i] = NativeBoutOp(k, h[i - 1], turns[i])
  <2>1. NativeBoutLaw!IsTrace(h, k, st, turns, loops)
    <3> HIDE DEF turns, st
    <3> QED
      BY <1>1, NativeBoutLaw!FoldTrace
  <2> HIDE DEF h
  <2> QED
    BY <2>1 DEF NativeBoutLaw!IsTrace
<1>4. /\ f[0] = bs /\ f[loops] = LandedBoutLaw!Fold(q, bs, turns)
      /\ \A i \in 1..loops : f[i] = LandedBoutOp(q, f[i - 1], turns[i])
  <2>1. LandedBoutLaw!IsTrace(f, q, bs, turns, loops)
    <3> HIDE DEF turns, q
    <3> QED
      BY <1>1, LandedBoutLaw!FoldTrace
  <2> HIDE DEF f
  <2> QED
    BY <2>1 DEF LandedBoutLaw!IsTrace
<1> HIDE DEF f, g, h
<1>. DEFINE Good == {i \in 0..loops : /\ g[i] \in Systems(mass) /\ h[i] = Arrays(g[i])
                                      /\ Fits(l, mass) => f[i] = g[i]}
<1>5. 0 \in Good
  BY <1>2, <1>3, <1>4
<1>6. ASSUME NEW i \in 1..loops, i - 1 \in Good PROVE i \in Good
  <2>. DEFINE s == g[i - 1]
  <2>1. s \in Systems(mass) /\ h[i - 1] = Arrays(s) /\ (Fits(l, mass) => f[i - 1] = s)
    BY <1>6
  <2>2. g[i] = StockAdvance(s, pairs, dt, k)
    BY <1>2 DEF BoutOp
  <2>3. h[i] = RustAdvance(Arrays(s), dt, k)
    BY <1>3, <2>1 DEF NativeBoutOp
  <2>4. Fits(l, mass) => f[i] = RunAdvance(l, s, k)
    BY <1>4, <2>1 DEF LandedBoutOp
  <2> HIDE DEF s
  <2>5. g[i] \in Systems(mass) /\ h[i] = Arrays(g[i])
    BY <2>1, <2>2, <2>3, StockIs
  <2>6. Fits(l, mass) => f[i] = g[i]
    BY <2>1, <2>2, <2>4, RunIs
  <2>7. i \in 0..loops
    OBVIOUS
  <2> QED
    BY <2>5, <2>6, <2>7
<1>7. loops \in Good
  <2> HIDE DEF Good
  <2> QED
    BY <1>5, <1>6, GoesOn
<1>8. Bouts(bs, pairs, k, loops) = g[loops]
  BY <1>2, BoutsFold
<1>9. NativeBouts(st, k, loops) = h[loops]
  BY <1>3, NativeBoutsFold
<1>10. LandedBouts(l, bs, k, loops) = f[loops]
  BY <1>4, LandedBoutsFold
<1> QED
  BY <1>7, <1>8, <1>9, <1>10

-----------------------------------------------------------------------------
(* The body tables.                                                          *)

BodyOf(sd, k) == IF k <= DefaultBodies THEN Body(sd, k) ELSE Body(0, k)
Table(sd, k) == [i \in 1..k |-> BodyOf(sd, i).m]

LEMMA BodyType == \A sd, k \in Nat : Body(sd, k) \in BodyState
<1> SUFFICES ASSUME NEW sd \in Nat, NEW k \in Nat PROVE Body(sd, k) \in BodyState
  OBVIOUS
<1>1. \A x \in Nat : x % P \in Float
  BY DEF Float, P
<1>2. sd * k \in Nat /\ 11 * k * k \in Nat
  OBVIOUS
<1>. DEFINE a == sd * k
            c == 11 * k * k
<1>3. a \in Nat /\ c \in Nat
  BY <1>2
<1> HIDE DEF a, c
<1>4. /\ sd + 7 * k \in Nat /\ 2 * sd + c \in Nat /\ 5 * k + 3 \in Nat
      /\ 3 * sd + 5 * k + 1 \in Nat /\ 13 * k \in Nat /\ a + 2 \in Nat /\ 17 * k + sd \in Nat
  BY <1>3
<1>5. Body(sd, k) = [r |-> <<(sd + 7 * k) % P, (2 * sd + c) % P, (5 * k + 3) % P>>,
                     v |-> <<(3 * sd + 5 * k + 1) % P, (13 * k) % P, (a + 2) % P>>,
                     m |-> (17 * k + sd) % P]
  BY DEF Body, a, c
<1> QED
  BY <1>1, <1>4, <1>5 DEF BodyState, Vec

LEMMA TableIs ==
  ASSUME NEW sd \in Nat, NEW k \in Nat
  PROVE  /\ Table(sd, k) \in Masses /\ Len(Table(sd, k)) = k
         /\ \A i \in 1..k : BodyOf(sd, i) \in BodyState /\ Table(sd, k)[i] = BodyOf(sd, i).m
<1>1. \A i \in 1..k : BodyOf(sd, i) \in BodyState
  BY BodyType DEF BodyOf
<1>2. \A i \in 1..k : BodyOf(sd, i).m \in Float
  BY <1>1 DEF BodyState
<1> QED
  BY <1>1, <1>2 DEF Table, Masses

LEMMA FreshIs ==
  ASSUME NEW sd \in Nat, NEW k \in Nat, k >= DefaultBodies
  PROVE  /\ FreshBodies(sd, k) = [i \in 1..k |-> BodyOf(sd, i)]
         /\ FreshBodies(sd, k) \in Systems(Table(sd, k))
         /\ Literals(sd) = FreshBodies(sd, DefaultBodies)
         /\ \A i \in 1..(k - DefaultBodies) : ExtraBodies(k)[i] = BodyOf(sd, DefaultBodies + i)
<1>1. DefaultBodies \in Nat /\ DefaultBodies >= 2
  BY NBodyAssumption
<1>2. Literals(sd) = [i \in 1..DefaultBodies |-> BodyOf(sd, i)]
  BY <1>1 DEF Literals, BodyOf
<1>3. \A i \in 1..(k - DefaultBodies) : ExtraBodies(k)[i] = BodyOf(sd, DefaultBodies + i)
  BY <1>1 DEF ExtraBodies, BodyOf
<1>4. ASSUME k = DefaultBodies PROVE FreshBodies(sd, k) = [i \in 1..k |-> BodyOf(sd, i)]
  BY <1>2, <1>4 DEF FreshBodies
<1>5. ASSUME k # DefaultBodies PROVE FreshBodies(sd, k) = [i \in 1..k |-> BodyOf(sd, i)]
  <2>. DEFINE l == Literals(sd)
              e == ExtraBodies(k)
              rest == k - DefaultBodies
  <2>1. rest \in Nat /\ DefaultBodies + rest = k
    BY <1>1
  <2>2. l \in Seq({BodyOf(sd, i) : i \in 1..k}) /\ Len(l) = DefaultBodies
    BY <1>1, <1>2
  <2>3. e \in Seq({BodyOf(sd, i) : i \in 1..k}) /\ Len(e) = rest
    <3>1. e = [i \in 1..rest |-> Body(0, DefaultBodies + i)]
      BY DEF ExtraBodies
    <3>2. \A i \in 1..rest : e[i] = BodyOf(sd, DefaultBodies + i) /\ DefaultBodies + i \in 1..k
      BY <1>1, <1>3, <2>1
    <3> HIDE DEF rest, e
    <3> QED
      BY <2>1, <3>1, <3>2
  <2>4. FreshBodies(sd, k) = l \o e
    BY <1>5 DEF FreshBodies
  <2>5. /\ l \o e \in Seq({BodyOf(sd, i) : i \in 1..k}) /\ Len(l \o e) = k
        /\ \A i \in 1..k : (l \o e)[i] = IF i <= DefaultBodies THEN l[i] ELSE e[i - DefaultBodies]
    <3>. DEFINE T == {BodyOf(sd, i) : i \in 1..k}
    <3> HIDE DEF l, e, rest, T
    <3>1. l \in Seq(T) /\ e \in Seq(T) /\ Len(l) + Len(e) = k
      BY <1>1, <2>1, <2>2, <2>3 DEF T
    <3>2. l \o e \in Seq(T) /\ Len(l \o e) = k
      BY <3>1, ConcatProperties
    <3>3. \A i \in 1..Len(l) + Len(e) : (l \o e)[i] = IF i <= Len(l) THEN l[i] ELSE e[i - Len(l)]
      BY <3>1, ConcatProperties
    <3> QED
      BY <2>2, <3>1, <3>2, <3>3 DEF T
  <2>. DEFINE both == l \o e
  <2>9. /\ both \in Seq({BodyOf(sd, i) : i \in 1..k}) /\ Len(both) = k
        /\ \A i \in 1..k : both[i] = IF i <= DefaultBodies THEN l[i] ELSE e[i - DefaultBodies]
    BY <2>5
  <2>6. \A i \in 1..k : both[i] = BodyOf(sd, i)
    <3> TAKE i \in 1..k
    <3>3. both[i] = IF i <= DefaultBodies THEN l[i] ELSE e[i - DefaultBodies]
      <4> HIDE DEF l, e, both
      <4> QED
        BY <2>9
    <3>1. CASE i <= DefaultBodies
      <4>1. l[i] = BodyOf(sd, i)
        BY <1>1, <1>2, <3>1
      <4> HIDE DEF l, e, both
      <4> QED
        BY <3>3, <3>1, <4>1
    <3>2. CASE i > DefaultBodies
      <4>1. i - DefaultBodies \in 1..rest /\ DefaultBodies + (i - DefaultBodies) = i
        BY <1>1, <3>2
      <4>2. e[i - DefaultBodies] = BodyOf(sd, i)
        BY <1>3, <4>1
      <4>3. ~(i <= DefaultBodies)
        BY <1>1, <3>2
      <4>. DEFINE x == i - DefaultBodies
      <4>4. e[x] = BodyOf(sd, i)
        BY <4>2
      <4>5. both[i] = IF i <= DefaultBodies THEN l[i] ELSE e[x]
        BY <3>3
      <4> HIDE DEF l, e, both, x
      <4>6. both[i] = e[x]
        BY <4>3, <4>5
      <4> QED
        BY <4>4, <4>6
    <3>4. i <= DefaultBodies \/ i > DefaultBodies
      BY <1>1
    <3> HIDE DEF both
    <3> QED
      BY <3>1, <3>2, <3>4
  <2>7. both = [i \in 1..k |-> both[i]]
    <3> HIDE DEF l, e, both
    <3> QED
      BY <2>9
  <2>8. both = [i \in 1..k |-> BodyOf(sd, i)]
    <3> HIDE DEF l, e, both
    <3> QED
      BY <2>6, <2>7
  <2> QED
    BY <2>4, <2>8
<1>6. FreshBodies(sd, k) = [i \in 1..k |-> BodyOf(sd, i)]
  BY <1>4, <1>5
<1>7. FreshBodies(sd, k) \in Systems(Table(sd, k))
  BY <1>6, TableIs DEF Systems
<1>8. Literals(sd) = FreshBodies(sd, DefaultBodies)
  BY DEF FreshBodies
<1> QED
  BY <1>3, <1>6, <1>7, <1>8

-----------------------------------------------------------------------------
(* The two programs, side by side.                                           *)

\* k bodies from the tables of sd, the same ones in both programs, and an
\* advance() that was made for them.
Linked(l, s, sd, k) ==
  /\ k \in Nat /\ k >= DefaultBodies
  /\ s = [bodies |-> s.bodies, pairs |-> Combinations(k)]
  /\ s.bodies \in Systems(Table(sd, k))
  /\ l = [backend |-> l.backend, limit |-> l.limit, bodies |-> s.bodies,
          pairs |-> Combinations(k), advance |-> l.advance]
  /\ Fits(l, Table(sd, k))

WithBodies(l, bs) == [l EXCEPT !.bodies = bs]

LEMMA LinkedWith ==
  ASSUME NEW sd \in Nat, NEW k, NEW l, NEW s, Linked(l, s, sd, k), NEW bs \in Systems(Table(sd, k))
  PROVE  Linked(WithBodies(l, bs), WithBodies(s, bs), sd, k)
<1>1. k \in Nat /\ k >= DefaultBodies
  BY DEF Linked
<1>2. s = [bodies |-> s.bodies, pairs |-> Combinations(k)]
  BY DEF Linked
<1>3. l = [backend |-> l.backend, limit |-> l.limit, bodies |-> s.bodies,
           pairs |-> Combinations(k), advance |-> l.advance]
  BY DEF Linked
<1>4. Fits(l, Table(sd, k))
  BY DEF Linked
<1>5. WithBodies(s, bs) = [bodies |-> bs, pairs |-> Combinations(k)]
  BY <1>2 DEF WithBodies
<1>6. WithBodies(l, bs) = [backend |-> l.backend, limit |-> l.limit, bodies |-> bs,
                           pairs |-> Combinations(k), advance |-> l.advance]
  BY <1>3 DEF WithBodies
<1>7. WithBodies(l, bs).pairs = l.pairs /\ WithBodies(l, bs).advance = l.advance
  BY <1>3, <1>6
<1>8. Fits(WithBodies(l, bs), Table(sd, k))
  BY <1>4, <1>7 DEF Fits
<1> HIDE DEF WithBodies
<1>. DEFINE w == WithBodies(l, bs)
            z == WithBodies(s, bs)
<1>9. w.backend = l.backend /\ w.limit = l.limit /\ w.advance = l.advance
  BY <1>6
<1>10. z.bodies = bs
  BY <1>5
<1>11. Linked(w, z, sd, k)
  BY <1>1, <1>5, <1>6, <1>8, <1>9, <1>10 DEF Linked
<1> QED
  BY <1>11

LEMMA LinkedIs ==
  ASSUME NEW sd \in Nat, NEW k, NEW l, NEW s, Linked(l, s, sd, k)
  PROVE  /\ l.bodies = s.bodies /\ l.pairs = s.pairs /\ s.pairs = Combinations(k)
         /\ k \in Nat /\ k >= DefaultBodies /\ k >= 2
         /\ Table(sd, k) \in Masses /\ Len(Table(sd, k)) = k
         /\ s.bodies \in Systems(Table(sd, k)) /\ Len(s.bodies) = k /\ DOMAIN s.bodies = 1..k
         /\ Fits(l, Table(sd, k))
<1>1. k \in Nat /\ k >= DefaultBodies /\ DefaultBodies \in Nat /\ DefaultBodies >= 2
  BY NBodyAssumption DEF Linked
<1>2. l.bodies = s.bodies /\ l.pairs = Combinations(k)
  BY DEF Linked
<1>3. s.pairs = Combinations(k)
  BY DEF Linked
<1>4. Table(sd, k) \in Masses /\ Len(Table(sd, k)) = k
  BY <1>1, TableIs
<1>5. s.bodies \in Systems(Table(sd, k)) /\ Fits(l, Table(sd, k))
  BY DEF Linked
<1>6. Len(s.bodies) = k /\ DOMAIN s.bodies = 1..k
  BY <1>4, <1>5, SystemIs
<1> QED
  BY <1>1, <1>2, <1>3, <1>4, <1>5, <1>6

LEMMA LinkedStart ==
  ASSUME NEW sd \in Nat, NEW b, NEW limit
  PROVE  Linked(LandedModule(b, limit, sd), StockModule(sd), sd, DefaultBodies)
<1>. DEFINE l == LandedModule(b, limit, sd)
            s == StockModule(sd)
            mass == Table(sd, DefaultBodies)
            pairs == Combinations(DefaultBodies)
<1>1. DefaultBodies \in Nat /\ DefaultBodies >= DefaultBodies
  BY NBodyAssumption
<1>2. Literals(sd) \in Systems(mass)
  BY <1>1, FreshIs
<1>3. Len(mass) = DefaultBodies
  BY <1>1, TableIs
<1>4. s = [bodies |-> Literals(sd), pairs |-> pairs]
  BY DEF StockModule
<1>5. l = [backend |-> b, limit |-> limit, bodies |-> Literals(sd), pairs |-> pairs,
           advance |-> BuildAdvance(Literals(sd), pairs)]
  BY DEF LandedModule
<1> HIDE DEF l, s, mass, pairs
<1>6. l.pairs = pairs /\ l.advance = BuildAdvance(Literals(sd), pairs) /\ l.backend = b /\ l.limit = limit
  BY <1>5
<1>7. Fits(l, mass)
  BY <1>2, <1>3, <1>6 DEF Fits, pairs
<1>8. s.bodies = Literals(sd)
  BY <1>4
<1> QED
  BY <1>1, <1>2, <1>4, <1>5, <1>6, <1>7, <1>8 DEF Linked, l, s, mass, pairs

LEMMA LinkedAdvance ==
  ASSUME NEW sd \in Nat, NEW k, NEW l, NEW s, Linked(l, s, sd, k), NEW m \in Nat
  PROVE  /\ Linked(Advanced(l, m), StockAdvanced(s, m), sd, k)
         /\ Advanced(l, m).bodies = StockAdvanced(s, m).bodies
<1>. DEFINE mass == Table(sd, k)
            new == StockAdvance(s.bodies, Combinations(k), dt, m)
<1>1. /\ mass \in Masses /\ Len(mass) = k /\ k >= 2 /\ s.bodies \in Systems(mass) /\ Fits(l, mass)
      /\ l.bodies = s.bodies /\ s.pairs = Combinations(k)
  BY LinkedIs
<1> HIDE DEF mass
<1>2. new \in Systems(mass) /\ RunAdvance(l, s.bodies, m) = new
  BY <1>1, StockIs, RunIs
<1>3. Advanced(l, m) = WithBodies(l, new)
  BY <1>1, <1>2 DEF Advanced, WithBodies
<1>4. StockAdvanced(s, m) = WithBodies(s, new)
  BY <1>1 DEF StockAdvanced, WithBodies
<1> HIDE DEF new
<1>5. Linked(WithBodies(l, new), WithBodies(s, new), sd, k)
  BY <1>2, LinkedWith DEF mass
<1> QED
  BY <1>3, <1>4, <1>5, LinkedIs

\* Writing the arrays' positions and velocities back into the bodies gives the
\* system the arrays are the image of.
Overwritten(bs, X, U) == [i \in DOMAIN bs |-> [bs[i] EXCEPT !.r = X[i], !.v = U[i]]]

LEMMA ReadBack ==
  ASSUME NEW mass \in Masses, NEW bs \in Systems(mass), NEW new \in Systems(mass)
  PROVE  Overwritten(bs, Arrays(new).pos, Arrays(new).vel) = new
<1>1. DOMAIN bs = 1..Len(mass) /\ Len(new) = Len(mass)
  BY SystemIs
<1>2. ASSUME NEW i \in 1..Len(mass)
      PROVE  [bs[i] EXCEPT !.r = Arrays(new).pos[i], !.v = Arrays(new).vel[i]] = new[i]
  <2>1. Arrays(new).pos[i] = new[i].r /\ Arrays(new).vel[i] = new[i].v
    BY <1>1 DEF Arrays
  <2>2. bs[i] \in BodyState /\ new[i] \in BodyState /\ bs[i].m = new[i].m
    BY SystemIs
  <2>3. [bs[i] EXCEPT !.r = new[i].r, !.v = new[i].v] = new[i]
    BY <2>2, BodyReplaced
  <2> QED
    BY <2>1, <2>3
<1>3. new = [i \in 1..Len(mass) |-> new[i]]
  BY DEF Systems
<1> QED
  BY <1>1, <1>2, <1>3 DEF Overwritten

LEMMA LinkedBench ==
  ASSUME NEW sd \in Nat, NEW k, NEW l, NEW s, Linked(l, s, sd, k),
         NEW loops \in Nat, NEW m \in Nat, NEW ref \in DOMAIN s.bodies
  PROVE  Linked(BenchNBody(l, ref, loops, m), StockBench(s, ref, loops, m), sd, k)
<1>. DEFINE mass == Table(sd, k)
            first == OffsetMomentum(s.bodies, ref)
            new == Bouts(first, Combinations(k), m, loops)
<1>1. /\ mass \in Masses /\ Len(mass) = k /\ k >= 2 /\ s.bodies \in Systems(mass) /\ Fits(l, mass)
      /\ l.bodies = s.bodies /\ s.pairs = Combinations(k) /\ ref \in 1..Len(mass)
  BY LinkedIs
<1> HIDE DEF mass
<1>2. first \in Systems(mass) /\ RustOffset(Arrays(s.bodies), ref) = Arrays(first)
  BY <1>1, OffsetIs
<1>3. StockBench(s, ref, loops, m) = WithBodies(s, new)
  BY <1>1 DEF StockBench, Iterate, Bouts, WithBodies
<1>4. PythonBench(l, ref, loops, m) = WithBodies(l, LandedBouts(l, first, m, loops))
  BY <1>1 DEF PythonBench, Iterate, LandedBouts, WithBodies
<1>5. ASSUME NativeBouts(RustOffset(Arrays(s.bodies), ref), m, loops) = Arrays(new)
      PROVE  NativeBench(l, ref, loops, m)
               = WithBodies(l, Overwritten(s.bodies, Arrays(new).pos, Arrays(new).vel))
  <2>. DEFINE st == NativeBouts(RustOffset(Arrays(s.bodies), ref), m, loops)
  <2>1. NativeBench(l, ref, loops, m)
          = [l EXCEPT !.bodies = [i \in DOMAIN @ |-> [@[i] EXCEPT !.r = st.pos[i], !.v = st.vel[i]]]]
    BY <1>1 DEF NativeBench, Iterate, NativeBouts
  <2> HIDE DEF st
  <2>2. st = Arrays(new)
    BY <1>5 DEF st
  <2> HIDE DEF new
  <2> QED
    BY <1>1, <2>1, <2>2 DEF WithBodies, Overwritten
<1> HIDE DEF first
<1>6. /\ new \in Systems(mass)
      /\ NativeBouts(Arrays(first), m, loops) = Arrays(new)
      /\ LandedBouts(l, first, m, loops) = new
  <2>1. /\ mass \in Masses /\ Len(mass) >= 2 /\ first \in Systems(mass) /\ Fits(l, mass)
        /\ new = Bouts(first, Combinations(Len(mass)), m, loops)
    BY <1>1, <1>2
  <2> HIDE DEF new
  <2>2. new \in Systems(mass)
    BY <2>1, BoutsAgree
  <2>3. NativeBouts(Arrays(first), m, loops) = Arrays(new)
    BY <2>1, BoutsAgree
  <2>4. LandedBouts(l, first, m, loops) = new
    BY <2>1, BoutsAgree
  <2> QED
    BY <2>2, <2>3, <2>4
<1> HIDE DEF new
<1>7. NativeBench(l, ref, loops, m) = WithBodies(l, new)
  <2>1. NativeBouts(RustOffset(Arrays(s.bodies), ref), m, loops) = Arrays(new)
    BY <1>2, <1>6
  <2>2. Overwritten(s.bodies, Arrays(new).pos, Arrays(new).vel) = new
    BY <1>1, <1>6, ReadBack
  <2>3. NativeBench(l, ref, loops, m)
          = WithBodies(l, Overwritten(s.bodies, Arrays(new).pos, Arrays(new).vel))
    BY <1>5, <2>1
  <2> QED
    BY <2>2, <2>3
<1>8. BenchNBody(l, ref, loops, m) = WithBodies(l, new)
  BY <1>4, <1>6, <1>7 DEF BenchNBody
<1>9. Linked(WithBodies(l, new), WithBodies(s, new), sd, k)
  BY <1>6, LinkedWith DEF mass
<1> QED
  BY <1>3, <1>8, <1>9

LEMMA LinkedReset ==
  ASSUME NEW sd \in Nat, NEW k, NEW l, NEW s, Linked(l, s, sd, k)
  PROVE  Linked(Restored(l, sd), T0State(sd, Len(s.bodies)), sd, k)
<1>. DEFINE mass == Table(sd, k)
            fresh == FreshBodies(sd, k)
            put == [i \in DOMAIN fresh |-> [s.bodies[i] EXCEPT !.r = fresh[i].r, !.v = fresh[i].v]]
            new == OffsetMomentum(fresh, 1)
<1>1. /\ mass \in Masses /\ Len(mass) = k /\ k >= 2 /\ k \in Nat /\ k >= DefaultBodies
      /\ s.bodies \in Systems(mass) /\ Len(s.bodies) = k /\ l.bodies = s.bodies
  BY LinkedIs
<1>2. fresh \in Systems(mass)
  BY <1>1, FreshIs
<1>3. Restored(l, sd) = WithBodies(l, OffsetMomentum(put, 1))
  BY <1>1 DEF Restored, WithBodies
<1>4. T0State(sd, Len(s.bodies)) = [bodies |-> new, pairs |-> Combinations(k)]
  BY <1>1 DEF T0State
<1> HIDE DEF mass, fresh
<1>5. put = fresh
  <2>1. DOMAIN fresh = 1..Len(mass)
    BY <1>1, <1>2, SystemIs
  <2>2. ASSUME NEW i \in 1..Len(mass)
        PROVE  [s.bodies[i] EXCEPT !.r = fresh[i].r, !.v = fresh[i].v] = fresh[i]
    <3>1. s.bodies[i] \in BodyState /\ s.bodies[i].m = mass[i]
      BY <1>1, BodyIs
    <3>2. fresh[i] \in BodyState /\ fresh[i].m = mass[i]
      BY <1>1, <1>2, BodyIs
    <3>3. s.bodies[i].m = fresh[i].m
      BY <3>1, <3>2
    <3> QED
      BY <3>1, <3>2, <3>3, BodyReplaced
  <2>3. fresh = [i \in 1..Len(mass) |-> fresh[i]]
    BY <1>2 DEF Systems
  <2> QED
    BY <2>1, <2>2, <2>3
<1> HIDE DEF put
<1>6. 1 \in 1..Len(mass)
  BY <1>1
<1>7. new \in Systems(mass)
  BY <1>1, <1>2, <1>6, OffsetIs
<1> HIDE DEF new
<1>8. WithBodies(s, new) = [bodies |-> new, pairs |-> Combinations(k)]
  <2>1. s = [bodies |-> s.bodies, pairs |-> Combinations(k)]
    BY DEF Linked
  <2> QED
    BY <2>1 DEF WithBodies
<1>9. Linked(WithBodies(l, new), WithBodies(s, new), sd, k)
  BY <1>7, LinkedWith DEF mass
<1>10. OffsetMomentum(put, 1) = new
  BY <1>5 DEF new
<1> QED
  BY <1>3, <1>4, <1>8, <1>9, <1>10

\* A fresh body takes the place of the one under its name.
LEMMA UpdatedIs ==
  ASSUME NEW sd \in Nat, NEW k \in Nat, k >= DefaultBodies, NEW bs \in Systems(Table(sd, k)),
         NEW m \in Nat, m > DefaultBodies
  PROVE  \E j \in Nat : j >= DefaultBodies /\ Updated(bs, m) \in Systems(Table(sd, j))
<1>. DEFINE j == IF k > m THEN k ELSE m
            new == Updated(bs, m)
<1>1. DefaultBodies \in Nat /\ j \in Nat /\ j >= DefaultBodies /\ ~(m <= DefaultBodies)
  BY NBodyAssumption
<1>2. /\ Table(sd, k) \in Masses /\ Len(Table(sd, k)) = k
      /\ Table(sd, j) \in Masses /\ Len(Table(sd, j)) = j
      /\ \A i \in 1..j : BodyOf(sd, i) \in BodyState /\ Table(sd, j)[i] = BodyOf(sd, i).m
      /\ \A i \in 1..k : Table(sd, k)[i] = BodyOf(sd, i).m
  BY <1>1, TableIs
<1>3. Len(bs) = k /\ \A i \in 1..k : bs[i] \in BodyState /\ bs[i].m = BodyOf(sd, i).m
  BY <1>2, SystemIs
<1>4. new = [i \in 1..j |-> IF i \in DefaultBodies+1..m THEN ExtraBodies(m)[i - DefaultBodies] ELSE bs[i]]
  BY <1>1, <1>3 DEF Updated
<1>5. \A i \in 1..(m - DefaultBodies) : ExtraBodies(m)[i] = BodyOf(sd, DefaultBodies + i)
  <2>1. m >= DefaultBodies
    BY <1>1
  <2> HIDE DEF j, new
  <2> QED
    BY <2>1, FreshIs
<1> HIDE DEF new
<1>6. ASSUME NEW i \in 1..j PROVE new[i] \in BodyState /\ new[i].m = BodyOf(sd, i).m
  <2>1. ASSUME i \in DefaultBodies+1..m PROVE new[i] = BodyOf(sd, i)
    <3>1. i - DefaultBodies \in 1..(m - DefaultBodies) /\ DefaultBodies + (i - DefaultBodies) = i
      BY <1>1, <2>1
    <3>2. ExtraBodies(m)[i - DefaultBodies] = BodyOf(sd, i)
      BY <1>5, <3>1
    <3>3. new[i] = ExtraBodies(m)[i - DefaultBodies]
      BY <1>4, <2>1
    <3> QED
      BY <3>2, <3>3
  <2>2. ASSUME ~(i \in DefaultBodies+1..m)
        PROVE  new[i] = bs[i] /\ i \in 1..k
    BY <1>1, <1>4, <2>2
  <2> HIDE DEF j
  <2> QED
    BY <1>2, <1>3, <2>1, <2>2
<1>7. new \in Systems(Table(sd, j))
  <2>1. new = [i \in 1..j |-> new[i]]
    BY <1>4
  <2> HIDE DEF j
  <2> QED
    BY <1>2, <1>6, <2>1 DEF Systems
<1> HIDE DEF j
<1> QED
  BY <1>1, <1>7 DEF new

LEMMA LinkedConfigure ==
  ASSUME NEW sd \in Nat, NEW k, NEW l, NEW s, Linked(l, s, sd, k), NEW m \in Nat
  PROVE  \E j \in Nat : Linked(Configured(l, m), ScaledStock(s, m), sd, j)
<1>1. /\ k \in Nat /\ k >= DefaultBodies /\ Len(s.bodies) = k /\ l.bodies = s.bodies
      /\ s.bodies \in Systems(Table(sd, k)) /\ DefaultBodies \in Nat
  <2>1. k \in Nat /\ k >= DefaultBodies /\ Len(s.bodies) = k
    BY LinkedIs
  <2>2. l.bodies = s.bodies
    BY LinkedIs
  <2>3. s.bodies \in Systems(Table(sd, k))
    BY LinkedIs
  <2> QED
    BY <2>1, <2>2, <2>3, NBodyAssumption
<1>2. CASE m <= DefaultBodies
  <2>1. Configured(l, m) = l
    BY <1>2 DEF Configured
  <2>2. ScaledStock(s, m) = [bodies |-> s.bodies, pairs |-> Combinations(k)]
    BY <1>1, <1>2 DEF ScaledStock, Updated
  <2>3. s = [bodies |-> s.bodies, pairs |-> Combinations(k)]
    BY DEF Linked
  <2>4. ScaledStock(s, m) = s
    BY <2>2, <2>3
  <2> QED
    BY <1>1, <2>1, <2>4
<1>3. CASE m > DefaultBodies
  <2>. DEFINE bs == Updated(s.bodies, m)
              x == Configured(l, m)
              y == ScaledStock(s, m)
  <2>1. PICK j \in Nat : j >= DefaultBodies /\ bs \in Systems(Table(sd, j))
    BY <1>1, <1>3, UpdatedIs
  <2>2. Len(bs) = j /\ Len(Table(sd, j)) = j
    BY <2>1, TableIs, SystemIs
  <2>. DEFINE pairs == Combinations(j)
              adv == Rebound(l, bs, pairs)
  <2>3. y = [bodies |-> bs, pairs |-> pairs]
    BY <2>2 DEF ScaledStock
  <2>4. x = [l EXCEPT !.bodies = bs, !.pairs = pairs, !.advance = adv]
    BY <1>1, <1>3, <2>2 DEF Configured
  <2>5. l = [backend |-> l.backend, limit |-> l.limit, bodies |-> s.bodies,
             pairs |-> Combinations(k), advance |-> l.advance]
    BY DEF Linked
  <2>6. adv = Rolled \/ adv = BuildAdvance(bs, pairs)
    BY DEF Rebound
  <2> HIDE DEF bs, x, y, pairs, adv
  <2>7. x = [backend |-> l.backend, limit |-> l.limit, bodies |-> bs, pairs |-> pairs, advance |-> adv]
    BY <2>4, <2>5
  <2>8. x.backend = l.backend /\ x.limit = l.limit /\ x.pairs = pairs /\ x.advance = adv
    BY <2>7
  <2>9. y.bodies = bs
    BY <2>3
  <2>10. Fits(x, Table(sd, j))
    BY <2>1, <2>2, <2>6, <2>8 DEF Fits, pairs
  <2>11. Linked(x, y, sd, j)
    BY <2>1, <2>3, <2>7, <2>8, <2>9, <2>10 DEF Linked, pairs
  <2> QED
    BY <2>11 DEF x, y
<1> QED
  BY <1>1, <1>2, <1>3

NInv == seed \in Nat /\ \E k \in Nat : Linked(landed, stock, seed, k)

LEMMA NInit == ASSUME Init PROVE NInv
<1>1. seed \in Nat /\ DefaultBodies \in Nat
  BY NBodyAssumption DEF Init
<1>2. PICK b \in {"python", "native"}, limit \in UnrollLimits : landed = LandedModule(b, limit, seed)
  BY DEF Init
<1>3. Linked(landed, stock, seed, DefaultBodies)
  BY <1>1, <1>2, LinkedStart DEF Init
<1> QED
  BY <1>1, <1>3 DEF NInv

LEMMA NNext == ASSUME NInv, [Next]_vars PROVE NInv'
<1>1. seed \in Nat
  BY DEF NInv
<1>2. PICK k \in Nat : Linked(landed, stock, seed, k)
  BY DEF NInv
<1>3. CASE UNCHANGED vars
  BY <1>3 DEF NInv, vars, Linked, Fits
<1>4. ASSUME NEW m \in BodyCounts, Configure(m) PROVE NInv'
  <2>1. m \in Nat
    BY NBodyAssumption
  <2>2. \E j \in Nat : Linked(Configured(landed, m), ScaledStock(stock, m), seed, j)
    BY <1>1, <1>2, <2>1, LinkedConfigure
  <2> QED
    BY <1>1, <1>4, <2>2 DEF NInv, Configure, Called
<1>5. ASSUME NEW loops \in {1, 2}, NEW m \in Iterations, NEW ref \in DOMAIN stock.bodies,
             BenchCall(loops, ref, m)
      PROVE  NInv'
  <2>1. m \in Nat /\ loops \in Nat
    BY NBodyAssumption
  <2>2. Linked(BenchNBody(landed, ref, loops, m), StockBench(stock, ref, loops, m), seed, k)
    BY <1>1, <1>2, <2>1, LinkedBench
  <2> QED
    BY <1>1, <1>5, <2>2 DEF NInv, BenchCall, Called
<1>6. ASSUME NEW m \in Iterations, AdvanceCall(m) PROVE NInv'
  <2>1. m \in Nat
    BY NBodyAssumption
  <2>2. Linked(Advanced(landed, m), StockAdvanced(stock, m), seed, k)
    BY <1>1, <1>2, <2>1, LinkedAdvance
  <2> QED
    BY <1>1, <1>6, <2>2 DEF NInv, AdvanceCall, Called
<1>7. ASSUME Reset PROVE NInv'
  <2>1. Linked(Restored(landed, seed), T0State(seed, Len(stock.bodies)), seed, k)
    BY <1>1, <1>2, LinkedReset
  <2> QED
    BY <1>1, <1>7, <2>1 DEF NInv, Reset, Called
<1> QED
  BY <1>3, <1>4, <1>5, <1>6, <1>7 DEF Next

\* SYSTEM and PAIRS are at every moment those of the stock program, on both
\* back ends and after any sequence of calls (run_benchmark.py:208-231).
THEOREM StockTrajectory == Spec => []SameTrajectory
<1>1. NInv => SameTrajectory
  <2> SUFFICES ASSUME NInv PROVE SameTrajectory
    OBVIOUS
  <2>1. seed \in Nat
    BY DEF NInv
  <2>2. PICK k \in Nat : Linked(landed, stock, seed, k)
    BY DEF NInv
  <2> QED
    BY <2>1, <2>2, LinkedIs DEF SameTrajectory
<1> QED
  BY <1>1, NInit, NNext, PTL DEF Spec

\* The public advance() integrates every body and every pair of the present
\* SYSTEM, whatever _configure() left it bound to (run_benchmark.py:197-203).
THEOREM CompleteAdvance == Spec => []AdvanceIsComplete
<1>1. NInv => AdvanceIsComplete
  <2> SUFFICES ASSUME NInv PROVE AdvanceIsComplete
    OBVIOUS
  <2>1. seed \in Nat
    BY DEF NInv
  <2>2. PICK k \in Nat : Linked(landed, stock, seed, k)
    BY DEF NInv
  <2>3. 1 \in Nat
    OBVIOUS
  <2> QED
    BY <2>1, <2>2, <2>3, LinkedAdvance DEF AdvanceIsComplete
<1> QED
  BY <1>1, NInit, NNext, PTL DEF Spec

LEMMA RsCheckHolds ==
  ASSUME NEW sd \in Nat, NEW k \in Nat, k >= DefaultBodies, NEW steps \in Nat
  PROVE  RsCheck(sd, k, steps)
<1>. DEFINE mass == Table(sd, k)
            fresh == FreshBodies(sd, k)
            pairs == Combinations(k)
            first == OffsetMomentum(fresh, 1)
            new == StockAdvance(first, pairs, dt, steps)
            t0 == T0State(sd, k)
            py == StockAdvanced(t0, steps)
            rs == RustAdvance(MakeRust(sd, k), dt, steps)
<1>1. k >= 2 /\ mass \in Masses /\ Len(mass) = k /\ fresh \in Systems(mass)
  <2>1. k >= 2
    BY NBodyAssumption
  <2>2. mass \in Masses /\ Len(mass) = k
    BY TableIs
  <2>3. fresh \in Systems(mass)
    BY FreshIs
  <2> QED
    BY <2>1, <2>2, <2>3
<1> HIDE DEF mass, fresh
<1>2. 1 \in 1..Len(mass)
  BY <1>1
<1>3. first \in Systems(mass) /\ MakeRust(sd, k) = Arrays(first)
  BY <1>1, <1>2, OffsetIs DEF MakeRust, fresh
<1>4. t0 = [bodies |-> first, pairs |-> pairs]
  BY DEF T0State, fresh
<1> HIDE DEF first, t0
<1>5. new \in Systems(mass) /\ rs = Arrays(new)
  BY <1>1, <1>3, StockIs
<1>6. py = [bodies |-> new, pairs |-> pairs]
  BY <1>4 DEF StockAdvanced
<1> HIDE DEF new, py, rs
<1>7. RustEnergy(Arrays(first)) = ReportEnergy(first, pairs) /\ RustEnergy(Arrays(new)) = ReportEnergy(new, pairs)
  BY <1>1, <1>3, <1>5, EnergyIs
<1>8. AsBodies(rs) = new
  BY <1>1, <1>5, AsBodiesOfArrays
<1> HIDE DEF pairs
<1>9. /\ t0.bodies = first /\ t0.pairs = pairs
      /\ py.bodies = new /\ py.pairs = pairs
  BY <1>4, <1>6
<1>10. RustEnergy(MakeRust(sd, k)) = ReportEnergy(t0.bodies, t0.pairs)
  BY <1>3, <1>7, <1>9
<1>11. Exact(py.bodies, ReportEnergy(py.bodies, py.pairs), AsBodies(rs), RustEnergy(rs))
  BY <1>5, <1>7, <1>8, <1>9 DEF Exact
<1> QED
  BY <1>10, <1>11 DEF RsCheck, py, rs, t0

LEMMA CheckLandedHolds ==
  ASSUME NEW sd \in Nat, NEW limit, NEW k \in Nat, NEW steps \in Nat
  PROVE  CheckLanded(sd, limit, k, steps)
<1>. DEFINE opt == Configured(LandedModule("python", limit, sd), k)
            ref == ScaledStock(StockModule(sd), k)
            opt1 == [opt EXCEPT !.bodies = OffsetMomentum(@, 1)]
            ref1 == [ref EXCEPT !.bodies = OffsetMomentum(@, 1)]
            a == Advanced(opt1, steps)
            b == StockAdvanced(ref1, steps)
<1>1. Linked(LandedModule("python", limit, sd), StockModule(sd), sd, DefaultBodies)
  BY LinkedStart
<1>2. PICK j \in Nat : Linked(opt, ref, sd, j)
  BY <1>1, LinkedConfigure
<1> HIDE DEF opt, ref
<1>3. /\ j >= 2 /\ Table(sd, j) \in Masses /\ Len(Table(sd, j)) = j
      /\ ref.bodies \in Systems(Table(sd, j)) /\ opt.bodies = ref.bodies
  BY <1>2, LinkedIs
<1>4. 1 \in 1..Len(Table(sd, j))
  BY <1>3
<1>. DEFINE first == OffsetMomentum(ref.bodies, 1)
<1>5. first \in Systems(Table(sd, j))
  BY <1>3, <1>4, OffsetIs
<1>6. opt1 = WithBodies(opt, first) /\ ref1 = WithBodies(ref, first)
  BY <1>3 DEF WithBodies
<1> HIDE DEF first, opt1, ref1
<1>7. Linked(opt1, ref1, sd, j)
  BY <1>2, <1>5, <1>6, LinkedWith
<1>8. Linked(a, b, sd, j)
  BY <1>7, LinkedAdvance
<1> HIDE DEF a, b
<1>9. a.bodies = b.bodies /\ a.pairs = b.pairs
  BY <1>8, LinkedIs
<1>10. Exact(b.bodies, ReportEnergy(b.bodies, b.pairs), a.bodies, ReportEnergy(a.bodies, a.pairs))
  BY <1>9 DEF Exact
<1> QED
  BY <1>10 DEF CheckLanded, a, b, opt1, ref1, opt, ref

LEMMA LadderHolds ==
  ASSUME NEW mass \in Masses, Len(mass) >= 2, NEW bs \in Systems(mass), NEW k \in Nat
  PROVE  LadderAgrees(bs, Combinations(Len(mass)), k)
<1>. DEFINE ps == Combinations(Len(mass))
            src == Source(bs, ps)
            flat == [bodies |-> bs, pairs |-> T1Pairs(bs)]
            powered == Rounds(bs, ps, "pow", k)
            rooted == Rounds(bs, ps, "sqrt", k)
<1>1. ps \in Seq(PairsOf(mass)) /\ "pow" \in Routes /\ "sqrt" \in Routes
  BY CombinationsType DEF Routes
<1>2. flat = [bodies |-> bs, pairs |-> Unpacked(mass, ps)]
  BY <1>1, UnpackedIs
<1>3. StockAdvance(bs, ps, dt, k) = powered /\ VariantSqrt(bs, ps, dt, k) = rooted
  BY RoundsAre
<1>4. T2Advance(Arrays(bs), dt, k) = Arrays(rooted)
  BY <1>1, LeapsAre, ArraysFollow
<1>5. rooted \in Systems(mass)
  BY <1>1, RoundsKeep
<1>6. AsBodies(T2Advance(Arrays(bs), dt, k)) = rooted
  <2> HIDE DEF rooted
  <2> QED
    BY <1>4, <1>5, AsBodiesOfArrays
<1> HIDE DEF ps
<1>7. /\ Execute(src, bs, dt, k, "pow") = powered
      /\ Execute(src, bs, dt, k, "sqrt") = rooted
  BY <1>1, GeneratedIs
<1>8. /\ T1Loop(flat, "pow", dt, k).bodies = powered
      /\ T1Loop(flat, "sqrt", dt, k).bodies = rooted
  <2> HIDE DEF flat
  <2> QED
    BY <1>1, <1>2, T1Is
<1> HIDE DEF src, flat, powered, rooted
<1>9. /\ GeneratedAdvance(src, bs, dt, k) = powered /\ VariantLocalsPow(flat, dt, k).bodies = powered
      /\ T3Advance(src, bs, dt, k) = rooted /\ SqrtFileAdvance(src, bs, dt, k) = rooted
      /\ T1Advance(flat, dt, k).bodies = rooted
  BY <1>7, <1>8 DEF GeneratedAdvance, VariantLocalsPow, T3Advance, SqrtFileAdvance, T1Advance
<1>. DEFINE same == {AsBodies(T2Advance(Arrays(bs), dt, k)), T3Advance(src, bs, dt, k),
                     VariantSqrt(bs, ps, dt, k), SqrtFileAdvance(src, bs, dt, k)}
            exact == {GeneratedAdvance(src, bs, dt, k), VariantLocalsPow(flat, dt, k).bodies}
            t0 == StockAdvance(bs, ps, dt, k)
            t1 == T1Advance(flat, dt, k).bodies
<1>10. (\A t \in exact : t = t0) /\ (\A t \in same : t = t1)
  BY <1>3, <1>6, <1>9
<1> HIDE DEF same, exact, t0, t1
<1>11. /\ \A t \in exact : Exact(t0, ReportEnergy(t0, ps), t, ReportEnergy(t, ps))
       /\ \A t \in same : Exact(t1, SqrtEnergy(t1, ps), t, SqrtEnergy(t, ps))
  BY <1>10 DEF Exact
<1> QED
  BY <1>11 DEF LadderAgrees, same, exact, t0, t1, flat, src, ps

\* The comparison programs report equality at every number of bodies, and from
\* every system the program reaches the tiers keep their contract: those that
\* keep the power equal stock bit for bit, energy included, and those that take
\* the square root agree among themselves (dev/nbody/verify.py:12-31,
\* rust/nbody/src/lib.rs:32-40).
THEOREM TierContract == Spec => []TiersKeepContract
<1>1. NInv => TiersKeepContract
  <2> SUFFICES ASSUME NInv PROVE TiersKeepContract
    OBVIOUS
  <2>1. seed \in Nat
    BY DEF NInv
  <2>2. PICK k \in Nat : Linked(landed, stock, seed, k)
    BY DEF NInv
  <2>3. ASSUME NEW m \in {i \in BodyCounts : i >= DefaultBodies}, NEW steps \in Iterations
        PROVE  RsCheck(seed, m, steps) /\ CheckLanded(seed, landed.limit, m, steps)
    <3>1. m \in Nat /\ m >= DefaultBodies /\ steps \in Nat
      BY NBodyAssumption
    <3> QED
      BY <2>1, <3>1, RsCheckHolds, CheckLandedHolds
  <2>4. ASSUME NEW m \in Iterations PROVE LadderAgrees(stock.bodies, stock.pairs, m)
    <3>1. m \in Nat
      BY NBodyAssumption
    <3>2. /\ stock.pairs = Combinations(k) /\ k >= 2
          /\ Table(seed, k) \in Masses /\ Len(Table(seed, k)) = k
          /\ stock.bodies \in Systems(Table(seed, k))
      BY <2>1, <2>2, LinkedIs
    <3>3. LadderAgrees(stock.bodies, Combinations(Len(Table(seed, k))), m)
      BY <3>1, <3>2, LadderHolds
    <3> QED
      BY <3>2, <3>3
  <2> QED
    BY <2>3, <2>4 DEF TiersKeepContract
<1> QED
  BY <1>1, NInit, NNext, PTL DEF Spec
==============================================================================
