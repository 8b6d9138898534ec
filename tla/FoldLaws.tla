------------------------------ MODULE FoldLaws ------------------------------
(* FoldLeft for every step Op and every parameter p of it: two laws, from    *)
(* which the proofs about folds go on.  The operator is a constant of the    *)
(* module, so that an INSTANCE gives it its meaning: the provers do not      *)
(* instantiate operators that are parameters of a theorem.                   *)
EXTENDS Integers, SequencesExt, FiniteSetsExt, WellFoundedInduction, TLAPS

CONSTANT Op(_, _, _)

Fold(p, base, s) == FoldLeft(LAMBDA a, x : Op(p, a, x), base, s)

-----------------------------------------------------------------------------
\* The value of a fold over the elements at a set of indices, last one first.
IsFold(g, p, base, s, n) ==
  g = [t \in SUBSET (1..n) |-> IF t = {} THEN base ELSE Op(p, g[t \ {Max(t)}], s[Max(t)])]

LEMMA MaxIs ==
  ASSUME NEW k \in Nat \ {0}, NEW t \in SUBSET (1..k), k \in t
  PROVE  Max(t) = k
<1>1. \A y \in t : k >= y
  OBVIOUS
<1>2. \A x \in t : (\A y \in t : x >= y) => x = k
  OBVIOUS
<1> QED
  BY <1>1, <1>2 DEF Max

LEMMA MaxIn ==
  ASSUME NEW k \in Nat, NEW t \in SUBSET (1..k), t # {}
  PROVE  Max(t) \in t
<1>. DEFINE U == {k - x : x \in t}
<1>1. \A x \in t : x \in Int /\ x >= 1 /\ x <= k
  OBVIOUS
<1>2. U \subseteq Nat /\ U # {}
  <2>1. \A x \in t : k - x \in Nat
    BY <1>1
  <2>2. PICK x \in t : TRUE
    OBVIOUS
  <2>3. k - x \in U
    BY <2>2
  <2> QED
    BY <2>1, <2>3
<1>3. PICK u \in U : \A y \in U : ~ (<<y, u>> \in OpToRel(<, Nat))
  BY <1>2, WFMin, NatLessThanWellFounded
<1>4. PICK x \in t : u = k - x
  BY <1>3
<1>5. \A y \in t : x >= y
  <2> TAKE y \in t
  <2>1. k - y \in U /\ k - y \in Nat /\ u \in Nat
    BY <1>2
  <2>2. ~ (k - y < u)
    BY <1>3, <2>1 DEF OpToRel
  <2> QED
    BY <1>1, <1>4, <2>2
<1> QED
  BY <1>4, <1>5 DEF Max

LEMMA FoldExists ==
  ASSUME NEW p, NEW base, NEW s, NEW n \in Nat
  PROVE  \E g : IsFold(g, p, base, s, n)
<1>. DEFINE Bad == {k \in 0..n : ~ \E g : IsFold(g, p, base, s, k)}
<1> SUFFICES ASSUME Bad # {} PROVE FALSE
  <2>1. n \in 0..n
    OBVIOUS
  <2> QED
    BY <2>1
<1>1. PICK k \in Bad : \A y \in Bad : ~ (<<y, k>> \in OpToRel(<, Nat))
  <2>1. Bad \subseteq Nat
    OBVIOUS
  <2> HIDE DEF Bad
  <2> QED
    BY <2>1, WFMin, NatLessThanWellFounded
<1>2. CASE k = 0
  <2>1. IsFold([t \in SUBSET (1..0) |-> base], p, base, s, 0)
    BY DEF IsFold
  <2> QED
    BY <1>2, <2>1
<1>3. CASE k # 0
  <2>1. k - 1 \in 0..n /\ k \in Nat \ {0} /\ k - 1 \in Nat
    BY <1>3
  <2>2. k - 1 \notin Bad
    <3>1. <<k - 1, k>> \in OpToRel(<, Nat)
      <4>1. k - 1 \in Nat /\ k \in Nat /\ k - 1 < k
        BY <2>1
      <4> QED
        BY <4>1 DEF OpToRel
    <3> HIDE DEF Bad
    <3> QED
      BY <1>1, <3>1
  <2>3. PICK g : IsFold(g, p, base, s, k - 1)
    BY <2>1, <2>2
  <2> DEFINE h == [t \in SUBSET (1..k) |->
                     IF k \in t THEN Op(p, g[t \ {k}], s[k]) ELSE g[t]]
  <2>4. ASSUME NEW t \in SUBSET (1..k)
        PROVE  h[t] = IF t = {} THEN base ELSE Op(p, h[t \ {Max(t)}], s[Max(t)])
    <3>1. CASE k \in t
      <4>1. Max(t) = k
        BY MaxIs, <2>1, <3>1
      <4>2. h[t \ {k}] = g[t \ {k}]
        OBVIOUS
      <4> QED
        BY <4>1, <4>2, <3>1
    <3>2. CASE k \notin t
      <4>1. t \in SUBSET (1..k - 1)
        BY <3>2, <2>1
      <4>2. t # {} => Max(t) \in t
        BY <4>1, <2>1, MaxIn
      <4>3. g[t] = IF t = {} THEN base ELSE Op(p, g[t \ {Max(t)}], s[Max(t)])
        BY <4>1, <2>3 DEF IsFold
      <4>4. h[t] = g[t] /\ h[t \ {Max(t)}] = g[t \ {Max(t)}]
        BY <3>2
      <4> QED
        BY <4>2, <4>3, <4>4
    <3> QED
      BY <3>1, <3>2
  <2>5. h = [t \in SUBSET (1..k) |-> IF t = {} THEN base ELSE Op(p, h[t \ {Max(t)}], s[Max(t)])]
    <3> HIDE DEF h
    <3>1. h = [t \in SUBSET (1..k) |-> h[t]]
      BY DEF h
    <3> QED
      BY <2>4, <3>1
  <2>6. IsFold(h, p, base, s, k)
    BY <2>5 DEF IsFold
  <2> QED
    BY <2>6
<1> QED
  BY <1>2, <1>3

\* A fold of a sequence is the last value of some function that folds it.
LEMMA FoldIs ==
  ASSUME NEW p, NEW base, NEW n \in Nat, NEW s, DOMAIN s = 1..n
  PROVE  \E g : IsFold(g, p, base, s, n) /\ Fold(p, base, s) = g[1..n]
<1>. DEFINE g == CHOOSE iter : IsFold(iter, p, base, s, n)
<1>1. IsFold(g, p, base, s, n)
  BY FoldExists
<1>2. Fold(p, base, s) = g[1..n]
  BY DEF Fold, FoldLeft, MapThenFoldSet, IsFold
<1> QED
  BY <1>1, <1>2

LEMMA FoldStep ==
  \A p, base, s, g : \A n \in Nat : IsFold(g, p, base, s, n) =>
    /\ g[1..0] = base
    /\ \A k \in 1..n : g[1..k] = Op(p, g[1..k - 1], s[k])
<1> SUFFICES ASSUME NEW p, NEW base, NEW s, NEW g, NEW n \in Nat, IsFold(g, p, base, s, n)
             PROVE  /\ g[1..0] = base
                    /\ \A k \in 1..n : g[1..k] = Op(p, g[1..k - 1], s[k])
  OBVIOUS
<1>1. g[1..0] = base
  <2>1. 1..0 = {} /\ {} \in SUBSET (1..n)
    OBVIOUS
  <2> QED
    BY <2>1 DEF IsFold
<1>2. ASSUME NEW k \in 1..n
      PROVE  g[1..k] = Op(p, g[1..k - 1], s[k])
  <2>1. 1..k \in SUBSET (1..n) /\ 1..k # {} /\ k \in 1..k
    OBVIOUS
  <2>2. Max(1..k) = k
    BY <2>1, MaxIs
  <2>3. (1..k) \ {k} = 1..k - 1
    OBVIOUS
  <2> QED
    BY <2>1, <2>2, <2>3 DEF IsFold
<1> QED
  BY <1>1, <1>2

\* What is folded up to k depends on the first k elements only.
LEMMA FoldPrefix ==
  ASSUME NEW p, NEW base, NEW s, NEW t, NEW n \in Nat, NEW m \in Nat, n <= m,
         NEW g, IsFold(g, p, base, s, n), NEW h, IsFold(h, p, base, t, m),
         \A k \in 1..n : s[k] = t[k]
  PROVE  g[1..n] = h[1..n]
<1>g. g[1..0] = base /\ \A k \in 1..n : g[1..k] = Op(p, g[1..k - 1], s[k])
  <2> QED
    BY FoldStep
<1>h. h[1..0] = base /\ \A k \in 1..m : h[1..k] = Op(p, h[1..k - 1], t[k])
  <2> QED
    BY FoldStep
<1>. DEFINE Bad == {k \in 0..n : g[1..k] # h[1..k]}
<1> SUFFICES ASSUME Bad # {} PROVE FALSE
  <2>1. n \in 0..n
    OBVIOUS
  <2> QED
    BY <2>1
<1>1. PICK k \in Bad : \A y \in Bad : ~ (<<y, k>> \in OpToRel(<, Nat))
  <2>1. Bad \subseteq Nat
    OBVIOUS
  <2> HIDE DEF Bad
  <2> QED
    BY <2>1, WFMin, NatLessThanWellFounded
<1>2. k # 0
  BY <1>g, <1>h
<1>3. k \in 1..n /\ k \in 1..m /\ k - 1 \in 0..n
  BY <1>2
<1>4. k - 1 \notin Bad
  <2>1. <<k - 1, k>> \in OpToRel(<, Nat)
    <3>1. k - 1 \in Nat /\ k \in Nat /\ k - 1 < k
      BY <1>3
    <3> QED
      BY <3>1 DEF OpToRel
  <2> HIDE DEF Bad
  <2> QED
    BY <1>1, <2>1
<1>5. g[1..k - 1] = h[1..k - 1]
  BY <1>3, <1>4
<1>6. g[1..k] = Op(p, g[1..k - 1], s[k]) /\ h[1..k] = Op(p, h[1..k - 1], t[k])
  BY <1>3, <1>g, <1>h
<1>7. s[k] = t[k]
  BY <1>3
<1> QED
  BY <1>5, <1>6, <1>7

\* The loop of a fold that sees no element returns what it started with.
LEMMA FoldNothing == \A p, base : Fold(p, base, <<>>) = base
<1> SUFFICES ASSUME NEW p, NEW base, NEW s, NEW n, s = <<>>, n = 0
             PROVE  Fold(p, base, s) = base
  OBVIOUS
<1>1. n \in Nat /\ DOMAIN s = 1..n
  OBVIOUS
<1>2. PICK g : IsFold(g, p, base, s, n) /\ Fold(p, base, s) = g[1..n]
  BY <1>1, FoldIs
<1>3. {} \in SUBSET (1..n) /\ 1..n = {}
  OBVIOUS
<1>4. g[{}] = base
  BY <1>2, <1>3 DEF IsFold
<1> QED
  BY <1>2, <1>3, <1>4

\* The loop of a fold takes the elements in order: one more element is one more
\* step on the result so far.
LEMMA FoldAppend ==
  ASSUME NEW p, NEW base, NEW S, NEW s \in Seq(S), NEW x
  PROVE  Fold(p, base, Append(s, x)) = Op(p, Fold(p, base, s), x)
<1>. DEFINE n == Len(s)
            t == Append(s, x)
<1>1. n \in Nat /\ DOMAIN s = 1..n /\ DOMAIN t = 1..n + 1
  OBVIOUS
<1>2. t[n + 1] = x /\ \A k \in 1..n : s[k] = t[k]
  OBVIOUS
<1> HIDE DEF n, t
<1>3. PICK g : IsFold(g, p, base, s, n) /\ Fold(p, base, s) = g[1..n]
  BY <1>1, FoldIs
<1>4. PICK h : IsFold(h, p, base, t, n + 1) /\ Fold(p, base, t) = h[1..n + 1]
  <2>1. n + 1 \in Nat
    BY <1>1
  <2> QED
    BY <1>1, <2>1, FoldIs
<1>5. g[1..n] = h[1..n]
  BY <1>1, <1>2, <1>3, <1>4, FoldPrefix
<1>6. h[1..n + 1] = Op(p, h[1..n + 1 - 1], t[n + 1])
  BY <1>1, <1>4, FoldStep
<1>7. n + 1 - 1 = n
  BY <1>1
<1> QED
  BY <1>2, <1>3, <1>4, <1>5, <1>6, <1>7 DEF t

\* A fold is a trace: the value before the first element, and one step for each.
IsTrace(h, p, base, s, n) ==
  /\ h[0] = base /\ h[n] = Fold(p, base, s)
  /\ \A k \in 1..n : h[k] = Op(p, h[k - 1], s[k])
Trace(p, base, s, n) == CHOOSE h : IsTrace(h, p, base, s, n)

LEMMA FoldTrace ==
  ASSUME NEW p, NEW base, NEW n \in Nat, NEW s, DOMAIN s = 1..n
  PROVE  IsTrace(Trace(p, base, s, n), p, base, s, n)
<1>1. PICK g : IsFold(g, p, base, s, n) /\ Fold(p, base, s) = g[1..n]
  BY FoldIs
<1>2. g[1..0] = base /\ \A k \in 1..n : g[1..k] = Op(p, g[1..k - 1], s[k])
  BY <1>1, FoldStep
<1>. DEFINE h == [k \in 0..n |-> g[1..k]]
<1>3. h[0] = base /\ h[n] = Fold(p, base, s)
  BY <1>1, <1>2
<1>4. ASSUME NEW k \in 1..n PROVE h[k] = Op(p, h[k - 1], s[k])
  <2>1. k - 1 \in 0..n /\ k \in 0..n
    OBVIOUS
  <2> QED
    BY <1>2, <2>1
<1> HIDE DEF h
<1>5. IsTrace(h, p, base, s, n)
  BY <1>3, <1>4 DEF IsTrace
<1> QED
  BY <1>5, Zenon DEF Trace
=============================================================================
