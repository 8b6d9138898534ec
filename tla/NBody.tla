-------------------------------- MODULE NBody --------------------------------
(***************************************************************************)
(* benchmarks/bm_nbody/run_benchmark.py as a program: the module-level      *)
(* SYSTEM and PAIRS lists, the name `advance` that is bound to a generated   *)
(* function or to the rolled loop, _configure(), and bench_nbody() on the   *)
(* Python and on the native back end.  Beside it run the stock program      *)
(* (dev/nbody/stock_run_benchmark.py, scaled as dev/nbody/verify.py does)    *)
(* and the programs that compare the tiers with it (verify.py, rs_check.py,  *)
(* sweep_n.py).  The code has DefaultBodies = 5 and a limit of 20000 pairs.  *)
(***************************************************************************)
EXTENDS NBodyKernel

CONSTANTS DefaultBodies,     \* DEFAULT_BODIES
          UnrollLimits,      \* values of NBODY_MAX_UNROLL_PAIRS tried
          BodyCounts,        \* values of --bodies tried
          Seeds,             \* body tables tried
          Iterations,        \* values of --iterations tried
          MaxCalls           \* bound on the calls made in one run

ASSUME NBodyAssumption ==
    /\ DefaultBodies \in Nat \ {0, 1} /\ MaxCalls \in Nat
    /\ UnrollLimits \subseteq Nat /\ BodyCounts \subseteq Nat
    /\ Seeds \subseteq Nat /\ Iterations \subseteq Nat

VARIABLES seed,        \* which body table the program was written with
          landed,      \* the landed module: backend, limit, bodies (SYSTEM),
                       \* pairs (PAIRS) and what the name advance is bound to
          stock,       \* the stock module: bodies and pairs
          calls        \* calls made so far

vars == <<seed, landed, stock, calls>>

dt == 3

-----------------------------------------------------------------------------
(* the body tables: entry k of the literals, then of _extra_bodies() *)
Body(sd, k) ==
    [r |-> <<(sd + 7 * k) % P, (2 * sd + 11 * k * k) % P, (5 * k + 3) % P>>,
     v |-> <<(3 * sd + 5 * k + 1) % P, (13 * k) % P, (sd * k + 2) % P>>,
     m |-> (17 * k + sd) % P]
Literals(sd) == [k \in 1..DefaultBodies |-> Body(sd, k)]
ExtraBodies(n) == [k \in 1..(n - DefaultBodies) |-> Body(0, DefaultBodies + k)]
FreshBodies(sd, n) ==
    IF n = DefaultBodies THEN Literals(sd) ELSE Literals(sd) \o ExtraBodies(n)

(* BODIES.update() keeps the order of the names: the fresh body replaces the  *)
(* one under its name, a new name goes to the end                             *)
Updated(bs, n) ==
    IF n <= DefaultBodies THEN bs
    ELSE [k \in 1..(IF Len(bs) > n THEN Len(bs) ELSE n) |->
            IF k \in DefaultBodies+1..n THEN ExtraBodies(n)[k - DefaultBodies] ELSE bs[k]]

Rolled == [kind |-> "rolled"]
BuildAdvance(bs, ps) == [kind |-> "generated", src |-> Source(bs, ps)]

(* importing either file *)
LandedModule(b, limit, sd) ==
    [backend |-> b, limit |-> limit, bodies |-> Literals(sd),
     pairs |-> Combinations(DefaultBodies),
     advance |-> BuildAdvance(Literals(sd), Combinations(DefaultBodies))]
StockModule(sd) == [bodies |-> Literals(sd), pairs |-> Combinations(DefaultBodies)]

(* what the name advance is bound to once _configure() has rewritten the      *)
(* lists; and a slip the code once had: native leaves the name as it was      *)
ReboundMut(m, bs, ps) ==
    IF m.backend = "native" THEN m.advance
    ELSE IF Len(ps) > m.limit THEN Rolled
    ELSE BuildAdvance(bs, ps)
Rebound(m, bs, ps) ==
    IF m.backend = "native" \/ Len(ps) > m.limit THEN Rolled
    ELSE BuildAdvance(bs, ps)

(* _configure(n); fewer bodies than the default raise and change nothing *)
Configured(m, n) ==
    LET bs == Updated(m.bodies, n)
        ps == Combinations(Len(bs))
    IN  IF n <= DefaultBodies THEN m
        ELSE [m EXCEPT !.bodies = bs, !.pairs = ps, !.advance = Rebound(m, bs, ps)]
ScaledStock(m, n) ==
    LET bs == Updated(m.bodies, n)
    IN  [bodies |-> bs, pairs |-> Combinations(Len(bs))]

(* the public advance(dt, n): the rolled loop works on its default arguments, *)
(* the generated function on the list it was built on                         *)
RunAdvance(m, bs, n) ==
    IF m.advance.kind = "rolled" THEN RolledAdvance(bs, m.pairs, dt, n)
    ELSE GeneratedAdvance(m.advance.src, bs, dt, n)
Advanced(m, n) == [m EXCEPT !.bodies = RunAdvance(m, @, n)]
StockAdvanced(m, n) == [m EXCEPT !.bodies = StockAdvance(@, m.pairs, dt, n)]

PythonBench(m, ref, loops, n) ==
    LET Loop(bs) == RunAdvance(m, bs, n)
    IN  [m EXCEPT !.bodies = Iterate(Loop, OffsetMomentum(@, ref), loops)]

(* the native back end takes SYSTEM over, integrates and writes it back; and  *)
(* a slip: the state is not read back                                         *)
NativeBenchMut(m, ref, loops, n) == m
NativeBench(m, ref, loops, n) ==
    LET Loop(s) == RustAdvance(s, dt, n)
        st == Iterate(Loop, RustOffset(Arrays(m.bodies), ref), loops)
    IN  [m EXCEPT !.bodies = [i \in DOMAIN @ |-> [@[i] EXCEPT !.r = st.pos[i], !.v = st.vel[i]]]]

BenchNBody(m, ref, loops, n) ==
    IF m.backend = "native" THEN NativeBench(m, ref, loops, n)
    ELSE PythonBench(m, ref, loops, n)
StockBench(m, ref, loops, n) ==
    LET Loop(bs) == StockAdvance(bs, m.pairs, dt, n)
    IN  [m EXCEPT !.bodies = Iterate(Loop, OffsetMomentum(@, ref), loops)]

(* the sweep puts the initial values back into the lists the generated        *)
(* function holds, where the tier it is timed against starts afresh           *)
Restored(m, sd) ==
    LET fresh == FreshBodies(sd, Len(m.bodies))
        put == [i \in DOMAIN fresh |-> [m.bodies[i] EXCEPT !.r = fresh[i].r, !.v = fresh[i].v]]
    IN  [m EXCEPT !.bodies = OffsetMomentum(put, 1)]
T0State(sd, n) == [bodies |-> OffsetMomentum(FreshBodies(sd, n), 1), pairs |-> Combinations(n)]

-----------------------------------------------------------------------------
(* the verdicts of the comparison programs *)

Exact(ref, refEnergy, got, gotEnergy) == ref = got /\ refEnergy = gotEnergy

MakeRust(sd, n) == RustOffset(Arrays(FreshBodies(sd, n)), 1)
RsCheck(sd, n, steps) ==
    LET t0 == T0State(sd, n)
        py == StockAdvanced(t0, steps)
        rs == RustAdvance(MakeRust(sd, n), dt, steps)
    IN  /\ RustEnergy(MakeRust(sd, n)) = ReportEnergy(t0.bodies, t0.pairs)
        /\ Exact(py.bodies, ReportEnergy(py.bodies, py.pairs), AsBodies(rs), RustEnergy(rs))

(* check_landed_n pins the Python back end, whatever the host has installed *)
CheckLanded(sd, limit, n, steps) ==
    LET opt == Configured(LandedModule("python", limit, sd), n)
        ref == ScaledStock(StockModule(sd), n)
        a == Advanced([opt EXCEPT !.bodies = OffsetMomentum(@, 1)], steps)
        b == StockAdvanced([ref EXCEPT !.bodies = OffsetMomentum(@, 1)], steps)
    IN  Exact(b.bodies, ReportEnergy(b.bodies, b.pairs), a.bodies, ReportEnergy(a.bodies, a.pairs))

(* the tiers of one system: T1, T2 and T3 share the square root *)
LadderAgrees(bs, ps, n) ==
    LET flat == [bodies |-> bs, pairs |-> T1Pairs(bs)]
        t0 == StockAdvance(bs, ps, dt, n)
        t1 == T1Advance(flat, dt, n).bodies
        same == {AsBodies(T2Advance(Arrays(bs), dt, n)), T3Advance(Source(bs, ps), bs, dt, n),
                 VariantSqrt(bs, ps, dt, n), SqrtFileAdvance(Source(bs, ps), bs, dt, n)}
        exact == {GeneratedAdvance(Source(bs, ps), bs, dt, n), VariantLocalsPow(flat, dt, n).bodies}
    IN  /\ \A t \in exact : Exact(t0, ReportEnergy(t0, ps), t, ReportEnergy(t, ps))
        /\ \A t \in same : Exact(t1, SqrtEnergy(t1, ps), t, SqrtEnergy(t, ps))

-----------------------------------------------------------------------------
Init ==
    /\ seed \in Seeds
    /\ \E b \in {"python", "native"}, limit \in UnrollLimits : landed = LandedModule(b, limit, seed)
    /\ stock = StockModule(seed)
    /\ calls = 0

Called == calls < MaxCalls /\ calls' = calls + 1 /\ UNCHANGED seed

Configure(n) ==
    /\ Called
    /\ landed' = Configured(landed, n)
    /\ stock' = ScaledStock(stock, n)

(* bench_nbody(loops, reference, iterations) *)
BenchCall(loops, ref, n) ==
    /\ Called
    /\ landed' = BenchNBody(landed, ref, loops, n)
    /\ stock' = StockBench(stock, ref, loops, n)

(* a caller uses the module's advance() directly *)
AdvanceCall(n) ==
    /\ Called
    /\ landed' = Advanced(landed, n)
    /\ stock' = StockAdvanced(stock, n)

Reset ==
    /\ Called
    /\ landed' = Restored(landed, seed)
    /\ stock' = T0State(seed, Len(stock.bodies))

Next == \/ \E n \in BodyCounts : Configure(n)
        \/ \E loops \in {1, 2}, n \in Iterations : \E ref \in DOMAIN stock.bodies : BenchCall(loops, ref, n)
        \/ \E n \in Iterations : AdvanceCall(n)
        \/ Reset

Spec == Init /\ [][Next]_vars

-----------------------------------------------------------------------------
(* SYSTEM is at every moment what the stock program's SYSTEM is, to the bit,  *)
(* whatever the back end, the number of bodies, the unrolling limit and the   *)
(* calls before (run_benchmark.py:208-231).                                   *)
SameTrajectory == landed.bodies = stock.bodies /\ landed.pairs = stock.pairs

(* The public advance() integrates every body and every pair of the present   *)
(* SYSTEM on every back end, even where the benchmark never calls it: left on *)
(* the generated function of the smaller system it moves half of the bodies   *)
(* (run_benchmark.py:197-203).                                                *)
AdvanceIsComplete == Advanced(landed, 1).bodies = StockAdvanced(stock, 1).bodies

(* The comparison programs report equality at every number of bodies, and the *)
(* ladder keeps its contract from any system the program reaches: the tiers   *)
(* that keep the power equal stock bit for bit, energy included, and those    *)
(* that take the square root agree among themselves (dev/nbody/verify.py:12-31,*)
(* rust/nbody/src/lib.rs:32-40).                                              *)
TiersKeepContract ==
    /\ calls = 0 => \A n \in {k \in BodyCounts : k >= DefaultBodies}, steps \in Iterations :
                        RsCheck(seed, n, steps) /\ CheckLanded(seed, landed.limit, n, steps)
    /\ \A n \in Iterations : LadderAgrees(stock.bodies, stock.pairs, n)
=============================================================================
