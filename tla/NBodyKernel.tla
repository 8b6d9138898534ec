----------------------------- MODULE NBodyKernel -----------------------------
(***************************************************************************)
(* The integrators of the nbody benchmark: the stock rolled loop, the       *)
(* program the landed file generates, the development tiers, and the  *)
(* Rust kernel.                                                             *)
(*                                                                          *)
(* A float is a number below P and an operation is a fixed function that is *)
(* neither associative nor distributive, as IEEE-754 operations are not:    *)
(* two expressions agree on every system only when they apply the same      *)
(* operations in the same order, which is what the code claims of itself.   *)
(* A body is its position, its velocity and its mass; a list of bodies is   *)
(* mutated in place, so a pair is kept as the two positions in that list.   *)
(***************************************************************************)
EXTENDS Naturals, Sequences, SequencesExt

P == 61

\* A float, a vector, a body.
Float == 0..(P - 1)
Vec == Float \X Float \X Float
BodyState == [r : Vec, v : Vec, m : Float]

-----------------------------------------------------------------------------
(* IEEE-754 binary64, as CPython, NumPy and Rust perform it *)

FAdd(a, b) == (a + b + (a * b) \div 7) % P
FSub(a, b) == FAdd(a, (P - b) % P)
FMul(a, b) == (a * b + (a + b) \div 5) % P
FDiv(a, b) == (a * (3 * b + 2) + b) % P
Pow15(a) == (5 * a * a + 3) % P          \* a ** -1.5
Pow05(a) == (11 * a + 4) % P             \* a ** 0.5
Sqrt(a) == (7 * a * a + a + 1) % P

VAdd(a, b) == <<FAdd(a[1], b[1]), FAdd(a[2], b[2]), FAdd(a[3], b[3])>>
VSub(a, b) == <<FSub(a[1], b[1]), FSub(a[2], b[2]), FSub(a[3], b[3])>>
VMul(a, s) == <<FMul(a[1], s), FMul(a[2], s), FMul(a[3], s)>>
VScale(s, a) == <<FMul(s, a[1]), FMul(s, a[2]), FMul(s, a[3])>>
VDiv(a, s) == <<FDiv(a[1], s), FDiv(a[2], s), FDiv(a[3], s)>>
Dot(d) == FAdd(FAdd(FMul(d[1], d[1]), FMul(d[2], d[2])), FMul(d[3], d[3]))

(* the routes to dt * r^-3: the accelerator takes the product's reciprocal *)
PowMag(dt, dsq) == FMul(dt, Pow15(dsq))
SqrtMag(dt, dsq) == FDiv(dt, FMul(dsq, Sqrt(dsq)))
EmulatedMag(dt, dsq) == FMul(dt, FDiv(1, FMul(dsq, Sqrt(dsq))))
Mag(route, dt, dsq) ==
    CASE route = "pow" -> PowMag(dt, dsq)
      [] route = "sqrt" -> SqrtMag(dt, dsq)
      [] route = "reciprocal" -> EmulatedMag(dt, dsq)

Iterate(Step(_), st, n) == FoldLeft(LAMBDA s, k : Step(s), st, [k \in 1..n |-> k])

-----------------------------------------------------------------------------
(* the rolled loop over the list of bodies and its pairs *)

Combinations(n) ==
    FlattenSeq([x \in 1..n-1 |-> [y \in 1..n-x |-> <<x, x + y>>]])

Impulse(bodies, p, route, dt) ==
    LET i == p[1]
        j == p[2]
        d == VSub(bodies[i].r, bodies[j].r)
        mag == Mag(route, dt, Dot(d))
        first == [bodies EXCEPT ![i].v = VSub(@, VMul(d, FMul(bodies[j].m, mag)))]
    IN  [first EXCEPT ![j].v = VAdd(@, VMul(d, FMul(bodies[i].m, mag)))]

Moves(bodies, dt) ==
    [i \in 1..Len(bodies) |->
        [bodies[i] EXCEPT !.r = VAdd(@, VScale(dt, bodies[i].v))]]

StockAdvance(bodies, pairs, dt, n) ==
    LET Step(b) == Moves(FoldLeft(LAMBDA s, p : Impulse(s, p, "pow", dt), b, pairs), dt)
    IN  Iterate(Step, bodies, n)

RolledAdvance(bodies, pairs, dt, n) == StockAdvance(bodies, pairs, dt, n)

(* T1: every pair is unpacked beforehand, masses included, and the square   *)
(* root replaces the power                                                   *)
T1Pairs(bodies) ==
    [k \in DOMAIN Combinations(Len(bodies)) |->
        LET p == Combinations(Len(bodies))[k]
        IN  [i |-> p[1], j |-> p[2], m1 |-> bodies[p[1]].m, m2 |-> bodies[p[2]].m]]
T1Impulse(bodies, q, route, dt) ==
    LET d == VSub(bodies[q.i].r, bodies[q.j].r)
        mag == Mag(route, dt, Dot(d))
        a == bodies[q.i].v
        c == bodies[q.j].v
    IN  [bodies EXCEPT ![q.i].v = VSub(a, VMul(d, FMul(q.m2, mag))),
                       ![q.j].v = VAdd(c, VMul(d, FMul(q.m1, mag)))]
T1Loop(st, route, dt, n) ==
    LET Step(b) == Moves(FoldLeft(LAMBDA s, q : T1Impulse(s, q, route, dt), b, st.pairs), dt)
    IN  [st EXCEPT !.bodies = Iterate(Step, @, n)]
T1Advance(st, dt, n) == T1Loop(st, "sqrt", dt, n)

(* two of the variants T1 was chosen from: the square root in the stock loop, *)
(* and the power with the velocities in locals                                *)
VariantSqrt(bodies, pairs, dt, n) ==
    LET Step(b) == Moves(FoldLeft(LAMBDA s, p : Impulse(s, p, "sqrt", dt), b, pairs), dt)
    IN  Iterate(Step, bodies, n)
VariantLocalsPow(st, dt, n) == T1Loop(st, "pow", dt, n)

-----------------------------------------------------------------------------
(* structure of arrays: T2 and the Rust System *)

Arrays(bodies) == [pos |-> [i \in 1..Len(bodies) |-> bodies[i].r],
                   vel |-> [i \in 1..Len(bodies) |-> bodies[i].v],
                   mass |-> [i \in 1..Len(bodies) |-> bodies[i].m],
                   pairs |-> Combinations(Len(bodies))]

Kick(st, p, route, dt) ==
    LET i == p[1]
        j == p[2]
        d == VSub(st.pos[i], st.pos[j])
        mag == Mag(route, dt, Dot(d))
    IN  [st EXCEPT !.vel[i] = VSub(@, VMul(d, FMul(st.mass[j], mag))),
                   !.vel[j] = VAdd(@, VMul(d, FMul(st.mass[i], mag)))]
Drift(st, dt) ==
    [st EXCEPT !.pos = [i \in DOMAIN @ |-> VAdd(@[i], VScale(dt, st.vel[i]))]]

T2Advance(st, dt, n) ==
    LET Step(s) == Drift(FoldLeft(LAMBDA t, p : Kick(t, p, "sqrt", dt), s, s.pairs), dt)
    IN  Iterate(Step, st, n)
(* a plausible slip of the native kernel: positions move before the kicks *)
RustAdvanceMut(st, dt, n) ==
    LET Step(s) == FoldLeft(LAMBDA t, p : Kick(t, p, "pow", dt), Drift(s, dt), s.pairs)
    IN  Iterate(Step, st, n)

RustAdvance(st, dt, n) ==
    LET Step(s) == Drift(FoldLeft(LAMBDA t, p : Kick(t, p, "pow", dt), s, s.pairs), dt)
    IN  Iterate(Step, st, n)

AsBodies(st) == [i \in DOMAIN st.pos |-> [r |-> st.pos[i], v |-> st.vel[i], m |-> st.mass[i]]]

-----------------------------------------------------------------------------
(* generated programs: one statement per pair, then one per body; masses are *)
(* literals, positions and velocities are locals                             *)

Source(bodies, pairs) ==
    [slots |-> Len(bodies),
     body |-> [k \in DOMAIN pairs |->
                 [i |-> pairs[k][1], j |-> pairs[k][2],
                  m1 |-> bodies[pairs[k][1]].m, m2 |-> bodies[pairs[k][2]].m]]]

Statement(loc, s, mag, f1, f2) ==
    LET d == VSub(loc.x[s.i], loc.x[s.j])
    IN  [loc EXCEPT !.u[s.i] = VSub(@, VMul(d, FMul(f2, mag))),
                    !.u[s.j] = VAdd(@, VMul(d, FMul(f1, mag)))]
Gap(loc, s) == Dot(VSub(loc.x[s.i], loc.x[s.j]))

(* load the slots the program names, run it n times, write the slots back:   *)
(* a body the program has no slot for is left alone                          *)
Execute(src, bodies, dt, n, route) ==
    LET Stmt(l, s) == Statement(l, s, Mag(route, dt, Gap(l, s)), s.m1, s.m2)
        loc0 == [x |-> [i \in 1..src.slots |-> bodies[i].r],
                 u |-> [i \in 1..src.slots |-> bodies[i].v]]
        Step(l) ==
            LET k == FoldLeft(Stmt, l, src.body)
            IN  [k EXCEPT !.x = [i \in DOMAIN @ |-> VAdd(@[i], VScale(dt, k.u[i]))]]
        done == Iterate(Step, loc0, n)
    IN  [i \in 1..Len(bodies) |->
            IF i <= src.slots THEN [bodies[i] EXCEPT !.r = done.x[i], !.v = done.u[i]]
            ELSE bodies[i]]

GeneratedAdvance(src, bodies, dt, n) == Execute(src, bodies, dt, n, "pow")
T3Advance(src, bodies, dt, n) == Execute(src, bodies, dt, n, "sqrt")
SqrtFileAdvance(src, bodies, dt, n) == T3Advance(src, bodies, dt, n)

-----------------------------------------------------------------------------
(* energy and momentum *)

PairEnergy(e, bodies, p, route) ==
    LET d == VSub(bodies[p[1]].r, bodies[p[2]].r)
        Root(x) == IF route = "pow" THEN Pow05(x) ELSE Sqrt(x)
    IN  FSub(e, FDiv(FMul(bodies[p[1]].m, bodies[p[2]].m), Root(Dot(d))))
Kinetic(e, b) == FAdd(e, FDiv(FMul(b.m, Dot(b.v)), 2))

ReportEnergy(bodies, pairs) ==
    FoldLeft(Kinetic, FoldLeft(LAMBDA e, p : PairEnergy(e, bodies, p, "pow"), 0, pairs), bodies)
SqrtEnergy(bodies, pairs) ==
    FoldLeft(Kinetic, FoldLeft(LAMBDA e, p : PairEnergy(e, bodies, p, "sqrt"), 0, pairs), bodies)
RustEnergy(st) ==
    LET potential == FoldLeft(LAMBDA e, p :
                        FSub(e, FDiv(FMul(st.mass[p[1]], st.mass[p[2]]),
                                     Pow05(Dot(VSub(st.pos[p[1]], st.pos[p[2]]))))),
                        0, st.pairs)
    IN  FoldLeft(LAMBDA e, i : FAdd(e, FDiv(FMul(st.mass[i], Dot(st.vel[i])), 2)),
                 potential, [i \in DOMAIN st.mass |-> i])

OffsetMomentum(bodies, ref) ==
    LET p == FoldLeft(LAMBDA s, b : VSub(s, VMul(b.v, b.m)), <<0, 0, 0>>, bodies)
    IN  [bodies EXCEPT ![ref].v = VDiv(p, bodies[ref].m)]
RustOffset(st, ref) ==
    LET p == FoldLeft(LAMBDA s, i : VSub(s, VMul(st.vel[i], st.mass[i])), <<0, 0, 0>>,
                      [i \in DOMAIN st.mass |-> i])
    IN  [st EXCEPT !.vel[ref] = VDiv(p, st.mass[ref])]
=============================================================================
