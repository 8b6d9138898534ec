----------------------------- MODULE GrapeStep ------------------------------
(* The issue schedule of a grape_pipeline step: the operation graph and the  *)
(* greedy in-order list scheduler of hw/grape_pipeline/docs/schedule_model.py,*)
(* and the reservation table gen_reservation.py makes of it for the RTL.     *)
(* The numbers of units and the latencies are the hardware's; Bodies is 5    *)
(* there.  Pairs and bodies count from 1.                                    *)
EXTENDS NBodyKernel

CONSTANTS
  Bodies,                   \* N_BODIES
  Lat,                      \* ADD_L, MUL_L, SQRT_L, RCP_L
  Horizon                   \* bound on the cycles of a schedule

ASSUME ScheduleAssumption ==
  Bodies \in Nat \ {0, 1} /\ Horizon \in 1..254 /\ Lat \in [{"ADD", "MUL", "SQRT", "RCP"} -> Nat \ {0}]

Capacity == [ADD |-> 3, MUL |-> 3, SQRT |-> 1, RCP |-> 1]
Interval == [SQRT |-> 2, RCP |-> 2]      \* SQRT_II, RCP_II
MaxPairs == Len(Combinations(Bodies))
Lanes == {<<b, c>> : b \in 1..Bodies, c \in 1..3}
NoLane == <<0, 0>>

\* The operations of a pair in front of the accumulation, with the results they
\* take: three differences, their squares and sum, root, d3, reciprocal, mag,
\* b1m and b2m, the force on i and the force on j.
FrontEnd ==
  << [unit |-> "ADD", of |-> {}], [unit |-> "ADD", of |-> {}], [unit |-> "ADD", of |-> {}],
     [unit |-> "MUL", of |-> {1}], [unit |-> "MUL", of |-> {2}], [unit |-> "MUL", of |-> {3}],
     [unit |-> "ADD", of |-> {4, 5}], [unit |-> "ADD", of |-> {6, 7}],
     [unit |-> "SQRT", of |-> {8}], [unit |-> "MUL", of |-> {8, 9}],
     [unit |-> "RCP", of |-> {10}], [unit |-> "MUL", of |-> {11}],
     [unit |-> "MUL", of |-> {12}], [unit |-> "MUL", of |-> {12}],
     [unit |-> "MUL", of |-> {1, 14}], [unit |-> "MUL", of |-> {2, 14}], [unit |-> "MUL", of |-> {3, 14}],
     [unit |-> "MUL", of |-> {1, 13}], [unit |-> "MUL", of |-> {2, 13}], [unit |-> "MUL", of |-> {3, 13}] >>
Tags == 1..Len(FrontEnd)
PerPair == Len(FrontEnd) + 6

\* build_ops: each update of a lane waits for the one before it on that lane,
\* dt * v for the last, r + dt * v for that product.
LaneOf(id) ==
  LET k == (id - 1) \div PerPair + 1
      n == ((id - 1) % PerPair) - Len(FrontEnd)
  IN  IF k > MaxPairs \/ n < 0 THEN NoLane
      ELSE <<Combinations(Bodies)[k][IF n < 3 THEN 1 ELSE 2], (n % 3) + 1>>
OnLane(lane, before) == {id \in 1..(before - 1) : LaneOf(id) = lane}
LastOn(lane, before) ==
  IF OnLane(lane, before) = {} THEN {} ELSE {Max(OnLane(lane, before))}

PairOp(id) ==
  LET base == ((id - 1) \div PerPair) * PerPair
      n == id - base
  IN  IF n \in Tags
      THEN [unit |-> FrontEnd[n].unit, needs |-> {base + m : m \in FrontEnd[n].of}]
      ELSE [unit |-> "ADD", needs |-> {base + n - 6} \cup LastOn(LaneOf(id), id)]
IntegrateOp(id) ==
  LET n == id - PerPair * MaxPairs - 1
      lane == <<n \div 6 + 1, ((n \div 2) % 3) + 1>>
  IN  IF n % 2 = 0 THEN [unit |-> "MUL", needs |-> LastOn(lane, PerPair * MaxPairs + 1)]
      ELSE [unit |-> "ADD", needs |-> {id - 1}]
BuildOps ==
  [id \in 1..(PerPair * MaxPairs + 6 * Bodies) |->
     IF id <= PerPair * MaxPairs THEN PairOp(id) ELSE IntegrateOp(id)]

-----------------------------------------------------------------------------
(* schedule: in every cycle each unit takes, in the order of the list, as     *)
(* many as it has room for of the pending operations whose results are there. *)
\* An issue is an operation and its cycle.
Finished(issues, t, id) == \E x \in issues : x[1] = id /\ x[2] + Lat[BuildOps[id].unit] <= t
Ready(issues, t, unit) ==
  {id \in DOMAIN BuildOps \ {x[1] : x \in issues} :
     BuildOps[id].unit = unit /\ \A d \in BuildOps[id].needs : Finished(issues, t, d)}
UnitOpen(issues, t, unit) ==
  unit \in DOMAIN Interval =>
    \A x \in issues : BuildOps[x[1]].unit = unit => x[2] + Interval[unit] <= t

\* The first k members of a set of numbers.
FirstOf(k, S) == {x \in S : Cardinality({y \in S : y < x}) < k}

IssueCycle(issues, t) ==
  issues \cup {<<id, t>> :
    id \in UNION {FirstOf(Capacity[u], Ready(issues, t, u)) :
                    u \in {v \in DOMAIN Capacity : UnitOpen(issues, t, v)}}}
Schedule == FoldLeft(IssueCycle, {}, [t \in 1..Horizon |-> t - 1])

\* build_and_schedule: the rows of the front-end operations.
Rows ==
  {[cycle |-> x[2], pair |-> (x[1] - 1) \div PerPair + 1, tag |-> ((x[1] - 1) % PerPair) + 1] :
     x \in {y \in Schedule : y[1] <= PerPair * MaxPairs /\ LaneOf(y[1]) = NoLane}}

-----------------------------------------------------------------------------
(* An invocation of grape_pipeline at the clock level: the step FSM          *)
(* (grape_step_fsm.sv), the force pipe that follows the reservation table    *)
(* (grape_force_pipe.sv), the accumulator that fits its operations into the  *)
(* slots the table leaves free (grape_accum.sv), and the two banks of bodies *)
(* (grape_body_rf.sv).  The table is made for one list of pairs and runs on  *)
(* whatever list the doorbell latched.                                       *)

CONSTANTS
  Jobs                      \* what a doorbell latches: bodies, pairs, dt, nsteps

\* What err_param lets through (grape_regs.sv:89-104): at most the table's pairs,
\* each naming two bodies that there are; whether they differ is not looked at.
ASSUME JobsAssumption ==
  \A j \in Jobs :
    /\ j.bodies \in [1..Bodies -> BodyState] /\ j.dt \in Float /\ j.nsteps \in Nat
    /\ j.pairs \in Seq((1..Bodies) \X (1..Bodies)) /\ Len(j.pairs) <= MaxPairs

VARIABLES
  state,                    \* S_LATCH, S_RUN, ...; END is S_IDLE behind the invocation
  job, steps, abortPend,
  cyc,                      \* cycle within the step
  pipe,                     \* operations in the units: unit, due, what, at, value
  scratch, captured,        \* results of the front end; which are this step's
  issued,                   \* accumulate operations issued
  busy,                     \* lanes in flight
  mulIssued, product, addIssued,          \* integration by lane; <<>> or <<dt * v>>
  mulDone, retired,
  work, committed           \* the two banks

stepVars == <<cyc, pipe, scratch, captured, issued, busy, mulIssued, product, addIssued, mulDone, retired>>
grapeVars == <<state, job, steps, abortPend, stepVars, work, committed>>

-----------------------------------------------------------------------------
\* emulation.advance: everything but the magnitude in the order of the benchmark.
Emulation(bodies, pairs, dt, n) ==
  LET Step(b) == Moves(FoldLeft(LAMBDA s, p : Impulse(s, p, "reciprocal", dt), b, pairs), dt)
  IN  Iterate(Step, bodies, n)

-----------------------------------------------------------------------------
(* What is known in a cycle.                                                 *)
Pairs == job.pairs
Parked == 255
InStep == state = "RUN"
Retiring == {p \in pipe : p.due = cyc}
Events == {r \in Rows : r.cycle = cyc}
Free(unit) == Capacity[unit] - Cardinality({r \in Events : FrontEnd[r.tag].unit = unit})

Issue(unit, what, at, value) ==
  [unit |-> unit, due |-> cyc + Lat[unit], what |-> what, at |-> at, value |-> value]

\* The scratch registers with the results of this cycle in front of them.
Forwarded(k, g) ==
  LET now == {p \in Retiring : p.what = "front" /\ p.at = <<k, g>>}
  IN  IF now = {} THEN scratch[k][g] ELSE (CHOOSE p \in now : TRUE).value

\* The operands of an operation of the table.
FrontValue(k, g) ==
  LET i == work[Pairs[k][1]]
      j == work[Pairs[k][2]]
      s(n) == Forwarded(k, n)
  IN  CASE g \in 1..3 -> FSub(i.r[g], j.r[g])
        [] g \in 4..6 -> FMul(s(g - 3), s(g - 3))
        [] g = 7 -> FAdd(s(4), s(5))
        [] g = 8 -> FAdd(s(7), s(6))
        [] g = 9 -> Sqrt(s(8))
        [] g = 10 -> FMul(s(8), s(9))
        [] g = 11 -> FDiv(1, s(10))
        [] g = 12 -> FMul(job.dt, s(11))
        [] g = 13 -> FMul(i.m, s(12))
        [] g = 14 -> FMul(j.m, s(12))
        [] g \in 15..17 -> FMul(s(g - 14), s(14))
        [] g \in 18..20 -> FMul(s(g - 17), s(13))

\* A pair behind NPAIRS is a bubble, but its slots stay reserved.
FrontIssues ==
  {Issue(FrontEnd[r.tag].unit, "front", <<r.pair, r.tag>>, FrontValue(r.pair, r.tag)) :
     r \in {x \in Events : x.pair <= Len(Pairs)}}

\* Accumulate operation e: three components of i, then three of j, pair by pair.
AccOps == 1..(6 * Len(Pairs))
PairOf(e) == (e - 1) \div 6 + 1
OnFirst(e) == ((e - 1) % 6) < 3
AccLane(e) == <<Pairs[PairOf(e)][IF OnFirst(e) THEN 1 ELSE 2], ((e - 1) % 3) + 1>>
Unissued == AccOps \ issued
ForceReady(k) == 15..20 \subseteq captured[k]
Clearing == {p.at : p \in {q \in Retiring : q.what = "acc"}}

Eligible ==
  {e \in Unissued :
     /\ \A f \in Unissued : f < e => AccLane(f) # AccLane(e)
     /\ ForceReady(PairOf(e))
     /\ AccLane(e) \in busy => AccLane(e) \in Clearing}
AccChosen == FirstOf(Free("ADD"), Eligible)

\* The lane's velocity, or the one that retires in this cycle.
Velocity(lane) ==
  LET now == {p \in Retiring : p.what = "acc" /\ p.at = lane}
  IN  IF lane \in busy /\ now # {} THEN (CHOOSE p \in now : TRUE).value
      ELSE work[lane[1]].v[lane[2]]
AccIssue(e) ==
  LET v == Velocity(AccLane(e))
      f == scratch[PairOf(e)][15 + ((e - 1) % 6)]
  IN  Issue("ADD", "acc", AccLane(e), IF OnFirst(e) THEN FSub(v, f) ELSE FAdd(v, f))

\* Lanes by number; a lane integrates when its updates are issued and retired.
Number(lane) == 3 * (lane[1] - 1) + lane[2]
FirstLanes(k, S) == {l \in S : Number(l) \in FirstOf(k, {Number(m) : m \in S})}
LanePending == {AccLane(e) : e \in Unissued}
MulReadyMut == Lanes \ (LanePending \cup mulIssued)
MulReady == Lanes \ (LanePending \cup busy \cup mulIssued)
MulChosen == FirstLanes(Free("MUL"), MulReady)
AddReady == {l \in Lanes \ addIssued : product[l] # <<>>}
AddChosen == FirstLanes(Free("ADD") - Cardinality(AccChosen), AddReady)

Issues ==
  FrontIssues
    \cup {AccIssue(e) : e \in AccChosen}
    \cup {Issue("ADD", "add", l, FAdd(work[l[1]].r[l[2]], product[l][1])) : l \in AddChosen}
    \cup {Issue("MUL", "mul", l, FMul(job.dt, work[l[1]].v[l[2]])) : l \in MulChosen}

AllDoneMut ==
  /\ Unissued = {} /\ mulDone /\ addIssued = Lanes
  /\ retired = 6 * MaxPairs + 2 * Cardinality(Lanes)
AllDone ==
  /\ Unissued = {} /\ mulDone /\ addIssued = Lanes
  /\ retired = 6 * Len(Pairs) + 2 * Cardinality(Lanes)

-----------------------------------------------------------------------------
(* The clock edge.                                                           *)

\* What retires of one kind at a place, or what is there.
Arriving(what, at, old) ==
  LET now == {p \in Retiring : p.what = what /\ p.at = at}
  IN  IF now = {} THEN old ELSE (CHOOSE p \in now : TRUE).value

StepEdge ==
  /\ cyc' = IF cyc = Parked THEN cyc ELSE cyc + 1
  /\ pipe' = (pipe \ Retiring) \cup Issues
  /\ scratch' = [k \in 1..MaxPairs |-> [g \in Tags |-> Arriving("front", <<k, g>>, scratch[k][g])]]
  /\ captured' = [k \in 1..MaxPairs |->
       captured[k] \cup {p.at[2] : p \in {q \in Retiring : q.what = "front" /\ q.at[1] = k}}]
  /\ issued' = issued \cup AccChosen
  /\ busy' = (busy \ Clearing) \cup {AccLane(e) : e \in AccChosen}
  /\ mulIssued' = mulIssued \cup MulChosen
  /\ product' = [l \in Lanes |->
       LET v == Arriving("mul", l, -1) IN IF v = -1 THEN product[l] ELSE <<v>>]
  /\ addIssued' = addIssued \cup AddChosen
  /\ mulDone' = (mulDone \/ mulIssued \cup MulChosen = Lanes)
  /\ retired' = retired + Cardinality({p \in Retiring : p.what # "front"})
  /\ work' = [b \in 1..Bodies |->
       [work[b] EXCEPT !.v = [c \in 1..3 |-> Arriving("acc", <<b, c>>, @[c])],
                       !.r = [c \in 1..3 |-> Arriving("add", <<b, c>>, @[c])]]]

\* Cycle 0 of a step; the scratch registers keep their values.
StepStart ==
  /\ cyc' = 0 /\ pipe' = {} /\ captured' = [k \in 1..MaxPairs |-> {}]
  /\ issued' = {} /\ busy' = {} /\ mulIssued' = {} /\ addIssued' = {}
  /\ product' = [l \in Lanes |-> <<>>] /\ mulDone' = FALSE /\ retired' = 0
  /\ UNCHANGED scratch

NoStep == UNCHANGED stepVars

AfterLatch ==
  /\ state = "LATCH"
  /\ IF job.nsteps = 0 THEN state' = "DONE" /\ NoStep ELSE state' = "RUN" /\ StepStart
  /\ UNCHANGED <<job, steps, work, committed>>

Run ==
  /\ InStep
  /\ StepEdge
  /\ state' = IF AllDone THEN "COMMIT" ELSE "RUN"
  /\ UNCHANGED <<job, steps, committed>>

Commit ==
  /\ state = "COMMIT"
  /\ steps' = steps + 1 /\ committed' = work
  /\ IF steps + 1 = job.nsteps THEN state' = "DONE" /\ NoStep
     ELSE IF abortPend THEN state' = "ABORT" /\ NoStep
     ELSE state' = "RUN" /\ StepStart
  /\ UNCHANGED <<job, work>>

EndInvocation ==
  /\ state \in {"DONE", "ABORT"}
  /\ state' = "END"
  /\ UNCHANGED <<job, steps, stepVars, work, committed>>

\* ABORT is a pulse in any cycle, acted on at the commit.
Clock ==
  /\ AfterLatch \/ Run \/ Commit \/ EndInvocation
  /\ abortPend' \in {abortPend, TRUE}

\* An accepted doorbell loads both banks.  The scratch registers of a first run
\* hold what reset left in them.
GrapeInit ==
  /\ state = "LATCH" /\ job \in Jobs
  /\ steps = 0 /\ abortPend = FALSE
  /\ cyc = Parked /\ pipe = {}
  /\ scratch = [k \in 1..MaxPairs |-> [g \in Tags |-> 0]]
  /\ captured = [k \in 1..MaxPairs |-> {}]
  /\ issued = {} /\ busy = {} /\ mulIssued = {} /\ addIssued = {}
  /\ product = [l \in Lanes |-> <<>>] /\ mulDone = FALSE /\ retired = 0
  /\ work = job.bodies /\ committed = job.bodies

GrapeSpec == GrapeInit /\ [][Clock]_grapeVars

-----------------------------------------------------------------------------
\* The committed bank holds at every moment exactly what the emulation model
\* gives for the steps counted so far, to the bit, for every list of pairs the
\* doorbell accepts: however the accumulator fills the free slots, no update of
\* a lane overtakes another, no force is read before it is there and no body
\* moves while a pair still needs its position.
CommittedIsExact ==
  committed = Emulation(job.bodies, job.pairs, job.dt, steps)
=============================================================================
