------------------------------ MODULE MCNBody -------------------------------
(* The two places an N-body system is integrated: the benchmark programs on  *)
(* the host (NBody) and an invocation of the accelerator (GrapeStep).  They  *)
(* share the arithmetic and no state; a behaviour is one of the two.         *)
(* The accelerator has its real size: five bodies, ten pair slots, the units *)
(* and latencies of the RTL.                                                 *)
EXTENDS NBody, GrapeStep

VARIABLE target             \* "host" or "grape"

targetVars == <<target, vars, grapeVars>>

Host == target = "host" /\ Next /\ UNCHANGED <<target, grapeVars>>
Grape == target = "grape" /\ Clock /\ UNCHANGED <<target, vars>>

TargetsInit ==
  \/ target = "host" /\ Init /\ GrapeInit /\ job = (CHOOSE j \in Jobs : TRUE)
  \/ /\ target = "grape" /\ GrapeInit
     /\ seed = (CHOOSE s \in Seeds : TRUE) /\ calls = 0
     /\ landed = LandedModule("python", CHOOSE l \in UnrollLimits : TRUE, seed) /\ stock = StockModule(seed)

\* The clock runs; a host program may stop at any call.
TargetsSpec == TargetsInit /\ [][Host \/ Grape]_targetVars /\ WF_targetVars(Grape)

\* Every invocation ends: no lane, free slot or retirement count is lost, for
\* any list of pairs and any moment of an ABORT (grape_accum.sv:415-425).
InvocationEnds == target = "grape" ~> target = "grape" /\ state = "END"

-----------------------------------------------------------------------------
MCLat == [ADD |-> 3, MUL |-> 3, SQRT |-> 30, RCP |-> 22]

\* The pairs of the benchmark forward and backward, no pair, one pair ten times
\* (every update on the same lanes), a body with itself and pairs both ways.
MCPairLists ==
  {<<>>, Combinations(5), Reverse(Combinations(5)), [k \in 1..10 |-> <<1, 2>>],
   <<<<4, 4>>, <<2, 1>>, <<1, 2>>, <<3, 1>>>>}
MCJobs ==
  {[bodies |-> [k \in 1..5 |-> Body(9, k)], pairs |-> l, dt |-> 3, nsteps |-> n] :
     l \in MCPairLists, n \in {0, 2}}
=============================================================================
