------------------------------- MODULE MtfRun -------------------------------
(* hw/mtf_cam/rtl/mtf_run.sv: the RUNA/RUNB bijective-base-2 accumulator.    *)
(* The index k_q of the run symbol in its group is only ever read as 1 << k, *)
(* so the model keeps that weight.                                           *)
EXTENDS MtfParams

VARIABLES
  run,                      \* n_q: length accumulated so far, 0 = no run pending
  weight,                   \* 1 << k_q
  maxRun                    \* max_q: longest run enqueued in this invocation

runVars == <<run, weight, maxRun>>

RunInit == run = 0 /\ weight = 1 /\ maxRun = 0

\* sum: RUNA (bit 0) counts the weight once, RUNB (bit 1) twice.
RunSum(bit) == run + weight * (1 + bit)

\* A test of the length before the addition instead of after it.
RunOverflowMut(bit) == run >= RunMax

\* overflow_o: independent of acc_en, so that the controller can gate on it.
RunOverflow(bit) == RunSum(bit) > RunMax

RunHold == UNCHANGED runVars

RunAccumulate(bit) ==
  /\ run' = RunSum(bit)
  /\ weight' = 2 * weight
  /\ UNCHANGED maxRun

\* clr ends the group; commit says that its run item is enqueued.
RunClear(commit) ==
  /\ run' = 0
  /\ weight' = 1
  /\ maxRun' = IF commit /\ run > maxRun THEN run ELSE maxRun

\* The doorbell clears the per-invocation maximum too.
RunRestart == run' = 0 /\ weight' = 1 /\ maxRun' = 0

-----------------------------------------------------------------------------
(* The accumulator on its own: the sequencer never accepts the run symbol    *)
(* that overflows, and ends a group with or without a run item.              *)
RunNext ==
  \/ \E bit \in 0..1 : ~RunOverflow(bit) /\ RunAccumulate(bit)
  \/ \E commit \in BOOLEAN : RunClear(commit)
  \/ RunRestart

RunSpec == RunInit /\ [][RunNext]_runVars

-----------------------------------------------------------------------------
\* The registers have their types.
RunTypeOK ==
  /\ run \in 0..RunMax
  /\ weight \in Nat \ {0}
  /\ maxRun \in 0..RunMax

\* k bijective digits stand for a length between 2^k - 1 and 2 * (2^k - 1): a
\* pending group always has a non-zero length (nonzero_o is run # 0), and two
\* groups with different numbers of symbols never have the same length.
GroupRange == run \in (weight - 1)..(2 * (weight - 1))

\* The 22-bit adder and the 5-bit index never wrap (M1 in the code's comment):
\* the sum of any next symbol stays below 4 * RunMax = 2^22, and the weight
\* does not pass RunMax = 2^20, so k_q <= 20 and 1 << k_q fits base.
NoWrap ==
  /\ \A bit \in 0..1 : RunSum(bit) <= 3 * RunMax + 2
  /\ weight <= RunMax + 1
=============================================================================
