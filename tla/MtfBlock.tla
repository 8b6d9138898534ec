------------------------------ MODULE MtfBlock ------------------------------
(* What one invocation of mtf_cam promises to the software and to the module *)
(* behind m_l, without clock, list, queue, expander or packer: bytes become  *)
(* owed as symbols are accepted, at most Lanes of them leave at a time, the  *)
(* block ends only when none is owed, and an error or an abort may forget    *)
(* owed bytes but never adds one.  MtfCam implements it (MtfCamHistory).     *)
EXTENDS Integers

CONSTANTS Lanes, MaxBytes, Failures

VARIABLES phase, owed, outcome

blockVars == <<phase, owed, outcome>>

BlockInit == phase = "IDLE" /\ owed = 0 /\ outcome = "NONE"

\* A beat of k bytes leaves, or none does (k = 0).
Leaving == 0..Lanes
After(k) == owed - k

Start ==
  /\ phase = "IDLE"
  /\ phase' = "BUSY" /\ owed' = 0 /\ outcome' = "NONE"

Work(k, n) ==
  /\ phase = "BUSY" /\ k <= owed
  /\ owed' = After(k) + n
  /\ UNCHANGED <<phase, outcome>>

EndOfBlock(k, n) ==
  /\ phase = "BUSY" /\ k <= owed
  /\ phase' = "ENDING" /\ owed' = After(k) + n
  /\ UNCHANGED outcome

Deliver(k) ==
  /\ phase # "BUSY" /\ k <= owed
  /\ owed' = After(k)
  /\ UNCHANGED <<phase, outcome>>

Finish ==
  /\ phase = "ENDING" /\ owed = 0
  /\ phase' = "IDLE" /\ outcome' = "DONE"
  /\ UNCHANGED owed

\* At most two beats survive: the one being offered and the partial one.
Stop(k, why) ==
  /\ phase # "IDLE" /\ k <= owed
  /\ phase' = "IDLE" /\ outcome' = why
  /\ owed' \in 0..After(k) /\ owed' <= 2 * Lanes

BlockNext ==
  \/ Start
  \/ Finish
  \/ \E k \in Leaving :
       \/ Deliver(k)
       \/ \E n \in 0..MaxBytes : Work(k, n) \/ EndOfBlock(k, n)
       \/ \E why \in Failures : Stop(k, why)

Closing == Finish \/ \E k \in 1..Lanes : phase = "ENDING" /\ Deliver(k)

BlockSafety == BlockInit /\ [][BlockNext]_blockVars
BlockSpec == BlockSafety /\ WF_blockVars(Closing)
=============================================================================
