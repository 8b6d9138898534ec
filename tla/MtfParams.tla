----------------------------- MODULE MtfParams -----------------------------
(* The parameters of hw/mtf_cam/rtl/mtf_cam.sv and the data its blocks pass  *)
(* to each other.                                                            *)
EXTENDS Integers, Sequences

CONSTANTS
  NList,                    \* N_LIST: list capacity and size of the byte domain
  W,                        \* W: output lanes, bytes per m_l beat
  Depth,                    \* D: item FIFO depth
  RunMax                    \* RUN_MAX of mtf_run, 2^20 in the code

ASSUME NListAssumption == NList \in Nat \ {0}
ASSUME LaneAssumption == W \in Nat \ {0}
ASSUME DepthAssumption == Depth \in Nat /\ Depth >= 2
ASSUME RunAssumption == RunMax \in Nat \ {0}

Ranks == 0..(NList - 1)
Bytes == 0..(NList - 1)

\* {is_run, n, byte}: the expander reads an MTF-byte item as a count of one.
Item == [count : 1..RunMax, byte : Bytes]
=============================================================================
