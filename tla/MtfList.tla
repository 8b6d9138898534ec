------------------------------ MODULE MtfList ------------------------------
(* hw/mtf_cam/rtl/mtf_list.sv: the move-to-front list, a shift-register CAM. *)
(* One step is one clock edge.  INIT fills the list with the used byte       *)
(* values in ascending order, one per cycle; afterwards a move-to-front      *)
(* rotates ranks 0..r in one cycle.  ListStep takes the input wires as       *)
(* parameters, so that MtfCam drives the same definition from its FSM.       *)
EXTENDS MtfParams, FiniteSets

NoMove == -1                \* mv_en low

VARIABLES
  lst,                      \* lst: the entries; never reset by the code
  rem,                      \* rem_q: used bytes the fill has not written yet
  filling,                  \* filling_q
  fillIdx,                  \* fill_idx_q, read outside as n_used_o
  used                      \* history: the used map of the last init_start

listVars == <<lst, rem, filling, fillIdx, used>>

\* The registers without a reset start with any contents.
ListInit ==
  /\ lst \in [Ranks -> Bytes]
  /\ rem = {}
  /\ filling = FALSE
  /\ fillIdx = 0
  /\ used = {}

-----------------------------------------------------------------------------
\* The lowest-set-bit priority encoder: b is the smallest byte of src.
IsLowest(b, src) == b \in src /\ \A c \in src : b <= c

\* One fill cycle: the lowest byte of src goes to entry base.
Fill(src, base) ==
  \/ \E b \in src :
       /\ IsLowest(b, src)
       /\ lst' = [lst EXCEPT ![base] = b]
       /\ rem' = src \ {b}
       /\ fillIdx' = base + 1
       /\ filling' = (src \ {b} # {})
  \/ /\ src = {}
     /\ rem' = src
     /\ fillIdx' = base
     /\ filling' = FALSE
     /\ UNCHANGED lst

\* The parallel shift: rank 0 takes rank r, ranks 1..r take their left
\* neighbour, higher ranks keep their byte.
Rotated(l, r) ==
  [i \in Ranks |-> IF i = 0 THEN l[r] ELSE IF i <= r THEN l[i - 1] ELSE l[i]]

MoveToFront(r) ==
  /\ lst' = Rotated(lst, r)
  /\ UNCHANGED <<rem, filling, fillIdx>>

\* init_busy_o: high on every fill cycle, the doorbell cycle included.
InitBusy(start) == start \/ filling

\* fill_src and fill_base: init_start restarts the fill from the used map.
FillSource(start, usedMap) == IF start THEN usedMap ELSE rem
FillBase(start) == IF start THEN 0 ELSE fillIdx

\* The clock edge: a fill cycle has priority over a move.
ListStep(start, usedMap, mv) ==
  /\ used' = IF start THEN usedMap ELSE used
  /\ \/ InitBusy(start) /\ Fill(FillSource(start, usedMap), FillBase(start))
     \/ ~InitBusy(start) /\ mv # NoMove /\ MoveToFront(mv)
     \/ ~InitBusy(start) /\ mv = NoMove /\ UNCHANGED <<lst, rem, filling, fillIdx>>

-----------------------------------------------------------------------------
(* The list on its own, under the contract the controller keeps: a move      *)
(* names a live rank and is requested only when no fill is running; a fill   *)
(* may be restarted at any time (a doorbell after an abort during INIT).     *)
ListStart(u) == ListStep(TRUE, u, NoMove)
ListTick == ListStep(FALSE, used, NoMove)
ListMove(r) == ~filling /\ r < fillIdx /\ ListStep(FALSE, used, r)

ListNext ==
  \/ \E u \in SUBSET Bytes : ListStart(u)
  \/ ListTick
  \/ \E r \in Ranks : ListMove(r)

ListSpec == ListInit /\ [][ListNext]_listVars

-----------------------------------------------------------------------------
\* The state of the list has its type.
ListTypeOK ==
  /\ lst \in [Ranks -> Bytes]
  /\ rem \in SUBSET Bytes
  /\ filling \in BOOLEAN
  /\ fillIdx \in 0..NList
  /\ used \in SUBSET Bytes

Live == 0..(fillIdx - 1)    \* the ranks the invocation uses

\* The fill has a byte left exactly while it runs, and room for each of them:
\* fill_idx_q never leaves the array, whenever a fill is restarted.
FillProgress ==
  /\ filling <=> rem # {}
  /\ fillIdx + Cardinality(rem) = Cardinality(used)
  /\ rem \subseteq used

\* Property (i) of formal/mtf_list_inv.sv: the live entries are the used bytes
\* already filled, each exactly once, during the fill and after any number of
\* moves: no byte value is lost or duplicated.
Permutation ==
  /\ \A i, j \in Live : lst[i] = lst[j] => i = j
  /\ {lst[i] : i \in Live} = used \ rem

\* During the fill and until the first move the live entries are in ascending
\* order and below every byte still to come (MAS S1: ascending used values).
FillAscending ==
  filling => /\ \A i, j \in Live : i < j => lst[i] < lst[j]
             /\ \A i \in Live : \A b \in rem : lst[i] < b
=============================================================================
