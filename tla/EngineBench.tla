---------------------------- MODULE EngineBench ----------------------------
(* The scoreboards of hw/*/tb/env.py: each replays the register accesses its *)
(* monitor saw against a mirror of its own and compares what was read.  The  *)
(* outcome the golden model predicts for a job is the job's len and ends     *)
(* (MtfCamHistory and PyflateBlock compare those predictions with the data). *)
EXTENDS EngineDevice

VARIABLES sb                \* the mirror of the scoreboard of this engine

Unknown == -1                \* nothing to compare a counter with
NewMirror ==
  [cfg |-> NoJob, sticky |-> {}, busy |-> FALSE, inv |-> NoJob, aborting |-> FALSE,
   completed |-> Unknown, cut |-> FALSE, awaited |-> FALSE, steps |-> Unknown,
   body |-> <<"reset", 0>>, alarm |-> FALSE]

\* huffman_engine's scoreboard keeps the counters of the last completed
\* invocation over a reset.
ResetMirror ==
  sb' = [NewMirror EXCEPT !.completed = IF engine = "huffman" THEN sb.completed ELSE Unknown,
                          !.alarm = sb.alarm]

Check(m, ok) == [m EXCEPT !.alarm = @ \/ ~ok]
Raise(m, flags) == [m EXCEPT !.sticky = @ \cup flags]

-----------------------------------------------------------------------------
(* Writes.                                                                   *)

\* _advance_golden: the mirror's bodies after so many steps of the latched job.
Golden(m, steps) ==
  [m EXCEPT !.body = <<@[1], @[2] + steps>>,
            !.sticky = @ \cup (IF steps > 0 THEN m.inv.fp ELSE {})]

Open(m) ==
  LET opened == [m EXCEPT !.inv = m.cfg, !.busy = TRUE, !.aborting = FALSE, !.cut = FALSE,
                          !.steps = Unknown]
  IN  IF engine = "grape" /\ m.cfg.len = 0
      THEN Golden([Raise(opened, {"DONE"}) EXCEPT !.busy = FALSE, !.steps = 0], 0)
      ELSE opened

\* The doorbells that end the stream window of the open invocation: mtf_cam
\* takes the accepted ones only, huffman_engine every doorbell, so that symbols
\* taken behind a refused one would be lost to the prediction.
EndsWindowMut(accepted) == TRUE
EndsWindow(accepted) == IF engine = "huffman" THEN TRUE ELSE accepted
Drained == count + 1 >= latched.len

Window(m, accepted) ==
  [m EXCEPT !.cut = @ \/ (m.busy /\ engine # "grape" /\ EndsWindow(accepted) /\ ~Drained)]

Ring(m) ==
  IF m.busy THEN Raise(Window(m, FALSE), {"ERR_BUSY"})
  ELSE IF Rejection(m.cfg) # {} THEN Raise(m, Rejection(m.cfg))
  ELSE Open(m)

\* An abort of a busy engine; only grape's scoreboard looks at a doorbell in
\* the same write.
OnAbort(m, bits) ==
  LET asked == [m EXCEPT !.aborting = @ \/ m.busy]
  IN  IF engine = "grape" /\ m.busy /\ "DOORBELL" \in bits THEN Raise(asked, {"ERR_BUSY"})
      ELSE asked

OnCtrl(m, bits) ==
  IF "ABORT" \in bits THEN OnAbort(m, bits)
  ELSE IF "DOORBELL" \in bits THEN Ring(m) ELSE m

OnStatusWrite(m, bits) == [m EXCEPT !.sticky = @ \ bits]

\* A configuration write while busy is refused with ERR_BUSY; huffman_engine's
\* scoreboard knows that it is refused and not that it is flagged.
OnConfigMut(m, job) == [m EXCEPT !.cfg = job, !.body = IF job.load THEN <<job.id, 0>> ELSE @]
OnConfig(m, job) ==
  IF m.busy THEN (IF engine = "huffman" THEN m ELSE Raise(m, {"ERR_BUSY"}))
  ELSE [m EXCEPT !.cfg = job, !.body = IF job.load THEN <<job.id, 0>> ELSE @]

-----------------------------------------------------------------------------
(* Reads.                                                                    *)

Close(m) == [m EXCEPT !.busy = FALSE, !.inv = IF engine = "grape" THEN @ ELSE NoJob]

\* Which way a busy invocation that is seen idle has ended: mtf_cam believes
\* every abort, huffman_engine asks for the absence of DONE, grape for ABORTED.
EndedByAbort(m, st) ==
  /\ m.aborting
  /\ engine = "huffman" => "DONE" \notin st
  /\ engine = "grape" => "ABORTED" \in st

AbortSeen(m) ==
  [Close(Raise(m, {"ABORTED"})) EXCEPT
     !.aborting = IF engine = "grape" THEN FALSE ELSE @,
     !.awaited = (engine = "grape"),
     !.completed = IF engine = "mtf" THEN Unknown ELSE @]

EndSeen(m, st) ==
  IF engine = "grape"
  THEN Close(Golden([Check(Raise(m, {"DONE"}), "DONE" \in st) EXCEPT
                       !.aborting = FALSE, !.steps = m.inv.len], m.inv.len))
  ELSE Close([Check(Raise(m, {m.inv.ends}), ~m.cut) EXCEPT !.completed = m.inv.len])

Completion(m, st) ==
  IF ~m.busy \/ "BUSY" \in st THEN m
  ELSE IF EndedByAbort(m, st) THEN AbortSeen(m) ELSE EndSeen(m, st)

\* The sticky bits are compared at every read; grape skips the reads of a busy
\* engine and those between an abort and the read of STEPS_DONE.
OnStatusRead(m, st) ==
  LET n == Completion(m, st)
  IN  Check(n, st \ {"BUSY"} = n.sticky \/ (engine = "grape" /\ (n.busy \/ n.awaited)))

\* SYMBOLS, SYMBOLS_IN and their like; STEPS_DONE also tells grape's scoreboard
\* how far an aborted run came.
OnCountRead(m, n) ==
  CASE m.busy -> m
    [] ~m.busy /\ engine = "grape" /\ m.awaited ->
         Golden([Check(m, n <= m.inv.len) EXCEPT !.awaited = FALSE, !.steps = n], n)
    [] ~m.busy /\ engine = "grape" /\ ~m.awaited -> Check(m, m.steps \in {Unknown, n})
    [] OTHER -> Check(m, m.completed \in {Unknown, n})

OnBodyRead(m, b) == Check(m, m.busy \/ m.awaited \/ b = m.body)
=============================================================================
