------------------------------ MODULE MtfDrain ------------------------------
(* The drain side of mtf_cam: item queue, run expander (mtf_expand.sv) and   *)
(* beat packer (mtf_pack.sv) up to the registered m_l AXI4-Stream output.    *)
(* DrainEdge is one clock edge of the three blocks together; its parameters  *)
(* are the wires the controller and the consumer drive:                      *)
(*   ctl    "run"      no flush                                              *)
(*          "last"     flush_normal: the block ended, mark the last beat     *)
(*          "stop"     pipe_flush and flush_err: an error or an abort        *)
(*          "discard"  the doorbell withdraws a beat still pending           *)
(*   wr     the items enqueued, in order                                     *)
(*   ready  m_axis_l_tready                                                  *)
EXTENDS MtfParams

VARIABLES
  fifo,                     \* the item queue
  exp,                      \* expander: the items in flight, at most one
  buf,                      \* packer: buf_arr[0 .. buf_cnt_q - 1]
  flushing, flushLast,      \* packer: flushing_q, flush_last_q
  out                       \* packer: the registered beat, <<>> = tvalid low

drainVars == <<fifo, exp, buf, flushing, flushLast, out>>

Queue == INSTANCE ItemQueue

\* A beat is its live lanes (TKEEP is contiguous from lane 0) and TLAST.
Beat == [bytes : Seq(Bytes), last : BOOLEAN]

DrainInit ==
  /\ fifo = <<>>
  /\ exp = <<>>
  /\ buf = <<>>
  /\ flushing = FALSE /\ flushLast = FALSE
  /\ out = <<>>

-----------------------------------------------------------------------------
\* flush_active, flush_last: a flush pulse now, or one still to be served.
FlushActive(ctl) == ctl \in {"last", "stop"} \/ flushing
FlushLast(ctl) == IF ctl \in {"last", "stop"} THEN ctl = "last" ELSE flushLast

\* o_free_next, the handshake of this edge included.
OutFree(ready) == out = <<>> \/ ready

\* pack_ready_o: bytes are taken unless flushing, and only if a beat they
\* force out finds the output register free.
PackReady(ctl, ready) == ~FlushActive(ctl) /\ OutFree(ready)

\* mtf_expand: out_cnt_o lanes of the item in flight, and what remains of it.
LaneCount == IF exp[1].count <= W THEN exp[1].count ELSE W
Finishing == exp # <<>> /\ exp[1].count <= W

\* fifo_rd_en_o: pop when idle or when the item in flight completes.
Pop(ctl, ready) ==
  /\ ctl # "stop"
  /\ Queue!Readable(fifo)
  /\ exp = <<>> \/ (PackReady(ctl, ready) /\ Finishing)

ExpandAfter(ctl, ready) ==
  IF ctl = "stop" THEN <<>>
  ELSE IF Pop(ctl, ready) THEN <<Head(fifo)>>
  ELSE IF exp = <<>> \/ ~PackReady(ctl, ready) THEN exp
  ELSE IF Finishing THEN <<>>
  ELSE <<[exp[1] EXCEPT !.count = @ - W]>>

\* cat: the buffered bytes followed by those accepted on this edge.
Accepted(ctl, ready) ==
  IF exp # <<>> /\ PackReady(ctl, ready)
    THEN [i \in 1..LaneCount |-> exp[1].byte] ELSE <<>>
Merged(ctl, ready) == buf \o Accepted(ctl, ready)

\* emit_full: a full beat leaves only when a further byte forces it out, so that
\* a block that is a multiple of W has a byte left to mark as last.
EmitFull(ctl, ready) == Len(Merged(ctl, ready)) > W

\* emit_flush: the buffered remainder leaves as the flush beat.
EmitFlush(ctl, ready) == FlushActive(ctl) /\ buf # <<>> /\ OutFree(ready)

OutAfter(ctl, ready) ==
  IF ctl = "discard" THEN <<>>
  ELSE IF EmitFull(ctl, ready)
    THEN <<[bytes |-> SubSeq(Merged(ctl, ready), 1, W), last |-> FALSE]>>
  ELSE IF EmitFlush(ctl, ready) THEN <<[bytes |-> buf, last |-> FlushLast(ctl)]>>
  ELSE IF ready THEN <<>> ELSE out

BufAfter(ctl, ready) ==
  IF ctl = "discard" \/ EmitFlush(ctl, ready) THEN <<>>
  ELSE IF EmitFull(ctl, ready)
    THEN SubSeq(Merged(ctl, ready), W + 1, Len(Merged(ctl, ready)))
  ELSE Merged(ctl, ready)

\* idle_o of the packer (once without the output register), and drain_ready:
\* every byte is past the expander.
PackIdle == buf = <<>> /\ out = <<>> /\ ~flushing
DrainReady == ~Queue!Readable(fifo) /\ exp = <<>>

\* The clock edge.
DrainEdge(ctl, wr, ready) ==
  /\ fifo' = Queue!QueueAfter(fifo, ctl = "stop", wr, Pop(ctl, ready))
  /\ exp' = ExpandAfter(ctl, ready)
  /\ buf' = BufAfter(ctl, ready)
  /\ out' = OutAfter(ctl, ready)
  /\ flushing' = (/\ ctl # "discard" /\ FlushActive(ctl)
                  /\ buf # <<>> /\ ~EmitFlush(ctl, ready))
  /\ flushLast' = (ctl # "discard" /\ FlushLast(ctl))

-----------------------------------------------------------------------------
DrainTypeOK ==
  /\ fifo \in Seq(Item) /\ Len(fifo) <= Depth
  /\ exp \in Seq(Item) /\ Len(exp) <= 1
  /\ buf \in Seq(Bytes) /\ Len(buf) <= W
  /\ flushing \in BOOLEAN /\ flushLast \in BOOLEAN
  /\ out \in Seq(Beat) /\ Len(out) <= 1
  /\ out # <<>> => Len(out[1].bytes) \in 1..W
=============================================================================
