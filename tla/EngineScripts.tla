---------------------------- MODULE EngineScripts ----------------------------
(* The register traffic of the test sequences (hw/*/tb/sequences, composed   *)
(* by the tests of hw/*/tb) and of the drivers, as sequences of operations.  *)
(* An operation is one access or one polling loop.                           *)
EXTENDS EngineDevice

CONSTANTS CallJobs          \* the jobs that callers hand to the drivers

AllSticky == {"DONE", "ABORTED", "ERR_BUSY", "ERR_PARAM", "ERR_TABLE", "ERR_RUN", "FP"}

Op(name) == [op |-> name]
Configure(job) == [op |-> "config", job |-> job]
Ctrl(bits) == [op |-> "ctrl", bits |-> bits]
RingBell == Ctrl({"DOORBELL"})
Abort == Ctrl({"ABORT"})
Clear(bits) == [op |-> "clear", bits |-> bits]
ClearSeen(mask) == [op |-> "clear_seen", bits |-> mask]    \* what the last read showed
\* One STATUS read, with what it must and must not show.
Look(need, never) == [op |-> "status", need |-> need, never |-> never]
Before == Op("before")      \* the STATUS read in front of a doorbell
\* STATUS is read until `until' holds; then one flag of mask must be there and
\* none of never.
Poll(until, mask, never) == [op |-> "poll", until |-> until, mask |-> mask, never |-> never]
PollCount(n) == [op |-> "poll_count", n |-> n]
\* Until here the run goes on: a paused source, or a run far longer than the
\* few writes before this point.
Release == Op("release")

-----------------------------------------------------------------------------
(* The drivers: HuffmanDriver.decode_block, and GrapeDriver.advance and      *)
(* MtfDriver.expand_block with their awaited twins.                          *)

\* load_lengths and load_pairs refuse a job behind the writes of configure or
\* load_bodies, mtf_cam's configure in front of its own; start, which clears
\* STATUS first for mtf_cam only, and wait_done look at STATUS.
Validate(job) == [op |-> "validate", job |-> job]
Load(job) ==
  IF engine = "mtf" THEN <<Validate(job), Configure(job), Clear(AllSticky)>>
  ELSE <<Configure(job), Validate(job)>>
Result == IF engine = "grape" THEN Op("body") ELSE Op("count")
CallMut(job) == Load(job) \o <<RingBell, Op("started"), Op("wait"), Result, Op("return")>>
Call(job) ==
  Load(job) \o <<RingBell, Op("started"), Op("wait"), Result, Clear(AllSticky), Op("return")>>

\* What a caller does after an exception: stop the engine, wait, clear.
CallerRecovery == <<Abort, Poll("idle", {}, {}), Clear(AllSticky)>>

StartErrors == IF engine = "huffman" THEN {"ERR_PARAM", "ERR_TABLE"} ELSE {"ERR_PARAM"}
RunErrors ==
  CASE engine = "huffman" -> {"ERR_TABLE", "ERR_RUN"}
    [] engine = "mtf" -> {"ERR_PARAM", "ERR_BUSY", "ERR_TABLE", "ERR_RUN"}
    [] OTHER -> {}
WaitOver(st) ==
  CASE engine = "huffman" -> "BUSY" \notin st
    [] engine = "mtf" -> "BUSY" \notin st /\ st # {}
    [] OTHER -> st \cap {"DONE", "ABORTED"} # {}
-----------------------------------------------------------------------------
(* mtf_cam.                                                                  *)
A == Job("a", 2, "DONE")
B == Job("b", 1, "DONE")
Failing == Job("failing", 1, "ERR_RUN")
BadParam == [A EXCEPT !.bad = "param"]
BadTable == [A EXCEPT !.bad = "table"]

\* Doorbell, then poll to the outcome; a flag that was there before does not
\* count unless BUSY was seen (B6).
RunToDone(mask) == <<Before, RingBell, Poll("outcome", mask, {})>>
Rejected(job, flag) == <<Configure(job), RingBell, Look({flag}, {"BUSY"})>>

MtfSmoke == <<Configure(A), Before, RingBell, Poll("seen", {"DONE"}, {}), Clear({"DONE"}),
              Look({}, {}), Op("count")>>
MtfBlock(job) == <<Configure(job)>> \o RunToDone({"DONE"}) \o <<Op("count"), Clear({"DONE"})>>
MtfRandom(job) == <<Configure(job)>> \o RunToDone({"DONE"}) \o <<Op("count"), ClearSeen(AllSticky)>>
ParamReject == Rejected(BadParam, "ERR_PARAM") \o <<Clear({"ERR_PARAM"})>>
MtfRun(job) ==
  <<Configure(job), Before, RingBell, Op("count"),
    Poll("seen", {job.ends}, IF job.ends = "DONE" THEN {} ELSE {"DONE"}),
    Op("count"), Clear(AllSticky)>>

BusyAbuse(writes) ==
  <<Configure(A), RingBell, Look({"BUSY"}, {})>> \o writes \o
  <<Look({"ERR_BUSY", "BUSY"}, {}), Clear({"ERR_BUSY"}), Poll("idle", {"DONE"}, {}), Clear(AllSticky)>>
BusyDoorbell == BusyAbuse(<<RingBell>>)
BusyConfig == BusyAbuse(<<Configure(BadParam)>>)

MtfAbort(reads) ==
  <<Configure(A), RingBell>> \o [i \in 1..reads |-> Look({}, {})] \o
  <<Abort, Poll("idle", {"ABORTED"}, {"DONE"}), Clear(AllSticky)>>
RegSweep ==
  <<Op("count"), Configure(Job("parked", 0, "NEVER")), RingBell, Look({"BUSY"}, {}), Abort,
    Poll("idle", {}, {}), Clear(AllSticky)>>

Prepare(job) == <<Configure(job), RingBell>>
ReadZero == <<Look({}, AllSticky), Op("count")>>

MtfMultiblockTest == MtfBlock(A) \o MtfBlock(B)
MtfRandomTest == MtfRandom(A) \o <<Op("reset")>> \o MtfRandom(B)
MtfCornerTest == ParamReject \o MtfRun(Job("empty", 0, "DONE")) \o MtfRun(A) \o BusyDoorbell
MtfErrorTest == MtfRun(Failing) \o <<Op("reset")>> \o MtfRun(Failing)
MtfResetState == Prepare(A) \o <<Op("reset")>> \o ReadZero
MtfResetStateTest == MtfResetState \o MtfResetState \o MtfResetState
MtfXinvTest == MtfRun(Failing) \o MtfRun(Job("empty", 0, "DONE"))
MtfDriverTest ==
  RegSweep \o <<Op("reset")>> \o BusyConfig \o <<Op("reset")>>
    \o MtfAbort(0) \o <<Op("reset")>> \o MtfAbort(2)

MtfTests ==
  { MtfSmoke, MtfMultiblockTest, MtfRandomTest, MtfCornerTest, MtfErrorTest,
    MtfResetStateTest, MtfXinvTest, MtfDriverTest }

-----------------------------------------------------------------------------
(* huffman_engine.                                                           *)
HuffSmoke == <<Configure(A)>> \o RunToDone({"DONE"}) \o <<Clear({"DONE"}), Look({}, {}), Op("count")>>
HuffRun(job, cleared) == <<Configure(job)>> \o RunToDone({"DONE"}) \o cleared \o <<Op("count")>>
HuffW1C == <<Clear(AllSticky), Look({}, AllSticky)>>
HuffAbort(wait) == wait \o <<Abort, Poll("idle", {"ABORTED", "DONE"}, {})>>
Recovery(job) == HuffRun(job, <<Clear({"DONE"}), Look({}, {})>>)
ErrInv(job, outcome) ==
  <<Configure(job)>> \o RunToDone({outcome}) \o <<Op("count"), Clear(AllSticky)>>
ErrInvReject(job, flag) == Rejected(job, flag) \o <<Op("count"), Clear(AllSticky)>>
HuffRandom(job) == <<Configure(job)>> \o RunToDone({"DONE"}) \o <<ClearSeen(AllSticky), Op("count")>>
SelBoundary ==
  <<Configure(A), RingBell, PollCount(1), Op("count"), Look({"BUSY"}, AllSticky), Release,
    Poll("ended", {"DONE"}, {})>> \o HuffW1C \o <<Op("count")>>

\* The abuse starts when the sources have drained: a refused doorbell cuts the
\* scoreboard's window of the stream.
RandBusy ==
  <<Configure(A), RingBell, Look({"BUSY"}, {}), Op("drained"), Configure(B), RingBell,
    Look({"ERR_BUSY", "BUSY"}, {}), Clear({"ERR_BUSY"}), Release, Poll("idle", {"DONE"}, {}),
    Clear({"DONE"}), Op("count")>>

CoverSeq(job) == <<Configure(job), RingBell, Poll("idle", AllSticky, {}), Op("count"), Clear(AllSticky)>>
DeflateSeq(job, outcome) == <<Configure(job)>> \o RunToDone({outcome}) \o <<Clear(AllSticky), Op("count")>>
DeflateFixed ==
  DeflateSeq(A, "DONE") \o DeflateSeq(B, "DONE") \o DeflateSeq(Failing, "ERR_RUN")
    \o DeflateSeq(Job("limit", 2, "ERR_RUN"), "ERR_RUN")

PrepAbort == Prepare(A) \o <<Abort, Poll("idle", {"ABORTED"}, {"DONE"})>> \o HuffW1C \o Recovery(A)
DecodeAbort(job) == Prepare(job) \o HuffAbort(<<PollCount(1)>>) \o HuffW1C \o Recovery(A)
CtrlAbortTest == PrepAbort \o DecodeAbort(A) \o DecodeAbort(B)

CtrlResetTest ==
  Prepare(A) \o <<Op("reset")>> \o ReadZero \o Recovery(A)
    \o Prepare(A) \o <<Op("reset"), Look({}, AllSticky)>> \o Recovery(B)

CtrlMultiblockTest == Recovery(A) \o Recovery(B) \o HuffRun(A, <<>>) \o Recovery(B)
HuffRandomTest == HuffRandom(A) \o HuffRandom(B)

HuffErrRejectTest ==
  ErrInvReject(BadParam, "ERR_PARAM") \o ErrInvReject(BadTable, "ERR_TABLE") \o ErrInv(A, "DONE")
HuffErrRuntimeTest ==
  ErrInv(Failing, "ERR_RUN") \o ErrInv(Job("underrun", 0, "ERR_RUN"), "ERR_RUN") \o ErrInv(A, "DONE")

HuffTests ==
  { HuffSmoke, CtrlAbortTest, CtrlResetTest, CtrlMultiblockTest, SelBoundary,
    RandBusy, HuffRandomTest, HuffErrRejectTest, HuffErrRuntimeTest, CoverSeq(A), DeflateFixed }

-----------------------------------------------------------------------------
(* grape_pipeline.                                                           *)
Steps(n) == Job("g", n, "DONE")
Partial(n) == [Steps(n) EXCEPT !.load = FALSE]            \* the committed bodies are kept
Grape(job) == <<Configure(job), RingBell, Poll("ended", {"DONE"}, {})>>
ReadBack == <<Op("count"), Op("body")>>
GrapeSmoke(job) == Grape(job) \o <<Clear({"DONE"}), Look({}, {})>> \o ReadBack
GrapeRandom(job) == Grape(job) \o <<Clear({"DONE"})>> \o ReadBack
GrapeFp(job) == Grape(job) \o <<Look({}, {}), Op("body"), Clear({"DONE", "FP"}), Look({}, {})>>
FinishAbort == <<Poll("ended", {"DONE", "ABORTED"}, {})>> \o ReadBack \o <<ClearSeen({"DONE", "ABORTED"})>>

GrapeErr ==
  <<Configure([Steps(1) EXCEPT !.bad = "param"]), RingBell, Look({"ERR_PARAM"}, {"BUSY"}),
    RingBell, Look({}, {}), Clear({"ERR_PARAM"})>> \o Grape(Partial(1)) \o
  <<Configure(Partial(2)), RingBell, Configure(Steps(0)), RingBell, RingBell, Release,
    Poll("ended", {"DONE"}, {}), Clear({"DONE", "ERR_BUSY"}),
    Configure([Partial(2) EXCEPT !.bad = "param"]), Configure(Partial(0)), Op("body")>>
GrapeAbort ==
  <<Abort, Look({}, {}), Ctrl({"ABORT", "DOORBELL"}), Look({}, {})>>
  \o Prepare(Steps(3)) \o <<Abort>> \o FinishAbort
  \o Prepare(Steps(2)) \o <<Ctrl({"ABORT", "DOORBELL"}), Release>> \o FinishAbort \o <<Clear(AllSticky)>>
GrapeReset == Prepare(Steps(3)) \o <<Op("reset"), Look({}, AllSticky), Op("body")>> \o GrapeSmoke(Steps(2))

DriverModel == Call(Steps(2)) \o <<Op("count"), Look({}, {"DONE"})>>

GrapeCornerTest == GrapeRandom(Steps(0)) \o GrapeRandom(Partial(3))
RandCfg == GrapeRandom(Steps(2)) \o GrapeRandom(Partial(1)) \o GrapeRandom(Steps(1))
FpSeq == GrapeFp([Steps(1) EXCEPT !.fp = {"FP"}]) \o GrapeFp(Steps(2)) \o <<Look({}, {})>>

GrapeTests ==
  { GrapeSmoke(Steps(2)), GrapeCornerTest, RandCfg, FpSeq, GrapeErr, GrapeAbort, GrapeReset,
    DriverModel }

Tests == CASE engine = "mtf" -> MtfTests [] engine = "huffman" -> HuffTests [] OTHER -> GrapeTests

=============================================================================
