------------------------------- MODULE Engines -------------------------------
(* A test, or a caller of a driver, against one of the three engines, with   *)
(* the scoreboard of that engine watching the bus.  The engine makes its     *)
(* progress between any two accesses.                                        *)
EXTENDS EngineBench, EngineScripts

CONSTANT CallerRecovers     \* the caller stops and clears the engine after an exception

\* What the drivers are handed; advance() of grape_pipeline always loads bodies.
ASSUME CallJobsAssumption ==
  CallJobs \subseteq [id : STRING, len : Nat, ends : {"DONE", "NEVER", "ERR_RUN", "ERR_TABLE"},
                     bad : {"none", "param", "table", "invalid"}, load : {TRUE}, fp : SUBSET {"FP"}]

VARIABLES
  todo,                     \* what is left of the test or of the call
  call,                     \* the job of the driver's call; NoJob in a test
  before, seen, last,       \* STATUS in front of the doorbell; BUSY seen since; the last STATUS
  got,                      \* what the call has read as its result
  verdict                   \* "none", "failed" or "raised", "returned"

actorVars == <<todo, call, before, seen, last, got, verdict>>
vars == <<deviceVars, sb, actorVars>>

Calling == call # NoJob
NoResult == <<"none", 0>>

\* A test is a simulation of its own: the module is reset, the scoreboard new.
FreshBench ==
  /\ sb' = NewMirror
  /\ before' = {} /\ seen' = FALSE /\ last' = {} /\ got' = NoResult /\ verdict' = "none"

EnginesInit ==
  /\ engine \in {"mtf", "huffman", "grape"} /\ bus = "rtl"
  /\ DeviceInit /\ sb = NewMirror
  /\ todo = <<>> /\ call = NoJob
  /\ before = {} /\ seen = FALSE /\ last = {} /\ got = NoResult /\ verdict = "none"

StartTest ==
  /\ todo = <<>>
  /\ UNCHANGED engine /\ bus' = "rtl"
  /\ ResetDevice /\ FreshBench
  /\ call' = NoJob
  /\ todo' \in Tests

\* The first call of a simulation, over the RTL or over ModelBus.
StartCalls ==
  /\ todo = <<>> /\ ~Calling
  /\ UNCHANGED engine /\ bus' \in {"rtl", "model"}
  /\ ResetDevice /\ FreshBench
  /\ call' \in CallJobs
  /\ todo' = Call(call')

\* The next call, after the recovery if the last one raised.
NextCall ==
  /\ todo = <<>> /\ Calling
  /\ call' \in CallJobs
  /\ todo' = (IF verdict = "raised" /\ CallerRecovers THEN CallerRecovery ELSE <<>>) \o Call(call')
  /\ verdict' = "none" /\ got' = NoResult
  /\ UNCHANGED <<deviceVars, sb, before, seen, last>>

-----------------------------------------------------------------------------
(* One operation.  The scoreboard watches the tests; no one watches a call.  *)

Observe(m) == sb' = IF Calling THEN sb ELSE m
Doing(name) == todo # <<>> /\ todo[1].op = name
Now == todo[1]
Pop == todo' = Tail(todo) /\ UNCHANGED verdict
Quit == todo' = <<>> /\ verdict' = IF Calling THEN "raised" ELSE "failed"
Memory == <<call, before, seen, last, got>>

DoConfig ==
  /\ Doing("config")
  /\ WriteConfig(Now.job) /\ Observe(OnConfig(sb, Now.job))
  /\ Pop /\ UNCHANGED <<engine, bus, Memory>>

\* An exception of the golden model leaves ModelBus through the write.
DoCtrl ==
  /\ Doing("ctrl")
  /\ WriteCtrl(Now.bits) /\ Observe(OnCtrl(sb, Now.bits))
  /\ IF ModelRaises /\ "DOORBELL" \in Now.bits THEN Quit ELSE Pop
  /\ seen' = FALSE
  /\ UNCHANGED <<engine, bus, call, before, last, got>>

DoClear ==
  /\ Doing("clear") \/ Doing("clear_seen")
  /\ LET bits == IF Doing("clear") THEN Now.bits ELSE Now.bits \cap last
     IN  WriteStatus(bits) /\ Observe(OnStatusWrite(sb, bits))
  /\ Pop /\ UNCHANGED <<engine, bus, Memory>>

DoReset ==
  /\ Doing("reset")
  /\ ResetDevice /\ ResetMirror
  /\ Pop /\ UNCHANGED <<engine, bus, Memory>>

\* A read of STATUS, and what the actor remembers of it.
ReadStatus ==
  /\ ReadDevice /\ Observe(OnStatusRead(sb, Status))
  /\ last' = Status /\ seen' = (seen \/ running)
  /\ UNCHANGED <<engine, bus, call, got>>

DoBefore == Doing("before") /\ ReadStatus /\ before' = Status /\ Pop

DoStatus ==
  /\ Doing("status") /\ ReadStatus /\ UNCHANGED before
  /\ IF Now.need \subseteq Status /\ Now.never \cap Status = {} THEN Pop ELSE Quit

\* Whether the polling loop leaves at this read.
Leaves(mask) ==
  CASE Now.until = "idle" -> TRUE
    [] Now.until = "seen" -> seen
    [] Now.until = "ended" -> mask \cap Status # {}
    [] Now.until = "outcome" -> mask \cap Status # {} /\ (seen \/ before \cap mask = {})
Satisfied == (Now.mask = {} \/ Now.mask \cap Status # {}) /\ Now.never \cap Status = {}

\* An idle engine shows the same STATUS at every further poll, so a loop that
\* does not leave on it runs out of polls.
DoPoll ==
  /\ Doing("poll") /\ ReadStatus /\ UNCHANGED before
  /\ \/ running /\ UNCHANGED <<todo, verdict>>
     \/ ~running /\ Leaves(Now.mask) /\ Satisfied /\ Pop
     \/ ~running /\ ~(Leaves(Now.mask) /\ Satisfied) /\ Quit

\* RandBusySeq reads STATUS until the stream sources are empty.
DoDrained ==
  /\ Doing("drained") /\ UNCHANGED before
  /\ \/ Drained /\ Pop /\ UNCHANGED <<deviceVars, sb, call, seen, last, got>>
     \/ ~Drained /\ running /\ ReadStatus /\ UNCHANGED <<todo, verdict>>
     \/ ~Drained /\ ~running /\ ReadStatus /\ Quit

ReadCount ==
  /\ Observe(OnCountRead(sb, count))
  /\ got' = <<latched.id, count>>
  /\ UNCHANGED <<deviceVars, call, before, seen, last>>

DoCount == Doing("count") /\ ReadCount /\ Pop
DoPollCount ==
  /\ Doing("poll_count") /\ ReadCount
  /\ IF count >= Now.n THEN Pop ELSE IF running THEN UNCHANGED <<todo, verdict>> ELSE Quit

DoBody ==
  /\ Doing("body") /\ Observe(OnBodyRead(sb, body))
  /\ got' = body
  /\ Pop /\ UNCHANGED <<deviceVars, call, before, seen, last>>

DoRelease == Doing("release") /\ Pop /\ UNCHANGED <<deviceVars, sb, Memory>>

-----------------------------------------------------------------------------
(* The drivers' own steps.                                                   *)

DoValidate ==
  /\ Doing("validate")
  /\ IF Now.job.bad = "invalid" THEN Quit ELSE Pop
  /\ UNCHANGED <<deviceVars, sb, Memory>>

DoStarted ==
  /\ Doing("started") /\ ReadStatus /\ UNCHANGED before
  /\ IF Status \cap StartErrors # {} THEN Quit ELSE Pop

\* A poll of wait_done: an error of the doorbell raises at once, with mtf_cam's
\* when BUSY has fallen; the loop may run out of polls whenever it is not over.
DoWait ==
  /\ Doing("wait") /\ ReadStatus /\ UNCHANGED before
  /\ IF engine # "mtf" /\ Status \cap {"ERR_PARAM", "ERR_BUSY"} # {} THEN Quit
     ELSE IF ~WaitOver(Status) THEN Quit \/ UNCHANGED <<todo, verdict>>
     ELSE IF Status \cap RunErrors # {} THEN Quit ELSE Pop

DoReturn ==
  /\ Doing("return")
  /\ todo' = Tail(todo) /\ verdict' = "returned"
  /\ UNCHANGED <<deviceVars, sb, Memory>>

\* A held run reaches its last symbol or step only behind the release.
Held == \E i \in DOMAIN todo : /\ todo[i].op = "release"
                               /\ \A j \in 1..(i - 1) : todo[j].op # "poll"
Runs ==
  /\ Held => count + 1 < latched.len
  /\ Progress
  /\ UNCHANGED <<engine, bus, sb, actorVars>>

EnginesNext ==
  \/ StartTest \/ StartCalls \/ NextCall
  \/ DoConfig \/ DoCtrl \/ DoClear \/ DoReset
  \/ DoBefore \/ DoStatus \/ DoPoll \/ DoDrained
  \/ DoCount \/ DoPollCount \/ DoBody \/ DoRelease
  \/ DoValidate \/ DoStarted \/ DoWait \/ DoReturn
  \/ Runs

EnginesSpec == EnginesInit /\ [][EnginesNext]_vars

-----------------------------------------------------------------------------
TestOver == todo = <<>> /\ ~Calling /\ verdict # "failed"

\* Whatever the engine does between two accesses of a test that passes, its
\* scoreboard has no complaint about a module that behaves.
ScoreboardSilent == TestOver => ~sb.alarm

\* A test that passes leaves the scoreboard with the module's own registers:
\* no invocation left open, no flag and no configuration apart.  A mirror that
\* has drifted skips its checks without a word.
MirrorsInStep ==
  TestOver =>
    /\ ~sb.busy /\ ~sb.awaited /\ ~running
    /\ sb.sticky = sticky /\ sb.cfg = cfg
    /\ engine = "grape" => sb.body = body

\* start() is documented to return False when the doorbell was rejected; a flag
\* that an earlier call left in STATUS must not make it so.  (The run itself may
\* have ended with ERR_TABLE when start() looks.)
StartIsFresh ==
  [][DoStarted /\ verdict' = "raised" => Rejection(cfg) # {} \/ cfg.ends \in StartErrors]_vars

\* A driver's call that returns has waited for its own run and brings that
\* run's result, whatever became of the calls before it.  (The ModelBus of
\* grape_pipeline echoes the bodies it was given.)
ReturnsOwnRun ==
  todo = <<>> /\ Calling /\ verdict = "returned" =>
    /\ ~running
    /\ got = <<call.id, IF engine = "grape" /\ bus = "model" THEN 0 ELSE call.len>>

-----------------------------------------------------------------------------
\* For TLC: jobs that succeed, fail at the doorbell, in the run or in the driver,
\* or starve; numbers of symbols or steps up to three.
\* The jobs of grape_pipeline load their bodies, so that a call's result is its own.
MCCallJobs ==
  { Job("j", 2, "DONE"), Job("k", 1, "DONE"), Job("empty", 0, "DONE"),
    Job("starving", 1, "NEVER"), Job("failing", 1, "ERR_RUN"),
    [Job("bad", 1, "DONE") EXCEPT !.bad = "param"],
    Job("oversubscribed", 0, "ERR_TABLE"),
    [Job("invalid", 1, "DONE") EXCEPT !.bad = "invalid"] }
=============================================================================
