---------------------------- MODULE EngineDevice ----------------------------
(* The three engines at the transaction level: one register access or one    *)
(* unit of progress of the engine per step (hw/*/rtl/*_regs.sv with the      *)
(* invocation FSM behind it), and the ModelBus classes of the three drivers. *)
(* BRESP is held until the doorbell is decided, so a CTRL write and its      *)
(* decision are one access; MtfControl has the clock edges in between.       *)
(* A job stands for everything the configuration registers hold.             *)
EXTENDS Integers, Sequences

VARIABLES
  engine,                   \* "mtf", "huffman" or "grape"
  bus,                      \* "rtl", or "model" for ModelBus
  cfg,                      \* the job in the configuration registers
  latched,                  \* the job latched by the accepted doorbell
  running, aborting,        \* BUSY; abort_pend
  sticky,                   \* STATUS without BUSY
  count,                    \* SYMBOLS_IN, SYMBOLS or STEPS_DONE
  body,                     \* grape: whose bodies, and how many steps advanced
  polls                     \* mtf's ModelBus: the STATUS reads that still show BUSY

deviceVars == <<engine, bus, cfg, latched, running, aborting, sticky, count, body, polls>>

\* A job: len symbols or steps, the STATUS bit it ends with ("NEVER" when the
\* streams hold no end), what is wrong with its registers, whether it loads
\* bodies, and whether its arithmetic raises a flag.
Job(id, len, ends) ==
  [id |-> id, len |-> len, ends |-> ends, bad |-> "none", load |-> TRUE, fp |-> {}]

\* The registers after reset: only the grape doorbell accepts them.
NoJob == [Job("reset", 0, "DONE") EXCEPT !.bad = IF engine = "grape" THEN "none" ELSE "param"]

Status == sticky \cup (IF running THEN {"BUSY"} ELSE {})

DeviceInit ==
  /\ cfg = NoJob /\ latched = NoJob
  /\ running = FALSE /\ aborting = FALSE /\ sticky = {}
  /\ count = 0 /\ body = <<"reset", 0>> /\ polls = 0

-----------------------------------------------------------------------------
(* Register writes.                                                          *)

\* The doorbell's checks, in their order.
Rejection(job) ==
  IF job.bad = "param" THEN {"ERR_PARAM"}
  ELSE IF job.bad = "table" /\ engine = "huffman" /\ bus = "rtl" THEN {"ERR_TABLE"} ELSE {}

Reject(flags) ==
  /\ sticky' = sticky \cup flags
  /\ UNCHANGED <<cfg, latched, running, aborting, count, body, polls>>

Accept ==
  /\ latched' = cfg /\ count' = 0 /\ aborting' = FALSE
  /\ IF engine = "grape" /\ cfg.len = 0
     THEN running' = FALSE /\ sticky' = sticky \cup {"DONE"}
     ELSE running' = TRUE /\ UNCHANGED sticky
  /\ UNCHANGED <<cfg, body, polls>>

\* ModelBus knows the result inside the write: grape's echoes the bodies of
\* the doorbell; the others run the golden model, which raises on a stream it
\* cannot decode and leaves the registers alone.  A stream without an end is
\* one to mtf_cam's golden model as well.  mtf_cam's then stays busy for two
\* reads of STATUS.
ModelRaises ==
  /\ bus = "model" /\ cfg.bad = "none"
  /\ \/ engine = "huffman" /\ cfg.ends # "DONE"
     \/ engine = "mtf" /\ cfg.ends \notin {"DONE", "NEVER"}
BusyPolls == 2
ModelRuns ==
  /\ IF ModelRaises
     THEN UNCHANGED <<latched, count, body, sticky, running, polls>>
     ELSE /\ latched' = cfg /\ count' = cfg.len
          /\ body' = IF engine = "grape" THEN <<cfg.id, 0>> ELSE body
          /\ IF engine = "mtf"
             THEN running' = TRUE /\ polls' = BusyPolls /\ UNCHANGED sticky
             ELSE sticky' = sticky \cup {"DONE"} /\ UNCHANGED <<running, polls>>
  /\ UNCHANGED <<cfg, aborting>>

Doorbell ==
  IF running THEN Reject({"ERR_BUSY"})
  ELSE IF Rejection(cfg) # {} THEN Reject(Rejection(cfg))
  ELSE IF bus = "model" THEN ModelRuns ELSE Accept

\* ABORT wins over DOORBELL; the ignored doorbell of a running engine counts
\* as an access refused.  mtf_cam's ModelBus aborts at once, the other two are
\* never busy and know no abort.
AbortEngine(bits) ==
  /\ aborting' = running
  /\ sticky' = sticky \cup (IF running /\ "DOORBELL" \in bits THEN {"ERR_BUSY"} ELSE {})
  /\ UNCHANGED <<cfg, latched, running, count, body, polls>>
ModelAbort ==
  /\ running' = FALSE
  /\ sticky' = sticky \cup (IF running THEN {"ABORTED"} ELSE {})
  /\ UNCHANGED <<cfg, latched, aborting, count, body, polls>>

WriteCtrl(bits) ==
  IF "ABORT" \in bits /\ bus = "rtl" THEN AbortEngine(bits)
  ELSE IF "ABORT" \in bits /\ engine = "mtf" THEN ModelAbort
  ELSE IF "DOORBELL" \in bits THEN Doorbell
  ELSE UNCHANGED <<cfg, latched, running, aborting, sticky, count, body, polls>>

WriteStatus(bits) ==
  /\ sticky' = sticky \ bits
  /\ UNCHANGED <<cfg, latched, running, aborting, count, body, polls>>

WriteConfig(job) ==
  IF running THEN Reject({"ERR_BUSY"})
  ELSE /\ cfg' = job
       /\ body' = IF job.load /\ bus = "rtl" THEN <<job.id, 0>> ELSE body
       /\ UNCHANGED <<latched, running, aborting, sticky, count, polls>>

\* What a read of STATUS does to the engine: it is the clock of the ModelBus.
ReadDevice ==
  /\ IF bus = "model" /\ running
     THEN /\ polls' = polls - 1
          /\ running' = (polls > 1)
          /\ sticky' = IF polls > 1 THEN sticky ELSE sticky \cup {"DONE"}
     ELSE UNCHANGED <<polls, running, sticky>>
  /\ UNCHANGED <<cfg, latched, aborting, count, body>>

ResetDevice ==
  /\ cfg' = NoJob /\ latched' = NoJob
  /\ running' = FALSE /\ aborting' = FALSE /\ sticky' = {}
  /\ count' = 0 /\ body' = <<"reset", 0>> /\ polls' = 0

-----------------------------------------------------------------------------
(* Progress between two accesses.                                            *)

Finish(flags) ==
  /\ running' = FALSE /\ aborting' = FALSE
  /\ sticky' = sticky \cup flags
  /\ UNCHANGED <<cfg, latched, polls>>

\* A symbol of mtf_cam or huffman_engine.
Emit ==
  /\ running /\ engine # "grape" /\ count < latched.len
  /\ count' = count + 1
  /\ UNCHANGED <<cfg, latched, running, aborting, sticky, body, polls>>

\* The end of the stream or an error in it; it wins over an abort.
End ==
  /\ running /\ engine # "grape" /\ count = latched.len /\ latched.ends # "NEVER"
  /\ Finish({latched.ends})
  /\ UNCHANGED <<count, body>>

TakeAbort ==
  /\ running /\ engine # "grape" /\ aborting
  /\ Finish({"ABORTED"})
  /\ UNCHANGED <<count, body>>

\* grape samples the abort at the commit of a step; the last step wins.  The
\* BODY window shows the committed bodies once the run is over.
Advanced == body' = <<body[1], body[2] + count + 1>>
Step ==
  /\ running /\ engine = "grape"
  /\ count' = count + 1
  /\ IF count + 1 = latched.len THEN Finish(latched.fp \cup {"DONE"}) /\ Advanced
     ELSE IF aborting THEN Finish(latched.fp \cup {"ABORTED"}) /\ Advanced
     ELSE /\ sticky' = sticky \cup latched.fp
          /\ UNCHANGED <<cfg, latched, running, aborting, body, polls>>

Progress == bus = "rtl" /\ (Emit \/ End \/ TakeAbort \/ Step)
=============================================================================
