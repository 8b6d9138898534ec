----------------------------- MODULE ReleaseRun -----------------------------
(* The canonical measurement run (report/vm_refresh.py and its worker):      *)
(* `start' uploads a revision into a directory of its own and launches the   *)
(* worker there; the worker tests the crate, times the stages through        *)
(* tools/vm_run_all.sh, collects the wheels and checks them; `fetch' brings  *)
(* a complete run home.  The installed extension is one for the whole host.  *)
EXTENDS Integers, Sequences, FiniteSets

CONSTANTS
  Runs,                     \* the runs that are started; each uploads its own revision
  Benches,                  \* a sequence of benchmarks
  MaxFailures               \* bound on failing commands and crashes

ASSUME BenchAssumption == Len(Benches) \in Nat \ {0} /\ DOMAIN Benches = 1..Len(Benches)

TimedStages == <<"baseline", "optimized", "compare", "wheel", "native">>
BenchSet == {Benches[i] : i \in DOMAIN Benches}
Before == "before"          \* the extension installed before any run
Nothing == "nothing"

VARIABLES
  workers,                  \* [run -> its worker and its result directory]
  installed,                \* [bench -> the run whose extension the interpreter imports]
  failures,
  fetched,                  \* runs that were brought home
  overlap                   \* runs during which another run was active

releaseVars == <<workers, installed, failures, fetched, overlap>>

\* failed is FAILED of vm_run_all.sh and decides its exit status; the rest is
\* what lies in the result directory.
Unstarted ==
  [pc |-> "none", bench |-> 1, stage |-> 1, failed |-> {}, artifacts |-> {},
   record |-> [b \in BenchSet |-> Nothing],      \* loaded_sha256 of wheel_<bench>.json
   module |-> [b \in BenchSet |-> Nothing],      \* native_module_<bench>.txt
   timed |-> [b \in BenchSet |-> Nothing],       \* what native_<bench>.json measured
   protocol |-> [b \in BenchSet |-> Nothing],    \* installed_extension_sha256
   checked |-> FALSE]

ReleaseInit ==
  /\ workers = [r \in Runs |-> Unstarted]
  /\ installed = [b \in BenchSet |-> Before]
  /\ failures = 0 /\ fetched = {} /\ overlap = {}

Active(r) == workers[r].pc \notin {"none", "complete", "raised"}
At(r, pc) == workers[r].pc = pc
Update(r, w) == workers' = [workers EXCEPT ![r] = w]
Same == UNCHANGED <<installed, failures, fetched, overlap>>

-----------------------------------------------------------------------------
\* start: an upload of HEAD into a fresh directory, and a detached worker.
Start(r) ==
  /\ At(r, "none")
  /\ Update(r, [Unstarted EXCEPT !.pc = "crate"])
  /\ LET others == {s \in Runs \ {r} : Active(s)}
     IN  overlap' = IF others = {} THEN overlap ELSE overlap \cup others \cup {r}
  /\ UNCHANGED <<installed, failures, fetched>>

\* Crate tests, a build beside the run, the API and the dispatch check: all on
\* an extension of the worker's own, before anything is installed.
CrateEvidence(r) ==
  /\ At(r, "crate")
  /\ Update(r, [workers[r] EXCEPT !.pc = "stage"])
  /\ Same

-----------------------------------------------------------------------------
(* vm_run_all.sh: every stage of every benchmark, a failed one is counted.   *)

Bench(r) == Benches[workers[r].bench]
StageName(r) == TimedStages[workers[r].stage]
Has(r, stage) == <<Bench(r), stage>> \in workers[r].artifacts

NextStage(w) ==
  IF w.stage < Len(TimedStages) THEN [w EXCEPT !.pc = "stage", !.stage = @ + 1]
  ELSE IF w.bench < Len(Benches) THEN [w EXCEPT !.pc = "stage", !.stage = 1, !.bench = @ + 1]
  ELSE [w EXCEPT !.pc = "suite_end"]
Passed(r, w) == NextStage([w EXCEPT !.artifacts = @ \cup {<<Bench(r), StageName(r)>>}])
Failed(r, w) == NextStage([w EXCEPT !.failed = @ \cup {<<Bench(r), StageName(r)>>}])

\* baseline and optimized: a timing run on the Python path.
TimePython(r) ==
  /\ At(r, "stage") /\ StageName(r) \in {"baseline", "optimized"}
  /\ Update(r, Passed(r, workers[r]))
  /\ Same

Compare(r) ==
  /\ At(r, "stage") /\ StageName(r) = "compare"
  /\ Update(r, IF Has(r, "baseline") /\ Has(r, "optimized") THEN Passed(r, workers[r])
               ELSE Failed(r, workers[r]))
  /\ Same

\* build_wheel.sh: build, install for the whole host, ...
Install(r) ==
  /\ At(r, "stage") /\ StageName(r) = "wheel"
  /\ installed' = [installed EXCEPT ![Bench(r)] = r]
  /\ Update(r, [workers[r] EXCEPT !.pc = "prove"])
  /\ UNCHANGED <<failures, fetched, overlap>>

\* ... then import and compare: the record is written either way, a mismatch
\* fails the stage.
Prove(r) ==
  /\ At(r, "prove")
  /\ LET w == [workers[r] EXCEPT !.record[Bench(r)] = installed[Bench(r)]]
     IN  Update(r, IF installed[Bench(r)] = r THEN Passed(r, w) ELSE Failed(r, w))
  /\ Same

\* native: the loaded extension is recorded, ...
RecordModule(r) ==
  /\ At(r, "stage") /\ StageName(r) = "native"
  /\ Update(r, [workers[r] EXCEPT !.pc = "native", !.module[Bench(r)] = installed[Bench(r)]])
  /\ Same

\* ... then both back ends are timed; the JSON says that the back end was the
\* native one, not which extension it was.
TimeNative(r) ==
  /\ At(r, "native")
  /\ Update(r, Passed(r, [workers[r] EXCEPT !.timed[Bench(r)] = installed[Bench(r)]]))
  /\ Same

\* The exit status of the suite; run(check=True) raises on a failed one.
SuiteEndMut(r) ==
  /\ At(r, "suite_end")
  /\ Update(r, [workers[r] EXCEPT !.pc = "wheels"])
  /\ Same
SuiteEnd(r) ==
  /\ At(r, "suite_end")
  /\ Update(r, [workers[r] EXCEPT !.pc = IF workers[r].failed = {} THEN "wheels" ELSE "raised"])
  /\ Same

-----------------------------------------------------------------------------
\* The wheels and their records are copied; protocol.json takes the hashes
\* from the records.
CollectWheels(r) ==
  /\ At(r, "wheels")
  /\ Update(r, [workers[r] EXCEPT !.pc = "summary", !.protocol = workers[r].record])
  /\ Same

\* The distributions need every JSON; check_all.sh runs on what is installed
\* by then.
Summarize(r) ==
  /\ At(r, "summary")
  /\ LET wanted == {<<b, s>> : b \in BenchSet, s \in {"baseline", "optimized", "native"}}
     IN  Update(r, [workers[r] EXCEPT !.pc = IF wanted \subseteq workers[r].artifacts THEN "checks" ELSE "raised"])
  /\ Same

CheckAll(r) ==
  /\ At(r, "checks")
  /\ Update(r, [workers[r] EXCEPT !.pc = "complete", !.checked = TRUE])
  /\ Same

-----------------------------------------------------------------------------
(* Failures.                                                                 *)

Fails == failures < MaxFailures /\ failures' = failures + 1

\* A stage fails; the suite goes on.
FailStage(r) ==
  /\ workers[r].pc \in {"stage", "prove", "native"} /\ Fails
  /\ Update(r, Failed(r, workers[r]))
  /\ UNCHANGED <<installed, fetched, overlap>>

\* A command of the worker itself fails and raises, or the host goes down.
FailWorker(r) ==
  /\ Active(r) /\ Fails
  /\ Update(r, [workers[r] EXCEPT !.pc = "raised"])
  /\ UNCHANGED <<installed, fetched, overlap>>

\* fetch refuses a run without complete.json and a destination that exists.
Fetch(r) ==
  /\ At(r, "complete") /\ r \notin fetched
  /\ fetched' = fetched \cup {r}
  /\ UNCHANGED <<workers, installed, failures, overlap>>

ReleaseNext ==
  \E r \in Runs :
    \/ Start(r) \/ CrateEvidence(r)
    \/ TimePython(r) \/ Compare(r) \/ Install(r) \/ Prove(r) \/ RecordModule(r) \/ TimeNative(r) \/ SuiteEnd(r)
    \/ CollectWheels(r) \/ Summarize(r) \/ CheckAll(r)
    \/ FailStage(r) \/ FailWorker(r) \/ Fetch(r)

-----------------------------------------------------------------------------
\* A run that says it is complete has every stage of every benchmark, its
\* protocol names the extension built from its own revision, and, unless
\* another run was active on the host, that extension is the one the native
\* stage loaded and timed.  Nothing else is ever fetched.
CompleteIsChecked ==
  \A r \in Runs :
    LET w == workers[r]
    IN  /\ At(r, "complete") =>
             /\ w.failed = {} /\ w.checked
             /\ w.artifacts = BenchSet \X {TimedStages[i] : i \in DOMAIN TimedStages}
             /\ \A b \in BenchSet : w.protocol[b] = r
             /\ r \notin overlap => \A b \in BenchSet : w.module[b] = r /\ w.timed[b] = r
        /\ r \in fetched => At(r, "complete")
=============================================================================
