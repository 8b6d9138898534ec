---------------------------- MODULE MCRepoTools -----------------------------
(* The repository's own tools, which share no state: a behaviour follows one *)
(* of them.  The instance: files of two stacks of up to three frames; two    *)
(* processes, two stages; two runs of two benchmarks.                        *)
EXTENDS FoldedStacks, HwFlow, ReleaseRun, TLC

VARIABLE tool               \* "trim", "flow" or "release"

toolVars == <<tool, foldVars, flowVars, releaseVars>>

ToolsInit ==
  /\ tool \in {"trim", "flow", "release"}
  /\ FlowInit /\ ReleaseInit
  /\ \/ tool = "trim" /\ FoldInit
     \/ tool # "trim" /\ file = <<>> /\ options = <<>> /\ shown = <<>>

ToolsNext ==
  \/ tool = "trim" /\ TrimFile /\ UNCHANGED <<tool, flowVars, releaseVars>>
  \/ tool = "flow" /\ FlowNext /\ UNCHANGED <<tool, foldVars, releaseVars>>
  \/ tool = "release" /\ ReleaseNext /\ UNCHANGED <<tool, foldVars, flowVars>>

ToolsSpec == ToolsInit /\ [][ToolsNext]_toolVars

-----------------------------------------------------------------------------
MCStacks == [frames : UNION {[1..k -> {"main", "loop", "import"}] : k \in 1..3}, n : {1, 3}]
MCFolded == {<<s, t>> : s \in MCStacks, t \in MCStacks}
MCOptions == [keepStartup : BOOLEAN, dominantRoot : BOOLEAN, prefix : {0, 75, 100}, cap : {0, 75}]
\* The two processes of the flow run the same commands.
MCSymmetry == Permutations(Users)
MCStages == <<"rtl", "ppa">>
MCBenches == <<"nbody", "pyflate">>
=============================================================================
