---------------------------- MODULE FoldedStacks ----------------------------
(* tools/trim_folded.py: a folded-stack file made plottable.  A stack is a   *)
(* sequence of frames with its number of samples; shares are in percent.     *)
EXTENDS Integers, SequencesExt, FiniteSetsExt

CONSTANTS
  Folded,                   \* files: sequences of [frames, n]
  Options,                  \* [keepStartup, dominantRoot, prefix, cap]
  StartupFrames             \* frames with a marker of the import machinery

NoShare == 0                \* an option that is not given

VARIABLES
  file, options,            \* the input
  shown                     \* what is written: stack -> samples; or <<>>

foldVars == <<file, options, shown>>

-----------------------------------------------------------------------------
SamplesOf(stacks) == FoldLeft(LAMBDA sum, s : sum + s.n, 0, stacks)

\* drop_startup.
Startup(s) == \E i \in DOMAIN s.frames : s.frames[i] \in StartupFrames
WithoutStartup(stacks) == SelectSeq(stacks, LAMBDA s : ~Startup(s))

\* keep_dominant_root: the first of the heaviest roots.
RootWeight(stacks, root) == SamplesOf(SelectSeq(stacks, LAMBDA s : Head(s.frames) = root))
DominantRoot(stacks) ==
  LET heaviest == {i \in DOMAIN stacks : \A j \in DOMAIN stacks :
                     RootWeight(stacks, Head(stacks[j].frames))
                       <= RootWeight(stacks, Head(stacks[i].frames))}
  IN  Head(stacks[Min(heaviest)].frames)
OfDominantRoot(stacks) ==
  IF stacks = <<>> THEN stacks
  ELSE LET root == DominantRoot(stacks) IN SelectSeq(stacks, LAMBDA s : Head(s.frames) = root)

\* common_prefix_len: a stack that would be left without a frame has no vote.
Agreeing(stacks, depth) ==
  LET votes == SelectSeq(stacks, LAMBDA s : Len(s.frames) >= depth + 2)
      weight(f) == SamplesOf(SelectSeq(votes, LAMBDA s : s.frames[depth + 1] = f))
  IN  Max({0} \cup {weight(votes[i].frames[depth + 1]) : i \in DOMAIN votes})
CommonPrefix(stacks, share) ==
  LET deepest == Max({0} \cup {Len(stacks[i].frames) : i \in DOMAIN stacks})
  IN  IF SamplesOf(stacks) = 0 THEN 0
      ELSE Min({d \in 0..deepest : \/ Agreeing(stacks, d) = 0
                                   \/ 100 * Agreeing(stacks, d) < share * SamplesOf(stacks)})

\* Every stack loses the leading frames, also the ones that differ in them; a
\* short one keeps its last frame.
WithoutPrefix(stacks, cut) ==
  [i \in DOMAIN stacks |->
     [stacks[i] EXCEPT !.frames = IF Len(@) > cut THEN SubSeq(@, cut + 1, Len(@)) ELSE <<Last(@)>>]]

\* cap_depth.
Whole(stacks, depth) == SamplesOf(SelectSeq(stacks, LAMBDA s : Len(s.frames) <= depth))
CapDepth(stacks, share) ==
  Min({d \in {Len(stacks[i].frames) : i \in DOMAIN stacks} :
         100 * Whole(stacks, d) >= share * SamplesOf(stacks)})
Capped(stacks, depth) ==
  [i \in DOMAIN stacks |->
     [stacks[i] EXCEPT !.frames = IF Len(@) > depth THEN SubSeq(@, 1, depth) ELSE @]]

\* Equal stacks become one line.
MergedMut(stacks) ==
  [f \in {stacks[i].frames : i \in DOMAIN stacks} |->
     stacks[Max({i \in DOMAIN stacks : stacks[i].frames = f})].n]
Merged(stacks) ==
  [f \in {stacks[i].frames : i \in DOMAIN stacks} |->
     SamplesOf(SelectSeq(stacks, LAMBDA s : s.frames = f))]

-----------------------------------------------------------------------------
(* main().                                                                   *)

Kept == LET a == IF options.keepStartup THEN file ELSE WithoutStartup(file)
        IN  IF options.dominantRoot THEN OfDominantRoot(a) ELSE a
Cut == IF options.prefix = NoShare THEN 0 ELSE CommonPrefix(Kept, options.prefix)
Elided == IF Cut = 0 THEN Kept ELSE WithoutPrefix(Kept, Cut)
Shortened == IF options.cap = NoShare THEN Elided ELSE Capped(Elided, CapDepth(Elided, options.cap))

\* A file without stacks, or with nothing but startup, is refused.
Refuses == file = <<>> \/ (~options.keepStartup /\ WithoutStartup(file) = <<>>)

FoldInit == file \in Folded /\ options \in Options /\ shown = <<>>

TrimFile ==
  /\ shown = <<>> /\ ~Refuses
  /\ shown' = Merged(Shortened)
  /\ UNCHANGED <<file, options>>

-----------------------------------------------------------------------------
\* The width of the box at a path, in a file and in the plot.
WidthIn(stacks, path) == SamplesOf(SelectSeq(stacks, LAMBDA s : IsPrefix(path, s.frames)))
WidthShown(path) == MapThenSumSet(LAMBDA f : shown[f], {f \in DOMAIN shown : IsPrefix(path, f)})
PathsShown == UNION {{SubSeq(f, 1, k) : k \in 1..Len(f)} : f \in DOMAIN shown}

\* Nothing is rescaled: of the samples that are kept none is lost, and every
\* box of the plot is as wide as the same path was before its rows disappeared.
\* (Where a minority of the stacks differs in an elided prefix, --min-share
\* below 100, boxes of different callers fall together.)  A cap truncates no
\* more than the share it was allowed.
WidthsKept ==
  shown # <<>> =>
    LET stem == SubSeq(Kept[1].frames, 1, Cut)
    IN  /\ WidthShown(<<>>) = SamplesOf(Kept)
        /\ options.prefix \in {NoShare, 100} =>
             \A p \in PathsShown : WidthShown(p) = WidthIn(Kept, stem \o p)
        /\ options.cap # NoShare =>
             100 * Whole(Elided, CapDepth(Elided, options.cap)) >= options.cap * SamplesOf(Kept)
=============================================================================
