---------------------------- MODULE MCRunEngine ----------------------------
(* RunEngine with the walk and a section that depends on it (Projects).    *)
EXTENDS RunEngine, TLC

CONSTANT projects

Walk == {Fs}
WalkNeedsNone == Fs :> {}

WalkAndProjects == {Fs, projects}
ProjectsNeedsWalk == Fs :> {} @@ projects :> {Fs}

\* What happens when Home is the selected root, or walked separately.
Always(what) == [isSeparate \in BOOLEAN |-> what]

Findings == Always({"finding"})
AllBeside == [isSeparate \in BOOLEAN |->
  IF isSeparate THEN {} ELSE {"snapshot", "finding"}]

WholeOrLimited == Always([w \in Workers |-> {"whole", "limited"}])
OutcomesOfEach == [isSeparate \in BOOLEAN |-> [w \in Workers |->
  CASE ~isSeparate -> {"whole", "gaps"}
    [] isSeparate /\ w = Home -> {"whole", "limited"}
    [] isSeparate /\ w # Home -> {"whole"}]]

ErrorsAndLimits == Always({"error", "limit", "memory", "close"})
FaultsOfEach == [isSeparate \in BOOLEAN |->
  IF isSeparate THEN {"panic"} ELSE {"error", "panic", "limit", "memory"}]

\* Receivers are interchangeable.
ChannelSymmetry == Permutations(Channels)
=============================================================================
