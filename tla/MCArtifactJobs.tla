--------------------------- MODULE MCArtifactJobs ---------------------------
(***************************************************************************)
(* Builds of programs that share a function f, a command that emits the    *)
(* object of f, and a planner of f's build.                                *)
(***************************************************************************)
EXTENDS ArtifactJobsProperties, TLC

MCKeys == {"f", "g", "plan"}
MCObjects == {"f", "g"}

MCKind ==
    [both |-> "build", again |-> "build", link |-> "build", emit |-> "emit",
     plan |-> "plan"]
MCStages ==
    [both |-> <<<<"f", "g">>>>, again |-> <<<<"g", "f">>>>,
     link |-> <<<<"g", "f">>, <<"plan">>>>, emit |-> <<<<"f">>>>,
     plan |-> <<<<"f">>>>]

(* Batches that claim the same objects in different orders.                *)
TwoBatches == {"both", "again"}

(* Everyone wants f.                                                       *)
Mixed == {"link", "emit", "plan"}

KindOf(builders) == [b \in builders |-> MCKind[b]]
StagesOf(builders) == [b \in builders |-> MCStages[b]]
BatchKind == KindOf(TwoBatches)
BatchStages == StagesOf(TwoBatches)
MixedKind == KindOf(Mixed)
MixedStages == StagesOf(Mixed)
=============================================================================
