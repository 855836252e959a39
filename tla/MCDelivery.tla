----------------------------- MODULE MCDelivery -----------------------------
(***************************************************************************)
(* Instances of Board, TimeSheet, Pipeline, Projects and its milestones for *)
(* TLC.  They share no variable: a behaviour explores one of them, its     *)
(* part, while the others stay as they began.                              *)
(***************************************************************************)
EXTENDS Board, TimeSheet, Pipeline, Projects, TLC

VARIABLE part

deliveryVars == <<part, boardVars, timeVars, milestoneVars, pipelineVars, projectsVars>>

DeliveryInit ==
    /\ part \in {"board", "time", "milestone", "pipeline", "projects"}
    /\ BoardInit /\ MilestoneInit /\ PipelineInit /\ ProjectsInit /\ TimeSheetInit

\* A board is followed until a request on its columns was overtaken, or its task drifted,
\* and a time sheet until its one entry is disputed: nothing is claimed of them after it.
DeliveryNext ==
    /\ UNCHANGED part
    /\ \/ /\ part = "board" /\ ~reshaped /\ drifted = {} /\ BoardNext
          /\ UNCHANGED <<timeVars, milestoneVars, pipelineVars, projectsVars>>
       \/ /\ part = "time" /\ disputed = {} /\ TimeSheetNext
          /\ UNCHANGED <<boardVars, milestoneVars, pipelineVars, projectsVars>>
       \/ /\ part = "milestone" /\ MilestoneNext
          /\ UNCHANGED <<boardVars, timeVars, pipelineVars, projectsVars>>
       \/ /\ part = "pipeline" /\ PipelineNext
          /\ UNCHANGED <<boardVars, timeVars, milestoneVars, projectsVars>>
       \/ /\ part = "projects" /\ ProjectsNext
          /\ UNCHANGED <<boardVars, timeVars, milestoneVars, pipelineVars>>

DeliverySpec == DeliveryInit /\ [][DeliveryNext]_deliveryVars

Symmetry == Permutations(Editors) \cup Permutations(Columns) \cup Permutations(Jobs)

\* Every variable of the five parts keeps its type.
DeliveryTypeOK ==
    BoardTypeOK /\ TimeSheetTypeOK /\ MilestoneTypeOK /\ PipelineTypeOK /\ ProjectsTypeOK

(***************************************************************************)
(* What has been signed off does not change under those who signed it:     *)
(* approved hours, and the dates of what was delivered and accepted.       *)
(***************************************************************************)
SignedOffStaysUnlessRaced == ApprovedIsFrozenUnlessRaced /\ DeliveryStaysDatedUnlessRaced

\* A board has one column where work starts, if no PATCH gave that away, and says what is finished.
BoardHoldsUnlessRacedOrWaived == OneDefaultUnlessRacedOrWaived /\ CompletionFollowsUnlessRaced

\* The plan's number of projects is not exceeded (planLimits.ts), and what is deleted
\* leaves no payment or expense without its project or client (deleteProject, deleteClient).
ProjectsHoldUnlessRaced == ProjectsNeverOversold /\ DeletedIsClearUnlessRaced
=============================================================================
