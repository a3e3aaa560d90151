--------------------------- MODULE CompositionProofs ---------------------------
(***************************************************************************)
(* What the components promise on their own holds of the specifications that  *)
(* TLC explores, Deliveries and Background: a behaviour of the composition is  *)
(* one of every component, since a step moves the component in focus as its    *)
(* own next-state action says and leaves the variables of the others alone.    *)
(* In the code this is the separation of the stores: no component writes a     *)
(* table of another's, so the theorems about each do not need the others.      *)
(***************************************************************************)
EXTENDS Deliveries, Background,
        HandoffProofs, AutomationProofs, StorageProofs, IntakeProofs

\* Every behaviour of the deliveries is a behaviour of each component, whose promises
\* about hosts that die, claims that lapse and results that come late it keeps
\* (delivery, tool-broker, workflows, memory, executor-cli, storage).
THEOREM DeliveriesKeepTheirComponents ==
  Deliveries => /\ OutboxSpec /\ ApprovalSpec /\ TaskSpec /\ WorkflowSpec
                /\ WrapupSpec /\ CodexSpec /\ FileSpec /\ MemorySpec
<1>1. DeliveriesInit => /\ OutboxInit /\ ApprovalInit /\ TaskInit /\ WorkflowInit
                        /\ WrapupInit /\ CodexInit /\ FileInit /\ MemoryInit
  BY DEF DeliveriesInit
<1>2. [DeliveriesNext]_deliveriesVars =>
        /\ [OutboxNext]_outboxVars /\ [ApprovalNext]_approvalVars
        /\ [TaskNext]_taskVars /\ [WorkflowNext]_workflowVars
        /\ [WrapupNext]_wrapupVars /\ [CodexNext]_codexVars
        /\ [FileNext]_fileVars /\ [MemoryNext]_memoryVars
  BY DEF DeliveriesNext, deliveriesVars
<1> QED BY <1>1, <1>2, PTL DEF Deliveries, OutboxSpec, ApprovalSpec, TaskSpec, WorkflowSpec,
                                WrapupSpec, CodexSpec, FileSpec, MemorySpec

\* The variables of every component that takes work from the store have their types.
THEOREM DeliveriesTypeCorrect == Deliveries => []DeliveriesTypeOK
<1>1. OutboxInv => OutboxTypeOK
  BY DEF OutboxInv
<1>2. TaskInv => TaskTypeOK
  BY DEF TaskInv
<1>3. OutboxTypeOK /\ ApprovalTypeOK /\ TaskTypeOK /\ WorkflowTypeOK /\ WrapupTypeOK
        /\ CodexTypeOK /\ FileTypeOK /\ MemoryTypeOK => DeliveriesTypeOK
  BY DEF DeliveriesTypeOK
<1> QED BY <1>1, <1>2, <1>3, DeliveriesKeepTheirComponents, OutboxInvHolds, ApprovalTypeCorrect,
           TaskInvHolds, WorkflowTypeCorrect, WrapupTypeCorrect, CodexTypeCorrect,
           FileTypeCorrect, MemoryTypesHold, PTL

\* All that the run of the deliveries checks on a small instance holds of the same
\* specification for any number of hosts, messages, calls, tasks, nodes, turns and facts.
THEOREM DeliveriesKeepTheirPromises ==
  Deliveries => /\ []SentAtMostOnce /\ []WrittenOnceIfGranted /\ []SpentOnce
                /\ []CancellationReachesRuns /\ []NothingIsSkipped /\ []WrittenStays
                /\ []AcknowledgedWasTaken /\ []InterruptsWhatItCancels
                /\ GrantsAreOneTime /\ ExpiryFollowsItsLine /\ ReviewedEditsTakeWhatTheyRead
BY DeliveriesKeepTheirComponents, EnvelopesAreSentOnce, WritesAreGranted, DelegationIsSpentOnce,
   CancellationStopsTheRuns, TheCursorSkipsNothing, WrittenIsKept, AcknowledgementsAreTrue,
   CancellationsInterrupt, ApprovalsAreOneTimeGrants, ExpiriesFollowTheirLines,
   ReviewersReadWhatGoes, PTL

\* Every behaviour of what goes on in the background is a behaviour of the routines, the
\* knowledge sources, the recovery of messages, the imports and the database under them.
THEOREM BackgroundKeepsItsComponents ==
  Background => RoutineSpec /\ KnowledgeSpec /\ LarkSpec /\ ImportSpec /\ SqliteSpec
<1>1. BackgroundInit => RoutineInit /\ KnowledgeInit /\ LarkInit /\ ImportInit /\ SqliteInit
  BY DEF BackgroundInit
<1>2. [BackgroundNext]_backgroundVars =>
        /\ [RoutineNext]_routineVars /\ [KnowledgeNext]_knowledgeVars
        /\ [LarkNext]_larkVars /\ [ImportNext]_importVars /\ [SqliteNext]_sqliteVars
  BY DEF BackgroundNext, backgroundVars
<1> QED BY <1>1, <1>2, PTL DEF Background, RoutineSpec, KnowledgeSpec, LarkSpec, ImportSpec,
                                SqliteSpec

\* The variables of every component of the background have their types.
THEOREM BackgroundTypeCorrect == Background => []BackgroundTypeOK
<1>1. RoutineTypeOK /\ KnowledgeTypeOK /\ LarkTypeOK /\ ImportTypeOK /\ SqliteTypeOK
        => BackgroundTypeOK
  BY DEF BackgroundTypeOK
<1> QED BY <1>1, BackgroundKeepsItsComponents, RoutineTypeCorrect, KnowledgeTypeCorrect,
           LarkTypeCorrect, ImportTypeCorrect, SqliteTypesHold, PTL

\* All that the run of the background checks on a small instance holds of the same
\* specification for any number of hosts, executions, sources, messages and windows.
THEOREM BackgroundKeepsItsPromises ==
  Background => /\ []CompletedMeansRan /\ []ValidatorMatchesText
                /\ []NothingUnseenBehindCheckpoint /\ []ImportSkipsNothing
                /\ RefreshOverwritesNothing /\ StoreIsAtomic
BY BackgroundKeepsItsComponents, CompletionsAreTrue, ValidatorsAreTrue, CheckpointPassesNothing,
   ImportsSkipNothing, RefreshesOverwriteNothing, TheStoreIsAtomic, PTL
===============================================================================
