------------------------------ MODULE Deliveries ------------------------------
(***************************************************************************)
(* The components in which hosts take work from the store and see it through  *)
(* (the outbox, tool approvals, delegated tasks, workflow executions, memory   *)
(* wrapups), with a provider's turn, a memory document, and the files several  *)
(* processes write.  They share hosts and no state, so one specification       *)
(* explores them side by side (see Focus), and CompositionProofs carries the   *)
(* theorems of each over to it.                                              *)
(***************************************************************************)
EXTENDS Outbox, ToolApprovals, DelegatedTasks, Workflows, MemoryWrapup,
        CodexTurn, FileStores, MemoryRevisions, Focus

deliveriesVars == <<focus, outboxVars, approvalVars, taskVars, workflowVars, wrapupVars,
                    codexVars, fileVars, memoryVars>>

DeliveriesInit ==
  /\ focus \in {"outbox", "approvals", "tasks", "workflows", "wrapups", "codex",
               "files", "memory"}
  /\ OutboxInit /\ ApprovalInit /\ TaskInit /\ WorkflowInit /\ WrapupInit
  /\ CodexInit /\ FileInit /\ MemoryInit

DeliveriesNext ==
  /\ UNCHANGED focus
  /\ IF focus = "outbox" THEN OutboxNext ELSE UNCHANGED outboxVars
  /\ IF focus = "approvals" THEN ApprovalNext ELSE UNCHANGED approvalVars
  /\ IF focus = "tasks" THEN TaskNext ELSE UNCHANGED taskVars
  /\ IF focus = "workflows" THEN WorkflowNext ELSE UNCHANGED workflowVars
  /\ IF focus = "wrapups" THEN WrapupNext ELSE UNCHANGED wrapupVars
  /\ IF focus = "codex" THEN CodexNext ELSE UNCHANGED codexVars
  /\ IF focus = "files" THEN FileNext ELSE UNCHANGED fileVars
  /\ IF focus = "memory" THEN MemoryNext ELSE UNCHANGED memoryVars

Deliveries == DeliveriesInit /\ [][DeliveriesNext]_deliveriesVars

\* The variables of every component have their types.
DeliveriesTypeOK ==
  /\ OutboxTypeOK /\ ApprovalTypeOK /\ TaskTypeOK /\ WorkflowTypeOK
  /\ WrapupTypeOK /\ CodexTypeOK /\ FileTypeOK /\ MemoryTypeOK

(***************************************************************************)
(* The fairness of FairApprovals, FairTasks and FairWorkflows: as only the    *)
(* component in focus is ever enabled, fairness of the disjunction is the     *)
(* fairness of each.                                                         *)
(***************************************************************************)

DeliveryTime ==
  /\ UNCHANGED <<focus, outboxVars, codexVars, fileVars, memoryVars>>
  /\ IF focus = "approvals" THEN ApprovalTime ELSE UNCHANGED approvalVars
  /\ IF focus = "tasks" THEN TaskTime ELSE UNCHANGED taskVars
  /\ IF focus = "workflows" THEN WorkflowTime ELSE UNCHANGED workflowVars
  /\ IF focus = "wrapups" THEN WrapupPruning ELSE UNCHANGED wrapupVars

DeliveryWork(h) ==
  /\ UNCHANGED <<focus, outboxVars, codexVars, fileVars, memoryVars>>
  /\ IF focus = "approvals" THEN ApprovalWork(h) ELSE UNCHANGED approvalVars
  /\ IF focus = "tasks" THEN DelegateStep(h) ELSE UNCHANGED taskVars
  /\ IF focus = "workflows" THEN Tick(h) ELSE UNCHANGED workflowVars
  /\ IF focus = "wrapups" THEN WrapupWork(h) ELSE UNCHANGED wrapupVars

FairDeliveries ==
  Deliveries /\ WF_deliveriesVars(DeliveryTime) /\ \A h \in Host : WF_deliveriesVars(DeliveryWork(h))
=============================================================================
