------------------------------ MODULE Background ------------------------------
(***************************************************************************)
(* The components that go on beside the conversations: routines, knowledge   *)
(* sources, the recovery of Lark messages, the import of history, and the     *)
(* database under them, side by side as in Deliveries.                        *)
(***************************************************************************)
EXTENDS Routines, KnowledgeSources, LarkIngress, HistoryImports,
        SqliteStore, Focus

backgroundVars == <<focus, routineVars, knowledgeVars, larkVars, importVars,
                    sqliteVars>>

BackgroundInit ==
  /\ focus \in {"routines", "knowledge", "lark", "imports", "sqlite"}
  /\ RoutineInit /\ KnowledgeInit /\ LarkInit /\ ImportInit
  /\ SqliteInit

BackgroundNext ==
  /\ UNCHANGED focus
  /\ IF focus = "routines" THEN RoutineNext ELSE UNCHANGED routineVars
  /\ IF focus = "knowledge" THEN KnowledgeNext ELSE UNCHANGED knowledgeVars
  /\ IF focus = "lark" THEN LarkNext ELSE UNCHANGED larkVars
  /\ IF focus = "imports" THEN ImportNext ELSE UNCHANGED importVars
  /\ IF focus = "sqlite" THEN SqliteNext ELSE UNCHANGED sqliteVars

Background == BackgroundInit /\ [][BackgroundNext]_backgroundVars

\* The variables of every component have their types.
BackgroundTypeOK ==
  /\ RoutineTypeOK /\ KnowledgeTypeOK /\ LarkTypeOK /\ ImportTypeOK
  /\ SqliteTypeOK

(***************************************************************************)
(* The fairness of the components' Fair... specifications (see Deliveries).   *)
(***************************************************************************)

BackgroundTime ==
  /\ UNCHANGED <<focus, importVars, sqliteVars>>
  /\ IF focus = "routines" THEN RoutineTime ELSE UNCHANGED routineVars
  /\ IF focus = "knowledge" THEN KnowledgeTime ELSE UNCHANGED knowledgeVars
  /\ IF focus = "lark" THEN DayPasses \/ IngestWork ELSE UNCHANGED larkVars

BackgroundWork(h) ==
  /\ UNCHANGED <<focus, larkVars, sqliteVars>>
  /\ IF focus = "routines" THEN h \in RoutineHost /\ SchedulerStep(h)
                           ELSE UNCHANGED routineVars
  /\ IF focus = "knowledge" THEN KnowledgeWork(h) ELSE UNCHANGED knowledgeVars
  /\ IF focus = "imports" THEN h \in ImportHost /\ ImportStep(h)
                          ELSE UNCHANGED importVars

Scanning(A) ==
  /\ focus = "lark" /\ A
  /\ UNCHANGED <<focus, routineVars, knowledgeVars, importVars, sqliteVars>>

FairBackground ==
  /\ Background /\ WF_backgroundVars(BackgroundTime) /\ \A h \in Host : WF_backgroundVars(BackgroundWork(h))
  /\ WF_backgroundVars(Scanning(ScanLoop)) /\ WF_backgroundVars(Scanning(ScanWork))
=============================================================================
