---------------------------- MODULE HistoryImports ----------------------------
(***************************************************************************)
(* The one-time import of a Lark group's history.  A card or an operator     *)
(* chooses a range; a job works through it window by window: a window is      *)
(* listed and archived, the cursor moves past it, and from time to time the   *)
(* thread's transcript is analysed for memory from a cursor of its own.  A    *)
(* pass does a few windows and releases the job; a pass that fails leaves it  *)
(* for a retry; a claim that looks stale is given to the next server, whether *)
(* the old one is dead or still at it; an operator may cancel at any time.    *)
(*                                                                         *)
(* A message is the window it was written in; the one that people write now,  *)
(* beyond the range, is LiveEntry.                                           *)
(*                                                                         *)
(* Sources: apps/server/src/lark-history-import.ts,                          *)
(* packages/delivery/src/file-delivery-store.ts 4688-5000,                   *)
(* apps/server/src/index.ts 7153-7420 and 16411-16452.                       *)
(***************************************************************************)
EXTENDS Hosts, Integers

CONSTANTS ImportHost,         \* the servers that run imports: one, or two while
                              \* one replaces the other
          Import,             \* jobs that may be created
          LastWindow,         \* windows of the chosen range
          WindowsPerPass,
          ImportAttempts,     \* maxAttempts of a job
          AnalysisBatches,    \* batches of one analysis of the thread
          MaxImportTroubles   \* crashes, failed windows and analyses, lapsed claims

ASSUME ImportBounds ==
  /\ {LastWindow, WindowsPerPass, ImportAttempts, AnalysisBatches} \subseteq Nat \ {0}
  /\ MaxImportTroubles \in Nat
ASSUME NoneIsNoImport == None \notin Import

VARIABLES import,             \* status of every job
          importCursor,       \* its cursor: windows done, analysed up to
          importTries,
          chosen,             \* jobs a click on their card is being handled for
          archive,            \* entries of the thread the store holds
          importer,           \* what each server is doing
          importTroubles

importVars == <<import, importCursor, importTries, chosen, archive, importer,
                importTroubles>>

LiveEntry == LastWindow + 1
ImportStatus == {"absent", "awaiting_choice", "pending", "claimed", "completed",
                 "failed", "cancelled", "from_now"}
OpenImport == {"awaiting_choice", "pending", "claimed"}
Cursor == [windowSince : 0 .. LastWindow, analysisWindowSince : 0 .. LastWindow,
           analysis : 0 .. LiveEntry]
FromTheStart == [windowSince |-> 0, analysisWindowSince |-> 0, analysis |-> 0]

\* A server at work: its copy of the cursor, the window it does, how many it did
\* in this pass, and the batches of the analysis it is in.
NoImport == [job |-> None, at |-> "idle", copy |-> FromTheStart, window |-> 0,
             index |-> 0, batches |-> 0, due |-> FALSE, drained |-> TRUE]
ImportPhase == {"idle", "window", "archived", "analysing", "analysed", "complete",
                "release"}

Importing(h, p) == importer[h].at = p
Of(h) == importer[h].job

TroubleBefore == /\ importTroubles < MaxImportTroubles
                 /\ importTroubles' = importTroubles + 1

(***************************************************************************)
(* The store.  No call names the claim it acts under.                        *)
(***************************************************************************)

CreateLarkHistoryImport(i, status) ==
  /\ \A j \in Import : import[j] \notin OpenImport
  /\ import[i] = "absent"
  /\ import' = [import EXCEPT ![i] = status]
  /\ importCursor' = [importCursor EXCEPT ![i] = FromTheStart]
  /\ UNCHANGED <<importTries, chosen, archive, importer, importTroubles>>

\* Only a claimed job takes progress; either way the caller goes on with what
\* is stored.
UpdateProgress(i, cursor) ==
  IF import[i] = "claimed"
    THEN importCursor' = [importCursor EXCEPT ![i] = cursor]
    ELSE UNCHANGED importCursor

ReleasedImport(i) ==
  IF import[i] = "claimed"
    THEN /\ import' = [import EXCEPT ![i] = "pending"]
         /\ importTries' = [importTries EXCEPT ![i] = 0]
    ELSE UNCHANGED <<import, importTries>>

CompletedImport(i) ==
  /\ import' = IF import[i] = "cancelled" THEN import
                                          ELSE [import EXCEPT ![i] = "completed"]
  /\ UNCHANGED importTries

RetriedImport(i) ==
  /\ import' = IF import[i] \in {"cancelled", "completed"} THEN import
                 ELSE [import EXCEPT ![i] =
                         IF importTries[i] >= ImportAttempts THEN "failed"
                                                             ELSE "pending"]
  /\ UNCHANGED importTries

(***************************************************************************)
(* People.                                                                 *)
(***************************************************************************)

\* The onboarding card of a new group; an operator's import of a range; and the
\* group that starts from now on.
ImportIsAskedFor ==
  \E i \in Import, status \in {"awaiting_choice", "pending", "from_now"} :
    CreateLarkHistoryImport(i, status)

\* A click is checked against the job it finds, then authorized, then applied.
ClickIsChecked(i) ==
  /\ import[i] = "awaiting_choice" /\ i \notin chosen
  /\ chosen' = chosen \cup {i}
  /\ UNCHANGED <<import, importCursor, importTries, archive, importer,
                 importTroubles>>

ConfigureLarkHistoryImport(i) ==
  /\ i \in chosen /\ chosen' = chosen \ {i}
  /\ \/ /\ import[i] \in {"awaiting_choice", "failed"}
        /\ \E status \in {"pending", "from_now"} :
             import' = [import EXCEPT ![i] = status]
        /\ importCursor' = [importCursor EXCEPT ![i] = FromTheStart]
     \/ /\ import[i] \notin {"awaiting_choice", "failed"}
        /\ UNCHANGED <<import, importCursor>>
  /\ UNCHANGED <<importTries, archive, importer, importTroubles>>

CancelLarkHistoryImport(i) ==
  /\ import[i] \notin {"absent", "completed", "from_now", "cancelled"}
  /\ import' = [import EXCEPT ![i] = "cancelled"]
  /\ UNCHANGED <<importCursor, importTries, chosen, archive, importer,
                 importTroubles>>

SomebodyWrites ==
  /\ LiveEntry \notin archive /\ archive' = archive \cup {LiveEntry}
  /\ UNCHANGED <<import, importCursor, importTries, chosen, importer,
                 importTroubles>>

(***************************************************************************)
(* A pass.                                                                 *)
(***************************************************************************)

Claims(h, i) ==
  /\ import' = [import EXCEPT ![i] = "claimed"]
  /\ importTries' = [importTries EXCEPT ![i] = @ + 1]
  /\ importer' = [importer EXCEPT ![h] =
       [NoImport EXCEPT !.job = i, !.at = "window", !.copy = importCursor[i]]]
  /\ UNCHANGED <<importCursor, chosen, archive>>

\* Mutant: a claim is never taken for stale.
ClaimPendingImports(h) ==
  /\ Importing(h, "idle")
  /\ \E i \in Import : import[i] = "pending" /\ Claims(h, i)
  /\ UNCHANGED importTroubles

\* One pass at a time in a server.  A claim that is old enough goes first back
\* to the queue, whatever its attempts; its server may be gone, or slow.
ClaimLarkHistoryImports(h) ==
  /\ Importing(h, "idle")
  /\ \E i \in Import :
       /\ import[i] \in {"pending", "claimed"} /\ Claims(h, i)
       /\ IF import[i] = "claimed" /\ \E g \in ImportHost : Of(g) = i
            THEN TroubleBefore
            ELSE UNCHANGED importTroubles

MovesOn(h, fields) == importer' = [importer EXCEPT ![h] = fields]

\* The window is listed and its messages stored one by one.
ArchiveWindow(h) ==
  LET w == importer[h].copy.windowSince IN
  /\ Importing(h, "window") /\ w < LastWindow
  /\ archive' = archive \cup {w + 1}
  /\ MovesOn(h, [importer[h] EXCEPT !.at = "archived", !.window = w + 1])
  /\ UNCHANGED <<import, importCursor, importTries, chosen, importTroubles>>

\* Mutant: a window that could not be listed to its end counts as done.
WindowFailsUnnoticed(h) ==
  LET w == importer[h].copy.windowSince IN
  /\ Importing(h, "window") /\ w < LastWindow /\ TroubleBefore
  /\ MovesOn(h, [importer[h] EXCEPT !.at = "archived", !.window = w + 1])
  /\ UNCHANGED <<import, importCursor, importTries, chosen, archive>>

\* Listing or storing fails, or the window holds too many: what was stored stays.
WindowFails(h) ==
  LET w == importer[h].copy.windowSince IN
  /\ Importing(h, "window") /\ w < LastWindow /\ TroubleBefore
  /\ \/ archive' = archive \cup {w + 1}
     \/ UNCHANGED archive
  /\ RetriedImport(Of(h)) /\ MovesOn(h, NoImport)
  /\ UNCHANGED <<importCursor, chosen>>

\* The cursor is moved first; then the transcript may be due for analysis, and
\* at the end of the range it is.
MoveCursor(h) ==
  LET i == Of(h)
      moved == [importer[h].copy EXCEPT !.windowSince = importer[h].window] IN
  /\ Importing(h, "archived")
  /\ UpdateProgress(i, moved)
  /\ \E due \in IF importer[h].window = LastWindow THEN {TRUE} ELSE BOOLEAN :
       MovesOn(h, [importer[h] EXCEPT
                     !.at = IF due THEN "analysing" ELSE "analysed",
                     !.due = due, !.copy = importCursor'[i]])
  /\ UNCHANGED <<import, importTries, chosen, archive, importTroubles>>

\* One batch: the oldest entry behind the analysis cursor.
Pending(h) == {e \in archive : e > importer[h].copy.analysis}

AnalyzeBatch(h) ==
  LET i == Of(h) IN
  /\ Importing(h, "analysing") /\ importer[h].batches < AnalysisBatches
  /\ \E e \in Pending(h) :
       /\ \A f \in Pending(h) : e <= f
       /\ UpdateProgress(i, [importer[h].copy EXCEPT !.analysis = e])
       /\ MovesOn(h, [importer[h] EXCEPT
            !.copy.analysis = e, !.batches = @ + 1,
            !.drained = Pending(h) = {e},
            !.at = IF Pending(h) = {e} THEN "analysed" ELSE "analysing"])
  /\ UNCHANGED <<import, importTries, chosen, archive, importTroubles>>

\* Nothing is left, or the analysis had its share.
AnalysisStops(h) ==
  /\ Importing(h, "analysing")
  /\ Pending(h) = {} \/ importer[h].batches = AnalysisBatches
  /\ MovesOn(h, [importer[h] EXCEPT !.at = "analysed"])
  /\ UNCHANGED <<import, importCursor, importTries, chosen, archive,
                 importTroubles>>

ImportAnalysisFails(h) ==
  /\ Importing(h, "analysing") /\ TroubleBefore
  /\ RetriedImport(Of(h)) /\ MovesOn(h, NoImport)
  /\ UNCHANGED <<importCursor, chosen, archive>>

\* The round of a window ends: the cursor is written once more, and the next
\* window follows while the pass has rounds left.
Ends(cursor) == IF cursor.windowSince = LastWindow THEN "complete" ELSE "release"

WindowEnds(h) ==
  LET me == importer[h]
      ended == [me.copy EXCEPT
                  !.windowSince = me.window,
                  !.analysisWindowSince =
                    IF me.due /\ me.drained THEN me.window ELSE @] IN
  /\ Importing(h, "analysed") /\ me.window > 0
  /\ UpdateProgress(Of(h), ended)
  /\ MovesOn(h, [NoImport EXCEPT
       !.job = Of(h), !.copy = importCursor'[Of(h)], !.index = me.index + 1,
       !.at = IF me.index + 1 < WindowsPerPass THEN "window"
                                               ELSE Ends(importCursor'[Of(h)])])
  /\ UNCHANGED <<import, importTries, chosen, archive, importTroubles>>

\* All windows are done and the pass has a round left: it analyses what the
\* analysis has not seen, and only then completes the job.
RangeIsDone(h) ==
  LET me == importer[h] IN
  /\ Importing(h, "window") /\ me.copy.windowSince = LastWindow
  /\ MovesOn(h, [me EXCEPT !.due = TRUE,
       !.at = IF me.copy.analysisWindowSince < LastWindow THEN "analysing"
                                                          ELSE "complete"])
  /\ UNCHANGED <<import, importCursor, importTries, chosen, archive,
                 importTroubles>>

LastAnalysisEnds(h) ==
  LET me == importer[h] IN
  /\ Importing(h, "analysed") /\ me.window = 0
  /\ UpdateProgress(Of(h),
       [me.copy EXCEPT !.analysisWindowSince = IF me.drained THEN LastWindow ELSE @])
  /\ MovesOn(h, [me EXCEPT !.at = IF me.drained THEN "complete" ELSE "release"])
  /\ UNCHANGED <<import, importTries, chosen, archive, importTroubles>>

\* A server that shuts down begins no further round.
BreaksOff(h) ==
  /\ Importing(h, "window") /\ TroubleBefore
  /\ MovesOn(h, [importer[h] EXCEPT !.at = Ends(importer[h].copy)])
  /\ UNCHANGED <<import, importCursor, importTries, chosen, archive>>

PassCompletes(h) ==
  /\ Importing(h, "complete")
  /\ CompletedImport(Of(h)) /\ MovesOn(h, NoImport)
  /\ UNCHANGED <<importCursor, chosen, archive, importTroubles>>

PassReleases(h) ==
  /\ Importing(h, "release")
  /\ ReleasedImport(Of(h)) /\ MovesOn(h, NoImport)
  /\ UNCHANGED <<importCursor, chosen, archive, importTroubles>>

ImporterCrashes(h) ==
  /\ ~Importing(h, "idle") /\ TroubleBefore
  /\ MovesOn(h, NoImport)
  /\ UNCHANGED <<import, importCursor, importTries, chosen, archive>>

(***************************************************************************)
(* Specification.                                                          *)
(***************************************************************************)

ImportInit ==
  /\ import = [i \in Import |-> "absent"]
  /\ importCursor = [i \in Import |-> FromTheStart]
  /\ importTries = [i \in Import |-> 0]
  /\ chosen = {} /\ archive = {}
  /\ importer = [h \in ImportHost |-> NoImport] /\ importTroubles = 0

ImportStep(h) ==
  \/ ClaimLarkHistoryImports(h) \/ ArchiveWindow(h) \/ WindowFails(h)
  \/ MoveCursor(h) \/ AnalyzeBatch(h) \/ AnalysisStops(h) \/ ImportAnalysisFails(h)
  \/ WindowEnds(h) \/ RangeIsDone(h) \/ LastAnalysisEnds(h) \/ BreaksOff(h)
  \/ PassCompletes(h) \/ PassReleases(h)

ImportNext ==
  \/ ImportIsAskedFor \/ SomebodyWrites
  \/ \E i \in Import : \/ ClickIsChecked(i) \/ ConfigureLarkHistoryImport(i)
                       \/ CancelLarkHistoryImport(i)
  \/ \E h \in ImportHost : ImportStep(h) \/ ImporterCrashes(h)

ImportSpec == ImportInit /\ [][ImportNext]_importVars

\* A pass that began goes on, and another begins every interval.
FairImports == ImportSpec /\ \A h \in ImportHost : WF_importVars(ImportStep(h))

(***************************************************************************)
(* Properties.                                                             *)
(***************************************************************************)

\* The variables have their types.
ImportTypeOK ==
  /\ import \in [Import -> ImportStatus] /\ importCursor \in [Import -> Cursor]
  /\ importTries \in [Import -> Nat] /\ chosen \subseteq Import
  /\ archive \subseteq 1 .. LiveEntry
  /\ importer \in [ImportHost -> [job : Import \cup {None}, at : ImportPhase,
                            copy : Cursor, window : 0 .. LastWindow,
                            index : 0 .. WindowsPerPass,
                            batches : 0 .. AnalysisBatches, due : BOOLEAN,
                            drained : BOOLEAN]]
  /\ importTroubles \in 0 .. MaxImportTroubles

\* Whatever two servers, failures and cancellations do to a job, its cursor has
\* passed nothing that is not archived, and a completed import has all.
ImportSkipsNothing ==
  \A i \in Import :
    LET passed == IF import[i] = "completed" THEN LastWindow
                                             ELSE importCursor[i].windowSince IN
    1 .. passed \subseteq archive

\* An import that was started is completed, fails for good, or is cancelled.
EveryImportEnds ==
  \A i \in Import : import[i] \in {"pending", "claimed"} ~>
                      import[i] \in {"completed", "failed", "cancelled"}
=============================================================================
