----------------------------- MODULE MemoryWrapup -----------------------------
(***************************************************************************)
(* The background consolidation of one thread.  Entries arrive, a host       *)
(* stages a wrapup job when enough is new, a host claims it, loads what lies *)
(* beyond the wrapupCursor, has it analysed, records a rolling summary and moves   *)
(* the wrapupCursor; later the raw entries of a summary are purged.  Hosts die,    *)
(* analyses fail, and a claim that looks stale is given to somebody else.    *)
(*                                                                         *)
(* An entry is its place in the thread's order (time of the message, not of  *)
(* its arrival), so an entry may arrive after later ones.                    *)
(*                                                                         *)
(* Sources: packages/delivery/src/file-delivery-store.ts 1949-2435 and       *)
(* 3737-3845, packages/runtime-host/src/memory-wrapup.ts.                    *)
(***************************************************************************)
EXTENDS Hosts, Integers, FiniteSets

CONSTANTS WrapupJob,                \* jobs the store may create
          LastEntry,          \* entries are 1 .. LastEntry
          EntriesPerWrapup,   \* maxEntries of one analysis
          WrapupAttempts,     \* maxAttempts
          MaxWrapupCrashes, MaxAnalysisFailures

ASSUME EntriesPerWrapupIsPositive == EntriesPerWrapup \in Nat \ {0}
ASSUME WrapupAttemptsIsPositive == WrapupAttempts \in Nat \ {0}
ASSUME LastEntryIsNat == LastEntry \in Nat
ASSUME NoneIsNoJob == None \notin WrapupJob

VARIABLES wrapup,             \* status of every job
          wrapupTries, wrapupHolder,
          wrapupCursor,       \* the thread's cursor, 0 before the first
          transcript,         \* entries the store holds raw
          summaries,          \* recorded context summaries
          purged,             \* entries whose raw text is gone
          analysed,           \* history: entries some analysis has seen
          late,               \* history: entries that arrived behind an analysis
          wrapper,            \* what each host is doing
          wrapupCrashes, analysisFailures

wrapupVars == <<wrapup, wrapupTries, wrapupHolder, wrapupCursor, transcript,
                summaries, purged, analysed, late, wrapper, wrapupCrashes,
                analysisFailures>>

Entry == 1 .. LastEntry
WrapupStatus == {"absent", "pending", "claimed", "completed", "failed"}
ActiveWrapup == {"pending", "claimed"}

\* A host's job, the cursor it claimed it with, the entries it loaded to cover
\* and those its analysis saw.
NoWrapup == [job |-> None, at |-> "idle", from |-> 0, covers |-> {}, seen |-> {}]
WrapupPhase == {"idle", "staging", "claimed", "loaded", "analysed", "recorded",
                "empty", "erred", "more"}

Wrapping(h, p) == wrapper[h].at = p
BeginsWrapping(h, p) == wrapper' = [wrapper EXCEPT ![h].at = p]
StopsWrapping(h) == wrapper' = [wrapper EXCEPT ![h] = NoWrapup]

Newest(S) == CHOOSE e \in S : \A f \in S : f <= e

\* loadThreadTranscript beyond a cursor, oldest first, no more than it may hold.
Beyond(c) == {e \in transcript \ purged : e > c}
Oldest(S) == {e \in S : Cardinality({f \in S : f < e}) < EntriesPerWrapup}
LoadThreadTranscript(c) == Oldest(Beyond(c))

(***************************************************************************)
(* The store.                                                              *)
(***************************************************************************)

\* A pending job of the thread takes the request in; a claimed one does not.
EnqueueMemoryWrapup ==
  \/ /\ \E j \in WrapupJob : wrapup[j] = "pending"
     /\ UNCHANGED wrapup
  \/ /\ \A j \in WrapupJob : wrapup[j] # "pending"
     /\ \E j \in WrapupJob : /\ wrapup[j] = "absent"
                       /\ wrapup' = [wrapup EXCEPT ![j] = "pending"]

\* A claim first returns the claims that look stale, whatever their attempts;
\* a job on its last attempt is not taken again.
RecoveredWrapups(S) == [j \in WrapupJob |-> IF j \in S THEN "pending" ELSE wrapup[j]]

\* Mutant: the last attempt is never made.
ReadyWrapupsEarly(st) ==
  {j \in WrapupJob : /\ st[j] = "pending" /\ wrapupTries[j] + 1 < WrapupAttempts
               /\ \A other \in WrapupJob : st[other] # "claimed"}

ReadyWrapups(st) ==
  {j \in WrapupJob : /\ st[j] = "pending" /\ wrapupTries[j] < WrapupAttempts
               /\ \A other \in WrapupJob : st[other] # "claimed"}

ClaimMemoryWrapups(h) ==
  \E S \in SUBSET {j \in WrapupJob : wrapup[j] = "claimed"} :
    LET recovered == RecoveredWrapups(S)
        released == [j \in WrapupJob |-> IF j \in S THEN None ELSE wrapupHolder[j]]
        ready == ReadyWrapups(recovered) IN
    \/ /\ ready = {} /\ S # {}
       /\ wrapup' = recovered /\ wrapupHolder' = released
       /\ UNCHANGED <<wrapupTries, wrapper>>
    \/ \E j \in ready :
         /\ wrapup' = [recovered EXCEPT ![j] = "claimed"]
         /\ wrapupHolder' = [released EXCEPT ![j] = h]
         /\ wrapupTries' = [wrapupTries EXCEPT ![j] = @ + 1]
         /\ wrapper' = [wrapper EXCEPT ![h] =
                          [NoWrapup EXCEPT !.job = j, !.at = "claimed", !.from = wrapupCursor]]

\* One summary for one cursor: a second with the same end is not recorded.
RecordThreadContextSummary(covers, seen) ==
  LET to == Newest(seen) IN
  IF \E s \in summaries : s.to = to
    THEN UNCHANGED summaries
    ELSE summaries' = summaries \cup {[to |-> to, covers |-> covers, seen |-> seen]}

\* Whoever holds the job may complete it or give it back while it is claimed,
\* the claim of another host included.  Without a cursor (0) none is written.
CompletedAt(j, c) ==
  IF wrapup[j] = "claimed"
    THEN /\ wrapup' = [wrapup EXCEPT ![j] = "completed"]
         /\ wrapupCursor' = IF c = 0 THEN wrapupCursor ELSE c
    ELSE UNCHANGED <<wrapup, wrapupCursor>>

RetriedWrapup(j) ==
  IF wrapup[j] = "claimed"
    THEN /\ wrapup' = [wrapup EXCEPT ![j] = IF wrapupTries[j] >= WrapupAttempts
                                              THEN "failed" ELSE "pending"]
         /\ wrapupHolder' = [wrapupHolder EXCEPT ![j] = None]
    ELSE UNCHANGED <<wrapup, wrapupHolder>>

(***************************************************************************)
(* The service.                                                            *)
(***************************************************************************)

\* A message is observed, imported or applied, possibly behind the cursor, behind
\* the one a job under way was claimed with, or behind what its analysis has read.
EntryArrives(e) ==
  /\ e \notin transcript
  /\ transcript' = transcript \cup {e}
  /\ late' = IF \/ e < wrapupCursor
                \/ \E h \in Host : \E f \in {wrapper[h].from} \cup wrapper[h].seen : e < f
               THEN late \cup {e} ELSE late
  /\ UNCHANGED <<wrapup, wrapupTries, wrapupHolder, wrapupCursor, summaries,
                 purged, analysed, wrapper, wrapupCrashes, analysisFailures>>

\* enqueueThreadIfDue looks at the jobs and the transcript (how many entries or
\* how old is left open) ...
FindThreadDue(h) ==
  /\ Wrapping(h, "idle")
  /\ \A j \in WrapupJob : wrapup[j] \notin ActiveWrapup
  /\ LoadThreadTranscript(wrapupCursor) # {}
  /\ BeginsWrapping(h, "staging")
  /\ UNCHANGED <<wrapup, wrapupTries, wrapupHolder, wrapupCursor, transcript,
                 summaries, purged, analysed, late, wrapupCrashes,
                 analysisFailures>>

\* ... and enqueues in a call of its own, as a pass does for what was omitted.
EnqueueThread(h) ==
  /\ wrapper[h].at \in {"staging", "more"}
  /\ EnqueueMemoryWrapup
  /\ StopsWrapping(h)
  /\ UNCHANGED <<wrapupTries, wrapupHolder, wrapupCursor, transcript,
                 summaries, purged, analysed, late, wrapupCrashes,
                 analysisFailures>>

ClaimWrapup(h) ==
  /\ Wrapping(h, "idle")
  /\ ClaimMemoryWrapups(h)
  /\ UNCHANGED <<wrapupCursor, transcript, summaries, purged, analysed, late,
                 wrapupCrashes, analysisFailures>>

LoadPending(h) ==
  LET entries == LoadThreadTranscript(wrapper[h].from) IN
  /\ Wrapping(h, "claimed")
  /\ IF entries = {}
       THEN BeginsWrapping(h, "empty")
       ELSE wrapper' = [wrapper EXCEPT ![h].at = "loaded", ![h].covers = entries]
  /\ UNCHANGED <<wrapup, wrapupTries, wrapupHolder, wrapupCursor, transcript,
                 summaries, purged, analysed, late, wrapupCrashes,
                 analysisFailures>>

\* The analysis reads the transcript again.
Analyze(h) ==
  LET entries == LoadThreadTranscript(wrapper[h].from) IN
  /\ Wrapping(h, "loaded")
  /\ IF entries = {}
       THEN BeginsWrapping(h, "erred") /\ UNCHANGED analysed
       ELSE /\ wrapper' = [wrapper EXCEPT ![h].at = "analysed", ![h].seen = entries]
            /\ analysed' = analysed \cup entries
  /\ UNCHANGED <<wrapup, wrapupTries, wrapupHolder, wrapupCursor, transcript,
                 summaries, purged, late, wrapupCrashes, analysisFailures>>

\* The runner fails, gives no summary, or the process is asked to stop first.
AnalysisFails(h) ==
  /\ wrapper[h].at \in {"claimed", "loaded"}
  /\ analysisFailures < MaxAnalysisFailures
  /\ analysisFailures' = analysisFailures + 1
  /\ BeginsWrapping(h, "erred")
  /\ UNCHANGED <<wrapup, wrapupTries, wrapupHolder, wrapupCursor, transcript,
                 summaries, purged, analysed, late, wrapupCrashes>>

RecordSummary(h) ==
  /\ Wrapping(h, "analysed")
  /\ RecordThreadContextSummary(wrapper[h].covers, wrapper[h].seen)
  /\ BeginsWrapping(h, "recorded")
  /\ UNCHANGED <<wrapup, wrapupTries, wrapupHolder, wrapupCursor, transcript,
                 purged, analysed, late, wrapupCrashes, analysisFailures>>

\* Mutant: the cursor moves to the newest entry there is.
CompleteToNewest(h) ==
  LET w == wrapper[h] IN
  /\ \/ /\ Wrapping(h, "recorded")
        /\ CompletedAt(w.job, Newest(transcript))
        /\ \/ /\ Beyond(w.from) \ w.seen # {}
              /\ wrapper' = [wrapper EXCEPT ![h] = [NoWrapup EXCEPT !.at = "more"]]
           \/ StopsWrapping(h)
     \/ /\ Wrapping(h, "empty")
        /\ CompletedAt(w.job, w.from)
        /\ StopsWrapping(h)
  /\ UNCHANGED <<wrapupTries, wrapupHolder, transcript, summaries, purged,
                 analysed, late, wrapupCrashes, analysisFailures>>

\* What did not fit into the analysis calls for another job.
CompleteMemoryWrapup(h) ==
  LET w == wrapper[h] IN
  /\ \/ /\ Wrapping(h, "recorded")
        /\ CompletedAt(w.job, Newest(w.seen))
        /\ \/ /\ Beyond(w.from) \ w.seen # {}
              /\ wrapper' = [wrapper EXCEPT ![h] = [NoWrapup EXCEPT !.at = "more"]]
           \/ StopsWrapping(h)
     \/ /\ Wrapping(h, "empty")
        /\ CompletedAt(w.job, w.from)
        /\ StopsWrapping(h)
  /\ UNCHANGED <<wrapupTries, wrapupHolder, transcript, summaries, purged,
                 analysed, late, wrapupCrashes, analysisFailures>>

RetryMemoryWrapup(h) ==
  /\ Wrapping(h, "erred")
  /\ RetriedWrapup(wrapper[h].job)
  /\ StopsWrapping(h)
  /\ UNCHANGED <<wrapupTries, wrapupCursor, transcript, summaries, purged,
                 analysed, late, wrapupCrashes, analysisFailures>>

\* The grace period of a summary is over: the raw text it covers goes.
PurgeThreadContextRaw ==
  /\ \E s \in summaries : /\ s.covers \ purged # {}
                          /\ purged' = purged \cup s.covers
  /\ UNCHANGED <<wrapup, wrapupTries, wrapupHolder, wrapupCursor, transcript,
                 summaries, analysed, late, wrapper, wrapupCrashes,
                 analysisFailures>>

\* A terminal job goes, and its name may stand for a new one once no host holds
\* it: what a host does to a job that is gone is what it does to a terminal one.
PruneMemoryWrapups(j) ==
  /\ wrapup[j] \in {"completed", "failed"}
  /\ \A h \in Host : wrapper[h].job # j
  /\ wrapup' = [wrapup EXCEPT ![j] = "absent"]
  /\ wrapupTries' = [wrapupTries EXCEPT ![j] = 0]
  /\ wrapupHolder' = [wrapupHolder EXCEPT ![j] = None]
  /\ UNCHANGED <<wrapupCursor, transcript, summaries, purged, analysed, late,
                 wrapper, wrapupCrashes, analysisFailures>>

WrapperCrashes(h) ==
  /\ ~Wrapping(h, "idle") /\ wrapupCrashes < MaxWrapupCrashes
  /\ wrapupCrashes' = wrapupCrashes + 1
  /\ StopsWrapping(h)
  /\ UNCHANGED <<wrapup, wrapupTries, wrapupHolder, wrapupCursor, transcript,
                 summaries, purged, analysed, late, analysisFailures>>

WrapupInit ==
  /\ wrapup = [j \in WrapupJob |-> "absent"]
  /\ wrapupTries = [j \in WrapupJob |-> 0]
  /\ wrapupHolder = [j \in WrapupJob |-> None]
  /\ wrapupCursor = 0 /\ transcript = {} /\ summaries = {} /\ purged = {}
  /\ analysed = {} /\ late = {}
  /\ wrapper = [h \in Host |-> NoWrapup]
  /\ wrapupCrashes = 0 /\ analysisFailures = 0

WrapupStep(h) ==
  \/ EnqueueThread(h) \/ LoadPending(h) \/ Analyze(h) \/ RecordSummary(h)
  \/ CompleteMemoryWrapup(h) \/ RetryMemoryWrapup(h)

WrapupNext ==
  \/ \E e \in Entry : EntryArrives(e)
  \/ PurgeThreadContextRaw
  \/ \E j \in WrapupJob : PruneMemoryWrapups(j)
  \/ \E h \in Host : \/ FindThreadDue(h) \/ ClaimWrapup(h) \/ WrapupStep(h)
                     \/ AnalysisFails(h) \/ WrapperCrashes(h)

WrapupSpec == WrapupInit /\ [][WrapupNext]_wrapupVars

\* A live host passes again and again: it stages, claims, goes on, and prunes.
WrapupWork(h) == FindThreadDue(h) \/ ClaimWrapup(h) \/ WrapupStep(h)
WrapupPruning == \E j \in WrapupJob : PruneMemoryWrapups(j)
FairWrapup ==
  /\ WrapupSpec
  /\ WF_wrapupVars(WrapupPruning)
  /\ \A h \in Host : WF_wrapupVars(WrapupWork(h))

(***************************************************************************)
(* Properties.                                                             *)
(***************************************************************************)

\* The types of the variables.
WrapupTypeOK ==
  /\ wrapup \in [WrapupJob -> WrapupStatus]
  /\ wrapupTries \in [WrapupJob -> 0 .. WrapupAttempts]
  /\ wrapupHolder \in [WrapupJob -> Host \cup {None}]
  /\ wrapupCursor \in 0 .. LastEntry
  /\ transcript \subseteq Entry /\ purged \subseteq Entry
  /\ analysed \subseteq Entry /\ late \subseteq Entry
  /\ summaries \subseteq [to : Entry, covers : SUBSET Entry, seen : SUBSET Entry]
  /\ wrapper \in [Host -> [job : WrapupJob \cup {None}, at : WrapupPhase, from : 0 .. LastEntry,
                           covers : SUBSET Entry, seen : SUBSET Entry]]
  /\ wrapupCrashes \in Nat /\ analysisFailures \in Nat

\* A thread is consolidated by one claim at a time, so two analyses of the same
\* stretch are never both current.
OneWrapupAtATime ==
  \A i, j \in WrapupJob : wrapup[i] = "claimed" /\ wrapup[j] = "claimed" => i = j

\* Entries a summary stands for although its analysis, which reads the transcript
\* once more, found earlier ones in their place.
Displaced == UNION {s.covers \ s.seen : s \in summaries}

\* "The per-thread cursor advances only after successful analysis and a persisted
\* summary": what lies behind it was analysed, unless it arrived behind it, or a
\* summary covers it whose analysis never saw it.
NothingIsSkipped ==
  \A e \in transcript : e <= wrapupCursor => e \in analysed \cup late \cup Displaced

\* A job that can still be tried is never left to lie.
StuckWrapup(j) == wrapup[j] = "pending" /\ wrapupTries[j] >= WrapupAttempts
EveryEntryIsWrapped ==
  \A e \in Entry : e \in transcript ~>
                     (e \in analysed \cup late \cup purged \/ \E j \in WrapupJob : StuckWrapup(j))
=============================================================================
