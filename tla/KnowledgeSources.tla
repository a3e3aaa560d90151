--------------------------- MODULE KnowledgeSources ---------------------------
(***************************************************************************)
(* A knowledge source that follows a web page.  Every change of the source   *)
(* is a revision with an enrichment job of its own; refresh jobs fetch the   *)
(* page for a revision, conditionally when an earlier fetch left a validator.*)
(* Both kinds of jobs are leased by several processes while operators edit,  *)
(* disable and enable the source and the page itself changes.                *)
(*                                                                         *)
(* Sources: packages/config/src/file-knowledge-source-store.ts,              *)
(* file-knowledge-source-refresh-store.ts, packages/runtime-host/src/        *)
(* knowledge-source-refresh.ts and knowledge-enrichment.ts.                  *)
(***************************************************************************)
EXTENDS Hosts, FiniteSets, Naturals

CONSTANTS Refresher, Enricher,   \* the hosts on which the two passes are enabled
          RefreshJob,
          JobAttempts,           \* maxAttempts (5)
          LastEdit,              \* bound: no edit of the source past this revision
          LastRevision,          \* and the last one refreshes can then reach
          LastPage,              \* bound: versions of the page
          MaxKnowledgeCrashes

ASSUME KnowledgeBounds ==
  /\ Refresher \cup Enricher \subseteq Host
  /\ JobAttempts \in Nat \ {0} /\ LastPage \in Nat \ {0}
  /\ {LastEdit, LastRevision, MaxKnowledgeCrashes} \subseteq Nat
  /\ IsFiniteSet(RefreshJob)
  /\ LastEdit + Cardinality(RefreshJob) <= LastRevision

VARIABLES page,                  \* version of the page
          source,                \* revision, content (a page version, 0: own text)
          refresh,               \* refresh jobs
          enrichment,            \* enrichment job of every revision
          enrichedFrom,          \* the content its passages were made from
          refresher, enricher,   \* what each host is doing
          knowledgeCrashes

knowledgeVars == <<page, source, refresh, enrichment, enrichedFrom, refresher,
                   enricher, knowledgeCrashes>>

Revision == 1 .. LastRevision
PageVersion == 1 .. LastPage
Content == {0} \cup PageVersion

\* "lapsed" is claimed, but longer ago than the lease.
LeasedJob == {"claimed", "lapsed"}
OpenJob == {"pending"} \cup LeasedJob
EndedJob == {"completed", "failed", "stale"}

\* The validator (etag) of a job is the version it stands for; 0 is none.
NoRefresh == [status |-> "absent", of |-> 0, tries |-> 0, holder |-> None,
              result |-> 0, validator |-> 0]
NoEnrichment == [status |-> "absent", tries |-> 0, holder |-> None]

RefresherAt(p) == [at |-> p, left |-> {}, on |-> None, rev |-> 0, got |-> 0]
EnricherAt(p) == [at |-> p, left |-> {}, on |-> 0, got |-> 0]
Refreshing(h, p) == refresher[h].at = p
Enriching(h, p) == enricher[h].at = p
RefreshesNext(h) == refresher' = [refresher EXCEPT ![h] =
                      [RefresherAt("refresh") EXCEPT !.left = refresher[h].left]]
EnrichesNext(h) == enricher' = [enricher EXCEPT ![h] =
                     [EnricherAt("enrich") EXCEPT !.left = enricher[h].left]]

HoldsRefresh(j, h) == refresh[j].status \in LeasedJob /\ refresh[j].holder = h
HoldsEnrichment(r, h) == enrichment[r].status \in LeasedJob /\ enrichment[r].holder = h

(***************************************************************************)
(* The source.                                                             *)
(***************************************************************************)

\* enqueueEnrichmentInState, for the revision a change makes.
EnqueueEnrichment(r) ==
  enrichment' = [enrichment EXCEPT ![r] = [NoEnrichment EXCEPT !.status = "pending"]]

\* Upsert and ingest write a new text; the source is enabled as it was.
UpsertSource ==
  /\ source.revision < LastEdit
  /\ source' = [source EXCEPT !.revision = @ + 1, !.content = 0]
  /\ EnqueueEnrichment(source.revision + 1)
  /\ UNCHANGED <<page, refresh, enrichedFrom, refresher, enricher, knowledgeCrashes>>

SetEnabled(on) ==
  /\ source.revision \in 1 .. LastEdit - 1
  /\ source' = [source EXCEPT !.revision = @ + 1, !.enabled = on]
  /\ IF on THEN EnqueueEnrichment(source.revision + 1) ELSE UNCHANGED enrichment
  /\ UNCHANGED <<page, refresh, enrichedFrom, refresher, enricher, knowledgeCrashes>>

PageChanges ==
  /\ page < LastPage
  /\ page' = page + 1
  /\ UNCHANGED <<source, refresh, enrichment, enrichedFrom, refresher, enricher,
                 knowledgeCrashes>>

(***************************************************************************)
(* The refresh jobs.                                                       *)
(***************************************************************************)

\* Mutant: the validator is that of the last fetch, whatever was edited since.
PreviousValidatorOfSource(r) ==
  LET done == {j \in RefreshJob : refresh[j].status = "completed"}
  IN  {refresh[j].validator : j \in done} \cup (IF done = {} THEN {0} ELSE {})

\* The validator is that of the last completed job whose result is the revision.
\* Completion order is creation order here: two jobs of a revision are never open
\* together, so the choice only matters between equals.
PreviousValidator(r) ==
  LET done == {j \in RefreshJob : refresh[j].status = "completed" /\ refresh[j].result = r}
  IN  {refresh[j].validator : j \in done} \cup (IF done = {} THEN {0} ELSE {})

\* A revision has one open job at most.
EnqueueRefresh(r) ==
  IF \E j \in RefreshJob : refresh[j].status \in OpenJob /\ refresh[j].of = r
    THEN UNCHANGED refresh
    ELSE \E j \in RefreshJob, v \in PreviousValidator(r) :
           /\ refresh[j].status = "absent"
           /\ refresh' = [refresh EXCEPT ![j] =
                [NoRefresh EXCEPT !.status = "pending", !.of = r, !.validator = v]]

RefreshLapses(j) ==
  /\ refresh[j].status = "claimed"
  /\ refresh' = [refresh EXCEPT ![j].status = "lapsed"]
  /\ UNCHANGED <<page, source, enrichment, enrichedFrom, refresher, enricher,
                 knowledgeCrashes>>

\* A pass lists the sources that are to be refreshed, then queues what is due.
ListSources(h) ==
  /\ Refreshing(h, "start")
  /\ refresher' = [refresher EXCEPT ![h] =
       IF source.revision > 0 /\ source.enabled
         THEN [RefresherAt("listed") EXCEPT !.rev = source.revision]
         ELSE RefresherAt("claim")]
  /\ UNCHANGED <<page, source, refresh, enrichment, enrichedFrom, enricher,
                 knowledgeCrashes>>

EnqueueDue(h) ==
  /\ Refreshing(h, "listed")
  /\ EnqueueRefresh(refresher[h].rev) \/ UNCHANGED refresh
  /\ refresher' = [refresher EXCEPT ![h] = RefresherAt("claim")]
  /\ UNCHANGED <<page, source, enrichment, enrichedFrom, enricher, knowledgeCrashes>>

\* What lapsed on its last attempt has failed; the rest is taken.
ClaimRefreshes(h) ==
  LET spent == {j \in RefreshJob : /\ refresh[j].status = "lapsed"
                                   /\ refresh[j].tries >= JobAttempts}
      taken == {j \in RefreshJob : /\ refresh[j].status \in {"pending", "lapsed"}
                                   /\ refresh[j].tries < JobAttempts} IN
  /\ Refreshing(h, "claim")
  /\ refresh' = [j \in RefreshJob |->
       CASE j \in spent -> [refresh[j] EXCEPT !.status = "failed", !.holder = None]
         [] j \in taken -> [refresh[j] EXCEPT !.status = "claimed", !.holder = h,
                                              !.tries = @ + 1]
         [] OTHER -> refresh[j]]
  /\ refresher' = [refresher EXCEPT ![h] = [RefresherAt("refresh") EXCEPT !.left = taken]]
  /\ UNCHANGED <<page, source, enrichment, enrichedFrom, enricher, knowledgeCrashes>>

RefreshPassEnds(h) ==
  /\ Refreshing(h, "refresh")
  /\ refresher[h].left = {}
  /\ refresher' = [refresher EXCEPT ![h] = RefresherAt("start")]
  /\ UNCHANGED <<page, source, refresh, enrichment, enrichedFrom, enricher,
                 knowledgeCrashes>>

\* The job is only good for the revision it was made for.
CheckSource(h) ==
  /\ Refreshing(h, "refresh")
  /\ \E j \in refresher[h].left :
       refresher' = [refresher EXCEPT ![h] =
         [at |-> IF source.enabled /\ source.revision = refresh[j].of THEN "fetch" ELSE "stale",
          left |-> @.left \ {j}, on |-> j, rev |-> refresh[j].of, got |-> 0]]
  /\ UNCHANGED <<page, source, refresh, enrichment, enrichedFrom, enricher,
                 knowledgeCrashes>>

\* The page answers that nothing changed since the validator, or with its text.
FetchPage(h) ==
  /\ Refreshing(h, "fetch")
  /\ refresher' = [refresher EXCEPT ![h].got = page,
                                    ![h].at = IF refresh[refresher[h].on].validator = page
                                                THEN "unmodified" ELSE "fetched"]
  /\ UNCHANGED <<page, source, refresh, enrichment, enrichedFrom, enricher,
                 knowledgeCrashes>>

FetchFails(h) ==
  /\ Refreshing(h, "fetch")
  /\ refresher' = [refresher EXCEPT ![h].at = "retry"]
  /\ UNCHANGED <<page, source, refresh, enrichment, enrichedFrom, enricher,
                 knowledgeCrashes>>

\* Mutant: the text of the page makes no revision.
ApplyWithoutRevision(h) ==
  LET R == refresher[h] IN
  /\ Refreshing(h, "fetched")
  /\ CASE source.revision # R.rev \/ ~source.enabled ->
            /\ refresher' = [refresher EXCEPT ![h].at = "stale"]
            /\ UNCHANGED <<source, enrichment>>
       [] source.revision = R.rev /\ source.enabled /\ source.content = R.got ->
            /\ refresher' = [refresher EXCEPT ![h].at = "applied"]
            /\ UNCHANGED <<source, enrichment>>
       [] OTHER ->
            /\ source' = [source EXCEPT !.content = R.got]
            /\ UNCHANGED enrichment
            /\ refresher' = [refresher EXCEPT ![h].at = "applied"]
  /\ UNCHANGED <<page, refresh, enrichedFrom, enricher, knowledgeCrashes>>

\* Mutant: the text of the page is written whatever the source has become.
ApplyBlindly(h) ==
  LET R == refresher[h] IN
  /\ Refreshing(h, "fetched")
  /\ CASE source.revision = 0 ->
            /\ refresher' = [refresher EXCEPT ![h].at = "stale"]
            /\ UNCHANGED <<source, enrichment>>
       [] source.content = R.got ->
            /\ refresher' = [refresher EXCEPT ![h].at = "applied"]
            /\ UNCHANGED <<source, enrichment>>
       [] OTHER ->
            /\ source' = [source EXCEPT !.revision = @ + 1, !.content = R.got]
            /\ EnqueueEnrichment(source.revision + 1)
            /\ refresher' = [refresher EXCEPT ![h].at = "applied", ![h].rev = @ + 1]
  /\ UNCHANGED <<page, refresh, enrichedFrom, enricher, knowledgeCrashes>>

\* applyRemoteRefresh makes a revision only of a text that differs.
ApplyRemoteRefresh(h) ==
  LET R == refresher[h] IN
  /\ Refreshing(h, "fetched")
  /\ CASE source.revision # R.rev \/ ~source.enabled ->
            /\ refresher' = [refresher EXCEPT ![h].at = "stale"]
            /\ UNCHANGED <<source, enrichment>>
       [] source.revision = R.rev /\ source.enabled /\ source.content = R.got ->
            /\ refresher' = [refresher EXCEPT ![h].at = "applied"]
            /\ UNCHANGED <<source, enrichment>>
       [] OTHER ->
            /\ source' = [source EXCEPT !.revision = @ + 1, !.content = R.got]
            /\ EnqueueEnrichment(source.revision + 1)
            /\ refresher' = [refresher EXCEPT ![h].at = "applied", ![h].rev = @ + 1]
  /\ UNCHANGED <<page, refresh, enrichedFrom, enricher, knowledgeCrashes>>

\* A job that is lost is not completed: the error is retried, the retry is refused
\* too, and its error ends the pass with the rest of what it had claimed.
PassAborts(h) == refresher' = [refresher EXCEPT ![h] = RefresherAt("start")]

CompleteRefresh(h) ==
  LET j == refresher[h].on IN
  /\ refresher[h].at \in {"applied", "unmodified"}
  /\ IF HoldsRefresh(j, h)
       THEN /\ refresh' = [refresh EXCEPT ![j].status = "completed", ![j].holder = None,
                 ![j].result = refresher[h].rev, ![j].validator = refresher[h].got]
            /\ RefreshesNext(h)
       ELSE /\ PassAborts(h)
            /\ UNCHANGED refresh
  /\ UNCHANGED <<page, source, enrichment, enrichedFrom, enricher, knowledgeCrashes>>

\* Mutant: a job to be retried gets the name of the phase.
StaleOrRetryVerbatim(h) ==
  LET j == refresher[h].on IN
  /\ refresher[h].at \in {"stale", "retry"}
  /\ IF HoldsRefresh(j, h)
       THEN /\ refresh' = [refresh EXCEPT ![j].holder = None, ![j].status =
                 CASE Refreshing(h, "stale") -> "stale"
                   [] Refreshing(h, "retry") /\ refresh[j].tries >= JobAttempts -> "failed"
                   [] OTHER -> "retry"]
            /\ RefreshesNext(h)
       ELSE /\ PassAborts(h)
            /\ UNCHANGED refresh
  /\ UNCHANGED <<page, source, enrichment, enrichedFrom, enricher, knowledgeCrashes>>

\* Mutant: a job is given back whatever its attempts.
RetryRefreshForever(h) ==
  LET j == refresher[h].on IN
  /\ refresher[h].at \in {"stale", "retry"}
  /\ IF HoldsRefresh(j, h)
       THEN /\ refresh' = [refresh EXCEPT ![j].holder = None, ![j].status =
                 CASE Refreshing(h, "stale") -> "stale"
                   [] Refreshing(h, "retry") -> "pending"
                   [] OTHER -> "pending"]
            /\ RefreshesNext(h)
       ELSE /\ PassAborts(h)
            /\ UNCHANGED refresh
  /\ UNCHANGED <<page, source, enrichment, enrichedFrom, enricher, knowledgeCrashes>>

\* stale() after a conflict, retry() after any other error.
StaleOrRetry(h) ==
  LET j == refresher[h].on IN
  /\ refresher[h].at \in {"stale", "retry"}
  /\ IF HoldsRefresh(j, h)
       THEN /\ refresh' = [refresh EXCEPT ![j].holder = None, ![j].status =
                 CASE Refreshing(h, "stale") -> "stale"
                   [] Refreshing(h, "retry") /\ refresh[j].tries >= JobAttempts -> "failed"
                   [] OTHER -> "pending"]
            /\ RefreshesNext(h)
       ELSE /\ PassAborts(h)
            /\ UNCHANGED refresh
  /\ UNCHANGED <<page, source, enrichment, enrichedFrom, enricher, knowledgeCrashes>>

(***************************************************************************)
(* The enrichment jobs.                                                    *)
(***************************************************************************)

EnrichmentLapses(r) ==
  /\ enrichment[r].status = "claimed"
  /\ enrichment' = [enrichment EXCEPT ![r].status = "lapsed"]
  /\ UNCHANGED <<page, source, refresh, enrichedFrom, refresher, enricher,
                 knowledgeCrashes>>

ClaimEnrichments(h) ==
  LET taken == {r \in Revision : /\ enrichment[r].status \in {"pending", "lapsed"}
                                 /\ enrichment[r].tries < JobAttempts} IN
  /\ Enriching(h, "start")
  /\ taken # {}
  /\ enrichment' = [r \in Revision |->
       IF r \in taken
         THEN [enrichment[r] EXCEPT !.status = "claimed", !.holder = h, !.tries = @ + 1]
         ELSE enrichment[r]]
  /\ enricher' = [enricher EXCEPT ![h] = [EnricherAt("enrich") EXCEPT !.left = taken]]
  /\ UNCHANGED <<page, source, refresh, enrichedFrom, refresher, knowledgeCrashes>>

EnrichmentPassEnds(h) ==
  /\ Enriching(h, "enrich")
  /\ enricher[h].left = {}
  /\ enricher' = [enricher EXCEPT ![h] = EnricherAt("start")]
  /\ UNCHANGED <<page, source, refresh, enrichment, enrichedFrom, refresher,
                 knowledgeCrashes>>

\* The text is read and handed to the executor, or found to have moved on.
EnrichRevision(h) ==
  /\ Enriching(h, "enrich")
  /\ \E r \in enricher[h].left :
       enricher' = [enricher EXCEPT ![h] =
         [at |-> IF source.revision = r THEN "running" ELSE "outdated",
          left |-> @.left \ {r}, on |-> r, got |-> source.content]]
  /\ UNCHANGED <<page, source, refresh, enrichment, enrichedFrom, refresher,
                 knowledgeCrashes>>

ExecutorEnds(h) ==
  /\ Enriching(h, "running")
  /\ \E p \in {"enriched", "erred"} : enricher' = [enricher EXCEPT ![h].at = p]
  /\ UNCHANGED <<page, source, refresh, enrichment, enrichedFrom, refresher,
                 knowledgeCrashes>>

\* completeEnrichment compares the revision once more: the source may have changed
\* under the executor.  What it is told of a lost claim is retried like an error.
CompleteEnrichment(h) ==
  LET r == enricher[h].on IN
  /\ enricher[h].at \in {"enriched", "outdated"}
  /\ IF HoldsEnrichment(r, h)
       THEN /\ enrichment' = [enrichment EXCEPT ![r].status =
                                IF source.revision = r THEN "completed" ELSE "stale"]
            /\ enrichedFrom' = IF source.revision = r
                                 THEN [enrichedFrom EXCEPT ![r] = enricher[h].got]
                                 ELSE enrichedFrom
            /\ EnrichesNext(h)
       ELSE /\ enricher' = [enricher EXCEPT ![h].at = "erred"]
            /\ UNCHANGED <<enrichment, enrichedFrom>>
  /\ UNCHANGED <<page, source, refresh, refresher, knowledgeCrashes>>

RetryEnrichment(h) ==
  LET r == enricher[h].on IN
  /\ Enriching(h, "erred")
  /\ IF HoldsEnrichment(r, h)
       THEN /\ enrichment' = [enrichment EXCEPT ![r].holder = None, ![r].status =
                 IF enrichment[r].tries >= JobAttempts THEN "failed" ELSE "pending"]
            /\ EnrichesNext(h)
       ELSE /\ enricher' = [enricher EXCEPT ![h] = EnricherAt("start")]
            /\ UNCHANGED enrichment
  /\ UNCHANGED <<page, source, refresh, enrichedFrom, refresher, knowledgeCrashes>>

\* Both passes of the process stop where they are.
KnowledgeHostCrashes(h) ==
  /\ ~(Refreshing(h, "start") /\ Enriching(h, "start"))
  /\ knowledgeCrashes < MaxKnowledgeCrashes
  /\ knowledgeCrashes' = knowledgeCrashes + 1
  /\ refresher' = [refresher EXCEPT ![h] = RefresherAt("start")]
  /\ enricher' = [enricher EXCEPT ![h] = EnricherAt("start")]
  /\ UNCHANGED <<page, source, refresh, enrichment, enrichedFrom>>

KnowledgeInit ==
  /\ page = 1
  /\ source = [revision |-> 0, content |-> 0, enabled |-> TRUE]
  /\ refresh = [j \in RefreshJob |-> NoRefresh]
  /\ enrichment = [r \in Revision |-> NoEnrichment]
  /\ enrichedFrom = [r \in Revision |-> 0]
  /\ refresher = [h \in Host |-> RefresherAt("start")]
  /\ enricher = [h \in Host |-> EnricherAt("start")]
  /\ knowledgeCrashes = 0

RefreshPass(h) ==
  \/ ListSources(h) \/ EnqueueDue(h) \/ ClaimRefreshes(h) \/ RefreshPassEnds(h)
  \/ CheckSource(h) \/ FetchPage(h) \/ FetchFails(h) \/ ApplyRemoteRefresh(h)
  \/ CompleteRefresh(h) \/ StaleOrRetry(h)

EnrichmentPass(h) ==
  \/ ClaimEnrichments(h) \/ EnrichmentPassEnds(h) \/ EnrichRevision(h)
  \/ ExecutorEnds(h) \/ CompleteEnrichment(h) \/ RetryEnrichment(h)

KnowledgeNext ==
  \/ UpsertSource \/ PageChanges \/ \E on \in BOOLEAN : SetEnabled(on)
  \/ \E j \in RefreshJob : RefreshLapses(j)
  \/ \E r \in Revision : EnrichmentLapses(r)
  \/ \E h \in Refresher : RefreshPass(h)
  \/ \E h \in Enricher : EnrichmentPass(h)
  \/ \E h \in Host : KnowledgeHostCrashes(h)

KnowledgeSpec == KnowledgeInit /\ [][KnowledgeNext]_knowledgeVars

\* Both passes run on timers, calls return, and leases grow old.
KnowledgeWork(h) ==
  \/ h \in Refresher /\ RefreshPass(h)
  \/ h \in Enricher /\ EnrichmentPass(h)
KnowledgeTime ==
  \/ \E j \in RefreshJob : RefreshLapses(j)
  \/ \E r \in Revision : EnrichmentLapses(r)
FairKnowledge ==
  /\ KnowledgeSpec
  /\ WF_knowledgeVars(KnowledgeTime)
  /\ \A h \in Host : WF_knowledgeVars(KnowledgeWork(h))

-----------------------------------------------------------------------------
(* Properties *)

\* The types of the variables.
KnowledgeTypeOK ==
  /\ page \in PageVersion
  /\ source \in [revision : {0} \cup Revision, content : Content, enabled : BOOLEAN]
  /\ refresh \in [RefreshJob ->
       [status : {"absent"} \cup OpenJob \cup EndedJob, of : {0} \cup Revision,
        tries : 0 .. JobAttempts, holder : Host \cup {None},
        result : {0} \cup Revision, validator : Content]]
  /\ enrichment \in [Revision ->
       [status : {"absent"} \cup OpenJob \cup EndedJob, tries : 0 .. JobAttempts,
        holder : Host \cup {None}]]
  /\ enrichedFrom \in [Revision -> Content]
  /\ knowledgeCrashes \in 0 .. MaxKnowledgeCrashes

\* A fetch is only conditional on what the source really holds: the validator an
\* open job would send for the current revision stands for the revision's text,
\* so "not modified" never hides a text that was edited or overtaken.
ValidatorMatchesText ==
  \A j \in RefreshJob :
    (/\ refresh[j].status \in OpenJob
     /\ refresh[j].of = source.revision
     /\ refresh[j].validator # 0) => refresh[j].validator = source.content

\* A refresh never replaces what an operator wrote after the page was fetched: a
\* revision with text of the page follows the very revision the job was made for.
RefreshOverwritesNothing ==
  [][source'.revision # source.revision /\ source'.content # source.content
       /\ source'.content # 0 =>
         \E h \in Host : /\ source.revision = refresher[h].rev
                         /\ source.enabled
                         /\ source'.content = refresher[h].got]_knowledgeVars

\* The passages found for the current revision were made from its text.
PassagesFitText ==
  \A r \in Revision : enrichment[r].status = "completed" /\ r = source.revision =>
                        enrichedFrom[r] = source.content

\* Every refresh completes, fails or is found stale, whoever dies on the way; so does
\* every enrichment, but for one whose worker died, or lost its claim, on the last
\* attempt: nothing fails those.
LeftUnenriched(r) ==
  enrichment[r].status \in LeasedJob /\ enrichment[r].tries = JobAttempts
EveryJobSettles ==
  /\ \A j \in RefreshJob :
       (refresh[j].status \in OpenJob) ~> (refresh[j].status \in EndedJob)
  /\ \A r \in Revision :
       (enrichment[r].status \in OpenJob)
         ~> (enrichment[r].status \in EndedJob \/ LeftUnenriched(r))
=============================================================================
