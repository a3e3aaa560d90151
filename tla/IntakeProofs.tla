----------------------------- MODULE IntakeProofs -----------------------------
(***************************************************************************)
(* Proofs about what comes in from outside: KnowledgeSources, for any hosts,  *)
(* any jobs, any number of attempts and crashes, and any bounds on revisions   *)
(* and page versions; LarkIngress, for any messages, scans, windows and limits *)
(* and any number of troubles; and HistoryImports, for any jobs, servers,      *)
(* windows, attempts and troubles.                                            *)
(***************************************************************************)
EXTENDS KnowledgeSources, LarkIngress, HistoryImports, TLAPS, FiniteSetTheorems

RefreshRecord ==
  [status : {"absent"} \cup OpenJob \cup EndedJob, of : {0} \cup Revision,
   tries : 0 .. JobAttempts, holder : Host \cup {None},
   result : {0} \cup Revision, validator : Content]
RefresherPhase == {"start", "listed", "claim", "refresh", "fetch", "fetched", "unmodified",
                   "applied", "stale", "retry"}
RefresherState == [at : RefresherPhase, left : SUBSET RefreshJob, on : RefreshJob \cup {None},
                   rev : {0} \cup Revision, got : Content]

(***************************************************************************)
(* The inductive invariant of the refreshes.  A validator belongs to the     *)
(* revision its job ended with, so what has to be known of a fetch under way *)
(* is which revision it was made for and which text that revision had.       *)
(***************************************************************************)

RefreshTypes ==
  /\ page \in PageVersion
  /\ source \in [revision : {0} \cup Revision, content : Content, enabled : BOOLEAN]
  /\ refresh \in [RefreshJob -> RefreshRecord]
  /\ refresher \in [Host -> RefresherState]

\* Nothing is made for a revision that is yet to come.
JobIsNotAhead(j) == refresh[j].of <= source.revision /\ refresh[j].result <= source.revision

\* What a job that ended with the current revision, or would be sent for it, stands for.
JobAgrees(j) ==
  refresh[j].validator # 0 =>
    /\ refresh[j].status = "completed" /\ refresh[j].result = source.revision =>
         refresh[j].validator = source.content
    /\ refresh[j].status \in OpenJob /\ refresh[j].of = source.revision =>
         refresh[j].validator = source.content

\* A host works on jobs that were made, for the revision they were made for; what
\* it has found unmodified is the validator, what it has applied is the text.
RefresherAgrees(h) ==
  LET R == refresher[h] IN
  /\ R.rev <= source.revision
  /\ \A j \in R.left : refresh[j].status # "absent"
  /\ R.at \notin {"start", "listed", "claim", "refresh"} =>
       R.on \in RefreshJob /\ refresh[R.on].status # "absent"
  /\ R.at \in {"fetch", "fetched", "unmodified"} => R.rev = refresh[R.on].of
  /\ R.at = "unmodified" /\ refresh[R.on].status \in OpenJob =>
       R.got = refresh[R.on].validator
  /\ R.at \in {"unmodified", "fetched"} => R.got # 0
  /\ R.at = "applied" /\ R.rev = source.revision => R.got = source.content

\* Past the edits, every revision is the work of a job made for the one before.
RevisionsAreAccounted ==
  \A r \in LastEdit .. source.revision - 1 :
    \E j \in RefreshJob : refresh[j].status # "absent" /\ refresh[j].of = r

RefreshInv ==
  /\ RefreshTypes
  /\ \A j \in RefreshJob : JobIsNotAhead(j) /\ JobAgrees(j)
  /\ \A h \in Host : RefresherAgrees(h)
  /\ RevisionsAreAccounted

-----------------------------------------------------------------------------
(* Moves of one host, and of one job *)

RefresherGoes(h, R) ==
  /\ R \in RefresherState
  /\ refresher' \in [Host -> RefresherState]
  /\ refresher'[h] = R
  /\ \A g \in Host \ {h} : refresher'[g] = refresher[g]

LEMMA RefresherMoves ==
  ASSUME RefreshTypes, NEW h \in Host, NEW R \in RefresherState,
         refresher' = [refresher EXCEPT ![h] = R]
  PROVE  RefresherGoes(h, R)
BY DEF RefreshTypes, RefresherGoes

\* There is room for the revision a refresh makes: a job makes one at most.
LEMMA RoomForARefresh ==
  ASSUME RefreshInv, NEW j \in RefreshJob, refresh[j].of = source.revision,
         refresh[j].status # "absent", source.revision >= LastEdit
  PROVE  source.revision + 1 \in Revision
<1> DEFINE n == source.revision
           Made == {k \in RefreshJob : refresh[k].status # "absent"}
           Targets == {refresh[k].of : k \in Made}
<1>1. n \in Nat /\ LastEdit \in Nat /\ LastRevision \in Nat
  BY KnowledgeBounds DEF RefreshInv, RefreshTypes, Revision
<1>2. LastEdit .. n \subseteq Targets
  <2>1. ASSUME NEW r \in LastEdit .. n PROVE r \in Targets
    <3>1. CASE r = n
      BY <3>1
    <3>2. CASE r # n
      <4>1. r \in LastEdit .. n - 1
        BY <1>1, <3>2
      <4> QED BY <4>1 DEF RefreshInv, RevisionsAreAccounted
    <3> QED BY <3>1, <3>2
  <2> QED BY <2>1
<1>3. IsFiniteSet(Made) /\ Cardinality(Made) <= Cardinality(RefreshJob)
  BY KnowledgeBounds, FS_Subset
<1>4. IsFiniteSet(Targets) /\ Cardinality(Targets) <= Cardinality(Made)
  <2> DEFINE f == [k \in Made |-> refresh[k].of]
  <2>1. f \in Surjection(Made, Targets)
    BY DEF Surjection
  <2> QED BY <1>3, <2>1, FS_Surjection
<1>5. Cardinality(LastEdit .. n) <= Cardinality(Targets)
  BY <1>2, <1>4, FS_Subset
<1>6. Cardinality(LastEdit .. n) = n - LastEdit + 1
  BY <1>1, FS_Interval
<1>7. Cardinality(Made) \in Nat /\ Cardinality(Targets) \in Nat /\ Cardinality(RefreshJob) \in Nat
  BY <1>3, <1>4, KnowledgeBounds, FS_CardinalityType
<1>8. n + 1 <= LastRevision
  <2> HIDE DEF n, Made, Targets
  <2> QED BY <1>1, <1>3, <1>4, <1>5, <1>6, <1>7, KnowledgeBounds
<1> QED BY <1>1, <1>8 DEF Revision

\* Jobs that were made keep their revision, and an open one its validator.
JobsGoOn ==
  \A j \in RefreshJob : refresh[j].status # "absent" =>
    /\ refresh'[j].status # "absent" /\ refresh'[j].of = refresh[j].of
    /\ refresh'[j].status \in OpenJob =>
         refresh[j].status \in OpenJob /\ refresh'[j].validator = refresh[j].validator

\* Steps that leave the source alone: it is enough to look at the jobs and at the
\* host that moved.
LEMMA KnowledgeQuietStep ==
  ASSUME RefreshInv, UNCHANGED source, RefreshTypes', JobsGoOn,
         \A j \in RefreshJob : JobIsNotAhead(j)' /\ JobAgrees(j)',
         \A h \in Host : refresher'[h] = refresher[h] \/ RefresherAgrees(h)'
  PROVE  RefreshInv'
<1>1. ASSUME NEW h \in Host, refresher'[h] = refresher[h]
      PROVE  RefresherAgrees(h)'
  <2>1. RefresherAgrees(h) /\ refresher[h].left \subseteq RefreshJob
    BY DEF RefreshInv, RefreshTypes, RefresherState
  <2> QED BY <1>1, <2>1 DEF RefresherAgrees, JobsGoOn
<1>2. RevisionsAreAccounted'
  BY DEF RefreshInv, RevisionsAreAccounted, JobsGoOn
<1> QED BY <1>1, <1>2 DEF RefreshInv

\* The same, when the jobs are left alone too.
LEMMA RefresherHostStep ==
  ASSUME RefreshInv, UNCHANGED <<page, source, refresh>>,
         NEW h \in Host, NEW R, RefresherGoes(h, R), RefresherAgrees(h)'
  PROVE  RefreshInv'
<1>1. RefreshTypes'
  BY DEF RefreshInv, RefreshTypes, RefresherGoes
<1>2. JobsGoOn /\ \A j \in RefreshJob : JobIsNotAhead(j)' /\ JobAgrees(j)'
  BY DEF RefreshInv, JobsGoOn, JobIsNotAhead, JobAgrees
<1>3. \A g \in Host : refresher'[g] = refresher[g] \/ RefresherAgrees(g)'
  BY DEF RefresherGoes
<1> QED BY <1>1, <1>2, <1>3, KnowledgeQuietStep

\* An edit of the source makes a revision nothing was made for yet.
LEMMA EditStep ==
  ASSUME RefreshInv, UNCHANGED <<page, refresh, refresher>>, source.revision < LastEdit,
         source' \in [revision : {0} \cup Revision, content : Content, enabled : BOOLEAN],
         source'.revision = source.revision + 1
  PROVE  RefreshInv'
<1>1. /\ source.revision \in Nat /\ LastEdit \in Nat
      /\ \A j \in RefreshJob : refresh[j].of \in Nat /\ refresh[j].result \in Nat
      /\ \A h \in Host : refresher[h].rev \in Nat
  BY KnowledgeBounds DEF RefreshInv, RefreshTypes, RefreshRecord, RefresherState, Revision
<1>2. RefreshTypes'
  BY DEF RefreshInv, RefreshTypes
<1>3. ASSUME NEW j \in RefreshJob
      PROVE  JobIsNotAhead(j)' /\ JobAgrees(j)'
  <2>1. JobIsNotAhead(j)
    BY DEF RefreshInv
  <2> QED BY <1>1, <2>1 DEF JobIsNotAhead, JobAgrees
<1>4. ASSUME NEW h \in Host
      PROVE  RefresherAgrees(h)'
  <2>1. RefresherAgrees(h)
    BY DEF RefreshInv
  <2>2. refresher[h].rev <= source'.revision /\ refresher[h].rev # source'.revision
    BY <1>1, <2>1 DEF RefresherAgrees
  <2> QED BY <2>1, <2>2 DEF RefresherAgrees
<1>5. RevisionsAreAccounted'
  <2>1. LastEdit .. source'.revision - 1 = {}
    BY <1>1
  <2> QED BY <2>1 DEF RevisionsAreAccounted
<1> QED BY <1>2, <1>3, <1>4, <1>5 DEF RefreshInv

\* The edits and the steps of the clock.
LEMMA OutsideStep ==
  ASSUME RefreshInv,
         \/ UpsertSource \/ PageChanges \/ \E on \in BOOLEAN : SetEnabled(on)
         \/ \E j \in RefreshJob : RefreshLapses(j)
  PROVE  RefreshInv'
<1>1. source \in [revision : {0} \cup Revision, content : Content, enabled : BOOLEAN]
  BY DEF RefreshInv, RefreshTypes
<1>2. source.revision < LastEdit => source.revision + 1 \in Revision
  <2>1. Cardinality(RefreshJob) \in Nat
    BY KnowledgeBounds, FS_CardinalityType
  <2>2. source.revision \in Nat
    BY <1>1 DEF Revision
  <2> QED BY <2>1, <2>2, KnowledgeBounds DEF Revision
<1>3. CASE UpsertSource
  <2>1. source' = [source EXCEPT !.revision = @ + 1, !.content = 0] /\ source.revision < LastEdit
    BY <1>3 DEF UpsertSource
  <2>2. /\ source' \in [revision : {0} \cup Revision, content : Content, enabled : BOOLEAN]
        /\ source'.revision = source.revision + 1
    BY <1>1, <1>2, <2>1 DEF Content
  <2> QED BY <1>3, <2>1, <2>2, EditStep DEF UpsertSource
<1>4. ASSUME NEW on \in BOOLEAN, SetEnabled(on)
      PROVE  RefreshInv'
  <2>1. source' = [source EXCEPT !.revision = @ + 1, !.enabled = on] /\ source.revision < LastEdit
    <3>1. source.revision \in 1 .. LastEdit - 1 /\ LastEdit \in Nat
      BY <1>4, KnowledgeBounds DEF SetEnabled
    <3>2. source.revision < LastEdit
      BY <3>1
    <3>3. source' = [source EXCEPT !.revision = @ + 1, !.enabled = on]
      BY <1>4 DEF SetEnabled
    <3> QED BY <3>2, <3>3
  <2>2. /\ source' \in [revision : {0} \cup Revision, content : Content, enabled : BOOLEAN]
        /\ source'.revision = source.revision + 1
    BY <1>1, <1>2, <2>1 DEF Content
  <2> QED BY <1>4, <2>1, <2>2, EditStep DEF SetEnabled
<1>5. CASE PageChanges
  <2>1. UNCHANGED <<source, refresh, refresher>> /\ page' \in PageVersion
    BY <1>5, KnowledgeBounds DEF PageChanges, RefreshInv, RefreshTypes, PageVersion
  <2>2. RefreshTypes' /\ JobsGoOn /\ \A j \in RefreshJob : JobIsNotAhead(j)' /\ JobAgrees(j)'
    BY <2>1 DEF RefreshInv, RefreshTypes, JobsGoOn, JobIsNotAhead, JobAgrees
  <2> QED BY <2>1, <2>2, KnowledgeQuietStep
<1>6. ASSUME NEW j \in RefreshJob, RefreshLapses(j)
      PROVE  RefreshInv'
  <2>1. /\ refresh[j].status = "claimed" /\ refresh' = [refresh EXCEPT ![j].status = "lapsed"]
        /\ UNCHANGED <<page, source, refresher>>
    BY <1>6 DEF RefreshLapses
  <2>2. /\ refresh' \in [RefreshJob -> RefreshRecord]
        /\ \A k \in RefreshJob :
             /\ refresh'[k].of = refresh[k].of /\ refresh'[k].result = refresh[k].result
             /\ refresh'[k].validator = refresh[k].validator
             /\ \/ refresh'[k].status = refresh[k].status
                \/ refresh[k].status = "claimed" /\ refresh'[k].status = "lapsed"
    BY <2>1 DEF RefreshInv, RefreshTypes, RefreshRecord, OpenJob, LeasedJob
  <2>3. RefreshTypes' /\ JobsGoOn
    BY <2>1, <2>2 DEF RefreshInv, RefreshTypes, JobsGoOn, OpenJob, LeasedJob
  <2>4. \A k \in RefreshJob : JobIsNotAhead(k)' /\ JobAgrees(k)'
    BY <2>1, <2>2 DEF RefreshInv, JobIsNotAhead, JobAgrees, OpenJob, LeasedJob
  <2> QED BY <2>1, <2>3, <2>4, KnowledgeQuietStep
<1> QED BY <1>3, <1>4, <1>5, <1>6

\* A pass takes up its work, and leaves it.
LEMMA RefreshPassStep ==
  ASSUME RefreshInv, NEW h \in Host,
         \/ ListSources(h) \/ RefreshPassEnds(h) \/ CheckSource(h) \/ FetchPage(h)
         \/ FetchFails(h)
  PROVE  RefreshInv'
<1> DEFINE R == refresher[h]
<1>1. /\ RefreshTypes /\ RefresherAgrees(h) /\ R \in RefresherState
      /\ source.revision \in Nat /\ source.revision \in {0} \cup Revision
      /\ page \in PageVersion
      /\ \A j \in RefreshJob : /\ refresh[j] \in RefreshRecord /\ JobIsNotAhead(j)
                               /\ refresh[j].of \in Nat
  BY DEF RefreshInv, RefreshTypes, RefreshRecord, Revision
<1>2. UNCHANGED <<page, source, refresh>>
  BY DEF ListSources, RefreshPassEnds, CheckSource, FetchPage, FetchFails
<1>3. CASE ListSources(h)
  <2> DEFINE S == IF source.revision > 0 /\ source.enabled
                    THEN [RefresherAt("listed") EXCEPT !.rev = source.revision]
                    ELSE RefresherAt("claim")
  <2>1. S \in RefresherState /\ S.at \in {"listed", "claim"} /\ S.rev <= source.revision
           /\ S.left = {}
    BY <1>1 DEF RefresherAt, RefresherState, RefresherPhase, Content
  <2>2. RefresherGoes(h, S)
    <3> HIDE DEF S
    <3>1. refresher' = [refresher EXCEPT ![h] = S]
      BY <1>3 DEF ListSources, S
    <3> QED BY <1>1, <2>1, <3>1, RefresherMoves
  <2> HIDE DEF S
  <2>3. RefresherAgrees(h)'
    BY <1>2, <2>1, <2>2 DEF RefresherGoes, RefresherAgrees
  <2> QED BY <1>2, <2>2, <2>3, RefresherHostStep
<1>4. CASE RefreshPassEnds(h)
  <2>1. /\ RefresherAt("start") \in RefresherState /\ RefresherAt("start").at = "start"
        /\ RefresherAt("start").left = {} /\ RefresherAt("start").rev <= source.revision
    BY <1>1 DEF RefresherAt, RefresherState, RefresherPhase, Content
  <2>2. RefresherGoes(h, RefresherAt("start"))
    BY <1>1, <1>4, <2>1, RefresherMoves DEF RefreshPassEnds
  <2>3. RefresherAgrees(h)'
    BY <1>2, <2>1, <2>2 DEF RefresherGoes, RefresherAgrees
  <2> QED BY <1>2, <2>2, <2>3, RefresherHostStep
<1>5. CASE CheckSource(h)
  <2>1. PICK j \in R.left :
          refresher' = [refresher EXCEPT ![h] =
            [at |-> IF source.enabled /\ source.revision = refresh[j].of THEN "fetch" ELSE "stale",
             left |-> R.left \ {j}, on |-> j, rev |-> refresh[j].of, got |-> 0]]
    BY <1>5 DEF CheckSource
  <2>2. j \in RefreshJob /\ refresh[j].status # "absent" /\ R.left \in SUBSET RefreshJob
    BY <1>1 DEF RefresherState, RefresherAgrees
  <2> DEFINE p == IF source.enabled /\ source.revision = refresh[j].of THEN "fetch" ELSE "stale"
             S == [at |-> p, left |-> R.left \ {j}, on |-> j, rev |-> refresh[j].of, got |-> 0]
  <2>3. S \in RefresherState /\ S.at \in {"fetch", "stale"}
    BY <1>1, <2>2 DEF RefresherState, RefreshRecord, RefresherPhase, Content
  <2>4. RefresherGoes(h, S)
    BY <1>1, <2>1, <2>3, RefresherMoves
  <2>5. RefresherAgrees(h)'
    BY <1>1, <1>2, <2>2, <2>3, <2>4 DEF RefresherGoes, RefresherAgrees, JobIsNotAhead
  <2> QED BY <1>2, <2>4, <2>5, RefresherHostStep
<1>6. CASE FetchPage(h)
  <2>1. PICK p \in {"unmodified", "fetched"} :
          /\ refresher' = [refresher EXCEPT ![h].got = page, ![h].at = p]
          /\ p = "unmodified" => refresh[R.on].validator = page
    BY <1>6 DEF FetchPage
  <2> DEFINE S == [at |-> p, left |-> R.left, on |-> R.on, rev |-> R.rev, got |-> page]
  <2>2. RefresherGoes(h, S)
    BY <1>1, <2>1 DEF RefreshTypes, RefresherState, RefresherPhase, RefresherGoes, Content
  <2>3. R.at = "fetch" /\ page # 0
    BY <1>1, <1>6 DEF FetchPage, Refreshing, PageVersion
  <2>4. RefresherAgrees(h)'
    BY <1>1, <1>2, <2>1, <2>2, <2>3 DEF RefresherGoes, RefresherAgrees
  <2> QED BY <1>2, <2>2, <2>4, RefresherHostStep
<1>7. CASE FetchFails(h)
  <2> DEFINE S == [at |-> "retry", left |-> R.left, on |-> R.on, rev |-> R.rev, got |-> R.got]
  <2>1. RefresherGoes(h, S)
    BY <1>1, <1>7 DEF FetchFails, RefreshTypes, RefresherState, RefresherPhase, RefresherGoes
  <2>2. R.at = "fetch"
    BY <1>7 DEF FetchFails, Refreshing
  <2>3. RefresherAgrees(h)'
    BY <1>1, <1>2, <2>1, <2>2 DEF RefresherGoes, RefresherAgrees
  <2> QED BY <1>2, <2>1, <2>3, RefresherHostStep
<1> QED BY <1>3, <1>4, <1>5, <1>6, <1>7

\* A job is queued for the revision that was listed, with the validator left by the
\* last job that ended with that revision.
LEMMA RefreshEnqueueStep ==
  ASSUME RefreshInv, NEW h \in Host, EnqueueDue(h)
  PROVE  RefreshInv'
<1> DEFINE n == refresher[h].rev
<1>1. /\ RefreshTypes /\ n \in {0} \cup Revision /\ n <= source.revision
      /\ source.revision \in Nat
  BY DEF RefreshInv, RefreshTypes, RefresherState, RefresherAgrees, Revision
<1>2. UNCHANGED <<page, source>>
  BY DEF EnqueueDue
<1>3. RefresherAt("claim") \in RefresherState /\ RefresherAt("claim").at = "claim"
      /\ RefresherAt("claim").left = {} /\ RefresherAt("claim").rev <= source.revision
  BY <1>1 DEF RefresherAt, RefresherState, RefresherPhase, Content
<1>4. RefresherGoes(h, RefresherAt("claim"))
  BY <1>1, <1>3, RefresherMoves DEF EnqueueDue
<1>5. RefresherAgrees(h)'
  BY <1>2, <1>3, <1>4 DEF RefresherGoes, RefresherAgrees
<1>6. CASE UNCHANGED refresh
  BY <1>2, <1>4, <1>5, <1>6, RefresherHostStep
<1>7. ASSUME NEW j \in RefreshJob, NEW v \in PreviousValidator(n),
             refresh[j].status = "absent",
             refresh' = [refresh EXCEPT ![j] =
               [NoRefresh EXCEPT !.status = "pending", !.of = n, !.validator = v]]
      PROVE  RefreshInv'
  <2>1. /\ v \in Content
        /\ n = source.revision /\ v # 0 => v = source.content
    BY <1>1 DEF PreviousValidator, RefreshInv, RefreshTypes, RefreshRecord, JobAgrees, Content
  <2> DEFINE J == [status |-> "pending", of |-> n, tries |-> 0, holder |-> None,
                   result |-> 0, validator |-> v]
  <2>2. J \in RefreshRecord
    BY <1>1, <2>1, KnowledgeBounds DEF RefreshRecord, OpenJob
  <2>3. /\ refresh' \in [RefreshJob -> RefreshRecord] /\ refresh'[j] = J
        /\ \A k \in RefreshJob \ {j} : refresh'[k] = refresh[k]
    BY <1>1, <1>7, <2>2 DEF NoRefresh, RefreshTypes
  <2>4. RefreshTypes' /\ JobsGoOn
    BY <1>1, <1>2, <1>4, <1>7, <2>3 DEF RefreshTypes, RefresherGoes, JobsGoOn
  <2>5. ASSUME NEW k \in RefreshJob
        PROVE  JobIsNotAhead(k)' /\ JobAgrees(k)'
    <3>1. CASE k = j
      BY <1>1, <1>2, <2>1, <2>3, <3>1 DEF JobIsNotAhead, JobAgrees
    <3>2. CASE k # j
      BY <1>2, <2>3, <3>2 DEF RefreshInv, JobIsNotAhead, JobAgrees
    <3> QED BY <3>1, <3>2
  <2> QED BY <1>2, <1>4, <1>5, <2>4, <2>5, KnowledgeQuietStep DEF RefresherGoes
<1> QED BY <1>6, <1>7 DEF EnqueueDue, EnqueueRefresh

\* What lapsed is taken over or given up; neither touches what a job stands for.
LEMMA RefreshClaimStep ==
  ASSUME RefreshInv, NEW h \in Host, ClaimRefreshes(h)
  PROVE  RefreshInv'
<1> DEFINE taken == {j \in RefreshJob : /\ refresh[j].status \in {"pending", "lapsed"}
                                        /\ refresh[j].tries < JobAttempts}
           S == [RefresherAt("refresh") EXCEPT !.left = taken]
<1>1. /\ RefreshTypes /\ source.revision \in Nat
      /\ \A j \in RefreshJob : refresh[j] \in RefreshRecord
  BY DEF RefreshInv, RefreshTypes, Revision
<1>2. UNCHANGED <<page, source>>
  BY DEF ClaimRefreshes
<1>3. ASSUME NEW j \in RefreshJob
      PROVE  /\ refresh'[j] \in RefreshRecord
             /\ refresh'[j].of = refresh[j].of /\ refresh'[j].result = refresh[j].result
             /\ refresh'[j].validator = refresh[j].validator
             /\ \/ refresh'[j].status = refresh[j].status
                \/ refresh[j].status = "lapsed" /\ refresh'[j].status = "failed"
                \/ refresh[j].status \in {"pending", "lapsed"} /\ refresh'[j].status = "claimed"
  <2> DEFINE J == refresh[j]
  <2>1. \/ refresh'[j] = J
        \/ J.status = "lapsed" /\ refresh'[j] = [J EXCEPT !.status = "failed", !.holder = None]
        \/ /\ J.status \in {"pending", "lapsed"} /\ J.tries < JobAttempts
           /\ refresh'[j] = [J EXCEPT !.status = "claimed", !.holder = h, !.tries = @ + 1]
    <3> DEFINE spent == {k \in RefreshJob : /\ refresh[k].status = "lapsed"
                                            /\ refresh[k].tries >= JobAttempts}
    <3>1. refresh'[j] =
            CASE j \in spent -> [refresh[j] EXCEPT !.status = "failed", !.holder = None]
              [] j \in taken -> [refresh[j] EXCEPT !.status = "claimed", !.holder = h,
                                                   !.tries = @ + 1]
              [] OTHER -> refresh[j]
      BY DEF ClaimRefreshes
    <3>2. /\ j \in spent => J.status = "lapsed"
          /\ j \in taken => J.status \in {"pending", "lapsed"} /\ J.tries < JobAttempts
      OBVIOUS
    <3> HIDE DEF spent, taken
    <3> QED BY <3>1, <3>2
  <2>2. J \in RefreshRecord /\ JobAttempts \in Nat
    BY <1>1, KnowledgeBounds
  <2>3. J.tries < JobAttempts => J.tries + 1 \in 0 .. JobAttempts
    BY <2>2 DEF RefreshRecord
  <2> HIDE DEF J
  <2>4. refresh'[j] \in RefreshRecord
    BY <2>1, <2>2, <2>3 DEF RefreshRecord, OpenJob, LeasedJob, EndedJob
  <2>5. /\ refresh'[j].of = J.of /\ refresh'[j].result = J.result
        /\ refresh'[j].validator = J.validator
        /\ \/ refresh'[j].status = J.status
           \/ J.status = "lapsed" /\ refresh'[j].status = "failed"
           \/ J.status \in {"pending", "lapsed"} /\ refresh'[j].status = "claimed"
    BY <2>1, <2>2 DEF RefreshRecord
  <2> QED BY <2>4, <2>5 DEF J
<1>4. refresh' \in [RefreshJob -> RefreshRecord]
  <2> DEFINE spent == {k \in RefreshJob : /\ refresh[k].status = "lapsed"
                                          /\ refresh[k].tries >= JobAttempts}
             f(j) == CASE j \in spent -> [refresh[j] EXCEPT !.status = "failed", !.holder = None]
                       [] j \in taken -> [refresh[j] EXCEPT !.status = "claimed", !.holder = h,
                                                            !.tries = @ + 1]
                       [] OTHER -> refresh[j]
  <2>1. refresh' = [j \in RefreshJob |-> f(j)]
    BY DEF ClaimRefreshes
  <2> HIDE DEF f, spent, taken
  <2> QED BY <1>3, <2>1
<1>5. S \in RefresherState /\ S.at = "refresh" /\ S.left = taken /\ S.rev <= source.revision
  BY <1>1 DEF RefresherAt, RefresherState, RefresherPhase, Content
<1>6. RefresherGoes(h, S)
  <2> HIDE DEF S
  <2>1. refresher' = [refresher EXCEPT ![h] = S]
    BY DEF ClaimRefreshes, S
  <2> QED BY <1>1, <1>5, <2>1, RefresherMoves
<1> HIDE DEF S
<1>7. \A j \in taken : refresh'[j].status # "absent"
  BY <1>3
<1>8. RefresherAgrees(h)'
  BY <1>2, <1>5, <1>6, <1>7 DEF RefresherGoes, RefresherAgrees
<1>9. RefreshTypes' /\ JobsGoOn
  BY <1>1, <1>2, <1>3, <1>4, <1>6 DEF RefreshTypes, RefresherGoes, JobsGoOn, OpenJob, LeasedJob
<1>10. \A j \in RefreshJob : JobIsNotAhead(j)' /\ JobAgrees(j)'
  BY <1>2, <1>3 DEF RefreshInv, JobIsNotAhead, JobAgrees, OpenJob, LeasedJob
<1> QED BY <1>2, <1>6, <1>8, <1>9, <1>10, KnowledgeQuietStep DEF RefresherGoes

\* Where a host goes after a job, and when its pass ends.
LEMMA AfterAJob ==
  ASSUME RefreshInv, NEW h \in Host
  PROVE  /\ PassAborts(h) => RefresherGoes(h, RefresherAt("start"))
         /\ RefreshesNext(h) =>
              RefresherGoes(h, [RefresherAt("refresh") EXCEPT !.left = refresher[h].left])
         /\ RefresherAt("start").at = "start"
         /\ RefresherAt("start").left = {} /\ RefresherAt("start").rev = 0
         /\ [RefresherAt("refresh") EXCEPT !.left = refresher[h].left].at = "refresh"
         /\ [RefresherAt("refresh") EXCEPT !.left = refresher[h].left].left = refresher[h].left
         /\ [RefresherAt("refresh") EXCEPT !.left = refresher[h].left].rev = 0
<1> DEFINE S == [RefresherAt("refresh") EXCEPT !.left = refresher[h].left]
<1>1. RefreshTypes /\ refresher[h].left \in SUBSET RefreshJob
  BY DEF RefreshInv, RefreshTypes, RefresherState
<1>2. S \in RefresherState /\ S.at = "refresh" /\ S.left = refresher[h].left /\ S.rev = 0
  BY <1>1 DEF RefresherAt, RefresherState, RefresherPhase, Content
<1>3. /\ RefresherAt("start") \in RefresherState /\ RefresherAt("start").at = "start"
      /\ RefresherAt("start").left = {} /\ RefresherAt("start").rev = 0
  BY DEF RefresherAt, RefresherState, RefresherPhase, Content
<1>4. RefreshesNext(h) => RefresherGoes(h, S)
  <2> HIDE DEF S
  <2>1. RefreshesNext(h) => refresher' = [refresher EXCEPT ![h] = S]
    BY DEF RefreshesNext, S
  <2> QED BY <1>1, <1>2, <2>1, RefresherMoves
<1>5. PassAborts(h) => RefresherGoes(h, RefresherAt("start"))
  BY <1>1, <1>3, RefresherMoves DEF PassAborts
<1> QED BY <1>2, <1>3, <1>4, <1>5

\* The text of the page is applied to the revision it was fetched for, or not at all.
LEMMA ApplyStep ==
  ASSUME RefreshInv, NEW h \in Host, ApplyRemoteRefresh(h)
  PROVE  RefreshInv'
<1> DEFINE R == refresher[h]
           S(p, r) == [at |-> p, left |-> R.left, on |-> R.on, rev |-> r, got |-> R.got]
<1>1. /\ RefreshTypes /\ RefresherAgrees(h) /\ R \in RefresherState /\ R.at = "fetched"
      /\ source \in [revision : {0} \cup Revision, content : Content, enabled : BOOLEAN]
      /\ source.revision \in Nat /\ R.rev \in Nat
      /\ UNCHANGED <<page, refresh>>
  BY DEF RefreshInv, RefreshTypes, ApplyRemoteRefresh, Refreshing, RefresherState, Revision
<1>2. /\ R.on \in RefreshJob /\ refresh[R.on].status # "absent"
      /\ R.rev = refresh[R.on].of /\ R.rev <= source.revision
      /\ \A j \in R.left : refresh[j].status # "absent"
  BY <1>1 DEF RefresherAgrees
<1>3. ASSUME NEW p \in {"stale", "applied"}, refresher' = [refresher EXCEPT ![h].at = p],
             UNCHANGED source, p = "applied" => source.content = R.got
      PROVE  RefreshInv'
  <2>1. RefresherGoes(h, S(p, R.rev))
    BY <1>1, <1>3 DEF RefreshTypes, RefresherState, RefresherPhase, RefresherGoes
  <2>2. RefresherAgrees(h)'
    BY <1>1, <1>2, <1>3, <2>1 DEF RefresherGoes, RefresherAgrees
  <2> QED BY <1>1, <1>3, <2>1, <2>2, RefresherHostStep
<1>4. ASSUME source.revision = R.rev,
             source' = [source EXCEPT !.revision = @ + 1, !.content = R.got],
             refresher' = [refresher EXCEPT ![h].at = "applied", ![h].rev = @ + 1]
      PROVE  RefreshInv'
  <2>1. source.revision + 1 \in Revision
    <3>1. LastEdit \in Nat /\ Cardinality(RefreshJob) \in Nat /\ LastRevision \in Nat
      BY KnowledgeBounds, FS_CardinalityType
    <3>2. CASE source.revision < LastEdit
      BY <1>1, <3>1, <3>2, KnowledgeBounds DEF Revision
    <3>3. CASE source.revision >= LastEdit
      BY <1>2, <1>4, <3>3, RoomForARefresh
    <3> QED BY <1>1, <3>1, <3>2, <3>3
  <2>2. /\ source' \in [revision : {0} \cup Revision, content : Content, enabled : BOOLEAN]
        /\ source'.revision = source.revision + 1 /\ source'.content = R.got
    BY <1>1, <1>4, <2>1 DEF RefresherState
  <2>3. RefresherGoes(h, S("applied", R.rev + 1))
    BY <1>1, <1>4, <2>1 DEF RefreshTypes, RefresherState, RefresherPhase, RefresherGoes
  <2>4. RefreshTypes'
    BY <1>1, <2>2, <2>3 DEF RefreshTypes, RefresherGoes
  <2>5. ASSUME NEW j \in RefreshJob
        PROVE  JobIsNotAhead(j)' /\ JobAgrees(j)'
    <3>1. JobIsNotAhead(j) /\ refresh[j].of \in Nat /\ refresh[j].result \in Nat
      BY DEF RefreshInv, RefreshTypes, RefreshRecord, Revision
    <3> QED BY <1>1, <2>2, <3>1 DEF JobIsNotAhead, JobAgrees
  <2>6. ASSUME NEW g \in Host
        PROVE  RefresherAgrees(g)'
    <3>1. CASE g = h
      BY <1>1, <1>2, <1>4, <2>2, <2>3, <3>1 DEF RefresherGoes, RefresherAgrees
    <3>2. CASE g # h
      <4>1. RefresherAgrees(g) /\ refresher'[g] = refresher[g] /\ refresher[g].rev \in Nat
        BY <2>3, <3>2 DEF RefreshInv, RefreshTypes, RefresherState, Revision, RefresherGoes
      <4>2. refresher[g].rev <= source'.revision /\ refresher[g].rev # source'.revision
        BY <1>1, <2>2, <4>1 DEF RefresherAgrees
      <4> QED BY <1>1, <4>1, <4>2 DEF RefresherAgrees
    <3> QED BY <3>1, <3>2
  <2>7. RevisionsAreAccounted'
    <3>1. ASSUME NEW r \in LastEdit .. source.revision
          PROVE  \E j \in RefreshJob : refresh[j].status # "absent" /\ refresh[j].of = r
      <4>1. CASE r = source.revision
        BY <1>2, <1>4, <4>1
      <4>2. CASE r # source.revision
        <5>1. r \in LastEdit .. source.revision - 1
          BY <1>1, <4>2, KnowledgeBounds
        <5> QED BY <5>1 DEF RefreshInv, RevisionsAreAccounted
      <4> QED BY <4>1, <4>2
    <3>2. source'.revision - 1 = source.revision
      BY <1>1, <2>2
    <3> QED BY <1>1, <3>1, <3>2 DEF RevisionsAreAccounted
  <2> QED BY <2>4, <2>5, <2>6, <2>7 DEF RefreshInv
<1> QED BY <1>3, <1>4 DEF ApplyRemoteRefresh

\* A job is recorded by the host that holds it; a host that lost it ends its pass.
LEMMA RefreshRecordStep ==
  ASSUME RefreshInv, NEW h \in Host, CompleteRefresh(h) \/ StaleOrRetry(h)
  PROVE  RefreshInv'
<1> DEFINE R == refresher[h]
           j == R.on
<1>1. /\ RefreshTypes /\ RefresherAgrees(h) /\ R \in RefresherState
      /\ R.at \in {"applied", "unmodified", "stale", "retry"}
      /\ j \in RefreshJob /\ refresh[j] \in RefreshRecord /\ JobIsNotAhead(j) /\ JobAgrees(j)
      /\ R.left \in SUBSET RefreshJob /\ \A k \in R.left : refresh[k].status # "absent"
      /\ UNCHANGED <<page, source>> /\ source.revision \in Nat
  <2>1. R.at \in {"applied", "unmodified", "stale", "retry"}
    BY DEF CompleteRefresh, StaleOrRetry
  <2>2. /\ RefreshTypes /\ RefresherAgrees(h) /\ R \in RefresherState
        /\ source.revision \in Nat
    BY DEF RefreshInv, RefreshTypes, Revision
  <2>3. /\ j \in RefreshJob /\ R.left \in SUBSET RefreshJob
        /\ \A k \in R.left : refresh[k].status # "absent"
    BY <2>1, <2>2 DEF RefresherAgrees, RefresherState
  <2>4. refresh[j] \in RefreshRecord /\ JobIsNotAhead(j) /\ JobAgrees(j)
    BY <2>2, <2>3 DEF RefreshInv, RefreshTypes
  <2>5. UNCHANGED <<page, source>>
    BY DEF CompleteRefresh, StaleOrRetry
  <2> QED BY <2>1, <2>2, <2>3, <2>4, <2>5
<1>2. CASE PassAborts(h) /\ UNCHANGED refresh
  <2>1. /\ RefresherGoes(h, RefresherAt("start")) /\ RefresherAt("start").at = "start"
        /\ RefresherAt("start").left = {} /\ RefresherAt("start").rev = 0
    BY <1>2, AfterAJob
  <2>2. RefresherAgrees(h)'
    BY <1>1, <2>1 DEF RefresherGoes, RefresherAgrees
  <2> QED BY <1>1, <1>2, <2>1, <2>2, RefresherHostStep
<1>3. ASSUME RefreshesNext(h), NEW J \in RefreshRecord, refresh' = [refresh EXCEPT ![j] = J],
             J.of = refresh[j].of, J.status # "absent", J.result <= source.revision,
             J.status \in OpenJob =>
               refresh[j].status \in OpenJob /\ J.validator = refresh[j].validator,
             J.status = "completed" /\ J.result = source.revision =>
               J.validator = source.content
      PROVE  RefreshInv'
  <2> DEFINE S == [RefresherAt("refresh") EXCEPT !.left = refresher[h].left]
  <2>1. RefresherGoes(h, S) /\ S.at = "refresh" /\ S.left = R.left /\ S.rev = 0
    BY <1>3, AfterAJob
  <2> HIDE DEF S
  <2>2. /\ refresh' \in [RefreshJob -> RefreshRecord] /\ refresh'[j] = J
        /\ \A k \in RefreshJob \ {j} : refresh'[k] = refresh[k]
    BY <1>1, <1>3 DEF RefreshTypes
  <2>3. RefreshTypes' /\ JobsGoOn
    BY <1>1, <1>3, <2>1, <2>2 DEF RefreshTypes, RefresherGoes, JobsGoOn
  <2>4. RefresherAgrees(h)'
    <3>1. \A k \in RefreshJob : refresh[k].status # "absent" => refresh'[k].status # "absent"
      BY <2>3 DEF JobsGoOn
    <3> QED BY <1>1, <2>1, <3>1 DEF RefresherGoes, RefresherAgrees
  <2>5. ASSUME NEW k \in RefreshJob
        PROVE  JobIsNotAhead(k)' /\ JobAgrees(k)'
    <3>1. CASE k = j
      BY <1>1, <1>3, <2>2, <3>1 DEF JobIsNotAhead, JobAgrees, OpenJob, LeasedJob
    <3>2. CASE k # j
      BY <1>1, <2>2, <3>2 DEF RefreshInv, JobIsNotAhead, JobAgrees
    <3> QED BY <3>1, <3>2
  <2> QED BY <1>1, <2>1, <2>3, <2>4, <2>5, KnowledgeQuietStep DEF RefresherGoes
<1>4. HoldsRefresh(j, h) => refresh[j].status \in OpenJob
  BY DEF HoldsRefresh, OpenJob
<1>5. CASE CompleteRefresh(h) /\ HoldsRefresh(j, h)
  <2> DEFINE J == [status |-> "completed", of |-> refresh[j].of, tries |-> refresh[j].tries,
                   holder |-> None, result |-> R.rev, validator |-> R.got]
  <2>1. J \in RefreshRecord
    BY <1>1 DEF RefreshRecord, RefresherState, EndedJob
  <2>2. refresh' = [refresh EXCEPT ![j] = J] /\ RefreshesNext(h)
    BY <1>1, <1>5 DEF CompleteRefresh, RefreshTypes, RefreshRecord
  <2>3. R.rev = source.revision => R.got = source.content
    <3>1. CASE R.at = "applied"
      BY <1>1, <3>1 DEF RefresherAgrees
    <3>2. CASE R.at = "unmodified"
      BY <1>1, <1>4, <1>5, <3>2 DEF RefresherAgrees, JobAgrees
    <3> QED BY <1>5, <3>1, <3>2 DEF CompleteRefresh
  <2> QED BY <1>1, <1>3, <2>1, <2>2, <2>3 DEF RefresherAgrees, OpenJob, LeasedJob
<1>6. CASE StaleOrRetry(h) /\ HoldsRefresh(j, h)
  <2> DEFINE s == CASE Refreshing(h, "stale") -> "stale"
                    [] Refreshing(h, "retry") /\ refresh[j].tries >= JobAttempts -> "failed"
                    [] OTHER -> "pending"
             J == [refresh[j] EXCEPT !.status = s, !.holder = None]
  <2>1. s \in {"stale", "failed", "pending"}
    OBVIOUS
  <2>2. refresh' = [refresh EXCEPT ![j].holder = None, ![j].status = s] /\ RefreshesNext(h)
    BY <1>6 DEF StaleOrRetry
  <2> HIDE DEF s
  <2>3. /\ J \in RefreshRecord /\ J.of = refresh[j].of /\ J.status = s
        /\ J.result = refresh[j].result /\ J.validator = refresh[j].validator
    BY <1>1, <2>1 DEF RefreshRecord, OpenJob, EndedJob
  <2>4. refresh' = [refresh EXCEPT ![j] = J]
    BY <1>1, <2>2 DEF RefreshTypes, RefreshRecord
  <2> HIDE DEF J
  <2> QED BY <1>1, <1>3, <1>4, <1>6, <2>1, <2>2, <2>3, <2>4 DEF JobIsNotAhead
<1> QED BY <1>2, <1>5, <1>6 DEF CompleteRefresh, StaleOrRetry

LEMMA RefreshInvHolds == KnowledgeSpec => []RefreshInv
<1>1. KnowledgeInit => RefreshInv
  <2> SUFFICES ASSUME KnowledgeInit PROVE RefreshInv
    OBVIOUS
  <2>1. page \in PageVersion /\ page = 1
    BY KnowledgeBounds DEF KnowledgeInit, PageVersion
  <2>2. /\ source \in [revision : {0} \cup Revision, content : Content, enabled : BOOLEAN]
        /\ source.revision = 0
    BY DEF KnowledgeInit, Content
  <2>3. /\ refresh \in [RefreshJob -> RefreshRecord]
        /\ \A j \in RefreshJob : refresh[j] = NoRefresh
    BY KnowledgeBounds DEF KnowledgeInit, NoRefresh, RefreshRecord, Content
  <2>4. /\ refresher \in [Host -> RefresherState]
        /\ \A h \in Host : refresher[h] = RefresherAt("start")
    BY DEF KnowledgeInit, RefresherAt, RefresherState, RefresherPhase, Content
  <2>5. \A j \in RefreshJob : JobIsNotAhead(j) /\ JobAgrees(j)
    BY <2>2, <2>3 DEF JobIsNotAhead, JobAgrees, NoRefresh
  <2>6. \A h \in Host : RefresherAgrees(h)
    <3>1. /\ RefresherAt("start").at = "start" /\ RefresherAt("start").left = {}
          /\ RefresherAt("start").rev = 0
      BY DEF RefresherAt
    <3>2. \A h \in Host : /\ refresher[h].at = "start" /\ refresher[h].left = {}
                           /\ refresher[h].rev = 0
      BY <2>4, <3>1
    <3>3. source.revision = 0 /\ 0 <= 0
      BY <2>2
    <3> QED BY <3>2, <3>3 DEF RefresherAgrees
  <2>7. RevisionsAreAccounted
    <3>1. LastEdit .. source.revision - 1 = {}
      BY <2>2, KnowledgeBounds
    <3> QED BY <3>1 DEF RevisionsAreAccounted
  <2> QED BY <2>1, <2>2, <2>3, <2>4, <2>5, <2>6, <2>7 DEF RefreshInv, RefreshTypes
<1>2. ASSUME RefreshInv, [KnowledgeNext]_knowledgeVars
      PROVE  RefreshInv'
  <2>1. ASSUME UNCHANGED <<page, source, refresh, refresher>>
        PROVE  RefreshInv'
    <3>1. RefreshTypes' /\ JobsGoOn /\ \A j \in RefreshJob : JobIsNotAhead(j)' /\ JobAgrees(j)'
      BY <1>2, <2>1 DEF RefreshInv, RefreshTypes, JobsGoOn, JobIsNotAhead, JobAgrees
    <3> QED BY <1>2, <2>1, <3>1, KnowledgeQuietStep
  <2>2. ASSUME NEW h \in Host, RefreshPass(h)
        PROVE  RefreshInv'
    BY <1>2, <2>2, RefreshPassStep, RefreshEnqueueStep, RefreshClaimStep, ApplyStep, RefreshRecordStep DEF RefreshPass
  <2>3. ASSUME NEW h \in Host, EnrichmentPass(h)
        PROVE  RefreshInv'
    BY <2>1, <2>3 DEF EnrichmentPass, ClaimEnrichments, EnrichmentPassEnds, EnrichRevision,
       ExecutorEnds, CompleteEnrichment, RetryEnrichment
  <2>4. ASSUME NEW r \in Revision, EnrichmentLapses(r)
        PROVE  RefreshInv'
    BY <2>1, <2>4 DEF EnrichmentLapses
  <2>5. ASSUME NEW h \in Host, KnowledgeHostCrashes(h)
        PROVE  RefreshInv'
    <3>1. PassAborts(h) /\ UNCHANGED <<page, source, refresh>>
      BY <2>5 DEF KnowledgeHostCrashes, PassAborts
    <3>2. /\ RefresherGoes(h, RefresherAt("start")) /\ RefresherAt("start").at = "start"
          /\ RefresherAt("start").left = {} /\ RefresherAt("start").rev = 0
      BY <1>2, <3>1, AfterAJob
    <3>3. source.revision \in Nat
      BY <1>2 DEF RefreshInv, RefreshTypes, Revision
    <3>4. RefresherAgrees(h)'
      BY <3>1, <3>2, <3>3 DEF RefresherGoes, RefresherAgrees
    <3> QED BY <1>2, <3>1, <3>2, <3>4, RefresherHostStep
  <2>6. CASE UNCHANGED knowledgeVars
    BY <2>1, <2>6 DEF knowledgeVars
  <2>7. Refresher \subseteq Host /\ Enricher \subseteq Host
    BY KnowledgeBounds
  <2> QED BY <1>2, <2>2, <2>3, <2>4, <2>5, <2>6, <2>7, OutsideStep DEF KnowledgeNext
<1> QED BY <1>1, <1>2, PTL DEF KnowledgeSpec

\* The validator an open job would send stands for the text of the revision it was
\* made for, whatever was edited, applied, disabled or lost meanwhile.
THEOREM ValidatorsAreTrue == KnowledgeSpec => []ValidatorMatchesText
<1>1. RefreshInv => ValidatorMatchesText
  BY DEF RefreshInv, JobAgrees, ValidatorMatchesText
<1> QED BY <1>1, RefreshInvHolds, PTL

\* A text of the page only ever replaces the revision it was fetched for.
THEOREM RefreshesOverwriteNothing == KnowledgeSpec => RefreshOverwritesNothing
<1>1. ASSUME RefreshInv, [KnowledgeNext]_knowledgeVars
      PROVE  [source'.revision # source.revision /\ source'.content # source.content
                /\ source'.content # 0 =>
                  \E h \in Host : /\ source.revision = refresher[h].rev
                                  /\ source.enabled
                                  /\ source'.content = refresher[h].got]_knowledgeVars
  <2>1. source \in [revision : {0} \cup Revision, content : Content, enabled : BOOLEAN]
    BY <1>1 DEF RefreshInv, RefreshTypes
  <2>2. CASE UpsertSource \/ \E on \in BOOLEAN : SetEnabled(on)
    BY <2>1, <2>2 DEF UpsertSource, SetEnabled
  <2>3. ASSUME NEW h \in Host, ApplyRemoteRefresh(h), source' # source
        PROVE  /\ source.revision = refresher[h].rev /\ source.enabled
               /\ source'.content = refresher[h].got
    BY <2>1, <2>3 DEF ApplyRemoteRefresh
  <2>4. ASSUME ~UpsertSource, ~\E on \in BOOLEAN : SetEnabled(on),
               ~\E h \in Host : ApplyRemoteRefresh(h)
        PROVE  UNCHANGED source
    BY <1>1, <2>4, KnowledgeBounds DEF KnowledgeNext, knowledgeVars, PageChanges, RefreshLapses,
       EnrichmentLapses, RefreshPass, EnrichmentPass, KnowledgeHostCrashes, ListSources,
       EnqueueDue, ClaimRefreshes, RefreshPassEnds, CheckSource, FetchPage, FetchFails,
       CompleteRefresh, StaleOrRetry, ClaimEnrichments, EnrichmentPassEnds, EnrichRevision,
       ExecutorEnds, CompleteEnrichment, RetryEnrichment
  <2> QED BY <2>2, <2>3, <2>4
<1> QED BY <1>1, RefreshInvHolds, PTL DEF KnowledgeSpec, RefreshOverwritesNothing

-----------------------------------------------------------------------------
(***************************************************************************)
(* The inductive invariant of the enrichments, beside that of the refreshes: *)
(* nothing is enriched ahead of the source, and what an executor was given   *)
(* for the current revision is its text.                                     *)
(***************************************************************************)

EnrichmentRecord ==
  [status : {"absent"} \cup OpenJob \cup EndedJob, tries : 0 .. JobAttempts,
   holder : Host \cup {None}]
EnricherState == [at : {"start", "enrich", "running", "outdated", "enriched", "erred"},
                  left : SUBSET Revision, on : {0} \cup Revision, got : Content]

EnrichTypes ==
  /\ enrichment \in [Revision -> EnrichmentRecord]
  /\ enrichedFrom \in [Revision -> Content]
  /\ enricher \in [Host -> EnricherState]
  /\ knowledgeCrashes \in 0 .. MaxKnowledgeCrashes

EnrichmentAgrees(r) ==
  /\ enrichment[r].status # "absent" => r <= source.revision
  /\ enrichment[r].status = "completed" /\ r = source.revision =>
       enrichedFrom[r] = source.content

EnricherAgrees(h) ==
  LET E == enricher[h] IN
  /\ \A r \in E.left : r <= source.revision
  /\ E.at \notin {"start", "enrich"} => E.on \in Revision /\ E.on <= source.revision
  /\ E.at \in {"running", "enriched"} /\ E.on = source.revision => E.got = source.content
  /\ E.at = "outdated" => E.on # source.revision

EnrichInv ==
  /\ EnrichTypes
  /\ \A r \in Revision : EnrichmentAgrees(r)
  /\ \A h \in Host : EnricherAgrees(h)

EnricherMoves(h, E) ==
  /\ enricher' \in [Host -> EnricherState]
  /\ enricher'[h] = E
  /\ \A g \in Host \ {h} : enricher'[g] = enricher[g]

\* A revision is added: nothing was enriched, or given to an executor, for it yet.
LEMMA RevisionStep ==
  ASSUME RefreshInv, RefreshInv', EnrichInv, source'.revision = source.revision + 1,
         EnqueueEnrichment(source.revision + 1) \/ UNCHANGED enrichment,
         UNCHANGED <<enrichedFrom, enricher, knowledgeCrashes>>
  PROVE  EnrichInv'
<1> DEFINE n == source.revision
<1>1. n \in Nat /\ n + 1 \in Revision /\ Revision \subseteq Nat
  BY DEF RefreshInv, RefreshTypes, Revision
<1>2. \/ UNCHANGED enrichment
      \/ /\ enrichment' \in [Revision -> EnrichmentRecord]
         /\ enrichment'[n + 1].status = "pending"
         /\ \A r \in Revision \ {n + 1} : enrichment'[r] = enrichment[r]
  <2> DEFINE J == [NoEnrichment EXCEPT !.status = "pending"]
  <2>1. J \in EnrichmentRecord /\ J.status = "pending"
    BY KnowledgeBounds DEF NoEnrichment, EnrichmentRecord, OpenJob
  <2>2. EnqueueEnrichment(n + 1) => enrichment' = [enrichment EXCEPT ![n + 1] = J]
    BY DEF EnqueueEnrichment
  <2> HIDE DEF J
  <2> QED BY <1>1, <2>1, <2>2 DEF EnrichInv, EnrichTypes
<1>3. EnrichTypes'
  BY <1>2 DEF EnrichInv, EnrichTypes
<1>4. ASSUME NEW r \in Revision PROVE EnrichmentAgrees(r)'
  <2>1. EnrichmentAgrees(r)
    BY DEF EnrichInv
  <2> QED BY <1>1, <1>2, <2>1 DEF EnrichmentAgrees
<1>5. ASSUME NEW h \in Host PROVE EnricherAgrees(h)'
  <2>1. /\ EnricherAgrees(h) /\ enricher' = enricher
        /\ enricher[h].left \subseteq Nat
    BY <1>1 DEF EnrichInv, EnrichTypes, EnricherState
  <2>2. \A r \in enricher[h].left : r <= source'.revision
    BY <1>1, <2>1 DEF EnricherAgrees
  <2>3. enricher[h].at \notin {"start", "enrich"} =>
          /\ enricher[h].on \in Revision /\ enricher[h].on <= source'.revision
          /\ enricher[h].on # source'.revision
    <3>1. SUFFICES ASSUME enricher[h].at \notin {"start", "enrich"}
                   PROVE  /\ enricher[h].on \in Revision
                          /\ enricher[h].on <= source'.revision
                          /\ enricher[h].on # source'.revision
      OBVIOUS
    <3>2. enricher[h].on \in Revision /\ enricher[h].on <= n
      BY <2>1, <3>1 DEF EnricherAgrees
    <3>3. enricher[h].on \in Nat
      BY <1>1, <3>2
    <3>4. source'.revision = n + 1
      OBVIOUS
    <3> HIDE DEF n
    <3> QED BY <1>1, <3>2, <3>3, <3>4
  <2> QED BY <2>1, <2>2, <2>3 DEF EnricherAgrees
<1> QED BY <1>3, <1>4, <1>5 DEF EnrichInv

\* Steps that leave the source alone.
LEMMA EnrichStep ==
  ASSUME EnrichInv, EnrichTypes', UNCHANGED source,
         \A r \in Revision : EnrichmentAgrees(r)',
         \A h \in Host : enricher'[h] = enricher[h] \/ EnricherAgrees(h)'
  PROVE  EnrichInv'
BY DEF EnrichInv, EnricherAgrees

LEMMA EnrichmentStep ==
  ASSUME RefreshInv, EnrichInv, NEW h \in Host, EnrichmentPass(h)
  PROVE  EnrichInv'
<1> DEFINE E == enricher[h]
           own == E.on
<1>1. /\ EnrichTypes /\ EnricherAgrees(h) /\ E \in EnricherState
      /\ E.left \in SUBSET Revision /\ Revision \subseteq Nat
      /\ source.revision \in Nat /\ source.content \in Content
      /\ \A q \in Revision : EnrichmentAgrees(q) /\ enrichment[q] \in EnrichmentRecord
  BY DEF EnrichInv, EnrichTypes, EnricherState, RefreshInv, RefreshTypes, Revision
<1>2. UNCHANGED <<source, knowledgeCrashes>>
  <2>1. CASE ClaimEnrichments(h)
    BY <2>1 DEF ClaimEnrichments
  <2>2. CASE EnrichmentPassEnds(h) \/ EnrichRevision(h) \/ ExecutorEnds(h)
    BY <2>2 DEF EnrichmentPassEnds, EnrichRevision, ExecutorEnds
  <2>3. CASE CompleteEnrichment(h) \/ RetryEnrichment(h)
    BY <2>3 DEF CompleteEnrichment, RetryEnrichment
  <2> QED BY <2>1, <2>2, <2>3 DEF EnrichmentPass
<1>3. ASSUME NEW S \in EnricherState, enricher' = [enricher EXCEPT ![h] = S]
      PROVE  EnricherMoves(h, S)
  BY <1>1, <1>3 DEF EnrichTypes, EnricherMoves
<1>4. ASSUME NEW S, EnricherMoves(h, S), EnricherAgrees(h)', UNCHANGED <<enrichment, enrichedFrom>>
      PROVE  EnrichInv'
  <2>1. EnrichTypes' /\ \A q \in Revision : EnrichmentAgrees(q)'
    BY <1>1, <1>2, <1>4 DEF EnrichTypes, EnricherMoves, EnrichmentAgrees
  <2> QED BY <1>2, <1>4, <2>1, EnrichStep DEF EnricherMoves
\* An open job ends or is given back: own is the only one to change.
<1>5. ASSUME NEW J \in EnrichmentRecord, NEW S, own \in Revision,
             enrichment' = [enrichment EXCEPT ![own] = J],
             enrichment[own].status # "absent", J.status # "completed",
             EnricherMoves(h, S), EnricherAgrees(h)', UNCHANGED enrichedFrom
      PROVE  EnrichInv'
  <2>1. EnrichTypes'
    BY <1>1, <1>2, <1>5 DEF EnrichTypes, EnricherMoves
  <2>2. ASSUME NEW q \in Revision PROVE EnrichmentAgrees(q)'
    <3>1. enrichment'[q] = IF q = own THEN J ELSE enrichment[q]
      BY <1>1, <1>5 DEF EnrichTypes
    <3> QED BY <1>1, <1>2, <1>5, <3>1 DEF EnrichmentAgrees
  <2> QED BY <1>2, <1>5, <2>1, <2>2, EnrichStep DEF EnricherMoves
\* What is left of a claim stays behind the source as the pass goes on.
<1>6. ASSUME NEW L \in SUBSET E.left
      PROVE  /\ [EnricherAt("enrich") EXCEPT !.left = L] \in EnricherState
             /\ EnricherMoves(h, [EnricherAt("enrich") EXCEPT !.left = L])
                  => EnricherAgrees(h)'
             /\ EnricherAt("start") \in EnricherState
             /\ EnricherMoves(h, EnricherAt("start")) => EnricherAgrees(h)'
  <2> DEFINE S == [EnricherAt("enrich") EXCEPT !.left = L]
             T == EnricherAt("start")
  <2>1. /\ S \in EnricherState /\ S.at = "enrich" /\ S.left = L
        /\ T \in EnricherState /\ T.at = "start" /\ T.left = {}
    BY <1>1, <1>6 DEF EnricherAt, EnricherState, Content
  <2>2. \A q \in L : q <= source'.revision
    BY <1>1, <1>2, <1>6 DEF EnricherAgrees
  <2> HIDE DEF S, T
  <2>3. EnricherMoves(h, S) => EnricherAgrees(h)'
    BY <2>1, <2>2 DEF EnricherMoves, EnricherAgrees
  <2>4. EnricherMoves(h, T) => EnricherAgrees(h)'
    BY <2>1 DEF EnricherMoves, EnricherAgrees
  <2> QED BY <2>1, <2>3, <2>4 DEF S, T
<1>7. CASE ClaimEnrichments(h)
  <2> DEFINE taken == {r \in Revision : /\ enrichment[r].status \in {"pending", "lapsed"}
                                        /\ enrichment[r].tries < JobAttempts}
             S == [EnricherAt("enrich") EXCEPT !.left = taken]
             f(q) == IF q \in taken
                       THEN [enrichment[q] EXCEPT !.status = "claimed", !.holder = h,
                                                  !.tries = @ + 1]
                       ELSE enrichment[q]
  <2>1. S \in EnricherState /\ S.at = "enrich" /\ S.left = taken
    BY DEF EnricherAt, EnricherState, Content
  <2>2. ASSUME NEW q \in taken
        PROVE  q \in Revision /\ q <= source.revision /\ enrichment[q].status # "absent"
    <3>1. q \in Revision /\ enrichment[q].status \in {"pending", "lapsed"}
      OBVIOUS
    <3>2. EnrichmentAgrees(q)
      BY <1>1, <3>1
    <3> QED BY <3>1, <3>2 DEF EnrichmentAgrees
  <2>3. UNCHANGED enrichedFrom /\ enrichment' = [r \in Revision |-> f(r)]
    BY <1>7 DEF ClaimEnrichments
  <2>4. ASSUME NEW q \in Revision
        PROVE  /\ f(q) \in EnrichmentRecord
               /\ q \in taken => f(q).status = "claimed"
               /\ q \notin taken => f(q) = enrichment[q]
    <3>1. CASE q \in taken
      <4>1. f(q) = [status |-> "claimed", tries |-> enrichment[q].tries + 1, holder |-> h]
        BY <1>1, <3>1 DEF EnrichmentRecord
      <4>2. enrichment[q].tries + 1 \in 0 .. JobAttempts
        BY <1>1, <3>1, KnowledgeBounds DEF EnrichmentRecord
      <4> HIDE DEF f
      <4> QED BY <3>1, <4>1, <4>2 DEF EnrichmentRecord, OpenJob, LeasedJob
    <3>2. CASE q \notin taken
      BY <1>1, <3>2
    <3> QED BY <3>1, <3>2
  <2>5. EnricherMoves(h, S)
    <3> HIDE DEF S
    <3>1. enricher' = [enricher EXCEPT ![h] = S]
      BY <1>7 DEF ClaimEnrichments, S
    <3> QED BY <1>3, <2>1, <3>1
  <2> HIDE DEF S, f
  <2>6. EnrichTypes'
    BY <1>1, <1>2, <2>3, <2>4, <2>5 DEF EnrichTypes, EnricherMoves
  <2>7. ASSUME NEW q \in Revision PROVE EnrichmentAgrees(q)'
    <3>1. enrichment'[q] = f(q)
      BY <2>3
    <3> HIDE DEF taken
    <3> QED BY <1>1, <1>2, <2>2, <2>3, <2>4, <3>1 DEF EnrichmentAgrees
  <2>8. EnricherAgrees(h)'
    <3> HIDE DEF taken
    <3> QED BY <1>2, <2>1, <2>2, <2>5 DEF EnricherMoves, EnricherAgrees
  <2> HIDE DEF taken
  <2> QED BY <1>2, <2>5, <2>6, <2>7, <2>8, EnrichStep DEF EnricherMoves
<1>8. CASE EnrichmentPassEnds(h)
  <2>1. UNCHANGED <<enrichment, enrichedFrom>>
    BY <1>8 DEF EnrichmentPassEnds
  <2>2. enricher' = [enricher EXCEPT ![h] = EnricherAt("start")]
    BY <1>8 DEF EnrichmentPassEnds
  <2>3. {} \in SUBSET E.left
    OBVIOUS
  <2>4. EnricherMoves(h, EnricherAt("start")) /\ EnricherAgrees(h)'
    BY <1>3, <1>6, <2>2, <2>3
  <2> QED BY <1>4, <2>1, <2>4
<1>9. CASE EnrichRevision(h)
  <2>1. UNCHANGED <<enrichment, enrichedFrom>>
    BY <1>9 DEF EnrichRevision
  <2>2. PICK q \in E.left : enricher' = [enricher EXCEPT ![h] =
            [at |-> IF source.revision = q THEN "running" ELSE "outdated",
             left |-> @.left \ {q}, on |-> q, got |-> source.content]]
    BY <1>9 DEF EnrichRevision
  <2> DEFINE S == [at |-> IF source.revision = q THEN "running" ELSE "outdated",
                   left |-> E.left \ {q}, on |-> q, got |-> source.content]
  <2>3. /\ S \in EnricherState /\ S.on = q /\ S.got = source.content /\ S.left = E.left \ {q}
        /\ S.at = IF source.revision = q THEN "running" ELSE "outdated"
    BY <1>1 DEF EnricherState
  <2>4. enricher' = [enricher EXCEPT ![h] = S]
    BY <2>2
  <2>5. q \in Revision /\ \A p \in E.left : p <= source'.revision
    BY <1>1, <1>2 DEF EnricherAgrees
  <2> HIDE DEF S
  <2>6. EnricherMoves(h, S)
    BY <1>3, <2>3, <2>4
  <2>7. EnricherAgrees(h)'
    BY <1>2, <2>3, <2>5, <2>6 DEF EnricherMoves, EnricherAgrees
  <2> QED BY <1>4, <2>1, <2>6, <2>7
<1>10. CASE ExecutorEnds(h)
  <2>1. UNCHANGED <<enrichment, enrichedFrom>> /\ E.at = "running"
    BY <1>10 DEF ExecutorEnds, Enriching
  <2>2. PICK p \in {"enriched", "erred"} : enricher' = [enricher EXCEPT ![h].at = p]
    BY <1>10 DEF ExecutorEnds
  <2> DEFINE S == [E EXCEPT !.at = p]
  <2>3. /\ S \in EnricherState /\ S.at = p
        /\ S.on = E.on /\ S.got = E.got /\ S.left = E.left
    BY <1>1 DEF EnricherState
  <2>4. enricher' = [enricher EXCEPT ![h] = S]
    BY <2>2
  <2> HIDE DEF S
  <2>5. EnricherMoves(h, S)
    BY <1>3, <2>3, <2>4
  <2>6. EnricherAgrees(h)'
    BY <1>1, <1>2, <2>1, <2>3, <2>5 DEF EnricherMoves, EnricherAgrees
  <2> QED BY <1>4, <2>1, <2>5, <2>6
<1>11. CASE CompleteEnrichment(h)
  <2>1. E.at \in {"enriched", "outdated"} /\ own \in Revision
    BY <1>1, <1>11 DEF CompleteEnrichment, EnricherAgrees
  <2>2. CASE ~HoldsEnrichment(own, h)
    <3> DEFINE S == [E EXCEPT !.at = "erred"]
    <3>1. S \in EnricherState /\ S.at = "erred" /\ S.on = E.on /\ S.left = E.left
      BY <1>1 DEF EnricherState
    <3>2. enricher' = [enricher EXCEPT ![h] = S] /\ UNCHANGED <<enrichment, enrichedFrom>>
      BY <1>11, <2>2 DEF CompleteEnrichment
    <3> HIDE DEF S
    <3>3. EnricherMoves(h, S)
      BY <1>3, <3>1, <3>2
    <3>4. EnricherAgrees(h)'
      BY <1>1, <1>2, <2>1, <3>1, <3>3 DEF EnricherMoves, EnricherAgrees
    <3> QED BY <1>4, <3>2, <3>3, <3>4
  <2>3. CASE HoldsEnrichment(own, h)
    <3> DEFINE S == [EnricherAt("enrich") EXCEPT !.left = E.left]
               J == [enrichment[own] EXCEPT !.status =
                       IF source.revision = own THEN "completed" ELSE "stale"]
    <3>1. enricher' = [enricher EXCEPT ![h] = S]
      BY <1>11, <2>3 DEF CompleteEnrichment, EnrichesNext
    <3>2. E.left \in SUBSET E.left
      OBVIOUS
    <3>3. EnricherMoves(h, S) /\ EnricherAgrees(h)'
      BY <1>3, <1>6, <3>1, <3>2
    <3>4. /\ J \in EnrichmentRecord
          /\ J.status = IF source.revision = own THEN "completed" ELSE "stale"
      BY <1>1, <2>1 DEF EnrichmentRecord, OpenJob, LeasedJob, EndedJob
    <3>5. enrichment' = [enrichment EXCEPT ![own] = J] /\ enrichment[own].status # "absent"
      BY <1>11, <2>3 DEF CompleteEnrichment, HoldsEnrichment, LeasedJob
    <3> HIDE DEF S, J
    <3>6. CASE source.revision # own
      <4>1. UNCHANGED enrichedFrom
        BY <1>11, <2>3, <3>6 DEF CompleteEnrichment
      <4> QED BY <1>5, <2>1, <3>3, <3>4, <3>5, <3>6, <4>1
    <3>7. CASE source.revision = own
      <4>1. enrichedFrom' = [enrichedFrom EXCEPT ![own] = E.got]
        BY <1>11, <2>3, <3>7 DEF CompleteEnrichment
      <4>2. E.got = source.content
        BY <1>1, <2>1, <3>7 DEF EnricherAgrees
      <4>3. EnrichTypes'
        BY <1>1, <1>2, <2>1, <3>3, <3>4, <3>5, <4>1, <4>2 DEF EnrichTypes, EnricherMoves
      <4>4. ASSUME NEW q \in Revision PROVE EnrichmentAgrees(q)'
        <5>1. /\ enrichment'[q] = IF q = own THEN J ELSE enrichment[q]
              /\ enrichedFrom'[q] = IF q = own THEN source.content ELSE enrichedFrom[q]
          BY <1>1, <2>1, <3>5, <4>1, <4>2 DEF EnrichTypes
        <5> QED BY <1>1, <1>2, <3>5, <5>1 DEF EnrichmentAgrees
      <4> QED BY <1>2, <3>3, <4>3, <4>4, EnrichStep DEF EnricherMoves
    <3> QED BY <3>6, <3>7
  <2> QED BY <2>2, <2>3
<1>12. CASE RetryEnrichment(h)
  <2>1. E.at = "erred" /\ own \in Revision /\ UNCHANGED enrichedFrom
    BY <1>1, <1>12 DEF RetryEnrichment, Enriching, EnricherAgrees
  <2>2. CASE ~HoldsEnrichment(own, h)
    <3>1. enricher' = [enricher EXCEPT ![h] = EnricherAt("start")] /\ UNCHANGED enrichment
      BY <1>12, <2>2 DEF RetryEnrichment
    <3>2. {} \in SUBSET E.left
      OBVIOUS
    <3>3. EnricherMoves(h, EnricherAt("start")) /\ EnricherAgrees(h)'
      BY <1>3, <1>6, <3>1, <3>2
    <3> QED BY <1>4, <2>1, <3>1, <3>3
  <2>3. CASE HoldsEnrichment(own, h)
    <3> DEFINE S == [EnricherAt("enrich") EXCEPT !.left = E.left]
               J == [enrichment[own] EXCEPT !.holder = None, !.status =
                       IF enrichment[own].tries >= JobAttempts THEN "failed" ELSE "pending"]
    <3>1. enricher' = [enricher EXCEPT ![h] = S]
      BY <1>12, <2>3 DEF RetryEnrichment, EnrichesNext
    <3>2. E.left \in SUBSET E.left
      OBVIOUS
    <3>3. EnricherMoves(h, S) /\ EnricherAgrees(h)'
      BY <1>3, <1>6, <3>1, <3>2
    <3>4. J \in EnrichmentRecord /\ J.status \in {"failed", "pending"}
      BY <1>1, <2>1 DEF EnrichmentRecord, OpenJob, EndedJob
    <3>5. enrichment' = [enrichment EXCEPT ![own] = J] /\ enrichment[own].status # "absent"
      BY <1>12, <2>3 DEF RetryEnrichment, HoldsEnrichment, LeasedJob
    <3> HIDE DEF S, J
    <3> QED BY <1>5, <2>1, <3>3, <3>4, <3>5
  <2> QED BY <2>2, <2>3
<1> QED BY <1>7, <1>8, <1>9, <1>10, <1>11, <1>12 DEF EnrichmentPass

LEMMA EnrichInvHolds == KnowledgeSpec => []EnrichInv
<1>1. KnowledgeInit => EnrichInv
  <2>1. SUFFICES ASSUME KnowledgeInit PROVE EnrichInv
    OBVIOUS
  <2>2. NoEnrichment \in EnrichmentRecord /\ NoEnrichment.status = "absent"
    BY KnowledgeBounds DEF NoEnrichment, EnrichmentRecord
  <2>3. /\ EnricherAt("start") \in EnricherState
        /\ EnricherAt("start").at = "start" /\ EnricherAt("start").left = {}
    BY DEF EnricherAt, EnricherState, Content
  <2>4. 0 \in 0 .. MaxKnowledgeCrashes /\ 0 \in Content
    BY KnowledgeBounds DEF Content
  <2>5. EnrichTypes
    <3>1. /\ enrichment = [r \in Revision |-> NoEnrichment]
          /\ enrichedFrom = [r \in Revision |-> 0]
          /\ enricher = [h \in Host |-> EnricherAt("start")]
          /\ knowledgeCrashes = 0
      BY <2>1 DEF KnowledgeInit
    <3> QED BY <2>2, <2>3, <2>4, <3>1 DEF EnrichTypes
  <2>6. \A r \in Revision : EnrichmentAgrees(r)
    BY <2>1, <2>2 DEF KnowledgeInit, EnrichmentAgrees
  <2>7. \A h \in Host : EnricherAgrees(h)
    BY <2>1, <2>3 DEF KnowledgeInit, EnricherAgrees
  <2> QED BY <2>5, <2>6, <2>7 DEF EnrichInv
<1>2. EnrichInv /\ RefreshInv /\ RefreshInv' /\ [KnowledgeNext]_knowledgeVars => EnrichInv'
  <2>1. SUFFICES ASSUME EnrichInv, RefreshInv, RefreshInv', [KnowledgeNext]_knowledgeVars
                 PROVE  EnrichInv'
    OBVIOUS
  <2>2. source \in [revision : {0} \cup Revision, content : Content, enabled : BOOLEAN]
    BY <2>1 DEF RefreshInv, RefreshTypes
  <2>3. ASSUME UNCHANGED <<source, enrichment, enrichedFrom, enricher, knowledgeCrashes>>
        PROVE  EnrichInv'
    <3>1. EnrichTypes'
      BY <2>1, <2>3 DEF EnrichInv, EnrichTypes
    <3>2. \A r \in Revision : EnrichmentAgrees(r)'
      BY <2>1, <2>3 DEF EnrichInv, EnrichmentAgrees
    <3> QED BY <2>1, <2>3, <3>1, <3>2, EnrichStep
  <2>4. CASE UpsertSource \/ \E on \in BOOLEAN : SetEnabled(on)
    <3>1. /\ source'.revision = source.revision + 1
          /\ EnqueueEnrichment(source.revision + 1) \/ UNCHANGED enrichment
          /\ UNCHANGED <<enrichedFrom, enricher, knowledgeCrashes>>
      BY <2>2, <2>4 DEF UpsertSource, SetEnabled
    <3> QED BY <2>1, <3>1, RevisionStep
  <2>5. CASE PageChanges \/ \E j \in RefreshJob : RefreshLapses(j)
    BY <2>3, <2>5 DEF PageChanges, RefreshLapses
  <2>6. ASSUME NEW h \in Refresher, RefreshPass(h) PROVE EnrichInv'
    <3>1. CASE ApplyRemoteRefresh(h)
      <4>1. UNCHANGED <<enrichedFrom, enricher, knowledgeCrashes>>
        BY <3>1 DEF ApplyRemoteRefresh
      <4>2. \/ UNCHANGED <<source, enrichment>>
            \/ /\ source' = [source EXCEPT !.revision = @ + 1, !.content = refresher[h].got]
               /\ EnqueueEnrichment(source.revision + 1)
        BY <3>1 DEF ApplyRemoteRefresh
      <4>3. \/ UNCHANGED <<source, enrichment>>
            \/ /\ source'.revision = source.revision + 1
               /\ EnqueueEnrichment(source.revision + 1)
        BY <2>2, <4>2
      <4> QED BY <2>1, <2>3, <4>1, <4>3, RevisionStep
    <3>2. CASE ~ApplyRemoteRefresh(h)
      <4>1. CASE ListSources(h) \/ EnqueueDue(h) \/ RefreshPassEnds(h)
        BY <2>3, <4>1 DEF ListSources, EnqueueDue, RefreshPassEnds
      <4>2. CASE ClaimRefreshes(h)
        BY <2>3, <4>2 DEF ClaimRefreshes
      <4>3. CASE CheckSource(h) \/ FetchPage(h) \/ FetchFails(h)
        BY <2>3, <4>3 DEF CheckSource, FetchPage, FetchFails
      <4>4. CASE CompleteRefresh(h) \/ StaleOrRetry(h)
        BY <2>3, <4>4 DEF CompleteRefresh, StaleOrRetry
      <4> QED BY <2>6, <3>2, <4>1, <4>2, <4>3, <4>4 DEF RefreshPass
    <3> QED BY <3>1, <3>2
  <2>7. ASSUME NEW r \in Revision, EnrichmentLapses(r) PROVE EnrichInv'
    <3> DEFINE J == [enrichment[r] EXCEPT !.status = "lapsed"]
    <3>1. enrichment \in [Revision -> EnrichmentRecord]
      BY <2>1 DEF EnrichInv, EnrichTypes
    <3>2. J \in EnrichmentRecord /\ J.status = "lapsed"
      BY <3>1 DEF EnrichmentRecord, OpenJob, LeasedJob
    <3>3. /\ enrichment' = [enrichment EXCEPT ![r] = J] /\ enrichment[r].status = "claimed"
          /\ UNCHANGED <<source, enrichedFrom, enricher, knowledgeCrashes>>
      BY <2>7 DEF EnrichmentLapses
    <3> HIDE DEF J
    <3>4. \A q \in Revision : enrichment'[q] = IF q = r THEN J ELSE enrichment[q]
      BY <3>1, <3>3
    <3>5. EnrichTypes'
      BY <2>1, <3>2, <3>3 DEF EnrichInv, EnrichTypes
    <3>6. \A q \in Revision : EnrichmentAgrees(q)'
      BY <2>1, <3>2, <3>3, <3>4 DEF EnrichInv, EnrichmentAgrees
    <3> QED BY <2>1, <3>3, <3>5, <3>6, EnrichStep
  <2>8. ASSUME NEW h \in Enricher, EnrichmentPass(h) PROVE EnrichInv'
    BY <2>1, <2>8, KnowledgeBounds, EnrichmentStep
  <2>9. ASSUME NEW h \in Host, KnowledgeHostCrashes(h) PROVE EnrichInv'
    <3> DEFINE S == EnricherAt("start")
    <3>1. S \in EnricherState /\ S.at = "start" /\ S.left = {}
      BY DEF EnricherAt, EnricherState, Content
    <3>2. /\ enricher' = [enricher EXCEPT ![h] = S]
          /\ knowledgeCrashes' \in 0 .. MaxKnowledgeCrashes
          /\ UNCHANGED <<source, enrichment, enrichedFrom>>
      <4>1. knowledgeCrashes \in 0 .. MaxKnowledgeCrashes /\ MaxKnowledgeCrashes \in Nat
        BY <2>1, KnowledgeBounds DEF EnrichInv, EnrichTypes
      <4> QED BY <2>9, <4>1 DEF KnowledgeHostCrashes
    <3> HIDE DEF S
    <3>3. enricher' \in [Host -> EnricherState] /\ enricher'[h] = S
      BY <2>1, <3>1, <3>2 DEF EnrichInv, EnrichTypes
    <3>4. \A g \in Host : g = h \/ enricher'[g] = enricher[g]
      BY <2>1, <3>2 DEF EnrichInv, EnrichTypes
    <3>5. EnricherAgrees(h)'
      BY <3>1, <3>3 DEF EnricherAgrees
    <3>6. EnrichTypes' /\ \A q \in Revision : EnrichmentAgrees(q)'
      BY <2>1, <3>2, <3>3 DEF EnrichInv, EnrichTypes, EnrichmentAgrees
    <3> QED BY <2>1, <3>2, <3>4, <3>5, <3>6, EnrichStep
  <2>10. CASE UNCHANGED knowledgeVars
    BY <2>3, <2>10 DEF knowledgeVars
  <2> QED BY <2>1, <2>4, <2>5, <2>6, <2>7, <2>8, <2>9, <2>10 DEF KnowledgeNext
<1> QED BY <1>1, <1>2, RefreshInvHolds, PTL DEF KnowledgeSpec

\* What the search finds for the current revision was made from its text, whoever
\* edited, refreshed or enriched meanwhile, with whatever claims were lost.
THEOREM PassagesAreOfTheText == KnowledgeSpec => []PassagesFitText
<1>1. EnrichInv => PassagesFitText
  BY DEF EnrichInv, EnrichmentAgrees, PassagesFitText
<1> QED BY <1>1, EnrichInvHolds, PTL

\* The jobs and the source keep their declared shape, within the stated bounds.
THEOREM KnowledgeTypeCorrect == KnowledgeSpec => []KnowledgeTypeOK
<1>1. RefreshInv /\ EnrichInv => KnowledgeTypeOK
  BY DEF RefreshInv, RefreshTypes, RefreshRecord, EnrichInv, EnrichTypes, EnrichmentRecord,
     KnowledgeTypeOK
<1> QED BY <1>1, RefreshInvHolds, EnrichInvHolds, PTL

-----------------------------------------------------------------------------
(* Messages of Lark, and history *)

(***************************************************************************)
(* The inductive invariant of the scans.  A scan that nobody stopped stands    *)
(* for all that was posted in its window before its end: such a message is     *)
(* still to be ingested by it or recorded.  The scan whose answer the bridge   *)
(* waits for began at the checkpoint, and the clock has passed every end.      *)
(***************************************************************************)

ScanState == [at : {"idle", "asked", "ingesting"}, since : 0 .. Today, until : 0 .. Today,
              todo : SUBSET Post, busy : Post \cup {Nobody}, incomplete : BOOLEAN]

ScanAgrees(s) ==
  LET S == scan[s] IN
  /\ S.until <= today
  /\ S.at = "ingesting" /\ ~S.incomplete =>
       \A m \in Post : posted[m] > 0 /\ S.since <= posted[m] /\ posted[m] < S.until =>
                         m \in S.todo \/ inbound[m] # "none"
  /\ awaited = s /\ checkpoint > 0 => S.since = checkpoint

LarkInv ==
  /\ LarkTypeOK
  /\ \A m \in Post : posted[m] <= today
  /\ checkpoint <= today
  /\ \A s \in Scan : ScanAgrees(s)
  /\ NothingUnseenBehindCheckpoint

Recorded == \A m \in Post : inbound[m] # "none" => inbound'[m] # "none"

\* The steps that neither post nor answer: nothing recorded is forgotten, and a scan
\* is as it was or has been looked after.
LEMMA QuietLarkStep ==
  ASSUME LarkInv, LarkTypeOK', UNCHANGED <<today, posted, checkpoint, origin>>, Recorded,
         \A s \in Scan : \/ scan'[s] = scan[s] /\ (awaited' = s => awaited = s)
                         \/ ScanAgrees(s)'
  PROVE  LarkInv'
<1>1. ASSUME NEW s \in Scan PROVE ScanAgrees(s)'
  <2>1. ScanAgrees(s)
    BY DEF LarkInv
  <2> QED BY <2>1 DEF ScanAgrees, Recorded
<1>2. NothingUnseenBehindCheckpoint'
  BY DEF LarkInv, NothingUnseenBehindCheckpoint, Behind, Recorded
<1> QED BY <1>1, <1>2 DEF LarkInv

LEMMA RecordingKeeps ==
  ASSUME LarkTypeOK, NEW m \in Post, RecordInboundEvent(m)
  PROVE  /\ Recorded /\ inbound'[m] # "none"
         /\ inbound' \in [Post -> InboundEvent] /\ inHand' \subseteq Post
BY DEF RecordInboundEvent, LarkTypeOK, Recorded, InboundEvent

\* Whoever waited for an ingest goes on; a scan it failed for is not complete.
LEMMA ReleasingKeeps ==
  ASSUME LarkInv, NEW m \in Post, NEW failed \in BOOLEAN, Released(m, failed), Recorded,
         UNCHANGED <<today, posted, awaited, checkpoint>>
  PROVE  /\ forwarded' \in Post \cup {Nobody} /\ scan' \in [Scan -> ScanState]
         /\ \A s \in Scan : ScanAgrees(s)'
<1>1. forwarded' \in Post \cup {Nobody}
  BY DEF Released, LarkInv, LarkTypeOK
<1>2. ASSUME NEW s \in Scan
      PROVE  scan'[s] \in ScanState /\ ScanAgrees(s)'
  <2>1. scan[s] \in ScanState /\ ScanAgrees(s)
    BY DEF LarkInv, LarkTypeOK, ScanState
  <2>2. scan'[s] = IF scan[s].busy = m
                     THEN [scan[s] EXCEPT !.busy = Nobody, !.incomplete = @ \/ failed]
                     ELSE scan[s]
    BY DEF Released
  <2>3. CASE scan[s].busy # m
    BY <2>1, <2>2, <2>3 DEF ScanAgrees, Recorded
  <2>4. CASE scan[s].busy = m
    <3>0. scan'[s] = [scan[s] EXCEPT !.busy = Nobody, !.incomplete = scan[s].incomplete \/ failed]
      BY <2>2, <2>4
    <3>1. /\ scan'[s] \in ScanState
          /\ scan'[s].at = scan[s].at /\ scan'[s].since = scan[s].since
          /\ scan'[s].until = scan[s].until /\ scan'[s].todo = scan[s].todo
          /\ ~scan'[s].incomplete => ~scan[s].incomplete
      <4>1. scan[s].incomplete \/ failed \in BOOLEAN
        BY <2>1 DEF ScanState
      <4> QED BY <2>1, <3>0, <4>1 DEF ScanState
    <3> QED BY <2>1, <3>1 DEF ScanAgrees, Recorded
  <2> QED BY <2>3, <2>4
<1>3. scan' \in [Scan -> ScanState]
  <2> DEFINE f(s) == IF scan[s].busy = m
                       THEN [scan[s] EXCEPT !.busy = Nobody, !.incomplete = @ \/ failed]
                       ELSE scan[s]
  <2>1. scan' = [s \in Scan |-> f(s)]
    BY DEF Released
  <2> HIDE DEF f
  <2> QED BY <1>2, <2>1
<1> QED BY <1>1, <1>2, <1>3

ScanMoves(s, S) ==
  /\ scan' \in [Scan -> ScanState]
  /\ scan'[s] = S
  /\ \A t \in Scan \ {s} : scan'[t] = scan[t]

LEMMA ScanMove ==
  ASSUME LarkTypeOK, NEW s \in Scan, NEW S \in ScanState, scan' = [scan EXCEPT ![s] = S]
  PROVE  ScanMoves(s, S)
BY DEF LarkTypeOK, ScanMoves, ScanState

-----------------------------------------------------------------------------
(* The steps *)

LEMMA PostingStep ==
  ASSUME LarkInv, DayPasses \/ \E m \in Post : MessageIsPosted(m)
  PROVE  LarkInv'
<1>1. UNCHANGED <<serverVars, bridgeVars, checkpoint, origin, linkTroubles, ingestTroubles>>
  BY DEF DayPasses, MessageIsPosted
<1>2. /\ today \in Nat /\ today' \in 1 .. Today /\ today <= today'
      /\ posted' \in [Post -> 0 .. Today]
      /\ \A m \in Post : \/ posted'[m] = posted[m]
                         \/ posted'[m] = today
  BY LarkBounds DEF DayPasses, MessageIsPosted, LarkInv, LarkTypeOK
<1>3. LarkTypeOK'
  BY <1>1, <1>2 DEF LarkInv, LarkTypeOK, serverVars, bridgeVars
<1>4. checkpoint' <= today' /\ \A m \in Post : posted'[m] <= today'
  BY <1>1, <1>2 DEF LarkInv, LarkTypeOK
<1>5. ASSUME NEW s \in Scan PROVE ScanAgrees(s)'
  <2>1. ScanAgrees(s) /\ scan[s] \in ScanState /\ scan' = scan /\ awaited' = awaited /\ inbound' = inbound
    BY <1>1 DEF LarkInv, LarkTypeOK, ScanState, serverVars, bridgeVars
  <2>2. scan[s].until \in Nat /\ scan[s].until <= today
    BY <2>1 DEF ScanAgrees, ScanState
  <2>3. ASSUME NEW m \in Post, posted'[m] < scan[s].until PROVE posted'[m] = posted[m]
    BY <1>2, <2>2, <2>3
  <2>4. scan[s].until <= today'
    BY <1>2, <2>2
  <2> QED BY <1>1, <2>1, <2>3, <2>4 DEF ScanAgrees
<1>6. NothingUnseenBehindCheckpoint'
  <2>1. ASSUME NEW m \in Post, posted'[m] < checkpoint PROVE posted'[m] = posted[m]
    BY <1>2, <2>1 DEF LarkInv, LarkTypeOK
  <2> QED BY <1>1, <2>1 DEF LarkInv, NothingUnseenBehindCheckpoint, Behind, serverVars
<1> QED BY <1>3, <1>4, <1>5, <1>6 DEF LarkInv

\* What Lark, the bridge and the ingests do leaves the scans to themselves.
LEMMA LinkStep ==
  ASSUME LarkInv,
         \/ HandleEvent \/ BridgeStops \/ BridgeStarts \/ ScanTimesOut \/ ServerCrashes
         \/ \E m \in Post : MessageIsPushed(m) \/ SettleEvent(m) \/ IngestFails(m)
  PROVE  LarkInv'
<1>1. LarkTypeOK
  BY DEF LarkInv
<1>2. CASE HandleEvent
  <2>1. PICK m \in Post : /\ line' = line \ {m} /\ RecordInboundEvent(m)
                          /\ forwarded' \in {m, Nobody}
    BY <1>1, <1>2 DEF HandleEvent, LarkTypeOK
  <2>2. UNCHANGED <<today, posted, bridge, scan, awaited, checkpoint, origin,
                    linkTroubles, ingestTroubles>>
    BY <1>2 DEF HandleEvent
  <2>3. /\ Recorded /\ inbound' \in [Post -> InboundEvent] /\ inHand' \subseteq Post
    BY <1>1, <2>1, RecordingKeeps
  <2>4. LarkTypeOK'
    BY <1>1, <2>1, <2>2, <2>3 DEF LarkTypeOK
  <2> QED BY <2>2, <2>3, <2>4, QuietLarkStep
<1>3. CASE BridgeStops \/ ScanTimesOut
  <2>1. LarkTypeOK'
    BY <1>1, <1>3, LarkBounds DEF BridgeStops, ScanTimesOut, LarkTypeOK, serverVars
  <2>2. /\ UNCHANGED <<today, posted, checkpoint, origin, scan, inbound>> /\ awaited' = Nobody
    BY <1>3 DEF BridgeStops, ScanTimesOut, serverVars
  <2> QED BY <2>1, <2>2, NobodyIsNoPost, QuietLarkStep DEF Recorded
<1>4. CASE BridgeStarts \/ \E m \in Post : MessageIsPushed(m)
  <2>1. LarkTypeOK'
    BY <1>1, <1>4 DEF BridgeStarts, MessageIsPushed, LarkTypeOK, serverVars
  <2>2. UNCHANGED <<today, posted, checkpoint, origin, scan, inbound, awaited>>
    BY <1>4 DEF BridgeStarts, MessageIsPushed, serverVars
  <2> QED BY <2>1, <2>2, QuietLarkStep DEF Recorded
<1>5. CASE ServerCrashes
  <2>1. NoScan \in ScanState
    BY LarkBounds DEF NoScan, ScanState
  <2>2. LarkTypeOK'
    BY <1>1, <1>5, <2>1, LarkBounds DEF ServerCrashes, LarkTypeOK, ScanState
  <2>3. /\ UNCHANGED <<today, posted, checkpoint, origin, inbound>> /\ awaited' = Nobody
        /\ \A s \in Scan : scan'[s] = NoScan
    BY <1>5 DEF ServerCrashes
  <2>4. today' \in Nat
    BY <2>2 DEF LarkTypeOK
  <2>5. \A s \in Scan : ScanAgrees(s)'
    BY <2>3, <2>4, NobodyIsNoPost DEF ScanAgrees, NoScan
  <2> QED BY <2>2, <2>3, <2>5, QuietLarkStep DEF Recorded
<1>6. ASSUME NEW m \in Post, SettleEvent(m) \/ IngestFails(m) PROVE LarkInv'
  <2>1. /\ UNCHANGED <<today, posted, bridge, line, awaited, checkpoint, origin, linkTroubles>>
        /\ inHand' = inHand \ {m} /\ \E failed \in BOOLEAN : Released(m, failed)
    BY <1>6 DEF SettleEvent, IngestFails
  <2>2. Recorded /\ inbound' \in [Post -> InboundEvent]
    BY <1>1, <1>6 DEF SettleEvent, IngestFails, Recorded, LarkTypeOK, InboundEvent
  <2>3. ingestTroubles' \in 0 .. MaxIngestTroubles
    <3>1. MaxIngestTroubles \in Nat /\ ingestTroubles \in 0 .. MaxIngestTroubles
      BY <1>1, LarkBounds DEF LarkTypeOK
    <3>2. \/ ingestTroubles' = ingestTroubles
          \/ ingestTroubles' = ingestTroubles + 1 /\ ingestTroubles < MaxIngestTroubles
      BY <1>6 DEF SettleEvent, IngestFails
    <3> QED BY <3>1, <3>2
  <2>4. /\ forwarded' \in Post \cup {Nobody} /\ scan' \in [Scan -> ScanState]
        /\ \A s \in Scan : ScanAgrees(s)'
    BY <2>1, <2>2, ReleasingKeeps
  <2>5. LarkTypeOK'
    BY <1>1, <2>1, <2>2, <2>3, <2>4 DEF LarkTypeOK, ScanState
  <2> QED BY <2>1, <2>2, <2>4, <2>5, QuietLarkStep
<1> QED BY <1>2, <1>3, <1>4, <1>5, <1>6

LEMMA AskStep ==
  ASSUME LarkInv, NEW s \in Scan, RunStartupBackfill(s)
  PROVE  LarkInv'
<1> DEFINE asked(a, b) == [NoScan EXCEPT !.at = "asked", !.since = a, !.until = b]
           S == asked(ScanSince, Lesser(today, ScanSince + ScanWindow))
<1>1. /\ UNCHANGED <<today, posted, bridge, line, forwarded, inbound, inHand,
                     checkpoint, origin, linkTroubles, ingestTroubles>>
      /\ awaited' = s /\ scan' = [scan EXCEPT ![s] = S] /\ awaited = Nobody
  BY DEF RunStartupBackfill
<1>2. /\ today \in 1 .. Today /\ checkpoint \in 0 .. today /\ Today \in Nat
      /\ Lookback \in Nat /\ ScanWindow \in Nat
  <2>1. Today \in Nat /\ Lookback \in Nat /\ ScanWindow \in Nat
    BY LarkBounds, ScanWindowIsPositive
  <2>2. today \in 1 .. Today /\ checkpoint \in 0 .. Today /\ checkpoint <= today
    BY DEF LarkInv, LarkTypeOK
  <2> QED BY <2>1, <2>2
<1>3. /\ ScanSince \in 0 .. today
      /\ (checkpoint > 0 => ScanSince = checkpoint)
  BY <1>2 DEF ScanSince, Greater
<1>4. Lesser(today, ScanSince + ScanWindow) \in 0 .. today
  BY <1>2, <1>3 DEF Lesser
<1>5. /\ S \in ScanState /\ S.at = "asked" /\ S.since = ScanSince
      /\ S.until = Lesser(today, ScanSince + ScanWindow)
  <2>1. ScanSince \in 0 .. Today /\ Lesser(today, ScanSince + ScanWindow) \in 0 .. Today
    BY <1>2, <1>3, <1>4
  <2>2. NoScan \in ScanState
    BY LarkBounds DEF NoScan, ScanState
  <2>3. ASSUME NEW a \in 0 .. Today, NEW b \in 0 .. Today
        PROVE  /\ asked(a, b) \in ScanState /\ asked(a, b).at = "asked"
               /\ asked(a, b).since = a /\ asked(a, b).until = b
    BY <2>2 DEF ScanState
  <2> HIDE DEF asked
  <2> QED BY <2>1, <2>3
<1> HIDE DEF S, asked
<1>6. S.until <= today /\ (checkpoint > 0 => S.since = checkpoint)
  BY <1>2, <1>3, <1>4, <1>5
<1>7. ScanMoves(s, S)
  BY <1>1, <1>5, ScanMove DEF LarkInv
<1>8. LarkTypeOK'
  BY <1>1, <1>7 DEF LarkInv, LarkTypeOK, ScanMoves, ScanState
<1>9. ScanAgrees(s)'
  BY <1>1, <1>5, <1>6, <1>7 DEF ScanMoves, ScanAgrees
<1>10. \A t \in Scan : \/ scan'[t] = scan[t] /\ (awaited' = t => awaited = t)
                       \/ ScanAgrees(t)'
  BY <1>1, <1>7, <1>9 DEF ScanMoves
<1> QED BY <1>1, <1>8, <1>10, QuietLarkStep DEF Recorded

\* A listing that is complete holds all that was posted before the end of its window.
LEMMA CollectStep ==
  ASSUME LarkInv, NEW s \in Scan, Collect(s) \/ CollectFails(s)
  PROVE  LarkInv'
<1> DEFINE all == InWindow(scan[s].since, scan[s].until)
<1>1. /\ UNCHANGED <<today, posted, bridgeVars, inbound, inHand, checkpoint, origin,
                     ingestTroubles>>
      /\ linkTroubles' \in 0 .. MaxLinkTroubles
  <2>1. MaxLinkTroubles \in Nat /\ linkTroubles \in 0 .. MaxLinkTroubles
    BY LarkBounds DEF LarkInv, LarkTypeOK
  <2>2. \/ linkTroubles' = linkTroubles
        \/ linkTroubles' = linkTroubles + 1 /\ linkTroubles < MaxLinkTroubles
    BY DEF Collect, CollectFails
  <2>3. linkTroubles' \in 0 .. MaxLinkTroubles
    BY <2>1, <2>2
  <2> QED BY <2>3 DEF Collect, CollectFails
<1>2. PICK found \in SUBSET all, incomplete \in BOOLEAN :
        Collected(s, found, incomplete) /\ (~incomplete => found = all)
  BY DEF Collect, CollectFails
<1> DEFINE S == [scan[s] EXCEPT !.at = "ingesting", !.todo = found, !.incomplete = incomplete]
<1>3. scan[s] \in ScanState /\ ScanAgrees(s)
  BY DEF LarkInv, LarkTypeOK, ScanState
<1>4. \A m \in Post :
        posted[m] > 0 /\ scan[s].since <= posted[m] /\ posted[m] < scan[s].until
          => m \in all
  <2>1. TAKE m \in Post
  <2>2. posted[m] \in Nat /\ scan[s].until \in Nat
    BY <1>3 DEF ScanState, LarkInv, LarkTypeOK
  <2>3. posted[m] < scan[s].until => posted[m] <= scan[s].until
    BY <2>2
  <2> QED BY <2>3 DEF InWindow
<1>5. all \subseteq Post
  BY DEF InWindow
<1> HIDE DEF all
<1>6. /\ S \in ScanState /\ S.since = scan[s].since /\ S.until = scan[s].until
      /\ S.todo = found /\ S.incomplete = incomplete
  BY <1>3, <1>5 DEF ScanState
<1>7. scan' = [scan EXCEPT ![s] = S]
  BY <1>2 DEF Collected
<1> HIDE DEF S
<1>8. ScanMoves(s, S)
  BY <1>6, <1>7, ScanMove DEF LarkInv
<1>9. LarkTypeOK'
  BY <1>1, <1>8 DEF LarkInv, LarkTypeOK, ScanMoves, ScanState, bridgeVars
<1>10. ScanAgrees(s)'
  BY <1>1, <1>2, <1>3, <1>4, <1>6, <1>8 DEF ScanMoves, ScanAgrees, bridgeVars
<1> QED BY <1>1, <1>8, <1>9, <1>10, QuietLarkStep DEF ScanMoves, Recorded, bridgeVars

LEMMA IngestStep ==
  ASSUME LarkInv, NEW s \in Scan, IngestNext(s)
  PROVE  LarkInv'
<1>1. UNCHANGED <<today, posted, bridgeVars, checkpoint, origin, linkTroubles, ingestTroubles>>
  BY DEF IngestNext
<1> DEFINE without(m) == [scan[s] EXCEPT !.todo = @ \ {m},
                                         !.busy = IF inbound[m] = "none" THEN m ELSE Nobody]
<1>2. PICK m \in scan[s].todo : RecordInboundEvent(m) /\ scan' = [scan EXCEPT ![s] = without(m)]
  BY DEF IngestNext
<1> DEFINE S == without(m)
<1>3. scan[s] \in ScanState /\ ScanAgrees(s)
  BY DEF LarkInv, LarkTypeOK, ScanState
<1>4. m \in Post
  BY <1>3 DEF ScanState
<1>5. /\ S \in ScanState /\ S.at = scan[s].at /\ S.since = scan[s].since
      /\ S.until = scan[s].until /\ S.todo = scan[s].todo \ {m}
      /\ S.incomplete = scan[s].incomplete
  BY <1>3, <1>4 DEF ScanState
<1>6. scan' = [scan EXCEPT ![s] = S]
  BY <1>2
<1> HIDE DEF S
<1>7. ScanMoves(s, S)
  BY <1>5, <1>6, ScanMove DEF LarkInv
<1>8. /\ Recorded /\ inbound'[m] # "none"
      /\ inbound' \in [Post -> InboundEvent] /\ inHand' \subseteq Post
  BY <1>2, <1>4, RecordingKeeps DEF LarkInv
<1>9. LarkTypeOK'
  BY <1>1, <1>7, <1>8 DEF LarkInv, LarkTypeOK, ScanMoves, ScanState, bridgeVars
<1>10. ScanAgrees(s)'
  BY <1>1, <1>3, <1>5, <1>7, <1>8 DEF ScanMoves, ScanAgrees, Recorded, bridgeVars
<1> QED BY <1>1, <1>7, <1>8, <1>9, <1>10, QuietLarkStep DEF ScanMoves, bridgeVars

\* The checkpoint moves over a window of which all is recorded, and which began
\* where the checkpoint was.
LEMMA AnswerStep ==
  ASSUME LarkInv, NEW s \in Scan, AnswerScan(s)
  PROVE  LarkInv'
<1>1. /\ UNCHANGED <<today, posted, bridge, line, forwarded, inbound, inHand,
                     linkTroubles, ingestTroubles>>
      /\ scan[s].at = "ingesting" /\ scan[s].todo = {}
      /\ awaited' = IF awaited = s THEN Nobody ELSE awaited
      /\ scan' = [scan EXCEPT ![s] = NoScan]
  BY DEF AnswerScan
<1>2. /\ NoScan \in ScanState /\ NoScan.at = "idle" /\ NoScan.until = 0
  BY LarkBounds DEF NoScan, ScanState
<1>3. ScanMoves(s, NoScan)
  BY <1>1, <1>2, ScanMove DEF LarkInv
<1>4. scan[s] \in ScanState /\ ScanAgrees(s)
  BY DEF LarkInv, LarkTypeOK, ScanState
<1>5. checkpoint' \in {checkpoint, scan[s].until} /\ origin' \in {origin, scan[s].since}
  BY DEF AnswerScan, WriteBackfillCheckpoint
<1>6. /\ checkpoint' \in 0 .. Today /\ origin' \in 0 .. Today /\ checkpoint' <= today'
      /\ awaited' \in Scan \cup {Nobody}
  BY <1>1, <1>4, <1>5 DEF LarkInv, LarkTypeOK, ScanState, ScanAgrees
<1>7. LarkTypeOK'
  BY <1>1, <1>3, <1>6 DEF LarkInv, LarkTypeOK, ScanMoves, ScanState
<1>8. ASSUME NEW t \in Scan PROVE ScanAgrees(t)'
  <2>1. ScanAgrees(t) /\ today \in Nat
    BY DEF LarkInv, LarkTypeOK
  <2>2. CASE t = s
    <3>1. scan'[t] = NoScan /\ awaited' # t
      BY <1>1, <1>3, <2>2, NobodyIsNoPost DEF ScanMoves
    <3> QED BY <1>1, <1>2, <2>1, <3>1 DEF ScanAgrees
  <2>3. CASE t # s
    <3>1. scan'[t] = scan[t] /\ (awaited' = t => awaited = t /\ awaited # s)
      BY <1>1, <1>3, <2>3, NobodyIsNoPost DEF ScanMoves
    <3>2. awaited' = t => checkpoint' = checkpoint
      BY <3>1 DEF AnswerScan, WriteBackfillCheckpoint
    <3> QED BY <1>1, <2>1, <3>1, <3>2 DEF ScanAgrees
  <2> QED BY <2>2, <2>3
<1>9. NothingUnseenBehindCheckpoint'
  <2>1. CASE UNCHANGED <<checkpoint, origin>>
    BY <1>1, <2>1 DEF LarkInv, NothingUnseenBehindCheckpoint, Behind
  <2>2. CASE awaited = s /\ ~scan[s].incomplete
    <3>1. /\ checkpoint' = scan[s].until
          /\ origin' = IF checkpoint = 0 THEN scan[s].since ELSE origin
      BY <2>2 DEF AnswerScan, WriteBackfillCheckpoint
    <3>2. SUFFICES ASSUME NEW m \in Post, Behind(m)' PROVE inbound[m] # "none"
      BY <1>1 DEF NothingUnseenBehindCheckpoint
    <3>3. /\ posted[m] \in Nat /\ posted[m] > 0 /\ posted[m] < scan[s].until
          /\ origin' <= posted[m]
      BY <1>1, <3>1, <3>2 DEF Behind, LarkInv, LarkTypeOK
    <3>4. CASE scan[s].since <= posted[m]
      BY <1>1, <1>4, <2>2, <3>3, <3>4 DEF ScanAgrees
    <3>5. CASE ~(scan[s].since <= posted[m])
      <4>1. /\ scan[s].since \in Nat /\ checkpoint \in Nat
        BY <1>4 DEF ScanState, LarkInv, LarkTypeOK
      <4>2. checkpoint > 0 /\ scan[s].since = checkpoint /\ origin' = origin
        BY <1>4, <2>2, <3>1, <3>3, <3>5, <4>1 DEF ScanAgrees
      <4>3. Behind(m)
        BY <3>3, <3>5, <4>1, <4>2 DEF Behind
      <4> QED BY <4>3 DEF LarkInv, NothingUnseenBehindCheckpoint
    <3> QED BY <3>4, <3>5
  <2> QED BY <2>1, <2>2 DEF AnswerScan, WriteBackfillCheckpoint
<1>10. \A m \in Post : posted'[m] <= today'
  BY <1>1 DEF LarkInv
<1> QED BY <1>6, <1>7, <1>8, <1>9, <1>10 DEF LarkInv

LEMMA LarkInvHolds == LarkSpec => []LarkInv
<1>1. LarkInit => LarkInv
  <2> SUFFICES ASSUME LarkInit PROVE LarkInv
    OBVIOUS
  <2>1. NoScan \in ScanState /\ NoScan.at = "idle" /\ NoScan.until = 0
    BY LarkBounds DEF NoScan, ScanState
  <2>2. LarkTypeOK
    BY <2>1, LarkBounds DEF LarkInit, LarkTypeOK, ScanState, InboundEvent
  <2>3. \A s \in Scan : ScanAgrees(s)
    BY <2>1, NobodyIsNoPost DEF LarkInit, ScanAgrees
  <2> QED BY <2>2, <2>3 DEF LarkInit, LarkInv, NothingUnseenBehindCheckpoint, Behind
<1>2. LarkInv /\ [LarkNext]_larkVars => LarkInv'
  <2> SUFFICES ASSUME LarkInv, [LarkNext]_larkVars PROVE LarkInv'
    OBVIOUS
  <2>1. CASE UNCHANGED larkVars
    <3>1. LarkTypeOK'
      BY <2>1 DEF larkVars, LarkInv, LarkTypeOK
    <3> QED BY <2>1, <3>1, QuietLarkStep DEF larkVars, Recorded
  <2> QED BY <2>1, PostingStep, LinkStep, AskStep, CollectStep, IngestStep, AnswerStep
             DEF LarkNext, ScanStep
<1> QED BY <1>1, <1>2, PTL DEF LarkSpec

\* However windows are cut, scans aborted, capped or failed, and bridge and server
\* stopped, the checkpoint passes no message the server has not recorded.
THEOREM CheckpointPassesNothing == LarkSpec => []NothingUnseenBehindCheckpoint
<1>1. LarkInv => NothingUnseenBehindCheckpoint
  BY DEF LarkInv
<1> QED BY <1>1, LarkInvHolds, PTL

\* The scans, the events and the clock keep their declared shape.
THEOREM LarkTypeCorrect == LarkSpec => []LarkTypeOK
<1>1. LarkInv => LarkTypeOK
  BY DEF LarkInv
<1> QED BY <1>1, LarkInvHolds, PTL

-----------------------------------------------------------------------------
(***************************************************************************)
(* The history imports.  Every cursor, in the store or in the copy of a       *)
(* server that may long have lost its job, stands for windows that are        *)
(* archived; a server that will complete a job has seen the end of the range. *)
(***************************************************************************)

PassState == [job : Import \cup {None}, at : ImportPhase, copy : Cursor,
              window : 0 .. LastWindow, index : 0 .. WindowsPerPass,
              batches : 0 .. AnalysisBatches, due : BOOLEAN, drained : BOOLEAN]

Archived(w) == 1 .. w \subseteq archive

CursorAgrees(i) ==
  /\ Archived(importCursor[i].windowSince)
  /\ import[i] = "completed" => Archived(LastWindow)

PassAgrees(h) ==
  LET P == importer[h] IN
  /\ P.at # "idle" => P.job \in Import
  /\ Archived(P.copy.windowSince) /\ Archived(P.window)
  /\ P.at \in {"window", "archived", "analysing", "analysed"} => P.index < WindowsPerPass
  /\ P.at = "archived" => P.window > 0
  /\ P.at \in {"analysing", "analysed"} => P.window > 0 \/ Archived(LastWindow)
  /\ P.at = "complete" => Archived(LastWindow)

ImportInv ==
  /\ ImportTypeOK
  /\ \A i \in Import : CursorAgrees(i)
  /\ \A h \in ImportHost : PassAgrees(h)

LEMMA ImportNumbers ==
  /\ LastWindow \in Nat \ {0} /\ WindowsPerPass \in Nat \ {0}
  /\ AnalysisBatches \in Nat \ {0} /\ MaxImportTroubles \in Nat
BY ImportBounds

PassMoves(h, P) ==
  /\ importer' \in [ImportHost -> PassState]
  /\ importer'[h] = P
  /\ \A g \in ImportHost \ {h} : importer'[g] = importer[g]

LEMMA PassMove ==
  ASSUME ImportTypeOK, NEW h \in ImportHost, NEW P \in PassState, MovesOn(h, P)
  PROVE  PassMoves(h, P)
BY DEF ImportTypeOK, PassMoves, PassState, MovesOn

LEMMA NoImportIsAPass ==
  /\ NoImport \in PassState /\ NoImport.at = "idle" /\ NoImport.index = 0
  /\ NoImport.copy.windowSince = 0 /\ NoImport.window = 0
BY ImportNumbers DEF NoImport, PassState, FromTheStart, Cursor, LiveEntry, ImportPhase

\* The archive only grows, so what is not touched keeps agreeing.
LEMMA ImportFrame ==
  ASSUME ImportInv, ImportTypeOK', archive \subseteq archive',
         \A i \in Import : CursorAgrees(i)',
         \A h \in ImportHost : importer'[h] = importer[h] \/ PassAgrees(h)'
  PROVE  ImportInv'
<1>1. ASSUME NEW h \in ImportHost PROVE PassAgrees(h)'
  BY DEF ImportInv, PassAgrees, Archived
<1> QED BY <1>1 DEF ImportInv

LEMMA CursorsKeep ==
  ASSUME ImportInv, archive \subseteq archive', UNCHANGED importCursor,
         \A i \in Import : import'[i] = "completed" => import[i] = "completed"
  PROVE  \A i \in Import : CursorAgrees(i)'
BY DEF ImportInv, CursorAgrees, Archived

LEMMA ProgressKeeps ==
  ASSUME ImportInv, NEW i \in Import, NEW cursor \in Cursor, Archived(cursor.windowSince),
         UpdateProgress(i, cursor), UNCHANGED <<import, archive>>
  PROVE  /\ importCursor' \in [Import -> Cursor]
         /\ \A j \in Import : CursorAgrees(j)'
         /\ importCursor'[i] \in Cursor /\ Archived(importCursor'[i].windowSince)
<1>1. importCursor' \in [Import -> Cursor]
  BY DEF UpdateProgress, ImportInv, ImportTypeOK
<1>2. ASSUME NEW j \in Import PROVE importCursor'[j] \in {importCursor[j], cursor} /\ (j # i => importCursor'[j] = importCursor[j])
  BY DEF UpdateProgress, ImportInv, ImportTypeOK
<1>3. \A j \in Import : CursorAgrees(j)'
  <2> SUFFICES ASSUME NEW j \in Import PROVE CursorAgrees(j)'
    OBVIOUS
  <2>1. CursorAgrees(j)
    BY DEF ImportInv
  <2> QED BY <1>2, <2>1 DEF CursorAgrees, Archived
<1>4. Archived(importCursor'[i].windowSince)
  BY <1>3 DEF CursorAgrees, Archived
<1> QED BY <1>1, <1>3, <1>4

\* A pass that ends, fails or is lost: the server has nothing, and the job may be
\* complete only where the range was archived.
LEMMA PassIsOver ==
  ASSUME ImportInv, NEW h \in ImportHost, MovesOn(h, NoImport),
         archive \subseteq archive', archive' \subseteq 1 .. LiveEntry,
         UNCHANGED <<importCursor, chosen>>,
         import' \in [Import -> ImportStatus], importTries' \in [Import -> Nat],
         importTroubles' \in 0 .. MaxImportTroubles,
         \A i \in Import : import'[i] = "completed" =>
                             import[i] = "completed" \/ Archived(LastWindow)
  PROVE  ImportInv'
<1>1. /\ NoImport \in PassState /\ NoImport.at = "idle"
      /\ NoImport.copy.windowSince = 0 /\ NoImport.window = 0
  BY NoImportIsAPass
<1>2. PassMoves(h, NoImport)
  BY <1>1, PassMove DEF ImportInv
<1>3. ImportTypeOK'
  BY <1>2 DEF ImportInv, ImportTypeOK, PassMoves, PassState
<1>4. \A i \in Import : CursorAgrees(i)'
  BY DEF ImportInv, CursorAgrees, Archived
<1>5. 1 .. 0 = {}
  OBVIOUS
<1>6. PassAgrees(h)'
  BY <1>1, <1>2, <1>5 DEF PassMoves, PassAgrees, Archived
<1> QED BY <1>2, <1>3, <1>4, <1>6, ImportFrame DEF PassMoves

LEMMA TroublesAreCounted ==
  ASSUME ImportTypeOK, TroubleBefore \/ UNCHANGED importTroubles
  PROVE  importTroubles' \in 0 .. MaxImportTroubles
BY ImportNumbers DEF ImportTypeOK, TroubleBefore

LEMMA StoreKeeps ==
  ASSUME ImportTypeOK, NEW i \in Import, ReleasedImport(i) \/ RetriedImport(i)
  PROVE  /\ import' \in [Import -> ImportStatus] /\ importTries' \in [Import -> Nat]
         /\ \A j \in Import : import'[j] = "completed" => import[j] = "completed"
BY DEF ImportTypeOK, ReleasedImport, RetriedImport, ImportStatus

(* The steps *)

LEMMA PeopleStep ==
  ASSUME ImportInv,
         \/ ImportIsAskedFor \/ SomebodyWrites
         \/ \E i \in Import : \/ ClickIsChecked(i) \/ ConfigureLarkHistoryImport(i)
                              \/ CancelLarkHistoryImport(i)
  PROVE  ImportInv'
<1>1. UNCHANGED <<importTries, importer, importTroubles>> /\ archive \subseteq archive'
  BY DEF ImportIsAskedFor, CreateLarkHistoryImport, SomebodyWrites, ClickIsChecked,
         ConfigureLarkHistoryImport, CancelLarkHistoryImport
<1>2. FromTheStart \in Cursor /\ FromTheStart.windowSince = 0 /\ 1 .. 0 = {}
  BY ImportNumbers DEF FromTheStart, Cursor, LiveEntry
<1>3. /\ import' \in [Import -> ImportStatus] /\ chosen' \subseteq Import
      /\ \A i \in Import : import'[i] = "completed" => import[i] = "completed"
  BY DEF ImportIsAskedFor, CreateLarkHistoryImport, SomebodyWrites, ClickIsChecked,
         ConfigureLarkHistoryImport, CancelLarkHistoryImport, ImportInv, ImportTypeOK,
         ImportStatus
<1>4. /\ importCursor' \in [Import -> Cursor]
      /\ \A i \in Import : importCursor'[i] \in {importCursor[i], FromTheStart}
  BY <1>2 DEF ImportIsAskedFor, CreateLarkHistoryImport, SomebodyWrites, ClickIsChecked,
         ConfigureLarkHistoryImport, CancelLarkHistoryImport, ImportInv, ImportTypeOK
<1>5. archive' \subseteq 1 .. LiveEntry
  <2>1. LiveEntry \in 1 .. LiveEntry
    BY ImportNumbers DEF LiveEntry
  <2> QED BY <2>1 DEF ImportIsAskedFor, CreateLarkHistoryImport, SomebodyWrites,
             ClickIsChecked, ConfigureLarkHistoryImport, CancelLarkHistoryImport,
             ImportInv, ImportTypeOK
<1>6. ImportTypeOK'
  BY <1>1, <1>3, <1>4, <1>5 DEF ImportInv, ImportTypeOK
<1>7. ASSUME NEW i \in Import PROVE CursorAgrees(i)'
  <2>1. CursorAgrees(i)
    BY DEF ImportInv
  <2> QED BY <1>1, <1>2, <1>3, <1>4, <2>1 DEF CursorAgrees, Archived
<1> QED BY <1>1, <1>6, <1>7, ImportFrame

LEMMA ImportClaimStep ==
  ASSUME ImportInv, NEW h \in ImportHost, ClaimLarkHistoryImports(h)
  PROVE  ImportInv'
<1>1. PICK i \in Import : import[i] \in {"pending", "claimed"} /\ Claims(h, i)
                          /\ (TroubleBefore \/ UNCHANGED importTroubles)
  BY DEF ClaimLarkHistoryImports
<1> DEFINE P == [NoImport EXCEPT !.job = i, !.at = "window", !.copy = importCursor[i]]
<1>2. importCursor[i] \in Cursor /\ CursorAgrees(i)
  BY DEF ImportInv, ImportTypeOK
<1>3. /\ P \in PassState /\ P.job = i /\ P.at = "window" /\ P.copy = importCursor[i]
      /\ P.window = 0 /\ P.index = 0
  BY <1>2, NoImportIsAPass DEF PassState, ImportPhase
<1>4. MovesOn(h, P) /\ UNCHANGED <<importCursor, chosen, archive>>
  BY <1>1 DEF Claims, MovesOn
<1> HIDE DEF P
<1>5. PassMoves(h, P)
  BY <1>3, <1>4, PassMove DEF ImportInv
<1>6. /\ import' \in [Import -> ImportStatus] /\ importTries' \in [Import -> Nat]
      /\ \A j \in Import : import'[j] = "completed" => import[j] = "completed"
  BY <1>1 DEF Claims, ImportInv, ImportTypeOK, ImportStatus
<1>7. importTroubles' \in 0 .. MaxImportTroubles
  BY <1>1, TroublesAreCounted DEF ImportInv
<1>8. ImportTypeOK'
  BY <1>4, <1>5, <1>6, <1>7 DEF ImportInv, ImportTypeOK, PassMoves, PassState
<1>9. PassAgrees(h)'
  <2>1. 1 .. 0 = {} /\ 0 < WindowsPerPass
    BY ImportNumbers
  <2> QED BY <1>2, <1>3, <1>4, <1>5, <2>1 DEF PassMoves, PassAgrees, CursorAgrees, Archived
<1>10. \A j \in Import : CursorAgrees(j)'
  BY <1>4, <1>6, CursorsKeep
<1> QED BY <1>4, <1>5, <1>8, <1>9, <1>10, ImportFrame DEF PassMoves

\* The steps of a server that touch neither the store nor the archive.
LEMMA ImportPassStep ==
  ASSUME ImportInv, NEW h \in ImportHost,
         AnalysisStops(h) \/ RangeIsDone(h) \/ BreaksOff(h)
  PROVE  ImportInv'
<1>1. /\ UNCHANGED <<import, importCursor, importTries, chosen, archive>>
      /\ importTroubles' \in 0 .. MaxImportTroubles
  BY TroublesAreCounted DEF AnalysisStops, RangeIsDone, BreaksOff, ImportInv
<1>2. importer[h] \in PassState /\ PassAgrees(h)
  BY DEF ImportInv, ImportTypeOK, PassState
<1> DEFINE moved(at, due) == [importer[h] EXCEPT !.at = at, !.due = due]
<1>3. PICK at \in {"analysed", "analysing", "complete", "release"}, due \in BOOLEAN :
        /\ MovesOn(h, moved(at, due))
        /\ at = "complete" => importer[h].copy.windowSince = LastWindow
        /\ at = "analysed" => importer[h].at = "analysing"
        /\ at = "analysing" => /\ importer[h].at = "window"
                               /\ importer[h].copy.windowSince = LastWindow
        /\ importer[h].at # "idle"
  <2>1. CASE AnalysisStops(h)
    <3>1. importer[h].due \in BOOLEAN /\ MovesOn(h, moved("analysed", importer[h].due))
      BY <1>2, <2>1 DEF AnalysisStops, PassState, MovesOn
    <3> QED BY <2>1, <3>1 DEF AnalysisStops, Importing
  <2>2. CASE RangeIsDone(h)
    <3>1. \E at \in {"analysing", "complete"} : MovesOn(h, moved(at, TRUE))
      BY <1>2, <2>2 DEF RangeIsDone, PassState, MovesOn
    <3> QED BY <2>2, <3>1 DEF RangeIsDone, Importing
  <2>3. CASE BreaksOff(h)
    <3>1. /\ importer[h].due \in BOOLEAN
          /\ MovesOn(h, moved(Ends(importer[h].copy), importer[h].due))
      BY <1>2, <2>3 DEF BreaksOff, PassState, MovesOn
    <3>2. /\ Ends(importer[h].copy) \in {"complete", "release"}
          /\ (Ends(importer[h].copy) = "complete" => importer[h].copy.windowSince = LastWindow)
      BY DEF Ends
    <3> QED BY <2>3, <3>1, <3>2 DEF BreaksOff, Importing
  <2> QED BY <2>1, <2>2, <2>3
<1> DEFINE P == moved(at, due)
<1>4. /\ P \in PassState /\ P.at = at /\ P.job = importer[h].job
      /\ P.copy = importer[h].copy /\ P.window = importer[h].window
      /\ P.index = importer[h].index
  BY <1>2, <1>3 DEF PassState, ImportPhase
<1>5. MovesOn(h, P)
  BY <1>3
<1> HIDE DEF P
<1>6. PassMoves(h, P)
  BY <1>4, <1>5, PassMove DEF ImportInv
<1>7. ImportTypeOK'
  BY <1>1, <1>6 DEF ImportInv, ImportTypeOK, PassMoves, PassState
<1>8. PassAgrees(h)'
  BY <1>1, <1>2, <1>3, <1>4, <1>6 DEF PassMoves, PassAgrees, Archived
<1>9. \A j \in Import : CursorAgrees(j)'
  BY <1>1, CursorsKeep
<1> QED BY <1>1, <1>6, <1>7, <1>8, <1>9, ImportFrame DEF PassMoves

LEMMA ArchiveStep ==
  ASSUME ImportInv, NEW h \in ImportHost, ArchiveWindow(h)
  PROVE  ImportInv'
<1> DEFINE w == importer[h].copy.windowSince
<1> DEFINE P == [importer[h] EXCEPT !.at = "archived", !.window = w + 1]
<1>1. /\ importer[h].at = "window" /\ w < LastWindow /\ archive' = archive \cup {w + 1}
      /\ MovesOn(h, P) /\ UNCHANGED <<import, importCursor, importTries, chosen, importTroubles>>
  BY DEF ArchiveWindow, Importing
<1>2. importer[h] \in PassState /\ PassAgrees(h)
  BY DEF ImportInv, ImportTypeOK, PassState
<1>3. w \in 0 .. LastWindow
  BY <1>2 DEF PassState, Cursor
<1>4. w + 1 \in 1 .. LastWindow /\ w + 1 \in 0 .. LastWindow /\ w + 1 > 0
      /\ 1 .. (w + 1) = (1 .. w) \cup {w + 1} /\ w + 1 \in 1 .. LiveEntry
  BY <1>1, <1>3, ImportNumbers DEF LiveEntry
<1>5. /\ P \in PassState /\ P.at = "archived" /\ P.job = importer[h].job
      /\ P.copy = importer[h].copy /\ P.window = w + 1 /\ P.index = importer[h].index
  BY <1>2, <1>4 DEF PassState, ImportPhase
<1> HIDE DEF P
<1>6. PassMoves(h, P)
  BY <1>1, <1>5, PassMove DEF ImportInv
<1>7. archive \subseteq archive' /\ archive' \subseteq 1 .. LiveEntry
  BY <1>1, <1>4 DEF ImportInv, ImportTypeOK
<1>8. ImportTypeOK'
  BY <1>1, <1>6, <1>7 DEF ImportInv, ImportTypeOK, PassMoves, PassState
<1>9. PassAgrees(h)'
  <2>1. /\ 1 .. w \subseteq archive' /\ 1 .. (w + 1) \subseteq archive'
        /\ importer[h].index < WindowsPerPass /\ importer[h].job \in Import
    BY <1>1, <1>2, <1>4 DEF PassAgrees, Archived
  <2> HIDE DEF w
  <2>2. importer'[h].copy.windowSince = w /\ importer'[h].window = w + 1
    BY <1>5, <1>6 DEF PassMoves, w
  <2> QED BY <1>4, <1>5, <1>6, <2>1, <2>2 DEF PassMoves, PassAgrees, Archived
<1>10. \A j \in Import : CursorAgrees(j)'
  BY <1>1, <1>7, CursorsKeep
<1> QED BY <1>6, <1>7, <1>8, <1>9, <1>10, ImportFrame DEF PassMoves

LEMMA MoveCursorStep ==
  ASSUME ImportInv, NEW h \in ImportHost, MoveCursor(h)
  PROVE  ImportInv'
<1>1. importer[h] \in PassState /\ PassAgrees(h) /\ importer[h].at = "archived"
  BY DEF ImportInv, ImportTypeOK, PassState, MoveCursor, Importing
<1> DEFINE i == importer[h].job
<1> DEFINE moved == [importer[h].copy EXCEPT !.windowSince = importer[h].window]
<1>2. /\ i \in Import /\ importer[h].window \in 0 .. LastWindow /\ importer[h].window > 0
      /\ Archived(importer[h].window) /\ importer[h].index < WindowsPerPass
  BY <1>1 DEF PassAgrees, PassState
<1>3. moved \in Cursor /\ moved.windowSince = importer[h].window
  BY <1>1, <1>2 DEF PassState, Cursor
<1>4. /\ UpdateProgress(i, moved)
      /\ UNCHANGED <<import, importTries, chosen, archive, importTroubles>>
  BY DEF MoveCursor, Of
<1> HIDE DEF moved
<1>5. /\ importCursor' \in [Import -> Cursor] /\ importCursor'[i] \in Cursor
      /\ \A j \in Import : CursorAgrees(j)'
      /\ Archived(importCursor'[i].windowSince)
  BY <1>2, <1>3, <1>4, ProgressKeeps
<1>6. PICK due \in BOOLEAN :
        MovesOn(h, [importer[h] EXCEPT !.at = IF due THEN "analysing" ELSE "analysed",
                                       !.due = due, !.copy = importCursor'[i]])
  BY DEF MoveCursor, Of
<1> DEFINE P == [importer[h] EXCEPT !.at = IF due THEN "analysing" ELSE "analysed",
                                    !.due = due, !.copy = importCursor'[i]]
<1>7. /\ P \in PassState /\ P.at \in {"analysing", "analysed"} /\ P.job = i
      /\ P.copy = importCursor'[i] /\ P.window = importer[h].window
      /\ P.index = importer[h].index
  BY <1>1, <1>5 DEF PassState, ImportPhase
<1>8. MovesOn(h, P)
  BY <1>6
<1> HIDE DEF P
<1>9. PassMoves(h, P)
  BY <1>7, <1>8, PassMove DEF ImportInv
<1>10. ImportTypeOK'
  BY <1>4, <1>5, <1>9 DEF ImportInv, ImportTypeOK, PassMoves, PassState
<1>11. PassAgrees(h)'
  BY <1>2, <1>4, <1>5, <1>7, <1>9 DEF PassMoves, PassAgrees, Archived
<1> QED BY <1>4, <1>5, <1>9, <1>10, <1>11, ImportFrame DEF PassMoves

LEMMA ImportAnalyzeStep ==
  ASSUME ImportInv, NEW h \in ImportHost, AnalyzeBatch(h)
  PROVE  ImportInv'
<1>1. /\ importer[h] \in PassState /\ PassAgrees(h) /\ importer[h].at = "analysing"
      /\ importer[h].batches < AnalysisBatches
      /\ UNCHANGED <<import, importTries, chosen, archive, importTroubles>>
  BY DEF ImportInv, ImportTypeOK, PassState, AnalyzeBatch, Importing
<1> DEFINE i == importer[h].job
<1> DEFINE seen(e) == [importer[h].copy EXCEPT !.analysis = e]
<1> DEFINE after(e) == [importer[h] EXCEPT
             !.copy.analysis = e, !.batches = @ + 1,
             !.drained = Pending(h) = {e},
             !.at = IF Pending(h) = {e} THEN "analysed" ELSE "analysing"]
<1>2. PICK e \in Pending(h) : UpdateProgress(i, seen(e)) /\ MovesOn(h, after(e))
  BY DEF AnalyzeBatch, Of
<1>3. e \in 1 .. LiveEntry /\ e \in 0 .. LiveEntry
  <2>1. LiveEntry \in Nat
    BY ImportNumbers DEF LiveEntry
  <2> QED BY <2>1 DEF Pending, ImportInv, ImportTypeOK
<1>4. seen(e) \in Cursor /\ seen(e).windowSince = importer[h].copy.windowSince
  BY <1>1, <1>3 DEF PassState, Cursor
<1>5. i \in Import /\ Archived(importer[h].copy.windowSince)
  BY <1>1 DEF PassAgrees
<1> HIDE DEF seen
<1>6. /\ importCursor' \in [Import -> Cursor] /\ \A j \in Import : CursorAgrees(j)'
  BY <1>1, <1>2, <1>4, <1>5, ProgressKeeps
<1>7. importer[h].batches + 1 \in 0 .. AnalysisBatches
  BY <1>1, ImportNumbers DEF PassState
<1> DEFINE P == after(e)
<1>8. /\ P \in PassState /\ P.at \in {"analysing", "analysed"} /\ P.job = i
      /\ P.copy.windowSince = importer[h].copy.windowSince
      /\ P.window = importer[h].window /\ P.index = importer[h].index
  BY <1>1, <1>3, <1>7 DEF PassState, Cursor, ImportPhase
<1>9. MovesOn(h, P)
  BY <1>2
<1> HIDE DEF P, after
<1>10. PassMoves(h, P)
  BY <1>8, <1>9, PassMove DEF ImportInv
<1>11. ImportTypeOK'
  BY <1>1, <1>6, <1>10 DEF ImportInv, ImportTypeOK, PassMoves, PassState
<1>12. PassAgrees(h)'
  BY <1>1, <1>5, <1>8, <1>10 DEF PassMoves, PassAgrees, Archived
<1> QED BY <1>1, <1>6, <1>10, <1>11, <1>12, ImportFrame DEF PassMoves

\* A cursor that stands for the end of the range has all of it.
LEMMA EndsAgree ==
  ASSUME NEW cursor, Archived(cursor.windowSince)
  PROVE  /\ Ends(cursor) \in {"complete", "release"}
         /\ Ends(cursor) = "complete" => Archived(LastWindow)
BY DEF Ends

LEMMA WindowEndsStep ==
  ASSUME ImportInv, NEW h \in ImportHost, WindowEnds(h)
  PROVE  ImportInv'
<1> DEFINE me == importer[h]
<1> DEFINE i == importer[h].job
<1> DEFINE ended == [me.copy EXCEPT
                       !.windowSince = me.window,
                       !.analysisWindowSince = IF me.due /\ me.drained THEN me.window ELSE @]
<1>1. /\ me \in PassState /\ PassAgrees(h) /\ me.at = "analysed" /\ me.window > 0
      /\ UNCHANGED <<import, importTries, chosen, archive, importTroubles>>
      /\ UpdateProgress(i, ended)
  BY DEF ImportInv, ImportTypeOK, PassState, WindowEnds, Importing, Of
<1>2. i \in Import /\ Archived(me.window) /\ me.index < WindowsPerPass
  BY <1>1 DEF PassAgrees
<1>3. ended \in Cursor /\ ended.windowSince = me.window
  BY <1>1 DEF PassState, Cursor
<1> HIDE DEF ended
<1>4. /\ importCursor' \in [Import -> Cursor] /\ importCursor'[i] \in Cursor
      /\ \A j \in Import : CursorAgrees(j)'
      /\ Archived(importCursor'[i].windowSince)
  BY <1>1, <1>2, <1>3, ProgressKeeps
<1>5. me.index + 1 \in 0 .. WindowsPerPass
  BY <1>1, <1>2, ImportNumbers DEF PassState
<1> DEFINE at == IF me.index + 1 < WindowsPerPass THEN "window" ELSE Ends(importCursor'[i])
<1>6. /\ at \in {"window", "complete", "release"} /\ (at = "complete" => Archived(LastWindow))
      /\ (at = "window" => me.index + 1 < WindowsPerPass)
  BY <1>4, EndsAgree
<1> DEFINE P == [NoImport EXCEPT !.job = i, !.copy = importCursor'[i],
                                 !.index = me.index + 1, !.at = at]
<1>7. MovesOn(h, P)
  BY DEF WindowEnds, Of
<1> HIDE DEF at
<1>8. /\ P \in PassState /\ P.at = at /\ P.job = i /\ P.copy = importCursor'[i]
      /\ P.window = 0 /\ P.index = me.index + 1
  BY <1>2, <1>4, <1>5, <1>6, NoImportIsAPass DEF PassState, ImportPhase
<1> HIDE DEF P
<1>9. PassMoves(h, P)
  BY <1>7, <1>8, PassMove DEF ImportInv
<1>10. ImportTypeOK'
  BY <1>1, <1>4, <1>9 DEF ImportInv, ImportTypeOK, PassMoves, PassState
<1>11. PassAgrees(h)'
  <2>1. 1 .. 0 = {}
    OBVIOUS
  <2> QED BY <1>1, <1>2, <1>4, <1>6, <1>8, <1>9, <2>1 DEF PassMoves, PassAgrees, Archived
<1> QED BY <1>1, <1>4, <1>9, <1>10, <1>11, ImportFrame DEF PassMoves

LEMMA LastAnalysisStep ==
  ASSUME ImportInv, NEW h \in ImportHost, LastAnalysisEnds(h)
  PROVE  ImportInv'
<1> DEFINE me == importer[h]
<1> DEFINE i == importer[h].job
<1> DEFINE ended == [me.copy EXCEPT
                       !.analysisWindowSince = IF me.drained THEN LastWindow ELSE @]
<1>1. /\ me \in PassState /\ PassAgrees(h) /\ me.at = "analysed" /\ me.window = 0
      /\ UNCHANGED <<import, importTries, chosen, archive, importTroubles>>
      /\ UpdateProgress(i, ended)
  BY DEF ImportInv, ImportTypeOK, PassState, LastAnalysisEnds, Importing, Of
<1>2. /\ i \in Import /\ Archived(me.copy.windowSince) /\ Archived(LastWindow)
      /\ Archived(me.window)
  BY <1>1 DEF PassAgrees
<1>3. ended \in Cursor /\ ended.windowSince = me.copy.windowSince
  BY <1>1, ImportNumbers DEF PassState, Cursor
<1> HIDE DEF ended
<1>4. /\ importCursor' \in [Import -> Cursor] /\ \A j \in Import : CursorAgrees(j)'
  BY <1>1, <1>2, <1>3, ProgressKeeps
<1> DEFINE at == IF me.drained THEN "complete" ELSE "release"
<1>5. at \in {"complete", "release"}
  OBVIOUS
<1> DEFINE P == [me EXCEPT !.at = at]
<1>6. MovesOn(h, P)
  BY DEF LastAnalysisEnds
<1> HIDE DEF at
<1>7. /\ P \in PassState /\ P.at = at /\ P.job = i /\ P.copy = me.copy /\ P.window = me.window
  BY <1>1, <1>5 DEF PassState, ImportPhase
<1> HIDE DEF P
<1>8. PassMoves(h, P)
  BY <1>6, <1>7, PassMove DEF ImportInv
<1>9. ImportTypeOK'
  BY <1>1, <1>4, <1>8 DEF ImportInv, ImportTypeOK, PassMoves, PassState
<1>10. PassAgrees(h)'
  BY <1>1, <1>2, <1>5, <1>7, <1>8 DEF PassMoves, PassAgrees, Archived
<1> QED BY <1>1, <1>4, <1>8, <1>9, <1>10, ImportFrame DEF PassMoves

\* Completed, released, failed or lost: the server lets go of the job.
LEMMA PassEndsStep ==
  ASSUME ImportInv, NEW h \in ImportHost,
         \/ WindowFails(h) \/ ImportAnalysisFails(h) \/ PassCompletes(h)
         \/ PassReleases(h) \/ ImporterCrashes(h)
  PROVE  ImportInv'
<1>1. importer[h] \in PassState /\ PassAgrees(h) /\ importer[h].at # "idle"
  BY DEF ImportInv, ImportTypeOK, PassState, WindowFails, ImportAnalysisFails,
         PassCompletes, PassReleases, ImporterCrashes, Importing
<1> DEFINE i == importer[h].job
<1> DEFINE w == importer[h].copy.windowSince
<1>2. i \in Import
  BY <1>1 DEF PassAgrees
<1>3. MovesOn(h, NoImport) /\ UNCHANGED <<importCursor, chosen>>
  BY DEF WindowFails, ImportAnalysisFails, PassCompletes, PassReleases, ImporterCrashes
<1>4. importTroubles' \in 0 .. MaxImportTroubles
  BY TroublesAreCounted DEF WindowFails, ImportAnalysisFails, PassCompletes,
     PassReleases, ImporterCrashes, ImportInv
<1>5. archive \subseteq archive' /\ archive' \subseteq 1 .. LiveEntry
  <2>1. archive \subseteq 1 .. LiveEntry
    BY DEF ImportInv, ImportTypeOK
  <2>2. w < LastWindow => w + 1 \in 1 .. LiveEntry
    BY <1>1, ImportNumbers DEF PassState, Cursor, LiveEntry
  <2>3. archive' = archive \/ (w < LastWindow /\ archive' = archive \cup {w + 1})
    BY DEF WindowFails, ImportAnalysisFails, PassCompletes, PassReleases, ImporterCrashes
  <2> QED BY <2>1, <2>2, <2>3
<1>6. /\ import' \in [Import -> ImportStatus] /\ importTries' \in [Import -> Nat]
      /\ \A j \in Import : import'[j] = "completed" =>
                             import[j] = "completed" \/ Archived(LastWindow)
  <2>1. CASE WindowFails(h) \/ ImportAnalysisFails(h) \/ PassReleases(h)
    <3>1. ReleasedImport(i) \/ RetriedImport(i)
      BY <2>1 DEF WindowFails, ImportAnalysisFails, PassReleases, Of
    <3> QED BY <1>2, <3>1, StoreKeeps DEF ImportInv
  <2>2. CASE PassCompletes(h)
    <3>1. Archived(LastWindow) /\ CompletedImport(i)
      BY <1>1, <2>2 DEF PassCompletes, Importing, Of, PassAgrees
    <3> QED BY <1>2, <3>1 DEF CompletedImport, ImportInv, ImportTypeOK, ImportStatus
  <2>3. CASE ImporterCrashes(h)
    BY <2>3 DEF ImporterCrashes, ImportInv, ImportTypeOK
  <2> QED BY <2>1, <2>2, <2>3
<1> QED BY <1>3, <1>4, <1>5, <1>6, PassIsOver

LEMMA ImportInvHolds == ImportSpec => []ImportInv
<1>1. ImportInit => ImportInv
  <2> SUFFICES ASSUME ImportInit PROVE ImportInv
    OBVIOUS
  <2>1. 1 .. 0 = {}
    OBVIOUS
  <2>2. FromTheStart \in Cursor /\ FromTheStart.windowSince = 0
    BY ImportNumbers DEF FromTheStart, Cursor, LiveEntry
  <2>3. ImportTypeOK
    BY <2>2, NoImportIsAPass, ImportNumbers DEF ImportInit, ImportTypeOK, PassState, ImportStatus
  <2>4. \A i \in Import : CursorAgrees(i)
    BY <2>1, <2>2 DEF ImportInit, CursorAgrees, Archived
  <2>5. \A h \in ImportHost : PassAgrees(h)
    BY <2>1, NoImportIsAPass DEF ImportInit, PassAgrees, Archived
  <2> QED BY <2>3, <2>4, <2>5 DEF ImportInv
<1>2. ImportInv /\ [ImportNext]_importVars => ImportInv'
  <2> SUFFICES ASSUME ImportInv, [ImportNext]_importVars PROVE ImportInv'
    OBVIOUS
  <2>1. CASE UNCHANGED importVars
    <3>1. ImportTypeOK'
      BY <2>1 DEF importVars, ImportInv, ImportTypeOK
    <3>2. \A i \in Import : CursorAgrees(i)'
      BY <2>1, CursorsKeep DEF importVars
    <3> QED BY <2>1, <3>1, <3>2, ImportFrame DEF importVars
  <2> QED BY <2>1, PeopleStep, ImportClaimStep, ImportPassStep, ArchiveStep, MoveCursorStep,
             ImportAnalyzeStep, WindowEndsStep, LastAnalysisStep, PassEndsStep
             DEF ImportNext, ImportStep
<1> QED BY <1>1, <1>2, PTL DEF ImportSpec

\* Whatever servers, stale claims, failures, crashes, second choices and
\* cancellations do to the jobs of a group, no stored cursor has passed a window
\* that is not archived, and a completed import has the whole range.
THEOREM ImportsSkipNothing == ImportSpec => []ImportSkipsNothing
<1>1. ImportInv => ImportSkipsNothing
  BY DEF ImportInv, CursorAgrees, Archived, ImportSkipsNothing
<1> QED BY <1>1, ImportInvHolds, PTL

\* The jobs, their cursors and the passes of the servers keep their declared shape.
THEOREM ImportTypeCorrect == ImportSpec => []ImportTypeOK
<1>1. ImportInv => ImportTypeOK
  BY DEF ImportInv
<1> QED BY <1>1, ImportInvHolds, PTL
=============================================================================
