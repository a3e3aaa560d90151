---------------------------- MODULE StorageProofs ----------------------------
(***************************************************************************)
(* Proofs about what is kept: MemoryWrapup, for any entries in any order of   *)
(* arrival, any jobs, hosts and attempts; SqliteStore, for any hosts, records, *)
(* tables and legacy documents; and MemoryRevisions, for any notes, proposals  *)
(* and versions.  Between them the lemmas about sorted and filtered sequences. *)
(***************************************************************************)
EXTENDS MemoryWrapup, MemoryRevisions, SqliteStore, TLAPS, FiniteSetTheorems,
        WellFoundedInduction, SequenceTheorems

-----------------------------------------------------------------------------
(* What a read of the transcript returns *)

\* Some entry of several is the newest.
LEMMA SomeEntryIsNewest ==
  ASSUME NEW S \in SUBSET Entry, S # {}
  PROVE  Newest(S) \in S /\ \A e \in S : e <= Newest(S)
<1> DEFINE T == {LastEntry - e : e \in S}
<1>1. T \subseteq Nat /\ T # {}
  <2>1. \A e \in S : LastEntry - e \in Nat
    BY LastEntryIsNat DEF Entry
  <2>2. PICK e \in S : TRUE
    OBVIOUS
  <2> QED BY <2>1, <2>2
<1> HIDE DEF T
<1>2. PICK x \in T : \A y \in T : <<y, x>> \notin OpToRel(<, Nat)
  BY <1>1, WFMin, NatLessThanWellFounded, Zenon
<1>3. x \in Nat /\ \A y \in T : y \in Nat
  BY <1>1
<1>4. \A y \in T : ~ (y < x)
  BY <1>2, <1>3, Zenon DEF OpToRel
<1>5. PICK n \in S : x = LastEntry - n
  BY DEF T
<1>6. \A e \in S : e <= n
  BY <1>4, <1>5, LastEntryIsNat DEF Entry, T
<1> QED BY <1>6 DEF Newest

\* The oldest entries are those before and up to any one of them.
LEMMA OldestIsAPrefix ==
  ASSUME NEW B \in SUBSET Entry, NEW f \in Oldest(B), NEW e \in B, e <= f
  PROVE  e \in Oldest(B)
<1> DEFINE Before(g) == {b \in B : b < g}
<1> HIDE DEF Before
<1>1. f \in B /\ Cardinality(Before(f)) < EntriesPerWrapup
  BY DEF Oldest, Before
<1>2. Before(e) \subseteq Before(f)
  <2>1. \A b \in B : b \in Int
    BY DEF Entry
  <2> QED BY <1>1, <2>1 DEF Before
<1>3. IsFiniteSet(Before(f))
  <2>1. 1 \in Int /\ LastEntry \in Int
    BY LastEntryIsNat
  <2>2. IsFiniteSet(Entry)
    BY <2>1, FS_Interval DEF Entry
  <2>3. Before(f) \subseteq Entry
    BY DEF Before
  <2> QED BY <2>2, <2>3, FS_Subset
<1>4. /\ Cardinality(Before(e)) \in Nat /\ Cardinality(Before(f)) \in Nat
      /\ Cardinality(Before(e)) <= Cardinality(Before(f))
  BY <1>2, <1>3, FS_Subset, FS_CardinalityType
<1>5. Cardinality(Before(e)) < EntriesPerWrapup
  BY <1>1, <1>4, EntriesPerWrapupIsPositive
<1> QED BY <1>5 DEF Oldest, Before

-----------------------------------------------------------------------------
(***************************************************************************)
(* The inductive invariant.  A claim can be taken over while its first holder  *)
(* lives, and that holder may end it all the same, so what the cursor will be  *)
(* depends on every host at work: whatever a host started from, and whatever   *)
(* its analysis saw, has nothing behind it that nobody accounts for.           *)
(***************************************************************************)

WrapperState ==
  [job : WrapupJob \cup {None}, at : WrapupPhase, from : 0 .. LastEntry,
   covers : SUBSET Entry, seen : SUBSET Entry]

HasJob == {"claimed", "loaded", "analysed", "recorded", "empty", "erred"}

AccountedFor == analysed \cup late \cup Displaced

Reached(c) == \A e \in transcript : e <= c => e \in AccountedFor

WrapperAgrees(h) ==
  LET w == wrapper[h] IN
  /\ w.at \in HasJob => w.job \in WrapupJob
  /\ w.from \in {0} \cup transcript /\ Reached(w.from)
  /\ w.seen \subseteq transcript \cap analysed
  /\ \A e \in w.seen : Reached(e)
  /\ w.at \in {"analysed", "recorded"} => w.seen # {}

WrapupInv ==
  /\ WrapupTypeOK
  /\ wrapupCursor \in {0} \cup transcript /\ Reached(wrapupCursor)
  /\ purged \subseteq AccountedFor
  /\ \A s \in summaries : s.seen \subseteq analysed
  /\ \A h \in Host : WrapperAgrees(h)

WrapperMoves(h, w) ==
  /\ wrapper' \in [Host -> WrapperState]
  /\ wrapper'[h] = w
  /\ \A g \in Host \ {h} : wrapper'[g] = wrapper[g]

LEMMA WrapperMove ==
  ASSUME WrapupTypeOK, NEW h \in Host, NEW w \in WrapperState,
         wrapper' = [wrapper EXCEPT ![h] = w]
  PROVE  WrapperMoves(h, w)
BY DEF WrapupTypeOK, WrapperMoves, WrapperState

\* The steps that add no entry: what was accounted for stays so.
LEMMA WrapperStep ==
  ASSUME WrapupInv, WrapupTypeOK', UNCHANGED transcript,
         analysed \subseteq analysed', AccountedFor \subseteq AccountedFor',
         purged' \subseteq AccountedFor',
         \A s \in summaries' : s.seen \subseteq analysed',
         NEW c \in {0} \cup transcript, wrapupCursor' = c, Reached(c),
         \A h \in Host : wrapper'[h] = wrapper[h] \/ WrapperAgrees(h)'
  PROVE  WrapupInv'
<1>1. \A d : Reached(d) => Reached(d)'
  BY DEF Reached
<1>2. ASSUME NEW h \in Host PROVE WrapperAgrees(h)'
  <2>1. WrapperAgrees(h)
    BY DEF WrapupInv
  <2> QED BY <1>1, <2>1 DEF WrapperAgrees
<1>3. wrapupCursor' \in {0} \cup transcript' /\ Reached(wrapupCursor)'
  BY <1>1 DEF Reached
<1> QED BY <1>2, <1>3 DEF WrapupInv

\* The same for the steps of a host that leave the transcript and its reading alone.
LEMMA QuietWrapperStep ==
  ASSUME WrapupInv, WrapupTypeOK',
         UNCHANGED <<wrapupCursor, transcript, summaries, purged, analysed, late>>,
         \A h \in Host : wrapper'[h] = wrapper[h] \/ WrapperAgrees(h)'
  PROVE  WrapupInv'
<1>1. AccountedFor' = AccountedFor
  BY DEF AccountedFor, Displaced
<1>2. /\ wrapupCursor \in {0} \cup transcript /\ Reached(wrapupCursor)
      /\ purged \subseteq AccountedFor /\ \A s \in summaries : s.seen \subseteq analysed
  BY DEF WrapupInv
<1> QED BY <1>1, <1>2, WrapperStep

\* An entry that comes in behind any place that counts is late.
LEMMA ArrivalStep ==
  ASSUME WrapupInv, NEW e \in Entry, EntryArrives(e)
  PROVE  WrapupInv'
<1>1. /\ e \notin transcript /\ transcript' = transcript \cup {e} /\ e \in Nat \ {0}
      /\ UNCHANGED <<wrapup, wrapupTries, wrapupHolder, wrapupCursor, summaries,
                     purged, analysed, wrapper, wrapupCrashes, analysisFailures>>
  BY DEF EntryArrives, Entry
<1>2. late \subseteq late' /\ late' \subseteq late \cup {e}
  BY DEF EntryArrives
<1>3. AccountedFor \subseteq AccountedFor' /\ late' \subseteq AccountedFor'
  BY <1>1, <1>2 DEF AccountedFor, Displaced
<1>4. ASSUME NEW c \in {0} \cup transcript, Reached(c), c > e => e \in late'
      PROVE  c \in {0} \cup transcript' /\ Reached(c)'
  <2>1. c \in Int /\ c # e
    BY <1>1, <1>4 DEF WrapupInv, WrapupTypeOK, Entry
  <2>2. e <= c => e \in late'
    BY <1>1, <1>4, <2>1
  <2> QED BY <1>1, <1>3, <1>4, <2>2 DEF Reached
<1>5. WrapupTypeOK'
  BY <1>1, <1>2 DEF WrapupInv, WrapupTypeOK
<1>6. wrapupCursor' \in {0} \cup transcript' /\ Reached(wrapupCursor)'
  <2>1. wrapupCursor > e => e \in late'
    BY DEF EntryArrives, WrapupInv, WrapupTypeOK, Entry
  <2>2. wrapupCursor \in {0} \cup transcript /\ Reached(wrapupCursor)
    BY DEF WrapupInv
  <2>3. wrapupCursor \in {0} \cup transcript' /\ \A d : d = wrapupCursor => Reached(d)'
    BY <1>4, <2>1, <2>2
  <2> QED BY <1>1, <2>3 DEF Reached
<1>7. ASSUME NEW h \in Host PROVE WrapperAgrees(h)'
  <2> DEFINE w == wrapper[h]
  <2>1. WrapperAgrees(h) /\ w \in WrapperState /\ wrapper' = wrapper
    BY <1>1 DEF WrapupInv, WrapupTypeOK, WrapperState
  <2>2. \A f \in {w.from} \cup w.seen : f > e => e \in late'
    BY <2>1 DEF EntryArrives, WrapperState, Entry
  <2>3. \A f \in {w.from} \cup w.seen : f \in {0} \cup transcript /\ Reached(f)
    BY <2>1 DEF WrapperAgrees
  <2>4. \A f \in {w.from} \cup w.seen : f \in {0} \cup transcript' /\ Reached(f)'
    BY <1>4, <2>2, <2>3
  <2> QED BY <1>1, <2>1, <2>4 DEF WrapperAgrees
<1> QED BY <1>1, <1>3, <1>5, <1>6, <1>7 DEF WrapupInv

\* What a summary covers was seen by its analysis, or displaced in it.
LEMMA PurgeStep ==
  ASSUME WrapupInv, PurgeThreadContextRaw
  PROVE  WrapupInv'
<1>1. PICK s \in summaries : purged' = purged \cup s.covers
  BY DEF PurgeThreadContextRaw
<1>2. UNCHANGED <<wrapup, wrapupTries, wrapupHolder, wrapupCursor, transcript,
                  summaries, analysed, late, wrapper, wrapupCrashes, analysisFailures>>
  BY DEF PurgeThreadContextRaw
<1>3. s.covers \subseteq Entry
  BY DEF WrapupInv, WrapupTypeOK
<1>4. s.covers \subseteq AccountedFor
  BY DEF WrapupInv, AccountedFor, Displaced
<1>5. WrapupTypeOK'
  BY <1>1, <1>2, <1>3 DEF WrapupInv, WrapupTypeOK
<1>6. AccountedFor' = AccountedFor
  BY <1>2 DEF AccountedFor, Displaced
<1>7. /\ wrapupCursor \in {0} \cup transcript /\ Reached(wrapupCursor)
      /\ purged \subseteq AccountedFor /\ \A t \in summaries : t.seen \subseteq analysed
  BY DEF WrapupInv
<1> QED BY <1>1, <1>2, <1>4, <1>5, <1>6, <1>7, WrapperStep

\* A host that lets go of its job has nothing to be checked.
LEMMA FreshWrapper ==
  ASSUME WrapupTypeOK, NEW h \in Host, NEW w \in WrapperState, WrapperMoves(h, w),
         w.at \in {"idle", "more"}, w.from = 0, w.seen = {}, transcript' \subseteq Entry
  PROVE  WrapperAgrees(h)'
<1>1. Reached(0)'
  BY DEF Reached, Entry
<1> QED BY <1>1 DEF WrapperMoves, WrapperAgrees, HasJob

LEMMA WrappingStops ==
  ASSUME WrapupInv, NEW h \in Host, StopsWrapping(h), transcript' \subseteq Entry
  PROVE  WrapperMoves(h, NoWrapup) /\ WrapperAgrees(h)'
<1>1. NoWrapup \in WrapperState
  BY LastEntryIsNat DEF NoWrapup, WrapperState, WrapupPhase
<1>2. WrapperMoves(h, NoWrapup)
  BY <1>1, WrapperMove DEF StopsWrapping, WrapupInv
<1> QED BY <1>1, <1>2, FreshWrapper DEF NoWrapup, WrapupInv

\* A host goes on to another phase with what it has.
LEMMA Beginning ==
  ASSUME WrapupInv, NEW h \in Host, NEW p \in WrapupPhase, BeginsWrapping(h, p),
         p \in HasJob => wrapper[h].at \in HasJob,
         p \in {"analysed", "recorded"} => wrapper[h].at \in {"analysed", "recorded"},
         UNCHANGED transcript, analysed \subseteq analysed', AccountedFor \subseteq AccountedFor'
  PROVE  /\ wrapper' \in [Host -> WrapperState]
         /\ \A g \in Host : wrapper'[g] = wrapper[g] \/ WrapperAgrees(g)'
<1> DEFINE w == [wrapper[h] EXCEPT !.at = p]
<1>1. wrapper[h] \in WrapperState /\ WrapperAgrees(h)
  BY DEF WrapupInv, WrapupTypeOK, WrapperState
<1>2. /\ w \in WrapperState /\ w.at = p /\ w.job = wrapper[h].job
      /\ w.from = wrapper[h].from /\ w.seen = wrapper[h].seen
  BY <1>1 DEF WrapperState
<1>3. wrapper' = [wrapper EXCEPT ![h] = w]
  BY DEF BeginsWrapping
<1> HIDE DEF w
<1>4. WrapperMoves(h, w)
  BY <1>2, <1>3, WrapperMove DEF WrapupInv
<1>5. \A d : Reached(d) => Reached(d)'
  BY DEF Reached
<1>6. WrapperAgrees(h)'
  BY <1>1, <1>2, <1>4, <1>5 DEF WrapperMoves, WrapperAgrees
<1> QED BY <1>4, <1>6 DEF WrapperMoves

\* What is read beyond a place that was reached is reached too.
LEMMA ReadIsReached ==
  ASSUME WrapupInv, NEW c, Reached(c), NEW f \in LoadThreadTranscript(c),
         NEW e \in transcript, e <= f, c \in Int
  PROVE  e \in AccountedFor \cup LoadThreadTranscript(c)
<1>1. Beyond(c) \in SUBSET Entry /\ e \in Entry
  BY DEF Beyond, WrapupInv, WrapupTypeOK
<1>2. CASE e <= c
  BY <1>2 DEF Reached
<1>3. CASE e \in purged
  BY <1>3 DEF WrapupInv
<1>4. CASE e > c /\ e \notin purged
  <2>1. e \in Beyond(c)
    BY <1>4 DEF Beyond
  <2> QED BY <1>1, <2>1, OldestIsAPrefix DEF LoadThreadTranscript
<1> QED BY <1>1, <1>2, <1>3, <1>4 DEF Entry

LEMMA WrapupClaimStep ==
  ASSUME WrapupInv, NEW h \in Host, ClaimWrapup(h)
  PROVE  WrapupInv'
<1>1. UNCHANGED <<wrapupCursor, transcript, summaries, purged, analysed, late,
                  wrapupCrashes, analysisFailures>>
  BY DEF ClaimWrapup
<1>2. PICK S \in SUBSET {j \in WrapupJob : wrapup[j] = "claimed"} :
        LET recovered == RecoveredWrapups(S)
            released == [j \in WrapupJob |-> IF j \in S THEN None ELSE wrapupHolder[j]]
            ready == ReadyWrapups(recovered) IN
        \/ /\ wrapup' = recovered /\ wrapupHolder' = released
           /\ UNCHANGED <<wrapupTries, wrapper>>
        \/ \E j \in ready :
             /\ wrapup' = [recovered EXCEPT ![j] = "claimed"]
             /\ wrapupHolder' = [released EXCEPT ![j] = h]
             /\ wrapupTries' = [wrapupTries EXCEPT ![j] = @ + 1]
             /\ wrapper' = [wrapper EXCEPT ![h] =
                              [NoWrapup EXCEPT !.job = j, !.at = "claimed", !.from = wrapupCursor]]
  BY DEF ClaimWrapup, ClaimMemoryWrapups
<1> DEFINE recovered == RecoveredWrapups(S)
           released == [j \in WrapupJob |-> IF j \in S THEN None ELSE wrapupHolder[j]]
<1>3. /\ recovered \in [WrapupJob -> WrapupStatus]
      /\ released \in [WrapupJob -> Host \cup {None}]
  BY DEF RecoveredWrapups, WrapupInv, WrapupTypeOK, WrapupStatus
<1> HIDE DEF recovered, released
<1>4. CASE /\ wrapup' = recovered /\ wrapupHolder' = released
           /\ UNCHANGED <<wrapupTries, wrapper>>
  <2>1. WrapupTypeOK'
    BY <1>1, <1>3, <1>4 DEF WrapupInv, WrapupTypeOK
  <2> QED BY <1>1, <1>4, <2>1, QuietWrapperStep
<1>5. ASSUME NEW j \in ReadyWrapups(recovered),
             wrapup' = [recovered EXCEPT ![j] = "claimed"],
             wrapupHolder' = [released EXCEPT ![j] = h],
             wrapupTries' = [wrapupTries EXCEPT ![j] = @ + 1],
             wrapper' = [wrapper EXCEPT ![h] =
               [NoWrapup EXCEPT !.job = j, !.at = "claimed", !.from = wrapupCursor]]
      PROVE  WrapupInv'
  <2> DEFINE w == [NoWrapup EXCEPT !.job = j, !.at = "claimed", !.from = wrapupCursor]
  <2>1. j \in WrapupJob /\ wrapupTries[j] < WrapupAttempts
    BY <1>5 DEF ReadyWrapups
  <2>2. wrapupTries[j] + 1 \in 0 .. WrapupAttempts
    BY <2>1, WrapupAttemptsIsPositive DEF WrapupInv, WrapupTypeOK
  <2>3. /\ w \in WrapperState /\ w.job = j /\ w.at = "claimed" /\ w.from = wrapupCursor
        /\ w.seen = {}
    BY <2>1 DEF NoWrapup, WrapperState, WrapupPhase, WrapupInv, WrapupTypeOK
  <2>4. wrapper' = [wrapper EXCEPT ![h] = w]
    BY <1>5
  <2> HIDE DEF w
  <2>5. WrapperMoves(h, w)
    BY <2>3, <2>4, WrapperMove DEF WrapupInv
  <2>6. WrapupTypeOK'
    BY <1>1, <1>3, <1>5, <2>1, <2>2, <2>5
       DEF WrapupInv, WrapupTypeOK, WrapperMoves, WrapperState, WrapupStatus
  <2>7. Reached(wrapupCursor)' /\ wrapupCursor \in {0} \cup transcript
    BY <1>1 DEF WrapupInv, Reached, AccountedFor, Displaced
  <2>8. WrapperAgrees(h)'
    BY <1>1, <2>1, <2>3, <2>5, <2>7 DEF WrapperMoves, WrapperAgrees, Reached
  <2> QED BY <1>1, <2>5, <2>6, <2>8, QuietWrapperStep DEF WrapperMoves
<1>6. \/ /\ wrapup' = recovered /\ wrapupHolder' = released
         /\ UNCHANGED <<wrapupTries, wrapper>>
      \/ \E j \in ReadyWrapups(recovered) :
           /\ wrapup' = [recovered EXCEPT ![j] = "claimed"]
           /\ wrapupHolder' = [released EXCEPT ![j] = h]
           /\ wrapupTries' = [wrapupTries EXCEPT ![j] = @ + 1]
           /\ wrapper' = [wrapper EXCEPT ![h] =
                [NoWrapup EXCEPT !.job = j, !.at = "claimed", !.from = wrapupCursor]]
  BY <1>2 DEF recovered, released
<1> QED BY <1>4, <1>5, <1>6

LEMMA LoadStep ==
  ASSUME WrapupInv, NEW h \in Host, LoadPending(h)
  PROVE  WrapupInv'
<1> DEFINE entries == LoadThreadTranscript(wrapper[h].from)
<1>1. /\ UNCHANGED <<wrapup, wrapupTries, wrapupHolder, wrapupCursor, transcript,
                     summaries, purged, analysed, late, wrapupCrashes, analysisFailures>>
      /\ wrapper[h].at = "claimed"
  BY DEF LoadPending, Wrapping
<1>2. AccountedFor' = AccountedFor
  BY <1>1 DEF AccountedFor, Displaced
<1>3. CASE BeginsWrapping(h, "empty")
  <2>1. /\ wrapper' \in [Host -> WrapperState]
        /\ \A g \in Host : wrapper'[g] = wrapper[g] \/ WrapperAgrees(g)'
    BY <1>1, <1>2, <1>3, Beginning DEF WrapupPhase, HasJob
  <2>2. WrapupTypeOK'
    BY <1>1, <2>1 DEF WrapupInv, WrapupTypeOK, WrapperState
  <2> QED BY <1>1, <2>1, <2>2, QuietWrapperStep
<1>4. CASE wrapper' = [wrapper EXCEPT ![h].at = "loaded", ![h].covers = entries]
  <2> DEFINE w == [wrapper[h] EXCEPT !.at = "loaded", !.covers = entries]
  <2>1. wrapper[h] \in WrapperState /\ WrapperAgrees(h) /\ entries \subseteq Entry
    BY DEF WrapupInv, WrapupTypeOK, WrapperState, LoadThreadTranscript, Oldest, Beyond
  <2> HIDE DEF entries
  <2>2. /\ w \in WrapperState /\ w.at = "loaded" /\ w.job = wrapper[h].job
        /\ w.from = wrapper[h].from /\ w.seen = wrapper[h].seen
    BY <2>1 DEF WrapperState, WrapupPhase
  <2>3. wrapper' = [wrapper EXCEPT ![h] = w]
    BY <1>4
  <2> HIDE DEF w
  <2>4. WrapperMoves(h, w)
    BY <2>2, <2>3, WrapperMove DEF WrapupInv
  <2>5. \A d : Reached(d) => Reached(d)'
    BY <1>1, <1>2 DEF Reached
  <2>6. WrapperAgrees(h)'
    BY <1>1, <2>1, <2>2, <2>4, <2>5 DEF WrapperMoves, WrapperAgrees, HasJob
  <2>7. WrapupTypeOK'
    BY <1>1, <2>4 DEF WrapupInv, WrapupTypeOK, WrapperMoves, WrapperState
  <2> QED BY <1>1, <2>4, <2>6, <2>7, QuietWrapperStep DEF WrapperMoves
<1> QED BY <1>3, <1>4 DEF LoadPending

\* An analysis sees the oldest entries beyond its place: it leaves nothing behind.
LEMMA WrapupAnalyzeStep ==
  ASSUME WrapupInv, NEW h \in Host, Analyze(h)
  PROVE  WrapupInv'
<1> DEFINE entries == LoadThreadTranscript(wrapper[h].from)
<1>1. /\ UNCHANGED <<wrapup, wrapupTries, wrapupHolder, wrapupCursor, transcript,
                     summaries, purged, late, wrapupCrashes, analysisFailures>>
      /\ wrapper[h].at = "loaded"
  BY DEF Analyze, Wrapping
<1>2. CASE BeginsWrapping(h, "erred") /\ UNCHANGED analysed
  <2>1. AccountedFor' = AccountedFor
    BY <1>1, <1>2 DEF AccountedFor, Displaced
  <2>2. /\ wrapper' \in [Host -> WrapperState]
        /\ \A g \in Host : wrapper'[g] = wrapper[g] \/ WrapperAgrees(g)'
    BY <1>1, <1>2, <2>1, Beginning DEF WrapupPhase, HasJob
  <2>3. WrapupTypeOK'
    BY <1>1, <1>2, <2>2 DEF WrapupInv, WrapupTypeOK, WrapperState
  <2> QED BY <1>1, <1>2, <2>2, <2>3, QuietWrapperStep
<1>3. CASE /\ entries # {}
           /\ wrapper' = [wrapper EXCEPT ![h].at = "analysed", ![h].seen = entries]
           /\ analysed' = analysed \cup entries
  <2> DEFINE w == [wrapper[h] EXCEPT !.at = "analysed", !.seen = entries]
  <2>1. /\ wrapper[h] \in WrapperState /\ WrapperAgrees(h)
        /\ entries \subseteq Entry /\ entries \subseteq transcript
    BY DEF WrapupInv, WrapupTypeOK, WrapperState, LoadThreadTranscript, Oldest, Beyond
  <2>2. AccountedFor' = AccountedFor \cup entries
    BY <1>1, <1>3 DEF AccountedFor, Displaced
  <2>3. ASSUME NEW f \in entries PROVE Reached(f)'
    <3>1. wrapper[h].from \in Int /\ Reached(wrapper[h].from)
      BY <2>1 DEF WrapperState, WrapperAgrees
    <3>2. \A e \in transcript : e <= f => e \in AccountedFor \cup entries
      BY <3>1, ReadIsReached
    <3> QED BY <1>1, <2>2, <3>2 DEF Reached
  <2> HIDE DEF entries
  <2>4. /\ w \in WrapperState /\ w.at = "analysed" /\ w.job = wrapper[h].job
        /\ w.from = wrapper[h].from /\ w.seen = entries
    BY <2>1 DEF WrapperState, WrapupPhase
  <2>5. wrapper' = [wrapper EXCEPT ![h] = w]
    BY <1>3
  <2> HIDE DEF w
  <2>6. WrapperMoves(h, w)
    BY <2>4, <2>5, WrapperMove DEF WrapupInv
  <2>7. \A d : Reached(d) => Reached(d)'
    BY <1>1, <2>2 DEF Reached
  <2>8. WrapperAgrees(h)'
    BY <1>1, <1>3, <2>1, <2>3, <2>4, <2>6, <2>7 DEF WrapperMoves, WrapperAgrees, HasJob
  <2>9. WrapupTypeOK'
    BY <1>1, <1>3, <2>1, <2>6 DEF WrapupInv, WrapupTypeOK, WrapperMoves, WrapperState
  <2>10. /\ wrapupCursor \in {0} \cup transcript /\ Reached(wrapupCursor)
         /\ purged \subseteq AccountedFor /\ \A s \in summaries : s.seen \subseteq analysed
    BY DEF WrapupInv
  <2>11. /\ analysed \subseteq analysed' /\ AccountedFor \subseteq AccountedFor'
         /\ purged' \subseteq AccountedFor' /\ \A s \in summaries' : s.seen \subseteq analysed'
    BY <1>1, <1>3, <2>2, <2>10
  <2> QED BY <1>1, <2>6, <2>8, <2>9, <2>10, <2>11, WrapperStep DEF WrapperMoves
<1> QED BY <1>2, <1>3 DEF Analyze

LEMMA SummaryRecordStep ==
  ASSUME WrapupInv, NEW h \in Host, RecordSummary(h)
  PROVE  WrapupInv'
<1> DEFINE w == wrapper[h]
           s == [to |-> Newest(w.seen), covers |-> w.covers, seen |-> w.seen]
<1>1. /\ UNCHANGED <<wrapup, wrapupTries, wrapupHolder, wrapupCursor, transcript,
                     purged, analysed, late, wrapupCrashes, analysisFailures>>
      /\ w.at = "analysed" /\ BeginsWrapping(h, "recorded")
      /\ summaries' = summaries \/ summaries' = summaries \cup {s}
  BY DEF RecordSummary, RecordThreadContextSummary, Wrapping
<1>2. w \in WrapperState /\ WrapperAgrees(h)
  BY DEF WrapupInv, WrapupTypeOK, WrapperState
<1>3. s.seen \subseteq analysed /\ s \in [to : Entry, covers : SUBSET Entry, seen : SUBSET Entry]
  <2>1. w.seen \in SUBSET Entry /\ w.seen # {} /\ w.covers \in SUBSET Entry
    BY <1>1, <1>2 DEF WrapperState, WrapperAgrees
  <2>2. Newest(w.seen) \in Entry
    BY <2>1, SomeEntryIsNewest
  <2> QED BY <1>2, <2>1, <2>2 DEF WrapperAgrees
<1> HIDE DEF s
<1>4. AccountedFor \subseteq AccountedFor'
  BY <1>1 DEF AccountedFor, Displaced
<1>5. /\ wrapper' \in [Host -> WrapperState]
      /\ \A g \in Host : wrapper'[g] = wrapper[g] \/ WrapperAgrees(g)'
  BY <1>1, <1>4, Beginning DEF WrapupPhase, HasJob
<1>6. WrapupTypeOK'
  BY <1>1, <1>3, <1>5 DEF WrapupInv, WrapupTypeOK, WrapperState
<1>7. /\ wrapupCursor \in {0} \cup transcript /\ Reached(wrapupCursor)
      /\ purged \subseteq AccountedFor /\ \A t \in summaries : t.seen \subseteq analysed
  BY DEF WrapupInv
<1>8. purged' \subseteq AccountedFor' /\ \A t \in summaries' : t.seen \subseteq analysed'
  BY <1>1, <1>3, <1>4, <1>7
<1> QED BY <1>1, <1>4, <1>5, <1>6, <1>7, <1>8, WrapperStep

\* Whoever completes a job, the cursor moves to where that host was.
LEMMA CompleteStep ==
  ASSUME WrapupInv, NEW h \in Host, CompleteMemoryWrapup(h)
  PROVE  WrapupInv'
<1> DEFINE w == wrapper[h]
<1>1. /\ UNCHANGED <<wrapupTries, wrapupHolder, transcript, summaries, purged,
                     analysed, late, wrapupCrashes, analysisFailures>>
      /\ w.at \in {"recorded", "empty"}
  BY DEF CompleteMemoryWrapup, Wrapping
<1>2. /\ w \in WrapperState /\ WrapperAgrees(h) /\ w.job \in WrapupJob
      /\ transcript \subseteq Entry /\ transcript' \subseteq Entry
  BY <1>1 DEF WrapupInv, WrapupTypeOK, WrapperState, WrapperAgrees, HasJob
<1>3. PICK c \in {0} \cup transcript : Reached(c) /\ CompletedAt(w.job, c)
  <2>1. CASE w.at = "recorded"
    <3>1. CompletedAt(w.job, Newest(w.seen))
      BY <2>1 DEF CompleteMemoryWrapup, Wrapping
    <3>2. w.seen \in SUBSET Entry /\ w.seen # {}
      BY <1>2, <2>1 DEF WrapperState, WrapperAgrees
    <3>3. Newest(w.seen) \in w.seen
      BY <3>2, SomeEntryIsNewest
    <3> QED BY <1>2, <3>1, <3>3 DEF WrapperAgrees
  <2>2. CASE w.at = "empty"
    <3>1. CompletedAt(w.job, w.from)
      BY <2>2 DEF CompleteMemoryWrapup, Wrapping
    <3> QED BY <1>2, <3>1 DEF WrapperAgrees
  <2> QED BY <1>1, <2>1, <2>2
<1>4. /\ wrapupCursor \in {0} \cup transcript /\ Reached(wrapupCursor)
      /\ wrapupCursor' \in {c, wrapupCursor} /\ wrapup' \in [WrapupJob -> WrapupStatus]
  BY <1>3 DEF CompletedAt, WrapupInv, WrapupTypeOK, WrapupStatus
<1>5. /\ wrapper' \in [Host -> WrapperState]
      /\ \A g \in Host : wrapper'[g] = wrapper[g] \/ WrapperAgrees(g)'
  <2>1. CASE StopsWrapping(h)
    BY <1>2, <2>1, WrappingStops DEF WrapperMoves
  <2>2. CASE wrapper' = [wrapper EXCEPT ![h] = [NoWrapup EXCEPT !.at = "more"]]
    <3> DEFINE n == [NoWrapup EXCEPT !.at = "more"]
    <3>1. n \in WrapperState /\ n.at = "more" /\ n.from = 0 /\ n.seen = {}
      BY LastEntryIsNat DEF NoWrapup, WrapperState, WrapupPhase
    <3>2. wrapper' = [wrapper EXCEPT ![h] = n]
      BY <2>2
    <3> HIDE DEF n
    <3>3. WrapperMoves(h, n)
      BY <3>1, <3>2, WrapperMove DEF WrapupInv
    <3> QED BY <1>2, <3>1, <3>3, FreshWrapper DEF WrapperMoves, WrapupInv
  <2> QED BY <2>1, <2>2 DEF CompleteMemoryWrapup
<1>6. WrapupTypeOK'
  <2>1. wrapupCursor' \in 0 .. LastEntry
    BY <1>2, <1>4, LastEntryIsNat DEF Entry
  <2> QED BY <1>1, <1>4, <1>5, <2>1 DEF WrapupInv, WrapupTypeOK, WrapperState
<1>7. AccountedFor' = AccountedFor
  BY <1>1 DEF AccountedFor, Displaced
<1>8. purged \subseteq AccountedFor /\ \A t \in summaries : t.seen \subseteq analysed
  BY DEF WrapupInv
<1>9. \A d : d = wrapupCursor' => d \in {0} \cup transcript /\ Reached(d)
  BY <1>3, <1>4
<1> QED BY <1>1, <1>5, <1>6, <1>7, <1>8, <1>9, WrapperStep

LEMMA OtherWrapupStep ==
  ASSUME WrapupInv, NEW h \in Host,
         \/ FindThreadDue(h) \/ EnqueueThread(h) \/ AnalysisFails(h)
         \/ RetryMemoryWrapup(h) \/ WrapperCrashes(h)
  PROVE  WrapupInv'
<1>1. UNCHANGED <<wrapupTries, wrapupCursor, transcript, summaries, purged, analysed, late>>
  BY DEF FindThreadDue, EnqueueThread, AnalysisFails, RetryMemoryWrapup, WrapperCrashes
<1>2. AccountedFor' = AccountedFor /\ transcript' \subseteq Entry
  BY <1>1 DEF AccountedFor, Displaced, WrapupInv, WrapupTypeOK
<1>3. /\ wrapper' \in [Host -> WrapperState]
      /\ \A g \in Host : wrapper'[g] = wrapper[g] \/ WrapperAgrees(g)'
  <2>1. CASE StopsWrapping(h)
    BY <1>2, <2>1, WrappingStops DEF WrapperMoves
  <2>2. CASE BeginsWrapping(h, "staging")
    BY <1>1, <1>2, <2>2, Beginning DEF WrapupPhase, HasJob
  <2>3. CASE BeginsWrapping(h, "erred") /\ wrapper[h].at \in {"claimed", "loaded"}
    BY <1>1, <1>2, <2>3, Beginning DEF WrapupPhase, HasJob
  <2> QED BY <2>1, <2>2, <2>3
          DEF FindThreadDue, EnqueueThread, AnalysisFails, RetryMemoryWrapup, WrapperCrashes
<1>4. /\ wrapup' \in [WrapupJob -> WrapupStatus]
      /\ wrapupHolder' \in [WrapupJob -> Host \cup {None}]
      /\ wrapupCrashes' \in Nat /\ analysisFailures' \in Nat
  <2>1. WrapupTypeOK
    BY DEF WrapupInv
  <2>2. CASE FindThreadDue(h) \/ AnalysisFails(h) \/ WrapperCrashes(h)
    BY <2>1, <2>2 DEF FindThreadDue, AnalysisFails, WrapperCrashes, WrapupTypeOK
  <2>3. CASE EnqueueThread(h)
    BY <2>1, <2>3 DEF EnqueueThread, EnqueueMemoryWrapup, WrapupTypeOK, WrapupStatus
  <2>4. CASE RetryMemoryWrapup(h)
    BY <2>1, <2>4 DEF RetryMemoryWrapup, RetriedWrapup, WrapupTypeOK, WrapupStatus
  <2> QED BY <2>2, <2>3, <2>4
<1>5. WrapupTypeOK'
  BY <1>1, <1>3, <1>4 DEF WrapupInv, WrapupTypeOK, WrapperState
<1> QED BY <1>1, <1>3, <1>5, QuietWrapperStep

LEMMA PruneStep ==
  ASSUME WrapupInv, NEW j \in WrapupJob, PruneMemoryWrapups(j)
  PROVE  WrapupInv'
<1>1. 0 \in 0 .. WrapupAttempts
  BY WrapupAttemptsIsPositive
<1>2. WrapupTypeOK'
  BY <1>1 DEF PruneMemoryWrapups, WrapupInv, WrapupTypeOK, WrapupStatus
<1> QED BY <1>2, QuietWrapperStep DEF PruneMemoryWrapups

LEMMA WrapupInvHolds == WrapupSpec => []WrapupInv
<1>1. WrapupInit => WrapupInv
  <2> SUFFICES ASSUME WrapupInit PROVE WrapupInv
    OBVIOUS
  <2>1. NoWrapup \in WrapperState /\ 0 \in 0 .. WrapupAttempts /\ 0 \in 0 .. LastEntry
    BY LastEntryIsNat, WrapupAttemptsIsPositive DEF NoWrapup, WrapperState, WrapupPhase
  <2>2. WrapupTypeOK
    BY <2>1 DEF WrapupInit, WrapupTypeOK, WrapperState, WrapupStatus
  <2>3. \A h \in Host : WrapperAgrees(h)
    BY DEF WrapupInit, WrapperAgrees, NoWrapup, HasJob, Reached
  <2> QED BY <2>2, <2>3 DEF WrapupInit, WrapupInv, Reached
<1>2. WrapupInv /\ [WrapupNext]_wrapupVars => WrapupInv'
  <2> SUFFICES ASSUME WrapupInv, [WrapupNext]_wrapupVars PROVE WrapupInv'
    OBVIOUS
  <2>1. CASE UNCHANGED wrapupVars
    <3>1. WrapupTypeOK'
      BY <2>1 DEF wrapupVars, WrapupInv, WrapupTypeOK
    <3> QED BY <2>1, <3>1, QuietWrapperStep DEF wrapupVars
  <2> QED BY <2>1, ArrivalStep, PurgeStep, PruneStep, WrapupClaimStep, LoadStep, WrapupAnalyzeStep,
             SummaryRecordStep, CompleteStep, OtherWrapupStep DEF WrapupNext, WrapupStep
<1> QED BY <1>1, <1>2, PTL DEF WrapupSpec

\* Consolidation leaves nothing behind its cursor unread, whichever host ends a
\* claim that was taken over: but for what came in late, and for what a summary
\* covers that its own analysis did not see.
THEOREM TheCursorSkipsNothing == WrapupSpec => []NothingIsSkipped
<1>1. WrapupInv => NothingIsSkipped
  BY DEF WrapupInv, Reached, AccountedFor, NothingIsSkipped
<1> QED BY <1>1, WrapupInvHolds, PTL

\* The jobs, their claims and the places of the hosts keep their declared shape.
THEOREM WrapupTypeCorrect == WrapupSpec => []WrapupTypeOK
<1>1. WrapupInv => WrapupTypeOK
  BY DEF WrapupInv
<1> QED BY <1>1, WrapupInvHolds, PTL

\* A claim is only made when none stands, so two hosts may believe they consolidate
\* a thread, but the store knows one claim.
THEOREM ThreadHasOneClaim == WrapupSpec => []OneWrapupAtATime
<1>1. WrapupInit => OneWrapupAtATime
  BY DEF WrapupInit, OneWrapupAtATime
<1>2. WrapupTypeOK /\ OneWrapupAtATime /\ [WrapupNext]_wrapupVars => OneWrapupAtATime'
  <2> SUFFICES ASSUME WrapupTypeOK, OneWrapupAtATime, [WrapupNext]_wrapupVars
               PROVE  OneWrapupAtATime'
    OBVIOUS
  <2>1. ASSUME \A j \in WrapupJob : wrapup'[j] = "claimed" => wrapup[j] = "claimed"
        PROVE  OneWrapupAtATime'
    BY <2>1 DEF OneWrapupAtATime
  <2>2. ASSUME NEW h \in Host, ClaimWrapup(h) PROVE OneWrapupAtATime'
    <3>1. PICK S \in SUBSET {j \in WrapupJob : wrapup[j] = "claimed"} :
            \/ wrapup' = RecoveredWrapups(S)
            \/ \E j \in ReadyWrapups(RecoveredWrapups(S)) :
                 wrapup' = [RecoveredWrapups(S) EXCEPT ![j] = "claimed"]
      BY <2>2 DEF ClaimWrapup, ClaimMemoryWrapups
    <3> DEFINE recovered == RecoveredWrapups(S)
    <3>2. /\ DOMAIN recovered = WrapupJob
          /\ \A j \in WrapupJob : recovered[j] = "claimed" => wrapup[j] = "claimed"
      BY DEF RecoveredWrapups
    <3>3. recovered = [j \in WrapupJob |-> recovered[j]]
      BY DEF RecoveredWrapups
    <3> HIDE DEF recovered
    <3>4. ASSUME NEW j \in ReadyWrapups(recovered),
                 wrapup' = [recovered EXCEPT ![j] = "claimed"]
          PROVE  OneWrapupAtATime'
      <4>1. \A i \in WrapupJob : recovered[i] # "claimed"
        BY <3>4 DEF ReadyWrapups
      <4>2. \A i \in WrapupJob : i # j => wrapup'[i] = recovered[i]
        BY <3>2, <3>3, <3>4
      <4> QED BY <4>1, <4>2 DEF OneWrapupAtATime
    <3> QED BY <2>1, <3>1, <3>2, <3>4 DEF recovered
  <2>3. ASSUME NEW h \in Host, EnqueueThread(h) PROVE OneWrapupAtATime'
    BY <2>1, <2>3 DEF EnqueueThread, EnqueueMemoryWrapup, WrapupTypeOK
  <2>4. ASSUME NEW h \in Host, CompleteMemoryWrapup(h) PROVE OneWrapupAtATime'
    BY <2>1, <2>4 DEF CompleteMemoryWrapup, CompletedAt, WrapupTypeOK
  <2>5. ASSUME NEW h \in Host, RetryMemoryWrapup(h) PROVE OneWrapupAtATime'
    BY <2>1, <2>5 DEF RetryMemoryWrapup, RetriedWrapup, WrapupTypeOK
  <2>6. ASSUME NEW j \in WrapupJob, PruneMemoryWrapups(j) PROVE OneWrapupAtATime'
    BY <2>1, <2>6 DEF PruneMemoryWrapups, WrapupTypeOK
  <2>7. CASE UNCHANGED wrapup
    BY <2>7 DEF OneWrapupAtATime
  <2>8. ASSUME NEW h \in Host, \/ FindThreadDue(h) \/ LoadPending(h) \/ Analyze(h)
                               \/ RecordSummary(h) \/ AnalysisFails(h) \/ WrapperCrashes(h)
        PROVE  UNCHANGED wrapup
    BY <2>8 DEF FindThreadDue, LoadPending, Analyze, RecordSummary, AnalysisFails, WrapperCrashes
  <2>9. ASSUME \/ UNCHANGED wrapupVars \/ PurgeThreadContextRaw
               \/ \E e \in Entry : EntryArrives(e)
        PROVE  UNCHANGED wrapup
    BY <2>9 DEF wrapupVars, EntryArrives, PurgeThreadContextRaw
  <2> QED BY <2>2, <2>3, <2>4, <2>5, <2>6, <2>7, <2>8, <2>9 DEF WrapupNext, WrapupStep
<1> QED BY <1>1, <1>2, WrapupTypeCorrect, PTL DEF WrapupSpec

-----------------------------------------------------------------------------
(* Enumerations.  The library says nothing of sorted sequences. *)

Asymmetric(Before) == \A x, y : <<x, y>> \in Before => <<y, x>> \notin Before
Sorted(s, S, Before) ==
  /\ s \in [1 .. Cardinality(S) -> S]
  /\ \A i, j \in 1 .. Cardinality(S) : i < j => <<s[i], s[j]>> \in Before

\* A set of numbers that is not empty has a least one.
LEMMA Least ==
  ASSUME NEW T \in SUBSET Nat, T # {}
  PROVE  \E t \in T : \A u \in T : t <= u
<1> DEFINE Less == OpToRel(<, Nat)
<1>1. \A ss \in Nat \X Nat : ss[1] < ss[2] => ss \in Less
  BY Zenon DEF OpToRel
<1>2. IsWellFoundedOn(Less, Nat)
  BY NatLessThanWellFounded, Zenon
<1> HIDE DEF Less
<1>3. \A x, y \in Nat : x < y => <<x, y>> \in Less
  BY <1>1
<1>4. PICK t \in T : \A u \in T : ~(<<u, t>> \in Less)
  BY <1>2, WFMin, Zenon
<1>5. \A u \in T : ~(u < t)
  BY <1>3, <1>4
<1> QED BY <1>5

\* A finite set of integers that is not empty has a greatest one.
LEMMA Greatest ==
  ASSUME NEW T \in SUBSET Int, IsFiniteSet(T), T # {}
  PROVE  \E t \in T : \A u \in T : u <= t
<1> DEFINE Has(V) == V = {} \/ \E t \in V : \A u \in V : u <= t
           Bad == {n \in Nat : \E V \in SUBSET T : Cardinality(V) = n /\ ~Has(V)}
<1>1. ASSUME Bad # {} PROVE FALSE
  <2>1. PICK n \in Bad : \A m \in Bad : n <= m
    BY <1>1, Least
  <2>2. PICK V \in SUBSET T : Cardinality(V) = n /\ ~Has(V)
    BY <2>1
  <2>3. IsFiniteSet(V)
    BY FS_Subset
  <2>4. PICK v \in V : TRUE
    BY <2>2
  <2>5. IsFiniteSet(V \ {v}) /\ Cardinality(V \ {v}) = n - 1
    BY <2>2, <2>3, <2>4, FS_RemoveElement
  <2>6. n # 0
    BY <2>2, <2>3, <2>4, FS_EmptySet
  <2>7. Has(V \ {v})
    BY <2>1, <2>5, <2>6
  <2>8. CASE V \ {v} = {}
    BY <2>2, <2>4, <2>8
  <2>9. CASE V \ {v} # {}
    <3>1. PICK t \in V \ {v} : \A u \in V \ {v} : u <= t
      BY <2>7, <2>9
    <3>2. CASE v <= t
      BY <2>2, <3>1, <3>2
    <3>3. CASE ~(v <= t)
      <4>1. \A u \in V : u <= v
        BY <2>2, <2>4, <3>1, <3>3
      <4> QED BY <2>2, <2>4, <4>1
    <3> QED BY <3>2, <3>3
  <2> QED BY <2>8, <2>9
<1>2. Cardinality(T) \in Nat
  BY FS_CardinalityType
<1> QED BY <1>1, <1>2

\* An enumeration in a strict order takes every element once.
LEMMA SortedBijection ==
  ASSUME NEW S, IsFiniteSet(S),
         NEW Before, Asymmetric(Before),
         NEW s, Sorted(s, S, Before)
  PROVE  /\ \A i, j \in 1 .. Cardinality(S) : s[i] = s[j] => i = j
         /\ \A x \in S : \E i \in 1 .. Cardinality(S) : s[i] = x
<1>1. ASSUME NEW i \in 1 .. Cardinality(S), NEW j \in 1 .. Cardinality(S), s[i] = s[j] PROVE i = j
  <2>1. ~(i < j)
    BY <1>1 DEF Sorted, Asymmetric
  <2>2. ~(j < i)
    BY <1>1 DEF Sorted, Asymmetric
  <2> QED BY <2>1, <2>2
<1>2. IsFiniteSet(1 .. Cardinality(S)) /\ Cardinality(1 .. Cardinality(S)) = Cardinality(S)
  BY FS_Interval, FS_CardinalityType
<1>3. s \in Injection(1 .. Cardinality(S), S)
  BY <1>1, Zenon DEF Injection, IsInjective, Sorted
<1>4. s \in Surjection(1 .. Cardinality(S), S)
  BY <1>2, <1>3, FS_Injection
<1> QED BY <1>1, <1>4, Zenon DEF Surjection

\* An enumeration in order is the one that the places give.
LEMMA InOrderIs ==
  ASSUME NEW S, IsFiniteSet(S), NEW Before, Asymmetric(Before),
         NEW s, Sorted(s, S, Before)
  PROVE  InOrder(S, Before) = s
<1> DEFINE D == 1 .. Cardinality(S)
           Under(x) == {y \in S : <<y, x>> \in Before}
           At(k) == CHOOSE x \in S : Cardinality(Under(x)) = k - 1
<1>1. /\ \A i, j \in D : s[i] = s[j] => i = j
      /\ \A x \in S : \E i \in D : s[i] = x
  BY SortedBijection
<1>2. s \in [D -> S] /\ \A i, j \in D : i < j => <<s[i], s[j]>> \in Before
  BY DEF Sorted
<1>3. \A k \in D : Cardinality(Under(s[k])) = k - 1
  <2> SUFFICES ASSUME NEW k \in D PROVE Cardinality(Under(s[k])) = k - 1
    OBVIOUS
  <2>1. \A j \in D : <<s[j], s[k]>> \in Before <=> j < k
    <3> SUFFICES ASSUME NEW j \in D PROVE <<s[j], s[k]>> \in Before <=> j < k
      OBVIOUS
    <3>1. CASE j < k
      BY <1>2, <3>1
    <3>2. CASE j = k
      BY <3>2 DEF Asymmetric
    <3>3. CASE k < j
      <4>1. <<s[k], s[j]>> \in Before
        BY <1>2, <3>3
      <4> QED BY <3>3, <4>1 DEF Asymmetric
    <3> QED BY <3>1, <3>2, <3>3
  <2> DEFINE P == 1 .. k - 1
             f == [j \in P |-> s[j]]
  <2>2. P \subseteq D /\ \A j \in D : j < k <=> j \in P
    BY FS_CardinalityType
  <2>3. f \in Bijection(P, Under(s[k]))
    <3>1. f \in [P -> Under(s[k])]
      BY <1>2, <2>1, <2>2
    <3>2. \A i, j \in P : f[i] = f[j] => i = j
      BY <1>1, <2>2
    <3>3. \A x \in Under(s[k]) : \E j \in P : f[j] = x
      <4> SUFFICES ASSUME NEW x \in Under(s[k]) PROVE \E j \in P : f[j] = x
        OBVIOUS
      <4>1. PICK j \in D : s[j] = x
        BY <1>1
      <4>2. j \in P
        BY <2>1, <2>2, <4>1
      <4> QED BY <4>1, <4>2
    <3> HIDE DEF f, P, Under
    <3> QED BY <3>1, <3>2, <3>3, Zenon DEF Bijection, Injection, Surjection, IsInjective
  <2>4. IsFiniteSet(P) /\ Cardinality(P) = k - 1
    <3>1. Cardinality(S) \in Nat
      BY FS_CardinalityType
    <3>2. k \in Nat /\ k >= 1
      BY <3>1
    <3> QED BY <3>2, FS_Interval
  <2>5. ExistsBijection(P, Under(s[k]))
    BY <2>3, Zenon DEF ExistsBijection
  <2> HIDE DEF P, Under
  <2> QED BY <2>4, <2>5, FS_Bijection
<1>4. D \subseteq Int
  OBVIOUS
<1> HIDE DEF D, Under
<1>5. \A k \in D : At(k) = s[k]
  <2> SUFFICES ASSUME NEW k \in D PROVE At(k) = s[k]
    OBVIOUS
  <2>1. s[k] \in S /\ Cardinality(Under(s[k])) = k - 1
    BY <1>2, <1>3
  <2>2. \A x \in S : Cardinality(Under(x)) = k - 1 => x = s[k]
    <3> SUFFICES ASSUME NEW x \in S, Cardinality(Under(x)) = k - 1 PROVE x = s[k]
      OBVIOUS
    <3>1. PICK j \in D : s[j] = x
      BY <1>1
    <3>2. j - 1 = k - 1
      BY <1>3, <3>1
    <3>3. j = k
      BY <1>4, <3>2
    <3> QED BY <3>1, <3>3
  <2> QED BY <2>1, <2>2
<1>6. InOrder(S, Before) = [k \in D |-> At(k)]
  BY DEF InOrder, D, Under
<1> HIDE DEF At
<1> QED BY <1>2, <1>5, <1>6

\* Numbers can be put in order.
LEMMA AscendingIs ==
  ASSUME NEW S \in SUBSET Nat, IsFiniteSet(S)
  PROVE  /\ Cardinality(S) \in Nat
         /\ Ascending(S) \in [1 .. Cardinality(S) -> S]
         /\ \A i, j \in 1 .. Cardinality(S) : i < j => Ascending(S)[i] < Ascending(S)[j]
<1> DEFINE Up(s, n) == \A i, j \in 1 .. n : i < j => s[i] < s[j]
           Has(T) == \E s \in [1 .. Cardinality(T) -> T] : Up(s, Cardinality(T))
           Bad == {n \in Nat : \E T \in SUBSET S : Cardinality(T) = n /\ ~Has(T)}
<1>1. ASSUME Bad # {} PROVE FALSE
  <2>1. PICK n \in Bad : \A m \in Bad : n <= m
    BY <1>1, Least
  <2>2. PICK T \in SUBSET S : Cardinality(T) = n /\ ~Has(T)
    BY <2>1
  <2>3. IsFiniteSet(T)
    BY FS_Subset
  <2>4. n # 0
    <3>1. ASSUME n = 0 PROVE T = {} /\ Cardinality(T) = 0
      BY <2>2, <2>3, <3>1, FS_EmptySet
    <3>2. ASSUME n = 0 PROVE [i \in {} |-> 0] \in [1 .. Cardinality(T) -> T]
      BY <3>1, <3>2
    <3>3. ASSUME n = 0 PROVE Up([i \in {} |-> 0], Cardinality(T))
      BY <3>1, <3>3
    <3> QED BY <2>2, <3>2, <3>3
  <2>5. T # {}
    BY <2>2, <2>4, FS_EmptySet
  <2>6. PICK b \in T : \A x \in T : x <= b
    BY <2>3, <2>5, Greatest
  <2>7. IsFiniteSet(T \ {b}) /\ Cardinality(T \ {b}) = n - 1
    BY <2>2, <2>3, <2>6, FS_RemoveElement
  <2>8. Has(T \ {b})
    <3>1. n - 1 \in Nat /\ ~(n <= n - 1)
      BY <2>1, <2>4
    <3>2. n - 1 \notin Bad
      BY <2>1, <3>1
    <3>3. T \ {b} \in SUBSET S
      BY <2>2
    <3> HIDE DEF Has
    <3> QED BY <2>7, <3>1, <3>2, <3>3
  <2>9. PICK s \in [1 .. n - 1 -> T \ {b}] : Up(s, n - 1)
    BY <2>7, <2>8
  <2> DEFINE t == [i \in 1 .. n |-> IF i = n THEN b ELSE s[i]]
  <2>10. t \in [1 .. n -> T]
    BY <2>1, <2>4, <2>6, <2>9
  <2>11. Up(t, n)
    <3> SUFFICES ASSUME NEW i \in 1 .. n, NEW j \in 1 .. n, i < j
                 PROVE  t[i] < t[j]
      OBVIOUS
    <3>1. i \in 1 .. n - 1 /\ s[i] \in T \ {b} /\ t[i] = s[i]
      BY <2>1, <2>9
    <3>2. CASE j = n
      <4>1. t[j] = b /\ s[i] <= b /\ s[i] # b
        BY <2>6, <3>1, <3>2
      <4>2. s[i] \in Nat /\ b \in Nat
        BY <2>2, <2>6, <3>1
      <4> HIDE DEF t
      <4> QED BY <3>1, <4>1, <4>2
    <3>3. CASE j # n
      BY <2>1, <2>9, <3>1, <3>3
    <3> QED BY <3>2, <3>3
  <2> QED BY <2>2, <2>10, <2>11
<1>2. Cardinality(S) \in Nat
  BY FS_CardinalityType
<1>3. Has(S)
  BY <1>1, <1>2
<1>4. PICK s \in [1 .. Cardinality(S) -> S] : Up(s, Cardinality(S))
  BY <1>3
<1> DEFINE B == {p \in S \X S : p[1] < p[2]}
<1>5. \A i, j \in 1 .. Cardinality(S) : i < j => <<s[i], s[j]>> \in B
  BY <1>2, <1>4
<1>6. Asymmetric(B)
  <2> SUFFICES ASSUME NEW x, NEW y, <<x, y>> \in B PROVE <<y, x>> \notin B
    BY DEF Asymmetric
  <2>1. x \in Nat /\ y \in Nat /\ x < y
    OBVIOUS
  <2>2. ASSUME <<y, x>> \in B PROVE y < x
    BY <2>2
  <2> QED BY <2>1, <2>2
<1>7. Sorted(s, S, B)
  BY <1>4, <1>5 DEF Sorted
<1> HIDE DEF B
<1>8. InOrder(S, B) = s
  BY <1>2, <1>6, <1>7, InOrderIs
<1> QED BY <1>2, <1>4, <1>8 DEF Ascending, B

\* A filter keeps the items it picks, in their order.
LEMMA PickedIs ==
  ASSUME NEW X, NEW s \in Seq(X), NEW S \in SUBSET DOMAIN s
  PROVE  LET n == Cardinality(S)
             f == Ascending(S) IN
         /\ n \in Nat /\ f \in [1 .. n -> S]
         /\ \A i, j \in 1 .. n : i < j => f[i] < f[j]
         /\ \A i \in S : \E k \in 1 .. n : f[k] = i
         /\ Picked(s, S) \in Seq(X) /\ Len(Picked(s, S)) = n
         /\ \A k \in 1 .. n : Picked(s, S)[k] = s[f[k]]
<1> DEFINE n == Cardinality(S)
           f == Ascending(S)
           B == {p \in S \X S : p[1] < p[2]}
<1>1. DOMAIN s = 1 .. Len(s) /\ Len(s) \in Nat
  BY LenProperties
<1>2. S \in SUBSET Nat
  BY <1>1
<1>3. IsFiniteSet(S)
  <2>1. IsFiniteSet(1 .. Len(s))
    BY <1>1, FS_Interval
  <2> QED BY <1>1, <2>1, FS_Subset
<1>4. n \in Nat /\ f \in [1 .. n -> S] /\ \A i, j \in 1 .. n : i < j => f[i] < f[j]
  BY <1>2, <1>3, AscendingIs
<1> HIDE DEF f, n
<1>5. \A i \in S : \E k \in 1 .. n : f[k] = i
  <2>1. \A i, j \in 1 .. n : i < j => <<f[i], f[j]>> \in B
    BY <1>4
  <2>2. Asymmetric(B)
    <3> SUFFICES ASSUME NEW x, NEW y, <<x, y>> \in B, <<y, x>> \in B PROVE FALSE
      BY DEF Asymmetric
    <3>1. x \in Nat /\ y \in Nat /\ x < y
      BY <1>2
    <3>2. y < x
      OBVIOUS
    <3> HIDE DEF B
    <3> QED BY <3>1, <3>2
  <2> HIDE DEF B
  <2>3. Sorted(f, S, B)
    BY <1>4, <2>1 DEF Sorted, n
  <2> QED BY <1>3, <2>2, <2>3, SortedBijection DEF n
<1>6. \A i \in DOMAIN s : s[i] \in X
  BY <1>1, ElementOfSeq
<1>7. Picked(s, S) = [k \in 1 .. n |-> s[f[k]]]
  <2>1. DOMAIN f = 1 .. n
    BY <1>4
  <2>2. Picked(s, S) = [k \in DOMAIN f |-> s[f[k]]]
    BY Zenon DEF Picked, f
  <2> QED BY <2>1, <2>2
<1>8. \A k \in 1 .. n : f[k] \in S /\ s[f[k]] \in X
  BY <1>4, <1>6
<1>9. [k \in 1 .. n |-> s[f[k]]] \in Seq(X) /\ Len([k \in 1 .. n |-> s[f[k]]]) = n
  <2> DEFINE t == [k \in 1 .. n |-> s[f[k]]]
  <2>1. t \in [1 .. n -> X]
    BY <1>8
  <2> HIDE DEF t
  <2>2. t \in Seq(X) /\ Len(t) = n
    BY <1>4, <2>1
  <2> QED BY <2>2 DEF t
<1> QED BY <1>4, <1>5, <1>7, <1>9 DEF f, n

-----------------------------------------------------------------------------
(* Documents *)

\* What a document is made of.
LEMMA DocFacts ==
  ASSUME NEW records, NEW next, IsDocument(records, next)
  PROVE  /\ records \in Seq(RecordOf) /\ Len(records) \in Nat
         /\ DOMAIN records = 1 .. Len(records) /\ next \in Nat
         /\ \A i \in DOMAIN records :
              /\ records[i] \in RecordOf /\ records[i].id \in Record /\ records[i].id \in Nat
              /\ records[i].over \in BOOLEAN /\ records[i].id < next
              /\ records[i] = [id |-> records[i].id, over |-> records[i].over]
<1>1. records \in Seq(RecordOf) /\ next \in Nat /\ \A i \in DOMAIN records : records[i].id < next
  BY DEF IsDocument
<1>2. Len(records) \in Nat /\ DOMAIN records = 1 .. Len(records)
  BY <1>1, LenProperties
<1>3. \A i \in DOMAIN records : records[i] \in RecordOf
  BY <1>1, <1>2, ElementOfSeq
<1>4. Record \subseteq Nat
  BY SqliteBounds DEF Record
<1>5. \A r \in RecordOf : /\ r.id \in Record /\ r.over \in BOOLEAN
                         /\ r = [id |-> r.id, over |-> r.over]
  BY DEF RecordOf
<1> QED BY <1>1, <1>2, <1>3, <1>4, <1>5

\* Normalizing makes of a document a document.
LEMMA NormalizedIsDoc ==
  ASSUME NEW records, NEW next, IsDocument(records, next)
  PROVE  IsDocument(Normalized(records), next)
<1> DEFINE over == {records[i].id : i \in {j \in DOMAIN records : records[j].over}}
           K == {i \in over : Cardinality({j \in over : j > i}) < KeptRecords}
           O == {i \in DOMAIN records : ~records[i].over}
           kept == Ascending(K)
           open == Picked(records, O)
           of == Ascending(O)
           A == [k \in DOMAIN kept |-> [id |-> kept[k], over |-> TRUE]]
<1>1. /\ K \in SUBSET Nat /\ K \subseteq Record /\ IsFiniteSet(K)
      /\ \A i \in K : i < next /\ \E m \in DOMAIN records : records[m].id = i /\ records[m].over
  <2>1. K \subseteq over
    OBVIOUS
  <2>2. \A i \in over : i \in Record /\ i < next /\ \E m \in DOMAIN records : records[m].id = i /\ records[m].over
    <3> SUFFICES ASSUME NEW i \in over
                 PROVE  i \in Record /\ i < next /\ \E m \in DOMAIN records : records[m].id = i /\ records[m].over
      OBVIOUS
    <3>1. PICK m \in DOMAIN records : records[m].id = i /\ records[m].over
      OBVIOUS
    <3> QED BY <3>1, DocFacts
  <2>3. K \subseteq Record
    BY <2>1, <2>2
  <2>4. Record \subseteq Nat /\ IsFiniteSet(Record)
    BY SqliteBounds, FS_Interval DEF Record
  <2> HIDE DEF K, over
  <2> QED BY <2>1, <2>2, <2>3, <2>4, FS_Subset
<1>2. O \in SUBSET Nat /\ O \subseteq DOMAIN records /\ IsFiniteSet(O)
  <2>1. DOMAIN records = 1 .. Len(records) /\ Len(records) \in Nat
    BY DEF IsDocument
  <2>2. IsFiniteSet(1 .. Len(records))
    BY <2>1, FS_Interval
  <2>3. O \subseteq 1 .. Len(records)
    BY <2>1
  <2> HIDE DEF O
  <2>4. IsFiniteSet(O)
    BY <2>2, <2>3, FS_Subset
  <2> QED BY <2>1, <2>3, <2>4
<1>3. \A x \in O : ~records[x].over
  OBVIOUS
<1> HIDE DEF K, O, over
<1>4. /\ Cardinality(K) \in Nat /\ kept \in [1 .. Cardinality(K) -> K]
      /\ \A i, j \in 1 .. Cardinality(K) : i < j => kept[i] < kept[j]
  BY <1>1, AscendingIs
<1>5. /\ Cardinality(O) \in Nat /\ of \in [1 .. Cardinality(O) -> O]
      /\ \A i, j \in 1 .. Cardinality(O) : i < j => of[i] < of[j]
      /\ open \in Seq(RecordOf) /\ Len(open) = Cardinality(O)
      /\ \A k \in 1 .. Cardinality(O) : open[k] = records[of[k]]
  <2>1. records \in Seq(RecordOf) /\ O \in SUBSET DOMAIN records
    BY <1>2, DocFacts
  <2> QED BY <2>1, PickedIs
<1> DEFINE a == Cardinality(K)
           b == Cardinality(O)
<1> HIDE DEF kept, open, of, a, b
<1>6. /\ A \in Seq(RecordOf) /\ Len(A) = a /\ a \in Nat
      /\ \A k \in 1 .. a : A[k].id \in K /\ A[k].id = kept[k]
      /\ \A k, l \in 1 .. a : A[k].id = A[l].id => k = l
  <2>1. a \in Nat /\ DOMAIN kept = 1 .. a
    BY <1>4 DEF a
  <2>2. \A k \in 1 .. a : kept[k] \in K /\ kept[k] \in Nat
    BY <1>1, <1>4 DEF a
  <2>3. \A k \in 1 .. a : A[k] = [id |-> kept[k], over |-> TRUE]
    BY <2>1
  <2>4. A \in [1 .. a -> RecordOf]
    BY <1>1, <2>1, <2>2 DEF RecordOf
  <2>5. \A k, l \in 1 .. a : kept[k] = kept[l] => k = l
    <3> SUFFICES ASSUME NEW k \in 1 .. a, NEW l \in 1 .. a, kept[k] = kept[l] PROVE k = l
      OBVIOUS
    <3>1. ~(k < l) /\ ~(l < k)
      BY <1>4, <2>1, <2>2 DEF a
    <3> QED BY <3>1, <2>1
  <2> HIDE DEF A
  <2> QED BY <2>1, <2>2, <2>3, <2>4, <2>5
<1>7. /\ open \in Seq(RecordOf) /\ Len(open) = b /\ b \in Nat
      /\ \A k \in 1 .. b : \E o \in DOMAIN records : open[k] = records[o] /\ ~records[o].over
      /\ \A k, l \in 1 .. b : open[k].id = open[l].id => k = l
  <2>1. b \in Nat /\ open \in Seq(RecordOf) /\ Len(open) = b
    BY <1>5 DEF b
  <2>2. \A k \in 1 .. b : of[k] \in O /\ of[k] \in Nat /\ of[k] \in DOMAIN records
                          /\ open[k] = records[of[k]]
    BY <1>2, <1>5 DEF b
  <2>3. \A k, l \in 1 .. b : of[k] = of[l] => k = l
    <3> SUFFICES ASSUME NEW k \in 1 .. b, NEW l \in 1 .. b, of[k] = of[l] PROVE k = l
      OBVIOUS
    <3>1. ~(k < l) /\ ~(l < k)
      BY <1>5, <2>1, <2>2 DEF b
    <3> QED BY <3>1, <2>1
  <2>4. \A k, l \in 1 .. b : open[k].id = open[l].id => of[k] = of[l]
    BY <2>2 DEF IsDocument
  <2> QED BY <1>3, <2>1, <2>2, <2>3, <2>4
<1> HIDE DEF A
<1>8. Normalized(records) = A \o open
  BY Zenon DEF Normalized, A, kept, open, K, O, over
<1> DEFINE N == A \o open
<1>9. /\ N \in Seq(RecordOf) /\ DOMAIN N = 1 .. a + b
      /\ \A k \in 1 .. a : N[k] = A[k]
      /\ \A k \in a + 1 .. a + b : k - a \in 1 .. b /\ N[k] = open[k - a]
  <2>1. /\ N \in Seq(RecordOf) /\ Len(N) = a + b
        /\ \A k \in 1 .. a + b : N[k] = IF k <= a THEN A[k] ELSE open[k - a]
    <3>1. A \in Seq(RecordOf) /\ open \in Seq(RecordOf) /\ Len(A) = a /\ Len(open) = b
      BY <1>6, <1>7
    <3>2. /\ N \in Seq(RecordOf) /\ Len(N) = Len(A) + Len(open)
          /\ \A k \in 1 .. Len(A) + Len(open) : N[k] = IF k <= Len(A) THEN A[k] ELSE open[k - Len(A)]
      BY <3>1, ConcatProperties, Zenon
    <3> HIDE DEF N
    <3> QED BY <3>1, <3>2
  <2> HIDE DEF N
  <2>2. DOMAIN N = 1 .. a + b
    BY <2>1, LenProperties
  <2>3. \A k \in 1 .. a : k \in 1 .. a + b /\ k <= a
    BY <1>6, <1>7
  <2>4. \A k \in a + 1 .. a + b : k \in 1 .. a + b /\ ~(k <= a) /\ k - a \in 1 .. b
    BY <1>6, <1>7
  <2> QED BY <2>1, <2>2, <2>3, <2>4
<1> HIDE DEF N
<1>10. \A k \in DOMAIN N : N[k].id < next
  <2> SUFFICES ASSUME NEW k \in DOMAIN N PROVE N[k].id < next
    OBVIOUS
  <2>1. CASE k \in 1 .. a
    BY <1>1, <1>6, <1>9, <2>1
  <2>2. CASE k \in a + 1 .. a + b
    BY <1>7, <1>9, <2>2 DEF IsDocument
  <2> QED BY <1>6, <1>7, <1>9, <2>1, <2>2
<1>11. \A k \in 1 .. a, l \in 1 .. b : A[k].id # open[l].id
  <2> SUFFICES ASSUME NEW k \in 1 .. a, NEW l \in 1 .. b, A[k].id = open[l].id PROVE FALSE
    OBVIOUS
  <2>1. PICK m \in DOMAIN records : records[m].id = A[k].id /\ records[m].over
    BY <1>1, <1>6
  <2>2. PICK o \in DOMAIN records : open[l] = records[o] /\ ~records[o].over
    BY <1>7
  <2> QED BY <2>1, <2>2 DEF IsDocument
<1>12. \A k, l \in DOMAIN N : N[k].id = N[l].id => k = l
  <2> SUFFICES ASSUME NEW k \in DOMAIN N, NEW l \in DOMAIN N, N[k].id = N[l].id PROVE k = l
    OBVIOUS
  <2>0. \A x \in DOMAIN N : x \in 1 .. a \/ x \in a + 1 .. a + b
    BY <1>6, <1>7, <1>9
  <2>1. CASE k \in 1 .. a /\ l \in 1 .. a
    BY <1>6, <1>9, <2>1
  <2>2. CASE k \in 1 .. a /\ l \in a + 1 .. a + b
    BY <1>9, <1>11, <2>2
  <2>3. CASE k \in a + 1 .. a + b /\ l \in 1 .. a
    BY <1>9, <1>11, <2>3
  <2>4. CASE k \in a + 1 .. a + b /\ l \in a + 1 .. a + b
    <3>1. k - a = l - a
      BY <1>7, <1>9, <2>4
    <3> QED BY <1>6, <1>7, <3>1, <2>4
  <2> QED BY <2>0, <2>1, <2>2, <2>3, <2>4
<1> QED BY <1>8, <1>9, <1>10, <1>12 DEF N, IsDocument

\* So does every operation.
LEMMA OperationIsDoc ==
  ASSUME NEW records, NEW next, IsDocument(records, next),
         NEW d \in Operations([records |-> records, next |-> next])
  PROVE  d = [records |-> d.records, next |-> d.next] /\ IsDocument(d.records, d.next)
<1> DEFINE D == [records |-> records, next |-> next]
<1>0. /\ records \in Seq(RecordOf) /\ DOMAIN records = 1 .. Len(records) /\ Len(records) \in Nat
      /\ \A i \in 1 .. Len(records) : records[i] \in RecordOf /\ records[i].id \in Nat /\ records[i].over \in BOOLEAN
  BY DocFacts
<1>1. CASE next \in Record /\ d = [records |-> Append(records, [id |-> next, over |-> FALSE]), next |-> next + 1]
  <2> DEFINE R == Append(records, [id |-> next, over |-> FALSE])
  <2>1. [id |-> next, over |-> FALSE] \in RecordOf /\ next \in Nat
    BY <1>1, SqliteBounds DEF RecordOf, Record
  <2>2. /\ R \in Seq(RecordOf) /\ DOMAIN R = 1 .. Len(records) + 1
        /\ \A i \in 1 .. Len(records) : R[i] = records[i]
        /\ R[Len(records) + 1] = [id |-> next, over |-> FALSE]
    BY <1>0, <2>1
  <2> HIDE DEF R
  <2>3. \A i \in DOMAIN R : R[i].id < next + 1
    <3> SUFFICES ASSUME NEW i \in DOMAIN R PROVE R[i].id < next + 1
      OBVIOUS
    <3>1. CASE i \in 1 .. Len(records)
      BY <1>0, <2>1, <2>2, <3>1 DEF IsDocument
    <3>2. CASE i = Len(records) + 1
      BY <2>1, <2>2, <3>2
    <3> QED BY <1>0, <2>2, <3>1, <3>2
  <2>4. \A i, j \in DOMAIN R : R[i].id = R[j].id => i = j
    <3> SUFFICES ASSUME NEW i \in DOMAIN R, NEW j \in DOMAIN R, R[i].id = R[j].id PROVE i = j
      OBVIOUS
    <3>1. \A x \in DOMAIN R : x \in 1 .. Len(records) \/ x = Len(records) + 1
      BY <1>0, <2>2
    <3>2. \A x \in 1 .. Len(records) : R[x].id < next /\ R[x].id \in Nat
      BY <1>0, <2>2 DEF IsDocument
    <3>3. R[Len(records) + 1].id = next
      BY <2>2
    <3>4. CASE i \in 1 .. Len(records) /\ j \in 1 .. Len(records)
      BY <1>0, <2>2, <3>4 DEF IsDocument
    <3> QED BY <2>1, <3>1, <3>2, <3>3, <3>4
  <2>5. d.records = R /\ d.next = next + 1 /\ d = [records |-> R, next |-> next + 1]
    BY <1>1 DEF R
  <2> QED BY <2>1, <2>2, <2>3, <2>4, <2>5 DEF IsDocument
<1>2. ASSUME NEW i \in DOMAIN records, d = [D EXCEPT !.records[i].over = TRUE]
      PROVE  d = [records |-> d.records, next |-> d.next] /\ IsDocument(d.records, d.next)
  <2> DEFINE R == [records EXCEPT ![i].over = TRUE]
  <2>1. [records[i] EXCEPT !.over = TRUE] \in RecordOf /\ [records[i] EXCEPT !.over = TRUE].id = records[i].id
    BY <1>0 DEF RecordOf
  <2>2. R \in Seq(RecordOf) /\ DOMAIN R = DOMAIN records
    BY <1>0, <2>1
  <2>3. \A k \in DOMAIN R : R[k].id = records[k].id
    BY <2>1, <2>2, <1>0
  <2>4. d = [records |-> R, next |-> next]
    BY <1>2
  <2> HIDE DEF R
  <2> QED BY <2>2, <2>3, <2>4 DEF IsDocument
<1>3. ASSUME NEW i \in DOMAIN records,
             d = [D EXCEPT !.records = Picked(records, DOMAIN records \ {i})]
      PROVE  d = [records |-> d.records, next |-> d.next] /\ IsDocument(d.records, d.next)
  <2> DEFINE S == DOMAIN records \ {i}
             n == Cardinality(S)
             f == Ascending(S)
             R == Picked(records, S)
  <2>1. d = [records |-> R, next |-> next]
    BY <1>3
  <2>2. /\ n \in Nat /\ f \in [1 .. n -> S]
        /\ \A k, l \in 1 .. n : k < l => f[k] < f[l]
        /\ R \in Seq(RecordOf) /\ Len(R) = n
        /\ \A k \in 1 .. n : R[k] = records[f[k]]
    <3>1. S \in SUBSET DOMAIN records
      OBVIOUS
    <3> HIDE DEF S
    <3>2. \A p, q \in 1 .. n : p < q => f[p] < f[q]
      BY <1>0, <3>1, PickedIs
    <3>3. n \in Nat /\ f \in [1 .. n -> S] /\ R \in Seq(RecordOf) /\ Len(R) = n
      BY <1>0, <3>1, PickedIs
    <3>4. \A k \in 1 .. n : R[k] = records[f[k]]
      BY <1>0, <3>1, PickedIs
    <3> QED BY <3>2, <3>3, <3>4
  <2>3. S \subseteq DOMAIN records
    OBVIOUS
  <2> HIDE DEF S, n, f, R
  <2>4. DOMAIN R = 1 .. n
    BY <2>2, LenProperties
  <2>5. \A k \in 1 .. n : f[k] \in DOMAIN records /\ f[k] \in Nat
    BY <1>0, <2>2, <2>3
  <2>6. \A k, l \in 1 .. n : f[k] = f[l] => k = l
    <3> SUFFICES ASSUME NEW k \in 1 .. n, NEW l \in 1 .. n, f[k] = f[l] PROVE k = l
      OBVIOUS
    <3>1. ~(k < l) /\ ~(l < k)
      BY <2>2, <2>5
    <3> QED BY <2>2, <3>1
  <2>7. \A k, l \in DOMAIN R : R[k].id = R[l].id => k = l
    <3> SUFFICES ASSUME NEW k \in DOMAIN R, NEW l \in DOMAIN R, R[k].id = R[l].id PROVE k = l
      OBVIOUS
    <3>1. f[k] = f[l]
      BY <2>2, <2>4, <2>5 DEF IsDocument
    <3> QED BY <2>4, <2>6, <3>1
  <2>8. \A k \in DOMAIN R : R[k].id < next
    BY <2>2, <2>4, <2>5 DEF IsDocument
  <2>9. next \in Nat \ {0}
    BY DEF IsDocument
  <2>10. IsDocument(R, next)
    BY <2>2, <2>7, <2>8, <2>9 DEF IsDocument
  <2> QED BY <2>1, <2>10
<1> QED BY <1>1, <1>2, <1>3 DEF Operations

-----------------------------------------------------------------------------
(* Tables *)

\* A table as the program writes one: of records, in rows of their own.
Table(table) ==
  /\ DOMAIN table \subseteq Record
  /\ \A k \in DOMAIN table : /\ table[k] \in Row
                             /\ table[k] = [ordinal |-> table[k].ordinal, over |-> table[k].over]
  /\ table = [k \in DOMAIN table |-> table[k]]

LEMMA RecordIsFinite == IsFiniteSet(Record) /\ Record \subseteq Nat
BY SqliteBounds, FS_Interval DEF Record

\* The next ordinal is behind every row.
LEMMA NextOrdinal ==
  ASSUME NEW table, Table(table)
  PROVE  LET last == Sets!Max({table[k].ordinal : k \in DOMAIN table} \cup {-1}) IN
         /\ last \in Int /\ last >= -1
         /\ \A k \in DOMAIN table : table[k].ordinal <= last
<1> DEFINE T == {table[k].ordinal : k \in DOMAIN table}
           U == T \cup {-1}
<1>1. \A k \in DOMAIN table : table[k].ordinal \in Nat
  BY DEF Table, Row
<1>2. IsFiniteSet(DOMAIN table)
  BY RecordIsFinite, FS_Subset DEF Table
<1>3. IsFiniteSet(T)
  <2> DEFINE f == [k \in DOMAIN table |-> table[k].ordinal]
  <2>1. f \in Surjection(DOMAIN table, T)
    BY DEF Surjection
  <2> QED BY <1>2, <2>1, FS_Surjection
<1>4. U \in SUBSET Int /\ U # {} /\ IsFiniteSet(U)
  BY <1>1, <1>3, FS_AddElement
<1> HIDE DEF U
<1>5. \E x \in U : \A y \in U : x >= y
  <2>1. PICK t \in U : \A u \in U : u <= t
    BY <1>4, Greatest
  <2> QED BY <2>1, <1>4
<1>6. Sets!Max(U) \in U /\ \A y \in U : Sets!Max(U) >= y
  BY <1>5 DEF Sets!Max
<1>7. -1 \in U /\ \A k \in DOMAIN table : table[k].ordinal \in U
  BY DEF U
<1> HIDE DEF T
<1>8. Sets!Max(U) \in Int
  BY <1>4, <1>6
<1>9. \A k \in DOMAIN table : table[k].ordinal <= Sets!Max(U)
  BY <1>1, <1>6, <1>7, <1>8
<1>10. Sets!Max(U) >= -1
  BY <1>6, <1>7
<1> QED BY <1>8, <1>9, <1>10 DEF U, T

\* A set of the first numbers that has no gap is an interval.
LEMMA Prefix ==
  ASSUME NEW n \in Nat, NEW old \in SUBSET (1 .. n),
         \A i \in old : \A j \in 1 .. i : j \in old
  PROVE  Cardinality(old) \in Nat /\ old = 1 .. Cardinality(old)
<1>1. IsFiniteSet(old)
  <2>1. IsFiniteSet(1 .. n)
    BY FS_Interval
  <2> QED BY <2>1, FS_Subset
<1>2. CASE old = {}
  BY <1>2, FS_EmptySet
<1>3. CASE old # {}
  <2>1. PICK m \in old : \A u \in old : u <= m
    BY <1>1, <1>3, Greatest
  <2>2. m \in 1 .. n /\ m \in Nat
    OBVIOUS
  <2>3. \A j \in 1 .. m : j \in old
    OBVIOUS
  <2>4. \A u \in old : u \in 1 .. m
    BY <2>1, <2>2
  <2>5. old = 1 .. m
    BY <2>3, <2>4
  <2>6. Cardinality(1 .. m) = m
    BY <2>2, FS_Interval
  <2> QED BY <2>2, <2>5, <2>6
<1> QED BY <1>2, <1>3

\* The ordinals of a document increase.
LEMMA OrdinalsIncrease ==
  ASSUME NEW table, Table(table), NEW records, NEW next, IsDocument(records, next)
  PROVE  LET o == Ordinals(table, records) IN
         /\ DOMAIN o = DOMAIN records
         /\ \A i \in DOMAIN records : o[i] \in Nat
         /\ \A i, j \in DOMAIN records : i < j => o[i] < o[j]
<1> DEFINE has(i) == records[i].id \in DOMAIN table
           old == {i \in DOMAIN records : has(i)}
           at(i) == table[records[i].id].ordinal
           existingOrderPreserved == \A i, j \in old : i < j => at(i) < at(j)
           newRecordsOnlyAtTail == \A i \in old : \A j \in 1 .. i : has(j)
           last == Sets!Max({table[k].ordinal : k \in DOMAIN table} \cup {-1})
           nextOrdinal == last + 1
           m == Cardinality(old)
           n == Len(records)
           o == Ordinals(table, records)
<1>1. o = [i \in DOMAIN records |->
             IF ~(existingOrderPreserved /\ newRecordsOnlyAtTail) THEN i - 1
             ELSE IF has(i) THEN at(i) ELSE nextOrdinal + i - m - 1]
  BY Zenon DEF Ordinals
<1>2. DOMAIN records = 1 .. n /\ n \in Nat
  BY DocFacts
<1>3. last \in Int /\ last >= -1 /\ \A k \in DOMAIN table : table[k].ordinal <= last
  BY NextOrdinal
<1>4. \A i \in DOMAIN records : has(i) => at(i) \in Nat /\ at(i) <= last
  BY <1>3 DEF Table, Row
<1> DEFINE Good(f) == /\ DOMAIN f = DOMAIN records
                      /\ \A i \in DOMAIN records : f[i] \in Nat
                      /\ \A i, j \in DOMAIN records : i < j => f[i] < f[j]
<1>5. ASSUME ~(existingOrderPreserved /\ newRecordsOnlyAtTail) PROVE Good(o)
  <2>1. o = [i \in DOMAIN records |-> i - 1]
    BY <1>1, <1>5
  <2> HIDE DEF o
  <2>2. DOMAIN o = DOMAIN records /\ \A i \in DOMAIN records : o[i] = i - 1 /\ i \in Nat /\ i >= 1
    BY <1>2, <2>1
  <2> QED BY <2>2
<1>6. ASSUME existingOrderPreserved /\ newRecordsOnlyAtTail PROVE Good(o)
  <2>1. o = [i \in DOMAIN records |-> IF has(i) THEN at(i) ELSE nextOrdinal + i - m - 1]
    BY <1>1, <1>6
  <2>2. m \in Nat /\ old = 1 .. m
    <3>1. old \in SUBSET (1 .. n)
      BY <1>2
    <3>2. \A i \in old : \A j \in 1 .. i : j \in old
      BY <1>2, <1>6
    <3> HIDE DEF old
    <3> QED BY <1>2, <3>1, <3>2, Prefix
  <2>3. \A i \in DOMAIN records : has(i) <=> i <= m
    BY <1>2, <2>2
  <2>4. \A i, j \in DOMAIN records : has(i) /\ has(j) /\ i < j => at(i) < at(j)
    BY <1>6
  <2> HIDE DEF o, has, at, m, last
  <2>5. \A i \in DOMAIN records : has(i) => o[i] = at(i) /\ o[i] \in Nat
    BY <1>4, <2>1
  <2>6. \A i \in DOMAIN records : ~has(i) => o[i] = last + i - m /\ o[i] \in Nat /\ o[i] > last
    <3> SUFFICES ASSUME NEW i \in DOMAIN records, ~has(i)
                 PROVE  o[i] = last + i - m /\ o[i] \in Nat /\ o[i] > last
      OBVIOUS
    <3>1. i \in Nat /\ i > m
      BY <1>2, <2>2, <2>3
    <3>2. o[i] = last + 1 + i - m - 1
      BY <2>1
    <3> QED BY <1>3, <2>2, <3>1, <3>2
  <2>7. \A i, j \in DOMAIN records : i < j => o[i] < o[j]
    <3> SUFFICES ASSUME NEW i \in DOMAIN records, NEW j \in DOMAIN records, i < j
                 PROVE  o[i] < o[j]
      OBVIOUS
    <3>0. i \in Nat /\ j \in Nat
      BY <1>2
    <3>1. CASE has(i) /\ has(j)
      BY <2>4, <2>5, <3>1
    <3>2. CASE has(i) /\ ~has(j)
      BY <1>3, <1>4, <2>5, <2>6, <3>2
    <3>3. CASE ~has(i) /\ has(j)
      BY <2>2, <2>3, <3>0, <3>3
    <3>4. CASE ~has(i) /\ ~has(j)
      BY <1>3, <2>2, <2>6, <3>0, <3>4
    <3> QED BY <3>1, <3>2, <3>3, <3>4
  <2> QED BY <2>1, <2>5, <2>6, <2>7
<1>7. Good(Ordinals(table, records))
  <2> HIDE DEF Good
  <2> QED BY <1>5, <1>6
<1> QED BY <1>7

\* What is written of a document is read back as that document.
LEMMA RoundTrip ==
  ASSUME NEW table, Table(table), NEW records, NEW next, IsDocument(records, next)
  PROVE  /\ Table(NextSnapshot(table, records))
         /\ RecordsOf(NextSnapshot(table, records)) = records
<1> DEFINE o == Ordinals(table, records)
           n == Len(records)
           keys == {records[i].id : i \in DOMAIN records}
           T == NextSnapshot(table, records)
           s == [i \in 1 .. n |-> records[i].id]
           B == {p \in keys \X keys :
                   \/ T[p[1]].ordinal < T[p[2]].ordinal
                   \/ T[p[1]].ordinal = T[p[2]].ordinal /\ p[1] < p[2]}
<1>1. /\ DOMAIN records = 1 .. n /\ n \in Nat
      /\ \A i \in DOMAIN records :
           /\ records[i].id \in Record /\ records[i].id \in Nat
           /\ records[i].over \in BOOLEAN
           /\ records[i] = [id |-> records[i].id, over |-> records[i].over]
  BY DocFacts
<1>2. /\ DOMAIN o = DOMAIN records
      /\ \A i \in DOMAIN records : o[i] \in Nat
      /\ \A i, j \in DOMAIN records : i < j => o[i] < o[j]
  BY OrdinalsIncrease
<1>3. \A i, j \in DOMAIN records : records[i].id = records[j].id => i = j
  BY DEF IsDocument
<1>0. records = [k \in 1 .. n |-> records[k]]
  <2>1. records \in Seq(RecordOf)
    BY DEF IsDocument
  <2>2. records \in [1 .. n -> RecordOf]
    BY <2>1, LenProperties
  <2> QED BY <2>2
<1> HIDE DEF o, n
<1>4. T = [k \in keys |-> LET i == CHOOSE j \in DOMAIN records : records[j].id = k IN
                          [ordinal |-> o[i], over |-> records[i].over]]
  BY Zenon DEF NextSnapshot, o
<1>5. \A i \in DOMAIN records : T[records[i].id] = [ordinal |-> o[i], over |-> records[i].over]
  <2> SUFFICES ASSUME NEW i \in DOMAIN records
               PROVE  T[records[i].id] = [ordinal |-> o[i], over |-> records[i].over]
    OBVIOUS
  <2>1. (CHOOSE j \in DOMAIN records : records[j].id = records[i].id) = i
    BY <1>3
  <2>2. records[i].id \in keys
    OBVIOUS
  <2> HIDE DEF T, keys
  <2> QED BY <1>4, <2>1, <2>2
<1>17. \A i \in DOMAIN records : /\ T[records[i].id].ordinal = o[i]
                                /\ T[records[i].id].over = records[i].over
  <2> SUFFICES ASSUME NEW i \in DOMAIN records
               PROVE  T[records[i].id].ordinal = o[i] /\ T[records[i].id].over = records[i].over
    OBVIOUS
  <2>1. T[records[i].id] = [ordinal |-> o[i], over |-> records[i].over]
    BY <1>5
  <2> HIDE DEF T, keys, s, B
  <2> QED BY <2>1
<1> HIDE DEF T
<1>6. \A k \in keys : \E i \in DOMAIN records : k = records[i].id
  OBVIOUS
<1>7. DOMAIN T = keys
  BY <1>4
<1> HIDE DEF keys
<1>8. Table(T)
  <2>1. keys \subseteq Record
    BY <1>1, <1>6
  <2>2. \A k \in keys : T[k] \in Row /\ T[k] = [ordinal |-> T[k].ordinal, over |-> T[k].over]
    <3> SUFFICES ASSUME NEW k \in keys
                 PROVE  T[k] \in Row /\ T[k] = [ordinal |-> T[k].ordinal, over |-> T[k].over]
      OBVIOUS
    <3>1. PICK i \in DOMAIN records : k = records[i].id
      BY <1>6
    <3>2. T[k] = [ordinal |-> o[i], over |-> records[i].over]
      BY <1>5, <3>1
    <3>3. o[i] \in Nat /\ records[i].over \in BOOLEAN
      BY <1>1, <1>2
    <3> QED BY <3>2, <3>3 DEF Row
  <2>3. T = [k \in DOMAIN T |-> T[k]]
    BY <1>4, <1>7
  <2> QED BY <1>7, <2>1, <2>2, <2>3 DEF Table
<1>9. \A i \in DOMAIN records : records[i].id \in keys
  BY DEF keys
<1>10. IsFiniteSet(keys) /\ Cardinality(keys) = n
  <2>1. s \in Bijection(1 .. n, keys)
    <3>1. s \in [1 .. n -> keys]
      BY <1>1, <1>9
    <3>2. \A a, b \in 1 .. n : s[a] = s[b] => a = b
      BY <1>1, <1>3
    <3>3. \A k \in keys : \E a \in 1 .. n : s[a] = k
      BY <1>1, <1>6
    <3> HIDE DEF s
    <3> QED BY <3>1, <3>2, <3>3, Zenon DEF Bijection, Injection, Surjection, IsInjective
  <2>2. IsFiniteSet(1 .. n) /\ Cardinality(1 .. n) = n
    BY <1>1, FS_Interval
  <2>3. ExistsBijection(1 .. n, keys)
    BY <2>1, Zenon DEF ExistsBijection
  <2> QED BY <2>2, <2>3, FS_Bijection
<1>11. \A k \in keys : T[k].ordinal \in Nat /\ k \in Nat
  <2> SUFFICES ASSUME NEW k \in keys PROVE T[k].ordinal \in Nat /\ k \in Nat
    OBVIOUS
  <2>1. PICK i \in DOMAIN records : k = records[i].id
    BY <1>6
  <2>2. T[k] = [ordinal |-> o[i], over |-> records[i].over]
    BY <1>5, <2>1
  <2>3. o[i] \in Nat /\ k \in Nat
    BY <1>1, <1>2, <2>1
  <2> QED BY <2>2, <2>3
<1>12. Asymmetric(B)
  <2> SUFFICES ASSUME NEW x, NEW y, <<x, y>> \in B, <<y, x>> \in B PROVE FALSE
    BY DEF Asymmetric
  <2>1. /\ x \in keys /\ y \in keys
        /\ \/ T[x].ordinal < T[y].ordinal
           \/ T[x].ordinal = T[y].ordinal /\ x < y
    OBVIOUS
  <2>2. \/ T[y].ordinal < T[x].ordinal
        \/ T[y].ordinal = T[x].ordinal /\ y < x
    OBVIOUS
  <2> HIDE DEF B
  <2> QED BY <1>11, <2>1, <2>2
<1>13. Sorted(s, keys, B)
  <2>1. s \in [1 .. n -> keys]
    BY <1>1, <1>9
  <2>2. ASSUME NEW i \in 1 .. n, NEW j \in 1 .. n, i < j PROVE <<s[i], s[j]>> \in B
    <3>1. s[i] \in keys /\ s[j] \in keys /\ s[i] = records[i].id /\ s[j] = records[j].id
      BY <2>1
    <3>2. T[records[i].id].ordinal = o[i] /\ T[records[j].id].ordinal = o[j]
      BY <1>1, <1>17
    <3>3. o[i] < o[j]
      BY <1>1, <1>2, <2>2
    <3> HIDE DEF s
    <3>4. T[s[i]].ordinal < T[s[j]].ordinal
      BY <3>1, <3>2, <3>3
    <3> QED BY <3>1, <3>4
  <2> HIDE DEF s, B
  <2> QED BY <1>10, <2>1, <2>2 DEF Sorted
<1>14. InOrder(keys, B) = s
  <2> HIDE DEF s, B
  <2> QED BY <1>10, <1>12, <1>13, InOrderIs
<1>15. RecordsOf(T) = [k \in 1 .. n |-> [id |-> s[k], over |-> T[s[k]].over]]
  <2>1. RecordsOf(T) = LET ids == InOrder(keys, B) IN
                       [k \in DOMAIN ids |-> [id |-> ids[k], over |-> T[ids[k]].over]]
    BY <1>7, Zenon DEF RecordsOf
  <2>2. DOMAIN s = 1 .. n
    OBVIOUS
  <2> HIDE DEF s, B
  <2> QED BY <1>14, <2>1, <2>2
<1>16. RecordsOf(T) = records
  <2>1. \A k \in 1 .. n : [id |-> s[k], over |-> T[s[k]].over] = records[k]
    <3> SUFFICES ASSUME NEW k \in 1 .. n
                 PROVE  [id |-> s[k], over |-> T[s[k]].over] = records[k]
      OBVIOUS
    <3>1. s[k] = records[k].id /\ k \in DOMAIN records
      BY <1>1
    <3>2. T[s[k]].over = records[k].over
      BY <1>17, <3>1
    <3> QED BY <1>1, <3>1, <3>2
  <2> HIDE DEF s
  <2> QED BY <1>0, <1>15, <2>1
<1> QED BY <1>8, <1>16 DEF T

\* A snapshot that is the table brings the table to what is written.
LEMMA ChangesAreWritten ==
  ASSUME NEW table, Table(table), NEW after, Table(after)
  PROVE  WriteDeliveryChanges(table, table, after) = after
<1> DEFINE upserted == {k \in DOMAIN after : k \notin DOMAIN table \/ after[k] # table[k]}
           removed == DOMAIN table \ DOMAIN after
           D == DOMAIN after
           W == [k \in (DOMAIN table \cup upserted) \ removed |->
                   IF k \in upserted THEN after[k] ELSE table[k]]
<1>1. (DOMAIN table \cup upserted) \ removed = D
  OBVIOUS
<1>2. \A k \in D : k \notin upserted => table[k] = after[k]
  OBVIOUS
<1>3. W = [k \in D |-> IF k \in upserted THEN after[k] ELSE table[k]]
  BY <1>1
<1>4. after = [k \in D |-> after[k]]
  BY DEF Table
<1> HIDE DEF upserted, D
<1>5. [k \in D |-> IF k \in upserted THEN after[k] ELSE table[k]] = [k \in D |-> after[k]]
  BY <1>2
<1>6. WriteDeliveryChanges(table, table, after) = W
  BY Zenon DEF WriteDeliveryChanges, upserted
<1> QED BY <1>3, <1>4, <1>5, <1>6

-----------------------------------------------------------------------------
(* The invariant *)

\* The forms in which an operation may find the records.
Forms == {RecordsOf(rows), Normalized(RecordsOf(rows))}

Tables == UNION {[S -> Row] : S \in SUBSET Record}
Cached == [version : Nat, records : Seq(RecordOf), next : Nat, snapshot : Tables]

\* A cache that holds what the tables hold.
Reflects(c) == c.snapshot = rows /\ c.next = nextSequence /\ c.records \in Forms

\* What a transaction has written is what one operation makes of the tables, and
\* the rows it compares with are those of the tables.
Uncommitted(h) ==
  /\ deliveryCache[h].snapshot = rows
  /\ connection[h].cached.snapshot = NextSnapshot(rows, connection[h].cached.records)
  /\ \E form \in Forms :
       [records |-> connection[h].cached.records, next |-> connection[h].cached.next]
         \in Operations([records |-> form, next |-> nextSequence])

\* A cache that SQLite's version calls current reflects the tables, unless a
\* transaction of its process has changed it; one being read got its meta row from
\* the tables of its version.
CacheReflects(h) ==
  /\ deliveryCache[h].version <= dataVersion[h]
  /\ Connected(h, "closed") => deliveryCache[h] = NoCache
  /\ ~Connected(h, "written") /\ CacheIsCurrent(h) => Reflects(deliveryCache[h])
  /\ connection[h].cached.version <= dataVersion[h]
  /\ Connected(h, "rows") /\ connection[h].cached.version = dataVersion[h] =>
       connection[h].cached.next = nextSequence
  /\ Connected(h, "written") => Uncommitted(h)

\* The tables hold a document from the migration on; before it nothing is open.
TablesHoldADocument ==
  IF nextSequence = 0 THEN rows = <<>> /\ \A h \in Host : Connected(h, "closed")
  ELSE IsDocument(RecordsOf(rows), nextSequence)

OneWriter == \A g, h \in Host : Connected(g, "written") /\ Connected(h, "written") => g = h

SqliteTypes ==
  /\ Table(rows) /\ nextSequence \in Nat /\ sqliteTroubles \in Nat
  /\ dataVersion \in [Host -> Nat]
  /\ deliveryCache \in [Host -> Cached]
  /\ connection \in [Host -> [at : ConnectionPhase, cached : Cached]]

SqliteInv ==
  SqliteTypes /\ TablesHoldADocument /\ OneWriter /\ \A h \in Host : CacheReflects(h)

LEMMA ATableIsOne ==
  ASSUME NEW table, Table(table)
  PROVE  table \in Tables
<1>1. table \in [DOMAIN table -> Row] /\ DOMAIN table \in SUBSET Record
  BY DEF Table
<1> QED BY <1>1 DEF Tables

LEMMA EmptyTable == Table(<<>>)
BY DEF Table

LEMMA NoCacheIsCached == NoCache \in Cached
<1>1. <<>> \in Tables
  BY EmptyTable, ATableIsOne
<1>2. <<>> \in Seq(RecordOf)
  OBVIOUS
<1> QED BY <1>1, <1>2 DEF NoCache, Cached

LEMMA FormsAreDocuments ==
  ASSUME TablesHoldADocument, nextSequence # 0, NEW form \in Forms
  PROVE  IsDocument(form, nextSequence)
BY NormalizedIsDoc DEF TablesHoldADocument, Forms

\* A step of another process that commits nothing.
LEMMA OthersKeep ==
  ASSUME NEW g \in Host, CacheReflects(g), UNCHANGED <<rows, nextSequence>>,
         dataVersion'[g] = dataVersion[g], deliveryCache'[g] = deliveryCache[g],
         connection'[g] = connection[g]
  PROVE  CacheReflects(g)'
BY DEF CacheReflects, Connected, CacheIsCurrent, Reflects, Uncommitted, Forms

\* A commit of another process makes every cache stale.
LEMMA OthersGoStale ==
  ASSUME SqliteTypes, NEW g \in Host, CacheReflects(g), ~Connected(g, "written"),
         dataVersion'[g] = dataVersion[g] + 1, deliveryCache'[g] = deliveryCache[g],
         connection'[g] = connection[g]
  PROVE  CacheReflects(g)'
<1>1. /\ dataVersion[g] \in Nat /\ deliveryCache[g].version \in Nat
      /\ connection[g].cached.version \in Nat
  BY DEF SqliteTypes, Cached
<1> QED BY <1>1 DEF CacheReflects, Connected, CacheIsCurrent

\* The invariant, process by process.
LEMMA OpenMeansMigrated ==
  ASSUME TablesHoldADocument, NEW h \in Host, ~Connected(h, "closed")
  PROVE  nextSequence # 0 /\ IsDocument(RecordsOf(rows), nextSequence)
BY DEF TablesHoldADocument

\* A step that leaves the tables and their versions alone.
LEMMA TablesKept ==
  ASSUME SqliteInv, NEW h \in Host, ~Connected(h, "closed"),
         UNCHANGED <<rows, nextSequence, dataVersion>>, sqliteTroubles' \in Nat,
         NEW k \in Cached, deliveryCache' = [deliveryCache EXCEPT ![h] = k],
         NEW p \in ConnectionPhase, NEW c \in Cached,
         connection' = [connection EXCEPT ![h] = [at |-> p, cached |-> c]],
         p = "written" => ~Locked, CacheReflects(h)'
  PROVE  SqliteInv'
<1>1. SqliteTypes'
  BY DEF SqliteInv, SqliteTypes
<1>2. nextSequence # 0 /\ TablesHoldADocument'
  BY OpenMeansMigrated DEF SqliteInv, TablesHoldADocument
<1>3. \A g \in Host : g # h => deliveryCache'[g] = deliveryCache[g] /\ connection'[g] = connection[g]
  BY DEF SqliteInv, SqliteTypes
<1>4. connection'[h].at = p
  BY DEF SqliteInv, SqliteTypes
<1>5. \A g \in Host : CacheReflects(g)'
  BY <1>3, OthersKeep DEF SqliteInv
<1>6. OneWriter'
  BY <1>3, <1>4 DEF SqliteInv, OneWriter, Connected, Locked
<1> QED BY <1>1, <1>2, <1>5, <1>6 DEF SqliteInv

LEMMA ReadVersionKeeps ==
  ASSUME SqliteInv, NEW h \in Host, ReadVersion(h)
  PROVE  SqliteInv'
<1> DEFINE c == [NoCache EXCEPT !.version = dataVersion[h]]
<1>1. c \in Cached /\ c.version = dataVersion[h]
  BY NoCacheIsCached DEF SqliteInv, SqliteTypes, Cached
<1>2. deliveryCache[h] \in Cached /\ deliveryCache' = [deliveryCache EXCEPT ![h] = deliveryCache[h]]
  BY DEF SqliteInv, SqliteTypes, ReadVersion
<1>3. connection' = [connection EXCEPT ![h] = [at |-> "meta", cached |-> c]]
  BY DEF ReadVersion, TurnConnection
<1>4. connection[h].at = "idle" /\ sqliteTroubles' \in Nat /\ UNCHANGED <<rows, nextSequence, dataVersion, deliveryCache>>
  BY DEF ReadVersion, Connected, SqliteInv, SqliteTypes
<1> HIDE DEF c
<1>5. connection'[h].at = "meta" /\ connection'[h].cached.version = dataVersion[h]
  BY <1>1, <1>3 DEF SqliteInv, SqliteTypes
<1>6. dataVersion[h] \in Nat /\ CacheReflects(h)
  BY DEF SqliteInv, SqliteTypes
<1>7. CacheReflects(h)'
  BY <1>4, <1>5, <1>6 DEF CacheReflects, Connected, CacheIsCurrent, Reflects, Forms
<1> QED BY <1>1, <1>2, <1>3, <1>4, <1>7, TablesKept DEF Connected, ConnectionPhase

LEMMA ReadMetaKeeps ==
  ASSUME SqliteInv, NEW h \in Host, ReadMeta(h)
  PROVE  SqliteInv'
<1> DEFINE c == [connection[h].cached EXCEPT !.next = nextSequence]
<1>1. c \in Cached /\ c.version = connection[h].cached.version /\ c.next = nextSequence
  BY DEF SqliteInv, SqliteTypes, Cached
<1>2. deliveryCache[h] \in Cached /\ deliveryCache' = [deliveryCache EXCEPT ![h] = deliveryCache[h]]
  BY DEF SqliteInv, SqliteTypes, ReadMeta
<1>3. connection' = [connection EXCEPT ![h] = [at |-> "rows", cached |-> c]]
  BY DEF ReadMeta, TurnConnection
<1>4. connection[h].at = "meta" /\ sqliteTroubles' \in Nat /\ UNCHANGED <<rows, nextSequence, dataVersion, deliveryCache>>
  BY DEF ReadMeta, Connected, SqliteInv, SqliteTypes
<1> HIDE DEF c
<1>5. connection'[h].at = "rows" /\ connection'[h].cached = c
  BY <1>1, <1>3 DEF SqliteInv, SqliteTypes
<1>6. CacheReflects(h)
  BY DEF SqliteInv
<1>7. CacheReflects(h)'
  BY <1>1, <1>4, <1>5, <1>6 DEF CacheReflects, Connected, CacheIsCurrent, Reflects, Forms
<1> QED BY <1>1, <1>2, <1>3, <1>4, <1>7, TablesKept DEF Connected, ConnectionPhase

LEMMA ReadRowsKeeps ==
  ASSUME SqliteInv, NEW h \in Host, ReadRows(h)
  PROVE  SqliteInv'
<1> DEFINE c == connection[h].cached
           k == [c EXCEPT !.records = Normalized(RecordsOf(rows)), !.snapshot = rows]
<1>0. connection[h].at = "rows" /\ ~Connected(h, "closed")
  BY DEF ReadRows, Connected
<1>1. Normalized(RecordsOf(rows)) \in Seq(RecordOf)
  BY <1>0, OpenMeansMigrated, NormalizedIsDoc DEF SqliteInv, IsDocument
<1>2. rows \in Tables
  BY ATableIsOne DEF SqliteInv, SqliteTypes
<1>3. /\ k \in Cached /\ k.version = c.version /\ k.next = c.next
      /\ k.records = Normalized(RecordsOf(rows)) /\ k.snapshot = rows
  BY <1>1, <1>2 DEF SqliteInv, SqliteTypes, Cached
<1>4. deliveryCache' = [deliveryCache EXCEPT ![h] = k]
  BY DEF ReadRows
<1>5. connection' = [connection EXCEPT ![h] = [at |-> "idle", cached |-> NoCache]]
  BY DEF ReadRows, TurnConnection
<1>6. sqliteTroubles' \in Nat /\ UNCHANGED <<rows, nextSequence, dataVersion>>
  BY DEF ReadRows, SqliteInv, SqliteTypes
<1> HIDE DEF k
<1>7. /\ connection'[h].at = "idle" /\ connection'[h].cached.version = 0
      /\ deliveryCache'[h] = k
  BY <1>4, <1>5 DEF SqliteInv, SqliteTypes, NoCache
<1>8. dataVersion[h] \in Nat /\ CacheReflects(h)
  BY DEF SqliteInv, SqliteTypes
<1>9. CacheReflects(h)'
  BY <1>0, <1>3, <1>6, <1>7, <1>8 DEF CacheReflects, Connected, CacheIsCurrent, Reflects, Forms
<1>10. "idle" \in ConnectionPhase /\ "idle" # "written"
  BY DEF ConnectionPhase
<1> QED BY <1>0, <1>3, <1>4, <1>5, <1>6, <1>9, <1>10, NoCacheIsCached, TablesKept


LEMMA MutateDeliveryKeeps ==
  ASSUME SqliteInv, NEW h \in Host, MutateDelivery(h)
  PROVE  SqliteInv'
<1> DEFINE loaded == IF CacheIsCurrent(h) THEN deliveryCache[h] ELSE FreshCache(h)
<1>1. connection[h].at = "idle" /\ ~Connected(h, "closed") /\ ~Locked
  BY DEF MutateDelivery, Connected
<1>2. /\ nextSequence # 0 /\ IsDocument(RecordsOf(rows), nextSequence)
      /\ IsDocument(Normalized(RecordsOf(rows)), nextSequence)
  BY <1>1, OpenMeansMigrated, NormalizedIsDoc DEF SqliteInv
<1>3. Table(rows) /\ rows \in Tables /\ nextSequence \in Nat /\ dataVersion[h] \in Nat
  BY ATableIsOne DEF SqliteInv, SqliteTypes
<1>4. FreshCache(h) \in Cached /\ FreshCache(h).version = dataVersion[h] /\ Reflects(FreshCache(h))
  BY <1>2, <1>3 DEF FreshCache, Cached, Reflects, Forms, IsDocument
<1>5. loaded \in Cached /\ loaded.version <= dataVersion[h] /\ Reflects(loaded)
  <2>1. CASE CacheIsCurrent(h)
    BY <1>1, <2>1 DEF SqliteInv, SqliteTypes, CacheReflects, Connected
  <2>2. CASE ~CacheIsCurrent(h)
    BY <1>3, <1>4, <2>2
  <2> QED BY <2>1, <2>2
<1> HIDE DEF loaded
<1>6. PICK d \in Operations([records |-> loaded.records, next |-> loaded.next]) :
        /\ TurnConnection(h, "written",
             [version |-> dataVersion[h], records |-> d.records, next |-> d.next,
              snapshot |-> NextSnapshot(loaded.snapshot, d.records)])
        /\ deliveryCache' = [deliveryCache EXCEPT ![h] =
             [loaded EXCEPT !.records = d.records, !.next = d.next]]
  BY Zenon DEF MutateDelivery, loaded
<1>7. /\ loaded.snapshot = rows /\ loaded.next = nextSequence /\ loaded.records \in Forms
      /\ IsDocument(loaded.records, nextSequence)
  BY <1>2, <1>5 DEF Reflects, Forms
<1>8. d = [records |-> d.records, next |-> d.next] /\ IsDocument(d.records, d.next)
  BY <1>7, OperationIsDoc
<1>9. d.records \in Seq(RecordOf) /\ d.next \in Nat
  BY <1>8 DEF IsDocument
<1>10. NextSnapshot(rows, d.records) \in Tables
  BY <1>3, <1>8, RoundTrip, ATableIsOne
<1> DEFINE c == [version |-> dataVersion[h], records |-> d.records, next |-> d.next,
                 snapshot |-> NextSnapshot(rows, d.records)]
           k == [loaded EXCEPT !.records = d.records, !.next = d.next]
<1>11. c \in Cached
  BY <1>3, <1>9, <1>10 DEF Cached
<1>12. k \in Cached /\ k.version = loaded.version /\ k.snapshot = rows
  BY <1>5, <1>7, <1>9 DEF Cached
<1>13. connection' = [connection EXCEPT ![h] = [at |-> "written", cached |-> c]]
  BY <1>6, <1>7 DEF TurnConnection
<1>14. deliveryCache' = [deliveryCache EXCEPT ![h] = k]
  BY <1>6
<1>15. /\ c.version = dataVersion[h] /\ c.snapshot = NextSnapshot(rows, c.records)
       /\ [records |-> c.records, next |-> c.next] \in Operations([records |-> loaded.records, next |-> nextSequence])
  BY <1>6, <1>7, <1>8
<1> HIDE DEF c, k
<1>16. deliveryCache'[h] = k /\ connection'[h].at = "written" /\ connection'[h].cached = c
  BY <1>13, <1>14 DEF SqliteInv, SqliteTypes
<1>17. sqliteTroubles' \in Nat /\ UNCHANGED <<rows, nextSequence, dataVersion>>
  BY DEF MutateDelivery, SqliteInv, SqliteTypes
<1>18. Uncommitted(h)'
  BY <1>7, <1>12, <1>15, <1>16, <1>17 DEF Uncommitted, Forms
<1>19. CacheReflects(h)'
  BY <1>3, <1>5, <1>12, <1>15, <1>16, <1>17, <1>18 DEF CacheReflects, Connected
<1>20. "written" \in ConnectionPhase
  BY DEF ConnectionPhase
<1> QED BY <1>1, <1>11, <1>12, <1>13, <1>14, <1>17, <1>19, <1>20, TablesKept

\* What a commit makes of the tables is what one operation makes of them.
LEMMA CommitOperates ==
  ASSUME SqliteInv, NEW h \in Host, Commit(h)
  PROVE  LET c == connection[h].cached IN
         /\ rows' = c.snapshot /\ nextSequence' = c.next
         /\ Table(rows') /\ RecordsOf(rows') = c.records
         /\ IsDocument(c.records, c.next) /\ nextSequence # 0
         /\ \E form \in Forms : [records |-> c.records, next |-> c.next]
                                  \in Operations([records |-> form, next |-> nextSequence])
<1> DEFINE c == connection[h].cached
<1>1. Connected(h, "written") /\ ~Connected(h, "closed") /\ Uncommitted(h) /\ Table(rows)
  BY DEF Commit, Connected, SqliteInv, SqliteTypes, CacheReflects
<1>2. nextSequence # 0 /\ TablesHoldADocument
  BY <1>1, OpenMeansMigrated DEF SqliteInv
<1>3. PICK form \in Forms : [records |-> c.records, next |-> c.next]
                              \in Operations([records |-> form, next |-> nextSequence])
  BY <1>1 DEF Uncommitted
<1>4. IsDocument(form, nextSequence)
  BY <1>2, FormsAreDocuments
<1> DEFINE d == [records |-> c.records, next |-> c.next]
<1>5. IsDocument(d.records, d.next)
  <2> HIDE DEF c, d
  <2>1. d \in Operations([records |-> form, next |-> nextSequence])
    BY <1>3 DEF d
  <2> QED BY <1>4, <2>1, OperationIsDoc
<1>6. IsDocument(c.records, c.next)
  BY <1>5
<1>7. deliveryCache[h].snapshot = rows /\ c.snapshot = NextSnapshot(rows, c.records)
  BY <1>1 DEF Uncommitted
<1>8. Table(c.snapshot) /\ RecordsOf(c.snapshot) = c.records
  BY <1>1, <1>6, <1>7, RoundTrip
<1>9. rows' = WriteDeliveryChanges(rows, deliveryCache[h].snapshot, c.snapshot) /\ nextSequence' = c.next
  BY DEF Commit
<1>10. rows' = c.snapshot
  BY <1>1, <1>7, <1>8, <1>9, ChangesAreWritten
<1> HIDE DEF c
<1>11. /\ rows' = c.snapshot /\ nextSequence' = c.next
       /\ Table(rows') /\ RecordsOf(rows') = c.records
       /\ IsDocument(c.records, c.next) /\ nextSequence # 0
       /\ \E f \in Forms : [records |-> c.records, next |-> c.next]
                             \in Operations([records |-> f, next |-> nextSequence])
  BY <1>2, <1>3, <1>6, <1>8, <1>9, <1>10
<1> QED BY <1>11 DEF c

LEMMA CommitKeeps ==
  ASSUME SqliteInv, NEW h \in Host, Commit(h)
  PROVE  SqliteInv'
<1> DEFINE c == connection[h].cached
<1>1. /\ rows' = c.snapshot /\ nextSequence' = c.next
      /\ Table(rows') /\ RecordsOf(rows') = c.records
      /\ IsDocument(c.records, c.next)
  BY CommitOperates
<1>2. c.next \in Nat \ {0}
  BY <1>1 DEF IsDocument
<1>3. c \in Cached /\ c.version \in Nat /\ c.version <= dataVersion[h]
  BY DEF SqliteInv, SqliteTypes, Cached, CacheReflects
<1>4. Connected(h, "written")
  BY DEF Commit
<1>5. deliveryCache' = [deliveryCache EXCEPT ![h] = c] /\ sqliteTroubles' = sqliteTroubles
  BY DEF Commit
<1>6. connection' = [connection EXCEPT ![h] = [at |-> "idle", cached |-> NoCache]]
  BY DEF Commit, TurnConnection
<1>7. dataVersion' = [g \in Host |-> IF g = h THEN dataVersion[g] ELSE dataVersion[g] + 1]
  BY DEF Commit, OthersSee
<1> HIDE DEF c
<1>8. SqliteTypes'
  <2>1. [at |-> "idle", cached |-> NoCache] \in [at : ConnectionPhase, cached : Cached]
    BY NoCacheIsCached DEF ConnectionPhase
  <2>2. dataVersion' \in [Host -> Nat]
    BY <1>7 DEF SqliteInv, SqliteTypes
  <2>3. connection' \in [Host -> [at : ConnectionPhase, cached : Cached]]
    BY <1>6, <2>1 DEF SqliteInv, SqliteTypes
  <2>4. deliveryCache' \in [Host -> Cached]
    BY <1>3, <1>5 DEF SqliteInv, SqliteTypes
  <2> QED BY <1>1, <1>2, <1>5, <2>2, <2>3, <2>4 DEF SqliteInv, SqliteTypes
<1>9. TablesHoldADocument'
  BY <1>1, <1>2 DEF TablesHoldADocument
<1>10. \A g \in Host : g # h => /\ deliveryCache'[g] = deliveryCache[g] /\ connection'[g] = connection[g]
                               /\ dataVersion'[g] = dataVersion[g] + 1 /\ ~Connected(g, "written")
  BY <1>4, <1>5, <1>6, <1>7 DEF SqliteInv, SqliteTypes, OneWriter
<1>11. /\ connection'[h].at = "idle" /\ connection'[h].cached.version = 0
       /\ deliveryCache'[h] = c /\ dataVersion'[h] = dataVersion[h] /\ dataVersion[h] \in Nat
  BY <1>5, <1>6, <1>7 DEF SqliteInv, SqliteTypes, NoCache
<1>12. CacheReflects(h)'
  BY <1>1, <1>3, <1>11 DEF CacheReflects, Connected, CacheIsCurrent, Reflects, Forms
<1>13. \A g \in Host : CacheReflects(g)'
  BY <1>10, <1>12, OthersGoStale DEF SqliteInv
<1>14. OneWriter'
  BY <1>10, <1>11 DEF OneWriter, Connected
<1> QED BY <1>8, <1>9, <1>13, <1>14 DEF SqliteInv

LEMMA RollbackKeeps ==
  ASSUME SqliteInv, NEW h \in Host, Rollback(h)
  PROVE  SqliteInv'
<1>1. connection[h].at = "written" /\ ~Connected(h, "closed")
  BY DEF Rollback, Connected
<1>2. deliveryCache' = [deliveryCache EXCEPT ![h] = NoCache]
  BY DEF Rollback
<1>3. connection' = [connection EXCEPT ![h] = [at |-> "idle", cached |-> NoCache]]
  BY DEF Rollback, TurnConnection
<1>4. sqliteTroubles' \in Nat /\ UNCHANGED <<rows, nextSequence, dataVersion>>
  BY DEF Rollback, SqliteInv, SqliteTypes
<1>5. /\ deliveryCache'[h] = NoCache /\ connection'[h].at = "idle"
      /\ connection'[h].cached = NoCache /\ NoCache.version = 0 /\ dataVersion[h] \in Nat
  BY <1>2, <1>3 DEF SqliteInv, SqliteTypes, NoCache
<1>6. CacheReflects(h)'
  BY <1>4, <1>5 DEF CacheReflects, Connected, CacheIsCurrent
<1>7. "idle" \in ConnectionPhase /\ "idle" # "written"
  BY DEF ConnectionPhase
<1> QED BY <1>1, <1>2, <1>3, <1>4, <1>6, <1>7, NoCacheIsCached, TablesKept

LEMMA ProcessDiesKeeps ==
  ASSUME SqliteInv, NEW h \in Host, ProcessDies(h)
  PROVE  SqliteInv'
<1>1. ~Connected(h, "closed")
  BY DEF ProcessDies
<1>2. deliveryCache' = [deliveryCache EXCEPT ![h] = NoCache]
  BY DEF ProcessDies
<1>3. connection' = [connection EXCEPT ![h] = [at |-> "closed", cached |-> NoCache]]
  BY DEF ProcessDies, Closed
<1>4. sqliteTroubles' \in Nat /\ UNCHANGED <<rows, nextSequence, dataVersion>>
  BY DEF ProcessDies, SqliteInv, SqliteTypes
<1>5. /\ deliveryCache'[h] = NoCache /\ connection'[h].at = "closed"
      /\ connection'[h].cached = NoCache /\ NoCache.version = 0 /\ dataVersion[h] \in Nat
  BY <1>2, <1>3 DEF SqliteInv, SqliteTypes, NoCache
<1>6. CacheReflects(h)'
  BY <1>4, <1>5 DEF CacheReflects, Connected, CacheIsCurrent
<1>7. "closed" \in ConnectionPhase /\ "closed" # "written"
  BY DEF ConnectionPhase
<1> QED BY <1>1, <1>2, <1>3, <1>4, <1>6, <1>7, NoCacheIsCached, TablesKept

\* The first process to open the database writes what the file held.
LEMMA MigrationWrites ==
  ASSUME SqliteInv, NEW h \in Host, Initialize(h), nextSequence = 0
  PROVE  /\ Table(rows') /\ RecordsOf(rows') = Normalized(Legacy.records)
         /\ nextSequence' = Legacy.next /\ nextSequence' \in Nat \ {0}
         /\ IsDocument(RecordsOf(rows'), nextSequence')
<1>1. rows' = NextSnapshot(<<>>, Normalized(Legacy.records)) /\ nextSequence' = Legacy.next
  BY DEF Initialize
<1>2. IsDocument(Normalized(Legacy.records), Legacy.next) /\ Legacy.next \in Nat \ {0}
  BY LegacyIsDocument, NormalizedIsDoc DEF IsDocument
<1> QED BY <1>1, <1>2, EmptyTable, RoundTrip

LEMMA InitializeKeeps ==
  ASSUME SqliteInv, NEW h \in Host, Initialize(h)
  PROVE  SqliteInv'
<1>1. /\ connection[h].at = "closed" /\ ~Locked
      /\ connection' = [connection EXCEPT ![h] = [at |-> "idle", cached |-> NoCache]]
      /\ deliveryCache' = deliveryCache /\ sqliteTroubles' = sqliteTroubles
  BY DEF Initialize, TurnConnection, Connected
<1>2. /\ connection'[h].at = "idle" /\ connection'[h].cached = NoCache /\ NoCache.version = 0
      /\ \A g \in Host : g # h => connection'[g] = connection[g]
  BY <1>1 DEF SqliteInv, SqliteTypes, NoCache
<1>3. deliveryCache[h] = NoCache
  BY <1>1 DEF SqliteInv, CacheReflects, Connected
<1>4. connection' \in [Host -> [at : ConnectionPhase, cached : Cached]]
  <2>1. [at |-> "idle", cached |-> NoCache] \in [at : ConnectionPhase, cached : Cached]
    BY NoCacheIsCached DEF ConnectionPhase
  <2> QED BY <1>1, <2>1 DEF SqliteInv, SqliteTypes
<1>5. \A g \in Host : ~Connected(g, "written")
  BY <1>1 DEF Locked
<1>6. OneWriter'
  BY <1>2, <1>5 DEF OneWriter, Connected
<1>7. CASE nextSequence # 0
  <2>1. UNCHANGED <<rows, nextSequence, dataVersion>>
    BY <1>7 DEF Initialize
  <2>2. SqliteTypes'
    BY <1>1, <1>4, <2>1 DEF SqliteInv, SqliteTypes
  <2>3. TablesHoldADocument'
    BY <1>7, <2>1 DEF SqliteInv, TablesHoldADocument
  <2>4. dataVersion[h] \in Nat
    BY DEF SqliteInv, SqliteTypes
  <2>5. CacheReflects(h)'
    BY <1>1, <1>2, <1>3, <2>1, <2>4 DEF CacheReflects, Connected, CacheIsCurrent
  <2>6. \A g \in Host : CacheReflects(g)'
    BY <1>1, <1>2, <2>1, <2>5, OthersKeep DEF SqliteInv
  <2> QED BY <1>6, <2>2, <2>3, <2>6 DEF SqliteInv
<1>8. CASE nextSequence = 0
  <2>1. /\ Table(rows') /\ nextSequence' \in Nat \ {0}
        /\ IsDocument(RecordsOf(rows'), nextSequence')
    BY <1>8, MigrationWrites
  <2>2. dataVersion' = [g \in Host |-> IF g = h THEN dataVersion[g] ELSE dataVersion[g] + 1]
    BY <1>8 DEF Initialize, OthersSee
  <2>3. dataVersion' \in [Host -> Nat] /\ dataVersion[h] \in Nat /\ dataVersion'[h] = dataVersion[h]
    BY <2>2 DEF SqliteInv, SqliteTypes
  <2>4. SqliteTypes'
    BY <1>1, <1>4, <2>1, <2>3 DEF SqliteInv, SqliteTypes
  <2>5. TablesHoldADocument'
    BY <2>1 DEF TablesHoldADocument
  <2>6. CacheReflects(h)'
    BY <1>1, <1>2, <1>3, <2>3 DEF CacheReflects, Connected, CacheIsCurrent
  <2>7. \A g \in Host : g # h => dataVersion'[g] = dataVersion[g] + 1
    BY <2>2
  <2>8. \A g \in Host : CacheReflects(g)'
    BY <1>1, <1>2, <1>5, <2>6, <2>7, OthersGoStale DEF SqliteInv
  <2> QED BY <1>6, <2>4, <2>5, <2>8 DEF SqliteInv
<1> QED BY <1>7, <1>8

\* A cache that is current reflects the tables, and one transaction at a time has
\* changed one: inductive.
LEMMA SqliteStep ==
  SqliteInv /\ [SqliteNext]_sqliteVars => SqliteInv'
<1> SUFFICES ASSUME SqliteInv, [SqliteNext]_sqliteVars PROVE SqliteInv'
  OBVIOUS
<1>1. CASE UNCHANGED sqliteVars
  <2>1. UNCHANGED <<rows, nextSequence, dataVersion, deliveryCache, connection, sqliteTroubles>>
    BY <1>1 DEF sqliteVars
  <2>2. \A g \in Host : CacheReflects(g)'
    BY <2>1, OthersKeep DEF SqliteInv
  <2> QED BY <2>1, <2>2 DEF SqliteInv, SqliteTypes, TablesHoldADocument, OneWriter, Connected
<1>2. CASE SqliteNext
  BY <1>2, InitializeKeeps, ReadVersionKeeps, ReadMetaKeeps, ReadRowsKeeps,
     MutateDeliveryKeeps, CommitKeeps, RollbackKeeps, ProcessDiesKeeps DEF SqliteNext
<1> QED BY <1>1, <1>2

LEMMA SqliteStart == SqliteInit => SqliteInv
<1> SUFFICES ASSUME SqliteInit PROVE SqliteInv
  OBVIOUS
<1>1. SqliteTypes
  <2>1. Closed \in [at : ConnectionPhase, cached : Cached]
    BY NoCacheIsCached DEF Closed, ConnectionPhase
  <2> QED BY <2>1, NoCacheIsCached, EmptyTable DEF SqliteInit, SqliteTypes
<1>2. \A h \in Host : connection[h] = Closed /\ deliveryCache[h] = NoCache /\ dataVersion[h] = 0
  BY DEF SqliteInit
<1>3. Closed.at = "closed" /\ Closed.cached = NoCache /\ NoCache.version = 0
  BY DEF Closed, NoCache
<1>4. \A h \in Host : CacheReflects(h)
  <2> SUFFICES ASSUME NEW h \in Host PROVE CacheReflects(h)
    OBVIOUS
  <2>1. /\ connection[h].at = "closed" /\ connection[h].cached.version = 0
        /\ deliveryCache[h] = NoCache /\ deliveryCache[h].version = 0 /\ dataVersion[h] = 0
    BY <1>2, <1>3
  <2> QED BY <2>1 DEF CacheReflects, Connected, CacheIsCurrent
<1>5. OneWriter /\ TablesHoldADocument
  BY <1>2, <1>3 DEF SqliteInit, OneWriter, TablesHoldADocument, Connected
<1> QED BY <1>1, <1>4, <1>5 DEF SqliteInv

\* Whatever the processes cache, and however their statements interleave: a cache
\* that SQLite's data version calls current is what the tables hold.
THEOREM CurrentCachesReflectTheTables == SqliteSpec => []SqliteInv
BY SqliteStart, SqliteStep, PTL DEF SqliteSpec

\* The variables have their types.
THEOREM SqliteTypesHold == SqliteSpec => []SqliteTypeOK
<1>1. SqliteInv => SqliteTypeOK
  <2> SUFFICES ASSUME SqliteInv PROVE SqliteTypeOK
    OBVIOUS
  <2>1. rows \in [DOMAIN rows -> Row] /\ DOMAIN rows \in SUBSET Record
    BY DEF SqliteInv, SqliteTypes, Table
  <2> QED BY <2>1 DEF SqliteInv, SqliteTypes, SqliteTypeOK, Cached
<1> QED BY <1>1, CurrentCachesReflectTheTables, PTL

\* Every step makes of the stored document what one operation makes of it, or
\* leaves it: the tables implement AtomicDocument.
LEMMA StepIsAtomic ==
  SqliteInv /\ [SqliteNext]_sqliteVars =>
    [UNCHANGED <<rows, nextSequence>> \/ Atomic!Operation]_StoredDocument
<1> SUFFICES ASSUME SqliteInv, [SqliteNext]_sqliteVars, ~UNCHANGED <<rows, nextSequence>>
             PROVE  StoredDocument' = StoredDocument \/ Atomic!Operation
  OBVIOUS
<1>1. PICK h \in Host : Initialize(h) \/ Commit(h)
  BY DEF SqliteNext, sqliteVars, ReadVersion, ReadMeta, ReadRows, MutateDelivery,
         Rollback, ProcessDies
<1>2. CASE Initialize(h)
  <2>1. nextSequence = 0
    BY <1>2 DEF Initialize
  <2>2. StoredDocument = [records |-> Normalized(Legacy.records), next |-> Legacy.next]
    BY <2>1 DEF StoredDocument
  <2>3. /\ RecordsOf(rows') = Normalized(Legacy.records)
        /\ nextSequence' = Legacy.next /\ nextSequence' # 0
    BY <1>2, <2>1, MigrationWrites
  <2>4. StoredDocument' = [records |-> Normalized(Legacy.records), next |-> Legacy.next]
    BY <2>3 DEF StoredDocument
  <2> QED BY <2>2, <2>4
<1>3. CASE Commit(h)
  <2> DEFINE c == connection[h].cached
             d == [records |-> c.records, next |-> c.next]
  <2>1. /\ RecordsOf(rows') = c.records /\ nextSequence' = c.next
        /\ IsDocument(c.records, c.next) /\ nextSequence # 0
    BY <1>3, CommitOperates
  <2>2. PICK form \in Forms : d \in Operations([records |-> form, next |-> nextSequence])
    BY <1>3, CommitOperates
  <2>3. StoredDocument = [records |-> RecordsOf(rows), next |-> nextSequence]
    BY <2>1 DEF StoredDocument
  <2>4. c.next # 0
    BY <2>1 DEF IsDocument
  <2>5. StoredDocument' = d
    BY <2>1, <2>4 DEF StoredDocument
  <2>6. [records |-> form, next |-> nextSequence] \in Found(StoredDocument)
    BY <2>2, <2>3 DEF Found, Forms
  <2> QED BY <2>2, <2>5, <2>6 DEF Atomic!Operation
<1> QED BY <1>1, <1>2, <1>3

\* "Transactional cross-process writes" of the README, for any number of processes,
\* records and failures.
THEOREM TheStoreIsAtomic == SqliteSpec => StoreIsAtomic
BY CurrentCachesReflectTheTables, StepIsAtomic, PTL DEF SqliteSpec, StoreIsAtomic

-----------------------------------------------------------------------------
(* Lines of memory *)

\* The lines a version may have: written by it or by one before.
Version(lines, v) ==
  /\ lines \in Seq(MemoryLine)
  /\ \A i \in DOMAIN lines : lines[i].since <= v

\* Smaller sets count less.
LEMMA CountsLess ==
  ASSUME NEW B, IsFiniteSet(B), NEW A \in SUBSET B, NEW x \in B, x \notin A
  PROVE  Cardinality(A) < Cardinality(B)
<1>1. IsFiniteSet(A) /\ Cardinality(A) <= Cardinality(B) /\ (Cardinality(B) = Cardinality(A) => B = A)
  BY FS_Subset
<1>2. Cardinality(A) \in Nat /\ Cardinality(B) \in Nat
  BY <1>1, FS_CardinalityType
<1>3. Cardinality(A) # Cardinality(B)
  BY <1>1
<1> QED BY <1>1, <1>2, <1>3

\* Every line of a filtered document is one of the document.
LEMMA PickedVersion ==
  ASSUME NEW lines, NEW v, Version(lines, v), NEW S \in SUBSET DOMAIN lines
  PROVE  Version(Picked(lines, S), v)
<1> DEFINE n == Cardinality(S)
           f == Ascending(S)
           P == Picked(lines, S)
<1>1. lines \in Seq(MemoryLine)
  BY DEF Version
<1>2. /\ f \in [1 .. n -> S] /\ P \in Seq(MemoryLine) /\ Len(P) = n
      /\ \A k \in 1 .. n : P[k] = lines[f[k]]
  BY <1>1, PickedIs
<1> HIDE DEF P, f, n
<1>3. DOMAIN P = 1 .. n
  BY <1>2, LenProperties
<1>4. \A k \in 1 .. n : f[k] \in DOMAIN lines
  BY <1>2
<1>5. \A k \in DOMAIN P : P[k].since <= v
  BY <1>2, <1>3, <1>4 DEF Version
<1> QED BY <1>2, <1>5 DEF Version, P

LEMMA LaterVersion ==
  ASSUME NEW lines, NEW v \in Int, Version(lines, v), NEW w \in Int, v <= w
  PROVE  Version(lines, w)
<1>1. \A i \in DOMAIN lines : lines[i] \in MemoryLine
  BY LenProperties, ElementOfSeq DEF Version
<1>2. \A i \in DOMAIN lines : lines[i].since \in Int
  BY <1>1, MemoryBounds DEF MemoryLine
<1> QED BY <1>2 DEF Version

\* What is remembered comes behind what was there, and bears the new version.
LEMMA RememberedVersion ==
  ASSUME NEW lines, NEW v \in Nat, v + 1 <= LastVersion, Version(lines, v), NEW note \in Fact
  PROVE  LET new == Remembered(lines, v + 1, note) IN
         /\ Version(new, v + 1) /\ Len(lines) \in Nat
         /\ \A i \in Len(lines) + 1 .. Len(new) : i \in DOMAIN new /\ new[i].since = v + 1
<1> DEFINE N == [k \in DOMAIN note |-> [since |-> v + 1, first |-> k = 1, text |-> note[k]]]
           new == Remembered(lines, v + 1, note)
           n == Len(note)
           l == Len(lines)
<1>1. note \in Seq(Texts)
  <2>1. note \in Seq(Seqs!ToSet(note)) /\ Seqs!ToSet(note) \subseteq Texts
    BY FactsAreLines DEF Texts
  <2> QED BY <2>1, SeqMonotonic
<1>2. n \in Nat /\ DOMAIN note = 1 .. n /\ \A k \in 1 .. n : note[k] \in Texts
  BY <1>1, LenProperties, ElementOfSeq
<1>3. v + 1 \in 1 .. LastVersion
  BY MemoryBounds
<1>4. N \in [1 .. n -> MemoryLine] /\ \A k \in 1 .. n : N[k].since = v + 1
  BY <1>2, <1>3 DEF MemoryLine
<1> HIDE DEF N, n
<1>5. N \in Seq(MemoryLine) /\ Len(N) = n
  BY <1>2, <1>4
<1>6. lines \in Seq(MemoryLine) /\ l \in Nat /\ DOMAIN lines = 1 .. l
  BY LenProperties DEF Version
<1>7. new = lines \o N
  BY DEF Remembered, N
<1>8. /\ new \in Seq(MemoryLine) /\ Len(new) = l + n
      /\ \A i \in 1 .. l + n : new[i] = IF i <= l THEN lines[i] ELSE N[i - l]
  <2>1. /\ lines \o N \in Seq(MemoryLine) /\ Len(lines \o N) = Len(lines) + Len(N)
        /\ \A i \in 1 .. Len(lines) + Len(N) :
             (lines \o N)[i] = IF i <= Len(lines) THEN lines[i] ELSE N[i - Len(lines)]
    BY <1>5, <1>6, ConcatProperties
  <2> HIDE DEF new
  <2> QED BY <1>5, <1>7, <2>1
<1> HIDE DEF new, l
<1>9. DOMAIN new = 1 .. l + n
  BY <1>8, LenProperties
<1>10. \A i \in l + 1 .. l + n : i \in 1 .. l + n /\ new[i].since = v + 1
  <2> SUFFICES ASSUME NEW i \in l + 1 .. l + n PROVE i \in 1 .. l + n /\ new[i].since = v + 1
    OBVIOUS
  <2>1. i \in 1 .. l + n /\ ~(i <= l) /\ i - l \in 1 .. n
    BY <1>2, <1>6
  <2>2. new[i] = N[i - l]
    BY <1>8, <2>1
  <2> QED BY <1>4, <2>1, <2>2
<1>11. \A i \in 1 .. l : new[i].since <= v + 1
  <2> SUFFICES ASSUME NEW i \in 1 .. l PROVE new[i].since <= v + 1
    OBVIOUS
  <2>1. i \in 1 .. l + n /\ i <= l
    BY <1>2, <1>6
  <2>2. new[i] = lines[i]
    BY <1>8, <2>1
  <2>3. lines[i].since <= v /\ lines[i] \in MemoryLine
    BY <1>6, ElementOfSeq DEF Version, l
  <2>4. lines[i].since \in Int
    BY <2>3, MemoryBounds DEF MemoryLine
  <2> QED BY <2>2, <2>3, <2>4
<1>12. \A i \in 1 .. l + n : new[i].since <= v + 1
  <2>1. \A i \in 1 .. l + n : i \in 1 .. l \/ i \in l + 1 .. l + n
    BY <1>2, <1>6
  <2> QED BY <1>10, <1>11, <2>1
<1>13. Version(new, v + 1)
  BY <1>8, <1>9, <1>12 DEF Version
<1> QED BY <1>6, <1>8, <1>9, <1>10, <1>13 DEF new, l

-----------------------------------------------------------------------------
(* Expiry entries *)

\* Entries that name a line each, by its number and hash.
ExpiriesOf(entries, lines) ==
  /\ entries \in Seq(Expiry)
  /\ \A k \in DOMAIN entries : /\ entries[k].at \in DOMAIN lines
                               /\ Hash(lines[entries[k].at]) = Hash(entries[k].line)
  /\ \A k, l \in DOMAIN entries : entries[k].at = entries[l].at => k = l

\* Reconciling leaves at most one entry to a line; an entry that is the only one with
\* its hash follows its line, if there is only one of these too.
LEMMA ReconciledIs ==
  ASSUME NEW entries \in Seq(Expiry), NEW lines \in Seq(MemoryLine)
  PROVE  LET R == Reconciled(entries, lines) IN
         /\ ExpiriesOf(R, lines)
         /\ \A n \in DOMAIN R : \E k \in DOMAIN entries :
              R[n].line = entries[k].line /\ R[n].hour = entries[k].hour
         /\ \A k \in DOMAIN entries, j \in DOMAIN lines :
              /\ Hash(lines[j]) = Hash(entries[k].line)
              /\ \A i \in DOMAIN lines : Hash(lines[i]) = Hash(lines[j]) => i = j
              /\ \A l \in DOMAIN entries : Hash(entries[l].line) = Hash(entries[k].line) => l = k
              => \E n \in DOMAIN R : /\ R[n].at = j /\ R[n].line = entries[k].line
                                     /\ R[n].hour = entries[k].hour
<1> DEFINE H(k) == Hash(entries[k].line)
           G(i) == Hash(lines[i])
           Before(k) == {j \in 1 .. k - 1 : H(j) = H(k)}
           Twins(i, h) == {j \in 1 .. i - 1 : G(j) = h}
           target(k) == {i \in DOMAIN lines : /\ G(i) = H(k)
                                              /\ Cardinality(Twins(i, G(i))) = Cardinality(Before(k))}
           S == {k \in DOMAIN entries : target(k) # {}}
           kept == Ascending(S)
           c == Cardinality(S)
           T(k) == Sets!Min(target(k))
           R == Reconciled(entries, lines)
<1>1. R = [n \in DOMAIN kept |-> [entries[kept[n]] EXCEPT !.at = T(kept[n])]]
  BY Zenon DEF Reconciled
<1>2. /\ DOMAIN entries = 1 .. Len(entries) /\ Len(entries) \in Nat
      /\ DOMAIN lines = 1 .. Len(lines) /\ Len(lines) \in Nat
  BY LenProperties
<1>3. \A k \in DOMAIN entries : /\ entries[k] \in Expiry
                                /\ entries[k].line \in MemoryLine /\ entries[k].hour \in Nat
  <2>1. \A k \in DOMAIN entries : entries[k] \in Expiry
    BY <1>2, ElementOfSeq
  <2>2. \A e \in Expiry : e.line \in MemoryLine /\ e.hour \in Nat
    BY DEF Expiry
  <2> QED BY <2>1, <2>2
<1>4. \A k \in S : k \in DOMAIN entries /\ T(k) \in DOMAIN lines /\ T(k) \in Nat /\ T(k) \in target(k)
  <2> SUFFICES ASSUME NEW k \in S
               PROVE  k \in DOMAIN entries /\ T(k) \in DOMAIN lines /\ T(k) \in Nat /\ T(k) \in target(k)
    OBVIOUS
  <2>1. target(k) # {} /\ target(k) \subseteq DOMAIN lines
    OBVIOUS
  <2> HIDE DEF target
  <2>2. target(k) \in SUBSET Nat
    BY <1>2, <2>1
  <2>3. \E x \in target(k) : \A y \in target(k) : x <= y
    BY <2>1, <2>2, Least
  <2>4. T(k) \in target(k)
    BY <2>3 DEF Sets!Min
  <2> QED BY <2>1, <2>2, <2>4
<1>5. /\ c \in Nat /\ kept \in [1 .. c -> S]
      /\ \A i, j \in 1 .. c : i < j => kept[i] < kept[j]
      /\ \A k \in S : \E n \in 1 .. c : kept[n] = k
  <2>1. S \in SUBSET DOMAIN entries
    OBVIOUS
  <2> HIDE DEF S
  <2> QED BY <2>1, PickedIs
<1>6. \A k \in DOMAIN entries, l \in DOMAIN entries :
        k < l /\ H(k) = H(l) => Cardinality(Before(k)) < Cardinality(Before(l))
  <2> SUFFICES ASSUME NEW k \in DOMAIN entries, NEW l \in DOMAIN entries, k < l, H(k) = H(l)
               PROVE  Cardinality(Before(k)) < Cardinality(Before(l))
    OBVIOUS
  <2>1. Before(k) \in SUBSET Before(l) /\ k \in Before(l) /\ k \notin Before(k)
    BY <1>2
  <2>2. IsFiniteSet(1 .. l - 1)
    <3>1. 1 \in Int /\ l - 1 \in Int
      BY <1>2
    <3> QED BY <3>1, FS_Interval
  <2>3. Before(l) \in SUBSET (1 .. l - 1)
    OBVIOUS
  <2> HIDE DEF Before
  <2>4. IsFiniteSet(Before(l))
    BY <2>2, <2>3, FS_Subset
  <2> QED BY <2>1, <2>4, CountsLess
<1>7. \A k \in DOMAIN entries : IsFiniteSet(Before(k)) /\ Cardinality(Before(k)) \in Nat
  <2> SUFFICES ASSUME NEW k \in DOMAIN entries
               PROVE  IsFiniteSet(Before(k)) /\ Cardinality(Before(k)) \in Nat
    OBVIOUS
  <2>1. IsFiniteSet(1 .. k - 1) /\ Before(k) \in SUBSET (1 .. k - 1)
    <3>1. 1 \in Int /\ k - 1 \in Int
      BY <1>2
    <3> QED BY <3>1, FS_Interval
  <2> HIDE DEF Before
  <2> QED BY <2>1, FS_Subset, FS_CardinalityType
<1>8. \A k, l \in S : T(k) = T(l) => k = l
  <2> SUFFICES ASSUME NEW k \in S, NEW l \in S, T(k) = T(l) PROVE k = l
    OBVIOUS
  <2>1. k \in DOMAIN entries /\ l \in DOMAIN entries /\ T(k) \in target(k) /\ T(k) \in target(l)
    BY <1>4
  <2> HIDE DEF T, S
  <2>2. H(k) = H(l) /\ Cardinality(Before(k)) = Cardinality(Before(l))
    BY <2>1
  <2> HIDE DEF Before, H, target
  <2>3. ~(k < l) /\ ~(l < k)
    BY <1>6, <1>7, <2>1, <2>2
  <2> QED BY <1>2, <2>1, <2>3
<1>9. \A k \in S : G(T(k)) = H(k)
  BY <1>4
<1> HIDE DEF R, T, S, kept, c
<1>10. /\ R \in [1 .. c -> Expiry]
       /\ \A n \in 1 .. c : /\ R[n].at = T(kept[n]) /\ R[n].line = entries[kept[n]].line
                            /\ R[n].hour = entries[kept[n]].hour /\ kept[n] \in S
                            /\ kept[n] \in DOMAIN entries
  <2>1. DOMAIN kept = 1 .. c /\ \A n \in 1 .. c : kept[n] \in S /\ kept[n] \in DOMAIN entries
    BY <1>4, <1>5
  <2>2. \A n \in 1 .. c : /\ [entries[kept[n]] EXCEPT !.at = T(kept[n])] \in Expiry
                          /\ [entries[kept[n]] EXCEPT !.at = T(kept[n])].at = T(kept[n])
                          /\ [entries[kept[n]] EXCEPT !.at = T(kept[n])].line = entries[kept[n]].line
                          /\ [entries[kept[n]] EXCEPT !.at = T(kept[n])].hour = entries[kept[n]].hour
    BY <1>3, <1>4, <2>1 DEF Expiry
  <2>3. R = [n \in 1 .. c |-> [entries[kept[n]] EXCEPT !.at = T(kept[n])]]
    BY <1>1, <2>1
  <2> QED BY <2>1, <2>2, <2>3
<1>11. R \in Seq(Expiry) /\ DOMAIN R = 1 .. c
  BY <1>5, <1>10
<1>12. \A n, m \in 1 .. c : R[n].at = R[m].at => n = m
  <2> SUFFICES ASSUME NEW n \in 1 .. c, NEW m \in 1 .. c, R[n].at = R[m].at PROVE n = m
    OBVIOUS
  <2>1. kept[n] = kept[m]
    BY <1>8, <1>10
  <2>2. kept[n] \in Nat
    BY <1>2, <1>10
  <2>3. ~(n < m) /\ ~(m < n)
    BY <1>5, <2>1, <2>2
  <2> QED BY <1>5, <2>3
<1>13. \A n \in 1 .. c : R[n].at \in DOMAIN lines /\ Hash(lines[R[n].at]) = Hash(R[n].line)
  BY <1>4, <1>9, <1>10
<1>14. ExpiriesOf(R, lines)
  BY <1>11, <1>12, <1>13 DEF ExpiriesOf
<1>15. ASSUME NEW k \in DOMAIN entries, NEW j \in DOMAIN lines, G(j) = H(k),
              \A i \in DOMAIN lines : G(i) = G(j) => i = j,
              \A l \in DOMAIN entries : H(l) = H(k) => l = k
       PROVE  \E n \in 1 .. c : /\ R[n].at = j /\ R[n].line = entries[k].line
                                /\ R[n].hour = entries[k].hour
  <2>1. Before(k) = {}
    BY <1>2, <1>15
  <2>2. Twins(j, G(j)) = {}
    BY <1>2, <1>15
  <2>3. j \in target(k)
    BY <1>15, <2>1, <2>2
  <2>4. k \in S
    BY <2>3 DEF S
  <2>5. T(k) = j
    <3>1. T(k) \in DOMAIN lines /\ G(T(k)) = G(j)
      BY <1>4, <1>9, <1>15, <2>4
    <3> QED BY <1>15, <3>1
  <2>6. PICK n \in 1 .. c : kept[n] = k
    BY <1>5, <2>4
  <2> QED BY <1>10, <2>5, <2>6
<1>16. \A n \in 1 .. c : \E k \in DOMAIN entries :
         R[n].line = entries[k].line /\ R[n].hour = entries[k].hour
  BY <1>10
<1>17. DOMAIN R = 1 .. c
  BY <1>11
<1> QED BY <1>14, <1>15, <1>16, <1>17, SMTT(60) DEF R

\* The entries of all other lines are the same ones.
SameElsewhere(entries, after, which) ==
  /\ \A k \in DOMAIN entries : entries[k].at \notin which => \E n \in DOMAIN after : after[n] = entries[k]
  /\ \A n \in DOMAIN after : after[n].at \notin which => \E k \in DOMAIN entries : entries[k] = after[n]

\* A new expiry is of the lines it was set for only, and leaves one entry to a line.
LEMMA WithExpiryIs ==
  ASSUME NEW entries, NEW lines \in Seq(MemoryLine), ExpiriesOf(entries, lines),
         NEW which \in SUBSET DOMAIN lines, NEW h \in Nat
  PROVE  LET W == WithExpiry(entries, lines, which, h) IN
         ExpiriesOf(W, lines) /\ SameElsewhere(entries, W, which)
<1> DEFINE mine(e) == e.at \in which /\ Hash(e.line) = Hash(lines[e.at])
           M == {i \in which : \A k \in DOMAIN entries : ~(mine(entries[k]) /\ entries[k].at = i)}
           new == Ascending(M)
           c == Cardinality(M)
           O == {k \in DOMAIN entries : ~mine(entries[k])}
           A == [k \in DOMAIN entries |->
                   IF mine(entries[k]) THEN [entries[k] EXCEPT !.hour = h] ELSE entries[k]]
           B == [n \in DOMAIN new |-> [at |-> new[n], line |-> lines[new[n]], hour |-> h]]
           W == WithExpiry(entries, lines, which, h)
           len == Len(entries)
<1>1. W = IF h > LastHour THEN Picked(entries, O) ELSE A \o B
  BY Zenon DEF WithExpiry
<1>2. /\ entries \in Seq(Expiry) /\ DOMAIN entries = 1 .. len /\ len \in Nat
      /\ \A k \in DOMAIN entries : entries[k] \in Expiry
  <2>1. entries \in Seq(Expiry)
    BY DEF ExpiriesOf
  <2> QED BY <2>1, LenProperties, ElementOfSeq
<1>3. DOMAIN lines = 1 .. Len(lines) /\ Len(lines) \in Nat /\ \A i \in DOMAIN lines : lines[i] \in MemoryLine
  BY LenProperties, ElementOfSeq
<1>4. \A k \in DOMAIN entries : /\ entries[k].at \in DOMAIN lines
                                /\ Hash(lines[entries[k].at]) = Hash(entries[k].line)
                                /\ \A l \in DOMAIN entries : entries[k].at = entries[l].at => k = l
  BY DEF ExpiriesOf
<1>5. \A k \in DOMAIN entries : mine(entries[k]) <=> entries[k].at \in which
  BY <1>4
<1> DEFINE Goal(w) == ExpiriesOf(w, lines) /\ SameElsewhere(entries, w, which)
<1>6. ASSUME h > LastHour PROVE Goal(W)
  <2> DEFINE P == Picked(entries, O)
             f == Ascending(O)
             m == Cardinality(O)
  <2>1. /\ m \in Nat /\ f \in [1 .. m -> O]
        /\ \A i, j \in 1 .. m : i < j => f[i] < f[j]
        /\ \A k \in O : \E n \in 1 .. m : f[n] = k
        /\ P \in Seq(Expiry) /\ Len(P) = m
        /\ \A n \in 1 .. m : P[n] = entries[f[n]]
    <3>1. O \in SUBSET DOMAIN entries
      OBVIOUS
    <3> HIDE DEF O
    <3> QED BY <1>2, <3>1, PickedIs
  <2>2. W = P
    BY <1>1, <1>6
  <2>3. \A k \in O : k \in DOMAIN entries /\ k \in Nat
    BY <1>2
  <2>4. \A k \in DOMAIN entries : entries[k].at \notin which => k \in O
    BY <1>5
  <2> HIDE DEF P, f, m, O, mine, W
  <2>5. DOMAIN P = 1 .. m
    BY <2>1, LenProperties
  <2>6. \A n \in 1 .. m : f[n] \in DOMAIN entries /\ f[n] \in Nat
    BY <2>1, <2>3
  <2>7. \A k, l \in DOMAIN P : P[k].at = P[l].at => k = l
    <3> SUFFICES ASSUME NEW k \in DOMAIN P, NEW l \in DOMAIN P, P[k].at = P[l].at PROVE k = l
      OBVIOUS
    <3>1. f[k] = f[l]
      BY <1>4, <2>1, <2>5, <2>6
    <3>2. ~(k < l) /\ ~(l < k)
      BY <2>1, <2>5, <2>6, <3>1
    <3> QED BY <2>1, <2>5, <3>2
  <2>8. \A k \in DOMAIN P : P[k].at \in DOMAIN lines /\ Hash(lines[P[k].at]) = Hash(P[k].line)
    BY <1>4, <2>1, <2>5, <2>6
  <2>9. ExpiriesOf(P, lines)
    BY <2>1, <2>7, <2>8 DEF ExpiriesOf
  <2>10. \A k \in DOMAIN entries : entries[k].at \notin which => \E n \in DOMAIN P : P[n] = entries[k]
    <3> SUFFICES ASSUME NEW k \in O PROVE \E n \in DOMAIN P : P[n] = entries[k]
      BY <2>4
    <3>1. PICK n \in 1 .. m : f[n] = k
      BY <2>1
    <3> QED BY <2>1, <2>5, <3>1
  <2>11. \A n \in DOMAIN P : \E k \in DOMAIN entries : entries[k] = P[n]
    BY <2>1, <2>5, <2>6
  <2> QED BY <2>2, <2>9, <2>10, <2>11 DEF SameElsewhere
<1>7. ASSUME ~(h > LastHour) PROVE Goal(W)
  <2>1. /\ c \in Nat /\ new \in [1 .. c -> M]
        /\ \A i, j \in 1 .. c : i < j => new[i] < new[j]
    <3>1. M \in SUBSET DOMAIN lines
      OBVIOUS
    <3> HIDE DEF M
    <3> QED BY <3>1, PickedIs
  <2>2. \A i \in M : i \in which /\ i \in DOMAIN lines /\ i \in Nat
                     /\ \A k \in DOMAIN entries : entries[k].at # i
    BY <1>3, <1>5
  <2>3. DOMAIN new = 1 .. c /\ \A n \in 1 .. c : new[n] \in M
    BY <2>1
  <2> HIDE DEF M, new, c
  <2>4. /\ B \in [1 .. c -> Expiry]
        /\ \A n \in 1 .. c : B[n].at = new[n] /\ B[n].line = lines[new[n]]
    <3>1. \A n \in 1 .. c : B[n] = [at |-> new[n], line |-> lines[new[n]], hour |-> h]
      BY <2>3
    <3>2. \A n \in 1 .. c : new[n] \in Nat /\ lines[new[n]] \in MemoryLine
      BY <1>3, <2>2, <2>3
    <3>3. DOMAIN B = 1 .. c /\ B = [n \in 1 .. c |-> B[n]]
      BY <2>3
    <3> HIDE DEF B
    <3>4. \A n \in 1 .. c : B[n] \in Expiry
      <4> SUFFICES ASSUME NEW n \in 1 .. c PROVE B[n] \in Expiry
        OBVIOUS
      <4>1. B[n] = [at |-> new[n], line |-> lines[new[n]], hour |-> h]
        BY <3>1
      <4>2. new[n] \in Nat /\ lines[new[n]] \in MemoryLine
        BY <3>2
      <4>3. [at |-> new[n], line |-> lines[new[n]], hour |-> h] \in Expiry
        BY <4>2 DEF Expiry
      <4> QED BY <4>1, <4>3
    <3> QED BY <3>1, <3>3, <3>4
  <2>5. /\ A \in [1 .. len -> Expiry]
        /\ \A k \in 1 .. len : /\ A[k].at = entries[k].at /\ A[k].line = entries[k].line
                               /\ entries[k].at \notin which => A[k] = entries[k]
    <3>1. \A k \in 1 .. len : /\ [entries[k] EXCEPT !.hour = h] \in Expiry
                              /\ [entries[k] EXCEPT !.hour = h].at = entries[k].at
                              /\ [entries[k] EXCEPT !.hour = h].line = entries[k].line
      BY <1>2 DEF Expiry
    <3>2. \A k \in 1 .. len : A[k] = IF mine(entries[k]) THEN [entries[k] EXCEPT !.hour = h] ELSE entries[k]
      BY <1>2
    <3>3. A = [k \in 1 .. len |-> A[k]]
      BY <1>2
    <3>4. \A k \in 1 .. len : mine(entries[k]) <=> entries[k].at \in which
      BY <1>2, <1>5
    <3> HIDE DEF A, mine
    <3>5. \A k \in 1 .. len : A[k] \in Expiry
      BY <1>2, <3>1, <3>2
    <3> QED BY <3>1, <3>2, <3>3, <3>4, <3>5
  <2> HIDE DEF A, B, W, len, mine
  <2>6. W = A \o B
    BY <1>1, <1>7
  <2>7. A \in Seq(Expiry) /\ B \in Seq(Expiry) /\ Len(A) = len /\ Len(B) = c
    BY <1>2, <2>1, <2>4, <2>5
  <2>8. /\ W \in Seq(Expiry) /\ Len(W) = len + c
        /\ \A n \in 1 .. len + c : W[n] = IF n <= len THEN A[n] ELSE B[n - len]
    <3>1. /\ A \o B \in Seq(Expiry) /\ Len(A \o B) = Len(A) + Len(B)
          /\ \A n \in 1 .. Len(A) + Len(B) :
               (A \o B)[n] = IF n <= Len(A) THEN A[n] ELSE B[n - Len(A)]
      BY <2>7, ConcatProperties
    <3> QED BY <2>6, <2>7, <3>1
  <2>9. DOMAIN W = 1 .. len + c
    BY <2>8, LenProperties
  <2>10. \A n \in 1 .. len : n \in 1 .. len + c /\ W[n] = A[n]
    BY <1>2, <2>1, <2>8
  <2>11. \A n \in 1 .. len + c : n \notin 1 .. len => n - len \in 1 .. c /\ W[n] = B[n - len]
    BY <1>2, <2>1, <2>8
  <2>12. \A n \in 1 .. len + c : W[n].at \in DOMAIN lines /\ Hash(lines[W[n].at]) = Hash(W[n].line)
    <3> SUFFICES ASSUME NEW n \in 1 .. len + c
                 PROVE  W[n].at \in DOMAIN lines /\ Hash(lines[W[n].at]) = Hash(W[n].line)
      OBVIOUS
    <3>1. CASE n \in 1 .. len
      BY <1>2, <1>4, <2>5, <2>10, <3>1
    <3>2. CASE n \notin 1 .. len
      <4>1. n - len \in 1 .. c /\ W[n] = B[n - len]
        BY <2>11, <3>2
      <4>2. W[n].at = new[n - len] /\ W[n].line = lines[new[n - len]]
        BY <2>4, <4>1
      <4>3. new[n - len] \in DOMAIN lines
        BY <2>2, <2>3, <4>1
      <4> QED BY <4>2, <4>3
    <3> QED BY <3>1, <3>2
  <2>13. \A n, m \in 1 .. len + c : W[n].at = W[m].at => n = m
    <3> SUFFICES ASSUME NEW n \in 1 .. len + c, NEW m \in 1 .. len + c, W[n].at = W[m].at
                 PROVE  n = m
      OBVIOUS
    <3>1. \A x \in 1 .. len : W[x].at = entries[x].at /\ x \in DOMAIN entries
      BY <1>2, <2>5, <2>10
    <3>2. \A x \in 1 .. len + c : x \notin 1 .. len =>
            W[x].at = new[x - len] /\ x - len \in 1 .. c /\ new[x - len] \in M
      BY <2>3, <2>4, <2>11
    <3>3. CASE n \in 1 .. len /\ m \in 1 .. len
      BY <1>4, <3>1, <3>3
    <3>4. CASE n \in 1 .. len /\ m \notin 1 .. len
      BY <2>2, <3>1, <3>2, <3>4
    <3>5. CASE n \notin 1 .. len /\ m \in 1 .. len
      BY <2>2, <3>1, <3>2, <3>5
    <3>6. CASE n \notin 1 .. len /\ m \notin 1 .. len
      <4>1. new[n - len] = new[m - len] /\ n - len \in 1 .. c /\ m - len \in 1 .. c
        BY <3>2, <3>6
      <4>2. new[n - len] \in Nat
        BY <2>2, <2>3, <4>1
      <4>3. ~(n - len < m - len) /\ ~(m - len < n - len)
        BY <2>1, <4>1, <4>2
      <4> QED BY <1>2, <2>1, <4>3
    <3> QED BY <3>3, <3>4, <3>5, <3>6
  <2>14. ExpiriesOf(W, lines)
    BY <2>8, <2>9, <2>12, <2>13 DEF ExpiriesOf
  <2>15. \A k \in DOMAIN entries : entries[k].at \notin which => \E n \in DOMAIN W : W[n] = entries[k]
    BY <1>2, <2>5, <2>9, <2>10
  <2>16. \A n \in DOMAIN W : W[n].at \notin which => \E k \in DOMAIN entries : entries[k] = W[n]
    <3> SUFFICES ASSUME NEW n \in DOMAIN W, W[n].at \notin which
                 PROVE  \E k \in DOMAIN entries : entries[k] = W[n]
      OBVIOUS
    <3>1. CASE n \in 1 .. len
      BY <1>2, <2>5, <2>10, <3>1
    <3>2. CASE n \notin 1 .. len
      BY <2>2, <2>3, <2>4, <2>9, <2>11, <3>2
    <3> QED BY <3>1, <3>2
  <2> QED BY <2>14, <2>15, <2>16 DEF SameElsewhere
<1>8. Goal(WithExpiry(entries, lines, which, h))
  <2> HIDE DEF Goal
  <2> QED BY <1>6, <1>7
<1> QED BY <1>8

-----------------------------------------------------------------------------
(* The invariant *)

ProposalRecord ==
  [status : {"none", "pending", "approved", "rejected"}, action : ProposalAction,
   note : Fact \cup {<<>>}, texts : SUBSET Texts, expected : -1 .. LastVersion,
   retention : Retention]

\* A proposal writes a note unless it forgets, and one that replaces or merges names
\* the version it is about.
ProposalAsked(q) ==
  q.status = "pending" => /\ q.action # "forget" => q.note \in Fact
                          /\ q.action \in {"replace", "merge"} => q.expected # -1

\* The document, its history, and the entries, which are at most one to a line.
DocumentInv ==
  /\ memory.version \in 0 .. LastVersion
  /\ Version(memory.lines, memory.version)
  /\ \A r \in revisions : /\ r.version \in 1 .. memory.version
                          /\ Version(r.lines, r.version)
  /\ memory.version = 0 \/ \E r \in revisions : r.version = memory.version
  /\ \A r \in revisions : r.restoredFrom = 0 \/ \E s \in revisions : s.version = r.restoredFrom
  /\ ExpiriesOf(expiries, memory.lines)

MemoryInv ==
  /\ DocumentInv
  /\ proposals \in [Proposal -> ProposalRecord]
  /\ \A p \in Proposal : ProposalAsked(proposals[p])
  /\ hour \in 0 .. LastHour

\* A line with no twin in either version expires when it did.
LEMMA ReconciledFollows ==
  ASSUME NEW entries, NEW old, ExpiriesOf(entries, old),
         NEW lines \in Seq(MemoryLine),
         NEW i \in DOMAIN old, NEW j \in DOMAIN lines, old[i] = lines[j],
         Alone(i, old), Alone(j, lines)
  PROVE  LET R == Reconciled(entries, lines)
             H == Hash(lines[j]) IN
         \A t : (\E k \in DOMAIN entries : /\ entries[k].at = i /\ Hash(entries[k].line) = H
                                           /\ entries[k].hour = t)
                <=> (\E n \in DOMAIN R : /\ R[n].at = j /\ Hash(R[n].line) = H
                                         /\ R[n].hour = t)
<1> DEFINE R == Reconciled(entries, lines)
           H == Hash(lines[j])
           Old(t) == \E k \in DOMAIN entries : /\ entries[k].at = i /\ Hash(entries[k].line) = H
                                               /\ entries[k].hour = t
           New(t) == \E n \in DOMAIN R : R[n].at = j /\ Hash(R[n].line) = H /\ R[n].hour = t
<1>0. entries \in Seq(Expiry)
  BY DEF ExpiriesOf
<1>1. \A k \in DOMAIN entries : Hash(entries[k].line) = H => entries[k].at = i
  BY DEF ExpiriesOf, Alone
<1>2. \A k, l \in DOMAIN entries : Hash(entries[k].line) = H /\ Hash(entries[l].line) = H => k = l
  BY <1>1 DEF ExpiriesOf
<1>3. /\ \A n \in DOMAIN R : \E k \in DOMAIN entries :
           R[n].line = entries[k].line /\ R[n].hour = entries[k].hour
      /\ \A k \in DOMAIN entries :
           /\ Hash(lines[j]) = Hash(entries[k].line)
           /\ \A x \in DOMAIN lines : Hash(lines[x]) = Hash(lines[j]) => x = j
           /\ \A l \in DOMAIN entries : Hash(entries[l].line) = Hash(entries[k].line) => l = k
           => \E n \in DOMAIN R : /\ R[n].at = j /\ R[n].line = entries[k].line
                                  /\ R[n].hour = entries[k].hour
  BY <1>0, ReconciledIs
<1> HIDE DEF R
<1>4. ASSUME NEW t, Old(t) PROVE New(t)
  <2>1. PICK k \in DOMAIN entries : /\ entries[k].at = i /\ Hash(entries[k].line) = H
                                    /\ entries[k].hour = t
    BY <1>4
  <2>2. \A x \in DOMAIN lines : Hash(lines[x]) = Hash(lines[j]) => x = j
    BY DEF Alone
  <2>3. \A l \in DOMAIN entries : Hash(entries[l].line) = Hash(entries[k].line) => l = k
    BY <1>2, <2>1
  <2>4. PICK n \in DOMAIN R : /\ R[n].at = j /\ R[n].line = entries[k].line
                              /\ R[n].hour = entries[k].hour
    BY <1>3, <2>1, <2>2, <2>3
  <2> QED BY <2>1, <2>4
<1>5. ASSUME NEW t, New(t) PROVE Old(t)
  <2>1. PICK n \in DOMAIN R : R[n].at = j /\ Hash(R[n].line) = H /\ R[n].hour = t
    BY <1>5
  <2>2. PICK k \in DOMAIN entries : R[n].line = entries[k].line /\ R[n].hour = entries[k].hour
    BY <1>3
  <2> QED BY <1>1, <2>1, <2>2
<1>6. \A t : Old(t) <=> New(t)
  BY <1>4, <1>5
<1> QED BY <1>6 DEF R

\* What a commit does to the entries.
LEMMA RevisionExpiries ==
  ASSUME DocumentInv, NEW lines, Version(lines, NextVersion), NEW fresh \in SUBSET DOMAIN lines,
         NEW from, NEW h \in Nat, CommitRevision(lines, from, fresh, h)
  PROVE  /\ ExpiriesOf(expiries', lines)
         /\ LET R == Reconciled(expiries, lines) IN
            ExpiriesOf(R, lines) /\ SameElsewhere(R, expiries', fresh)
<1> DEFINE R == Reconciled(expiries, lines)
<1>1. expiries \in Seq(Expiry) /\ lines \in Seq(MemoryLine)
  BY DEF DocumentInv, ExpiriesOf, Version
<1>2. ExpiriesOf(R, lines)
  BY <1>1, ReconciledIs
<1>3. expiries' = IF h > LastHour THEN R ELSE WithExpiry(R, lines, fresh, h)
  BY DEF CommitRevision
<1> HIDE DEF R
<1>4. CASE h > LastHour
  <2>1. expiries' = R
    BY <1>3, <1>4
  <2>2. SameElsewhere(R, R, fresh)
    BY DEF SameElsewhere
  <2> QED BY <1>2, <2>1, <2>2 DEF R
<1>5. CASE ~(h > LastHour)
  <2> DEFINE W == WithExpiry(R, lines, fresh, h)
  <2>1. expiries' = W
    BY <1>3, <1>5
  <2>2. ExpiriesOf(W, lines) /\ SameElsewhere(R, W, fresh)
    BY <1>1, <1>2, WithExpiryIs
  <2> HIDE DEF W
  <2> QED BY <1>2, <2>1, <2>2 DEF R
<1> QED BY <1>4, <1>5

LEMMA RevisionKeeps ==
  ASSUME DocumentInv, NEW lines, Version(lines, NextVersion), NEW fresh \in SUBSET DOMAIN lines,
         NEW from, from = 0 \/ \E r \in revisions : r.version = from,
         NEW h \in Nat, CommitRevision(lines, from, fresh, h)
  PROVE  DocumentInv'
<1> DEFINE new == [version |-> NextVersion, lines |-> lines, restoredFrom |-> from]
<1>1. /\ memory'.lines = lines /\ memory'.version = NextVersion
      /\ NextVersion = memory.version + 1 /\ NextVersion <= LastVersion
      /\ revisions' = revisions \cup {new}
  BY DEF CommitRevision, NextVersion
<1>2. memory.version \in Nat /\ NextVersion \in 1 .. LastVersion
  BY <1>1, MemoryBounds DEF DocumentInv
<1>3. new.version = NextVersion /\ new.lines = lines /\ new.restoredFrom = from
  OBVIOUS
<1> HIDE DEF new, NextVersion
<1>4. \A r \in revisions' : r.version \in 1 .. memory'.version /\ Version(r.lines, r.version)
  <2> SUFFICES ASSUME NEW r \in revisions'
               PROVE  r.version \in 1 .. memory'.version /\ Version(r.lines, r.version)
    OBVIOUS
  <2>1. CASE r \in revisions
    BY <1>1, <1>2, <2>1 DEF DocumentInv
  <2>2. CASE r = new
    BY <1>1, <1>2, <1>3, <2>2
  <2> QED BY <1>1, <2>1, <2>2
<1>5. \E r \in revisions' : r.version = memory'.version
  BY <1>1, <1>3
<1>6. \A r \in revisions' : r.restoredFrom = 0 \/ \E s \in revisions' : s.version = r.restoredFrom
  <2> SUFFICES ASSUME NEW r \in revisions'
               PROVE  r.restoredFrom = 0 \/ \E s \in revisions' : s.version = r.restoredFrom
    OBVIOUS
  <2>1. CASE r \in revisions
    BY <1>1, <2>1 DEF DocumentInv
  <2>2. CASE r = new
    BY <1>1, <1>3, <2>2
  <2> QED BY <1>1, <2>1, <2>2
<1>7. ExpiriesOf(expiries', lines)
  BY RevisionExpiries
<1>8. memory'.version \in 0 .. LastVersion
  BY <1>1, <1>2
<1>9. Version(memory'.lines, memory'.version) /\ ExpiriesOf(expiries', memory'.lines)
  BY <1>1, <1>7
<1> QED BY <1>4, <1>5, <1>6, <1>8, <1>9 DEF DocumentInv

\* A line that is in both versions, and alone in each, expires when it did.
LEMMA RevisionFollows ==
  ASSUME DocumentInv, NEW lines, Version(lines, NextVersion), NEW fresh \in SUBSET DOMAIN lines,
         \A k \in fresh : lines[k].since = NextVersion,
         NEW from, NEW h \in Nat, CommitRevision(lines, from, fresh, h),
         NEW i \in DOMAIN memory.lines, NEW j \in DOMAIN lines, memory.lines[i] = lines[j],
         Alone(i, memory.lines), Alone(j, lines)
  PROVE  ExpiresAt(memory.lines, expiries, i) = ExpiresAt(lines, expiries', j)
<1> DEFINE R == Reconciled(expiries, lines)
           H == Hash(lines[j])
           Was == {expiries[k].hour : k \in {l \in DOMAIN expiries :
                     expiries[l].at = i /\ Hash(expiries[l].line) = Hash(memory.lines[i])}}
           Is == {expiries'[k].hour : k \in {l \in DOMAIN expiries' :
                     expiries'[l].at = j /\ Hash(expiries'[l].line) = Hash(lines[j])}}
           HasWas(t) == \E k \in DOMAIN expiries : /\ expiries[k].at = i /\ Hash(expiries[k].line) = H
                                                   /\ expiries[k].hour = t
           HasR(t) == \E n \in DOMAIN R : R[n].at = j /\ Hash(R[n].line) = H /\ R[n].hour = t
           HasIs(t) == \E n \in DOMAIN expiries' : /\ expiries'[n].at = j /\ Hash(expiries'[n].line) = H
                                                   /\ expiries'[n].hour = t
<1>1. j \notin fresh
  <2>1. memory.lines \in Seq(MemoryLine) /\ memory.lines[i].since <= memory.version
    BY DEF DocumentInv, Version
  <2>2. memory.lines[i] \in MemoryLine
    BY <2>1, LenProperties, ElementOfSeq
  <2>3. memory.lines[i].since \in Nat /\ memory.version \in Nat
    BY <2>2, MemoryBounds DEF MemoryLine, DocumentInv
  <2>4. memory.lines[i].since # NextVersion
    BY <2>1, <2>3 DEF NextVersion
  <2> QED BY <2>4
<1>2. \A t : HasWas(t) <=> HasR(t)
  <2>1. ExpiriesOf(expiries, memory.lines) /\ lines \in Seq(MemoryLine)
    BY DEF DocumentInv, Version
  <2> QED BY <2>1, ReconciledFollows
<1>3. /\ \A k \in DOMAIN R : R[k].at \notin fresh => \E n \in DOMAIN expiries' : expiries'[n] = R[k]
      /\ \A n \in DOMAIN expiries' : expiries'[n].at \notin fresh => \E k \in DOMAIN R : R[k] = expiries'[n]
  BY RevisionExpiries DEF SameElsewhere
<1> HIDE DEF R
<1>4. \A t : HasR(t) <=> HasIs(t)
  BY <1>1, <1>3
<1>5. \A t : t \in Was <=> HasWas(t)
  OBVIOUS
<1>6. \A t : t \in Is <=> HasIs(t)
  OBVIOUS
<1> HIDE DEF HasWas, HasR, HasIs, Was, Is
<1>7. Was = Is
  BY <1>2, <1>4, <1>5, <1>6
<1>8. ExpiresAt(memory.lines, expiries, i) = Sets!Min({LastHour + 1} \cup Was)
  BY Zenon DEF ExpiresAt, Was
<1>9. ExpiresAt(lines, expiries', j) = Sets!Min({LastHour + 1} \cup Is)
  BY Zenon DEF ExpiresAt, Is
<1> QED BY <1>7, <1>8, <1>9

-----------------------------------------------------------------------------
(* The steps *)

\* A step that writes a version: of lines that are old or its own.
Revises(lines, from, fresh, h) ==
  /\ Version(lines, NextVersion)
  /\ fresh \in SUBSET DOMAIN lines
  /\ \A k \in fresh : lines[k].since = NextVersion
  /\ from = 0 \/ \E r \in revisions : r.version = from
  /\ h \in Nat
  /\ CommitRevision(lines, from, fresh, h)

LEMMA VersionsAreNumbers ==
  ASSUME DocumentInv
  PROVE  /\ memory.version \in Nat /\ NextVersion = memory.version + 1
         /\ LastHour + 1 \in Nat /\ Version(memory.lines, memory.version)
BY MemoryBounds DEF DocumentInv, NextVersion

LEMMA RememberRevises ==
  ASSUME DocumentInv, NEW note \in Fact, NEW h \in Nat, RememberScoped(note, h)
  PROVE  \E lines, from, fresh : Revises(lines, from, fresh, h)
<1> DEFINE lines == Remembered(memory.lines, NextVersion, note)
           fresh == Len(memory.lines) + 1 .. Len(lines)
<1>1. CommitRevision(lines, 0, fresh, h)
  BY DEF RememberScoped
<1>2. memory.version + 1 <= LastVersion
  BY <1>1 DEF CommitRevision, NextVersion
<1>3. /\ Version(lines, NextVersion)
      /\ \A i \in fresh : i \in DOMAIN lines /\ lines[i].since = NextVersion
  BY <1>2, VersionsAreNumbers, RememberedVersion DEF NextVersion
<1> HIDE DEF lines, fresh
<1>4. Revises(lines, 0, fresh, h)
  BY <1>1, <1>3 DEF Revises
<1> QED BY <1>4

\* What is left when a text is forgotten.
LEMMA ForgottenVersion ==
  ASSUME NEW lines, NEW v, Version(lines, v), NEW text
  PROVE  Version(Forgotten(lines, text), v)
BY PickedVersion DEF Forgotten

LEMMA ForgetRevises ==
  ASSUME DocumentInv, NEW text, ForgetScoped(text)
  PROVE  \E lines, from, fresh, h : Revises(lines, from, fresh, h)
<1> DEFINE lines == Forgotten(memory.lines, text)
<1>1. CommitRevision(lines, 0, {}, LastHour + 1)
  BY DEF ForgetScoped
<1>2. Version(lines, NextVersion)
  BY VersionsAreNumbers, ForgottenVersion, LaterVersion
<1> HIDE DEF lines
<1>3. Revises(lines, 0, {}, LastHour + 1)
  BY <1>1, <1>2, VersionsAreNumbers DEF Revises
<1> QED BY <1>3

LEMMA RestoreRevises ==
  ASSUME DocumentInv, NEW r \in revisions, RestoreScoped(r)
  PROVE  \E lines, from, fresh, h : Revises(lines, from, fresh, h)
<1>1. CommitRevision(r.lines, r.version, {}, LastHour + 1)
  BY DEF RestoreScoped
<1>2. r.version \in 1 .. memory.version /\ Version(r.lines, r.version)
  BY DEF DocumentInv
<1>3. Version(r.lines, NextVersion)
  BY <1>2, VersionsAreNumbers, LaterVersion
<1>4. Revises(r.lines, r.version, {}, LastHour + 1)
  BY <1>1, <1>3, VersionsAreNumbers DEF Revises
<1> QED BY <1>4

LEMMA AppliedVersion ==
  ASSUME DocumentInv, NEW q \in ProposalRecord, q.status = "pending", ProposalAsked(q),
         memory.version + 1 <= LastVersion
  PROVE  Version(Applied(q), NextVersion)
<1>1. /\ memory.version \in Nat /\ NextVersion = memory.version + 1
      /\ Version(memory.lines, memory.version)
  BY VersionsAreNumbers
<1>2. ASSUME NEW lines, Version(lines, memory.version), NEW note \in Fact
      PROVE  Version(Remembered(lines, NextVersion, note), NextVersion)
  BY <1>1, <1>2, RememberedVersion
<1>3. q.action \in {"remember", "replace", "merge", "forget"}
  BY DEF ProposalRecord, ProposalAction
<1> DEFINE text == CHOOSE t \in q.texts : TRUE
<1>4. CASE q.action = "remember"
  <2>1. Applied(q) = Remembered(memory.lines, NextVersion, q.note)
    BY <1>4 DEF Applied
  <2> QED BY <1>1, <1>2, <1>4, <2>1 DEF ProposalAsked
<1>5. CASE q.action = "replace"
  <2>1. Applied(q) = Remembered(Forgotten(memory.lines, text), NextVersion, q.note)
    BY <1>5 DEF Applied, Replaced
  <2>2. Version(Forgotten(memory.lines, text), memory.version)
    BY <1>1, ForgottenVersion
  <2> QED BY <1>2, <1>5, <2>1, <2>2 DEF ProposalAsked
<1>6. CASE q.action = "merge"
  <2> DEFINE removed == UNION {EntryRange(memory.lines, FirstWith(memory.lines, t)) : t \in q.texts}
             left == Picked(memory.lines, DOMAIN memory.lines \ removed)
  <2>1. Applied(q) = Merged(memory.lines, NextVersion, q.texts, q.note)
    BY <1>6 DEF Applied
  <2>2. Applied(q) = Remembered(left, NextVersion, q.note)
    BY <2>1 DEF Merged
  <2>3. DOMAIN memory.lines \ removed \in SUBSET DOMAIN memory.lines
    OBVIOUS
  <2> HIDE DEF removed
  <2>4. Version(left, memory.version)
    BY <1>1, <2>3, PickedVersion
  <2> HIDE DEF left
  <2> QED BY <1>2, <1>6, <2>2, <2>4 DEF ProposalAsked
<1>7. CASE q.action = "forget"
  <2>1. Applied(q) = Forgotten(memory.lines, text)
    BY <1>7 DEF Applied
  <2>2. Version(Forgotten(memory.lines, text), memory.version)
    BY <1>1, ForgottenVersion
  <2> QED BY <1>1, <2>1, <2>2, LaterVersion
<1> QED BY <1>3, <1>4, <1>5, <1>6, <1>7

LEMMA ApproveRevises ==
  ASSUME MemoryInv, NEW p \in Proposal, ApproveMemoryProposal(p)
  PROVE  \E lines, from, fresh, h : Revises(lines, from, fresh, h)
<1> DEFINE q == proposals[p]
           lines == Applied(q)
           fresh == {i \in DOMAIN lines : lines[i].since = NextVersion}
           h == IF q.retention = 0 THEN LastHour + 1 ELSE hour + q.retention
<1>1. q.status = "pending" /\ CommitRevision(lines, 0, fresh, h)
  BY DEF ApproveMemoryProposal
<1>2. memory.version + 1 <= LastVersion
  BY <1>1 DEF CommitRevision, NextVersion
<1>3. q \in ProposalRecord /\ ProposalAsked(q) /\ DocumentInv
  BY DEF MemoryInv
<1>4. h \in Nat
  BY <1>3, MemoryBounds DEF MemoryInv, ProposalRecord, Retention
<1> HIDE DEF q, h
<1>5. Version(lines, NextVersion)
  BY <1>1, <1>2, <1>3, AppliedVersion
<1> HIDE DEF lines
<1>6. Revises(lines, 0, fresh, h)
  BY <1>1, <1>4, <1>5 DEF Revises
<1> QED BY <1>6

LEMMA RevisesKeeps ==
  ASSUME DocumentInv, NEW lines, NEW from, NEW fresh, NEW h, Revises(lines, from, fresh, h)
  PROVE  DocumentInv' /\ memory'.lines = lines /\ memory'.version # memory.version
<1>1. memory'.lines = lines /\ memory'.version = NextVersion
  BY DEF Revises, CommitRevision
<1>2. memory'.version # memory.version
  BY <1>1, VersionsAreNumbers
<1>3. DocumentInv'
  BY RevisionKeeps DEF Revises
<1> QED BY <1>1, <1>2, <1>3

\* The note of a line is in the document.
LEMMA RangeIsInside ==
  ASSUME NEW lines \in Seq(MemoryLine), NEW i \in DOMAIN lines
  PROVE  EntryRange(lines, i) \in SUBSET DOMAIN lines
<1> DEFINE F == {j \in 1 .. i : lines[j].first}
           U == {1} \cup F
           start == Sets!Max(U)
<1>1. DOMAIN lines = 1 .. Len(lines) /\ Len(lines) \in Nat
  BY LenProperties
<1>2. IsFiniteSet(U) /\ U \in SUBSET Int /\ U # {} /\ \A u \in U : u >= 1
  <2>1. IsFiniteSet(1 .. i) /\ F \in SUBSET (1 .. i)
    <3>1. 1 \in Int /\ i \in Int
      BY <1>1
    <3> QED BY <3>1, FS_Interval
  <2> HIDE DEF F
  <2>2. IsFiniteSet(F)
    BY <2>1, FS_Subset
  <2>3. IsFiniteSet(U)
    BY <2>2, FS_AddElement, SMTT(60)
  <2> QED BY <1>1, <2>1, <2>3
<1> HIDE DEF U
<1>3. \E x \in U : \A y \in U : x >= y
  <2>1. PICK t \in U : \A u \in U : u <= t
    BY <1>2, Greatest
  <2> QED BY <1>2, <2>1
<1>4. start \in U
  BY <1>3 DEF Sets!Max
<1>5. start \in Int /\ start >= 1
  BY <1>2, <1>4
<1>6. EntryRange(lines, i) = {j \in start .. Len(lines) : \A k \in start + 1 .. j : ~lines[k].first}
  BY Zenon DEF EntryRange, U
<1> HIDE DEF start
<1> QED BY <1>1, <1>5, <1>6

LEMMA SetExpiryKeeps ==
  ASSUME DocumentInv, NEW text, NEW h \in Nat, SetMemoryExpiry(text, h)
  PROVE  DocumentInv'
<1> DEFINE I == {i \in DOMAIN memory.lines : memory.lines[i].text = text}
           f == FirstWith(memory.lines, text)
           range == EntryRange(memory.lines, f)
<1>1. memory.lines \in Seq(MemoryLine) /\ ExpiriesOf(expiries, memory.lines)
  BY DEF DocumentInv, Version
<1>2. f \in DOMAIN memory.lines
  <2>1. I # {} /\ I \in SUBSET Nat
    BY <1>1, LenProperties DEF SetMemoryExpiry, HasText
  <2>2. \E x \in I : \A y \in I : x <= y
    <3> HIDE DEF I
    <3> QED BY <2>1, Least
  <2>3. Sets!Min(I) \in I
    BY <2>2 DEF Sets!Min
  <2>4. f = Sets!Min(I)
    BY DEF FirstWith
  <2> QED BY <2>3, <2>4
<1> HIDE DEF f
<1>3. range \in SUBSET DOMAIN memory.lines
  BY <1>1, <1>2, RangeIsInside
<1>4. expiries' = WithExpiry(expiries, memory.lines, range, h) /\ UNCHANGED <<memory, revisions>>
  BY DEF SetMemoryExpiry, f
<1> HIDE DEF range
<1>5. ExpiriesOf(expiries', memory.lines)
  BY <1>1, <1>3, <1>4, WithExpiryIs
<1> QED BY <1>4, <1>5 DEF DocumentInv

LEMMA CompactKeeps ==
  ASSUME DocumentInv, CompactMemory
  PROVE  DocumentInv'
<1> DEFINE restored == {r.restoredFrom : r \in revisions}
           newer(r) == {s \in revisions : s.version > r.version}
<1>1. /\ UNCHANGED <<memory, expiries>>
      /\ revisions' = {r \in revisions : r.version \in restored \/ Cardinality(newer(r)) < KeepLatest}
  BY DEF CompactMemory
<1>2. revisions' \subseteq revisions
  BY <1>1
<1>3. memory.version = 0 \/ \E r \in revisions' : r.version = memory.version
  <2> SUFFICES ASSUME memory.version # 0 PROVE \E r \in revisions' : r.version = memory.version
    OBVIOUS
  <2>1. PICK r \in revisions : r.version = memory.version
    BY DEF DocumentInv
  <2>2. \A s \in revisions : s.version \in Int /\ s.version <= memory.version
    BY DEF DocumentInv
  <2>3. newer(r) = {}
    BY <2>1, <2>2, VersionsAreNumbers
  <2>4. Cardinality(newer(r)) < KeepLatest
    BY <2>3, FS_EmptySet, MemoryBounds
  <2> QED BY <1>1, <2>1, <2>4
<1>4. \A r \in revisions' : r.restoredFrom = 0 \/ \E s \in revisions' : s.version = r.restoredFrom
  <2> SUFFICES ASSUME NEW r \in revisions', r.restoredFrom # 0
               PROVE  \E s \in revisions' : s.version = r.restoredFrom
    OBVIOUS
  <2>1. PICK s \in revisions : s.version = r.restoredFrom
    BY <1>2 DEF DocumentInv
  <2>2. s.version \in restored
    BY <1>2, <2>1
  <2> QED BY <1>1, <2>1, <2>2
<1> QED BY <1>1, <1>2, <1>3, <1>4 DEF DocumentInv

-----------------------------------------------------------------------------
(* Proposals *)

\* What a proposal of each kind says.
LEMMA ContentsAre ==
  ASSUME NEW action \in ProposalAction, NEW c \in Contents(action)
  PROVE  /\ c.note \in Fact \cup {<<>>} /\ c.texts \in SUBSET Texts
         /\ action # "forget" => c.note \in Fact
<1> DEFINE notes == IF action = "forget" THEN {<<>>} ELSE Fact
           choices == CASE action = "remember" -> {{}}
                        [] action = "merge" -> {ts \in SUBSET Texts : Cardinality(ts) > 1}
                        [] OTHER -> {{t} : t \in Texts}
<1>1. choices \subseteq SUBSET Texts
  <2>1. CASE action = "remember"
    BY <2>1
  <2>2. CASE action = "merge"
    BY <2>2
  <2>3. CASE action \notin {"remember", "merge"}
    <3>1. choices = {{t} : t \in Texts}
      BY <2>3
    <3> HIDE DEF choices
    <3> QED BY <3>1
  <2> QED BY <2>1, <2>2, <2>3
<1>2. Contents(action) = {[note |-> n, texts |-> ts] : n \in notes, ts \in choices}
  BY DEF Contents
<1> HIDE DEF choices, notes
<1>3. PICK n \in notes, ts \in choices : c = [note |-> n, texts |-> ts]
  BY <1>2
<1>4. c.note = n /\ c.texts = ts
  BY <1>3
<1>5. n \in Fact \cup {<<>>} /\ (action # "forget" => n \in Fact)
  BY DEF notes
<1> QED BY <1>1, <1>3, <1>4, <1>5

\* The part of it that is about proposals.
ProposalInv ==
  /\ proposals \in [Proposal -> ProposalRecord]
  /\ \A p \in Proposal : ProposalAsked(proposals[p])

LEMMA OneProposal ==
  ASSUME ProposalInv, NEW p \in Proposal, NEW q \in ProposalRecord, ProposalAsked(q),
         proposals' = [proposals EXCEPT ![p] = q]
  PROVE  ProposalInv'
BY DEF ProposalInv

LEMMA ProposeKeeps ==
  ASSUME ProposalInv, NEW p \in Proposal,
         NEW action \in ProposalAction, NEW c \in Contents(action),
         NEW expected \in -1 .. LastVersion, expected = -1 => action \in {"remember", "forget"},
         NEW retention \in Retention, ProposeMemory(p, action, c, expected, retention)
  PROVE  ProposalInv'
<1> DEFINE q == [status |-> "pending", action |-> action, note |-> c.note, texts |-> c.texts,
                 expected |-> expected, retention |-> retention]
<1>1. proposals' = [proposals EXCEPT ![p] = q]
  BY DEF ProposeMemory
<1>2. /\ c.note \in Fact \cup {<<>>} /\ c.texts \in SUBSET Texts
      /\ action # "forget" => c.note \in Fact
  BY ContentsAre
<1>3. q \in ProposalRecord
  BY <1>2 DEF ProposalRecord
<1>4. ProposalAsked(q)
  BY <1>2 DEF ProposalAsked
<1> HIDE DEF q
<1> QED BY <1>1, <1>3, <1>4, OneProposal

LEMMA SettleKeeps ==
  ASSUME ProposalInv, NEW p \in Proposal, NEW status \in {"approved", "rejected"},
         Settle(p, status)
  PROVE  ProposalInv'
<1> DEFINE q == [NoProposal EXCEPT !.status = status]
<1>1. NoProposal \in ProposalRecord
  BY MemoryBounds DEF NoProposal, ProposalRecord, ProposalAction, Retention
<1>2. q \in ProposalRecord /\ q.status = status
  BY <1>1 DEF ProposalRecord
<1>3. ProposalAsked(q)
  BY <1>2 DEF ProposalAsked
<1>4. proposals' = [proposals EXCEPT ![p] = q]
  BY DEF Settle
<1> HIDE DEF q
<1> QED BY <1>2, <1>3, <1>4, OneProposal

-----------------------------------------------------------------------------
(* The invariant *)

LEMMA SameDocument ==
  ASSUME DocumentInv, UNCHANGED <<memory, revisions, expiries>>
  PROVE  DocumentInv'
BY DEF DocumentInv

\* What a step may be: one that writes a version or one that writes none.
LEMMA MemorySteps ==
  ASSUME MemoryInv, MemoryNext
  PROVE  /\ MemoryInv'
         /\ \/ \E lines, from, fresh, h : Revises(lines, from, fresh, h)
            \/ memory'.version = memory.version
<1> DEFINE Goal == /\ MemoryInv'
                   /\ \/ \E lines, from, fresh, h : Revises(lines, from, fresh, h)
                      \/ memory'.version = memory.version
<1>1. DocumentInv /\ ProposalInv /\ hour \in 0 .. LastHour
  BY DEF MemoryInv, ProposalInv
<1>2. ASSUME DocumentInv', ProposalInv', hour' \in 0 .. LastHour
      PROVE  MemoryInv'
  BY <1>2 DEF MemoryInv, ProposalInv
<1>3. ASSUME UNCHANGED proposals
      PROVE  ProposalInv'
  BY <1>1, <1>3 DEF ProposalInv
<1>4. ASSUME NEW lines, NEW from, NEW fresh, NEW h, Revises(lines, from, fresh, h)
      PROVE  DocumentInv'
  BY <1>1, <1>4, RevisesKeeps
<1>5. ASSUME NEW p \in Proposal, MemoryCommand(p)
      PROVE  Goal
  <2>1. CASE \E n \in Fact, h \in hour + 1 .. LastHour + 1 : RememberScoped(n, h)
    <3>1. PICK n \in Fact, h \in hour + 1 .. LastHour + 1 : RememberScoped(n, h)
      BY <2>1
    <3>2. h \in Nat
      BY <1>1, MemoryBounds
    <3>3. PICK lines, from, fresh : Revises(lines, from, fresh, h)
      BY <1>1, <3>1, <3>2, RememberRevises
    <3>4. UNCHANGED <<proposals, hour>>
      BY <3>1 DEF RememberScoped
    <3> QED BY <1>1, <1>2, <1>3, <1>4, <3>3, <3>4
  <2>2. CASE \E t \in Texts : ForgetScoped(t)
    <3>1. PICK t \in Texts : ForgetScoped(t)
      BY <2>2
    <3>2. PICK lines, from, fresh, h : Revises(lines, from, fresh, h)
      BY <1>1, <3>1, ForgetRevises
    <3>3. UNCHANGED <<proposals, hour>>
      BY <3>1 DEF ForgetScoped
    <3> QED BY <1>1, <1>2, <1>3, <1>4, <3>2, <3>3
  <2>3. CASE \E action \in {"remember", "forget"}, r \in Retention :
               /\ \E c \in Contents(action) : ProposeMemory(p, action, c, -1, r)
               /\ UNCHANGED <<memory, revisions, expiries, hour>>
    <3>1. PICK action \in {"remember", "forget"}, r \in Retention :
            /\ \E c \in Contents(action) : ProposeMemory(p, action, c, -1, r)
            /\ UNCHANGED <<memory, revisions, expiries, hour>>
      BY <2>3
    <3>2. PICK c \in Contents(action) : ProposeMemory(p, action, c, -1, r)
      BY <3>1
    <3>3. action \in ProposalAction /\ -1 \in -1 .. LastVersion
      BY MemoryBounds DEF ProposalAction
    <3>4. ProposalInv'
      BY <1>1, <3>2, <3>3, ProposeKeeps
    <3> QED BY <1>1, <1>2, <3>1, <3>4, SameDocument
  <2> QED BY <1>5, <2>1, <2>2, <2>3 DEF MemoryCommand
<1>6. ASSUME NEW p \in Proposal, OperatorProposes(p)
      PROVE  Goal
  <2>1. PICK action \in ProposalAction, expected \in -1 .. memory.version, r \in Retention :
          /\ expected = -1 => action \in {"remember", "forget"}
          /\ \E c \in Contents(action) : ProposeMemory(p, action, c, expected, r)
    BY <1>6 DEF OperatorProposes
  <2>2. PICK c \in Contents(action) : ProposeMemory(p, action, c, expected, r)
    BY <2>1
  <2>3. expected \in -1 .. LastVersion
    BY <1>1, MemoryBounds DEF DocumentInv
  <2>4. ProposalInv'
    BY <1>1, <2>1, <2>2, <2>3, ProposeKeeps
  <2>5. UNCHANGED <<memory, revisions, expiries, hour>>
    BY <1>6 DEF OperatorProposes
  <2> QED BY <1>1, <1>2, <2>4, <2>5, SameDocument
<1>7. ASSUME NEW p \in Proposal, AnalystProposes(p)
      PROVE  Goal
  <2>1. PICK r \in revisions, action \in ProposalAction, retention \in Retention :
          \E c \in Contents(action) : /\ \A t \in c.texts : HasText(r.lines, t)
                                      /\ ProposeMemory(p, action, c, r.version, retention)
    BY <1>7 DEF AnalystProposes
  <2>2. PICK c \in Contents(action) : ProposeMemory(p, action, c, r.version, retention)
    BY <2>1
  <2>3. r.version \in -1 .. LastVersion /\ r.version # -1
    BY <1>1, MemoryBounds DEF DocumentInv
  <2>4. ProposalInv'
    BY <1>1, <2>2, <2>3, ProposeKeeps
  <2>5. UNCHANGED <<memory, revisions, expiries, hour>>
    BY <1>7 DEF AnalystProposes
  <2> QED BY <1>1, <1>2, <2>4, <2>5, SameDocument
<1>8. ASSUME NEW p \in Proposal, ApproveMemoryProposal(p)
      PROVE  Goal
  <2>1. PICK lines, from, fresh, h : Revises(lines, from, fresh, h)
    BY <1>8, ApproveRevises
  <2>2. Settle(p, "approved") /\ UNCHANGED hour
    BY <1>8 DEF ApproveMemoryProposal
  <2>3. ProposalInv'
    BY <1>1, <2>2, SettleKeeps
  <2> QED BY <1>1, <1>2, <1>4, <2>1, <2>2, <2>3
<1>9. ASSUME NEW p \in Proposal, RejectMemoryProposal(p)
      PROVE  Goal
  <2>1. Settle(p, "rejected") /\ UNCHANGED <<memory, revisions, expiries, hour>>
    BY <1>9 DEF RejectMemoryProposal
  <2>2. ProposalInv'
    BY <1>1, <2>1, SettleKeeps
  <2> QED BY <1>1, <1>2, <2>1, <2>2, SameDocument
<1>10. ASSUME NEW r \in revisions, RestoreScoped(r)
       PROVE  Goal
  <2>1. PICK lines, from, fresh, h : Revises(lines, from, fresh, h)
    BY <1>1, <1>10, RestoreRevises
  <2>2. UNCHANGED <<proposals, hour>>
    BY <1>10 DEF RestoreScoped
  <2> QED BY <1>1, <1>2, <1>3, <1>4, <2>1, <2>2
<1>11. ASSUME NEW t \in Texts, NEW h \in hour + 1 .. LastHour + 1, SetMemoryExpiry(t, h)
       PROVE  Goal
  <2>1. h \in Nat
    BY <1>1, MemoryBounds
  <2>2. DocumentInv'
    BY <1>1, <1>11, <2>1, SetExpiryKeeps
  <2>3. UNCHANGED <<memory, proposals, hour>>
    BY <1>11 DEF SetMemoryExpiry
  <2> QED BY <1>1, <1>2, <1>3, <2>2, <2>3
<1>12. ASSUME CompactMemory
       PROVE  Goal
  <2>1. DocumentInv'
    BY <1>1, <1>12, CompactKeeps
  <2>2. UNCHANGED <<memory, proposals, hour>>
    BY <1>12 DEF CompactMemory
  <2> QED BY <1>1, <1>2, <1>3, <2>1, <2>2
<1>13. ASSUME HourPasses
       PROVE  Goal
  <2>1. hour' \in 0 .. LastHour
    BY <1>1, <1>13, MemoryBounds DEF HourPasses
  <2>2. UNCHANGED <<memory, revisions, expiries, proposals>>
    BY <1>13 DEF HourPasses
  <2> QED BY <1>1, <1>2, <1>3, <2>1, <2>2, SameDocument
<1> HIDE DEF Goal
<1>14. Goal
  BY <1>5, <1>6, <1>7, <1>8, <1>9, <1>10, <1>11, <1>12, <1>13 DEF MemoryNext
<1> QED BY <1>14 DEF Goal

LEMMA MemoryStart ==
  ASSUME MemoryInit
  PROVE  MemoryInv
<1>1. memory.lines = <<>> /\ memory.version = 0
  BY DEF MemoryInit
<1>2. <<>> \in Seq(MemoryLine) /\ <<>> \in Seq(Expiry) /\ DOMAIN <<>> = {}
  BY EmptySeq
<1>3. DocumentInv
  BY <1>1, <1>2, MemoryBounds DEF MemoryInit, DocumentInv, Version, ExpiriesOf
<1>4. NoProposal \in ProposalRecord /\ ProposalAsked(NoProposal)
  BY MemoryBounds DEF NoProposal, ProposalRecord, ProposalAction, Retention, ProposalAsked
<1>5. \A p \in Proposal : proposals[p] = NoProposal
  BY DEF MemoryInit
<1>6. proposals \in [Proposal -> ProposalRecord]
  BY <1>4 DEF MemoryInit
<1> QED BY <1>3, <1>4, <1>5, <1>6, MemoryBounds DEF MemoryInit, MemoryInv

LEMMA MemoryStutters ==
  ASSUME MemoryInv, UNCHANGED memoryVars
  PROVE  MemoryInv'
BY DEF MemoryInv, DocumentInv, memoryVars

\* The document, its history, the expiry entries and the proposals fit together at all
\* times: every revision is of a version that was written, the current one is kept, and
\* no line has two entries.
THEOREM HistoryAndEntriesFit == MemorySpec => []MemoryInv
<1>1. MemoryInv /\ [MemoryNext]_memoryVars => MemoryInv'
  BY MemorySteps, MemoryStutters
<1> QED BY <1>1, MemoryStart, PTL DEF MemorySpec

\* Document, revisions, entries and proposals keep their declared shape.
THEOREM MemoryTypesHold == MemorySpec => []MemoryTypeOK
<1>1. MemoryInv => MemoryTypeOK
  <2> SUFFICES ASSUME MemoryInv PROVE MemoryTypeOK
    OBVIOUS
  <2>1. \A p \in Proposal : proposals[p].status \in {"none", "pending", "approved", "rejected"}
    BY DEF MemoryInv, ProposalRecord
  <2> QED BY <2>1 DEF MemoryInv, DocumentInv, Version, ExpiriesOf, MemoryTypeOK
<1> QED BY <1>1, HistoryAndEntriesFit, PTL

\* Compaction takes neither the current version out of the history nor one that a
\* revision in it was restored from.
THEOREM TheHistoryIsClosed == MemorySpec => []HistoryIsClosed
<1>1. MemoryInv => HistoryIsClosed
  BY DEF MemoryInv, DocumentInv, HistoryIsClosed
<1> QED BY <1>1, HistoryAndEntriesFit, PTL

\* Reconciling the expiries with a new version, by hash and place among twins, leaves to
\* every line without a twin the expiry it had, for any notes and any histories.
THEOREM ExpiriesFollowTheirLines == MemorySpec => ExpiryFollowsItsLine
<1> DEFINE A == memory'.version # memory.version =>
        \A i \in DOMAIN memory.lines, j \in DOMAIN memory'.lines :
          /\ memory.lines[i] = memory'.lines[j]
          /\ Alone(i, memory.lines) /\ Alone(j, memory'.lines)
          => ExpiresAt(memory.lines, expiries, i)
               = ExpiresAt(memory'.lines, expiries', j)
<1>1. MemoryInv /\ [MemoryNext]_memoryVars => [A]_memoryVars
  <2> SUFFICES ASSUME MemoryInv, MemoryNext, memory'.version # memory.version,
                      NEW i \in DOMAIN memory.lines, NEW j \in DOMAIN memory'.lines,
                      memory.lines[i] = memory'.lines[j],
                      Alone(i, memory.lines), Alone(j, memory'.lines)
               PROVE  ExpiresAt(memory.lines, expiries, i)
                        = ExpiresAt(memory'.lines, expiries', j)
    BY Zenon
  <2>1. PICK lines, from, fresh, h : Revises(lines, from, fresh, h)
    BY MemorySteps
  <2>2. DocumentInv
    BY DEF MemoryInv
  <2>3. memory'.lines = lines
    BY <2>1, <2>2, RevisesKeeps
  <2>4. ExpiresAt(memory.lines, expiries, i) = ExpiresAt(lines, expiries', j)
    <3>1. j \in DOMAIN lines /\ memory.lines[i] = lines[j] /\ Alone(j, lines)
      BY <2>3
    <3> QED BY <2>1, <2>2, <3>1, RevisionFollows DEF Revises
  <2> QED BY <2>3, <2>4
<1> QED BY <1>1, HistoryAndEntriesFit, PTL DEF MemorySpec, ExpiryFollowsItsLine

\* Only the approval of a proposal decides it so.
LEMMA DecidedByApproval ==
  ASSUME MemoryInv, MemoryNext, NEW p \in Proposal, Decided(p)
  PROVE  ApproveMemoryProposal(p)
<1>1. proposals \in [Proposal -> ProposalRecord]
  BY DEF MemoryInv
<1>2. proposals[p].status = "pending" /\ proposals'[p].status = "approved"
  BY DEF Decided
<1>3. proposals' # proposals
  BY <1>2
<1>4. ASSUME NEW q \in Proposal, NEW action, NEW c, NEW expected, NEW retention,
             ProposeMemory(q, action, c, expected, retention)
      PROVE  FALSE
  <2>1. proposals[q].status = "none" /\ q # p
    BY <1>2, <1>4 DEF ProposeMemory
  <2>2. proposals'[p] = proposals[p]
    BY <1>1, <1>4, <2>1 DEF ProposeMemory
  <2> QED BY <1>2, <2>2
<1>5. ASSUME NEW q \in Proposal, NEW status, Settle(q, status)
      PROVE  q = p /\ status = "approved"
  <2>1. proposals' = [proposals EXCEPT ![q] = [NoProposal EXCEPT !.status = status]]
    BY <1>5 DEF Settle
  <2>2. q = p
    BY <1>1, <1>2, <2>1
  <2>3. proposals'[p].status = status
    BY <1>1, <2>1, <2>2 DEF NoProposal
  <2> QED BY <1>2, <2>2, <2>3
<1>6. \A q \in Proposal : ~MemoryCommand(q)
  BY <1>3, <1>4 DEF MemoryCommand, RememberScoped, ForgetScoped
<1>7. \A q \in Proposal : ~OperatorProposes(q)
  BY <1>4 DEF OperatorProposes
<1>8. \A q \in Proposal : ~AnalystProposes(q)
  BY <1>4 DEF AnalystProposes
<1>9. \A q \in Proposal : ~RejectMemoryProposal(q)
  BY <1>5 DEF RejectMemoryProposal
<1>10. \A q \in Proposal : ApproveMemoryProposal(q) => q = p
  <2> SUFFICES ASSUME NEW q \in Proposal, ApproveMemoryProposal(q) PROVE q = p
    OBVIOUS
  <2>1. Settle(q, "approved")
    BY DEF ApproveMemoryProposal
  <2> QED BY <1>5, <2>1
<1>11. \A r \in revisions : ~RestoreScoped(r)
  BY <1>3 DEF RestoreScoped
<1>12. \A t \in Texts, h \in hour + 1 .. LastHour + 1 : ~SetMemoryExpiry(t, h)
  BY <1>3 DEF SetMemoryExpiry
<1>13. ~CompactMemory /\ ~HourPasses
  BY <1>3 DEF CompactMemory, HourPasses
<1> QED BY <1>6, <1>7, <1>8, <1>9, <1>10, <1>11, <1>12, <1>13 DEF MemoryNext

\* An approved replacement or merge takes out no line that was written after the version
\* it was proposed for, whatever happened between the proposal and its approval.
THEOREM ReviewersReadWhatGoes == MemorySpec => ReviewedEditsTakeWhatTheyRead
<1> DEFINE A == \A p \in Proposal : Decided(p) /\ proposals[p].action \in {"replace", "merge"} =>
        \A i \in DOMAIN memory.lines :
          memory.lines[i] \in Seqs!ToSet(memory'.lines)
          \/ memory.lines[i].since <= proposals[p].expected
<1>1. MemoryInv /\ [MemoryNext]_memoryVars => [A]_memoryVars
  <2> SUFFICES ASSUME MemoryInv, MemoryNext,
                      NEW p \in Proposal, Decided(p), proposals[p].action \in {"replace", "merge"},
                      NEW i \in DOMAIN memory.lines
               PROVE  memory.lines[i].since <= proposals[p].expected
    BY Zenon
  <2>1. ApproveMemoryProposal(p)
    BY DecidedByApproval
  <2>2. proposals[p].expected \in {-1, memory.version}
    BY <2>1 DEF ApproveMemoryProposal
  <2>3. proposals[p].expected # -1
    BY DEF MemoryInv, ProposalAsked, Decided
  <2> QED BY <2>2, <2>3 DEF MemoryInv, DocumentInv, Version
<1> QED BY <1>1, HistoryAndEntriesFit, PTL DEF MemorySpec, ReviewedEditsTakeWhatTheyRead
=============================================================================
