--------------------------- MODULE MemoryRevisions ---------------------------
(***************************************************************************)
(* One memory document: notes that are remembered, replaced, merged and      *)
(* forgotten, directly or through proposals that a reviewer decides later;    *)
(* a revision for every version, which compaction thins out and a restore     *)
(* brings back; and the expiry of single lines, which refers to lines by      *)
(* their number and hash and has to follow them from version to version.      *)
(*                                                                         *)
(* A selector picks the lines with one text.  Documents do not touch each     *)
(* other, search aliases follow lines the way expiries do and only serve      *)
(* the search, and both are left out.                                        *)
(*                                                                         *)
(* Sources: packages/memory/src/state-memory-store.ts,                       *)
(* packages/runtime-host/src/memory-analysis.ts, apps/server/src/index.ts.    *)
(***************************************************************************)
EXTENDS Enumerations, Sequences
Seqs == INSTANCE SequencesExt

CONSTANTS Fact,            \* what can be remembered: sequences of texts, one a line
          Proposal,
          LastVersion,     \* versions of the document are numbered up to this
          LastHour,
          KeepLatest       \* revisions that a compaction keeps

ASSUME FactsAreLines == \A n \in Fact : n \in Seq(Seqs!ToSet(n))
ASSUME MemoryBounds == /\ LastVersion \in Nat /\ LastHour \in Nat
                       /\ KeepLatest \in Nat \ {0}

VARIABLES memory,          \* the lines of the document and its version
          revisions,       \* the revisions that are kept
          expiries,        \* the expiry entries of the current version, in their order
          proposals,
          hour

memoryVars == <<memory, revisions, expiries, proposals, hour>>

(***************************************************************************)
(* Documents.  The first line of a note carries the time it was written,    *)
(* which makes it unique; the others are only their text.  A line knows the   *)
(* version that wrote it for the sake of the properties.                     *)
(***************************************************************************)

Texts == UNION {Seqs!ToSet(n) : n \in Fact}
MemoryLine == [since : 1 .. LastVersion, first : BOOLEAN, text : Texts]
Hash(line) == IF line.first THEN <<line.since, line.text>> ELSE <<line.text>>

Remembered(lines, version, note) ==
  lines \o [k \in DOMAIN note |-> [since |-> version, first |-> k = 1, text |-> note[k]]]
Forgotten(lines, text) == Picked(lines, {i \in DOMAIN lines : lines[i].text # text})
Replaced(lines, version, text, note) == Remembered(Forgotten(lines, text), version, note)

HasText(lines, text) == \E i \in DOMAIN lines : lines[i].text = text
FirstWith(lines, text) == Sets!Min({i \in DOMAIN lines : lines[i].text = text})

\* The note that line i belongs to, from its first line to the one before the next.
EntryRange(lines, i) ==
  LET start == Sets!Max({1} \cup {j \in 1 .. i : lines[j].first}) IN
  {j \in start .. Len(lines) : \A k \in start + 1 .. j : ~lines[k].first}

\* Every text picks a note of its own.
ContainsDistinct(lines, texts) ==
  /\ \A t \in texts : HasText(lines, t)
  /\ \A s, t \in texts : s # t => EntryRange(lines, FirstWith(lines, s))
                                    # EntryRange(lines, FirstWith(lines, t))
Merged(lines, version, texts, note) ==
  LET removed == UNION {EntryRange(lines, FirstWith(lines, t)) : t \in texts} IN
  Remembered(Picked(lines, DOMAIN lines \ removed), version, note)

(***************************************************************************)
(* Expiries.                                                               *)
(***************************************************************************)

Expiry == [at : Nat, line : MemoryLine, hour : Nat]

\* activeExpiryForLine and isExpired; LastHour + 1 stands for a line that does not
\* expire.
ExpiresAt(lines, entries, i) ==
  Sets!Min({LastHour + 1} \cup {entries[k].hour : k \in
    {j \in DOMAIN entries : entries[j].at = i /\ Hash(entries[j].line) = Hash(lines[i])}})

\* Mutant: an entry is kept if the line it was set on has kept its number.
ReconciledInPlace(entries, lines) ==
  Picked(entries, {k \in DOMAIN entries :
    entries[k].at \in DOMAIN lines /\ Hash(lines[entries[k].at]) = Hash(entries[k].line)})

\* Each entry goes to the first line with its hash that none before it took, and is
\* dropped when there is none.
Reconciled(entries, lines) ==
  LET before(k) == Cardinality({j \in 1 .. k - 1 :
                                  Hash(entries[j].line) = Hash(entries[k].line)})
      twins(i, h) == Cardinality({j \in 1 .. i - 1 : Hash(lines[j]) = h})
      target(k) == {i \in DOMAIN lines : /\ Hash(lines[i]) = Hash(entries[k].line)
                                         /\ twins(i, Hash(lines[i])) = before(k)}
      kept == Ascending({k \in DOMAIN entries : target(k) # {}}) IN
  [n \in DOMAIN kept |-> [entries[kept[n]] EXCEPT !.at = Sets!Min(target(kept[n]))]]

\* updateExpiryForLine for some lines: entries of theirs are replaced, or removed for
\* lines that shall not expire, and lines without one get theirs.
WithExpiry(entries, lines, which, h) ==
  LET mine(e) == e.at \in which /\ Hash(e.line) = Hash(lines[e.at])
      new == Ascending({i \in which : \A k \in DOMAIN entries :
                          ~(mine(entries[k]) /\ entries[k].at = i)}) IN
  IF h > LastHour THEN Picked(entries, {k \in DOMAIN entries : ~mine(entries[k])})
  ELSE [k \in DOMAIN entries |->
          IF mine(entries[k]) THEN [entries[k] EXCEPT !.hour = h] ELSE entries[k]]
       \o [n \in DOMAIN new |-> [at |-> new[n], line |-> lines[new[n]], hour |-> h]]

(***************************************************************************)
(* Direct changes.                                                         *)
(***************************************************************************)

NextVersion == memory.version + 1

\* commitRevision: the new version, its revision, and the expiries that follow; then,
\* for what was written, the expiry it was given.
CommitRevision(lines, restoredFrom, fresh, h) ==
  /\ NextVersion <= LastVersion
  /\ memory' = [lines |-> lines, version |-> NextVersion]
  /\ revisions' = revisions \cup
       {[version |-> NextVersion, lines |-> lines, restoredFrom |-> restoredFrom]}
  /\ expiries' = IF h > LastHour THEN Reconciled(expiries, lines)
                 ELSE WithExpiry(Reconciled(expiries, lines), lines, fresh, h)

RememberScoped(note, h) ==
  LET lines == Remembered(memory.lines, NextVersion, note) IN
  /\ CommitRevision(lines, 0, Len(memory.lines) + 1 .. Len(lines), h)
  /\ UNCHANGED <<proposals, hour>>
ForgetScoped(text) ==
  /\ CommitRevision(Forgotten(memory.lines, text), 0, {}, LastHour + 1)
  /\ UNCHANGED <<proposals, hour>>
RestoreScoped(r) ==
  /\ CommitRevision(r.lines, r.version, {}, LastHour + 1)
  /\ UNCHANGED <<proposals, hour>>
SetMemoryExpiry(text, h) ==
  /\ HasText(memory.lines, text)
  /\ expiries' = WithExpiry(expiries, memory.lines,
                   EntryRange(memory.lines, FirstWith(memory.lines, text)), h)
  /\ UNCHANGED <<memory, revisions, proposals, hour>>

\* The newest revisions stay, and those that others were restored from.
CompactMemory ==
  LET restored == {r.restoredFrom : r \in revisions}
      kept == {r \in revisions :
                 \/ r.version \in restored
                 \/ Cardinality({s \in revisions : s.version > r.version}) < KeepLatest} IN
  /\ kept # revisions
  /\ revisions' = kept
  /\ UNCHANGED <<memory, expiries, proposals, hour>>

(***************************************************************************)
(* Proposals.                                                              *)
(***************************************************************************)

NoProposal == [status |-> "none", action |-> "remember", note |-> <<>>, texts |-> {},
               expected |-> 0, retention |-> 0]
Retention == 0 .. 1     \* hours a proposal's note is kept from its approval; 0: for ever
ProposalAction == {"remember", "replace", "merge", "forget"}

\* What one of each kind says: a note where one is written, the texts that it selects.
Contents(action) ==
  {[note |-> n, texts |-> ts] :
     n \in (IF action = "forget" THEN {<<>>} ELSE Fact),
     ts \in CASE action = "remember" -> {{}}
              [] action = "merge" -> {ts \in SUBSET Texts : Cardinality(ts) > 1}
              [] OTHER -> {{t} : t \in Texts}}

\* A pending proposal that says the same is returned instead.
ProposeMemory(p, action, c, expected, retention) ==
  /\ proposals[p].status = "none"
  /\ \A q \in Proposal : ~(/\ proposals[q].status = "pending"
                           /\ proposals[q].action = action /\ proposals[q].note = c.note
                           /\ proposals[q].texts = c.texts
                           /\ proposals[q].expected = expected)
  /\ proposals' = [proposals EXCEPT ![p] =
       [status |-> "pending", action |-> action, note |-> c.note, texts |-> c.texts,
        expected |-> expected, retention |-> retention]]

\* A memory command that the policy lets through, or makes a proposal of; a proposal
\* to forget from it names no version.
MemoryCommand(p) ==
  \/ \E n \in Fact, h \in hour + 1 .. LastHour + 1 : RememberScoped(n, h)
  \/ \E t \in Texts : ForgetScoped(t)
  \/ \E action \in {"remember", "forget"}, r \in Retention :
       /\ \E c \in Contents(action) : ProposeMemory(p, action, c, -1, r)
       /\ UNCHANGED <<memory, revisions, expiries, hour>>

\* An operator's proposal, with the version that the console showed; to remember or
\* to forget it may name none.
OperatorProposes(p) ==
  /\ \E action \in ProposalAction, expected \in -1 .. memory.version, r \in Retention :
       /\ expected = -1 => action \in {"remember", "forget"}
       /\ \E c \in Contents(action) : ProposeMemory(p, action, c, expected, r)
  /\ UNCHANGED <<memory, revisions, expiries, hour>>

\* The analysis proposes changes of what it has read, which may be a version that is
\* no longer the current one.
AnalystProposes(p) ==
  /\ \E r \in revisions, action \in ProposalAction, retention \in Retention :
       \E c \in Contents(action) :
         /\ \A t \in c.texts : HasText(r.lines, t)
         /\ ProposeMemory(p, action, c, r.version, retention)
  /\ UNCHANGED <<memory, revisions, expiries, hour>>

\* What approving makes of the document.
Applied(q) ==
  LET text == CHOOSE t \in q.texts : TRUE IN
  CASE q.action = "remember" -> Remembered(memory.lines, NextVersion, q.note)
    [] q.action = "replace" -> Replaced(memory.lines, NextVersion, text, q.note)
    [] q.action = "merge" -> Merged(memory.lines, NextVersion, q.texts, q.note)
    [] OTHER -> Forgotten(memory.lines, text)
Applicable(q) ==
  CASE q.action = "remember" -> TRUE
    [] q.action = "merge" -> ContainsDistinct(memory.lines, q.texts)
    [] OTHER -> \A t \in q.texts : HasText(memory.lines, t)
\* What a decided proposal said is of no use any more.
Settle(p, status) == proposals' = [proposals EXCEPT ![p] = [NoProposal EXCEPT !.status = status]]

\* Mutant: only the selected text is looked for.
ApproveWhatIsThere(p) ==
  LET q == proposals[p]
      lines == Applied(q)
      fresh == {i \in DOMAIN lines : lines[i].since = NextVersion} IN
  /\ q.status = "pending"
  /\ Applicable(q)
  /\ CommitRevision(lines, 0, fresh,
                    IF q.retention = 0 THEN LastHour + 1 ELSE hour + q.retention)
  /\ Settle(p, "approved")
  /\ UNCHANGED hour

\* The retention of a note counts from its approval, and covers its last entry.
ApproveMemoryProposal(p) ==
  LET q == proposals[p]
      lines == Applied(q)
      fresh == {i \in DOMAIN lines : lines[i].since = NextVersion} IN
  /\ q.status = "pending"
  /\ q.action = "remember" \/ q.expected \in {-1, memory.version}
  /\ Applicable(q)
  /\ CommitRevision(lines, 0, fresh,
                    IF q.retention = 0 THEN LastHour + 1 ELSE hour + q.retention)
  /\ Settle(p, "approved")
  /\ UNCHANGED hour
RejectMemoryProposal(p) ==
  /\ proposals[p].status = "pending"
  /\ Settle(p, "rejected")
  /\ UNCHANGED <<memory, revisions, expiries, hour>>

HourPasses ==
  /\ hour < LastHour
  /\ hour' = hour + 1
  /\ UNCHANGED <<memory, revisions, expiries, proposals>>

(***************************************************************************)
(* Behaviours.                                                             *)
(***************************************************************************)

MemoryInit ==
  /\ memory = [lines |-> <<>>, version |-> 0]
  /\ revisions = {} /\ expiries = <<>>
  /\ proposals = [p \in Proposal |-> NoProposal]
  /\ hour = 0

MemoryNext ==
  \/ \E p \in Proposal : \/ MemoryCommand(p) \/ OperatorProposes(p) \/ AnalystProposes(p)
                         \/ ApproveMemoryProposal(p) \/ RejectMemoryProposal(p)
  \/ \E r \in revisions : RestoreScoped(r)
  \/ \E t \in Texts, h \in hour + 1 .. LastHour + 1 : SetMemoryExpiry(t, h)
  \/ CompactMemory \/ HourPasses

MemorySpec == MemoryInit /\ [][MemoryNext]_memoryVars

(***************************************************************************)
(* Properties.                                                             *)
(***************************************************************************)

\* The types of the variables.
MemoryTypeOK ==
  /\ memory.lines \in Seq(MemoryLine) /\ memory.version \in 0 .. LastVersion
  /\ \A r \in revisions : r.lines \in Seq(MemoryLine) /\ r.version \in 1 .. memory.version
  /\ expiries \in Seq(Expiry)
  /\ \A p \in Proposal :
       proposals[p].status \in {"none", "pending", "approved", "rejected"}
  /\ hour \in 0 .. LastHour

\* "Expiry metadata migrates only with unchanged lines": whatever a new version adds,
\* removes, reorders or brings back, a line that is in both versions expires when it
\* did, unless another line is the same.
Alone(i, lines) == \A j \in DOMAIN lines : Hash(lines[j]) = Hash(lines[i]) => j = i
ExpiryFollowsItsLine ==
  [][ memory'.version # memory.version =>
        \A i \in DOMAIN memory.lines, j \in DOMAIN memory'.lines :
          /\ memory.lines[i] = memory'.lines[j]
          /\ Alone(i, memory.lines) /\ Alone(j, memory'.lines)
          => ExpiresAt(memory.lines, expiries, i)
               = ExpiresAt(memory'.lines, expiries', j) ]_memoryVars

\* A reviewed replacement or merge takes out only lines that its author could see:
\* those of the version it was written for.
Decided(p) == proposals[p].status = "pending" /\ proposals'[p].status = "approved"
ReviewedEditsTakeWhatTheyRead ==
  [][ \A p \in Proposal : Decided(p) /\ proposals[p].action \in {"replace", "merge"} =>
        \A i \in DOMAIN memory.lines :
          memory.lines[i] \in Seqs!ToSet(memory'.lines)
          \/ memory.lines[i].since <= proposals[p].expected ]_memoryVars

\* Whatever is compacted, the current version can be read in the history, and so can
\* every revision that one in the history was restored from.
HistoryIsClosed ==
  \A r \in revisions \cup {[version |-> memory.version, lines |-> memory.lines,
                            restoredFrom |-> memory.version]} :
    r.restoredFrom = 0 \/ \E s \in revisions : s.version = r.restoredFrom
=============================================================================
