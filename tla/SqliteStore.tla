----------------------------- MODULE SqliteStore -----------------------------
(***************************************************************************)
(* The delivery document in SQLite.  Each record is a row with an ordinal;  *)
(* a process keeps the parsed document and a snapshot of the rows it came    *)
(* from for as long as SQLite's data_version says that no other connection   *)
(* has committed, changes that document in place, and writes the rows that   *)
(* differ from the snapshot in one immediate transaction.  Reads are three   *)
(* statements outside any transaction.                                       *)
(*                                                                         *)
(* One collection stands for the nineteen; a record is its sequence number   *)
(* and whether it is over.  Parsing, and the retries of a locked database,   *)
(* are left out: they repeat a call or give it up.                           *)
(*                                                                         *)
(* Sources: packages/storage-sqlite/src/index.ts,                            *)
(* packages/delivery/src/file-delivery-store.ts.                             *)
(***************************************************************************)
EXTENDS Hosts, Enumerations, Sequences

CONSTANTS LastRecord,          \* records are numbered 1 .. LastRecord
          KeptRecords,         \* records that are over are kept up to this number
          Legacy,              \* the document of the file before the migration
          MaxSqliteTroubles    \* operations that throw and processes that die

ASSUME SqliteBounds == LastRecord \in Nat /\ KeptRecords \in Nat

VARIABLES rows,                \* row of every record that has one
          nextSequence,        \* of the meta row; 0 before the migration
          dataVersion,         \* commits by others, as each connection sees them
          deliveryCache,       \* what each process keeps
          connection,          \* what each process is doing
          sqliteTroubles

sqliteVars == <<rows, nextSequence, dataVersion, deliveryCache, connection,
                sqliteTroubles>>

Record == 1 .. LastRecord
RecordOf == [id : Record, over : BOOLEAN]
Row == [ordinal : Nat, over : BOOLEAN]

\* Records of their own numbers, all below the next one.
IsDocument(records, next) ==
  /\ records \in Seq(RecordOf)
  /\ \A i, j \in DOMAIN records : records[i].id = records[j].id => i = j
  /\ next \in Nat \ {0}
  /\ \A i \in DOMAIN records : records[i].id < next

ASSUME LegacyIsDocument == /\ Legacy = [records |-> Legacy.records, next |-> Legacy.next]
                           /\ IsDocument(Legacy.records, Legacy.next)

NoCache == [version |-> 0, records |-> <<>>, next |-> 0, snapshot |-> <<>>]
Closed == [at |-> "closed", cached |-> NoCache]
ConnectionPhase == {"closed", "idle", "meta", "rows", "written"}

(***************************************************************************)
(* Documents, operations on them, and their rows.                          *)
(***************************************************************************)

\* normalizeDeliveryState: what is over comes first, in the order of its sequence
\* numbers, and no more than the newest of it.
Normalized(records) ==
  LET over == {records[i].id : i \in {j \in DOMAIN records : records[j].over}}
      kept == Ascending({i \in over : Cardinality({j \in over : j > i}) < KeptRecords})
      open == Picked(records, {i \in DOMAIN records : ~records[i].over}) IN
  [k \in DOMAIN kept |-> [id |-> kept[k], over |-> TRUE]] \o open

\* A record is enqueued, settled, or purged with its run.
Operations(d) ==
  {[records |-> Append(d.records, [id |-> n, over |-> FALSE]), next |-> n + 1] :
     n \in {d.next} \cap Record}
  \cup {[d EXCEPT !.records[i].over = TRUE] :
          i \in {j \in DOMAIN d.records : ~d.records[j].over}}
  \cup {[d EXCEPT !.records = Picked(d.records, DOMAIN d.records \ {i})] :
          i \in {j \in DOMAIN d.records : d.records[j].over}}

\* The records of a table, ordered as the query orders them.
RecordsOf(table) ==
  LET keys == DOMAIN table
      ids == InOrder(keys, {p \in keys \X keys :
               \/ table[p[1]].ordinal < table[p[2]].ordinal
               \/ table[p[1]].ordinal = table[p[2]].ordinal /\ p[1] < p[2]}) IN
  [k \in DOMAIN ids |-> [id |-> ids[k], over |-> table[ids[k]].over]]

\* Old rows keep their ordinals, and new ones go behind, as long as that gives the
\* order of the document; otherwise the table is numbered anew.
Ordinals(snapshot, records) ==
  LET has(i) == records[i].id \in DOMAIN snapshot
      old == {i \in DOMAIN records : has(i)}
      at(i) == snapshot[records[i].id].ordinal
      existingOrderPreserved == \A i, j \in old : i < j => at(i) < at(j)
      newRecordsOnlyAtTail == \A i \in old : \A j \in 1 .. i : has(j)
      nextOrdinal == Sets!Max({snapshot[k].ordinal : k \in DOMAIN snapshot} \cup {-1}) + 1 IN
  [i \in DOMAIN records |->
     IF ~(existingOrderPreserved /\ newRecordsOnlyAtTail) THEN i - 1
     ELSE IF has(i) THEN at(i) ELSE nextOrdinal + i - Cardinality(old) - 1]

NextSnapshot(snapshot, records) ==
  [k \in {records[i].id : i \in DOMAIN records} |->
     LET i == CHOOSE j \in DOMAIN records : records[j].id = k IN
     [ordinal |-> Ordinals(snapshot, records)[i], over |-> records[i].over]]

\* The rows that differ from the snapshot are upserted, those that are gone from
\* the document removed; every other row stays what it is in the table.
WriteDeliveryChanges(table, snapshot, after) ==
  LET upserted == {k \in DOMAIN after : k \notin DOMAIN snapshot \/ after[k] # snapshot[k]}
      removed == DOMAIN snapshot \ DOMAIN after IN
  [k \in (DOMAIN table \cup upserted) \ removed |->
     IF k \in upserted THEN after[k] ELSE table[k]]

(***************************************************************************)
(* The connections.                                                        *)
(***************************************************************************)

Connected(h, p) == connection[h].at = p
Locked == \E h \in Host : Connected(h, "written")
TurnConnection(h, p, c) ==
  connection' = [connection EXCEPT ![h] = [at |-> p, cached |-> c]]
CacheIsCurrent(h) ==
  deliveryCache[h] # NoCache /\ deliveryCache[h].version = dataVersion[h]
OthersSee(h) == [g \in Host |-> IF g = h THEN dataVersion[g] ELSE dataVersion[g] + 1]
FreshCache(h) ==
  [version |-> dataVersion[h], records |-> Normalized(RecordsOf(rows)),
   next |-> nextSequence, snapshot |-> rows]

\* A process opens the database; the first one imports what the file held, in a
\* transaction of its own.
Initialize(h) ==
  /\ Connected(h, "closed") /\ ~Locked
  /\ TurnConnection(h, "idle", NoCache)
  /\ IF nextSequence # 0 THEN UNCHANGED <<rows, nextSequence, dataVersion>>
     ELSE /\ rows' = NextSnapshot(<<>>, Normalized(Legacy.records))
          /\ nextSequence' = Legacy.next
          /\ dataVersion' = OthersSee(h)
  /\ UNCHANGED <<deliveryCache, sqliteTroubles>>

\* A read whose cache is current is answered from a copy of it and changes nothing;
\* any other reads the version, the meta row and the records one after the other.
ReadVersion(h) ==
  /\ Connected(h, "idle") /\ ~CacheIsCurrent(h)
  /\ TurnConnection(h, "meta", [NoCache EXCEPT !.version = dataVersion[h]])
  /\ UNCHANGED <<rows, nextSequence, dataVersion, deliveryCache, sqliteTroubles>>
ReadMeta(h) ==
  /\ Connected(h, "meta")
  /\ TurnConnection(h, "rows", [connection[h].cached EXCEPT !.next = nextSequence])
  /\ UNCHANGED <<rows, nextSequence, dataVersion, deliveryCache, sqliteTroubles>>
ReadRows(h) ==
  /\ Connected(h, "rows")
  /\ deliveryCache' = [deliveryCache EXCEPT ![h] =
       [connection[h].cached EXCEPT !.records = Normalized(RecordsOf(rows)),
                                    !.snapshot = rows]]
  /\ TurnConnection(h, "idle", NoCache)
  /\ UNCHANGED <<rows, nextSequence, dataVersion, sqliteTroubles>>

\* The transaction begins, the document is loaded, the operation changes the
\* cached one in place, and its rows are written: until the commit for this
\* connection only.
MutateDelivery(h) ==
  /\ Connected(h, "idle") /\ ~Locked
  /\ LET loaded == IF CacheIsCurrent(h) THEN deliveryCache[h] ELSE FreshCache(h) IN
     \E d \in Operations([records |-> loaded.records, next |-> loaded.next]) :
       /\ TurnConnection(h, "written",
            [version |-> dataVersion[h], records |-> d.records, next |-> d.next,
             snapshot |-> NextSnapshot(loaded.snapshot, d.records)])
       /\ deliveryCache' = [deliveryCache EXCEPT ![h] =
            [loaded EXCEPT !.records = d.records, !.next = d.next]]
  /\ UNCHANGED <<rows, nextSequence, dataVersion, sqliteTroubles>>

Commit(h) ==
  /\ Connected(h, "written")
  /\ LET c == connection[h].cached IN
     /\ rows' = WriteDeliveryChanges(rows, deliveryCache[h].snapshot, c.snapshot)
     /\ nextSequence' = c.next
     /\ deliveryCache' = [deliveryCache EXCEPT ![h] = c]
  /\ dataVersion' = OthersSee(h)
  /\ TurnConnection(h, "idle", NoCache)
  /\ UNCHANGED sqliteTroubles

\* Mutant: the document that was changed in place stays in the cache.
RollbackKeepingCache(h) ==
  /\ Connected(h, "written") /\ sqliteTroubles < MaxSqliteTroubles
  /\ sqliteTroubles' = sqliteTroubles + 1
  /\ TurnConnection(h, "idle", NoCache)
  /\ UNCHANGED <<rows, nextSequence, dataVersion, deliveryCache>>

\* The operation throws, or the commit fails.
Rollback(h) ==
  /\ Connected(h, "written") /\ sqliteTroubles < MaxSqliteTroubles
  /\ sqliteTroubles' = sqliteTroubles + 1
  /\ deliveryCache' = [deliveryCache EXCEPT ![h] = NoCache]
  /\ TurnConnection(h, "idle", NoCache)
  /\ UNCHANGED <<rows, nextSequence, dataVersion>>

ProcessDies(h) ==
  /\ ~Connected(h, "closed") /\ sqliteTroubles < MaxSqliteTroubles
  /\ sqliteTroubles' = sqliteTroubles + 1
  /\ deliveryCache' = [deliveryCache EXCEPT ![h] = NoCache]
  /\ connection' = [connection EXCEPT ![h] = Closed]
  /\ UNCHANGED <<rows, nextSequence, dataVersion>>

(***************************************************************************)
(* Behaviours.                                                             *)
(***************************************************************************)

SqliteInit ==
  /\ rows = <<>> /\ nextSequence = 0
  /\ dataVersion = [h \in Host |-> 0]
  /\ deliveryCache = [h \in Host |-> NoCache]
  /\ connection = [h \in Host |-> Closed]
  /\ sqliteTroubles = 0

SqliteNext ==
  \E h \in Host : \/ Initialize(h) \/ ReadVersion(h) \/ ReadMeta(h) \/ ReadRows(h)
                  \/ MutateDelivery(h) \/ Commit(h) \/ Rollback(h) \/ ProcessDies(h)

SqliteSpec == SqliteInit /\ [][SqliteNext]_sqliteVars

(***************************************************************************)
(* Properties.                                                             *)
(***************************************************************************)

\* The types of the variables.
SqliteTypeOK ==
  /\ \E S \in SUBSET Record : rows \in [S -> Row]
  /\ nextSequence \in Nat
  /\ \A h \in Host :
       /\ dataVersion[h] \in Nat
       /\ deliveryCache[h].records \in Seq(RecordOf)
       /\ connection[h].at \in ConnectionPhase
  /\ sqliteTroubles \in Nat

\* The document the tables hold.
StoredDocument ==
  IF nextSequence = 0
    THEN [records |-> Normalized(Legacy.records), next |-> Legacy.next]
    ELSE [records |-> RecordsOf(rows), next |-> nextSequence]
Found(d) == {d, [d EXCEPT !.records = Normalized(d.records)]}
Atomic == INSTANCE AtomicDocument
            WITH document <- StoredDocument, Reading <- Found, Results <- Operations

\* "Transactional cross-process writes": whatever the processes cached, and however
\* their statements interleave, every commit makes of the document what one
\* operation makes of the one the last commit left, in its order.
StoreIsAtomic ==
  [][UNCHANGED <<rows, nextSequence>> \/ Atomic!Operation]_StoredDocument
=============================================================================
