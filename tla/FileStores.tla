------------------------------ MODULE FileStores ------------------------------
(***************************************************************************)
(* The JSON files that several processes write: delegated tasks and agents,  *)
(* knowledge sources and their refreshes, skills, connectors, credentials.   *)
(* Each has a store of its own, all with the same protocol: a lock file that  *)
(* is created exclusively and names its owner, a read of the state, the       *)
(* operation, a rename of the new state over the old, and the removal of the  *)
(* lock.  A lock that is half a minute old and whose owner is dead is removed *)
(* by whoever waits for it.                                                  *)
(*                                                                         *)
(* A file is what its updates made of it, and an update is a member of it.   *)
(* A holder that lives is done within half a minute, so only a lock that was  *)
(* left behind grows old.                                                    *)
(*                                                                         *)
(* Sources: packages/config/src/file-*-store.ts, of which                    *)
(* file-delegated-agent-task-store.ts 170-255 is one of eight.               *)
(***************************************************************************)
EXTENDS Hosts, Integers

CONSTANTS Update,              \* updates, each of which is tried at most once
          MaxStoreCrashes

VARIABLES file,                \* the updates in the state file
          lock,                \* the lock file
          locks,               \* how many were created
          lives,               \* process ids used by each host
          writer,              \* what each process is doing
          written,             \* updates whose caller was told so
          breaks,              \* locks removed as stale
          storeCrashes

fileVars == <<file, lock, locks, lives, writer, written, breaks, storeCrashes>>

\* A lock file: which one it is, the process id in it, 0 before it is written, and
\* whether it is old.
Unlocked == [number |-> 0, host |-> None, life |-> 0, old |-> FALSE]

\* A process: its step, its update, the number of the lock it created, the state it
\* read, and what it found out about the lock of another.
NoWriter == [at |-> "idle", update |-> None, number |-> 0, copy |-> {},
             old |-> "unread", dead |-> "unread"]
WriterPhase == {"idle", "open", "own", "load", "save", "release", "remove",
                "inspect", "wait", "break"}
At_(h, p) == writer[h].at = p
Goes(h, p) == writer' = [writer EXCEPT ![h].at = p]
Answers(b) == IF b THEN "yes" ELSE "no"

\* processIsAlive of the id in the lock file; no id counts as a dead process.
OwnerIsDead == lock.life = 0 \/ lock.life # lives[lock.host]

(***************************************************************************)
(* One mutation, which waits for those of its process.                     *)
(***************************************************************************)

Mutate(h, u) ==
  /\ At_(h, "idle")
  /\ u \notin written \cup file /\ \A g \in Host : writer[g].update # u
  /\ writer' = [writer EXCEPT ![h].at = "open", ![h].update = u]
  /\ UNCHANGED <<file, lock, locks, lives, written, breaks, storeCrashes>>

\* The lock file is created unless there is one, and then the owner written into
\* what was created, wherever its name points by then.
OpenLock(h) ==
  /\ At_(h, "open")
  /\ IF lock = Unlocked
       THEN /\ lock' = [number |-> locks + 1, host |-> h, life |-> 0, old |-> FALSE]
            /\ locks' = locks + 1
            /\ writer' = [writer EXCEPT ![h].at = "own", ![h].number = locks + 1]
       ELSE /\ writer' = [writer EXCEPT ![h].at = "inspect", ![h].old = "unread",
                                        ![h].dead = "unread"]
            /\ UNCHANGED <<lock, locks>>
  /\ UNCHANGED <<file, lives, written, breaks, storeCrashes>>
WriteOwner(h) ==
  /\ At_(h, "own")
  /\ lock' = IF lock.number = writer[h].number
               THEN [lock EXCEPT !.life = lives[h]] ELSE lock
  /\ Goes(h, "load")
  /\ UNCHANGED <<file, locks, lives, written, breaks, storeCrashes>>

Load(h) ==
  /\ At_(h, "load")
  /\ writer' = [writer EXCEPT ![h].at = "save", ![h].copy = file]
  /\ UNCHANGED <<file, lock, locks, lives, written, breaks, storeCrashes>>
Save(h) ==
  /\ At_(h, "save")
  /\ file' = writer[h].copy \cup {writer[h].update}
  /\ Goes(h, "release")
  /\ UNCHANGED <<lock, locks, lives, written, breaks, storeCrashes>>

\* The lock is removed if it is the one the process wrote its name in, and the
\* caller is answered.
Done(h) == /\ written' = written \cup {writer[h].update}
           /\ writer' = [writer EXCEPT ![h] = NoWriter]
Release(h) ==
  /\ At_(h, "release")
  /\ IF lock.number = writer[h].number /\ lock.life # 0
       THEN Goes(h, "remove") /\ UNCHANGED written
       ELSE Done(h)
  /\ UNCHANGED <<file, lock, locks, lives, breaks, storeCrashes>>
RemoveLock(h) ==
  /\ At_(h, "remove")
  /\ lock' = Unlocked
  /\ Done(h)
  /\ UNCHANGED <<file, locks, lives, breaks, storeCrashes>>

(***************************************************************************)
(* The lock of another.                                                    *)
(***************************************************************************)

\* Its age and its owner are read side by side; a file that is gone is not stale.
StatLock(h) ==
  /\ At_(h, "inspect") /\ writer[h].old = "unread"
  /\ writer' = [writer EXCEPT ![h].old = Answers(lock.old)]
  /\ UNCHANGED <<file, lock, locks, lives, written, breaks, storeCrashes>>
ReadOwner(h) ==
  /\ At_(h, "inspect") /\ writer[h].dead = "unread"
  /\ writer' = [writer EXCEPT ![h].dead = Answers(lock # Unlocked /\ OwnerIsDead)]
  /\ UNCHANGED <<file, lock, locks, lives, written, breaks, storeCrashes>>

\* Mutant: the age is not asked for.
JudgeByOwner(h) ==
  /\ At_(h, "inspect") /\ "unread" \notin {writer[h].old, writer[h].dead}
  /\ Goes(h, IF writer[h].dead = "yes" THEN "break" ELSE "wait")
  /\ UNCHANGED <<file, lock, locks, lives, written, breaks, storeCrashes>>

\* The callback that has both answers decides on its own.
Judge(h) ==
  /\ At_(h, "inspect") /\ "unread" \notin {writer[h].old, writer[h].dead}
  /\ Goes(h, IF writer[h].old = "yes" /\ writer[h].dead = "yes" THEN "break" ELSE "wait")
  /\ UNCHANGED <<file, lock, locks, lives, written, breaks, storeCrashes>>

BreakLock(h) ==
  /\ At_(h, "break")
  /\ lock' = Unlocked
  /\ breaks' = breaks + 1
  /\ Goes(h, "open")
  /\ UNCHANGED <<file, locks, lives, written, storeCrashes>>

\* After a pause it is tried again, or the deadline is over and the caller told.
TryAgain(h) ==
  /\ At_(h, "wait")
  /\ Goes(h, "open")
  /\ UNCHANGED <<file, lock, locks, lives, written, breaks, storeCrashes>>
LockTimeout(h) ==
  /\ At_(h, "wait")
  /\ writer' = [writer EXCEPT ![h] = NoWriter]
  /\ UNCHANGED <<file, lock, locks, lives, written, breaks, storeCrashes>>

LockAges ==
  /\ lock # Unlocked /\ ~lock.old
  /\ writer[lock.host].number # lock.number
  /\ lock' = [lock EXCEPT !.old = TRUE]
  /\ UNCHANGED <<file, locks, lives, writer, written, breaks, storeCrashes>>

\* A process is killed, and started again with another process id.
WriterDies(h) ==
  /\ storeCrashes < MaxStoreCrashes
  /\ storeCrashes' = storeCrashes + 1
  /\ lives' = [lives EXCEPT ![h] = @ + 1]
  /\ writer' = [writer EXCEPT ![h] = NoWriter]
  /\ UNCHANGED <<file, lock, locks, written, breaks>>

(***************************************************************************)
(* Behaviours.                                                             *)
(***************************************************************************)

FileInit ==
  /\ file = {} /\ written = {}
  /\ lock = Unlocked /\ locks = 0 /\ breaks = 0
  /\ lives = [h \in Host |-> 1]
  /\ writer = [h \in Host |-> NoWriter]
  /\ storeCrashes = 0

FileNext ==
  \/ LockAges
  \/ \E h \in Host :
       \/ \E u \in Update : Mutate(h, u)
       \/ OpenLock(h) \/ WriteOwner(h) \/ Load(h) \/ Save(h)
       \/ Release(h) \/ RemoveLock(h)
       \/ StatLock(h) \/ ReadOwner(h) \/ Judge(h) \/ BreakLock(h)
       \/ TryAgain(h) \/ LockTimeout(h) \/ WriterDies(h)

FileSpec == FileInit /\ [][FileNext]_fileVars

(***************************************************************************)
(* Properties.                                                             *)
(***************************************************************************)

\* The types of the variables.
FileTypeOK ==
  /\ file \subseteq Update /\ written \subseteq Update
  /\ lock \in [number : Nat, host : Host \cup {None}, life : Nat, old : BOOLEAN]
  /\ locks \in Nat /\ breaks \in Nat /\ storeCrashes \in Nat
  /\ lives \in [Host -> Nat]
  /\ writer \in [Host -> [at : WriterPhase, update : Update \cup {None}, number : Nat,
                          copy : SUBSET Update, old : {"unread", "yes", "no"},
                          dead : {"unread", "yes", "no"}]]

\* What a store said it has written stays in the file.  The code keeps this as long
\* as no second process removes a lock: the first removal always meets the lock that
\* was judged.
WrittenStays == breaks <= 1 => written \subseteq file

=============================================================================
