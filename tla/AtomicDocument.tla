---------------------------- MODULE AtomicDocument ----------------------------
(***************************************************************************)
(* What the other modules take for granted of the store: a document that    *)
(* changes by whole operations, each of which works on the document the     *)
(* last one left.  SqliteStore is shown to implement this.                  *)
(***************************************************************************)
CONSTANTS Reading(_),      \* the forms in which an operation may find a document
          Results(_)       \* what an operation may make of it

VARIABLE document

Operation == \E found \in Reading(document) : document' \in Results(found)
=============================================================================
