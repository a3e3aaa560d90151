------------------------------ MODULE CodexTurn ------------------------------
(***************************************************************************)
(* One run against a provider's app server.  The executor starts a turn over *)
(* a pipe, reads its notifications, and beside it forwards follow-ups of the *)
(* thread into the same turn; a context overflow is compacted and continued  *)
(* once; a cancellation or the run's timeout interrupts the turn.  Requests  *)
(* time out, and the provider may fail or die at any moment.                 *)
(*                                                                         *)
(* Sources: packages/executor-codex/src/app-server.ts and index.ts.          *)
(***************************************************************************)
EXTENDS Naturals, Sequences

CONSTANTS FollowUp,
          LastTurn               \* bound: turns the provider may start

ASSUME LastTurnIsPositive == LastTurn \in Nat \ {0}

VARIABLES codex,                 \* where runAppServer is
          outcome,               \* what it would report
          turnId,                \* the turn runTurn reads
          activeTurn,            \* activeTurnId of the session, 0 if none
          compactTurn,
          recovered,             \* overflowRecoveryAttempted
          pump,                  \* the forwarding of follow-ups, and the one in hand
          mailbox,               \* state of every follow-up in the durable mailbox
          aborted,               \* cancelled or timed out
          steeringOff, turnOff,  \* the two other abort signals
          pending,               \* requests whose answer is awaited
          answer,                \* what the last request of each kind was told
          answeredTurn,                  \* the turn id in the last answer that had one
          stdin, stdout,         \* the pipe
          notes,                 \* notifications read and not consumed
          link,                  \* the pipe, as the session sees it
          server                 \* the provider's process

turnVars == <<codex, outcome, turnId, activeTurn, compactTurn, recovered>>
pumpVars == <<pump, mailbox>>
signals == <<aborted, steeringOff, turnOff>>
requests == <<pending, answer, stdin>>
readVars == <<answeredTurn, notes>>
pipe == <<stdout, link, server>>
codexVars == <<turnVars, pumpVars, signals, requests, readVars, pipe>>

Request == {"thread", "turn", "steer", "compact",
            "interrupt", "interrupt_now", "interrupt_steer"}
Turn == 1 .. LastTurn
TurnEnd == {"completed", "failed", "overflow", "interrupted"}
CodexPhase == {"idle", "thread", "turn", "interrupting", "stream", "settle", "compact",
               "compacting", "close", "ended"}
PumpPhase == {"off", "receive", "send", "steering", "acknowledge"}

\* A request is written to the pipe and waited for; a dead process refuses it.
Ask(q, n, f) ==
  IF link = "open"
    THEN /\ pending' = pending \cup {q}
         /\ answer' = [answer EXCEPT ![q] = "none"]
         /\ stdin' = Append(stdin, [q |-> q, turn |-> n, on |-> f])
    ELSE /\ answer' = [answer EXCEPT ![q] = "error"]
         /\ UNCHANGED <<pending, stdin>>

Answered(q) == q \notin pending /\ answer[q] # "none"
Granted(q) == Answered(q) /\ answer[q] = "ok"
Denied(q) == Answered(q) /\ answer[q] # "ok"

\* interrupt() does nothing while no turn is known: "skipped".
Interrupts(q) ==
  IF activeTurn # 0 THEN Ask(q, activeTurn, "none")
                    ELSE /\ answer' = [answer EXCEPT ![q] = "skipped"]
                         /\ UNCHANGED <<pending, stdin>>

(***************************************************************************)
(* The turn.                                                               *)
(***************************************************************************)

\* A process is spawned for the run, and startOrResume asks it for the thread ...
StartOrResume ==
  /\ codex = "idle"
  /\ codex' = "thread"
  /\ Ask("thread", 0, "none")
  /\ UNCHANGED <<outcome, turnId, activeTurn, compactTurn, recovered, pumpVars,
                 signals, readVars, pipe>>

\* ... then runTurn asks for the turn.
ThreadStarted ==
  /\ codex = "thread"
  /\ \/ /\ Granted("thread")
        /\ codex' = "turn"
        /\ Ask("turn", 0, "none")
        /\ UNCHANGED outcome
     \/ /\ Denied("thread")
        /\ codex' = "close" /\ outcome' = "failed"
        /\ UNCHANGED requests
  /\ UNCHANGED <<turnId, activeTurn, compactTurn, recovered, pumpVars, signals,
                 readVars, pipe>>

\* Mutant: the cancellation that raced with the answer is not looked for.
TurnStartedUnaware ==
  /\ codex = "turn"
  /\ \/ /\ Granted("turn")
        /\ turnId' = answeredTurn /\ activeTurn' = answeredTurn
        /\ pump' = IF recovered THEN pump ELSE [at |-> "receive", on |-> "none"]
        /\ codex' = "stream"
        /\ UNCHANGED requests
        /\ UNCHANGED <<outcome, steeringOff>>
     \/ /\ Denied("turn")
        /\ codex' = "settle" /\ outcome' = "failed" /\ steeringOff' = TRUE
        /\ UNCHANGED <<turnId, activeTurn, pump, requests>>
  /\ UNCHANGED <<compactTurn, recovered, mailbox, aborted, turnOff, readVars, pipe>>

\* Follow-ups are forwarded from the first turn on.  A cancellation that raced
\* with the answer interrupts the turn it now knows.
TurnStarted ==
  /\ codex = "turn"
  /\ \/ /\ Granted("turn")
        /\ turnId' = answeredTurn /\ activeTurn' = answeredTurn
        /\ pump' = IF recovered THEN pump ELSE [at |-> "receive", on |-> "none"]
        /\ codex' = IF aborted THEN "interrupting" ELSE "stream"
        /\ IF aborted THEN Ask("interrupt_now", answeredTurn, "none") ELSE UNCHANGED requests
        /\ UNCHANGED <<outcome, steeringOff>>
     \/ /\ Denied("turn")
        /\ codex' = "settle" /\ outcome' = "failed" /\ steeringOff' = TRUE
        /\ UNCHANGED <<turnId, activeTurn, pump, requests>>
  /\ UNCHANGED <<compactTurn, recovered, mailbox, aborted, turnOff, readVars, pipe>>

TurnInterrupted ==
  /\ codex = "interrupting"
  /\ Answered("interrupt_now")
  /\ codex' = "settle" /\ outcome' = "aborted" /\ steeringOff' = TRUE
  /\ UNCHANGED <<turnId, activeTurn, compactTurn, recovered, pumpVars, aborted,
                 turnOff, requests, readVars, pipe>>

\* What was read is consumed first; then a closed pipe, then an abort, is noticed.
\* Notifications of other turns are passed over.
ReadNotification ==
  /\ codex = "stream"
  /\ notes # <<>>
  /\ notes' = Tail(notes)
  /\ IF Head(notes).turn = turnId /\ Head(notes).what \in TurnEnd
       THEN /\ codex' = "settle" /\ outcome' = Head(notes).what
            /\ activeTurn' = 0
            /\ steeringOff' = TRUE
       ELSE UNCHANGED <<codex, outcome, activeTurn, steeringOff>>
  /\ UNCHANGED <<turnId, compactTurn, recovered, pumpVars, aborted, turnOff, requests,
                 answeredTurn, pipe>>

StreamBreaks ==
  /\ codex = "stream"
  /\ notes = <<>>
  /\ \/ link = "failed" /\ outcome' = "failed"
     \/ link = "open" /\ (aborted \/ turnOff) /\ outcome' = "aborted"
  /\ codex' = "settle" /\ steeringOff' = TRUE
  /\ UNCHANGED <<turnId, activeTurn, compactTurn, recovered, pumpVars, aborted,
                 turnOff, requests, readVars, pipe>>

\* Once the forwarding has stopped, an overflow is compacted and continued, once;
\* a context that is nearly full is compacted after a turn that went well.
TurnSettles ==
  /\ codex = "settle"
  /\ pump.at = "off"
  /\ \/ /\ \/ outcome = "overflow" /\ ~recovered
           \/ outcome \in {"completed", "interrupted"}
        /\ codex' = "compact"
        /\ Ask("compact", 0, "none")
     \/ codex' = "close" /\ UNCHANGED requests
  /\ UNCHANGED <<outcome, turnId, activeTurn, compactTurn, recovered, pumpVars,
                 signals, readVars, pipe>>

CompactStarted ==
  /\ codex = "compact"
  /\ Answered("compact")
  /\ codex' = IF Granted("compact") THEN "compacting" ELSE "close"
  /\ compactTurn' = 0
  /\ UNCHANGED <<outcome, turnId, activeTurn, recovered, pumpVars, signals, requests,
                 readVars, pipe>>

\* After an overflow the turn is continued; otherwise, or in vain, it was the end.
Compacted(ok) ==
  /\ activeTurn' = IF compactTurn \in {0, activeTurn} THEN 0 ELSE activeTurn
  /\ UNCHANGED compactTurn
  /\ IF ok /\ outcome = "overflow"
       THEN /\ recovered' = TRUE
            /\ codex' = "turn" /\ outcome' = "none"
            /\ Ask("turn", 0, "none")
       ELSE /\ codex' = "close"
            /\ UNCHANGED <<recovered, outcome, requests>>

\* The compaction's turn announces itself; a confirmation or its end will do.
CompactReads ==
  /\ codex = "compacting"
  /\ notes # <<>>
  /\ notes' = Tail(notes)
  /\ LET n == Head(notes) IN
     CASE n.what = "started" ->
            /\ compactTurn' = n.turn /\ activeTurn' = n.turn
            /\ UNCHANGED <<codex, outcome, recovered, requests>>
       [] n.what # "started" /\ compactTurn \in {0, n.turn} -> Compacted(n.what # "failed")
       [] OTHER -> UNCHANGED <<codex, outcome, recovered, compactTurn, activeTurn, requests>>
  /\ UNCHANGED <<turnId, pumpVars, signals, answeredTurn, pipe>>

CompactBreaks ==
  /\ codex = "compacting"
  /\ notes = <<>>
  /\ link = "failed" \/ aborted
  /\ Compacted(FALSE)
  /\ UNCHANGED <<turnId, pumpVars, signals, readVars, pipe>>

\* An interruption under way is waited for; then the process group is ended.
CloseSession ==
  /\ codex = "close"
  /\ aborted => Answered("interrupt")
  /\ codex' = "ended"
  /\ outcome' = CASE aborted -> "aborted" [] ~aborted /\ turnOff -> "failed" [] OTHER -> outcome
  /\ steeringOff' = TRUE
  /\ pending' = {}
  /\ answer' = [q \in Request |-> IF q \in pending THEN "closed" ELSE answer[q]]
  /\ link' = "closed" /\ server' = [server EXCEPT !.alive = FALSE]
  /\ UNCHANGED <<turnId, activeTurn, compactTurn, recovered, pumpVars, aborted, turnOff,
                 stdin, readVars, stdout>>

\* The operator cancels, or the run has had its time.
Abort ==
  /\ ~aborted
  /\ codex \notin {"idle", "ended"}
  /\ aborted' = TRUE /\ steeringOff' = TRUE
  /\ Interrupts("interrupt")
  /\ UNCHANGED <<turnVars, pumpVars, turnOff, readVars, pipe>>

(***************************************************************************)
(* The forwarding of follow-ups.                                           *)
(***************************************************************************)

PumpTo(p) == pump' = [pump EXCEPT !.at = p]

PumpReceives ==
  /\ pump.at = "receive"
  /\ \/ /\ steeringOff
        /\ PumpTo("off")
        /\ UNCHANGED mailbox
     \/ \E f \in FollowUp :
          /\ ~steeringOff
          /\ mailbox[f] = "waiting"
          /\ mailbox' = [mailbox EXCEPT ![f] = "claimed"]
          /\ pump' = [at |-> "send", on |-> f]
  /\ UNCHANGED <<turnVars, signals, requests, readVars, pipe>>

\* steer() names the turn that is active now.
PumpSteers ==
  /\ pump.at = "send"
  /\ IF activeTurn = 0
       THEN PumpTo("off") /\ UNCHANGED requests
       ELSE PumpTo("steering") /\ Ask("steer", activeTurn, pump.on)
  /\ UNCHANGED <<turnVars, mailbox, signals, readVars, pipe>>

\* Mutant: a refused follow-up is acknowledged.
PumpHearsAnything ==
  /\ pump.at = "steering"
  /\ Answered("steer")
  /\ CASE ~steeringOff ->
            /\ PumpTo("acknowledge")
            /\ UNCHANGED <<steeringOff, turnOff, requests>>
       [] steeringOff \/ answer["steer"] = "refused" ->
            /\ PumpTo("off")
            /\ UNCHANGED <<steeringOff, turnOff, requests>>
       [] OTHER ->
            /\ PumpTo("off")
            /\ steeringOff' = TRUE /\ turnOff' = TRUE
            /\ Interrupts("interrupt_steer")
  /\ UNCHANGED <<turnVars, mailbox, aborted, readVars, pipe>>

\* A refusal, or an answer after the turn, leaves the follow-up to the next turn;
\* any other failure is the run's.
PumpHears ==
  /\ pump.at = "steering"
  /\ Answered("steer")
  /\ CASE Granted("steer") /\ ~steeringOff ->
            /\ PumpTo("acknowledge")
            /\ UNCHANGED <<steeringOff, turnOff, requests>>
       [] steeringOff \/ answer["steer"] = "refused" ->
            /\ PumpTo("off")
            /\ UNCHANGED <<steeringOff, turnOff, requests>>
       [] OTHER ->
            /\ PumpTo("off")
            /\ steeringOff' = TRUE /\ turnOff' = TRUE
            /\ Interrupts("interrupt_steer")
  /\ UNCHANGED <<turnVars, mailbox, aborted, readVars, pipe>>

PumpAcknowledges ==
  /\ pump.at = "acknowledge"
  /\ mailbox' = [mailbox EXCEPT ![pump.on] = "applied"]
  /\ PumpTo("receive")
  /\ UNCHANGED <<turnVars, signals, requests, readVars, pipe>>

\* Another message of the thread arrives.
FollowUpArrives(f) ==
  /\ mailbox[f] = "absent"
  /\ mailbox' = [mailbox EXCEPT ![f] = "waiting"]
  /\ UNCHANGED <<turnVars, pump, signals, requests, readVars, pipe>>

(***************************************************************************)
(* The session's side of the pipe.                                         *)
(***************************************************************************)

\* An answer nobody waits for any more is dropped.
HandleLine ==
  /\ link = "open"
  /\ stdout # <<>>
  /\ stdout' = Tail(stdout)
  /\ LET line == Head(stdout) IN
     CASE line.q \in pending ->
            /\ pending' = pending \ {line.q}
            /\ answer' = [answer EXCEPT ![line.q] = line.what]
            /\ answeredTurn' = IF line.turn # 0 THEN line.turn ELSE answeredTurn
            /\ UNCHANGED notes
       [] line.q = "none" ->
            /\ notes' = Append(notes, [what |-> line.what, turn |-> line.turn])
            /\ UNCHANGED <<pending, answer, answeredTurn>>
       [] OTHER -> UNCHANGED <<pending, answer, answeredTurn, notes>>
  /\ UNCHANGED <<turnVars, pumpVars, signals, stdin, link, server>>

RequestTimesOut(q) ==
  /\ q \in pending
  /\ pending' = pending \ {q}
  /\ answer' = [answer EXCEPT ![q] = "error"]
  /\ UNCHANGED <<turnVars, pumpVars, signals, stdin, readVars, pipe>>

\* failAll: the process has exited, maybe before all it wrote was read.
ServerExits ==
  /\ link = "open"
  /\ ~server.alive
  /\ link' = "failed"
  /\ pending' = {} /\ answer' = [q \in Request |-> IF q \in pending THEN "error" ELSE answer[q]]
  /\ UNCHANGED <<turnVars, pumpVars, signals, stdin, readVars, stdout, server>>

(***************************************************************************)
(* The provider.                                                           *)
(***************************************************************************)

Line(q, what, n) == [q |-> q, what |-> what, turn |-> n]
Note(what, n) == Line("none", what, n)

\* Requests are served in order; any may be refused.
ServerAnswers ==
  /\ server.alive
  /\ stdin # <<>>
  /\ stdin' = Tail(stdin)
  /\ LET r == Head(stdin)
         n == server.last + 1 IN
     \/ /\ stdout' = Append(stdout, Line(r.q, "refused", 0))
        /\ UNCHANGED server
     \/ /\ r.q = "thread"
        /\ stdout' = Append(stdout, Line(r.q, "ok", 0))
        /\ UNCHANGED server
     \/ /\ r.q = "turn" /\ server.turn = 0 /\ n \in Turn
        /\ server' = [server EXCEPT !.turn = n, !.last = n, !.kind = "turn"]
        /\ stdout' = Append(stdout, Line(r.q, "ok", n))
     \/ /\ r.q = "compact" /\ server.turn = 0 /\ n \in Turn
        /\ server' = [server EXCEPT !.turn = n, !.last = n, !.kind = "compact"]
        /\ stdout' = stdout \o <<Line(r.q, "ok", 0), Note("started", n)>>
     \/ /\ r.q = "steer" /\ server.turn = r.turn
        /\ server' = [server EXCEPT !.took = @ \cup {<<r.on, r.turn>>}]
        /\ stdout' = Append(stdout, Line(r.q, "ok", r.turn))
     \/ /\ r.q \in {"interrupt", "interrupt_now", "interrupt_steer"}
        /\ server.turn = r.turn
        /\ server' = [server EXCEPT !.turn = 0, !.ended = Append(@, <<r.turn, "interrupted">>)]
        /\ stdout' = stdout \o <<Line(r.q, "ok", 0), Note("interrupted", r.turn)>>
  /\ UNCHANGED <<turnVars, pumpVars, signals, pending, answer, readVars, link>>

\* A compaction may be confirmed before its turn is over.
ServerConfirms ==
  /\ server.alive /\ server.turn # 0 /\ server.kind = "compact"
  /\ server' = [server EXCEPT !.kind = "confirmed"]
  /\ stdout' = Append(stdout, Note("compacted", server.turn))
  /\ UNCHANGED <<turnVars, pumpVars, signals, requests, readVars, link>>

ServerEndsTurn ==
  /\ server.alive /\ server.turn # 0
  /\ \E what \in {"completed", "failed"}
                   \cup (IF server.kind = "turn" THEN {"overflow"} ELSE {}) :
       /\ server' = [server EXCEPT !.turn = 0, !.ended = Append(@, <<server.turn, what>>)]
       /\ stdout' = Append(stdout, Note(what, server.turn))
  /\ UNCHANGED <<turnVars, pumpVars, signals, requests, readVars, link>>

ServerDies ==
  /\ server.alive
  /\ server' = [server EXCEPT !.alive = FALSE]
  /\ UNCHANGED <<turnVars, pumpVars, signals, requests, readVars, stdout, link>>

CodexInit ==
  /\ codex = "idle" /\ outcome = "none"
  /\ turnId = 0 /\ activeTurn = 0 /\ compactTurn = 0 /\ recovered = FALSE
  /\ pump = [at |-> "off", on |-> "none"]
  /\ mailbox = [f \in FollowUp |-> "absent"]
  /\ aborted = FALSE /\ steeringOff = FALSE /\ turnOff = FALSE
  /\ pending = {}
  /\ answer = [q \in Request |-> "none"]
  /\ answeredTurn = 0
  /\ stdin = <<>> /\ stdout = <<>>
  /\ notes = <<>>
  /\ link = "open"
  /\ server = [alive |-> TRUE, turn |-> 0, kind |-> "turn", last |-> 0,
               took |-> {}, ended |-> <<>>]

RunAppServer ==
  \/ StartOrResume \/ ThreadStarted \/ TurnStarted \/ TurnInterrupted \/ ReadNotification
  \/ StreamBreaks \/ TurnSettles \/ CompactStarted \/ CompactReads
  \/ CompactBreaks \/ CloseSession

PumpSteering == PumpReceives \/ PumpSteers \/ PumpHears \/ PumpAcknowledges

CodexNext ==
  \/ RunAppServer \/ PumpSteering \/ Abort
  \/ \E f \in FollowUp : FollowUpArrives(f)
  \/ HandleLine \/ ServerExits \/ \E q \in Request : RequestTimesOut(q)
  \/ ServerAnswers \/ ServerConfirms \/ ServerEndsTurn \/ ServerDies

CodexSpec == CodexInit /\ [][CodexNext]_codexVars

\* The executor runs on: lines are read, an exit is noticed and timers fire, that
\* of the run too.  Nothing is assumed of the provider.
CodexWork ==
  \/ RunAppServer \/ PumpSteering \/ HandleLine \/ ServerExits \/ Abort
  \/ \E q \in Request : RequestTimesOut(q)
FairCodex == CodexSpec /\ WF_codexVars(CodexWork)

-----------------------------------------------------------------------------
(* Properties *)

\* The types of the variables.
CodexTypeOK ==
  /\ codex \in CodexPhase
  /\ outcome \in TurnEnd \cup {"none", "aborted"}
  /\ {turnId, activeTurn, compactTurn, answeredTurn} \subseteq 0 .. LastTurn
  /\ pump \in [at : PumpPhase, on : FollowUp \cup {"none"}]
  /\ mailbox \in [FollowUp -> {"absent", "waiting", "claimed", "applied"}]
  /\ pending \subseteq Request
  /\ answer \in [Request -> {"none", "ok", "refused", "error", "skipped", "closed"}]
  /\ link \in {"open", "failed", "closed"}
  /\ {recovered, aborted, steeringOff, turnOff} \subseteq BOOLEAN

\* A follow-up is only acknowledged, and so kept from the next turn, when the
\* provider took it into the very turn that answers the message.
AcknowledgedWasTaken ==
  \A f \in FollowUp : mailbox[f] = "applied" => \E n \in Turn : <<f, n>> \in server.took

\* A turn the run knows of is asked to stop, or was over, before its process is
\* ended for a cancellation, unless the pipe broke.
InterruptsWhatItCancels ==
  codex = "ended" /\ outcome = "aborted" /\ activeTurn = turnId /\ turnId # 0 =>
    \E q \in {"interrupt", "interrupt_now", "interrupt_steer"} :
      answer[q] \notin {"none", "skipped", "closed"}

=============================================================================
