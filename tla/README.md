# MaxTag: TLA+ models and proofs

MaxTag (packages `@opentag/*`) puts a coding agent into chat threads. People write in a
Lark, Telegram, Slack or GitHub thread; the server turns each message into an *agent
run* in a durable ledger, or into a *follow-up* of the run the thread already has; worker
processes claim runs, drive an executor (Claude, Codex, another CLI), publish the answer
in the thread and settle the run. Beside that path go outgoing deliveries, approvals of
remote writes, delegated tasks, workflows, routines, memory, knowledge sources and the
recovery and import of Lark history. Nearly all of it is coordinated through documents
(SQLite or JSON files) that several processes share, claim work from, and die over. This
directory models that coordination, checks it with TLC and proves its safety with TLAPS.

`D` below is `src/packages/delivery/src/file-delivery-store.ts`, `H` is
`src/packages/runtime-host/src/index.ts`, `S` is `src/apps/server/src/index.ts`.
`PROJECT.json` maps every definition to the lines it stands for.

## 1. Inventory

### The run path

| Component | State | Operations | Talks to |
|---|---|---|---|
| **Run ledger** (`D`) | `agentRuns`, `agentRunSteering` (the follow-up mailbox), `inboundEvents`, `nextSteeringSequence` | record an event, create a run or enqueue a follow-up, claim, renew, requeue, recover stale runs, live-claim and acknowledge follow-ups, complete / fail / cancel, request a cancellation, stop a thread or one run | every other component calls it; each call is one immediate SQLite transaction (`mutate`) |
| **Worker host** (`H`, `run-control.ts`, `core/src/runtime.ts`, `apps/worker`) | per process: the claimed run, its AbortController, follow-ups received but not acknowledged, shutdown flag | claim pass, budget check, execute, monitor, lease checks, publish, settle, catch clause, begin shutdown, restart | ledger; executor (in-process call with callbacks); platform adapters |
| **Server** (`S`) | none of its own beyond requests in flight | inline twin of the worker host; ingest, `/stop`, card Stop / Take over, steer and cancel endpoints; `runMessageSync` | ledger |
| **Message ingress** (`S`) | `inboundEvents` | verify, deduplicate, route, authorize, enqueue or steer | ledger |
| **Executors** (`executor-codex`, `-claude`, `-cli`) | one provider process, its turn, the requests in the pipe | start a turn, forward follow-ups into it, compact and continue, interrupt, end the process | worker host by callbacks, provider by a pipe |
| **Tool approvals** (`D` 3046-3286, `tool-broker`) | approvals with status, one execution claim | request, decide, expire, claim, write, finish, recover as unknown outcome, continue the run | agent's tool calls, cards, ledger |
| **Outbox** (`D` 1442-1681, `outbox-worker.ts`, `tracked-*-transport.ts`) | envelopes with status, attempts, lease, and receipts on runs | enqueue, send, mark sent / failed, cancel, supersede, recover, pass | platform transports |

### Background work

| Component | State | Operations |
|---|---|---|
| **Delegated agent tasks** (`packages/config`, `H`) | tasks with a lease, attempts, a continuation | create, claim, execute, complete, retry, cancel, continue the parent |
| **Workflows** (`packages/workflows`, `workflow-coordinator.ts`) | executions, nodes, claims, attempts | trigger, reconcile, claim node, queue its run, cancel, retry |
| **Routines** (`packages/routines`, `routine-scheduler.ts`) | schedule, executions, notices | edit, trigger, stage, claim, bridge to a run, reconcile, announce |
| **Memory wrapup** (`D` 2182-2435, `memory-wrapup.ts`) | jobs, a cursor per thread, summaries | stage, claim, analyse, summarise, purge, prune |
| **Memory store** (`packages/memory`) | one document of lines with expiries, proposals | remember, forget, propose, decide, restore, compact, expire |
| **Knowledge sources** (`packages/config`, `knowledge-source-refresh.ts`, `knowledge-enrichment.ts`) | revisions, refresh jobs, validators, passages | edit, schedule, fetch conditionally, apply, enrich |
| **Lark long connection and backfill** (bridge script, `lark-backfill.ts`) | durable checkpoint per channel, scans | forward, scan, advance, restart |
| **Lark history import** (`lark-history-import.ts`) | jobs with a cursor over windows | ask, choose on a card, claim, archive, analyse, release, complete, cancel |
| **SQLite documents** (`packages/storage-sqlite`) | rows with ordinals, a cached document, `data_version` | import, read, change in one transaction, roll back |
| **JSON file stores** (`packages/config/src/file-*-store.ts`) | a file and a lock file beside it | lock, read, replace, release, remove a stale lock |

Not modelled: thread configuration, pairing and access (records merged in single
transactions), credentials and operator authentication (data and cryptography), admin UI,
cards, metrics and deployment (presentation). Platform adapters are modelled only by what
a failing send or progress update does to a run, the tool broker only by its approval path.

### What is hard here

* **Interleaving.** A worker's attempt is a dozen store calls with awaits between them;
  operators stop, ingresses enqueue and other workers claim in between. Leases are
  checked by reading, and most outcome calls (`markAgentRunCompleted` and its siblings)
  name no owner; import and workflow calls do not either.
* **Lease loss.** Every recovery looks at a time stamp alone, so a live process can be
  taken for dead; it notices at its next poll or check, or not before its work is out.
* **The mailbox.** A follow-up waits for a run; the run may take it live, end, be given
  back, be cancelled, or be followed by another run first. Exactly one of "applied live"
  and "continuation" may answer it, and no thread may fall silent with a follow-up waiting.
* **Crash and shutdown** at any await, between two stores as well as between a remote
  effect (a message sent, a write made) and the record of it.
* **Read, compute, write.** Wrapups, refreshes, enrichments, reconciliations and memory
  proposals work on what was read earlier and write it to what has changed since.
* **Cursors and checkpoints** move while entries arrive before, in and behind them.
* **Competing limits.** One turn per conversation, one model run per project runtime, but
  routines and status commands start beside them.

What makes each component correct is the list of its properties in section 3;
`PROJECT.json` lists the individual hazards at their lines with the properties that would
catch each going wrong.

## 2. Modules

| Module | Models | Role |
|---|---|---|
| `Turns` | nothing in the code: what MaxTag promises a thread | abstract specification |
| `RunLedger` | the run ledger of `D` | component; refines `Turns` |
| `RunWorkers` | `H`, `run-control.ts`, `core/src/runtime.ts`, `apps/worker`, the inline worker | closes `RunLedger` |
| `SyncIngress` | `runMessageSync` of `S` | adds unclaimed starts to `RunLedger` |
| `Hosts` | the processes that share one store | constants of the modules below |
| `Outbox` | envelopes and receipts, senders, the worker pass | component |
| `OneTimeGrant` | nothing in the code: what an approval promises | abstract specification |
| `ToolApprovals` | approvals and whoever executes them | component; refines `OneTimeGrant` |
| `DelegatedTasks` | tasks, leases, continuations | component |
| `Workflows` | one or more executions of a graph, coordinators, runs of nodes | component |
| `MemoryWrapup` | transcript entries, jobs, cursor, purge | component |
| `CodexTurn` | one run against the Codex app server | component |
| `FileStores` | the lock file protocol of all JSON stores | component |
| `MemoryRevisions` | one memory document | component |
| `Routines` | one routine | component |
| `KnowledgeSources` | one source that follows a page | component |
| `LarkIngress` | one channel, bridge, scans, ingests | component |
| `HistoryImports` | import jobs of one channel | component |
| `AtomicDocument` | nothing in the code: a document that changes by whole operations | abstract specification |
| `SqliteStore` | one collection, two connections | component; implements `AtomicDocument` |
| `Enumerations` | JavaScript's sort and filter, without recursion | operators of `MemoryRevisions` and `SqliteStore` |
| `Focus` | nothing in the code: the component that moves | variable of the next two |
| `Deliveries` | outbox, approvals, tasks, workflows, wrapups, Codex turn, file stores, memory | composition |
| `Background` | routines, knowledge sources, Lark channel, history imports, SQLite | composition |
| `MC*` | model values of the small instances | `MCRunWorkers`, `MCSyncIngress`, `MCDeliveries`, `MCBackground` |
| `*Proofs` | | theorems (section 4) |

The head comment of each module says what one of its records stands for and which files
it translates.

### RunLedger

Runs are named by the message they answer: `Turn(m)` is the run an ingress or a scheduler
creates for `m`, `Continuation(m)` the run made of the follow-up `m`
(`steeringContinuationRunId`, `D` 1261). A message has a fixed thread, source (ingress
message, result of a task or approval, routine, operator's steer) and kind (model run or
one of the three commands answered without a model); a thread belongs to a project or to
none. `runs`, `steering` and `inbound` are the three tables, keyed that way; `clock`
stands for both `createdAt` and `nextSteeringSequence`, which are only compared.

Every public method is one action, because `mutate` makes it one transaction. The private
helpers the methods share are operators: `FinishContinuation`
(`finishContinuationSteeringInState`), `FinishInbound` (`finishRunInboundInState`),
`NextSteering` (`scheduleNextSteeringInState`), and `Settle`, which applies the three in
the order the code does. `CancelActive` is `cancelActiveAgentRunsForThread`, with the
whole thread (`StopThread`) or with one run (`StopRun`): unlike the outcomes, it schedules
nothing. The order of calls is left open: any worker may make any call at any moment, also
about a run it does not own, since the store does not compare owners there.

Abstracted: timestamps other than their order; the text, metadata and timeline of a run;
the limit of 500 records; `claimQueuedAgentRuns` with a batch above its default of one.
`RecoverStaleAgentRuns(S)` takes any set of executing runs for stale: heartbeats come
every few seconds, but nothing bounds how late one is. The runtime scope is computed as
`createAgentRunInState` does, from what its callers pass. The check for a run whose
payload is missing is not modelled: both creators always store one.

### RunWorkers

`host[w]` is what process `w` is between two awaits (`step`), the run it holds, the reason
of its AbortController (`abort`), the follow-ups it received but has not acknowledged, and
those its executor knows. `answers` records what `sendMessage` sent. One action is the
code from one await to the next; `AssertActive`, `Monitor` and the catch clause
(`AbandonLost`, `GiveBack`, `SettleFailure`, `MarkRunInboundFailed`) follow `H` 1964-2188.
`Crash` empties a process (supervisor restart, `Restart=always`); `BeginShutdown` is
SIGTERM. `ProviderSession` says whether a second attempt resumes the provider's session;
`ProgressThrows` whether the progress surface throws (Telegram, Slack, GitHub) or swallows
a failed update (Lark). Policy, memory retrieval, prompts and tools happen inside
`ExecutorReturns` / `ExecutorFails`. A zero-model command has neither monitor nor lease
check, as in the code. Bounded events (`budget`): crashes, SIGTERMs, stale recoveries,
stops. `Recover` happens in the code when a process starts and from the admin API; since
any executing run may be called stale, its moment is left open.

### SyncIngress

`runMessageSync` creates the run and executes it in the request: `executeAgentRun`
without `alreadyClaimed` calls `markAgentRunRunning` (`S` 9727) instead of claiming. Only
the creation and the start differ from the asynchronous path; the rest of the request is
the calls `RunLedger` already leaves open.

### Components beside the runs

Each of these modules has the tables of its store as variables and, for every host, a
record of what the process holds between two awaits; an action is a store call or the
code up to the next await, as in `RunWorkers`. A crash empties the record of a host; a
claim, a lease or a lock *lapses* when the code compares a time stamp, and may lapse
under a process that lives. Remote effects (a message taken by the platform, a write
made, a page fetched) are variables of their own, so that what the record says can be
compared with what happened.

* `Outbox`: `outbox` and `receipt` are two records that one transaction each changes; a
  sender enqueues (superseding older updates of the card), sends, and records; a worker
  pass claims, delivers through its callback, and marks.
* `ToolApprovals`: the click, the HTTP request and the worker's pass are three ways to the
  same claim; `writes` counts what the tool did.
* `DelegatedTasks`: the pass that executes also starts continuations that an earlier
  one did not get to.
* `Workflows`: a tick reconciles from run states read one by one, then claims and queues;
  the runs are driven by `RunAdvances`, which stands for the whole of `RunWorkers`.
* `MemoryWrapup`: the transcript is read twice, once to stage and once to analyse.
* `CodexTurn`: the pipe holds requests in order; notifications and answers come in any
  order the provider may send them; turn ids are numbers.
* `FileStores`: judging a lock stale and removing it by name are two steps.
* `MemoryRevisions`: a document is a sequence of lines; expiries name a line by number
  and text and are re-attached after each change.
* `Routines`: an interval stands for every schedule; a tick reconciles, announces and
  claims, and two hosts tick side by side.
* `KnowledgeSources`: a revision has its text or none; a validator is the text it was
  given for; edits, fetches and enrichments interleave.
* `LarkIngress`: time is in days; a scan asks for a window, ingests one message after
  another and moves the checkpoint; recording and settling an event are two steps.
* `HistoryImports`: none of the job calls names the claimant, so the model keeps what each
  server believes apart from what the job says.
* `SqliteStore`: reads are three statements outside a transaction, the cached document is
  changed in place, and rows that differ are written in one transaction.

`Deliveries` and `Background` put these side by side, so that one run each explores them.
The components share hosts and no state, so nothing is lost by letting one component
(`focus`) move in a behaviour: the state space is the sum of the components', not their
product, and fairness of the disjunction is fairness of the component in focus. That a
behaviour of the composition is one of every component is a theorem
(`DeliveriesKeepTheirComponents`, `BackgroundKeepsItsComponents`).

## 3. Runs

| Run | States | Result | Question |
|---|---|---|---|
| `workers_shutdown` | 107 442 | holds | a SIGTERM, a crash and a stop at any point of three messages (one of a routine, one of an operator) in two threads of one project: types, one model run per runtime, one executor per run, nothing running unattended but for the run of the crash, resumed sessions know what they took in, and the promise of `Turns` |
| `workers_recovery` | 2 086 376 | holds | a crash and a stale recovery at any point, a status command, a routine, a throwing progress surface: what the ledger calls done was answered |
| `workers_progress` | 250 160 | holds | under fairness every accepted message settles, with a stop at any moment; a message delivered again becomes no second run |
| `sync_conversation` | 17 332 | holds | any order of store calls with unclaimed starts: mailbox, continuations, claims and runs agree, outcomes are final, threads hand over |
| `deliveries` | 1 157 651 | holds | outbox, approvals, tasks, a workflow, wrapups, a Codex turn, a locked file, a memory document |
| `deliveries_progress` | 54 480 | holds | approvals, tasks, executions and transcript entries come to their end |
| `background` | 3 482 484 | holds | a routine, a knowledge source, the Lark channel, an import, a SQLite collection |
| `background_progress` | 231 217 | holds | routines, jobs, posts and imports come to their end |
| `sync_runtime` | | violated | a synchronous request starts beside the project's running model run |
| `outbox_unsent` | | violated | the server's outbox pass marks delivered what nobody sent |
| `workflow_fence` | | violated | a stale coordinator stops the run of its successor |
| `lark_lost` | | violated | a message whose ingest failed is skipped by every later scan |

The properties of `deliveries` and `background`, by component:

| Component | Property | What it says |
|---|---|---|
| Outbox | `SentAtMostOnce` | recovery, retry and pass never repeat what may have arrived |
| Tool approvals | `WrittenOnceIfGranted`, `GrantsAreOneTime` | a write is made at most once, behind a granted approval of that very call; every step is a step of `OneTimeGrant` |
| Delegated tasks | `SpentOnce` | the spend is recorded once, for a completed task |
| Workflows | `CancellationReachesRuns` | once the coordinators rest, no run of a cancelled execution goes on (nodes not retried; no crash or refusal) |
| Memory wrapup | `NothingIsSkipped` | what lies behind the cursor was analysed, with the two exceptions the code has |
| Codex turn | `AcknowledgedWasTaken`, `InterruptsWhatItCancels` | a follow-up is acknowledged only if taken into the very turn; a turn is interrupted before its process is ended |
| File stores | `WrittenStays` | what was written stays, as long as one lock at most was removed as stale |
| Memory store | `ExpiryFollowsItsLine`, `ReviewedEditsTakeWhatTheyRead` | a line keeps its expiry through edits elsewhere; a decided proposal takes out only what its author saw |
| Routines | `CompletedMeansRan` | an execution completes only for a run that did |
| Knowledge | `ValidatorMatchesText`, `RefreshOverwritesNothing`, `PassagesFitText` | "not modified" never hides an edit; a page never overwrites one; passages are those of the text |
| Lark channel | `NothingUnseenBehindCheckpoint` | the checkpoint passes nothing the server has not recorded |
| History import | `ImportSkipsNothing` | the cursor passes nothing that is not archived |
| SQLite | `StoreIsAtomic` | every commit is one operation on what the last commit left |

### Bounds

All counters are capped by constants named in the modules; the configurations give:

* `workers_*`, `sync_*`: three messages, the smallest number at which a follow-up can wait
  behind a run that is no longer the thread's active one; two workers, because a run has
  one owner and at most one former owner at a time; two threads of one project where the
  runtime exclusion, a relation between two runs, is checked, one thread elsewhere. The
  rare events are one each. `workers_shutdown` has no recovery, since `OneExecutorPerRun`
  and `SessionKeepsFollowUps` speak of the time before a living worker is taken for dead
  (their hypothesis says so); `workers_recovery` has one, and checks what holds
  regardless. `workers_progress` has no crash: a crashed worker's run waits for a recovery
  that nothing guarantees (section 6).
* `deliveries`: two hosts; two envelopes of one card with two attempts; two calls and
  three approvals, of which the store keeps one, so that a forgotten record can be asked
  for again; two tasks and a chain of two nodes, with two attempts; three transcript
  entries in wrapups of one, so that an entry can arrive before, in and behind a window;
  one follow-up and three turns (told, compaction, continued); three updates of a file,
  because the third is lost when two waiters remove locks; a memory of two facts with a
  shared line, one proposal and three versions.
* `background`: two hosts; two executions; two refresh jobs, three edits, two page
  versions; two posts and two scans over three days; one import of two windows; three
  records of which two are kept. One trouble per component, two for imports.
* `*_progress` runs are smaller and have one trouble or crash less; an import has one
  server, because two of them can take the job from each other for ever.

Deadlock checking is off everywhere: the system may come to rest when everything has its
outcome. Symmetry is used in runs without liveness properties, over what the
configuration treats alike (workers, hosts, approvals, posts).

### Disagreements the runs show

1. **Unclaimed starts** (`sync_runtime`, `S` 10363). `runMessageSync` executes the run it
   created without claiming it, beside the run of another thread that holds the project's
   runtime; docs/adr/0002 line 29: "Only one model run may own a Project runtime at a time".
2. **Delivered, not sent** (`outbox_unsent`, `S` 15355). The server's worker pass has a
   `deliver` callback that only returns an id, so pending, retried and recovered envelopes
   are marked delivered, with a receipt on their turn, and nothing is sent.
3. **A stale coordinator stops its successor's run** (`workflow_fence`,
   `workflow-coordinator.ts` 382). Run ids are computed from execution, node and attempt,
   so the run a coordinator withdraws after losing its claim may be its successor's;
   src/README.md:88 counts on "Multiple owner-fenced schedulers against one store".
4. **A failed ingest is never repeated** (`lark_lost`, `S` 9444). The event is recorded
   before it is routed; every later copy is a duplicate, which a scan counts as a success.

### Fairness

Every fairness condition is weak fairness of a process that loops on a timer; nothing is
assumed of people, crashes, recoveries, providers or pushed messages.

* `FairWorkers`: `Progress(w)` of every worker. The worker's loop
  (`src/apps/worker/src/index.ts` 482-548) claims, executes and settles one run after
  another, waiting only for the store, its timer and the executor; a store call returns or
  throws; an executor has a timeout. `EveryMessageSettles` holds although the monitor may
  never run and every message may go to the mailbox.
* `FairDeliveries`, `FairBackground`: `Work(h)` of every host (what a pass began it goes
  on with, and passes repeat) and `Time` (leases, rests and expiries run out; the runs a
  node or routine waits for move, as `EveryMessageSettles` says of them).
* For the Lark channel, the bridge's loop (`ScanLoop`) and the server's work on a scan
  (`ScanWork`) are separate processes and have a condition each.

## 4. Proofs

TLAPS checks 74 theorems, the most telling of which are listed here, and some 370 lemmas
under them. Every safety invariant and every action property that a passing run checks is
stated by a theorem. Every proof is for all values of the constants: any messages, threads,
hosts, jobs, any numbers of attempts, crashes and other bounded events (the bounds stay in
the guards, their values are arbitrary). Assumed is only what the modules declare with
`ASSUME`, and TLC evaluates on each run: that `None` (`Nobody`) is no host, task, call,
approval, import, job or post; that limits of attempts, intervals and windows are positive
and bounds natural numbers, executions and nodes finitely many (`RoutineBounds`,
`WorkflowBounds`, `LarkBounds`, `ImportBounds`, `KnowledgeBounds`, ...); that messages have
threads, kinds and sources of the declared sets (`LedgerAssumption`); that `DependsOn` is
acyclic (`GraphIsAcyclic`; the code refuses other graphs); that a legacy delivery file is a
document (`LegacyIsDocument`), a note a sequence of lines (`FactsAreLines`), and that a
compaction keeps at least one revision (`MemoryBounds`; the code takes the maximum with 1).

**`RunLedgerProofs`** (about `Spec` of `RunLedger`)

| Theorem | Property | |
|---|---|---|
| `RuntimeIsExclusive` | `RuntimeExclusive` | The guard of claimQueuedAgentRuns alone keeps two model runs off one runtime, for any number of workers, projects and threads |
| `FollowUpsAgree` | `ContinuationAgrees` | A follow-up is scheduled exactly while its continuation is active and ends with it: the core of the inductive invariant |
| `OneTurnAtATime` |  | The conversation of a thread never has two active runs, whoever creates and schedules them |
| `MessagesAnsweredOnce` | `AnsweredOnce` | A message delivered any number of times becomes one run or one follow-up |
| `ClaimsAreReturned` | `ClaimsFollowTheRun` | No follow-up stays claimed for a run that was given back |
| `OutcomesAreFinal` | `OutcomeIsFinal` | The first outcome of a run is its last, through late answers, recovery and cancellation |
| `CancelsAreFinal` |  | A requested cancellation is never lost to a completion or a requeue |
| `TurnsHandOver` | `TurnHandsOver` | Whoever ends an executing run hands its thread to the oldest follow-up that waits behind an ended run |
| `PromiseIsKept` | `KeepsThePromise` | Every step of the ledger is a step of the promise made to a thread (Turns), or none: the refinement |

**`RunWorkersProofs`** (about `WorkersSpec`)

| Theorem | Property | |
|---|---|---|
| `WorkersTypeCorrect` | `WorkersTypeOK` | Ledger, worker processes and answers keep their declared shape under any interleaving |
| `WorkersAreExclusive` | `RuntimeExclusive` | Crashes, early recoveries and lost leases put no two model runs on one runtime and make no message two |
| `WorkersKeepThePromise` | `KeepsThePromise` | The promise to a thread is kept by workers that crash, shut down, are taken for dead and mark events on their own |
| `WorkersForgetNobody` |  | No crash, shutdown, requeue, recovery or late report of a worker leaves a follow-up behind with nothing active in its thread |
| `DoneIsTrue` | `DoneWasAnswered` | No run is completed and no event processed before the answer was published, or the follow-up taken in, through any crashes and recoveries |
| `ExecutorsAreSole` | `OneExecutorPerRun` | A running run is in the hands of its worker, but for one run per crash; and until a recovery takes a run from a living worker no two workers execute the same one |
| `SessionsKeepFollowUps` | `SessionKeepsFollowUps` | With the provider's session a restart loses no follow-up: an answer knows everything its run was said to have taken in |

**`SyncIngressProofs`** (about `SyncSpec`, where requests start runs without a claim)

| Theorem | Property | |
|---|---|---|
| `SyncFollowUpsAgree` | `ContinuationAgrees` | With worker, synchronous requests and inline worker interleaved as they are, a follow-up is scheduled exactly while its continuation is active |
| `SyncOneTurnAtATime` |  | The conversation of a thread has one active run in that interleaving too, though a request takes its thread only after it has looked |
| `SyncMessagesAnsweredOnce` | `AnsweredOnce` | A message that is delivered to the worker and to a synchronous request at once is answered once |
| `SyncClaimsAreReturned` | `ClaimsFollowTheRun` | No follow-up stays claimed for a run that a request or a worker has given up |
| `SyncOutcomesAreFinal` | `OutcomeIsFinal` | The first outcome of a run is its last when requests and workers race for it |
| `SyncTurnsHandOver` | `TurnHandsOver` | A request that ends its run hands the thread to the oldest follow-up behind it, as a worker does |
| `SyncTurnsForgetNobody` |  | With requests beside the workers too, no follow-up is left behind an ended run with nothing active in its thread, but for the card Stop of a run that is queued again |
| `SyncKeepsThePromise` |  | With requests that execute their own run every step is a step of the promise (Turns), none, or a request that starts late and forgets the stop of its message: how far the refinement survives |
| `RequestsAloneShareARuntime` |  | How far the refuted exclusivity of runtimes goes: of two model runs on one runtime, one is the turn of an ingress message; the runs that only workers claim never share one with each other |
| `ClaimedCancelsAreFinal` |  | A cancellation requested of a run that no request starts is never lost: only the turn of an ingress message can forget it |

**`HandoffProofs`** (outbox, tool approvals, delegated tasks)

| Theorem | Property | |
|---|---|---|
| `WritesAreGranted` | `WrittenOnceIfGranted` | For any number of approvals, hosts and crashes a remote write happens at most once and only behind a granted approval of that very call |
| `ApprovalsAreOneTimeGrants` | `GrantsAreOneTime` | Every step of the approval store and its executors is a step of the one-time grant, or none: the refinement |
| `ContinuationsAreTrue` |  | The run that continues after an approval is told done only of a write that was made |
| `OneApproval` |  | A run has at most one kept approval for one exact write |
| `OutcomesStand` |  | An approval's outcome stands through late answers, late clicks and recovery, until the record is dropped |
| `DelegationIsSpentOnce` | `SpentOnce` | The spend of a delegation is recorded at most once, and for a completed task only, however many workers executed it behind their leases |
| `DelegationReportsOutcomes` |  | The run that asked is continued only for a task that stands at a reported outcome |
| `DelegationOutcomesStand` |  | A task that has ended keeps its outcome |
| `EnvelopesAreSentOnce` | `SentAtMostOnce` | No envelope is given to the platform twice, for any number of couriers, recoveries, crashes and operator retries |
| `ReceiptsFollowTheOutbox` |  | Receipt and envelope of one idempotency key tell the same story at every step between the two files |
| `WaitingHasAttempts` |  | An envelope that waits for a retry has attempts left |

**`AutomationProofs`** (workflows, routines, file stores, the Codex turn)

| Theorem | Property | |
|---|---|---|
| `CancellationStopsTheRuns` | `CancellationReachesRuns` | Without a crash or a refusal, once the coordinators rest no run of a cancelled execution goes on, for any acyclic graph and any coordinators, for the nodes that were not retried |
| `CompletionsAreTrue` | `CompletedMeansRan` | A routine execution completes only for a run that did |
| `WrittenIsKept` | `WrittenStays` | What an updater wrote under the file lock stays in the file as long as at most one lock was removed as stale |
| `AcknowledgementsAreTrue` | `AcknowledgedWasTaken` | A follow-up is acknowledged only when the provider took it, for any number of follow-ups and turns: an answer is never about another follow-up |
| `CancellationsInterrupt` | `InterruptsWhatItCancels` | A turn the run knows of was asked to stop, or the request failed, before its process is ended for a cancellation, wherever the cancellation falls |

**`StorageProofs`** (wrapups, SQLite documents, memory documents)

| Theorem | Property | |
|---|---|---|
| `TheCursorSkipsNothing` | `NothingIsSkipped` | An entry behind the cursor was analysed, unless it arrived behind it or a summary covers it whose analysis found earlier entries in its place |
| `ThreadHasOneClaim` |  | A thread's wrapup is claimed by one job at a time |
| `TheStoreIsAtomic` | `StoreIsAtomic` | Every statement of every process makes a step of one atomic document, or none: the refinement, for any processes, records, legacy documents, roll-backs and deaths |
| `CurrentCachesReflectTheTables` |  | A cache that SQLite's data version calls current is what the tables hold, so that a change computed on it is one of the stored document |
| `ExpiriesFollowTheirLines` | `ExpiryFollowsItsLine` | A line without a twin keeps its expiry from version to version, through notes, merges, restores and compactions of any length |
| `ReviewersReadWhatGoes` | `ReviewedEditsTakeWhatTheyRead` | An approved replacement or merge takes out no line newer than the version it was proposed for |
| `TheHistoryIsClosed` |  | Compaction leaves the current version in the history, and every one that a revision in it was restored from |

**`IntakeProofs`** (knowledge sources, the Lark channel, history imports)

| Theorem | Property | |
|---|---|---|
| `ValidatorsAreTrue` | `ValidatorMatchesText` | The validator an open job sends for the current revision stands for the text the source holds, so that not-modified never hides an edit |
| `RefreshesOverwriteNothing` | `RefreshOverwritesNothing` | A text the page brings follows the very revision its job was made for: the claim and the revision guard suffice for any hosts |
| `PassagesAreOfTheText` | `PassagesFitText` | Search passages are those of the text that is stored |
| `CheckpointPassesNothing` | `NothingUnseenBehindCheckpoint` | The backfill's checkpoint never passes a message that the server has not seen |
| `ImportsSkipNothing` | `ImportSkipsNothing` | Every window an import's cursor has passed is archived, whichever servers took it over, failed or cancelled it |

**`CompositionProofs`** (the specifications TLC explores in `deliveries` and `background`)

| Theorem | Property | |
|---|---|---|
| `DeliveriesKeepTheirComponents` |  | Every behaviour of the deliveries is one of each of their eight components: the theorems about one need nothing of the others |
| `DeliveriesTypeCorrect` | `DeliveriesTypeOK` | The variables of all eight components keep their types in the composition |
| `DeliveriesKeepTheirPromises` |  | All invariants and action properties that the run of the deliveries checks hold of its specification for every value of the constants |
| `BackgroundKeepsItsComponents` |  | Every behaviour of the background is one of each of its five components |
| `BackgroundTypeCorrect` | `BackgroundTypeOK` | The variables of all five components keep their types in the composition |
| `BackgroundKeepsItsPromises` |  | All invariants and action properties that the run of the background checks hold of its specification for every value of the constants |

`TurnsForgetNobody` says of `Spec` what `WorkersForgetNobody` says of `WorkersSpec`. The
types of each component are theorems too (`TypeCorrect`, `ApprovalTypeCorrect`,
`WorkflowTypeCorrect`, `RoutineTypeCorrect`, `WrapupTypeCorrect`, `SqliteTypesHold`,
`MemoryTypesHold`, `KnowledgeTypeCorrect`, `LarkTypeCorrect`, `ImportTypeCorrect`,
`FileTypeCorrect`, `CodexTypeCorrect`; those of the outbox and of tasks are part of
`OutboxInv` and `TaskInv`), and so is the inductive invariant of the memory document
(`HistoryAndEntriesFit`).

### The arguments

**Run ledger.**

* *One shape for the callers of `Settle`.* Recovery, the three outcomes and the
  cancellation of a queued run hand tables to `Settle`. `SettleCall` says what these tables
  may differ in (runs given back, runs ended, claims taken back), and `StepCases` reduces
  `Next` to ten kinds of step, so no later proof looks into the callers again.
  `SettleRuns`, `SettleFollowUps` and `StopEffects` say what happens to one run and one
  follow-up.
* *The inductive invariant* is `TypeOK /\ ContinuationAgrees /\ MailboxOK`, each proved
  relative to those before it. `ContinuationAgrees` is inductive given the types.
  `MailboxOK` is the strengthening the rest needs: a follow-up waits for an existing run,
  never comes from a scheduler, is numbered below the clock and apart from the others, and
  an operator's message has no run of its own. Without it `AnsweredOnce` would not survive
  `CreateAgentRun`, which looks at the runs alone, nor `OneTurnPerThread` a `Settle` that
  found two "oldest" follow-ups.
* *The properties.* `RuntimeExclusive` needs `ExecutingGrows`: a run starts executing
  only by being claimed. `OneTurnPerThread` needs `NextIsAlone`: `Settle` schedules one
  follow-up per thread, in a thread without active run. The action properties follow from
  the invariant step by step; `TurnHandsOver` also takes the least element of the
  waiting sequence numbers (`SmallestNat`).
* *Nobody is forgotten.* `TurnHandsOver` is about the end of an executing run;
  `NobodyIsForgotten` is about every call. A thread is `Awaited` if nothing waits in it
  behind an ended run, or a run of it is active. `CalmFrame` covers the calls that end no
  run of the thread and move no follow-up; whoever ends one calls `Settle`, which schedules
  the oldest follow-up of the thread (`SettleHandsOver`), except `CancelActive`: "/stop"
  takes the follow-ups along with the runs, and the card Stop of a run that is queued again
  is the one exception, which the property names (section 5).
* *The refinement of `Turns`* needs all of these together (`PromiseInv`). `RunMoves` and
  `FollowUpMoves` say which status a run or follow-up may go to, `FateStep` that the fates
  of the messages then move as `May` allows, and one turn per thread that at most one
  message of a thread is worked on.

**Run workers.**

* A worker's step is a step of the ledger, or a mark it sets on an event itself
  (`LedgerOrMark`). So what was proved of the ledger stays an invariant of the closed
  system (`LedgerInv`), and the refinement is that of the ledger again.
* `WorkersShape` says what a process holds at each point of its loop (`HandOK`);
  `WhoDisturbs` says who can start, give back or complete a given run.
* `DoneInv` behind `DoneWasAnswered`: whoever is past its answer has given one, and a
  follow-up is applied only for a run whose executor took it in.
* `ExecutorInv` behind `OneExecutorPerRun`: as long as no recovery took a run from a living
  worker, the run in a worker's hand is that worker's and nobody else's (`Sole`), unless it
  was cancelled or settled under it (`HandKnows`); the running runs in nobody's hand
  (`Orphans`) are no more than the crashes so far. `LetsGo` is the step that makes an orphan.
* `SessionInv` behind `SessionKeepsFollowUps`: what a worker received is addressed to the
  run it holds, and what was applied live is part of the context of whoever answers.

**Synchronous ingress.** `SyncSteps` says that a step is one of the ledger's own, to which
its step lemmas apply, or an unclaimed start of the turn of an ingress message, whose effect
on the tables is `StartEffects`: it starts an active run and touches nothing else. So all
parts of the ledger's invariant survive (`SyncInv`). Two guarantees do not: the exclusion of
runtimes, which `sync_runtime` refutes, and "a stopped message is never answered", since a
late start overwrites the stop (section 5). `RequestsAloneShareARuntime`,
`ClaimedCancelsAreFinal` and `SyncKeepsThePromise` say how far each still goes; the last is
the refinement of `Turns` with that one step (`StopIsForgotten`) added to it.

**The components beside the runs** share one pattern: neither the record in the store nor
what one host does determines what happened; the invariant says for each host that what it
holds agrees with the record, and that no two hosts hold the same. A frame lemma then
reduces a host's step to that host (`Moves`, `DelegateMoves`, `PassMoves`, ...), and the
proof has one lemma per action.

* `OutboxInv`: an envelope reaches the platform only by the courier that wrote it, and only
  ids not in use are written; recoveries and retries turn the status back, never the fact.
* `TaskInv`: a lapsed lease leaves two workers with one task, of which the holder named in
  the record alone can complete it.
* `ApprovalInv`: an approval is claimed once, and what its status says of the write is true
  of the claimant's position; the refinement of `OneTimeGrant` follows from it.
* `WorkflowInv`: on an acyclic graph, each live run of a cancelled execution is named by its
  node or held by a coordinator that will stop it.
* `RoutineInv`: a scheduler that read a run as over read the truth, which stays true. The
  numbers of consecutive executions take a greatest one (`GreatestNumber`). The types need
  an invariant of their own (`RoutineShape`): that a notice is only written on where one was
  made, and a status only copied from a run that exists, depends on what each scheduler
  collected in its pass.
* `Counted`, for the types of `Workflows`: crashes and retries are counted together and a
  retry raises the number of retried items by one at most, so the bound holds for any graph.
* `WrapupInv`: a claimed job's entries and the cursor bound what its claimant may cover.
* `RefreshInv`, `EnrichInv`: a validator belongs to the revision its job ended with; a fetch
  under way is known by its revision and the text that revision had.
* `LarkInv`: a scan that nobody stopped stands for all that was posted in its window.
* `ImportInv`: every claimant's copy of the cursor has only archived windows behind it.
* `FilesInv`: holders of the lock and removals together number at most one more than the
  locks judged stale; with one removal the file is read and replaced by one writer.
* `CodexShape /\ SteerAgrees /\ TurnsAgree`: at most one steer request is anywhere between
  executor and provider, its answer is about it, and compaction turns stay apart from the
  turns the run is told of.

**Documents in order** (`StorageProofs`). Sorted and filtered arrays are functions that
put each element at the number of elements before it (`Enumerations`), so they can be
reasoned about without induction over data: `InOrderIs` says that such a function is the
sorted enumeration of its set, from `SortedBijection` and the cardinality theorems of the
library; `AscendingIs` and `PickedIs` specialise it to numbers and to `filter`.

* `SqliteInv`: the tables hold a document (`IsDocument`); no data version a process knows
  is ahead of its own; a cache that SQLite's version calls current is what the tables hold,
  unless a transaction of its own process has changed it (`CacheReflects`); and what the one
  open transaction has written is what one operation makes of the tables (`Pending`). The
  meta row and the rows of a read may be of two commits, but then its version is old and
  nothing trusts it. Only `Commit` changes the stored document, and `ChangesAreWritten`,
  with `RoundTrip` for the rows' ordinals, makes it the step of `AtomicDocument`.
* `MemoryInv`: revisions are of versions written so far, lines know the version that wrote
  them, an expiry entry names a line with its own hash and no line has two, and a pending
  replacement or merge names a version. `Revises` reduces the steps that write a version
  to one form. `ReconciledIs` is the lemma behind `ExpiryFollowsItsLine`: an entry alone
  with its hash goes to the line alone with it, and `WithExpiryIs` adds that a new
  expiry touches the entries of its own lines only (`SameElsewhere`).

**Compositions.** A step of `Deliveries` or `Background` is a step of the component in focus
and leaves the others' variables alone, so a behaviour is one of every component and its
theorems apply. That is what lets the proofs above be about one component each and still be
about the specifications TLC explores.

### Only model-checked

* The nine liveness properties: fairness and `ENABLED` are out of the prover's reach.
* What the violation runs show: a counterexample is found, not proved.

## 5. Met while modelling

Divergences and narrow windows seen in the code that have no violated run of their own,
often because a property had to be stated with an exception for them.

* *Final lease check.* The check and `sendMessage` are two steps, so "a final lease check
  prevents an old worker from publishing after takeover" (src/README.md:364) has a window.
* *Transcript of a retry.* `loadThreadTranscript` leaves out follow-ups applied live to the
  run itself, so a second attempt without a provider session does not know them (hence the
  hypothesis of `SessionKeepsFollowUps`).
* *Synchronous start.* `markAgentRunRunning` overwrites a cancellation requested since the
  run was read, so a stopped message is worked on and may be answered; `SyncKeepsThePromise` is
  stated with that exception, and needs no other.
* *Card Stop.* One that races the run's completion cancels the follow-ups addressed to it
  although it answers that the run had already finished; one that cancels a queued run
  whose follow-ups wait behind an earlier run schedules nothing, and those wait until some
  later run of the thread ends. `NobodyIsForgotten` excepts that Stop, and no other call
  needs an exception.
* *Runtime of a continuation.* It is created without `runtimeScope`, so with
  `OPENTAG_EXECUTOR_SESSION_SCOPE=thread` it gets the default `project`, another provider
  session than its target's.
* *Catch clause.* It tells a lost lease from an ordinary failure by the abort reason, which
  the monitor sets at its next poll, so it can settle a run another worker owns.
* *Failed last update.* When the final progress edit throws, an answered run is settled as
  failed.
* *Cancellation before a release.* Shutdown releases a claimed run only if it is still
  `running`; a cancellation that arrived meanwhile stays requested until a recovery calls
  the run stale.
* *Aborted tool calls.* An approved write listens for the abort of its run from
  `tool-broker/src/index.ts` 2914 on and does not look whether it has happened already, so a
  run aborted while the claim was being stored does not stop the write. It is still made once.
* *Routine incidents.* Executions are reconciled newest first, and a failure counts the
  failures before it that are reconciled already (`file-routine-store.ts` 213). When two
  executions fail between two ticks, a threshold of one alerts twice and a threshold of two
  not at all; src/README.md:371-374: "Failure incidents alert once".
* *Workflow claims.* `markNodeFailed` and `markNodeQueued` (`file-workflow-store.ts` 1139
  and 1124) name neither claim nor attempt, and `workflow-coordinator.ts` 225 calls the first
  when creating the run failed: with two retries a late refusal fails the node of a newer attempt,
  whose run a cancellation then misses (src/README.md:378 and 966-969). The proof of
  `CancellationReachesRuns` found it; the property is stated for nodes not retried.
* *Wrapup windows.* The summary is recorded with the entries of one read of the transcript,
  its analysis saw those of a later one (`memory-wrapup.ts` 318), so an entry the second left
  out is covered and purged unread (src/README.md:499). The proof of `NothingIsSkipped`
  found it. A claim that was taken over can also move the cursor back.
* *Analysis of imports.* It reads the transcript up to its newest entry
  (`lark-history-import.ts` 532); once a live message was analysed, windows archived later
  lie behind that cursor (src/README.md:1494). The thread's cursor is abstract in
  `HistoryImports`.
* *Lock files.* Age and owner of a lock are read before it is removed by name. The first
  removal always meets the lock that was judged; a second waiter that judged the same lock
  can remove its successor's (src/README.md:285). `WrittenStays` is stated for one removal.
* *Memory expiry.* After a forget an expiry may move to an identical line of another note;
  forgetting and restoring a line loses its expiry; replacing removes only the matching
  lines, so continuation lines attach to the note before (src/README.md:463-470).

## 6. Not modelled

* `setAgentRunSteeringMode`, timeline events, retention and pruning of the ledger.
* When run recoveries happen. A process recovers when it starts, and only runs older than the
  stale limit; a run younger than that at the restart stays `running` until the next start
  or an operator's call. A liveness statement about crashes needs that timing.
* Claims of several runs in one pass, which wait without a heartbeat.
* What a continuation inherits besides its thread and message; an operator's follow-up has
  a fixed executor kind.
* Routing and access of an ingress, one step in `LarkIngress`; verification of signatures.
* Editing of workflows and their trigger routes; calendars and old executions of routines.
* The Claude and CLI executors, which pass one prompt to a process and wait; the content of
  a run (policy, memory retrieval, prompts, tools other than approved writes).
* Search aliases, legacy import, ranking and retrieval of the memory store.
* Parsing of SQLite rows and retries of a locked database.
* Thread configuration, pairing, access, credentials, admin UI, cards, metrics, deployment.

## 7. Plan

Every safety property that a run checks is proved; what is open is more of the system. Of
what section 6 lists, when runs are recovered comes first, since a liveness statement about
crashes of workers needs it; then the editing of workflows and their trigger routes, and
thread configuration with pairing and access.
