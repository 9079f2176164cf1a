# TLA+ models of Smart Form

Smart Form fills web forms on behalf of a user. A *control plane* (`apps/server`, NestJS) takes tasks from a
*web console* (`apps/web`, Vue) and dispatches them over a WebSocket to a *Desktop agent* (`apps/desktop`,
Electron), which drives one Chromium page: with a declarative Playwright program (`packages/playwright-runner`)
or with a Python *Browser Use sidecar* (`apps/browser-use-sidecar`). The user can pause a task, take the page
over, hand it back, approve or reject a submission, and cancel.

This directory holds TLA+ modules for the parts of that system whose correctness depends on the order in which
things happen, TLC configurations that check them on small instances, and TLAPS proofs of the results that
matter most for every value of the constants. Everything is translated from the source; a definition's lines
are in `PROJECT.json` under `map`. `src/` stands for the root of the repository.

Contents

1. [Inventory](#1-inventory): the system's parts, state, operations, hazards
2. [Modules](#2-modules): what models what, and how
3. [Runs](#3-runs): what is checked, with which bounds, and what it shows
4. [Fairness](#4-fairness)
5. [Proofs](#5-proofs)
6. [Where code and documents disagree](#6-where-code-and-documents-disagree)
7. [Not modelled](#7-not-modelled)
8. [Plan](#8-plan)
9. [Running it](#9-running-it)

## 1. Inventory

| Component | State | Operations | Talks to | Hard because |
| --- | --- | --- | --- | --- |
| **Browser control lease** `agent/control-lease.ts` | the one lease on the page (task, holder, token, epoch) | acquire, transferToHuman, resumeAfterHuman, release | called by the orchestrator | the lease is not consulted by the executors: that the holder is the one who acts has to follow from everybody else's behaviour |
| **Task orchestrator** `agent/task-orchestrator.ts` | the serial `commandQueue`, `active`, `expectedHumanProbe`, receipts/checkpoints in SQLite | every command; emitEvent; finishExecution | lease, executors, database, frame stream, realtime client | one queue serves commands *and* the events and outcomes its own commands wait for; many awaits that can fail between two assignments; crash between saves; late outcomes of old tasks |
| **Runner executor adapter** `agent/runner-executor.ts` | `execution`, `paused`, `cancelled`, `idle`, approvals map, resume waiters | execute (fresh/resume), pause, drain, cancel, approve/reject | orchestrator, runner | one adapter for all runs, flags outlive runs; cancellation does not wait |
| **Declarative runner** `packages/playwright-runner` | position in the program | step loop, approval gate, domain policy | adapter's hooks, page | acts on the page between two hooks, and may throw anywhere |
| **Realtime client** `agent/realtime-client.ts` | socket, `authenticated`, retry timer | connect, flushOutbox, sendReport, acknowledge | hub, database, orchestrator | live sends and the flush use the same rows; a socket may be replaced during an await |
| **Local database** `main/db.ts` | tables in memory (sql.js), one file, a chain of writes | enqueue/list/acknowledge outbox, receipts, checkpoints, task rows | orchestrator, client | memory runs ahead of the file |
| **Sidecar executor, client, worker** `agent/sidecar-*.ts`, `worker.py` | pending requests; the worker's active execution, its pause state | execute, pause, resume, cancel over JSON lines | orchestrator, Python process | three actors, timeouts, answers without an id, an agent that does not exist yet |
| **Chromium, frames** `agent/chromium.ts`, `stream.ts` | page handle; task whose frames are streamed | probe, bringToFront, start, stop | orchestrator | a screenshot under way when the stream stops |
| **Artifact loader, trust** `agent/artifact-loader.ts`, `artifact-trust.ts`, `packages/capability-sdk` | the trusted keys | load, verify hash, signature and environment, compare the manifest with the task | control plane | what arrives long after it was chosen, from a server whose key may have changed |
| **Realtime hub, session registry** `server/src/realtime` | sessions by device, web subscriptions, listeners | handshake, register, replace, dispatch, publish, acknowledge | client, coordinator, web | the token is verified in an await; old and new sockets overlap |
| **Task coordinator, controller, repositories** `server/src/tasks` | task table | register, plan and dispatch, control commands, listener of reports | hub, registry, database | nobody waits for `updateState`; the acknowledgement does not depend on it |
| **Artifact store and service** `server/src/artifacts` | content and metadata files, the signing key | publish, put, get, writeImmutable | file system | two files, no transaction, concurrent publishers, crashes |
| **Resource registry** `server/src/resources` | versions, active version per resource | publish, activate, rollback, match | two repositories | check-then-act across awaits; two-step publication |
| **Authentication** `server/src/auth` | keys | verify | hub, controllers | takes time |
| **Web console** `apps/web` | task followed, shown state, preview and its armed button, socket | create and control tasks, show reports and frames | control plane | requests and reports cross each other; sender, relay and receiver name the type of a message each for itself |
| **Contracts** `packages/contracts` | - | schemas of messages and states | all | - |
| **Unused code** `agent/fsm`, `agent/control.ts`, `submission.ts`, `export.ts`, `server/src/capabilities`, `packages/policy-engine`, `data-profile`, `explore-core`, `apps/validator-worker` | - | - | reached by no running program | - |

What makes each of them correct, and where this is shown:

* **Lease, orchestrator, adapter and runner together**: the human has the page only between two automation
  actions; no run acts without its task holding the lease; a lease, a frame stream or a run never outlives its
  task unnoticed; nothing is submitted without an approval; what the database says of the active task is true; a
  terminal checkpoint and a final receipt stay; every command is answered and every task that nobody holds up
  ends. Modelled and checked; everything but the last is proved.
* **Realtime client, database, hub, registry, coordinator together**: no report that reached the Desktop's file is
  forgotten; reports of one life of the Desktop are first seen in their order; a report finds its task; the
  outbox drains; the device is reachable in the end. Modelled and checked; the first three are proved.
* **Orchestrator, Sidecar adapter, client and worker together**: an agent acts only for the task that holds the
  lease; a task succeeds only by its own agent's result; the page is handed over between two of the agent's steps;
  every request and every execution ends, whatever dies or is dropped. Modelled and checked; the first three are proved.
* **Artifact store, resource registry, coordinator and loader together**: a version whose publication was
  acknowledged is what its publisher wrote and never changes; what is active can be run; what was chosen for a
  task can be run when the Desktop gets to it, and runs only within its task. Modelled, checked and proved.
* **Web console**: the decision about a submission is offered when a task waits for it. Modelled; it is not.

The list of hazards, each at its line with the properties that cover it or the reason why none does, is in
`PROJECT.json` under `hazards`.

## 2. Modules

```
ControlLease   Runner                       DeviceSession
     |            |                               |
Orchestrator      |                           ReportLink ------- ReportLinkProofs
  |  \            /                               |                     |
  |  RunnerDesktop -- refines --> BrowserControl  MCReportLink   ReportOrderProofs
  |    |
  |  MCRunnerDesktop
  |
  |    SidecarWorker - SidecarClient             ArtifactStore -- refines --> WriteOnce
  \            /                                      |  ResourceRegistry  CapabilityBundle
  SidecarDesktop                                      \         |           /
       |                                               CapabilitySupply -- CapabilitySupplyProofs
  MCSidecarDesktop                                            |
                                    WebConsole         MCCapabilitySupply
                                        |
                                   MCWebConsole

Orchestrator - OrchestratorProofs
                 |            \
   RunnerDesktopProofs    SidecarDesktopProofs - SidecarHandoverProofs - SidecarCustodyProofs
  (with RunnerDesktop)    (with SidecarDesktop)
```

### The Desktop agent

**`ControlLease`** is `BrowserControlAuthority`. Its methods are operators (`Acquire`, `TransferToHuman`,
`ResumeAfterHuman`, `Release`) that the orchestrator's actions conjoin, because the code calls them without
awaiting anything in between. Token and epoch are created together, so the epoch stands for both.

**`Orchestrator`** is `DesktopTaskOrchestrator`. `commandQueue` is the promise chain of the code as a sequence of
operations; `job` is the one operation under way, `job.pc` naming the await it is suspended in:

| `job.pc` | suspended in |
| --- | --- |
| `begin` | saving the receipt as `processing` (`processCommand`, :130) |
| `goto` | `page.goto` and the probe of `startTask` |
| `pausing` | `executor.pause()` of PAUSE_TASK or REQUEST_TAKEOVER |
| `cancelling` | `executor.cancel()`, the probe and the save of CANCEL_TASK |
| `accept`, `reject` | before the final receipt (after the body, or in the catch block) |

Awaits after which nothing can have changed for anybody else (a save of a row, for instance) are merged with
what precedes them. `receipts`, `checkpoints` and `records` survive `Restart`; everything else does not. An
`ActiveTask` object has an identity in the code (closures compare it with `this.active`); the model identifies
it by the epoch of the lease it was created with (`gen`). Operators named `...Fails`, `...Refused`, `...HalfDone`
are the throws between two state changes, each leaving what the code leaves.

**`Runner`** is the adapter with the loop it drives. `run.pc` names where the run's own asynchronous function is
suspended; the module's header lists the values. `idle`, `paused` and `cancelled` are the fields of the code and
belong to the adapter, not to a run. `run.handlers` are the `startExecution` calls that await the outcome: a
resumed run has two, and each enqueues an outcome.

**`RunnerDesktop`** composes the two as `main/index.ts` does and adds the environment: `Deliver` (any command, any
order, repeated), `Fault` (page, probe or artifact store), `Crash`. `Orchestrate` is one operation's step with
the executor's part of it, `Execution` a step of the run.

**`BrowserControl`** is the abstract specification: a page with an owner and at most one automation action
on it. `RunnerDesktop` refines it with `owner <- PageOwner`, `acting <- PageActing`, both computed from lease and run.

### The Sidecar

The executor of read tasks without a capability. **`SidecarWorker`** is the Python process: a main loop that serves
one line of `stdin` after another (`serving`, while it is suspended in an await of `_control` or `_cancel_active`)
and the coroutine of the one execution (`exec`, whose `pc` says whether it is connecting, between or inside two
steps of the agent, or stopping the browser). Browser Use itself is external: an agent that looks at its pause flag
before each step. **`SidecarClient`** is `SidecarProcessClient`: `process` (absent, starting, ready, broken), `pending`
(promises of `request`, some of them not sent because they await `start`), and how a line settles one of them: an
acknowledgement by its id, a result by its *task*, an error by nothing, since the worker does not copy the
request's id into it.

**`SidecarDesktop`** composes both with `Orchestrator` through `SidecarExecutorAdapter`: `call` is the adapter's
`taskId` and `execution` and where its `execute` is suspended, `control` the one pause or cancellation that the
serial queue awaits. A process that could not be spawned leaves a rejected `readyPromise` that nobody clears, so
`StartRejects` fails every later call of `start()`. `RequestTimesOut` is the 35 s timer. It only fires for requests that will not be answered;
`AnsweredTooLate` is the timer that was faster than a living worker, and counts as a fault. Other faults: the page's
target is gone, the process cannot be spawned, dies or is not ready after 20 s, a line of its output is not a message, a pause is not
obeyed within 30 s, `browser.stop()` raises. After an invalid line or a late answer the client has given up on a
worker that goes on (`abandoned`). `achieved` is a history: the tasks whose agent returned a result.

What the model shows besides its properties: a request the worker refuses holds the Desktop's queue for the whole
35 s; after one failing spawn every task for the Sidecar fails until the Desktop restarts; after `abandoned` the worker may drive the page without a lease (`AgentHasItsLease` excuses it); a worker whose
`browser.stop()` raised refuses every later execution; a pause given up after 30 s leaves the agent paused while the
checkpoint still says `RUNNING`.

### How a capability is supplied

**`ArtifactStore`** is `FileArtifactStore`: two files per version, each created under a name that must not exist yet,
and one `put` per publisher suspended between any two operations of the file system. **`WriteOnce`** is what it
promises: a map of versions that are written once. `StoreIsWriteOnce` is the refinement, with a version published when
its publisher is *told* so: before that, files may come and go. **`ResourceRegistry`** is `ResourceService` over the
database: rows, one active version per resource, and publications suspended between look-up, insertion and activation;
`Best` is `match` with its weights, in 1/10000. **`CapabilityBundle`** holds the checks on a bundle as operators:
`Publishable` (server, before it signs), `Verified` (hash, key, environment) and `FitsTask` (Desktop, before it runs).
A hash is the content it was made from and a signature the key it was made with. Left out of the checks: the tenant
(there is one) and the entrypoint of a manifest (always `program`).

**`CapabilitySupply`** composes them: publishers put and sign, whoever has a reference registers it, one user's task is
matched and dispatched, and the Desktop loads, verifies and runs. Server and Desktop may restart. `production` chooses,
as `loadConfig` and `AppModule` do, between a configured key with durable tables and a key made at every start with
tables in memory; `trusted` is what the Desktop learned when *it* last started (nothing, if the server did not answer).
The transport may deliver any bytes.

Seen in its behaviours: after a crash between the two files a version can neither be read nor published again;
a row that says `ACTIVE` is not active if the second query of its registration failed, and only `activate` helps;
in development, what is published after a restart of the server is rejected until the Desktop restarts, too, and what
was published before it is rejected from then on (the exception in `ChosenCanBeRun`). The coordinator allows a task its target's host only, so a capability whose
manifest names further hosts is matched, dispatched and rejected. Modes and hosts of a row are whatever its
registration claims; the server does not compare them with the manifest.

### The web console

**`WebConsole`** is `App.vue` with its panels and `control-plane.ts`: `view` holds the refs that decide what the user may
do (task followed, state, running, preview, armed button, frame), `posts` the HTTP requests under way, `inbox` the
messages on the socket, `timers` the running `setTimeout`s of the armed button. Of the Desktop there is only what it
reports (`Executes`, `Streams`), of the server the copies it makes for a registered session. `told` is a history of what
the console has been sent about its task. `HandledType` and `PublishedType` are the two names in the code: with the
second in place of the first, `DecisionIsOffered` was found to hold on a smaller instance (one task, one
message under way, one timer, no break; all of its 5,250,152 states).

Seen in its behaviours, types apart: a report that arrives before `createTask` resolves, or while the socket is
down, is lost, and nothing asks for it again; a rejected control command (a pause, say) shows the running task as
`FAILED`; stopping a task leaves its preview open; the last frame stays when the next task starts; a timer of an earlier
click disarms a later one; a stop during `createTask` sends no `CANCEL_TASK`.

### The report link

**`DeviceSession`** is the WebSocket between one Desktop and the control plane: numbered connections, each a pair
of FIFO streams. Both ends learn of a broken connection by themselves and in their own time (`AgentCloses`,
`ServerCloses`); what is under way towards an end that has closed is lost. `Verified` and `Refused` end the
await of `handleConnection` for the access token, in any order among connections and also after the socket has
closed. `peer` is the registry's session of the device.

**`ReportLink`** puts on it: `outbox` (the table in memory), `writes` (the chain of file writes of `persist`, each
with the image taken when it was called) and `disk` (the file); the orchestrator, reduced to when it makes a
report and when it may serve a command; `flushOutbox` on `server.hello`, live sends after the write, commands and
acknowledgements; the hub's handler with the coordinator's listener; the table `tasks` with `updates`, the
`updateState` calls nobody awaits, a bag because two may be the same; `Register`, `DispatchStart`,
`DispatchCancel`. `made` is a history of all reports; a report is its number there (`reportId` is a UUID).

Abstractions: only `TASK_EVENT` reports change the table, so only those are made; one event state and one outcome
state stand for all, because the listener copies whatever state it is given; one device, because sessions are
keyed by device and devices share nothing; planning a chat request is data. Messages that arrive at the Desktop
travel on its current socket only, because the code installs its handlers per socket and drops the old one.

## 3. Runs

| Run | Module | Instance | States | Checks |
| --- | --- | --- | --- | --- |
| `RunnerControl` | MCRunnerDesktop | one task of two steps, the second submits; one of each of the seven commands; one fault, one crash | 1.24 M | `TypeOK`, `HumanExclusive`, `CheckpointIsTrue`, `SubmitOnlyWhenApproved`, `ApprovalIsRecorded` |
| `RunnerTwoTasks` | MCRunnerDesktop | two tasks of two steps, the second submits; two starts, cancellation of the first (which may expire), takeover, resume and approval of the second; one duplicate delivery, one fault | 1.46 M | `LeaseIsActives`, `LiveRunHoldsLease`, `TerminalCheckpointStays`, `ReceiptsAreFinal`, `KeepsBrowserControl` |
| `RunnerLiveness` | MCRunnerDesktop | two tasks of two steps, no submission; pause, takeover, resume, cancel; one fault | 304 k | `QueueDrains`, `TasksEnd`, `CancelledRunStops` |
| `ReportDelivery` | MCReportLink | one task, two reports, one broken connection, one crash, one failed update | 1.62 M | `LinkTypeOK`, `FirstInOrder`, `ReportsFindTheirTask`, `RowsLeaveHandled` |
| `ReportReachable` | MCReportLink | one report, a cancellation, two broken connections (three sockets) | 369 k | `OutboxDrains`, `DeviceIsReachable` |
| `SidecarControl` | MCSidecarDesktop | two tasks, agents of two steps; any three of eight commands, at most one under way and none waiting when one arrives; one fault | 370 k | `TypeOK`, `AgentHasItsLease`, `SuccessIsEarned`, `HandoverAtRest`, `QueueDrains`, `ExecutionSettles` |
| `CapabilitySupply` | MCCapabilitySupply | three publishers of two versions, three registrations of one resource, one request; one fault, one restart of each program; production and development | 555 k | `TypeOK`, `PublishedStays`, `NothingHalfPublished`, `ActiveIsRunnable`, `ChosenCanBeRun`, `RunsWithinTheTask`, `RowsAreImmutable`, `StoreIsWriteOnce` |
| `TakeoverWedge` | MCRunnerDesktop | start, takeover, approval, cancel; a program whose first step submits | violated | `TakeoverIsServed` |
| `CancelInFlight` | MCRunnerDesktop | start, cancel | violated | `InputClosedBeforeCancelled` |
| `ReportReplay` | MCReportLink | two reports, one broken connection | violated | `DuplicatesChangeNothing` |
| `SidecarTakeover` | MCSidecarDesktop | start, takeover; no fault | violated | `HumanUndisturbed` |
| `WebApproval` | MCWebConsole | two tasks, one broken connection | violated | `DecisionIsOffered` |

What the properties say is written above each of them in its module. Deadlock is not checked in any run: a
Desktop without a task or a command simply waits, and the bounds end what the environment does.

### Bounds, and why they are enough

* `Steps = 2` gives a first step (entered by `execute` itself), a later one (entered by `beforeStep`) and a last one
  (after which the run settles instead of returning): the cases the adapter distinguishes. `SubmitSteps = {2}`
  makes the last step the submission; `TakeoverWedge` takes the first.
* One command of each type is enough for every pair of them to be in the queue in every order, at every await of
  one another. Two tasks are enough for "the other task": leases, outcomes and events compare only *the active
  one* with *not that one*. Two starts make late outcomes of the first meet the second.
* `MaxFaults = 1`, `MaxCrashes = 1`, `MaxRepeats = 1`: every await fails or is cut once, in every state. The fault-free
  conjunct of `CheckpointIsTrue` (a task said to run is not in the human's hands) is guarded by `faults = 0`, since
  `TakeoverHalfDone` breaks it.
* `MaxReports = 2` is the least number that can be out of order or replayed over one another; `MaxBreaks = 2` gives
  three sockets of one device, so that an old one can be verified or closed after each of its successors.
* `FlushLimit = 3` stands for `listOutbox(100)` and is *above* the number of reports. Beyond the limit neither
  `FirstInOrder` nor `OutboxDrains` is a promise of the code (hazards). `ReportsFirstInOrder` states the limit
  as its hypothesis; no other proof depends on it.

* `SidecarControl`: `MaxCommands = 3` of eight is enough to start a task and do two things to it, or to start two and
  do one; two tasks are the least for an answer to meet the wrong one. `MaxWaiting = 0` lets a command arrive
  only when no operation waits behind the one under way, which keeps the run small; executor outcomes and the next
  command still queue behind a pause or a cancellation that is being served.
  By hand: all eight commands without faults (9.6 M states), two faults, and `MaxWaiting = 1` with the
  liveness properties; nothing was found. `SidecarTakeover` has `MaxWaiting = 1`. Request ids and lease epochs
  are bounded by the commands.
* `CapabilitySupply`: two publishers of one version race for it, the third supplies another version of the same
  resource, so that activation, rollback and a request may meet; the registrations are one that claims more than its
  bundle allows, one that is not `ACTIVE` and two of the same version. One restart of each program gives the two keys
  that trust can confuse. The criteria are chosen so that a match and
  no match occur. With one resource there is never a choice between two matches: ranking is exercised by no property,
  and the theorems hold for any criteria.
* `WebApproval`: the counterexample needs one task and no break; the larger instance keeps the other steps reachable.

Every property of a passing run is paired in `PROJECT.json` (`mutants`) with a plausible bug of the code (a dropped
guard, a flag not reset, a swapped order), written in the modules above the definition it replaces and marked
`Mutant`, under which the same run finds the property violated.

## 4. Fairness

`RunnerDesktop!Fairness` is weak fairness of the orchestrator's steps and of the run's steps. Node's event loop runs
whatever promise reaction is runnable, and Playwright ends each call with a result or, after its timeout, with an
exception; in the model both ends are there. Nothing is assumed of deliveries, faults or crashes, and the choice
between success and failure is not fair: `TasksEnd` excuses a task that is paused, handed to the human or struck by
a fault, because nothing in the code obliges anybody to end those.

`ReportLink!Fairness` is weak fairness of: `Connect` (`scheduleReconnect` tries for ever), `AgentCloses` (the client
writes a heartbeat every 30 s, and TCP ends a socket whose bytes nobody acknowledges), `Verified` (token verification
ends), `AgentReceives` and `ServerReceives` of the Desktop's unbroken socket (TCP delivers), `Written` (a file write
ends). Not fair: `Register`, commands, events, breaks, crashes, faults; `ServerCloses`, because the hub sends no
heartbeats and may never notice a silent socket; and `UpdateState`, because the acknowledgement does not wait for it
and no liveness property speaks of it. `MaxBreaks` bounds breaks in the liveness run: that the connection stays up in
the end is the assumption under which anything can be promised. One gap is left: the heartbeat starts with
`server.hello`, and nothing times out while the client waits for it. A connection that vanishes without a trace in
that window, after TCP has acknowledged `client.hello`, is covered only by the assumption that a break is noticed
(hazard at `realtime-client.ts:120`).

`SidecarDesktop!Fairness` is weak fairness of the orchestrator's steps, of the worker (its loop reads what is there, and
an agent takes at most `max_steps`) and of the client (lines are read, and a timer ends every request that will not be
answered; a rejected `start()` rejects whoever awaits it). No fairness of deliveries and faults. `ExecutionSettles` excuses an agent that is paused.
`CapabilitySupply` and `WebConsole` state no fairness: their properties are safety.

In `RunnerDesktop`, `QueueDrains` and `TasksEnd` are checked on programs without a submission. With one, they are false: see
`TakeoverWedge`.

## 5. Proofs

Checked by TLAPS 1.4.5 (SMT, Zenon, PTL). Every safety invariant, action property and refinement that a passing run
checks is also a theorem, for all values of the constants; the liveness properties are not.

| Module | About |
| --- | --- |
| `OrchestratorProofs` | lemmas about the queue and the saved tables that both Desktops use |
| `RunnerDesktopProofs` | the Desktop with the declarative runner |
| `SidecarDesktopProofs` | the operators on sequences of the Sidecar's pipes, and its types |
| `SidecarHandoverProofs` | what is under way between the client and the worker; the handover |
| `SidecarCustodyProofs` | which task the lease, the execution and the agent belong to |
| `ReportLinkProofs`, `ReportOrderProofs` | the report link |
| `CapabilitySupplyProofs` | the store, the registry, the loader |

Each invariant was checked with TLC on an instance of a run before it was proved.

### The Desktop

Assumptions: `NoTaskAssumption`, `StepsAssumption`, `CommandsAssumption`, `BoundsAssumption`: null values are not
members, types of the constants. Any set of tasks and commands, any program, any number of repeats, faults,
crashes.

| Theorem | States |
| --- | --- |
| `TypeCorrect` | `Spec => []TypeOK` |
| `Invariance` | `Spec => []IInv` |
| `HumanIsAlone` | `Spec => []HumanExclusive` |
| `NoStrayLease` | `Spec => []LeaseIsActives` |
| `NoStrayRun` | `Spec => []LiveRunHoldsLease` |
| `WaitIsAnnounced` | `Spec => []ApprovalIsRecorded` |
| `ImplementsControl` | `Spec => KeepsBrowserControl` |
| `AnswersHold` | `Spec => []AnswersInv` |
| `AnswersAreFinal` | `Spec => ReceiptsAreFinal` |
| `CheckpointInvHolds` | `Spec => []CheckpointInv` |
| `CheckpointsAreTrue` | `Spec => []CheckpointIsTrue` |
| `EndedStaysEnded` | `Spec => TerminalCheckpointStays` |
| `DecisionsHold` | `Spec => []DecisionsInv` |
| `NoClickUnapproved` | `Spec => []SubmitOnlyWhenApproved` |

None of the safety properties is inductive. That the human is alone needs, at the moment of the transfer, that
`idle` tells the truth about where the run is, that the run is parked rather than about to enter a step, and that
it cannot be woken by anything but a resume or a cancellation; and the transfer happens in an operation that was
suspended, so what it left before the await must still be so after it. `IInv` therefore says, in named parts:

* `ServingInv`: what a suspended operation finds when it goes on. No other operation runs in between, so `active` is
  still the task addressed; a pausing one still has `paused` raised; a cancelling one has released the lease.
* `FlagsInv`: `idle` holds exactly outside a step; a parked run is paused and not cancelled; while the human
  holds the lease the adapter is paused and idle.
* `RunInv` with `LiveRunHoldsLease`: a run that is not cancelled is the active task's, which holds the lease.
* `GenInv`: no `ActiveTask` is created twice, so comparing identities tells executions apart.
* `QueueInv`: at most one event is queued, and it is the one the run waits for; an outcome in the queue is
  of a run that has ended.
* `LeaseIsActives`, `ApprovalIsRecorded`, `TypeOK`.

The proof has one lemma per part and one step per action. Refinement follows from `IInv` and one lemma that says
which action of `BrowserControl` each action maps to; a cancelled run's last action outliving its task is why
`BrowserControl` lets an action end after `GiveUp`.

Three more inductive invariants stand on `IInv`, each with a lemma that sorts the actions by what they do to the state
it speaks of (`JobSteps`, `CheckpointSteps`, `SubmissionSteps`), so that the many that do nothing to it are one case:

* `AnswersInv`: the command of a suspended operation was delivered and has no final receipt. `ReceiptsAreFinal` is about
  the steps of *any* operation, so it needs that the one under way is not about a command answered before; a duplicate
  of an answered command is not begun, and until the one begun is answered nobody else serves it.
* `CheckpointInv`: the checkpoint of the active task is not terminal and, if it says that the task is stopped, a flag
  keeps its run from the next step: `paused`, or `cancelled` after a cancellation that then fails has lowered `paused`.
  Without the flag `CheckpointIsTrue` is not inductive: a run that only happens to be between two steps would enter
  the next. `EndedStaysEnded` follows because only the active task's checkpoint is ever written, and that of a
  task that ended is written only by a start.
* `DecisionsInv`: a submission id is drawn once and decided at most once. `SubmissionsInv` keeps ids fresh until they
  are announced, so that no decision can be about one that is not; `Undecided` says that no decision was `Taken`
  about a submission that waits, `Unrejected` and `ClicksApproved` what that leaves for the one being clicked and
  for those that were. A decision counts as `Taken` from the step in which the executor is told of it, before its
  receipt says so, since the click may come in between.

### The report link

Assumption: `LinkAssumption`, the types of the constants. Any number of tasks, reports, sockets, crashes, failed
updates, any flush limit.

| Theorem | States |
| --- | --- |
| `ImagesKeepReports` | `Spec => []KeepInv` |
| `NoReportForgotten` | `Spec => RowsLeaveHandled` |
| `LinkTypesHold` | `Spec => []LinkTypeOK` |
| `EveryReportFindsItsTask` | `Spec => []ReportsFindTheirTask` |
| `ReportsFirstInOrder` | `Spec /\ [](Cardinality(outbox) <= FlushLimit) => []FirstInOrder` |
| `FewReportsInOrder` | `Spec => []FirstInOrder`, if `MaxReports <= FlushLimit` |

`RowsLeaveHandled` speaks of the file, which changes when an image taken long before is written; acknowledgements
may arrive, reports may be made and the process may crash in between. `KeepInv` says that whatever an image holds a
later image holds too unless it is handled (`Kept`), with the file as the oldest and the table in memory as the
latest, and that an acknowledgement on its way to the Desktop is of a handled report (`DownMsg`). A crash makes the
file the table; an acknowledgement removes a handled report from the latest image only.

`LinkInv` adds the types of both ends to it and `KnownInv`: every order under way, waiting or being executed, and every
report, names a task that has been saved. It is inductive because `register` saves the task before anything is sent.

`FirstInOrder` is proved from `OrderInv`, which follows a report from where it is made to where it is handled, always
comparing it with those made *before it in the same life* (`Before`):

* `Numbered`, `Ascending`: the reports of this life are kept or handled, and numbered in the order they are made, below
  the next number, so that `ORDER BY sequence` sorts them so;
* `TablesClosed`: memory, file and every image hold with a report all that were made before it and are not handled;
* `LastPending`: only the last report made can still be waiting for its image, because the orchestrator awaits
  `sendReport`;
* `KeptIsSent`: on the client's socket, once it is authenticated, every row of the table that is not waiting for its
  image is under way, or handled;
* `UpInOrder`: on *every* socket, also one given up, what was made before a report is ahead of it or handled;
* `HandledInOrder`: what was made before a handled report is handled.

A flush keeps them because it sends the whole table in order. This is the hypothesis of the theorem: with more rows
than the limit (100 in the code), the reports made during the flush overtake the rest, and the property is false. The
hypothesis is about the behaviour; `FewReportsInOrder` has the one about the constants that the run's instance meets.

### The Sidecar

Assumptions: `NoTaskAssumption`, `CommandsAssumption`, `AgentStepsAssumption` and `SidecarBoundsAssumption`, the types of
the constants; and `StartsAssumption`, that no two START_TASK commands name the same task: `planAndDispatch` draws a
new task id and a new command id for each (`task-coordinator.ts`), and nothing else sends one. Any set of tasks and
commands, agents of any length, any bounds, any number of faults; as in the model, a command is delivered once
and one process lives at a time.

| Theorem | States |
| --- | --- |
| `BooksHold` | `Spec => []Books` |
| `SidecarTypesHold` | `Spec => []TypeOK` |
| `HandoverIsAtRest` | `Spec => HandoverAtRest` |
| `CustodyHolds` | `Spec => []Custody` |
| `AgentKeepsItsLease` | `Spec => []AgentHasItsLease` |
| `EverySuccessIsEarned` | `Spec => []SuccessIsEarned` |

The client matches an acknowledgement by the id of its request, a result by its task, and an error by nothing. That
the right promise is settled is therefore a fact about everything that is under way at the same time, and the type
of a settled promise already depends on it. `Books` is the account of it:

* `JobInv`, `AskInv`: for what and for whom the operation under way waits, and that the one request it awaits is of the
  type it asked for, on whichever side of the pipe it is;
* `GenInv`, `OnceInv`, `TraceInv`: ActiveTasks are numbered by epoch; a command is queued once; nothing in the system,
  a late line included, is about a task that was not started;
* `WireInv`, `IdInv`: the pipes of a process that is not ready are empty, and requests are numbered in the order
  they are made, written and read, so that a line identifies its promise as long as both exist;
* `CallInv`, `ExecInv`, `TargetInv`, `AckInv`: a task is executed once. Before its request is made there is no sign of
  it; while the request waits to be read there is no execution, acknowledgement or result of it; the worker
  acknowledges it before it writes the result; when the result is written the execution is over;
* `RestInv`: while the client waits for a pause no later pause is on its way, and from when the acknowledgement is
  written the agent that was asked to pause is between two steps. This is `HandoverAtRest` one await before the handover.

`Custody` stands on `Books`. `CustodyInv` is its core: the task of the adapter's execution holds the lease until its
result is written. The lease is released by a cancellation and by an outcome, both of which the client was told of by
lines that may be late; so the other parts say what a line that has arrived proves about the worker:

* `AnswerInv`, `AsksInv`: an acknowledgement, and the request that the orchestrator awaits, name the adapter's task;
* `TurnInv`: a task that has no execution yet is neither handed over nor cancelled;
* `AcceptInv`: once anything shows that the worker has accepted the execution (it runs, it was acknowledged, paused or
  resumed), an agent that is no longer there has left its result;
* `OrderInv`: the acknowledgement of a cancellation follows the result, so releasing the lease after it is safe;
* `ResumeInv`: a resume is for the adapter's task, and only a worker that has written the result refuses it; otherwise
  a refused resume would end a task whose agent goes on;
* `KeptInv`: unless the client has given up on the worker (`abandoned`), what runs or waits to be read is what the
  adapter knows. With `CustodyInv` this is `AgentHasItsLease`;
* `EarnedInv`: success is told, queued and recorded for the task in `achieved` only, by identity of the ActiveTask.

`Books` and `Custody` were model-checked on the instance of `SidecarControl` and on a larger one
before they were proved; several parts were found by the counterexamples of earlier forms.

### The supply of capabilities

Assumptions: `StoreAssumption`, `RegistryAssumption`, `SupplyAssumption`: null values are not members, and the
types of the maps between publishers, versions, registrations and resources. Any number of each, any bundles, tasks
and criteria, any number of faults; each program restarts at most once, as the model says.

| Theorem | States |
| --- | --- |
| `TypesCorrect` | `Spec => []TypeOK` |
| `PublishedVersionsStay` | `Spec => []PublishedStays` |
| `StoreImplementsWriteOnce` | `Spec => StoreIsWriteOnce` |
| `NoHalfVersions` | `Spec => []NothingHalfPublished` |
| `RowsStay` | `Spec => RowsAreImmutable` |
| `ActiveRuns` | `Spec => []ActiveIsRunnable` |
| `ChosenRuns` | `Spec => []ChosenCanBeRun` |
| `RunsWithinItsTask` | `Spec => []RunsWithinTheTask` |

The store's argument is `HoldsContent`: as long as a `put` still counts on the content it linked (it writes the
reference, or cleans up, or is done), the content under that version's name is its own. So the publisher that cleans up
removes its own file, and one that is done is never robbed. The refinement maps a version to its two files when some
publisher of it is done, and `AcknowledgedStep` shows that this happens once. `NoHalfVersions` needs in addition what a
lone file means for the one publisher that is between the two (`CleanFiles`), until a failure between them (`unclean`).
`ActiveRuns` needs four facts: what is put was validated, in production there is one key, a row refers to an
artifact whose publication was acknowledged (`RowsRefer`, which must hold of registrations under way too), and what the
store keeps. `ChosenRuns` carries them from the match to the moment the Desktop asks: what was chosen had a row
(`ChosenRefers`), rows may go and other versions become active, but an acknowledged artifact stays (`DoneStays`); and
`KeysAgree` says which keys the Desktop trusts, with the pinned key in production and with any key before the server
has restarted. `RunsVerified` relates what runs to the checks made in the step that started it.

### Only model-checked

The liveness properties: `QueueDrains` (of both Desktops), `TasksEnd`, `CancelledRunStops`, `OutboxDrains`,
`DeviceIsReachable`, `ExecutionSettles`. Liveness under fairness, which rests on `ENABLED`, is beyond the installed
provers. The properties of the violated runs are what documents say and the code does not do. `WebConsole` has
no theorem: its one property is violated.

## 6. Where code and documents disagree

Shown by a run (`findings` in `PROJECT.json`):

* **`TakeoverWedge`**. REQUEST_TAKEOVER awaits `executor.pause()` inside the serial queue. If the runner is inside a
  submit step, `idle` is false until the step ends; the step waits for the approval event or a decision, and both
  are behind the takeover in the queue. The takeover and every later command, CANCEL_TASK included, wait for ever.
  `docs/详细设计文档.md:426` lets the user take over while an approval is awaited.
* **`CancelInFlight`**. `cancel()` raises a flag and returns; lease, checkpoint and report follow while the step in
  flight, an approved click included, still acts. `docs/详细设计文档.md:1472` asks for the input to be closed first.
* **`ReportReplay`**. A report whose acknowledgement was lost is flushed again and its state is written again, over
  that of a later report: a task goes from `SUCCEEDED` back to `WAITING_APPROVAL_SUBMIT` and stays there.
  `docs/详细设计文档.md:1179` says that duplicate events are handled idempotently.

* **`SidecarTakeover`**. A pause that arrives while the worker is still connecting is acknowledged: `_control` calls
  `agent.pause()` only if there is an agent, and then waits for `idle`, which is set. The human gets the page, and the
  agent that is created afterwards takes its steps on it. `docs/详细设计文档.md:29` says that automation must
  be fully paused while a human has taken over.
* **`WebApproval`**. The console handles messages of type `agent.report` (`App.vue:124`), the registry publishes
  `task.report` (`session-registry.ts:86`): no report is ever shown, no preview opens, and a write task waits for an
  approval that nobody can give. `docs/开发运行文档和部署文档.md:10` names the approval as the console's task.

Seen while modelling, in the modules' behaviours, but without a run of their own:

* A paused task cannot be continued. `PAUSE_TASK` saves `PAUSED` and keeps the automation lease, and
  RESUME_AFTER_HUMAN is refused unless the human holds it (`CanResume`); only takeover-and-resume or a cancellation
  gets out. `docs/详细设计文档.md:187` lists pausing and continuing.
* After a crash the same START_TASK, redelivered while its receipt says `processing`, runs the program again from
  its first step, whatever the checkpoint says.
* The flag `paused` outlives the run it was raised for when the pause meets a last step; the next task's run then
  parks at its first step (it is why `TasksEnd` excuses `paused`).
* `reportSequence` restarts at 0 with the process, so rows of two lives of a Desktop are flushed in an order that is
  not one of time; with more than 100 rows the rest waits for the next reconnection while new reports overtake it.
* The state of a report is lost if its update fails, since it was acknowledged; a task saved while its device is
  offline stays `WAITING_DEVICE`; `CANCELLED` is written whatever the Desktop does, and a report made before may
  overwrite it.
* The outcome `waiting-human` of `finishExecution` (lines 311 to 325) is returned by neither executor.
* What the sections on the Sidecar, the supply and the console say under "seen" or "what the model shows besides".

## 7. Not modelled

* What a step does to a page, selectors, the user's data, prompts, pixels: data that no property here tells apart.
  Their failures are (`Fault`, `Throw`). Press and wait steps of a program differ from clicks in nothing that is checked.
* Cryptography and token contents; parsing by Zod; HTTP and its error formats; dependency injection; Electron
  windows and IPC; sizes of messages.
* Several tenants, devices and web sessions: they share only tables that are keyed by them.
* Of the Sidecar: `shutdown` (the Desktop is about to end), `ping` (nobody sends it), and the exit event of a process
  that comes after its successor was started.
* Task rows and `task_events` of the local database beyond `records`: nothing in the agent reads them back.
* What the console only displays: step list, counters, tabs, the chat's text, acknowledgements of commands.
* The unused code listed in the inventory.

## 8. Plan

What is left, in this order.

1. **An abstract delivery specification for `ReportLink`**: a log that the Desktop appends to and the control plane
   receives at least once, and for the first time in order, which loses only what had not reached the file when the
   Desktop crashed. `KeepInv` and `OrderInv` hold what its refinement needs; the limit of a flush has to become a
   guard of it.
2. **`SidecarDesktop` against `BrowserControl`**: `SidecarTakeover` shows that it does not refine it. With a worker
   that remembers the pause it should; a weaker abstraction, in which the human's page may be
   acted on by an agent that was not there yet, would say exactly what is missing.
3. **The console after its type is mended**: `DecisionIsOffered` as a property of a passing run, and what a
   reconnection would have to fetch for the view to be the task's state.

## 9. Running it

```
tlc -config RunnerControl.cfg MCRunnerDesktop.tla      # likewise for the other runs in PROJECT.json
tlapm RunnerDesktopProofs.tla
tlapm ReportLinkProofs.tla
tlapm ReportOrderProofs.tla
tlapm CapabilitySupplyProofs.tla
tlapm OrchestratorProofs.tla
tlapm SidecarDesktopProofs.tla
tlapm SidecarHandoverProofs.tla
tlapm SidecarCustodyProofs.tla
```

The largest run takes about half a minute to a minute on two workers. `tlapm` checks the module it is given and trusts
the theorems of the modules that one extends, so each is run by itself; the longest (the two of the Sidecar and the
Desktop's) take some minutes each from nothing.
