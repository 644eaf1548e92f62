# Verification of Simulate

TLA+ models of Simulate's stateful services (the investigation subsystem,
experiments, background runs, the support workflow and agent, the libraries and
reviews), the configurations that model-check them with TLC, and theorems about
them that TLAPS checks.

Paths are relative to the repository's root; `investigation/`, `agent_runner/`
and the like are packages of `src/app/domain/`.

## The system

Simulate compiles evidence of a support agent's failures into bundles, replays
them in disposable environments, compares configurations, and lets an
investigating agent work on a failure inside a cloud sandbox. Its parts:

| Part | State it keeps | Operations | What makes it hard |
| --- | --- | --- | --- |
| Investigation control plane (`investigation/`, `api/investigations_router.py`, `db.py`) | the record with its status and heartbeat, events, summary, messages; one transaction per request | start, record_events, sweep_stale, chat, inbox, event stream | overlapping transactions, decisions on a status read earlier, a commit that follows the response, redelivery |
| Sandbox bridge (`agent_runner/bridge.py`, `gateway.py`, `prime_rpc.py`) | event buffer, attempt flags, run flags, inbox cursor; Prime Agent's process and pipes | run, flush_events, handle_stdout_line, handle_tool, watchdog, wind-down | six loops on one event loop, two-part completion, abort and recovery, retries, lost answers, exceptions |
| Cloud runner (`runner/`) | sandbox handles | create, status, terminate | sandboxes that die or outlive their record |
| Experiment operator and lifecycle (`experiment/`) | experiment record, events, iteration outcomes, result; two advisory locks | create, start, cancel, replay, verified_result | admission, cancellation, deadlines, a restart between two commits, a lock whose connection is gone |
| Simulation runner, execution registry (`simulation/`, `execution/`) | event transcript, subscriber queues, background tasks, a provisioned environment | run_bundle, start_run, events | full queues, late subscribers, clean-up after success |
| Suite comparison (`suite/runner.py`, `comparison/`) | the counts of a cohort | run_suite_comparison, compare_runs | what is missing or aborted must not count as a pass |
| Support workflow (`workflow/`, `support/`) | checkpoints on a connection of their own, orders and tickets in the request's session | start, inspect, confirm, reject | a confirmation taken twice, by two requests or after expiry; a checkpoint that outruns the commit |
| Support agent (`agent/`, `adapters/pydantic_ai_agent.py`) | what a turn remembers, orders as its transaction sees them | one turn with its tools | a model that calls tools in any order and on any order, stale reads |
| Case, suite and evidence libraries (`regression/`, `suite/`, `evidence/`) | immutable versions | save, import, list, get | two saves that compute the same next version, answers before the commit |
| Failure review (`failures/`) | proposals, reviews | propose, review, require_confirmed | two reviewers of one group, a consumer between two reads |
| Persona simulator (`user_simulator/`) | one conversation | run | turn limits, plug-in hooks |
| Bundle, evidence, world and reference compilers; comparison, audit, retrieval | none | pure functions | data, not control |
| Process, CLI, adapters, telemetry, configuration | none of their own | wiring and I/O | the startup sweep only |

How they interact: the API starts an investigation, which launches a sandbox
through the cloud runner. In it the bridge starts the World Gateway, then Prime
Agent, and talks to the control plane by HTTP only: it posts batches of events
and polls the inbox. The control plane derives the record's status from the
events. Experiments, simulations and suites share the bundles and the database,
not the investigations' state.

What makes each part correct:

- *Control plane*: a completed record has evidence; what was acknowledged is
  kept; events arrive in order and without a gap; a settled record stays as it
  is; every investigation is settled in the end.
- *Bridge*: success is only reported for a delivered summary and a fresh end;
  failure is visible; a mutation is never replayed; an aborted run completes
  nothing; run() returns.
- *Experiments*: a result exists exactly for completed experiments and covers
  every planned iteration; events are contiguous; no iteration runs twice; a
  terminal experiment does not change; one model call at a time.
- *Simulation and execution*: the stream a client sees is a subsequence, in
  order, of the transcript; every background task is settled; an environment is
  destroyed whatever happens.
- *Comparison*: a recommended candidate regresses nowhere and lacks no evidence.
- *Workflow and agent*: a refund needs a confirmation of the right actor before
  expiry and happens at most once; what a checkpoint or a response says of it is true.
- *Libraries*: versions are contiguous and immutable; a reported save was made.
- *Failure review*: an accepted review is the stored one, and final.

`PROJECT.json` lists every component with its status, and under `hazards` each
place where these properties could go wrong.

## Modules

| Module | Models |
| --- | --- |
| `InvestigationControlPlane` | handlers, starter and sweep of the control plane as database transactions |
| `EventDelivery` | the abstract promise: ordered delivery without a gap, discard after delivery |
| `InvestigationIngest` | the control plane fed by flush_events, with retries and abandoned handlers; implements `EventDelivery` |
| `SandboxBridge` | `SandboxBridge.run` with its loops, and Prime Agent as its environment |
| `InvestigationRun` | bridge and control plane composed over HTTP |
| `InvestigationStream` | the event stream of an investigation: a client's cursor against commits |
| `InvestigationChat` | messages to the investigating agent: the inbox cursor against commits and attempts |
| `ExperimentLifecycle` | the abstract promise of an experiment's record |
| `ExperimentOperator` | start requests, the operator lock, incremental persistence, cancellation, reconciliation; implements `ExperimentLifecycle` |
| `CaseLibrary` | case, suite and import saves over immutable versions |
| `FailureReview` | proposals, reviews and the consumer of a confirmed group |
| `SupportWorkflow` | the checkpointed graph and the requests that resume it |
| `SupportAgent` | agent turns and their tools |
| `SimulationRun` | a background run, its environment, its collector and its streams |
| `SuiteComparison` | compare_runs, the cohort's counts and the recommendation |
| `*_proofs` | the theorems about `InvestigationIngest` (and its refinement of `EventDelivery`), `SandboxBridge` and `InvestigationRun` (both in `InvestigationRun_proofs`, with the refinement of `EventDelivery`), `InvestigationStream` and `InvestigationChat` (`InvestigationReaders_proofs`), `ExperimentOperator`, `CaseLibrary` and `FailureReview` (`Libraries_proofs`), `SupportWorkflow`, `SupportAgent`, `SimulationRun` and `SuiteComparison` (`Simulation_proofs`) |
| `MC*` | instances for TLC |

### InvestigationControlPlane

One transaction per handler, in `txn`. Its `stage` is the statement it stands
at, `batch` the events it was sent, `ins`, `sum`, `row` and `target` what it has
flushed and not committed: inserted events, the summary, the record's row, the
status. The committed side is `status`, `events`, `summary` and `silent` (the
last committed heartbeat is older than the cutoff). Isolation is READ
COMMITTED, as PostgreSQL runs by default: a statement sees what is committed
when it starts and waits for a row or unique key another transaction has
touched (`RowFree`, `KeysFree`, `SummaryFree`).

`AcceptOpen`, `AcceptClosing` and `IgnoreTerminal` are the branches of
`record_events` on the status its first SELECT read; `PromoteToRunning`,
`InsertEvents`, `ProjectBatch` and `UpdateRecord` are its further statements;
`Verdict` is the status a batch leads to. `Commit` is the teardown of
`get_session`, which runs after the response has left: FastAPI is pinned to a
version (`uv.lock`) whose dependencies with yield exit after the response.
`CommitFails` is that teardown raising. `AbortRequest` is a handler that raises
or whose process dies before it answers.

An event is its place in the order of the sequence numbers: the gaps that the
bridge leaves in them (a filtered line has drawn one too) carry no meaning. Its
type is in `log`. Tokens, payloads, errors and timestamps are left out; `ignored`
and `lost` are history variables.

### InvestigationIngest and EventDelivery

The bridge's end of the POSTs, reduced to flush_events: `acked` events have been
evicted, at most one POST is awaited (the flush lock), its window starts at the
first event still buffered. `FlushFails` covers an error status, a connection
error, the 10-second timeout and a cancellation; the handler of the POST goes on
regardless. Events come in any order the bridge can record them in at all: first
`investigation_started` or the error of a gateway that did not start, and one
summary at most.

`EventDelivery` promises that events are delivered in the order they were
recorded, without a gap, and discarded only once delivered. `delivered` is
refined by `Kept`: committed, about to be committed by a handler that answered,
ignored by a terminal record, or lost with a failing commit.

### SandboxBridge

The bridge is one asyncio loop; what runs between two awaits is one action.
`phase` is the await `run` stands at: the gateway's start, the flush of
`investigation_started` (boot), spawn, the race of an attempt, wind-down, the
backoff before a retry, the flush after a completed attempt (persist), closing,
the last flush (cleanup), exited. `attempt` holds what `run` resets for each
attempt, `total` what lasts. Prime Agent is the environment: it reads `stdin`
and writes `stdout` at its own pace, and may die at any moment. An `agent_end`
written because of an abort is told apart in the model (`aborted_end`) and not
in the code, which is why the bridge needs a scope for it.

Deadlines are abstracted to the order in which they pass: `CutoffPasses`,
`WatchdogFires` (the cutoff or a tool that is too old), `RecoveryExpires`, the
end of the grace periods in `WindDownEnds`. `LoopRaises` is an exception of a
loop: a line beyond the reader's limit, or a write to a closed pipe by the
watchdog; `run` then leaves through its except clause and the loops it started
are left running (`orphans`).

The log keeps `investigation_started` and the events the control plane decides
on. Others (messages, tools, warnings, heartbeats) take a place in the buffer
only, so a batch may hold fewer of the modelled events than `batch_size`.

### InvestigationRun

`SandboxBridge` extended with an instance of `InvestigationControlPlane`: the
bridge's `log` is the control plane's, posting is `Receive`, and either side may
drop the connection. `SandboxDies` is the end of the sandbox's lifetime. It
implements `EventDelivery` as well, where `InvestigationIngest` has no life of the
bridge: here events are recorded while a POST is out, and wind-down or the death of
the sandbox abandons a POST whose handler goes on.
`Reliable` and `GraceSuffices` name the assumptions of the liveness run.

### InvestigationStream

The handlers of `InvestigationControlPlane` reduced to what a reader can tell:
`writer` holds the events a handler has inserted and whether it ends the record.
`ProjectBatch` shows why two of them overlap: a handler whose batch has neither a
heartbeat nor a verdict ends without an UPDATE of the record, so it does not wait
for its row and may commit before a handler of earlier events. `viewer` is a
client together with its stream: `ReadEvents`, `CheckStatus` and `ReadTrailing`
are the three statements of `event_generator`'s loop, each with a snapshot of its
own; `Leave` and `Open` are a connection that ends anywhere in a page and the
reconnect with `Last-Event-ID`. `overtaken` names the events committed behind a
cursor: the code never sends those.

### InvestigationChat

`sender` is a `POST /messages` request: it checks the status, draws an id with its
INSERT and commits after its answer. `cursor` belongs to the bridge, `poller`,
`polled` and the state of stdin to the attempt. `PollAnswered` moves the cursor
and only then are the messages written (`RelayMessage`); `RelayRaises`,
`AttemptEnds` and a closing stdin drop what was polled. `RunRaises` is run()'s
except clause, which leaves the poller running. `unwritten` and `passedOver` name
what is never written: dropped with an attempt, or committed behind the cursor.

### ExperimentOperator and ExperimentLifecycle

A `worker` is one `start` request; `pc` is the transaction or the await it stands
at, `seq` and `pos` the next sequence number and iteration of
`_execute_incrementally`. A transaction on one record is one action, at its
commit; `DbMayFail` lets any of them fail, or succeed without an answer. The
admission reads the running experiments under an advisory transaction lock
(`AdmissionRead`) and updates afterwards (`AdmissionUpdate`); the operator lock
(`lock`) belongs to a connection of its own, which may be lost while its worker
goes on (`DropLock`, `dropped`); `Abandon` is a process that dies, `Reconcile`
what the next holder does to the experiment it left. A `canceller` reads in one
transaction and updates in another. `ExperimentLifecycle` promises that a record
starts once, one at a time, that its log grows only while it runs, and that its
result appears with its completion; it is refined by the status, the size of the
log and the result rows.

### CaseLibrary

`rows` are the committed versions, a `saver` one request: read the latest version,
compute the next, insert, commit after the answer. `Conflict` is the two unique
keys (version, content); an insert that conflicts with an uncommitted row waits
for its transaction. Imports take an advisory lock before they look. A suite's
content is the set of case versions it names.

### FailureReview

`standing` and `review` are the rows of a proposal; a `reviewer` locks the
proposal's row, writes the review with the new status, and commits after its
answer. The `consumer` is `require_confirmed` with its two reads.

### SupportWorkflow

`checkpoint` is the latest checkpoint of the graph, written after every node by a
connection of its own; `order`, `refunds` and `tickets` are committed with the
session of the `request`, after its answer, and `orderLock` is the row lock of an
uncommitted refund. The per-service lock of `workflow/service.py:198` serialises
nothing, since `api/workflow_router.py` builds a service per request, and has no
place in the model. Each node of the graph is an action on the request's own
`view` of the state, with its bounded attempts.

### SupportAgent

`turn` is the request with the service's memory (`pending`, `confirmedIds`,
`lastOrder`, ...), `book` the committed orders. The session's identity map holds its
rows weakly and `get_order` drops the one it returns, so that every look at an order is
a SELECT (`Fetched`). A refund is two statements, the read that starts it
(`ConfirmRefund`, `ReadAfterAnswer`) and the conditional UPDATE (`RefundRow`,
`ConfirmAfterAnswer`), with `asked` the order between them. The model is external: it
calls any tool of its intent on any order, and answers with any draft. `ModelAnswers`
and `ConfirmAfterAnswer` are the response's assembly and the refund owed after it.

### SimulationRun

`task` is the await at which `run_bundle` stands; `environment` the session of the
provisioner; `transcript` the collector's events by kind. `EvaluatorsFail` is kept
apart from `FinalStateFails`: what the metrics, the evaluators or the verdict raise is not
wrapped as the environment's error. `Offer` is a bounded
queue that loses its oldest element. `client` is a stream of
`GET /runs/{id}/events`, which may start late, lag or leave.

### SuiteComparison

A run is reduced to what the decision tells apart. `CompareRuns` is the order of
the classification's clauses, `Counted` the cohort's counters, `Recommendation`
their outcome. The history `mirrored` counts the same cases with the two sides
exchanged.

### MCServices and MCServicesLive

Components that share no state are checked by one instance each: the variable
`subject` chooses a component, the others stay as they are initially. A behaviour
of the instance is a behaviour of one component, hence nothing is checked about
combinations and nothing needs to be.

## Runs

| Run | Checks | Result |
| --- | --- | --- |
| `ingest` | types, `CompletedHasEvidence`, `AckedIsKept`, `SettledIsFinal`, and `DeliversInOrder` (refinement of `EventDelivery`) | hold |
| `bridge` | types, `SuccessIsDelivered`, `FailureIsVisible`, `NoReplayAfterMutation`, `AbortedEndIsIgnored` | hold without a budget, prompts and late calls |
| `bridge_live` | `Terminates` with a budget, prompts and late calls (what the exit codes stand for is proved for these too) | hold |
| `run` | types, `CompletedRunEnded`, `SuccessWasSettled`, `RunDeliversInOrder` (refinement of `EventDelivery`) | hold over an unreliable network, overlapping and dying handlers, restarts, dying sandboxes, failing commits |
| `run_settles` | `EveryRunSettles`, `SettlesForGood` | hold under its assumptions |
| `services` | the safety properties of `ExperimentOperator` (with the refinement of `ExperimentLifecycle`), `CaseLibrary`, `FailureReview`, `SupportAgent`, `SuiteComparison`, `InvestigationStream`, `InvestigationChat` | hold with failing transactions, dying workers and dropped locks |
| `services_live` | `RefundedOnce`, `RefundWasConfirmed`, `CheckpointTellsTheEffect`, `RequestsReturn` of `SupportWorkflow`; `StreamFollowsTranscript`, `SettledRunIsCleanedUp`, `StreamsEnd` of `SimulationRun`; `StartsReturn` of `ExperimentOperator` | hold |
| `run_overlap` | `SuccessIsSettled` with two handlers | violated |
| `bridge_abort` | `AbortedEndIsIgnored` with a run budget | violated |
| `bridge_replay` | `NoReplayAfterMutation` with late calls | violated |
| `run_success` | `SuccessIsCompleted` | violated |
| `run_failure` | `FailureIsSettled` | violated |

The violated ones state what a document or comment of the repository says;
`findings` in `PROJECT.json` quotes it and tells the counterexample. In short:

- A terminal status can be overwritten by a transaction that read the record
  while it was open: the handler of a POST that timed out reopens the record that the
  repetition has completed, after the bridge has returned 0. `SuccessWasSettled` says
  what is left of `SuccessIsSettled`: the record was settled, and nothing but such a
  handler reopens it.
- The scope that hides an aborted run's `agent_end` is closed by that run's own
  `agent_start` when it was still unread at the abort.
- The retry decision is taken before the backoff; a gateway call that arrives
  during it is replayed.
- A record is failed when the end of the run arrives before the summary, while
  the bridge reports success.
- A redelivered summary is refused for good, and the error event behind it.

What else the models show about the code, without a run of its own:

- An event stream skips events for good when a later batch commits before an
  earlier one (`overtaken`), although `stream_investigation_events` says that it
  replays "any events newer than Last-Event-ID"; and a client that opens a stream
  of a finished investigation gets two pages, 100 events, and then a closed
  stream. `StreamIsComplete` says that nothing else is missing.
- A message can be passed over by the inbox cursor, and one that was polled is
  dropped if its attempt ends before it is written. `MessagesAreRelayedOnce` says
  that nothing else is lost and nothing is written twice.
- A case or suite saver that lost a race, or that saves a content that is stored
  as an older version, is answered "updated" with the latest version, which is not
  what it sent.
- `cancel()` does not translate the error of an update that finds the experiment
  admitted meanwhile (500 instead of 409).
- A workflow's checkpoint outlives the commit of what it tells, for good
  (`lostEffects`); a rejection may be answered while a concurrent confirmation
  refunds, if both were recorded.
- An agent turn is answered as blocked or failed although its refund was
  committed, when the model looks at another order after confirming one, or fails.
- A stream and its transcript diverge once a queue overflows, although the
  collector's docstring says they never do; a run whose `run.completed` was
  streamed is reported as failed when the destruction of its environment fails.
- The docstring of `suite/runner.py` lets any regression keep the baseline; one
  that comes with a missing measurement makes the result inconclusive.

### Bounds

- `Requests` has two elements in `ingest`: the handler of an abandoned POST and
  the one of its repetition. A third would be a second abandoned one; the locks
  treat all alike, and the theorems hold for any number. They are symmetric:
  nothing tells one from another.
- `MaxEvents` is 3 in `ingest`: the first event, the summary and the end are
  what a completion takes, with any split into batches.
- `MaxInputs` bounds what Prime, the gateway's callers and the users may do: 4
  suffices for an attempt with a mutation, a summary, a tool that hangs and an end.
- `MaxRetries` is 1 in the bridge's runs, so that both a retry and exhausted
  retries occur; it is 0 in the composed runs, whose subject is the HTTP between the
  two. That a second attempt ends like the first is what `bridge_live` checks, and
  `RunsSettle` holds for any number of retries. `BatchSize` is 1 or 2, so that a log
  exceeds it.
- `run_settles` uses two requests: the handler of a POST that has been answered may
  still have to commit while the next one is at work, and waits for its row and keys.
  `RunsSettle` holds for any number.
- `run` and `run_overlap` use two requests as well: the handler of an abandoned POST
  works on beside that of the repetition. The constraint `OneFault` (in `MCRun`) bounds
  the state space: besides lost answers, handlers that are cut off and a Prime Agent
  that dies, one kind of fault is at work at a time: handlers that overlap; a heartbeat
  that is late, for a restart's sweep to find; a tool that hangs and is aborted; an
  exception that leaves the bridge's loops behind; a killed sandbox or a commit that
  failed. The last three last, handlers overlap and heartbeats are late for a while, so
  that others may follow. Simultaneous ones, and more handlers, are covered by the
  theorems, which know neither bound.
- `run_success` and `run_failure` need one request for their counterexamples.
- `services`: two experiments and two workers are the least at which admission and
  the operator lock exclude somebody, `Planned` is 1 there and 2 in
  `services_live`, where an iteration follows another; experiments and workers are
  symmetric. Two savers, two reviewers, two senders and two writers are a race
  each. `Bundles` and `Cases` allow a suite of two versions of a case. `StreamPage`
  is 2 and `MaxSeq` 4, so that a stream needs several pages and the trailing one
  may be full; `InboxPage` is 2 and `MaxMessages` 3, `MaxAttempts` 2, so that a
  page is full and an attempt follows another. `SuiteSize` is 2: a case that passes and one that does not.
- `services_live`: three requests are one that starts the workflow and two that
  resume it, always the same one starting (`FirstStarts`), since requests are
  alike; at most one of the things a refund needs is missing (`Missing`), since
  the first that is missed ends the way. `SubscriberBuffer` is 2 and the
  transcript longer, so that a queue overflows.

Deadlock checking is off throughout: a run ends, and so does the system.

### Fairness

`Fairness` of `SandboxBridge` is weak fairness of what the event loop runs when
it is ready: the steps of `run` (its waits are bounded by timeouts), the posting
and the end of a forced flush (httpx ends a POST after 10 seconds), and the
passing of the deadlines. Nothing is assumed of Prime Agent, of the periodic
flusher's luck or of the gateway's callers. `RunFairness` adds handlers that run
to their commit and the starter. The sweep owes nothing: it runs once, at the
start of a process. `run_settles` also assumes `Reliable` (a POST is answered, the
sandbox lives as long as its run, start()'s commit precedes the first call, the
control plane does not restart, so that no sweep helps or hinders) and
`GraceSuffices` (no POST is cancelled by wind-down): the run `run_failure` shows
what happens without the last one.

`services_live` assumes that a request, a worker, the background task and a
stream go on once they can: their awaits are database statements, model calls and
queue reads that end. `WorkflowFairness` does not make clients ask again, nor the
deadline pass. `AdmissionRead` has strong fairness, because workers wait there for
an advisory lock that PostgreSQL grants in turn. The simulation's fairness is
restricted to its own `subject`, as its task could start in any behaviour.

## Proofs

For every value of the constants:

Investigations:

- `TypeCorrect`: the invariant is `TypeInv`, which adds that what a transaction
  holds lies within the log; `Commit` would otherwise take `events` out of its type.
- `CompletionIsBacked` (`CompletedHasEvidence`): a verdict travels from
  `ProjectBatch` to `Commit` in `target`. `EvidenceInv` says that a transaction
  with the verdict completed still holds its batch, a summary and an end, and
  that what it does not hold itself is committed already; nothing takes that back.
- `SettlementIsFinal` (`SettledIsFinal`): `NoTargetInv` says that a transaction
  that has not decided carries no status.
- `AcknowledgedIsKept` (`AckedIsKept`): `KeptInv` follows the batch of the awaited
  POST, from the handler that holds it to the answer that vouches for it.
- `PostingDeliversInOrder` (`DeliversInOrder`): initial states map to initial
  states and every step to a step of `EventDelivery` or a stutter. `WindowInv`
  says that a handler's batch is an interval that starts no later than the first
  event still buffered; with `KeptInv` everything before it is kept, so that
  keeping the batch is delivering a prefix.
- `BridgeTypeCorrect`, `SuccessMeansDelivered`, `FailureMeansError`: from
  `BridgeInv`, which ties the flags of the attempt and of the run to the recorded
  events and the exit code to the phase and to `acked`.
- `MutationIsNotReplayed`: for `~LateCalls`, because the gateway then has no
  caller between the end of an attempt and the next; `bridge_replay` shows the
  assumption is needed.
- `AbortedRunIsIgnored` (`AbortedEndIsIgnored`): for `~HasBudget` and `~Chat`, where
  only a tool that overruns is aborted. `AbortInv` follows the one abort of an attempt
  through the pipes: its tool was read as started in a run whose start was read before
  (`Scoped`), so that the reader knows the run to be the aborted one when its end
  arrives, and Prime writes the start of the run that the steer asks for only behind that
  end; between two attempts both pipes are empty. `bridge_abort` shows what a budget
  that is spent before the start of the run is read does instead.

Bridge and control plane together (`InvestigationRun_proofs`):

- `RunTypeCorrect` and `CompletionIsEarned` (`CompletedRunEnded`) come from `RunInv`:
  `BridgeInv`, the summary flag that outlives the attempts (`SummaryRemembered`), and
  for every open transaction (`Sound`) and the record (`RecordInv`) that what they hold
  are events of the log and that the verdict completed stands for a summary and an
  end in it. Handlers may overlap: the log only grows.
- `RunDelivers` (`RunDeliversInOrder`): every step of the composition is a step of
  `EventDelivery` or a stutter, for any number of overlapping handlers. `HoldInv` says
  what a handler holds: nothing before its INSERT, and while it decides each event of its
  batch that is not committed yet; the batch is an interval of the log that starts no
  later than the first event still buffered. `DeliveryInv` says
  what the bridge knows of the POST it awaits: its handler's batch is the window, and
  once the answer is `ok` each event of it is kept. Hence keeping is delivering a
  prefix, and evicting discards only what is kept, whether a POST is answered, refused
  or abandoned.
- `SuccessSettles` (`SuccessWasSettled`) adds `SettleInv`, for any number of overlapping
  handlers: a handler that is about to commit an end carries a verdict with it, unless an
  end is kept already (`RequestOK`), a closing record keeps an end, and a completed record
  keeps one (`CompletionEnds`). Each step then settles the record with the first end it
  keeps, and reopens it only through a handler that was overtaken (`Settles`). At rest
  nothing is still held, so that the end exit code 0 stands for (`ExitsAreRecorded`) is
  stored or ignored (`SuccessIsKept`). The corollary `SuccessStaysSettled` draws the
  conclusion: `run_overlap` shows the only way in which `SuccessIsSettled` fails.
- `RunsSettle` (`SettlesForGood`) is the safety half of `EveryRunSettles`. Its
  assumptions are those of `run_settles` about the network, the grace period, handlers
  and commits. Then no handler raises (`AnsweredInv`, `OneSummary`), so that whoever
  has not answered yet answers the POST the bridge awaits (`TheOneAtWork`); the others
  have but their commit to do. A commit could still reopen a record, if the handler
  read it pending. `FirstInv` excludes this: the first event leaves alone, before
  there is another (`BootInv`), so that the handlers that promote hold that event
  only, and it ends a run only if it is the error of a bridge that never started,
  after which there is none (`PromoteMeansOpen`). `StaysInv` says that once the record
  is settled, or a commit that will settle it is due, no handler is left that reopens
  it; `Deciding`, that each end a handler holds has been decided upon; `OrderedInv`,
  that what is committed lies before what is being worked on, whence a summary is
  never refused as a second one.

Readers (`InvestigationReaders_proofs`): both cursors read the first elements of what
lies beyond them, and move to the last of these. `FirstIsClosed` says that such a page
leaves out nothing before its last element, `FirstIsAll` that it is everything where it
is not full. Both rest on `Least` and `Greatest`, which need the well-foundedness of
strict inclusion on finite sets, as induction is beyond the prover.

- `StreamsAreComplete` (`StreamIsComplete`): the stream's property is inductive with
  `WritersInv`: what ended the investigation is committed with the status, so that a
  stream in its trailing read can find it.
- `MessagesReachPrimeOnce` (`MessagesAreRelayedOnce`): `InboxInv` keeps the ids that
  are drawn and not committed apart from the inbox, `RelayInv` keeps what was written
  before what is about to be, and an idle poller without messages.

Experiments (`ExperimentOperator_proofs`): the shared `CoreInv` consists of
`TypeOK`, finite event sets (`FiniteInv`), that an executing worker alone writes
the log of its experiment and has counted it right (`HoldInv`), that nothing has
happened to an experiment that was not admitted (`FreshInv`), and that no
iteration was called twice (`CalledOnceInv`).

- `TerminalStays` (`TerminalIsImmutable`): every writer's condition on owner and
  status fails on a terminal record.
- `CallsAreExclusive` (`OneCallAtATime`): `LockInv` adds that a worker past the
  lock holds it, or is in `dropped`.
- `ResultsAreEarned`, `LogsAreLegal`: the log of a record is a prefix of what its
  plan makes of the outcomes, with the cardinality that follows; `PlanBound` says that
  no more iterations are started than are planned.
- `OperatorFollowsLifecycle` (`FollowsLifecycle`): `AdmissionInv` says that one worker
  at a time stands between the two halves of an admission, while nothing runs;
  with it each step is a step of `ExperimentLifecycle` or a stutter.

Libraries and failure review (`Libraries_proofs`):

- `RowsInv` says that an item's versions are 1 .. n with distinct contents and that
  suites name stored ones, `SaversInv` where each saver stands towards its item's history
  and that two that have inserted do not conflict; the lemma `LatestIsLast` evaluates
  `Latest`, `HistoryGrows` follows it over a commit. They give `HistoriesAreComplete`,
  `ReportedSavesAreStored`, `SuitesAreGrounded`.
- `VerdictInv` ties a written review to its status, `RowInv` says that who holds a
  proposal's row saw it open, `ConsumerInv` that what a consumer has read stays true; from
  them `AcceptedReviewIsStored`, `ConsumerSeesOneReview`, `ReviewsAreFinal`.

Workflow (`SupportWorkflow_proofs`): `OrderInv` ties the order's row, its lock and
the refunds made, whence `OrderIsRefundedOnce`; `GraphInv` says what a view's or
checkpoint's next node and status tell of how the graph came there: `execute_refund` only
after a recorded confirmation, `reject` only after a recorded rejection, the end of a
refund or an escalation only with its effect made, held by an open transaction or lost
with one. Hence `RefundIsConfirmed` and `CheckpointIsTrue`
(`CheckpointTellsTheEffect`): a single recorded decision that was a rejection excludes a
confirmation, and without one nothing is refunded.

Agent (`SupportAgent_proofs`): `StageInv`, `RowInv` and `ReasonInv` tie the turn's
memory to the stage of its transaction, to the rows it has read and written, and
to the reason it answers with; `AgentTellsTheRefund` follows.

Simulation and comparison (`Simulation_proofs`):

- `RunsAreCleanedUp` (`SettledRunIsCleanedUp`): `ProgressInv` ties the await at which the
  task stands to the environment, the first error and the transcript; `SettledInv` says
  what the handle may be once it is done, and which events end the transcript then.
- `StreamsFollowTheTranscript` (`StreamFollowsTranscript`): `StreamInv` says that a queue
  holds consecutive numbers that end with the transcript's last one, within its bound and
  behind what its client has had. The lemmas about `Offer` say what an overflow keeps.
- `RecommendationsAreEarned` (`RecommendationIsEarned`): `CountsInv` ties each counter to
  what was seen, `CohortInv` says that a case found better one way round is found worse
  the other way round, so that the mirrored counters contradict a second recommendation.

Types: each module's type invariant holds in every reachable state (`TypeCorrect`,
`BridgeTypeCorrect`, `RunTypeCorrect`, `StreamTypes`, `ChatTypes`, `OperatorTypes`,
`LibraryTypes`, `ReviewTypes`, `WorkflowTypes`, `AgentTypes`, `SimulationTypes`,
`ComparisonTypes`).

The assumptions are those the modules name (`TxnAssumption`,
`MaxEventsAssumption`, `BridgeAssumption`, `OperatorAssumption`, and so on): types
of the constants, and that the starter, the sweep and the requests differ;
`MutationIsNotReplayed`, `AbortedRunIsIgnored` and `RunsSettle` state
further ones about the instance. Bounds enter as arbitrary numbers.

Only model-checked: liveness (`Terminates`, `EveryRunSettles`, `RequestsReturn`,
`StreamsEnd`, `StartsReturn`; fairness and ENABLED are beyond the prover). The types of
the components of `services` and `services_live` are proved only.

## Not modelled

- The sandbox as a process of its own: its launch before the record's commit, its
  termination and the handle kept by one request. What can be said of it fails by
  design (a sandbox without a record, a record without a sandbox), and nothing in
  the code repairs it.
- The modes of messages, heartbeats as events, stderr, and the environment of
  Prime Agent.
- The persona simulator, the simulation back ends, the compilers of evidence,
  bundles, worlds and references, scoring, audit, retrieval, CLI and telemetry:
  sequential code over documents and numbers, whose correctness is in data a model
  would leave out. `PROJECT.json` gives the reason of each.
- Of the experiment service: replay, verified_result and get_record, which read.
- Clocks are not numbers: deadlines are the order in which they pass. Two
  processes of the control plane differ from one only in that each sweeps at its
  start, and one sweep is modelled that may happen at any time and any number of
  times.

The repository's largest part by lines is not the program: some 52,000 of its
97,000 lines are a vendored skill for graph extraction (`.agents/skills/graphify`),
and most of the rest is transformation of documents, schemas, adapters and
scripts. The models therefore cover a small share of the lines, and nearly all
of the code that has state which more than one actor touches.

## Plan

What is left, in this order:

1. `SuccessIsSettled`, once `transition_status` checks the
   committed status and not the one its session has read.
2. The launch and termination of sandboxes, once the code gives a sandbox an owner
   beyond the request that launched it.
3. The modes of messages against `is_run_active`.
