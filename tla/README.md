# Verification of the orchestrator

TLA+ models of the orchestrator, the TLC configurations that check them on small
instances, and TLAPS proofs for every value of the constants.  Paths are
relative to the repository (`src/...` here is the repository's root).
`PROJECT.json` maps every definition to the lines it stands for, and lists the
hazards of the code, each at its line and with the properties that would catch
it.

## 1. The system

The orchestrator runs a *workflow* (a tree of steps) against instruments.  A
*template* holds the workflow, the tool instances with their setups, the
backgrounds and the charts.  Each instrument is driven by a *Worker*: a separate
process that speaks JSON lines on stdout and HTTP on a local port.  The executor
runs on one thread; every Worker has reader threads; every *background* (a
Worker that streams samples while the workflow goes on) has a dispatcher thread.
The desktop application adds the operator: a configuration that is edited, runs
that are started, stop requests, manual operations, and views of what a run
leaves behind.

| Component | State | Operations | What makes it hard | What makes it correct | Module |
|---|---|---|---|---|---|
| Job tracker (`common_job.rs`) | jobs by job_id, owner of each worker_job_id, evidence of conflicts | register, accepted, observe_terminal, mark_unconfirmed | two names for a job, on three channels, in any order, repeatedly | names tied one to one; no silent contradiction; a stored terminal is final | JobTracker |
| `run_async_job` (`worker.rs`) | the call, its deadline, the tracker | send, reply, poll of stdout and of HTTP status, give up | replies lost, late or refused, terminals of earlier jobs, a Worker that fails or was replaced at its port | sent once; Ok is true; doubt is recorded; always returns | AsyncJob |
| Worker session (`worker.rs`, `process.rs`) | process, pipe, channel, evidence, pending events | recv, wait for a stream, shutdown, force, Drop | reader thread against owner, full channel, exit against unread lines | no holes in the events; clean shutdown means complete evidence; nothing left behind; shutdown ends | WorkerSession |
| Backgrounds (`background.rs`) | dispatchers, command channels, Datasets, failure signal | Worker ON/OFF, Capture ON/OFF, events, stop, cleanup | dispatcher against manager timeouts, self-ending sources, late errors, verdicts given long after the capture | open Datasets have one owner; no hidden gap; lossless only with evidence; failures are signalled; cleanup leaves nothing | Background |
| Background figures (`background.rs`) | software timer, running statistics, Live Monitor | tick, sample, monitor, chart query | a trigger in flight while the source stops, a query in batches while samples arrive | one trigger at a time, on time; figures are those of the samples; a chart shows what there is | Feed |
| Run (`run.rs`) | sessions, setup, power outputs, causes of failure | start, setup, execute, clean up, Safe-Off, shut down, return | any stage may fail or be stopped, each needs the same cleanup | Safe-Off is attempted for all and reported; no step on a half set up bench; an honest result | RunLifecycle |
| Executor (`executor.rs`, `data_context.rs`) | call stack, variables, step outputs, staged and committed rows | run_steps, run_branch, run_loop, scope | stop, loop stop and failure arrive inside nested blocks; scoping by hand in one flat map | references resolve; data is lexical and current; rows are whole; verdicts are honest; stops are prompt | Executor, Expressions |
| Template and workflow (`template.rs`, `workflow.rs`, `*_setup.rs`) | the document | validate, load, save, count measurements | one pass with hand-kept scopes; fields left out of the file; counts over loops and branches | accepts exactly the well-formed documents; what is saved is loaded; what is accepted can run | Workflow, Template, Arguments |
| Adapters (`adapters/*.rs`) | none that outlives a call | argument checks, commands, replies | checks in the template, in preparation and at run time must agree; a report read register by register | no request past the instrument's limits; a result answers its own request | SerialTool, PowersTool, ScopesTool, MetersTool, Bench |
| Preparation (`run_preparation.rs`, `live_preflight.rs`, `config.rs`) | configuration file, edits under way, the run being prepared | edit, preflight, draft, confirm, probe, launch | the configuration changes between what the operator confirmed and the launch | Workers get what was confirmed and probed, no instrument twice | Preparation |
| Protocol (`manifest*.rs`, `common_v3.rs`, `worker_http.rs`) | what a caller knows of a Worker | parse manifest, adopt Ready, read lines and HTTP snapshots | answers as old as their requests; another run's Worker at the same port | only the Worker's own word is believed | Manifest, Replies |
| Desktop back end (`main.rs` of src-tauri, `stream_csv.rs`) | the active operation, the stored run, progress batches, CSV verdict | run, stop, loop stop, manual operation, export, clear | requests that come late or for something that has ended; a timer against the final flush | one owner of the Workers; a stop reaches its run; verdicts agree; exports are stable | Desktop, Bench |
| Stored runs and panes (`stored_run.rs`, `VirtualizedOutputTable.tsx`, `ResultChart.tsx`) | rows, executions, messages; the window a pane holds | append, query, statistics, scroll, load | answers that come late, rows that arrive above the window, a run that is replaced | figures are exact; what is shown is what there is | Results |
| Exports, command line, layout, editing | | formatting and I/O | | | section 7 |

The components interact by calls (run -> executor -> background manager ->
session -> tracker), by channels (reader thread -> session; manager ->
dispatcher and back; back end -> front end), by the invocations of the front
end, and by three shared flags: `WorkflowStop` (set by the operator, never
withdrawn), `RunFailure` (first cause wins, set by dispatchers and CSV writers)
and the loop stop slot.

## 2. The modules

| Module | Models | Notes |
|---|---|---|
| `JobTracker` | `JobTracker` of `common_job.rs` | open specification: any message that passes the code's envelope checks, at any time |
| `AsyncJob` | `WorkerSession::run_async_job` over `JobTracker` | extends `JobTracker`: its actions are conjuncts of the call's steps; adds HTTP, stdout, and a Worker whose valid messages are true |
| `JobPromise` | nothing: the abstract specification of a job | `AsyncJob` implements it (`KeepsPromise`, an `INSTANCE ... WITH`) |
| `WorkerSession` | process, reader thread, channel and owner of one session | the process is external and may do anything |
| `Background` | manager, dispatchers, Datasets, failure signal | all four kinds of source; the order of a source's pipe is `WorkerSession`'s subject |
| `RunLifecycle` | `run_workflow_internal` | executor and sessions reduced to how they end |
| `Executor` | `Execution` and what the validator makes visible | the recursion is an explicit stack of frames |
| `Desktop` | run commands, slot, batcher and its timer, CSV verdict, exports, buttons | the workflow is a loop in a loop, reduced to its events and to where it asks for stops |
| `Workflow` | the document as it is written, and the validator's one pass | also states, without the pass, which documents are well formed |
| `Arguments`, `Expressions` | JSON values, bindings; inputs and their values at run time | pure |
| `SerialTool`, `PowersTool`, `ScopesTool`, `MetersTool` | the adapters' checks, commands and launch arguments, the setups | pure |
| `Template` | acceptance, the saved file | over the modules above |
| `Manifest` | manifest, Ready, what must match | pure |
| `Preparation` | configuration, edits, preflights, draft, launch | four threads at the desk |
| `Bench` | a run's tool actions and manual operations on instruments that act on their own | extends `Preparation` and `Expressions` |
| `Replies` | lines and HTTP snapshots of a Worker, and who may answer | beside `Manifest` |
| `Results` | the stored run and two panes of the front end | |
| `Feed` | timer, statistics, Live Monitor, chart queries of a background | beside `Results` |
| `Workbench` | the composition of the modules from `Workflow` to `Feed` | in scenes, see section 3 |
| `MC*` | constants for TLC | |
| `AsyncJobProofs`, `WorkerSessionProofs`, `BackgroundProofs`, `RunLifecycleProofs`, `ExecutorProofs`, `DesktopProofs`, `WorkflowProofs`, `WorkbenchProofs` | theorems | section 5; `AsyncJobProofs` begins with those about `JobTracker`, whose invariant it builds on; `WorkbenchProofs` extends `WorkflowProofs`, the lemmas about the validator, the template file, bindings and setups |

How state and actions correspond to the code:

* **JobTracker.** `jobs` and `worker_ids` are the two maps.  A terminal is a
  record of the fields `common_equivalent` compares, so equivalence is equality.
  `observe_terminal` first classifies the message (`Observation`), then does what
  the code's branch does.  Messages refused with `Err` change nothing and are
  stuttering.  `claims` and `reports` are histories of what the Worker said.
* **AsyncJob.** `call.pc` is the position in `run_async_job`: request, reply,
  the check at the head of the loop, stdout, status.  `record_event` feeds a
  terminal to the tracker before `run_async_job` sees it and does so again: the
  two are separate steps here (`RecvFinished`, `Finished2`).  A message of the
  Worker that passes the checks of `common_v3.rs` is true, but any may fail them:
  an invalid acceptance or rejection (`ReplyRefused`, which returns `BadReply`), a
  line `record_event` refuses (`RecvEnd`), a status the client refuses
  (`StatusRefused`); once the Worker is gone that of another run may answer at its
  port (`AnotherAnswers`).
* **WorkerSession.** A line is its position in `written`; its kind is what
  `record_event` makes of it.  `owner.pc` goes through waiting for the stream,
  running, the phases of `shutdown_events`, the join of the reader, and the
  classification of the exit.
* **Background.** `manager` is the workflow's thread, `dispatcher[b]` a thread,
  `inbox[b]` the channel of capacity one.  A command's `heard` flag says whether
  its reply channel still has a receiver.  `stop()` is a phase (`stopping`) in
  which events of the Worker's tail are handled one by one, ended by
  `StopReturns`, which also does all its caller does with the result.  `Verdict`
  is what `stop()` concludes: `OfMeters`, `OfScopes` and `OfSerial` are its
  branches.  Serial data is numbered by the dispatcher and its quality is never
  anything but unknown; `completed` stands for every normal end a summary names.
* **RunLifecycle.** `pc` and `i` are the stage and the index of its loop over
  the Tool Instances; `causes` is a history of what went wrong, `result` what is
  returned and which causes its text names.
* **Executor.** A frame is one activation of `scope`, `run_branch` or
  `run_loop`; `flow` is the `ControlFlow` or `Err` on its way out.  `path` in a
  frame is the path the code passes down, the iterations around the block; a loop's
  own steps are in one more (`Place`).  `Inside` goes down eight levels, as deep
  as `validate_steps` lets blocks nest.  A leaf step is begun and ended by two steps, so requests can come between.  A value is the
  place where it was computed, which is what scoping can confuse.  `scope` in a
  frame is a history: the variables a true lexical scope would hold.
* **Desktop.** Four threads of control: the front end (`ui`), the run command
  (`command.pc` is its position in `run_workflow` of `main.rs`), the batcher's
  timer (`TimerFlush`) and a manual operation.  `active` is the `ActiveRun`
  mutex.  `channel` carries batches to the front end, `ipc` carries its stop
  invocations, in the order they were made.  Runs are kept in `runs` as long as
  the back end may refer to them.
* **Workflow.** `steps` is the document in pre-order, and an author writes it
  step by step; `check` is what `Workflow::new` has gathered of it, one frame
  per call of `validate_steps`.  So every prefix of every document is judged.
* **Preparation.** `file` is the configuration file with its text (whole or
  truncated by the write under way), `edit` the commands that change it, one per
  thread, `shown` what the window shows, and `run.at` the position in
  `prepare_live_run` and in the launches.
* **Bench.** `supply` has outputs and protection latches that may trip at any
  time; `job` is the last command of each operation's Worker, carried out
  register by register; `actions` walks the document's tool actions with the
  adapters' `run_action`; `manual` is `refresh_powers_status` or
  `clear_powers_protection`; `panel` is what the operator was shown.
* **Replies.** `peer` is the Worker: its lines come in order, its HTTP snapshots
  are as old as their requests, and when it has exited another run's Worker may
  answer.  `caller` identifies it, waits for its stream, gives it a command and
  stops it; `caller.believes` is a history of its conclusions.
* **Results.** `stored` is a `StoredRun` with the indices it maintains (numeric
  columns, running sums, executions, the message ring); `view` is one pane: the
  table with its window, revision and answers on their way, or the chart with
  the pieces it has loaded.
* **Feed.** `feed` is a `Dispatcher` seen from its figures, `source` a
  conforming meter, scope or port, `clock` ticks at any moment, `plot` is a chart
  query between two of its batches.

## 3. What the runs check

| Run | Properties | Shows |
|---|---|---|
| `JobTracker` | IdentityAgrees, NoSilentContradiction, TerminalIsFinal | 2 jobs, 2 names, 2 commands, 2 contents: every order of agreeing and contradicting messages |
| `AsyncJob` | NoFalseConflict, CallIsHonest, CallReturns, KeepsPromise | 2 jobs one after the other: the first may be given up and finish during the second; any answer, line or status may be invalid |
| `WorkerSession` | NoGap, OkIsComplete, NothingLeftBehind, ShutdownReturns | 3 lines of any kind through a channel of one slot |
| `Background` | DatasetsAreHonest, FailureIsSignalled, FinishedIsFinal | one background: a Custom source of 2 readings in 4 workflow steps, and Simple, Scopes and Serial sources, with a count and without, in 2; all but one may misnumber or overrun their samples |
| `BackgroundPair` | CleanEnd, ManagerReturns | a meter and a serial port over one store and one signal, in 2 steps |
| `RunLifecycle` | NoStepOnHalfSetup, EndsSafely, HonestResult, StopEndsRun | 3 instances: a protected supply, a plain supply, an instrument with a setup |
| `Executor` | ReadsAreSound, RowsAreWhole, HonestVerdict, StopIsPrompt | For around While around If around For, with shadowing, a root and three nested Pages |
| `Desktop` | ExclusiveWorkers, StopHitsItsRun, FeedbackIsHonest, VerdictsAgree, ExportsAreStable, StopClickEnds | two runs, one row, one batch and one stop invocation under way |
| `Workbench` | CheckersAgree, SavedIsLoaded, AcceptedCanRun, StartedAsPrepared, ClearIsSafe, ShownIsReal, OnlyOwnIsBelieved, FiguresAreExact, PanesAreReal, TimerIsPaced | the scenes below |
| `BackgroundStopped`, `RunLifecycleOriginal`, `ExecutorRootRow` | one each | the divergences of section 4 |

Some properties are conjunctions of named parts:
`CallIsHonest` is ReceivedAtMostOnce, DoubtIsRecorded and OkIsTrue;
`DatasetsAreHonest` is OpenIsOwned, NoHiddenGap, LosslessIsProved and
AcknowledgedOnce; `EndsSafely` is SafeEnd and NoWorkerLeft; `ReadsAreSound` is
ReferencesResolve and DataIsLexical; `CheckersAgree` is AcceptsExactly (the
validator against its specification) and DraftIsNoStricter (the editing draft
against Live preflight); `AcceptedCanRun` is ActionsCanRun and SamplesSuffice;
`StartedAsPrepared` is LiveIsConfirmed and StartedIsProbed; `ShownIsReal` is
PanelIsTruthful and ResultsAreReal; `FiguresAreExact` is RunIsSummed, SetsAreSummed,
MonitorIsNewest and ChartIsTrue.

Every property of a passing run has a mutant: a definition changed the way a
plausible bug would change it, under which TLC finds the property violated.
The mutants stand in the modules as "Bug to rule out".  Two properties whose
mutants broke the same thing were made one, and type invariants are stated in
the modules and proved where section 5 says so, but not listed as properties.

**Scenes of the Workbench.**  A scene gives an alphabet of steps, the length of
the document, templates, configurations, and what happens to an accepted
document.  The larger state of the composition is thereby split: in one scene
only one part moves, in states that the parts before it produced.

| Scenes | What moves |
|---|---|
| scope, variables, pages, counts (4 or 5 steps each), unbounded | the author: references into and out of blocks, shadowed variables, pages and outputs, measurement counts up to an overflow at 8 |
| serial, tools, templates | the author: every shape of argument and binding, the four setups, backgrounds and saved charts; for the tools with nine configurations, some incomplete or contradictory, judged by draft and preflight |
| unbounded, pair | the desk: one edit at any moment of the preparation, executables that are missing, old or torn, Ready messages that claim more than was probed, two instances that may come to mean one port |
| supply, readings | the bench: one trip, a manual operation beside a run, commands that time out, torn registers, trigger events left from before |
| replies | a Worker of each of three kinds of session, 2 lines, 1 status request, one malformed field, exit at any time |
| looks | 5 rows for the figures, 3 executions for the log, 4 or 3 rows over 2 runs for the table and the chart |
| feeds | a timer with two readings to a measurement (without a limit in 2 hours, with a limit of 4 in 3), Serial data of 1, 3 and 5 bytes around a monitor of 4, two captures of a scope, chart tapes of 4 to 8 samples with 10 queries |

**Bounds.** Tracker properties speak of at most two jobs, two names and two
terminals at once, so two of each reach every case.  In `WorkerSession` a hole
needs a line refused with one before and one after it: three lines, one slot.
In `Background` a gap needs two samples, and the longest history a property
speaks of (Worker ON, Capture OFF, Capture ON, Worker OFF) four steps; two
backgrounds interact only through the store, addressed by index, and the signal.
The kinds of source differ in numbering and verdicts, for which one Capture that
is completed and one that is cut short suffice: two steps.
In `RunLifecycle` three instances have one before and one after the one that
fails.  In `Executor` two iterations of the outer loops expose stale data of the
first, and three levels of loops an unwinding through a level.  In `Desktop` a
stale request needs a run and its successor; no further stop is clicked while one
is on its way to the back end (`MaxCalls`), and the front end allows one loop
request at a time (`App.tsx:789`).  In the panes a window
of three rows over four has rows above, in and below it.  `MaxLines`, `samples`
and `actions` of a Background configuration, `MaxRows`, `MaxBatches`, `MaxWritten`
and `MaxAsked`, the lengths, edits, trips and events of a scene are bounds of the
models; `Capacity` is 8192 in the code, `MaxDepth` 8, `MonitorPoints`,
`EventBatch`, `ScanBatch`, `ChartPoints` and the like are the code's constants
made small, with the relations between them that the code relies on as
assumptions.  A `While` of `Executor` has a limit; an unlimited one is a limit
that is not reached.

**Fairness.** `AsyncJob`: weak fairness of the call's own steps, each a call
with a timeout, and of the passing of time.  `WorkerSession`: of the reader
thread, of the shutdown functions, and of time.  `Background` (`FairSpec`): of
each dispatcher's own steps and of what the manager has begun; start and
shutdown of a Worker return by their deadlines.  `RunLifecycle`: of the run's
thread, for the same reason.  `Desktop` (`FairSpec`): of the run command's
thread, of the front end's receiving and replying, of the delivery of an
invocation that was made, and of the batcher's timer.  Nothing is assumed of a
Worker, of HTTP, of the operator, nor of a step the workflow has not begun.
`StopEndsRun` thus says that no stage waits for another party and that the stop
request is seen, not that a step's own timeout is short.  The properties of the
Workbench are safety properties and assume no fairness.

`CHECK_DEADLOCK FALSE` stands where the system may stop for good: a session that
has returned, a run that has returned, a session no one asks for a job, a
desktop whose two runs are over, a scene that has come to its end.

## 4. Where code and documents differ

* **A stopped scope without a count** (`BackgroundStopped`).  "An active
  infinite Capture is also incomplete when stopped" (`USER_GUIDE.md:649`).  For
  a Meters source `stop()` says so; for Scopes it returns whether the count was
  missed, which without a count is never, and for Serial always no.  After an
  accepted Stop Workflow the Capture that was being filled is closed as
  completed.  As a further effect the scope's evidence about the run as a whole,
  "incomplete", also reaches Captures completed before (`FinishedIsFinal` has
  this case as its exception).
* **The original failure** (`RunLifecycleOriginal`).  A cleanup failure is to
  preserve the workflow's failure.  A failed step is `Ok(summary)` to
  `run_workflow_internal`; a Worker shutdown error after it is returned alone.
  All other combinations keep the step's failure (`HonestResult`, `PriorFailure`).
* **Root rows of a failed run** (`ExecutorRootRow`).  "A failed or incomplete
  workflow commits no root row", but `scope` commits a row and then looks at the
  failure signal.

Readings of the code that the models made visible, none of them against a
document's word or without a remedy:

* An answer to an async command that fails its check leaves `run_async_job` by
  `?` before the job is marked: a 202 that `command_accepted` refuses or that
  names no job (`worker.rs:261-269`), or a rejection that `command_rejected`
  refuses, say a 500 that names a Worker job (`worker.rs:252-258`).  The Worker may
  then run a job of which the tracker has neither a terminal nor a doubt.  The
  call fails all the same and with it the step, and only tests read
  `unconfirmed()`; no document says that every such job is marked.  `CallIsHonest`
  therefore excludes calls that ended on an invalid answer (`BadReply`), and only
  these.  An invalid status does mark the job (`worker.rs:381-384`): the client
  has validated run id, origin, features and snapshots (`worker_http.rs:136-146`)
  before `run_async_job` does so again, what it adds (the manifest's features) was
  checked of the same features when the Worker became ready, and `snapshot` asks
  for no more than the client, so the `?` of lines 351-358 and 364 is never taken.
* A Capture ON that is already past the manager's failure check is accepted by
  a dispatcher that has failed and given up its Worker, and opens a Dataset no
  source can fill.  The run fails all the same, and cleanup closes the Dataset.
* A Scopes source that ends with an error after an accepted stop is accepted.
* A request to stop an outer loop while a step of its own body runs is honoured
  at the first commit of an inner loop that follows; `StopIsPrompt` takes "the
  active innermost iteration" to be that inner one.
* Loop stops carry no run id.  One that is delivered late can stop a loop of the
  same name in the next run, or a later execution of the loop in the same run.
* A manual operation may be asked for at any time in `Desktop`: the back end does
  not rely on the front end's disabled buttons, its registrations look at the slot.
* Of powers actions other than measure neither template nor preflight requires a
  `channel`, refuses one that is bound to a calculation (which is never an integer),
  or looks for unknown actions and fields; such steps are refused when they run.
  `ActionsCanRun` states this as its condition (`Addressed`).  The format of a screenshot given by a binding is likewise
  checked at run time only.
* VISA addresses are compared as spelled, Serial ones by what they name
  (`run_preparation.rs:110-170`), and the two are not told apart: a UART whose name
  folds to upper case is compared with VISA addresses as they are spelled, so a
  lower-case name given to a Serial instance and to another one is not reported.
  `SameInstrument` therefore says what one instrument is within Serial resources
  and within VISA ones; the proof of `StartedAsPrepared` failed until it did.
* The configuration file is truncated and written in place.  A reader in between
  takes it for empty, and a command that saves what it read loses the other
  entries (`config.rs:201`, `main.rs:890`).  A run in preparation is protected by
  what was confirmed (`LiveIsConfirmed`).
* JSON equality in an assertion tells 1 from 1.0.
* A sample that was made in time but is handled after its deadline fails the
  background; after a stop request a late sample can still fail the run until
  cleanup sets `stopping`.
* The lower whisker of a box plot may lie above the first quartile, as it does in
  the usual definition.

## 5. What is proved

Every safety and action property of every passing run, but for some of the
`Workbench`'s (section 6), for every value of the constants:

| Theorem | States |
|---|---|
| `AsyncJobProofs!TypeCorrect`, `IdentityCorrect`, `ContradictionsAreSeen`, `TerminalsAreFinal` | type correctness and the three properties of the `JobTracker` run, for any sets of jobs, names, commands and contents |
| `AsyncJobProofs!AsyncTypeCorrect`, `NoFalseConflictHolds`, `CallIsHonestHolds`, `PromiseIsKept` | type correctness, the two invariants of the `AsyncJob` run, and that `AsyncJob` implements `JobPromise`, for any jobs, Workers and orders of reply, status and stdout, messages that are refused included |
| `WorkerSessionProofs!TypeCorrect`, `NoGapHolds`, `OkIsCompleteHolds`, `NothingIsLeftBehind` | type correctness and the three invariants of the `WorkerSession` run, for any number of lines and any capacity of the channel |
| `BackgroundProofs!FailureReachesTheWorkflow`, `UnfinishedIsFilled`, `CleanupLeavesNothing` | `FailureIsSignalled` and `CleanEnd` of the `Background` runs and `OpenIsOwned`, a conjunct of `DatasetsAreHonest`, for any backgrounds, kinds, counts and bounds, and whatever the Workers say |
| `BackgroundProofs!DatasetsStayHonest`, `FinishedStaysFinal` | `DatasetsAreHonest` and `FinishedIsFinal`, as generally |
| `RunLifecycleProofs!TypeCorrect`, `SetupBeforeSteps`, `BenchIsLeftSafe`, `ResultIsHonest` | type correctness and the three safety properties of the `RunLifecycle` run, for any number of instances and any choice of supplies and setups |
| `ExecutorProofs!ExecutorTypeCorrect`, `ReadsAreSoundHolds`, `RowsAreWholeHolds`, `HonestVerdictHolds`, `StopIsPromptHolds` | type correctness and the four properties of the `Executor` run, for every workflow `Workflow::new` accepts, any limits of its loops, and failures and requests at any moment |
| `DesktopProofs!Invariance`, `WorkersAreExclusive`, `StopsAreAimed`, `ExportsReadOneRun`, `VerdictsDoAgree`, `FeedbackStaysHonest` | the invariant and the five safety properties of the `Desktop` run, for any number of runs, rows, batches and invocations |
| `WorkbenchProofs!OwnIsBelieved` | `OnlyOwnIsBelieved`, for any Ready that was adopted, any number of lines and requests, and whoever else answers at the port |
| `WorkbenchProofs!NoOtherIsStarted` | `StartedAsPrepared`, for any templates, configurations and edits, at any moment of a preparation |
| `WorkbenchProofs!ClearingIsSafe`, `WhatIsShownIsReal` | `ClearIsSafe` and `ShownIsReal`, for any accepted document, any channels, and whatever trips, fails, is torn or times out |
| `WorkbenchProofs!TimersArePaced` | `TimerIsPaced`, for any intervals, limits and sizes of a measurement, and any order of the steps of dispatcher, source and clock |
| `WorkbenchProofs!PanesShowTheirRun` | `PanesAreReal`, for any length of a run, runs that follow it, sizes of windows and pages, scrolling, and order of arrivals, questions and answers |
| `WorkbenchProofs!AcceptedIsWellFormed` | `CheckersAgree`: the validator accepts exactly the well-formed documents, for any steps, and any length and depth of a document; its second conjunct is `DraftComplainsOfNoMore`, for any template and configuration |
| `WorkbenchProofs!FilesKeepTemplates` | `SavedIsLoaded`: a template that is saved is loaded again as it was, for any template and any steps an author may write |
| `WorkbenchProofs!AcceptedActionsRun` | `ActionsCanRun`, a conjunct of `AcceptedCanRun`: what is accepted no adapter refuses in the middle of a run, for any instances, setups, actions, arguments and bindings |

**Assumptions.** Most say that a mark of a model is no data of it: `NoneIsFresh`
of `JobTracker`, `WorkerSession` and `Background` (the value None is none of the
others), `MarksAreFresh` of `AsyncJob` and of `Executor` (None, `Err`,
`BadReply` and the endings are no jobs, steps or places), and in `DesktopAssumption` and
`ConstantsAssumption` that None is no background, no part of the run and no
status.  The rest is about the system: `InstancesAssumption` (N is a natural
number, supplies and setups are instances), `DesktopAssumption` (the bounds are
natural numbers, at least one batch can be under way), `CapacityIsPositive` and
`EofIsNoLine` (the channel holds at least one message, and the end of the stream
is not a line), `ConstantsAssumption` (the configurations are well formed), and
`ProgramAssumption` of `Executor`, which is what `Workflow::new` checks before a
workflow can run (`workflow.rs:655-785`): no id is used twice, so that the blocks
form a tree; blocks nest eight levels deep at most, so that `Inside` reaches all
of a block; no For variable is assigned in its loop; and a Page belongs to one
lexical path of loops.  Of the Workbench: `WorkflowAssumption`, `FeedAssumption` (limits
and sizes are positive numbers), `BenchAssumption` (channels are positive numbers, a
protection is a kind of latch of a channel, None is no number) and `ScenesAssumption` (lengths
are natural numbers, a scene about backgrounds has a source, and a source conforms:
`start_background` asks a timed meter for whole measurements, `background.rs:677-691`,
and its Worker numbers the readings from one; and what an author writes is `Writable`:
the steps are steps, not the marks of a second branch or of an end, and a page is what
its name makes it, folded case included; and what is in memory is `Structured`: as the
Rust structs, templates and steps have every field that a file may leave out, and a
condition has the operands of its operator, as the reader of a step checks, the channels
of a setup are a list, and the texts of an action's arguments and inputs are bytes), `NamesAssumption`
(None is no name), `ResultsAssumption` (sizes are positive, and
what the table has room for, and a margin on both sides, fits an answer) and
`ExecutionsAssumption` (a step ends in one of three ways, with a value).  That references are visible is not assumed
of `Executor`: `prior` and `prior_variables` restate what the validator makes visible
and `ReadsAreSound` is about these; that the validator makes visible what lexical scope
does is `AcceptsExactly`.  TLC evaluates every assumption on the instances.

*JobTracker.* `NoSilentContradiction` is not inductive: it relates histories to
the tracker only while no job carries evidence.  The invariant adds
`IdentityAgrees`, that a finished job is not unconfirmed (`Settled`), and
(`Remembered`), for as long as there is no conflict, that each claim is the pair
the maps hold and each report the terminal they store.  The lemmas `...Fields` say
what each operation leaves in each field of each job, `...Keeps` that the
invariant survives it; `TerminalIsFinal` follows from the same lemmas.

*AsyncJob.* What the tracker, the call and the lines on stdout hold is what the
Worker decided.  `WorkIsSound` is about the Worker (its jobs
have names of their own and a terminal is about its job), `Known` about the
tracker (no evidence, a stored name is the job's, a stored terminal its decision),
`Said` about what is written or in hand, `Once` about commands (one that was
received is neither under way nor about to be sent), `Replied` about the reply to
the call in progress, `Returned` about results.  With the tracker's
invariant these are `AInv`.  Each action of the call is one of a few
`Moves` as far as the invariant can tell; `Keep` lemmas show each conjunct once
per move.  `PromiseIsKept` maps the Worker's decisions and the tracker's to
`JobPromise` and shows that each move is a step of it or a stutter; that a
decision is not taken back comes from `WorkIsSound` and `Known`.

*WorkerSession.* The invariant counts lines.  There is a c such that c lines were
taken off the channel: the channel holds the lines after it, in order, and perhaps
the end of the stream as its last message (`Channel`); the evidence is what the
first c lines say (`Recollection`); these lines but for refused ones were handed
over or are pending, in order (`Delivered`).  A received message is the step from
c to c + 1.  `OkIsComplete` follows because the end of the stream is taken only
when c is all that was written.

*Background.* Every step of a dispatcher does one of four things to the store: it
leaves what is open as it is, ends what it has open, opens a Dataset, or adds one
that has failed already (`Ends`, `Grows`).  `Acts` says so, and what else the rest
of the system may rely on: the step touches no other thread and only what the
manager hears, leaves nothing open when the thread exits, and fails a Dataset only
with the signal set.  One lemma per action shows `Acts`; what follows for the
invariant is then proved once (`ActsKeep`).  The invariant adds to the properties
`Owned` (what is open belongs to the dispatcher whose `current` it is), `Joined`
(a thread the manager no longer lists has exited, or is the one it is about to
join; the reply timeout of a cleanup leads to the join, never past it) and the
shapes of the records.

*Datasets.* A Dataset is honest because of the run of the Worker that filled it.
`Ledger` says per background how its Datasets, its dispatcher and the Worker's
stream keep in step: an open Dataset holds consecutive samples up to what the
dispatcher has counted (`Books`), what the summary of a run said is so (`InStep`),
and there are no more acknowledgements, given and due, than Datasets
(`Acknowledged`); `Awaited` says that the command the manager waits for is still
queued or in hand.  A dispatcher's step touches one background; `ElsewhereKeeps`
says once why the ledgers of the others stay.  `FinishedIsFinal` is shown action
by action from the same invariant: of the steps that write Datasets only the
verdict at the end of a run reaches finished ones.

*RunLifecycle.* Nothing but the type is inductive.  `Stages` says what each stage
knows of the loops before it (in `setup`, all sessions are open unless a stop was
requested; a run that has `begun` was fully prepared); `Safety`, that the supplies
the Safe-Off loop has passed were tried; `Accounts`, that the history of causes
agrees with the variables the result is computed from.  Each has a lemma with a
step per action; the theorems are corollaries of `Invariance`.  `BenchIsLeftSafe`
joins `SafetyOfPowers` and `WorkersAreShutDown`.

*Desktop.* A stop is aimed right because of what every queue may contain.  `Owner`
says when the slot is whose and when the control knows the run's id; `Queues`,
that the queues are sequences; `Batches`, that a batch under way is about the
command's run, which is told of until the reply; `Batcher`, that the batcher is
open only meanwhile; `Latest`, that the command's run is the last one begun and is
running until its last status; `Requests`, that a workflow stop under way names a
run that was begun and, if it is the command's, comes from a front end that shows
this run as stopping; `Talk` ties what the front end shows to the position of the
command.  Ids are not used twice, so a request for an older run finds another id
in the slot.  `StopHitsItsRun` follows from `Owner`, `Requests` and `Talk`;
`ExportsAreStable` from `Owner` and `Latest`, because a run an export has begun to
read was not running.  The queues are handled by lemmas about appending to, and
dropping the head of, a sequence all of whose members have a property
(`QueueGrows`, `QueueShrinks`).

For `VerdictsAgree` the invariant follows a run through the end of its command:
`Accounts` ties its status, what it executed, the CSV verdict and the position of
the command together, `Settled` what the idle front end shows to the run that
ended.  `FeedbackIsHonest` needs to know where a shown request to stop a loop has
got to, however many invocations are under way: `Asked` says that the last one
about an active loop is the one shown, `Quiet` that before the first step there is
none.

*Executor.* The stack is a list of frames, and none of the properties is about its
top alone.  `Stack` says that each frame is the block of the step the frame below
is at, lies inside it, and that its path is the loops around it with their
iterations; this is where the assumption on ids is needed.  `StepMoves` reduces
the actions to seven kinds: a step ends in place (`Leaf`), a block begins
(`Enters`), the block of an If or of a loop ends and its step with it
(`PopsBranch`, `PopsLoop`), an iteration ends (`Continues`) or begins
(`Iterates`), or the stack stays (`Idles`).  Each part of the invariant then has
one lemma over these kinds.  `DataInv` adds `Control` (which positions go with
which frame and flow), `Prompt`, `Asked` (a loop that has begun an iteration under
a request is inside the loop that was asked), `Verdict` (a recorded failure is the
first failed entry of the log, and it is on its way out), `Scopes` (the flat map
is what the scopes of the frames say, each saved binding what the frames below it
say) and `Kept` (the outputs that are there are those of the steps the running
blocks have passed).  `ReadsAreSound` and `StopIsPrompt` follow.  `RowInv` is
about the log, which is never shortened, so it has to say that nothing in it is
about an iteration still to come: every entry is of an iteration of a loop that
has ended there or still runs (`Iterated`), with an index not beyond the present
one (`Past`), and of a branch likewise (`Branched`); a step still to be executed
has no entry in its place (`Unlogged`), one that was passed has one (`Passed`),
and it ended well where the block may still commit (`Well`); what is staged is
what the log says, Page by Page (`StagedWell`); and where a row was committed
nothing more is executed (`Final`).  `RowsAreWhole` and `HonestVerdict` follow.

`OutputsIn`, the reference definition of what a row must hold, is a recursive
function over the log.  What it does on a longer log is proved from its recursive
equation; that the equation has a solution is proved by induction on the length,
without an induction theorem of the library: `Least` takes the least member of a
set of naturals from `WFMin`, which takes no operator, and `Induct` follows from
it.

*Workflow.* `WellFormed` looks at the whole document, the validator reads it once with
a frame for each open block, so that they agree is an invariant of the reading
(`ReadInv`).  It says what the frames are: the blocks around the position that is read
next, from the outside in (`Nested`), each with what is visible at the position it has
come to (`Fitting`), which is inside the next frame's block for all but the last; a
frame of an If keeps what was visible at its first branch, which the second one starts
from.  A frame's path lists the loops around it, each at its rank (`IsPath`); two
positions have the same path exactly when the same loops are around them
(`PathsTell`), which is what makes the rows of a page comparable.  `Remembered` is about the ids, outputs
and pages met anywhere.  Then the checks of a step are what `WellFormed` asks of its
position (`StepIsJudged`), and a longer document is well formed when the shorter one
and its last step are (`OneMoreIsWellFormed`): what comes later changes nothing for an
earlier step but for an unlimited While, which is refused if its end comes at once.
`DocumentInv` adds that the pages are the alphabet's.

*Workbench.* A scene uses one part at a time, but the invariants do not rely on
which one: each is shown for the steps of its part, and the steps of the others leave
its variables alone.

`TalkInv`: a status the Worker's run wrote says no more than what has happened (`Peer`), what
the caller holds or noted of its own Worker is true (`Heard`), and so is what it
concludes; that it does not give its command twice comes from where it is in its
protocol (`Believed`).  A snapshot is as old as its request, so it is compared with
facts, which are never taken back.

`SupplyInv`: one operation at a time has a Worker at work (`Exclusive`), and while the
manual operation's last command is Safe-Off the outputs it is through with are off, and
while it is a clear all are (`OffByHand`).  The invariant is about the command at the
instrument, which may go on after the operation gave it up.  `ReportInv`: what a report
holds so far agrees with the latches, which stay set while no clear is under way, for
the channels that have been read, and so do the totals (`Totals`), which a report has
to agree with to be accepted.  `RunInv`: there is one real
result for each step that is done, at most one trigger is out and its sample is the
last event (`Metered`), the supply is asked what the current step asks (`Driving`),
and a file under way has a name no kept result has (`Filing`).

`DeskInv`: what is used was accepted and changes no more (`Settled`), and nothing is
started from specifications that were not made from the configuration that was
compared with what the operator confirmed, in the same step (`Prepared`, with
`LiveIsConfirmed`).  `WhatIsShownIsReal` needs it too: an accepted document's actions name
their channels.

`PaceInv`: what is on its way from a source is numbered, without holes, from what the
dispatcher has handled to what the source has made (`Numbered`), and no sample comes
before the stream is open or after it has ended (`Phased`, `EndsLast`).  The source was
asked for whole measurements up to the limit (`Asks`), and what it was asked for and is
not handled yet is what the timer waits for, unless it is to stop (`Agreed`): this takes
the number of samples in the queue, which `ReadingsOnTheirWay` obtains from a bijection
between their places and their numbers.  A timer that was due once is due until it is
looked at (`Patient`), so the events it has waited for fit one batch.

**Panes.**  `PanesAreReal` says what is shown now, and most of what is shown was asked
for a while ago.  `PaneInv` therefore says of every window, whether it is shown or on its
way, that each of its rows is the one its place in the window names
(`Windowed`: the row is the total less the offset and the rows before it, all three of
the window's own moment), and of every series, that it goes on from its start without
a gap (`InOrder`), both for the run they carry, which need not be the one that is stored
now.  Rows that arrive in between move a window (`RebasedIsReal`), and an answer for a
run that was replaced is dropped.  Of the stored run, `Kept` says that the messages
are the last of all there were and that what is remembered of a step is what its
executions say (`Summed`); that pages tile the list follows from where
a page begins and ends (`WindowIsReal`).

**Files.**  `SavedIsLoaded` needs no invariant but that a document's steps are steps its
author could write (`StepsInv`).  What it rests on is `TablesAgree`: a field that is
skipped when a struct is written has the very value that a reader takes for an absent
one, for every struct of a template; `WrittenIsRead` concludes that a struct that is
written and read is what it was.  Setups, channels, measurements and steps are nested:
`EditedAsWritten` says that a field that is never skipped can be written before or after
its struct is, and the lemmas from `SettingsAreRead` to `FileIsRead` go outwards through
the nesting.  Names are trimmed as a file is read, and were before (`TrimmedTwice`).

**Accepted actions.**  The template judges an action by its fixed arguments and the kinds
of its bindings, the adapter by what these resolve to, with code of its own.  Of a
binding the template knows the type at most, so the proof goes over what a resolved
argument can be: the value of an expression is never a text (`EvaluatedIsNoText`), any
text is one of bytes (`ResolvedIsBytes`), which is why a frame that is sent is not cut
by the conversion to bytes.  Serial actions and powers actions are then judged field by
field (`SerialCanRun`, `PowersCanRun`).  That a setup sets nothing twice
(`PowersSetOnce`, `ScopesSetOnce`) is about flattened lists: the library defines
`FlattenSeq` by a recursive function, that its equation has a solution is proved with
the least element of a set of naturals, as for `OutputsIn`, and by the same induction a
list of lists none of which has a member twice, or one of another's, has none twice when
it is flattened (`FlattenedOnce`).

## 6. What is only model-checked

* Liveness (`CallReturns`, `ShutdownReturns`, `ManagerReturns`, `StopEndsRun`,
  `StopClickEnds`) and anything with ENABLED: out of TLAPS's reach here.
* Of the `Workbench`'s properties: `SamplesSuffice`, the other conjunct of
  `AcceptedCanRun`, and `FiguresAreExact`.  They compare what folds and recursions over a
  document, the rows or the samples compute with a reference definition.  The library's
  induction theorems take an operator as a parameter, which none of the provers can
  instantiate.  Where a recursion is simple, induction is had from least elements
  (`OutputsIn`, `FlattenSeq`); folds over sets, `SortSeq`, `@@` and `:>` are beyond the
  provers.
* That the `Workflow` given to `Executor` is one the validator has accepted: both
  sides are proved (`ReadsAreSound` for what `prior` allows, `AcceptsExactly` for
  what the validator allows), the translation from a document in pre-order to the
  executor's tree is by hand.
* The fidelity of the abstractions to each other: the executor of `RunLifecycle` and
  the loops of `Desktop` are reduced by hand.

## 7. What is not modelled, and what the models assume

*Not modelled:* the texts of messages, help and errors, the versions of the
template's schema, argument parsing and printing of the command line, HTTP
itself and the writing of JSON, the files of exports and the cells of CSV rows,
authorization files, file dialogs, catalogues and capabilities beyond what a
check looks up, the editor's operations on a draft, layout, the other panels of
the front end.  `WorkerClient::cancel`, `status()` and `stop()` are public and
unused.  Most of what remains unmapped in `template.rs`, `main.rs`, `workflow.rs`
and `background.rs` is of these kinds, or tests.

*Data:* numbers are integers, tenths or exact fractions; rounding and overflow of
floating point are left out.  (A box plot over values near the largest number has
fences that are not numbers; a histogram refuses such ranges.)  One page and one
message tab stand for several; a page's revision is its row count; scroll
positions are rows; a chart has one field.  Unknown X errors, overflowing batch
timeouts and overflowing reading counts are left out of `Feed` and `Background`.

*Environment:* on the bench, outputs are switched on only by Workers, a Worker's
unfinished command is dropped at its shutdown, a tripped protection switches its
output off and latches; a report that leaves a channel out of both of its lists
is not noticed by the adapter, and the instrument is taken not to send one.  In
`Replies` a Worker does not lie: at most one field of a message is malformed, a
command that was taken may fail, and another run's Worker may answer.  In `Feed`
the source conforms; what a source does that does not is `Background`'s subject.
Invocations of the front end are delivered in the order they were made.  The
panes are checked one at a time.

## 8. Plan

1. An abstract executor (a tree walk that commits whole rows) that `Executor`, the
   `execute` stage of `RunLifecycle` and the loops of `Desktop` implement.
2. The configuration file with a property of its own: no edit is lost.  The code
   does not keep it; the documents do not say.
3. Floating-point ranges of histograms and box plots; the editor's operations on a
   draft; unlimited Whiles in `Executor`.
