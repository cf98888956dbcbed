# A TLA+ verification project for WOMM

WOMM renders videos on a set of workers. A client uploads files to the **api**,
arranges them in scenes and asks for a rendering; the api turns a scene into a
*workflow* (tasks with dependencies) and submits it to the **task-manager**, which
runs the tasks on **workers**. The services share MongoDB, RabbitMQ and an
S3-compatible object storage.

This directory models the path of a video through the whole program: uploads and
their storage, scenes, the workflow a scene is rendered by, its definition as the task
manager parses and stores it, its scheduling, and the tasks the workers carry out. It
holds the modules, the TLC configurations that check them on small instances and the
proofs that hold for every instance. `PROJECT.json` lists the components, the runs, the
mutants that show each property can fail, the map from definitions to source lines, the
findings, the hazards and the theorems.

## 1. Inventory

### task-manager (`src/task-manager/src`, NestJS on Node.js 16)

| part | state | operations |
|---|---|---|
| `dag` | one document per workflow: nodes with status, retry count, edges | `parse`, conversions, `markNodeAs...` (compare-and-set on the status), `cancelAllPendingTasksOf`, `increaseRetryCountOfNodeAndSetStatusFailed`; cycle detector |
| `scheduler` | none of its own; local copies in handlers | `taskStarted`, `taskCompleted`, `taskFailed`, `taskHoldRequested`, the listeners of `artifact.added`, `worker.stale`, `worker.noWork`; queueing and assignment |
| `task-queue` | collection of queued tasks | `enqueueNode`, `dequeue` (by priority, then age) |
| `workers` | one document per worker: status, last heartbeat, `workingOn`, `nodesOnHold` | heartbeat upsert, stale check on a timer, assignment, clearing, holds |
| `artifact-store` | published artifacts of a DAG | `addArtifactToStoreOfDag`, `findForDag` |
| `workflows` | definition and status | `create`, completion criteria, success, failure |
| controllers | none | one handler per message of the queues `task_events`, `artifact_events`, `worker_events`, `workflow_control` |
| `function-executor` | none | retries a function four times with random delays |

The handlers are async functions of one process. They interleave at every `await`,
and nearly all of them read a document, decide on the copy and write later. Consumers
run without acknowledgements. The controllers call the scheduler without `await`, so a
handler that rejects is an unhandled rejection, which ends a Node.js 16 process; the
deployment restarts it (`restart: always`). Inside, services tell each other what
happened by events (`artifact.added`, `dag.node.completed`, `dag.failed`,
`worker.noWork`, `worker.stale`) whose listeners are not awaited either; errors of
event listeners are caught and logged.

*Correct means:* no task before what it depends on; no task executed twice at once;
no queued task lost; a verdict that is true; a workflow that ends; workers that are
released; retries that are bounded.

### worker (`src/worker`, C#)

State: its RabbitMQ queue, the task in `ExecuteTask`, the files of its directory. A
message is acknowledged before it is processed; the executor reports started, completed,
one `artifact_uploaded` per result (after completed), or failed. A heartbeat thread
runs beside it. A task (`Split`, `Splice`, `ConvertFormat`) downloads its files, has
ffmpeg make one of them, uploads that and clears the directory. *Correct means:* each
message leads to one final report; a result is what the task should make of its inputs,
whatever an earlier attempt left in the directory.

### api (`src/api/src`, NestJS)

| part | state | operations |
|---|---|---|
| `upload` | one document per upload: multipart id, parts, size received | `create`, `addFilePart`, `analyzeUpload` |
| `storage` | the S3 bucket | multipart uploads, links, downloads |
| `workspaces` | file entries: finished, metadata | `addFile`, `fileUploadFinishedAt`, `addMetadataToFile` |
| `video-analyser` | none | `analyzeFile` on the output of ffprobe |
| `scenes` | one document per scene: clip definitions, layers, video | create, edit, delete, `renderScene`, `validateClipAvailability` |
| `render`, `workflow` | none | strategy and builders that make a workflow of a scene |
| `workflow-listener` | none | `workflow_finished` marks the scene of a workflow |

Its handlers are async functions as well: they interleave at every access to MongoDB or
S3, and most read a document, decide on the copy and then update the document with
operators (`$push`, `$pull`, positional `$set`) that do not look at what was decided.
Here rejections reach the client as errors. *Correct means:* an object in the storage is
a whole file; what was acknowledged is kept; a scene is rendered only from files that are
complete and supported, into a video that shows its clips in order; the video of a
finished rendering is offered.

### frontend (`src/frontend`)

The home page keeps the list of videos and their order, uploads them part after part and
sends one scene; the list of finished videos polls the api every five seconds.

### What is hard here

Two handlers acting on copies of one document; reports that overtake or duplicate each
other; a restart between two database operations; heartbeats, late heartbeats and
the stale check racing assignment; hold requests racing the queue; parts that arrive at
once, out of order or twice; removals in two updates; a workflow that ends before it is
registered; leftovers of a killed task. `hazards` in `PROJECT.json` lists them at the
lines where they bite.

## 2. Modules

| module | models | notes |
|---|---|---|
| `DagService` | `dag/dag.service.ts`, dependency and criteria checks of the scheduler | nodes are `0..NumTasks-1` in the order of `dag.nodes`; the constants are a parsed definition |
| `TaskQueue` | `task-queue/` | a sequence in order of insertion; `dequeue` takes the first of the lowest priority value |
| `WorkersService` | `workers/` | `overdue[w]` stands for "last heartbeat older than the threshold" |
| `WorkerProcess` | `worker/lib` | message queue, execution, reports, end of the process |
| `Scheduler` | `scheduler/`, controllers, `workflows/`, `artifact-store/`; composes the four above | see below |
| `SchedulerHold` | hold requests, `Scheduler` extended by their actions | the sender is external: the worker program does not send them yet |
| `SchedulerProperties` | | properties, fairness, the refinement mapping |
| `WorkflowLifecycle` | | abstract specification: release, produce, succeed, report |
| `SchedulerProofs`, `ExecutionProofs`, `HoldProofs` | | theorems and proofs |
| `StorageService`, `VideoAnalyser` | `api/src/storage`, `api/src/video-analyser` | S3's rules for completing an upload are external |
| `Upload` | `api/src/upload`, the file entries of `workspaces`, the browser's upload | composes the two above; parts are counted instead of bytes |
| `FileLifecycle` | | abstract specification of a file: stored, finished, described once; `Upload` implements it, `Scenes` uses it as its environment |
| `UploadProperties` | | properties, fairness, the refinement mapping |
| `UploadProofs`, `ScenesProofs` | | theorems and proofs |
| `CycleDetector`, `DagParsing` | `dag/cycle-detector`, `parse` and the stored form | pure operators; recursion is written as functions |
| `Definitions` | `WorkflowsService.create` and the readiness of nodes | composes the two above; its constants in `Scheduler` are such a DAG |
| `DagProofs`, `DefinitionsProofs` | | lemmas about the operators; theorems about `Definitions` |
| `Scenes`, `ScenesProperties` | `api/src/scenes`, `workflow-listener`, the list of videos | one scene document, MongoDB's operators on arrays |
| `RenderPlan` | `api/src/render`, `api/src/workflow`, the home page's list | pure operators, on top of `DagParsing` |
| `WorkerTasks` | `worker/lib/tasks`, `commands`, `storage` | a file's content is a term: a source, or what ffmpeg makes of contents |
| `Rendering`, `RenderingProperties` | | composes `RenderPlan`, `DagParsing` and `WorkerTasks` from the list of videos to the stored video |
| `RenderingProofs` | | theorems and proofs, about the operators of `RenderPlan` too |
| `MC...` | | instances for TLC |

### The scheduler

**Handlers.** `jobs` is the set of handlers in flight: a record with the handler
(`op`), the operation it waits for (`at`) and its live local variables (`dag`, `store`:
copies read earlier; `todo`, `done`: what it still has to do and has done; `task`: the
task in its hands; `held`: its copy of `nodesOnHold`). An action is one awaited
operation of MongoDB or RabbitMQ, together with the synchronous code up to the next
one; a read whose result is used with nothing in between is merged with the step that
uses it. A message of a worker is a job at its handler's first operation: it may
still be in RabbitMQ. Messages are thereby handled in any order, as concurrent handlers
of the process may be.

**Executor.** A status change is tried four times. A refused attempt has no effect, so
it is one step that succeeds when the change is allowed or gives up when it is not.
Hold requests take a task off the queue in each attempt, so their attempts
(`MaxTries`) are modelled one by one.

**Artifact store.** `addArtifactToStoreOfDag` never commits its transaction, and
`endSession` aborts it: `findForDag` is the empty store, and only the event carries the
artifact. Therefore a task that needs the artifacts of two uploads is never ready.

**Death of the process.** A rejection that nobody handles and a restart are the same
step, `ProcessDies`: handlers vanish, RabbitMQ keeps some of the messages that were not
handed out. `crashed` remembers it for properties that only hold until then.

**Data left out.** Task names, parameters, descriptions; entries of the queue with the
same millisecond in `addedAt` are taken in order of insertion. Errors of MongoDB and
RabbitMQ themselves, two task managers and two workflows at a time are not modelled.

### The api

`requests` is the set of handlers in flight, records as in the scheduler; an action is
one access to MongoDB or S3. What a handler does with its local copies stays in the record
(`s3`, `list`, `copy`). A request that is refused leaves no trace but its absence from
`acked`. `disturbed` (`Upload`) remembers that a storage call failed or the api was
restarted.

*Uploads.* Two files may have one name. `MaxSends` bounds how many parts a client sends,
`Browser` are the clients that wait for each answer as the frontend does. The size is
counted in parts of equal size, which is what lets a part counted twice make up for one
that is missing. S3 completes a list of parts when its numbers ascend and each has the
ETag that was stored.

*Scenes.* The document is changed by MongoDB's operators as they act on arrays: `$unset`
of an element leaves a null, a `$push` beyond the end fills up with nulls, a positional
`$set` replaces the first match with a value that has no id. A clip is its file. The
files of the workspace move as `FileLifecycle` lets them, so that what is checked here
holds for anything `Upload` does. `budget` says how many requests of each kind are sent.

*Definitions.* A definition is checked for every order of tasks and dependencies, because
the search depends on it; a node is an object in memory and an id when stored. The search
is a recursive method: `isCyclic` is a function of the depth of the call. Each call has one
more node on the stack than the one it is nested in, so the innermost has all of them there
(the lemma `FullStack`) and has found a cycle, whichever node it is for.
A `for` loop that stops early is a function of how many elements it has looked at.

*Rendering.* The home page's list, or another client's scene or workflow, becomes a list
of tasks; the task manager accepts it or not; workers carry the tasks out with failures at
every step and kills. What the scheduler ensures (one worker at a time, after the
artifacts, again after a failure) is taken from `Scheduler` and not modelled a second time;
reporting completion and the artifact is one step here.

## 3. Runs

| run | instance | states | shows |
|---|---|---|---|
| `progress` | artifact chain like that of the end-to-end tests, 2 workers, tasks fail while running, the second is retried once | 441 723 | `AtMostOneExecution`, `NoQueuedTaskLost`, `NoTaskBeforeItsDependencies`, `SucceededWorkflowMeetsCriteria`, `WorkflowEnds`, `WorkersReleased`, `TypeOK` |
| `faults` | join of 3, 2 workers, restart at any time, all failures, a worker stops | 633 884 | `NothingRunsAhead`, `AtMostOneExecution`, refinement `ImplementsLifecycle` |
| `hold` | 3 tasks, one dependent, 2 workers that ask for holds | 3 142 141 (with symmetry) | `HeldOnce` |
| `hold_stale` | chain of 2, 1 worker, holds, failures, late heartbeats | 1 780 667 | `SucceededIsFinal`, `SucceededWorkflowMeetsCriteria` |
| `uploads` | three parts from a browser and two from another client, with one name; storage fails, api restarts | 119 438 | `ObjectsAreWholeFiles`, `AcknowledgedUploadIsFinished`, refinement `ImplementsFileLifecycle`, `BrowserUploadsEnd`, `UploadTypeOK` |
| `definitions` | all definitions of 3 tasks, at most 2 different dependencies each | 121 476 | `CyclesAreRejected`, `ReportedNodesHoldACycle`, `StoredDagIsTheDefinition`, `AcceptedWorkflowCanFinish` |
| `scenes` | 16 mixes of requests on a scene of two files | 204 562 | `WorkflowsUseAvailableClips`, `FinishedSceneWasRendered`, `AcknowledgedClipsAreKept`, `NullLayersAreRemoved`, `RenderedVideoIsListed`, `ScenesTypeOK` |
| `rendering` | lists of up to 3 videos, 9 scenes, 3 workflows, 2 workers, a failure and a kill | 136 485 | `StoredArtifactsAreRight`, `VideoIsTheScene`, `PlansAreAccepted`, `SelectionComesThrough`, `RenderedVideoIsStored` |

Four more runs show where the code departs from what its own messages, comments and
tests say (`findings`):

- `cancel_all`: "Cancelling all pending tasks" cancels the first pending node only
  (the positional `nodes.$`).
- `reports_fatal`: the artifact report completes the node; the completion report is
  then refused and, not being awaited in the `try`, ends the process.
- `upload_size`: an upload whose size has been reached is not finished when its parts
  were sent at once: they are listed as they arrived, and S3 wants them in order.
- `splice_twice`: `docs/worker.md` calls the keys of a splice "the videos in the order they
  shall be merged", but `Splice.cs` collects them in a `HashSet`: a file that is selected
  twice on the home page is in the scene twice and in the video once.

**Bounds.** Two workers are enough for two assignments, or an assignment and a
completion, to race; two or three tasks for a handler to have an out-of-date copy of
another's node, for two completions to meet at a join, and for two dependents to be
pending. `MaxFailures` bounds how often one task fails; in `progress` it is above the
retry limits (none for the first task, one for the second), so these are what ends the retries. `hold` lets each request make one
attempt (`MaxTries = 1`), which keeps two workers and three tasks in reach; `hold_stale`
has the four attempts of the code. The constants `FailureModes`, `MayBeLate`, `MayStop`
and `MayRestart` choose the faults of a run.

Two files of one name are enough for two uploads to write to one key, two parts for
those of one client to be swapped, doubled or missing, and two sends for both to be at work at once.
Definitions of three tasks have cycles of two and three, self-dependencies, branches and
tasks that share a name or a result. A scene of two clips and one or two layers lets
indices shift and removals overlap; the mixes in `MCScenes` put together the requests that
get in each other's way, since all of them at once are out of reach. Three videos have
all orders and insertions; two cuts let two workers be at work for one splice.

No run needs a state constraint. Deadlock is checked in all runs but `scenes`, where
clients may have nothing left to send while the list has stopped polling.

**Fairness.** Node.js eventually runs every continuation whose operation has finished,
so handlers are weakly fair: those of heartbeats, which are started over and over, per
worker; the others together, because there are only finitely many. A live worker goes
on with its task and its heartbeat thread with its loop. Nothing is assumed of
restarts, failures, late heartbeats and stops. `WorkflowEnds` and `WorkersReleased` are
stated up to the death of the task manager: the code has no recovery of the work that
was in flight. They are checked with workers that stay alive, since the task of a stale
worker is not given to another (a TODO in `workers.service.ts`). `WorkersReleased` does
not hold when a task is retried, which it excepts, or when heartbeats are late: a worker whose
document is cleared, or skipped because it is stale, at the wrong moment keeps an old node.

The handlers of the api are weakly fair for the same reason, per file in `Upload`, and a
browser goes on when it has its answer. `BrowserUploadsEnd` excepts storage failures and
restarts, after which the code does nothing more. In `Scenes` messages are delivered, the
task manager ends its workflows and an open list polls; a restart may end its polling
(`video-list.component.ts:63`), so `RenderedVideoIsListed` excepts restarts, and workflows
that end before they are registered. In `Rendering` the scheduler gives ready tasks to
workers and workers go on. Failures and kills are never assumed to happen or not to happen.
`RenderedVideoIsStored` excepts kills, because a stale worker's task is not given to
another, and scenes with several cuts, because of the uncommitted transaction.

**What does not hold.** Of the scheduler: that a task that has succeeded is not executed
any more, for a workflow in which the artifact that completes a task is uploaded by another
one: the task is complete while it may still be in the queue. `OwnCriteria` excludes such
workflows (TLC evaluates it as an assumption of every scheduler run); `AtMostOneExecution`
is stated for the others, and its first half, `NeverTwoExecutions`, is proved without it.
Further: that a node fails no more often than its policy
allows (a handler with an old copy queues it again, failed -> queued being legal whatever
the count) and that a worker has at most one task (`taskFailed` queues the node before it
clears the worker, which may by then be the one of the retry). Of uploads: that a part
that failed can be sent again (it is listed twice). Of scenes: that a clip goes to the
layer that was meant when another layer is removed meanwhile, that two removals leave no
null, that a definition is unique, that a workflow that fails or ends before it is
registered is ever noticed. Of rendering: that a scene may show one file twice. Its cuts
are kept by file name and `Splice.cs` collects files in a `HashSet` (`splice_twice`): the video
shows the file once, where its first clip starts, cut as its last cut says, uncut clips of it
included (lemma `VideoContent`). The home page does not keep a file from being selected twice,
and nothing after it does reliably: the files are sent all at once, and `addFile` looks for the
name and adds it in two steps (`workspaces.service.ts:37`); therefore `SelectVideo` may take a file
again, and `SelectionComesThrough` promises a place in the list and a key of the splice for every
selection, but of the video only that every file is seen. Nor does it hold that two scenes of
a workspace keep their videos apart (the home page names each `video.mp4`), or that a second
rendering of a scene is told from the first (`dag.service.ts:44`).

**What does not hold with hold requests.** A task on hold may still have its entry in the
queue or be in the hands of a handler, and is then executed twice. With two workers
`NoTaskBeforeItsDependencies` fails: a slow heartbeat handler takes a held task, its
assignment is refused, the task goes to the queue, and another worker starts it before
the task it depends on is finished. A held task can also be lost: the entry of a
requeued on-hold task is taken off the queue by a later request, marking it is refused
and nobody puts it back. That is why most theorems are about `Spec`, without hold
requests, and `SchedulerHold` is checked and proved for what does hold.

## 4. Proofs

`SchedulerProofs` proves, for every workflow, any set of workers and any combination of
the faults, from the assumptions `DagAssumption` (the DAG is well-formed, which `parse`
guarantees) and `SchedulerAssumption` (the constants have their types):

- `TypeCorrect`, `NothingRunsAheadAlways`: the invariants;
- `DependenciesRespected`: `NoTaskBeforeItsDependencies`;
- `SuccessIsDeserved`: `SucceededWorkflowMeetsCriteria`;
- `SuccessIsFinal`: the action property `SucceededIsFinal`;
- `SchedulerImplementsLifecycle`: refinement of `WorkflowLifecycle`.

`NoTaskBeforeItsDependencies` is not inductive: the decision to queue a task is made in
a handler, on a copy. The inductive invariant `Inv == TypeOK /\ NothingRunsAhead` says
of every place where a task or a verdict waits (handler, queue, message, execution) that
what it depends on is already there, and of every copy that it is no further than the
truth. The argument has two halves. `Forward`: success is final, released tasks stay
released and artifacts stay, hence what one handler relies on is not taken away by
another's step (`JobStays`). And one lemma per action: the jobs and entries that the step
creates are sound. The theorems follow from `Inv`; the refinement maps a task's leaving
of the waiting states to `Release`.

Acyclicity is not needed for safety, so it is not assumed.

`UploadProofs` proves, for any files cut into any number of parts, sent by clients of any
kind, with storage failures and restarts, from `UploadAssumption` (types of the constants)
and `NoneAssumption` (a file's content is not "no object"):

- `UploadTypeCorrect`, `ObjectsAlwaysWhole`: the invariants `UploadTypeOK` and
  `ObjectsAreWholeFiles`;
- `AcknowledgedIsFinished`: `AcknowledgedUploadIsFinished`;
- `UploadImplementsFileLifecycle`: refinement of `FileLifecycle`.

The api decides by a counter that an upload is complete, so the size alone says nothing of
which parts there are. `UploadInv` adds what does: the list of parts has an entry for every
part counted or about to be (`Counted`), so a list that is handed to S3 has at least as many
entries as the file has parts, and S3 takes it only if the numbers ascend: then it is every
part once (`AscendingNumbers`). The chunks of a multipart upload are of one file (`Owned`),
even when two handlers each have made one. The size only grows, so one handler at most
finds it reached exactly (`OneFinisher`), and finishing and describing happen once and in
order, which is the refinement. That acknowledged uploads are finished needs a second
invariant, `AckInv`: no more is counted or on its way than was sent, and until the file is
marked one acknowledgement is outstanding of an upload whose size is reached.

`ScenesProofs` proves, for any drafts, requests and files, from `ScenesAssumption` (what
clients send are documents of the scene's type, and the scene they start with has no layer
that is null):

- `ScenesAreRenderedWhole`: `WorkflowsUseAvailableClips`;
- `FinishedScenesWereRendered`: `FinishedSceneWasRendered`;
- `ScenesAreTyped`: `ScenesTypeOK`;
- `RemovalsLeaveNoNull`: `NullLayersAreRemoved`;
- `AdditionsAreKept`: `AcknowledgedClipsAreKept`.

A rendering goes on with the copy it validated, and others edit the scene meanwhile; the
invariant `ScenesInv` says that the copy stays good: its clips are usable, and being finished
and described is final (`FilesOnlyAdvance`, which rests on `FileLifecycle`, hence on what
`UploadImplementsFileLifecycle` proves of the uploads). Likewise a message in the queue or in
the hands of a handler names a workflow that has succeeded, and that is final
(`WorkflowEndsOnce`).

The other three rest on what the updates do to the arrays. Two predicates sum that up, one
lemma per operator: `NoNewNull` (no layer becomes null, none is lost) and `Keeps` (a clip
stays at its place). `HandlersGoOn` and `HandlersChange` give, once for all handlers, what a
step does to the requests and to the scene; each request has a key of its own
(`RequestsKnown`). `NullsInv` follows one removal: between its two updates at most one layer
is null and the request that will remove it is there. A push would add nulls if it went two
beyond the end; the handler has seen its layer, and one removal takes one layer away, so it
goes one beyond the end at most (`Slack`). `KeptInv` counts the places of a clip: an addition
is a new place (`PushAddsPlace`), a removal of another clip moves places and loses none, by a
surjection (`MovingKeepsCount`), and an addition that was acknowledged is counted once,
because keys are unique.

`ExecutionProofs` proves, from the assumptions of `SchedulerProofs` and its invariant:

- `ExecutedOnce`: `AtMostOneExecution`, for workflows with `OwnCriteria`;
- `NeverTwoExecutions`: its first half, for every workflow;
- `QueuedTasksAreKept`: `NoQueuedTaskLost`.

The invariant `Execution` says of each task where it can be: in the queue, in a handler's
hand, in a message to a worker, in an execution, or in the report of its end, at one of these
once and at the others not at all (`OnePlace`). The report is a place, because a task is
queued again when the report of its failure is handled: if an execution and the report of the
one before could be there at once, so could two executions. A task at any place has a status
that does not let it be queued a second time (`PlacedIsActive`), and the artifact that
completes it was uploaded by its last execution (`FinishedIsFinal`). Most steps leave all
places alone (`QuietStep`); the others move one task by one place.

`HoldProofs` proves of `HoldSpec`, the scheduler with hold requests:

- `HeldOnceAlways`: `HeldOnce`;
- `HeldSuccessIsFinal`: `SucceededIsFinal`;
- `HeldSuccessIsDeserved`: `SucceededWorkflowMeetsCriteria`.

A request marks its task before it stores it, on a copy of the DAG that may be old;
that only one of several gets past the mark is due to the conditional update, but it must not
become markable again. `HoldNode` says that a task that is held or about to be stored does
not wait any more unless it has failed. A task that has failed may be held twice, which is why
the property excepts it. The other two need an argument of their own, because a task may run
here before what it depends on has succeeded, which `Inv` excludes: no status may follow
"succeeded" (`SuccessStays`), so what a handler has copied of the DAG and of the artifacts stays
true until it takes its verdict and until the verdict is written (`CopiesInv`).

`DagProofs` has the lemmas about the cycle detector and the parser, and `DefinitionsProofs`
proves, for any tasks and dependencies, from `DefinitionAssumption` (dependencies and results
are lists, a dependency is of a task or of an artifact):

- `CyclesAreAlwaysRejected`: `CyclesAreRejected`;
- `ReportedNodesAlwaysHoldACycle`: `ReportedNodesHoldACycle`;
- `StoredDagIsAlwaysTheDefinition`: `StoredDagIsTheDefinition`;
- `AcceptedWorkflowsCanAlwaysFinish`: `AcceptedWorkflowCanFinish`.

The search goes on with what earlier searches have visited. What it has left (visited, not on
the stack) leads only to what was left before and holds no *knot* (a set of nodes to each of
which one of the set leads); a knot always has a member that was not left, so if there is
a cycle, some search is in it and finds it. Conversely a search that reports a cycle has a
stack each of whose nodes leads to the next, and the last to one of them. The stack has no
node twice; when it is as long as the DAG it has every node (`FullStack`), which is why the
recursion needs no more depth than that. Facts about all depths, and all steps of a loop, are shown by the least
counterexample (`LeastNumber`), since the induction theorems of the library cannot be used.

`RenderingProofs` proves, for any files, scenes, workflows and workers, any number of
failures and kills, from `RenderingAssumption` (times of a scene are integers; of the
workflows clients send, each task has something to download, no task overwrites an uploaded
file, and two tasks that have the same result are the same task):

- `StoredArtifactsStayRight`: `StoredArtifactsAreRight`;
- `VideoIsAlwaysTheScene`: `VideoIsTheScene`;
- `PlansAreAlwaysAccepted`: `PlansAreAccepted`;
- `SelectionAlwaysComesThrough`: `SelectionComesThrough`.

What is stored may be stored again, with the same content: that is the induction
(`RenderingInv`). Hence a file that a worker has downloaded for its task stays a copy of the
stored one, for as long as it takes and whatever else is on the disk, and what ffmpeg makes of
it is what it makes of the stored one. The clips are sorted by their starts (the position of a
clip is the number of those before it), and the splice has a key for each, which depends on
its file only and tells files apart (`KeyOfFile`); so the `HashSet` keeps the first clip of
each file (`VideoContent`). If there is one clip of each, the video is the scene. The list of the home page is a
permutation of what was selected: appending to both and dragging keep that (`AppendRearranged`,
`DropRearranged`); its clips start one after the other, so the sort leaves them where they are
(`HomeOrder`), and each file is seen where the list has it first (`HomeVideo`). The plan is
accepted because a splice depends on cuts, which depend on nothing: there is no cycle for the
search to find, and every artifact is the result of one cut. A workflow that breaks the
assumption is accepted by the task manager all the same; the theorems say nothing of it.

**Only model-checked**: what this prover cannot do, which is liveness under fairness
(`WorkflowEnds`, `WorkersReleased`, `BrowserUploadsEnd`, `RenderedVideoIsListed`,
`RenderedVideoIsStored`). Every other property of a passing run is a theorem.

## 5. Plan

Done: every component with state of its own, their abstract specifications `WorkflowLifecycle`
and `FileLifecycle`, and theorems for every safety property the runs check. Left:

1. Two workflows at a time in `Scheduler`, for the node ids they may share.
2. The subscription loop of the worker (`Worker.cs`).

## 6. Not modelled

Bootstrap, configuration and DTO validation, which keep no state; ffmpeg, ffprobe, S3 and
MongoDB but for what is relied on of them; the delays of the executor and the timers of the
frontend; signed links, uploads from a buffer and the creation of the bucket; `validateClip`
(a check of the request alone); the worker's `LocalStorageSystem`, which nothing uses.
