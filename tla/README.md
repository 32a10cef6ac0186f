# Formal specification of orca-validator

TLA+ modules that model the service in this repository, TLC configurations that
model-check them on small instances, and machine-checked proofs (TLAPS) of the safety of
its parts for every value of their constants: delivery, slots and losses of the job queue;
durability of the state machines; agreement of the rows, the verdict and the AI layer of a
run; the bounds of the token budget; attribution by the boot gate; what the page and the
API behind it show; and what the functions on a document return, whatever the document:
its diagram, its chunks, its redline.

    tlc -config MCValidationService.cfg MCValidationService    # one run
    tlapm ValidationServiceProofs.tla                          # the proofs of a module

`PROJECT.json` lists the components, the runs, the mutants that show each property can
fail, the hazards, the theorems, and the source lines each definition translates.

## 1. Inventory

A client uploads a document; the API stores it, records a run and hands it over; a worker
(or, by default, a background task of the API) reads the document, asks a model which
fields it should have, drives a verified state machine to a verdict, has the document
analysed and revised by the model, and stores a result that the client polls for.

| part | state it keeps | operations | what is hard | what makes it correct |
|---|---|---|---|---|
| pipeline (`pipeline/validate.py`) | run, document, result rows; local verdict, AI outcome | `run_validation()`: two transactions around ~6 awaits and up to 19 LLM calls | a failure of any call, a crash between the transactions, a second invocation | rows agree; the verdict is the durable machine's; the AI layer never changes or withholds it |
| bridge (`orca/bridge.py`, `orca/persistence.py`) | registry of machines per process; snapshot per run | `get_or_create`, `send`, `save`, `load` | look-up and registration are awaits apart; a save fails after the transition | the row is one durable machine that only takes transitions of its table; memory is never behind it |
| contract machine (`machines/contract_validation.orca.md`) | state and context | transitions, guards, four actions | guards and computed values must fit | the verdict follows from the missing fields |
| submission (`api/documents.py`) | blob, rows, Redis list or background task | `submit_document()` | three systems, no common transaction | a run is handed over once, after its rows |
| queue and worker (`queue.py`, `pipeline/worker.py`) | list, semaphore, jobs in flight | `enqueue`, `dequeue`, `main`, `_run_one` | a slot on every path, late replies, crashes, a Redis without a volume | slots add up; work is bounded; one holder; losses are accounted for; the backlog is served |
| token budget (`llm/budget.py`, `_chat`) | one counter a day in Redis | check, call, record | check-then-act, fail-open, midnight, lost answers and counters | the overshoot is bounded |
| result API (`api/documents.py`) | none | three reads, two SELECTs each | the run moves between the SELECTs; answers are old when they arrive | no answer is made up or taken back |
| boot gate (`app/main.py`, `orca/verification.py`) | `VERIFIED_MACHINES` | boot, refusal, attribution | deployments between submission and execution | only verified machines run, and are what is recorded |
| web page and its proxy routes (`web/app/page.tsx`, `web/app/api/documents`) | page state, `runToken` | `validate()`, `onDrop()`, a poll every 1.5 s, 240 at most | overlapping uploads, late answers, errors, the end of the loop | the newest analysis is shown, and what is shown is stored; a stored result is shown; the spinner stops |
| extraction (`ocr/extract.py`) | none | `extract`, `merge_core_contract_fields` | | a contract is held to the core fields |
| reader and parser service (`ocr/reader.py`, `ocr/parser_client.py`, `parser/app.py`) | none | `read_document`, `parse_document`, `POST /parse` | two deployments of one function, defaults at two ends | text or an error, never neither; both deployments read alike |
| text chunks (`llm/together.py`) | none | `_split_into_chunks` | breaks at a boundary, blanks | nothing is lost, nothing is empty or too long, few calls |
| redline (`export/redline.py`, `page.tsx`) | none | `clean_revision`, `renderRedline` | two implementations, unbalanced markers, markers that form by a removal, joined chunks | the download has no marker and is what is shown |
| document machine (`orca/document_fsm.py`) | none | parse, normalise, draw | nesting; the copy that is verified is not the one that is drawn | both can enter the same states |
| machines and visits APIs, health, auth, migrations | none, or a single INSERT | | | see section 7 |

Interactions: page -> proxy routes -> API (HTTP, polling); API -> Postgres, blob store, Redis (LPUSH);
worker <- Redis (BRPOP); worker -> parser service, model provider (HTTP), Postgres, Redis
(budget counters); bridge <-> Postgres (snapshots).

## 2. Modules

    ContractMachine --> OrcaBridge ---------------> RunValidation     one run, in depth
           |             |                               |    |
      DurableMachine <~~~/                               |  MachineTopology
                                                         v
                         ValidationService ~~~~~> RunLifecycle <-- ResultApi --\
                                                                             ValidationPage
                                                               WebClient ------/

    TokenBudget     MachineGate     DocumentFsm  TextChunks  Redline  DocumentReader

`~~>` is an implementation (of `DurableMachine` by the bridge's snapshot, of `RunLifecycle` by
the service and by the pipeline), the other arrows are EXTENDS and INSTANCE.
The proofs are in modules of their own:

    OrcaBridge, RunValidation  -->  OrcaBridgeProofs --> RunValidationProofs --> OneInvocationProofs
    ValidationService          -->  ValidationServiceProofs
    TokenBudget                -->  TokenBudgetProofs
    MachineGate                -->  MachineGateProofs
    ValidationPage             -->  ValidationPageProofs
    MCDocuments                -->  DocumentProofs

Each `MC*.tla` extends its module with the symmetry sets and constant values the
configurations need.

* **ContractMachine**: the transition table of `contract_validation.orca.md` with its
  guards and actions as operators over a record (state, context). `Fired` is what
  `OrcaMachine.send()` of the runtime does; the runtime is not in the repository and is
  modelled from its use.
* **OrcaBridge**: the registry of every process, the machines it refers to, the snapshot
  row, and the call every caller is in. `call.pc` names the await where
  `get_or_create()`/`send()` is suspended; one action per stretch between two awaits.
  `save()` is two steps, SELECT and COMMIT. A failing call raises where it is awaited, and
  a failing COMMIT may have been applied. `BridgeNext` lets a caller send any events in any
  order, also after an error, as long as the others are idle or dead (`Alone`): a run is in
  one executor's hands at a time (`OneHolder` of ValidationService, proved). RunValidation is
  the actual client, and `pipeline_twice` the case in which two work at once: there a late
  start does put the snapshot back, and only `SnapshotCoherent` and `ResultWrittenOnce` hold.
* **DurableMachine**: the abstract specification of the bridge: one machine, started once,
  that only becomes what its table can make of it (`Later`). The bridge implements it under
  `machine <- snapshot`; processes, registries, calls and faults are not seen.
* **RunValidation**: `run_validation()`. `task.pc` names the await; `task.out` holds the
  local variables that end up in the result row. A document is reduced to the set of core
  fields the regular expressions find in it (`text`), an answer of the model to a set of
  field names, each present or not, and to whether the document is a contract. The
  analysis, the redline and the document's machine are reduced to their presence.
* **MachineTopology**: the edges of `ai_assessment.orca.md` and `document_pipeline.orca.md`,
  which document the code and are not executed; `PipelineFollowsMachine` says that the code
  follows both.
* **RunLifecycle**: the abstract specification: a run is submitted, claimed and finished,
  once each, and has a result when it is over. It is implemented twice: by the service
  (`LifecycleSpec`, many runs, their queue and their workers) and, for one run from the
  moment it is queued, by the pipeline that ends it (`PipelineIsLifecycle`).
* **ValidationService**: submission, list, worker loops and jobs, with the claim and the
  last transaction of `run_validation()`. A BRPOP is three steps: the item leaves the list
  (`Pop`), travels (`reply`), arrives (`Receive`) or does not (`LateReply`, `DequeueFails`).
  `Queued` is the set of runs that are submitted with `USE_REDIS_QUEUE` on: all of them
  and none of them are the two deployments, anything between a change from one to the
  other. It implements RunLifecycle under the identity mapping (`run`, `result`).
  `RedisRecreated` empties the list (`docker-compose.yml` gives Redis no volume); `flushed`
  remembers the runs that were in it.
* **TokenBudget**: `check_budget()`, the request, INCRBY and EXPIRE of every caller, with
  the key computed from the day at each step as in the code. `spent`, the provider's
  meter, is external. `RedisRecreated` forgets the counters.
* **ResultApi**: a handler is its two SELECTs with the run moving (RunLifecycle) between.
* **MachineGate**: processes, the image each one runs, `VERIFIED_MACHINES`, and for a run the
  hash recorded and the machine that executed it. An image stands for its machine files.
* **WebClient**: every call of `validate()` with its token and the await it is at. The
  test of the token after an await is the guard of the step; `Superseded` is its failure.
* **ValidationPage**: WebClient and ResultApi joined by the proxy routes. A poll is a request
  (`Poll`), a handler of two reads, an answer on its way (`Reply`) and its arrival
  (`Receive`, or `ReceiveError` for whatever is not JSON), with runs executed and files
  dropped at any point. `Visit` is a read by whoever else knows the document's id.
* **DocumentFsm**: `_parse_machine`, `_normalize_for_verification` and `_build_mermaid` as
  functions on documents and machines. A document is its headings, its rows, and which of
  them are above the first "## transitions" (`cut`, `early`): the copy that is verified
  keeps what is above and replaces what is below. What it means to run a machine is two
  things: `Reachable` is how a diagram is read, and `Reached` is what the external verifier
  finds. The verifier does not follow a child's row out of its composite (`Followed`), as
  `document_fsm.py:112-113` and the prompt at `together.py:166-168` say of it, which is the
  only reason why there is a copy.
* **TextChunks**, **Redline**, **DocumentReader**: `_split_into_chunks`; `clean_revision` and
  `renderRedline`; the way from a file to its text, with or without the parser service. A loop
  over a text is a recursive function on sequences (`Chunks`, and `Sub` for all of Redline).
* **Redline** is about characters, since the patterns are: a marker is three of them, a
  text has braces, dashes and plus signs of its own, and what is removed can join others
  into a new marker. `Sub(match, put)` is re.sub(), one pass from the left; a pattern is a
  function to the length of its match at the start of a text (`Deletion`, `Insertion`,
  `Stray`), and `Clean` is the three passes one after the other. The page splits a redline at
  its changes and strips what is between them, which is one pass as well (`Shown`).

## 3. Runs

| run | instance | question and answer |
|---|---|---|
| `bridge` | 2 callers in 2 processes, 2 field names, 2 failing database calls, 1 crash | `DurableSpec`: the row of the snapshot implements DurableMachine, through resumes, failing saves and a crash. `MemoryAheadOfSnapshot`: a registered machine is the snapshot or what that can still become. |
| `pipeline` | 1 task, 3 field names of which 2 are core, 2 chunks, 1 failing database call, 1 crash | `RowsAgree`, `VerdictIsMachines`, `CoreFieldsChecked`, `AiLayerConsistent`, `VerdictSettled`, `VerdictDelivered`; the code follows the two machines that describe it (`PipelineFollowsMachine`) and implements the lifecycle of its run (`PipelineIsLifecycle`). |
| `pipeline_twice` | 2 tasks for one run in one process, no model, 1 failing call, 1 crash | However their awaits interleave: the result is written once and the snapshot is never lost (`ResultWrittenOnce`); state, verdict and reasons of a snapshot go together, even if one start overwrites the other (`SnapshotCoherent`). |
| `no_fields` | 1 task, no fault | Refutes `NoVerdictFromNothing`. |
| `service` | 2 queued runs, 1 background run, 2 workers of 2 slots, 1 fault of each kind, Redis recreated | Slots, single delivery, agreement, losses, and the refinement of RunLifecycle. |
| `service_live` | 2 runs, 2 workers of 1 slot, 1 crash, 1 late reply, 2 Redis errors, Redis recreated | `Settles`: what is accepted is finished or was lost to a fault. `BoundedWork`: with more queued runs than slots, no worker holds more than it has slots. |
| `resume` | 1 run, 1 worker, 1 crash | Refutes `RunsResume`. |
| `token_budget` | 3 callers, budget 3, calls of up to 2 tokens, 2 days, 2 Redis errors, 1 failing call, 1 loss of the counters | `Reserved`: the counter passes the budget by less than a call of each caller and of each check that failed open. `SpendBound`: so does the provider's meter, but for what nobody recorded, and a loss of the counters grants the budget once more. |
| `gate` | 3 images (1 fails the verifier), 2 runs, 4 process starts, in-process mode | `HashIsVerified`, `Attributed`, `OnlyVerifiedRun`. |
| `gate_worker` | the same with a worker | Refutes `OnlyVerifiedRun`. |
| `page` | 2 overlapping uploads, 3 polls each, 1 poll answered with an error, 1 run that is executed | `ShownIsStored`, `StoredIsShown`: a result is shown only of a run that has one, and shown if it is stored with polls to spare. `AnswersAreHonest`, `NeverTakenBack`: of the API. `ShowsTheNewest`, `BusyWhileWaiting`, `StaleWritesNothing`, `SpinnerStops`: of the page. |
| `documents` | machines of 4 shapes with up to 3 rows, the transitions at the end or above the last heading, above or below the rows; texts of up to 7 characters in chunks of 4; redlines written of up to 5 markers and single characters; files of up to 2 pages with a limit of 1 | Each function on every small input: `DiagramAgreesWithVerified`, `ChunksCoverText`, `DownloadIsShown`, `ChunksIndependent`, `UploadsReadAlike`. |

**Bounds.** Fault counters (`MaxCrashes`, `MaxDbErrors`, ...) bound how many faults
happen, not when: each may strike at every step. Two callers are enough for the races of the
bridge and of the claim, which are between a check and an act of two parties. Two slots
and two queued runs let a worker be full, partly full and polling; two workers let a run be
popped by one while the other holds another; the proofs remove these bounds. Three field
names distinguish a core field the model picked, one it dropped and a field that is not
core. A budget of 3 with calls of 0 to 2 tokens meets it exactly, from below and by an
overshoot of each caller. Two chunks of a document distinguish the last one from the others.
Three polls leave one that reads too early, one that fails and one that shows the result, and
`MaxExecuted` only saves states: the run that is not executed is the one that never ends. Four
starts allow a redeployment of each process. The shapes of a machine are flat, with a
composite of two children, with two composites, and nested twice; three rows are enough to
enter a composite, move in it and leave it, or both composites of two at once. Seven
characters need two chunks of four, or three when a break is early. Five pieces of a redline
hold a change with something in it and a stray or nested marker, and one marker inside
another, torn apart by braces or by what is removed.

`MaxFlushed` (runs that can be lost with the Redis list) is the number of queued runs, so it
excludes nothing.

**Symmetry** is used in safety runs only, over runs (queued and not, separately), workers,
callers or verified images, which the specifications treat alike.

**Deadlock** is checked where the system never stops (`bridge`, `service`, `service_live`,
`resume`); elsewhere runs, uploads or calls come to an end, and the configurations say so.

**Fairness.** `RunValidation!FairSpec`: weak fairness of each task's own steps: an event
loop runs what can run, HTTP calls have time-outs (180 s for the model), so each await
answers or raises. Neither faults nor crashes are fair. `ValidationService!Fairness`: weak
fairness of each worker's loop (with Redis serving a blocked BRPOP, and a dead worker being
started again) and of each job; clients need not submit, the API need not accept. The
restart of a dead worker is an assumption about operations: `docker-compose.yml` sets no
restart policy, so without an operator `Settles` would end with the first crash.
`ValidationPage!Spec`: each call makes progress: a fetch is answered or rejected, a handler
goes on, timers fire. That a run is ever executed is not assumed. No strong fairness is used.

## 4. Where the code and its documents disagree

Three disagreements have a run that exhibits them (`findings` in `PROJECT.json`):

* `no_fields`: an answer that is not JSON is given no required fields
  (`together.py:111-112`), so nothing is missing and the machine passes the document. The
  comment there says not to fabricate a verdict.
* `resume`: a claimed run is never executed again (`validate.py:41-42`) and nothing
  re-enqueues it; orca-validation/spec.md:34-36 promises that it resumes. The snapshots
  that would allow it are written, and `DurableSpec` shows that a resumed machine would go
  on where the last one stopped.
* `gate_worker`: only the API runs the boot gate (`app/main.py:27`); a worker
  started from an image that fails it executes runs.

Others were met while modelling, and are visible in the models by changing a constant or
asking for the stated formula:

* `final_state` of an error result is `"error"` whatever state the machine is in
  (`validate.py:88` against `validate.py:3`); `VerdictIsMachines` is therefore about passes
  and fails.
* A spent budget fails the whole run, not only its analysis, because the classification
  is an LLM call in the verdict's `try` (`validate.py:69` against the comment at
  `together.py:29`): `ClassifyFails` with reason "budget".
* Two invocations of one run can both pass the test at `validate.py:41` before either
  commits; the slower one puts a finished run back to running, where it stays when its own
  insert is refused. `RowsAgree`, `VerdictIsMachines` and `CoreFieldsChecked` fail if asked in `pipeline_twice`.
  `OneHolder` (proved) says that the service itself never causes this;
  `tests/test_e2e.py:42-43` does, and relies on it being harmless.
* A BRPOP whose reply is late loses its run without any error (`queue.py:31-35`):
  `LateReply`, counted in `LossAccounted`.
* Without Redis (the default) nothing bounds concurrent runs (`documents.py:69` against
  validation-api/spec.md:13-14); `BoundedWork` is about workers.
* `INCRBY` before and `EXPIRE` after midnight leave a counter without expiry
  (`budget.py:52-53`): `Expire`.
* `GET .../result` can answer `ready` with the status `running`, since the run is read
  before the result (`documents.py:89-99`); `AnswersAreHonest` states what does hold.
* `_normalize_for_verification` calls its copy "reachability-equivalent", "so a well-formed
  nested process isn't falsely flagged 'unreachable'" (`document_fsm.py:114-115`). It can be:
  a row is hoisted to the parent once (`document_fsm.py:126-129`), so a row that leaves two
  composites at once still leaves one in the copy, and the verifier does not follow it. In
  the fourth shape of `documents` (b contains b1, and b1 contains b2) with a row from a to b2
  and one from b2 to a state outside of b, the copy has that one from b1: the state is drawn as
  one that can be entered and called unreachable by the verifier. Hence `Shallow` in
  `DiagramAgreesWithVerified`, and without it the property fails in the run.
* The copy keeps what is above the first "## transitions" (`document_fsm.py:134`), while
  `_parse_machine` reads headings anywhere. A state whose heading is below is drawn, but
  in the copy it has no heading, and if it is initial nothing enters it. Hence `StatesFirst`.
  Rows that are above are in the copy twice, as they are and hoisted, which changes nothing
  that can be reached.
* In the other direction, the rows of a child that cannot be entered are hoisted as well, and
  what they lead to counts as reached: a flaw of the process that the verifier then does not
  report. Hence `NoDeadChild`. Nor is determinism "unchanged" (`document_fsm.py:116`): the
  rows of two children for one event become two rows of their composite.
* `clean_revision` strips "any stray/unbalanced markers" (`redline.py:18`), but each of its passes is
  a single one, and what it removes can leave a new marker behind:
  `clean_revision("{{----")` is `"{--"`, and `"----}}"` becomes `"--}"`. Where that happens the page
  and the download can also differ, for the page looks for all changes before it removes any:
  `"{{--a--}--b--}"` is shown as `"{--b"` and downloaded as `"b"`. It takes a brace of the text
  that touches a marker, and `Apart` says that there is none; `DownloadIsShown` and the theorem
  behind it are about such redlines, and show that this is the only way.
* The revisions of the chunks are joined (`together.py:265`), so one that ends inside a deletion
  swallows the text of the next up to its first closed deletion, on the page and in the
  download; `ChunksIndependent` excludes that chunk and says that nothing else does. A chunk
  that ends inside an insertion swallows nothing, unless a brace of the text touches a marker:
  `"{++"` joined with `"{++}"` is downloaded as two line ends and `"{"`, and not `"}"`.
* Twelve chunks of 8000 characters are "~96k chars" (`together.py:203`) only when breaks are
  late: `ChunksCoverText` gives half of it, 48k, as what is sure to be revised.
* `OCR_DPI` does not reach the parser service (`parser_client.py:22`): it takes effect in
  process only.
* The machine hash of a run is the API's at submission, not the worker's at execution
  (`documents.py:59`): `Attributed` fails in `gate_worker`'s instance.

## 5. What is proved

**The service.** `ValidationServiceProofs.tla`, for any sets of runs and workers (finite or not), any
concurrency, any bound on faults and any choice of queued runs, from `ServiceAssumption`
(the API is not a worker, `NoRun` is not a run, the concurrency is positive, bounds are
naturals) and `QueuedAssumption` (queued runs are runs):

| theorem | statement |
|---|---|
| `ServiceTyped` | `Spec => []TypeOK` |
| `SingleDelivery` | `Spec => []OneHolder` |
| `HoldersKnow` | `Spec => []HoldersAgree` |
| `ResultsMatch` | `Spec => []ResultMatchesStatus` |
| `ServiceImplementsLifecycle` | `Spec => LifecycleSpec` |
| `SlotsConserved` | `Spec => []SlotConservation` |
| `WorkIsBounded` | `Spec => []BoundedWork` |
| `LossesAccounted` | `Spec => []LossAccounted` |

The argument. `OneHolder` alone is not inductive: a run that is enqueued could already be in
the list unless one knows that a request at "committed" has handed nothing over, and a
finished run could be claimed unless the status is tied to the holder. `TokenInv`
(theorem `TokenInvariant`) is the conjunction that is inductive: types, `OneHolder`,
`HoldersAgree` and `ResultMatchesStatus`. A run is treated as a token that moves: a new one
enters the list once (`PushLeft`, `NewToken`), leaves it once (`PopRight`, `PopOne`), becomes
a job (`ReceiveOne`, `BackgroundOne`), or is dropped; every other step leaves each holder
alone or removes some (`FewerTokens`). `LifecycleStep` then reads the refinement off: the
status changes only by the one who holds the run, so each change is a step of RunLifecycle.

`SlotInv` adds, per worker, that its set of jobs is finite and that free slots, jobs and
the poll's slot add up to `WORKER_CONCURRENCY`, and that the API executes no queued run. It is
inductive relative to `TokenInv`: `SlotsReceive` needs `OneHolder` to know that the received
run is not a job of that worker already, or two jobs would be counted as one and a slot
would leak. `SlotConservation` and `BoundedWork` follow (`SlotsBound`).

`LossInv` is inductive relative to `TokenInv` and `SlotInv`. `Accounted` says that the lost runs
are finitely many, however many runs there are, and no more than `Cost`, the price of the faults
so far; `QueuedOnly` that the list, the replies and the workers' jobs hold queued runs only, or
a fault of a worker could be charged for a background run. Each step is shown to lose at most the
runs it drops (`Spares`, `OnlyDropped`), and the faults drop no more than they are
charged for; that a dying worker drops at most `WORKER_CONCURRENCY` runs, its poll's reply
included, is slot conservation.

**The bridge.** `OrcaBridgeProofs.tla`, for any sets of processes, callers and field names,
and any bounds on faults, from `BridgeAssumption` (a caller runs in a process, `None` is
neither a caller nor a machine, bounds are naturals) and under `Alone`, which is part of the
specification:

| theorem | statement |
|---|---|
| `BridgeInvariant` | `BridgeSpec => []BridgeInv` |
| `MemoryIsAhead` | `BridgeSpec => []MemoryAheadOfSnapshot` |
| `SnapshotsCohere` | `BridgeSpec => []SnapshotCoherent` |
| `BridgeImplementsDurable` | `BridgeSpec => DurableSpec` |

The argument has two halves. About the table: an event leaves a machine as it is or takes it to
a state of a higher `Rank` (`FiredLeadsOn`), there are three ranks, so what comes after
anything in `Later(m)` is in `Later(m)` (`LaterClosed`); and an event keeps a coherent machine
coherent (`FiredCoherent`). About the bridge: the snapshot changes at a commit, several
awaits after the machine that is written was read or fired, so the properties alone are not
inductive. `BridgeInv` says what the one active caller may rely on at each await
(`CallerKnows`): while it looks for the row nothing is registered in its process; what it found
is still there when it loads; what it is about to save is what it has in memory; a first save
meets no row; and whatever is registered belongs to it (`RegistryOwned`). `CallStep` reduces a
step of a call to what that step changes, `Committed` says what a commit may write, and
`StepIsDurable` reads the refinement off, for commits that succeed and for those that fail
after they took effect.

**The pipeline, invoked any number of times.** `RunValidationProofs.tla`, for any field names,
processes, invocations and bounds, from the assumptions of OrcaBridge, `PipelineAssumption`
(core fields are field names, a document has a chunk, ...) and `NoneIsNoOutcome`:

| theorem | statement |
|---|---|
| `RunTypeCorrect` | `Spec => []TypeOK` |
| `SharedSnapshotCoheres` | `Spec => []SnapshotCoherent` |
| `WrittenOnce` | `Spec => ResultWrittenOnce` |

`Alone` does not hold here: invocations share registries and overwrite each other's snapshot.
What still holds is `RunSafe`: references are to machines that exist in the process that holds
them (`RefsKnown`), and every machine there is, whether in memory, on its way to a commit or
durable, is coherent (`AllCoherent`). So whichever of them is written, it is a coherent one.

**The pipeline, invoked once.** `OneInvocationProofs.tla`, from the same assumptions and
`Callers = {t}`:

| theorem | statement |
|---|---|
| `RowsOfRunAgree` | `Spec => []RowsAgree` |
| `VerdictsAreMachines` | `Spec => []VerdictIsMachines` |
| `CoreFieldsAreChecked` | `Spec => []CoreFieldsChecked` |
| `AssessmentIsWhole` | `Spec => []AiLayerConsistent` |
| `VerdictStays` | `Spec => VerdictSettled` |
| `FollowsMachines` | `Spec => PipelineFollowsMachine` |
| `ImplementsLifecycle` | `Spec => PipelineIsLifecycle` |
| `SnapshotIsDurable` | `Spec => DurableSpec` |

The hypothesis is what the service guarantees, as a run has one holder (`SingleDelivery`) and is
claimed once (`ServiceImplementsLifecycle`), and it is needed: with two invocations three of these
properties are false (section 4). `PipeInv(t)` is the table of `run_validation()`: for each await,
which machine the bridge was given and what of it is durable (`BridgeKnown`), what the rows hold
(`RowsKnown`), and what is known of the outcome so far: of the fields, the verdict, the
assessment (`OutcomeKnown`). The fields of the document decide every machine the bridge can be
given (`Validating`, `Judged`, `Unreadable`), which is what ties the verdict in the row to the
snapshot, and both to the core fields. Its three parts are operators of the values they relate,
so a step needs an argument only for the values it changes. The action properties and the
refinements are read off from two summaries of a step, `StepsMoveOn` (where the task goes, and
what becomes of its verdict there) and `RowsMoveOn` (what a transaction does to the rows).

The proof of `FollowsMachines` did not go through at first: the CASE by which the state of
the document pipeline is read from the rows had overlapping guards, so its value was TLC's choice
of the first one and not that of the formula. The guards are disjoint now.

**The token budget.** `TokenBudgetProofs.tla`, for any finite set of callers, any budget, size of
calls and number of days and faults, from `BudgetAssumption`:

| theorem | statement |
|---|---|
| `TokenBudgetTypeCorrect` | `Spec => []TypeOK` |
| `CounterReserved` | `Spec => []Reserved` |
| `SpendBounded` | `Spec => []SpendBound` |

`Reserved` is inductive with the types. `SpendBound` is not: it compares the meter with the budget,
but the code only compares the counter with it, and only before a call. `SpendInv` relates all
three: what is spent is in the counter, owed to it by a caller between its answer and its INCRBY, gone
with the counter, or recorded by nobody. A check that failed open is charged once, either
to the present counter or to the meter, and which of the two is lost with the reset of the
counter; hence "for some f of the failed checks" in `SpendInv`. The sums over callers are
cardinalities of sets of pairs (`Owed`), since a sum by recursion would need an induction.

**The boot gate.** `MachineGateProofs.tla`, for any images, workers and runs, from
`GateAssumption`:

| theorem | statement |
|---|---|
| `GateTypeCorrect` | `Spec => []TypeOK` |
| `HashesAreVerified` | `Spec => []HashIsVerified` |
| `AttributedInProcess` | `ASSUME ~UseRedisQueue PROVE Spec => []Attributed` |
| `OnlyVerifiedInProcess` | `ASSUME ~UseRedisQueue PROVE Spec => []OnlyVerifiedRun` |

The hypothesis is the default deployment, in which the API executes its runs; the run
`gate_worker` refutes the second one without it. `SameProcess` is what makes it inductive: a
run that waits in the API is executed by the image that accepted it, because a new image
needs a new process and the old one took its runs with it.

**The page and the API.** `ValidationPageProofs.tla`, for any uploads, visitors, number of polls
and errors, from the assumptions of WebClient and ValidationPage:

| theorem | statement |
|---|---|
| `PageTypeCorrect` | `Spec => []TypeOK` |
| `NewestIsShown` | `Spec => []ShowsTheNewest` |
| `BusyWhileNewestWaits` | `Spec => []BusyWhileWaiting` |
| `StaleNeverWrites` | `Spec => StaleWritesNothing` |
| `AnswersHonest` | `Spec => []AnswersAreHonest` |
| `NothingTakenBack` | `Spec => NeverTakenBack` |
| `ShownResultsAreStored` | `Spec => []ShownIsStored` |

Every step is one of the page or one of the API (`StepsOfParts`), so each has its own invariant.
`PageInv`: no two calls have one token, so one call at most is the newest, and what the page shows
is that call's. `ApiInv`: what a handler has read of the run, and what a client was last told of
it, are old but not wrong, since a run that is over stays as it is; in particular, an
answer that follows a result reads the run as over (`GoodHandler`). `ShownInv` joins them: the
answer on its way to a call is about that call's document, and is true when it arrives.

**Documents.** `DocumentProofs.tla`:

| theorem | statement |
|---|---|
| `EveryDiagramAgrees` | `AgreesWithVerified(doc)` for any document whose headings have different ids, nested to any depth, with any rows |
| `DiagramsAgree` | `Spec => []DiagramAgreesWithVerified` |
| `EveryUploadReadAlike` | `ReadAlike(ext, file)` for any extension, file and limit on pages |
| `UploadsAgree` | `Spec => []UploadsReadAlike` |
| `CutIsLate` | `BreakAt(t) \in 1 .. MaxChars /\ 2 * BreakAt(t) >= MaxChars`, for any longer text |
| `EveryTextCovered` | `CoveredByChunks(text)` for any text and any size of a chunk |
| `TextsCovered` | `Spec => []ChunksCoverText` |
| `EveryDownloadShown` | `CleanIsShown(r)` for any sequence `r` of characters, over any letters |
| `DownloadsAreShown` | `Spec => []DownloadIsShown` |
| `EveryRedlineInParts` | `CleanInParts(r)` for any sequence of characters and any place to cut it |
| `RedlinesInParts` | `Spec => []ChunksIndependent` |

The diagram loses nothing of a machine (`DiagramIsMachine`), so it is the machine that is
compared with its verified copy (`CopyOfMachine` says what the copy holds). `Reachable` is the
least set that is `Inside` a machine, not a closure computed step by step, and this is what
makes the proof possible. What the verifier's rows lead to from the copy, and is nested like
the machine, is `Inside` the machine without its rows that leave two composites
(`DrawnIsVerified`): a child's row out of its composite is a row of the composite in the
copy, which the verifier follows, and whoever is in the child is in the composite. The other way round
the reachable states of the machine are closed under the copy's rows if a composite that can be
entered has no dead child (`VerifiedIsDrawn`). `Spec` is that of MCDocuments, whose four
shapes stand for the ways to nest; the theorems about every document, upload, text and redline
do not depend on it.

The functions on texts and redlines are recursive, and two things about recursion are out of
reach as they stand. TLA+ does not promise that a recursive definition has a solution, and the
library's theorem that it does takes an operator as a parameter. `RecursionHasSolution` proves it
for all of them at once: each puts something out for a sequence (`out`) and goes on with
a shorter one (`next`), so the least set of pairs closed under the definition has one
value for every sequence. `RecursionTyped` says that any other solution has its values in
the same place, so that an unfolded definition can be used (`ChunksUnfolds`, `SubReplaces`).
And there is no induction over data; what it would show is shown of a shortest sequence
of which the statement would not hold (`ShortestOne`), whose rest is shorter.

* *Chunks.* `ChunksArePieces` and `ChunksAreFilled`: the first chunk is what is before the break,
  which is late (`CutIsLate`); lstrip() takes blanks only (`AfterLeaves`), so what the chunks
  of the rest cover of the rest they cover of the text, a few characters further on
  (`PiecesOfPart`, `PieceBefore`).
* *Passes over a redline.* `SubReplaces`: whatever the pattern, `Sub` does what re.sub() does,
  one match or character at a time; the lemmas about a pass are about any pattern whose
  matches are changes or markers (`Cuts`, `Replacements`).
* *No marker forms.* With no brace of the text near a marker, a closing brace among the
  first two characters of a result was there before the pass (`EarlyBrace`), so no marker comes
  first that was not there (`NoNewMarker`), and what stays is `Apart` again (`ApartStays`). Hence no
  marker is left after the last pass (`NoMarkerLeft`).
* *The download.* Unwrapping the insertions makes no difference to what is stripped afterwards
  (`StrippedOfUnwrapped`), so the download is the redline without deletions and then without
  markers; and so is what the page shows, which it finds in one pass, unless an insertion
  has a marker in it (`ShownIsStripped`).
* *Parts of a redline.* A match is the same where the text goes on, unless a change is opened and
  not closed (`MatchInParts`), so a pass over two parts is one over each (`ReplacedInParts`,
  `ClosedInParts`): for the deletions because they are closed, for the insertions for the same
  reason or because unwrapping makes no difference (`JoinedApart`), and for the markers because none
  contains a line end. Without the closed deletions this is false: section 4.
* *The redlines of the run* are written piece by piece, and the inductive invariant is that what
  is written is a sequence of characters (`RedlineIsText`).

## 6. What is only model-checked

Liveness: `Settles`, `VerdictDelivered`, `SpinnerStops` and `StoredIsShown` need fairness and
ENABLED, which the prover does not handle. Every invariant, action property and refinement of
a passing run is proved. The three refuted properties have a counterexample and no proof.

## 7. What is not modelled, and why

* The libraries that open a file, render a page and recognise its text, and the resolution they
  are given: DocumentReader keeps whether there is text. The floor of 36 dpi
  (`reader.py:115`), which a very large page makes exceed the cap on pixels, is
  floating-point arithmetic.
* Of `orca/document_fsm.py`: labels, final states and guards of a document's machine, and the
  verifier, which is external (its answer is shown and nothing else depends on it).
* Prompts, the repair of malformed answers, the layout of exports and of the pages.
* The machines API reads `VERIFIED_MACHINES`; the visit log inserts a row and counts by
  separate SELECTs that nothing else depends on; health and authentication keep no state.
* `OrcaBridge.shutdown()` is never called. Migrations and deployment files are not code of
  the running system, except that a setting that changes control flow is a constant.
* A Redis that comes back with an older dump of its list: the container has no volume, so
  recreating it leaves nothing (modelled), and a dump inside the container that survives a
  restart is a matter of the image's defaults.

## 8. Plan

1. The composition of the service with the pipeline, from `SingleDelivery` and the theorems about
   one invocation: today it is an argument (section 5), with RunLifecycle between the two.
2. Shorter proofs: lemmas that several modules state for themselves (a record one field of which
   changes, a call that moves, the rest of a sequence) could be stated once.
