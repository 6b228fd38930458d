# Verification of PyCForge

PyCForge converts a restricted Python subset to readable C, in a desktop workspace or from the
command line. This directory holds TLA+ models of the workspace's concurrent core and of the
converter, the TLC configurations that check them and the TLAPS proofs of what matters most.
Paths below are relative to the repository root.

## 1. Inventory

### Components, their state and how they interact

| Component | Source | State | Operations | What makes it correct |
|---|---|---|---|---|
| Conversion supervisor | `pycforge/ide/supervisor.py` | `_pending`, `_retired`, `_active` (cancel reason and times, terminal event, protocol failure), counters, `_closed` | `submit`, `cancel`, `close`; coordinator thread `_coordinate` | one answer for each request, truthful verdicts, no worker left behind |
| Worker process and protocol | `process_worker.py`, `worker_protocol.py`, `_worker_*` | the child, two pipes, a cancellation token | `worker_main`, `encode_*`, `receive_event` | an ordered stream with at most one end |
| Workspace controller | `controller.py`, `controller_conversion.py`, `controller_io.py` | one immutable snapshot, `_revision_generation`, `_request_sequence`, `_current_revision`, `_revision_future` | document operations, convert, cancel, open, save, close | C on the screen is that of the documents, or marked stale; clean means written |
| Revision service | `revisions.py` | `_pending`, `_active`, `_latest_submission`, `_closed`, futures | `submit`, `close`; thread `_run` | the newest revision settles, every future ends |
| File I/O service | `io_service.py` | a bounded queue, two threads | `read_text`, `write_text`, `close`; `_atomic_write` | a guarded replacement, one sentinel for each thread |
| Search, position and structure services | `search_service.py`, `positions.py`, `source_structure_async.py` | one active, one latest pending request, cancel tokens | `submit`, `cancel`, `close` | what is shown was found in what is shown |
| Session and history | `workspace_session.py`, `session_history.py` | recent files, 64 conversion records | `append_conversion_history`, restore | the history agrees with the C shown |
| Window | `qt.py`, `qt_projection.py`, `qt_editor_buffers.py`, `qt_documents.py` | text buffers, the document displayed, an edit not yet flushed | `_apply_snapshot`, `_flush_pending_source_sync` | it shows what the controller has |
| Close flow | `qt_close.py` | `_closing`, `_close_save_pending`, modal dialogs | `closeEvent`, `_close_save_completed` | no text is lost without a question, every close has an answer |
| Converter pipeline | `pycforge/converter/facade.py`, `core/` | a stage context, a cancellation token, bounded diagnostics, trace and telemetry | `convert`, one call per stage | an honest status, a cancel that is heeded |
| Modules | `modules/` | a dependency graph, the names of each module | `analyze`, `_publish` | calls mean what they mean in Python, modules are laid out in order |
| Analysis | `analysis/`, `keyword_calls/`, `keyword_only_calls/`, `conditional_regions/`, `numeric_semantics/`, `containers/`, `records/` | facts about each node of a function | analyzers and validators, one pair for each kind of fact | what is accepted can be translated |
| Lowering, C IR and C text | `lowering.py`, `*/lowering.py`, `ir/`, `c_output/`, `support_templates/` | trees of C, text | lower, validate, print, check | the C does what the Python does |
| Laboratory, tools, tests | `laboratory`, `tools`, `tests` | none | audits of evidence | |

The GUI thread calls the controller under one re-entrant lock. Every semantic edit
advances the generation, cancels the conversion in flight and submits the document
set to the revision service, whose thread calls back `_accept_revision` or
`_reject_revision`. `convert_async` submits the authenticated revision to the
supervisor, or waits for the revision's future first. The supervisor's coordinator
thread spawns one process per request and completes its future, whose callback
`_conversion_finished` updates the snapshot. File reads and writes run on two I/O
threads and re-enter the controller from their callbacks. Every publication of a snapshot
reaches the window: in place from the GUI thread, as a queued signal from any other.

In the worker process one thread runs the pipeline (source documents, parse, normalize, modules,
analysis, lowering) and another listens for the cancel command; they share the token.

### What is hard

Four kinds of thread and a child process share the snapshot through callbacks. A callback
runs in whatever thread completes the future it hangs on, and each critical section
re-validates what an earlier one read, or does not. The converter is sequential but for its
token; what is hard there is that many small analyses decide together which programs are
translated, and that each must agree with the lowering and with Python. The hazards, with their
lines and the properties that watch them, are listed in `PROJECT.json`; they fall into these
groups:

- **a request in transit**: a conversion, a revision, a search or a file job moves between
  slots and local variables of a thread, and every path must leave exactly one owner;
- **results that arrive late**: after an edit, an edit undone (equal texts again), a cancel,
  a close, a newer request; and snapshots that arrive after newer ones;
- **check and act in two critical sections**: a guard releases the lock before
  `os.replace`, an open compares the generation before it applies the text;
- **a state that must end**: a busy snapshot, a deferred call, a label that says
  "Searching", a count of saves that a close waits for, a thread after `close()`;
- **one rule repeated in many operations**: the default C destination follows the primary
  document, the mirrors follow the active one, C is retired by whatever changes its input;
- **escalation by the clock**: token, terminate, kill, while the reason may still change;
- **failures inside a stage**: anything raised is caught around the whole pipeline, with a
  bounded list of diagnostics to say so, while events can fail to be sent;
- **names made one**: modules are flattened into one, where imports, parameters, locals and
  functions of other modules may share a name;
- **evaluation moved**: keyword arguments, conditions and chained comparisons put calls into
  temporaries, which may not run where Python makes no call, nor in another order;
- **two opinions of one program**: an analysis and a validator that recomputes its facts.

## 2. Plan

Done, in this order:

1. `LatestRequestService` (what a supervisor promises), `ConversionSupervisor` (the code),
   `ConversionSupervisorProofs`, `SupervisorCancels` (with a history of the cancels asked for).
2. `WorkspaceConversion`, which uses the supervisor through `LatestRequestService`, and
   `WorkspaceConversionProofs`.
3. `WorkspaceDocuments`, the operations under one lock, and `WorkspaceFiles`, which extends
   it with the operations that leave the lock.
4. `SearchService` and `SearchServiceProofs`.
5. `CloseFlow`, the close of the window with its dialogs over the I/O service, and
   `WorkspaceWindow`, what the window shows of the snapshots.
6. `ReportStream` (what a worker promises), `ConversionWorker` (`worker_main` and `convert`),
   `ModuleResolution`, and `Converter`, which composes them and fills in the frontend.
7. The translation of one function: `CallBinding`, `CallRebinding`, `Categories`, `StorageFacts`,
   `FunctionFacts`, `FactValidation`, `CLowering`, `CValidation`, `COutput`, held against the
   evaluators of `Semantics` by `Translation`; `TranslationProofs`.
8. `ConverterProofs`: `ResultIsHonest`, `CancelIsHeeded`, and that every step of the worker is
   one of `ReportStream`; then the layout of modules, what calls mean in the published bundle, and
   what a conversion admits.
9. `WorkspaceDocumentsProofs`, `WorkspaceFilesProofs` and `CloseFlowProofs`; the truthful verdict
   of the supervisor and the history of conversions.
10. The revision service as a second implementation of `LatestRequestService`; the two type
   invariants that were proved in part; the validator of call bindings; `Division`.

Next:

11. `positions.py`, a service with the protocol of the revision service; the outline of the
   bundle in `WorkspaceWindow`, with the requests it retires.
12. The helper registry (`support_templates`), and class bodies in `ModuleResolution`.

## 3. Modules

Every action is one critical section, or one call of the operating system, of one thread; in
the converter it is one turn of a loop, one call or one stage.
A refused operation that raises and changes nothing is a step that cannot be taken.
Definitions named "Variant" in their comment are plausible mistakes; nothing uses them but the
mutation check of `PROJECT.json`, which puts one in the place of the definition it varies.

### LatestRequestService

What callers of a latest-request service may rely on: an accepted request is waiting,
running or dropped until it is answered, once; only the newest waits; nobody is dropped for
being superseded unless a newer request was accepted. Two services of the program are shown to
implement it: the supervisor and the revision service.

### ConversionSupervisor

`pending`, `retired`, `active`, `cancelReason`, `terminal`, `protocol` and the three counters
are the fields of the same meaning; `cancelAge` is the elapsed time as far as the code
distinguishes it (grace, kill limit). `pc`, `batch`, `starting` and
`verdict` are the coordinator's place and locals. `Submit`, `Cancel` and `Close` are
the public calls; `CollectRetired` to `ClearActive` follow `_coordinate`,
`_complete_retired`, `_start`, `_service`, `_drain_events`, `_service_cancellation` and
`_finish_active` from one release of the lock to the next. The worker writes progress, one
terminal event, or with `FaultyWorker` whatever breaks the protocol, and may exit at any time or
never. A generation is the number of the request.

### SupervisorCancels

`ConversionSupervisor` with one more variable: the requests somebody asked to cancel while their
futures were open. No code keeps this set; the tests that hold the futures do, and the run that
compares the code with what they assert needs it.

### WorkspaceConversion

The snapshot's conversion fields, the revision service (`queued`, `job`, `step`, `built`) and
the supervisor as an instance of `LatestRequestService` (`waiting`, `running`, `dropped`,
`answer`). `Edit` is every semantic change: the new generation, the request
to the revision service and the cancel of the conversion. `Convert` is `convert_async` and
`Resume` the callback that converts once the revision is there. `FinishBuild`, `Announce`,
`ResolveRevision`, `NextJob` are the revision thread, with the gap between its decision and
its publication. `ConversionFinished` is the completion callback with its three endings;
`CloseController`, `CloseCancels`, `CloseRevisions`, `CloseSupervisor` the four parts of
`close()`. The document set is one text, and a fingerprint is the text it was computed from
(no collisions). `Revisions` reads the revision service as a `LatestRequestService`: the queued
generation waits, the one with the thread runs from its build until its future is resolved
(`BeingBuilt`), and what a newer one or close cancels is dropped.

### WorkspaceDocuments and MCWorkspaceDocuments

The document set with its active and its primary document, mirrors, the C destination and the
files. Each public operation of `controller.py` on documents is an action that ends in `Mutate`
(`_mutate_documents`), which validates, compares what `_semantic_documents_changed` compares and
publishes. Reading a file into a document counts as a change whenever the text is not empty,
because the code compares the text objects by identity and the file gives a new one. `AddNew` is
`add_document` without a claim about dirtiness, with a path or without: the window never gives one,
a headless caller may, and the text is then taken to be that of the file. An explicit `dirty` is the
caller's own word and is not modelled. `OpenInto` is `open_document` into a document the caller
names, active afterwards or not, and `open_python`. The files are one set: nothing in the
code keeps a C destination from being the file of a Python document, be it chosen or the
`with_suffix(".c")` of a document opened from a `.c` file. All C is one text (`GeneratedC`), which
may equal that of a document.
`AcceptRevision`, `StartConversion`, `EndConversion` stand for the threads of
`WorkspaceConversion`, reduced to what documents see of them. `MCWorkspaceDocuments` has a Python
file with a C file of its own, and one opened as Python whose default destination is itself;
its view leaves out what files hold that are only C destinations, which no action reads.

### WorkspaceFiles and MCWorkspaceFiles

A job of the I/O service is a record of what the starting call captured and of how far it
has come: queued, running, ready (guard passed, before `os.replace`), written or read,
choosing or applying (the two critical sections of `_apply_opened_document`), answered.
`Submit` is `_submit` with its full queue, `Take` the worker loop, `Guard` and `ReplaceFile` the
two halves of `_atomic_write`, `FileFails` every error of the file system before the replacement,
`FinishSave`, `FinishSaveC`, `CheckOpen` the callbacks, `CloseService` the drain and the
sentinels. Other writers of the files, and documents that a headless caller adds with a path, are
not modelled here. `MCWorkspaceFiles` names the files. The view of the run `Files` (`WhatMatters`) tells
jobs apart by where they are and not by their numbers, threads by what they hold and not by
their names, and of a generation whether it is still the current one.

### SearchService

The service (`generation`, `pending`, `searching`, `step`) and the find bar (`waiting`,
`expected`, `armed`, `shown`) joined by the queued signal (`signals`). `ScheduleRefresh` is
what every change of the text, the query or the bar does; `SubmitSearch` the timer; `Decide`
and `Deliver` the worker's decision under the lock and its callback after it. A search is
what it looks at, text and query together.

### CloseFlow

`closeEvent` flushes the editor, asks about the dirty documents, and on Save All starts a save
for each, through a file dialog where a document has no file. `saves` holds the jobs of the I/O
service with their stage, `signals` the completions the event loop still has to deliver, and
`dialogs` the stack of modal dialogs: each runs a nested event loop, so timers, completions and a
second close are handled while it is open. `CloseSaveCompleted` counts `closePending` down and
`Conclude` decides what `_close_save_completed` decides at zero. The threads take
saves, check their guards, replace files or fail.

### WorkspaceWindow

The controller reduced to the texts, the dirty marks, the active document and whether the
revision is authenticated; the window with its buffers and keys. `PublishHere` projects in
place, `PublishElsewhere` queues the snapshot, `DeliverSnapshot` is `_apply_snapshot` for a queued
one. Actions of the user that begin with a flush are split where the controller's lock is
released: `todo` is what the handler has still to do.

### ReportStream, ConversionWorker, MCConverter

`ReportStream` is what the supervisor may rely on: stages told in order and without a gap, one
end at most, nothing after it, and an exit. `ConversionWorker` follows `worker_main` and `convert()`
call by call (`at`): the stages with the check of the token before and after each, the
outcomes a stage may have (completed, rejected, cancelled, an exception, `MemoryError`), the
bounded diagnostics, `_result` with its own validation, and the events with their latch
(`muted`) once one cannot be sent. The second thread sets the token.

### ModuleResolution, Converter

The modules stage: for each module the fault of its shape, its imports and their resolution, the
fault of each use of an imported binding, then the order, one turn of the loop of
`_dependency_first_order` at a time. `Flattened` is what the calls of the published
bundle refer to, and `CallsMeanTheSame` compares it with what Python's own rules say
(a definition that translates no code). `Converter` composes this with the worker and
gives the first stages their content: sizes and ceilings of the documents. What analysis and
lowering come back with is open there; `Translation` looks inside.

### CallBinding, CallRebinding, PythonCalls

Which parameter an argument binds and which calls are refused with which code, for calls with
keywords, for callees with keyword-only parameters and for plain calls. Without recursion.
`ParameterOrdinal` is what is recorded of an argument, also in a call that is refused.
`CallRebinding` is the validator that binds the call again: two passes over the arguments, each a
recursive function, that fill a table of the parameters and note what cannot be bound.
`PythonCalls` is the rule of the language it is held against, and translates no code.

### Categories, StorageFacts, FunctionFacts

What the analysis finds out. `Categories` is the tree of a function and the category of every
value, found by a work list until nothing changes (`Settled`). `StorageFacts` are the containers
and records: which literals have a supported shape, which accesses lie within them, which
classes are records, and the rounds in which they are found with the categories (`Found`).
`FunctionFacts` are calls, definite assignment, returns, loop targets, approved numbers and
conditional regions, and the two points at which a program is refused.

### FactValidation

The validators that compute each fact again, in another way, and fail the conversion when they
disagree: the binding of calls (through `CallRebinding`), the categories by form, numbers, regions,
containers and records.

### CLowering, CValidation, COutput

`CLowering` makes C of a function: temporaries for staged arguments and conditions, guarded
regions, helpers for floor division and modulo, arrays and structs. `CValidation` is the validator of
that tree, scope by scope. `COutput` prints it to tokens with parentheses by rank, reads
the tokens with the parser of `conformance.py` and, as a C compiler does, into the tree that is
then run.

### Semantics, Division, Translation, MCTranslation

`Division` is // and % of Python, / and % of C, and what the two helpers of
`support_templates/factories.py` make of the latter; `Translation` assumes nothing of it but has TLC
compare it with the trees of the helpers (`HelpersDivide`).
`Semantics` has two evaluators, for the Python and for the C, that record each call of an opaque
function and answer it from a list. `Translation` takes a function through analysis,
lowering, validation and printing, then runs both on the same arguments. `MCTranslation` names the
families of functions.

### The proofs

`ConversionSupervisorProofs`, `WorkspaceConversionProofs`, `WorkspaceDocumentsProofs`,
`WorkspaceFilesProofs`, `SearchServiceProofs`, `CloseFlowProofs` and `ConverterProofs` hold the
theorems of section 5, each about the module in its name; `TranslationProofs` is about
`CallBinding`, `CallRebinding` and `Division`.

## 4. Runs

All runs finish in minutes with two workers of TLC. Deadlock is checked in the supervisor,
conversion and converter runs, where a system at rest can still be closed, or has exited and
stutters. The document, file, search, close and window runs bound the number of operations, after
which nothing is enabled, and the translation ends with its last stage: they say
`CHECK_DEADLOCK FALSE`.

| Run | Module | Shows |
|---|---|---|
| Supervisor | ConversionSupervisor | every order of submit, cancel, close, start, death and clock, with workers that hang, die at any moment or break the protocol: no request lost or answered twice, nobody waits behind a worker that is not being stopped, exit is clean, verdicts are true to what was written, stops complete, the waiting request is served, close ends, and `LatestRequestService` is implemented |
| SupervisorLostCancel | SupervisorCancels | **violation**: a cancel during the start of the worker is lost |
| Conversion | WorkspaceConversion | two edits between a text and one the revision builder refuses, and two conversions: what may be saved, what is authenticated, what is busy, what is stale, a history that drops the entry of the first conversion when the second ends and agrees with the C shown; busy ends, callers are answered, revisions settle, and the revision service implements `LatestRequestService` |
| Documents | MCWorkspaceDocuments | two documents, two names, two texts, three files of which one is a C destination and a document's file too, two semantic changes, all operations: the link follows the primary document, the mirrors the active one, C is retired by every change of its input, and a clean document strays from its file by two steps only |
| Files | MCWorkspaceFiles | three operations on two threads and a queue of two, against an edit, an added document, conversions, close: the queue keeps to its capacity and is drained, every operation has its answer when the threads are gone, and a clean document was once what its file held |
| FilesStaleC | MCWorkspaceFiles | **violation**: an edit between guard and replacement lets stale C replace the file |
| Search | SearchService | matches shown are those of the text and query shown, "Searching" ends while the worker lives, the worker returns after close; one subject ends the worker |
| Close | CloseFlow | two documents, two threads, nested dialogs: the window closes only over text that was written or discarded, the count of saves comes down, Save All always has an answer |
| CloseLosesSource | CloseFlow | **violation**: two overlapping saves of one document replace its file in the other order, and the window closes over the older text |
| WindowOutOfOrder | WorkspaceWindow | **violation**: a snapshot queued before the user chose another tab is projected after it, and every pane stays with the former document |
| Converter | MCConverter | a whole conversion of three modules, cancelled at any moment, with events that cannot be sent: an honest result, the cancel heeded, ceilings over the bundle, calls that mean what they meant, a sound order, and the stream of `ReportStream` |
| Translation | MCTranslation | the printed C behaves as the Python, calls bind as in Python, and what analysis and lowering accept no validator refuses, but for two causes named in the property |

Each violation disagrees with a line of the documentation, a test or a comment, quoted in
`PROJECT.json` under `findings`. Behaviour that the models have and no run forbids, because no
document says otherwise or the code does it whenever two steps meet:

- *Documents.* Two steps make a clean document differ from its file, and closing then asks nothing;
  `CleanStaysOnDisk` names both and excludes every other. `add_document` with a path and
  a text of the caller's, without `dirty`, gives a document that is clean and was never written
  (`controller.py:499`). `link_generated_c`, `save_generated_c` and the default destination do not
  look whether an open document owns the file (`controller.py:786-849`), so Save C may replace its
  Python by C.
- *Files.* With the default two I/O threads, two operations on one file can leave a clean document
  that differs from it: `CleanWasWritten` is the weaker promise, which holds. Two Save As of
  different documents to one path both pass the guard. An open whose document is edited
  between the comparison of the generation and the application of the text overwrites the edit
  (`controller_io.py:36`). A Save C that ends publishes the destination it began with, also over
  one chosen meanwhile (`controller_io.py:189`).
- *Search.* An unpaired surrogate in the text or the query ends the only search thread
  (`search_service.py:55`, `:251`); every later request stays pending.
- *Conversion.* A save, or another change that is not semantic, publishes `source_fingerprint` from
  the last revision while the next is being built; `MirrorsAgree` holds because it
  speaks of authenticated snapshots. A result whose completion has begun when the user cancels is
  still published. `wait_idle` is true while a worker is being started.
- *Window.* The cause of `WindowOutOfOrder` has more effects than the property names: Save Python
  saves the document the controller has active (`qt_documents.py:309`), which is not the one shown; an
  older text replaces a newer one in the editor until the next announcement of a revision, and
  what is typed in between is typed into the older text; a document that was removed may be shown
  again, and typing into it makes every later flush fail, so that a close is ignored.
- *Worker.* With `max_diagnostics` 1, a rejected stage and an exception in `_result` give an internal
  failure without the code that marks one. `MemoryError` inside a stage is reported as any other
  exception. The listener reads one command and returns. An integer of more than 19
  digits in a document is rejected by the lowering, but the result that says so carries it and
  is refused by the supervisor's reader (`_worker_protocol_json.py:97`), which reports
  a protocol failure instead: `Converter` has the refusal, not the reader.
- *Translation.* Programs that the analysis and the lowering accept and a validator refuses, which
  ends as an internal failure in place of a diagnostic: `x = 1; x = -p` with `p` a boolean, and
  `x = 1; x = y` with `y` bound nowhere (PYC9601, the C validator); `Pair(a, -p)`, a container bound
  to a parameter, `q = Pair(a, p); a = q.b`, and a rebound parameter passed to a callee
  with keyword-only parameters (PYC9501, the validators of the facts). `ValidatorIsLastResort`
  excuses the two causes, the negation of what is no number and a parameter bound to another
  representation. A `range` loop whose last increment passes int64 overflows in C;
  the documentation disclaims overflow.

### Bounds

- *Supervisor*: with two requests one is at work, retired or starting while the other waits
  or is submitted; every action and branch is taken, the escalation needs two ticks of the clock,
  and a worker may break the protocol. The theorems of section 5 cover any number of
  requests. `DrainLimit` is 64 in the code; what matters is that one conversion writes fewer
  events than one drain reads, an assumption of the module (`DrainAssumption`): the drain before
  the decision then sees everything the worker wrote.
- *Conversion*: an edit and its inverse with a conversion before and after is the shortest ABA,
  with a text the builder refuses between. `HistoryLimit` (64 in the code) is 1 and there are two
  conversions, so the second entry drops the first, and the list is full when it is appended. That
  longer lists keep the order of their entries is left to `HistoryIsTrue`. The safety properties are
  also proved for any bounds.
- *Documents*: two documents give one that is primary and one that is not, one active and one
  not; `MaxDocuments` (64 in the code) is reached. What a third would add is an order of the
  two that are not primary. Two texts besides the empty one, so that C written over a document
  may equal its text or not.
- *Files*: two jobs waiting fill the queue (`Capacity` is 2), so a third operation is
  refused until a thread has taken one; two under way are the fewest that can cross, on the two
  threads of the default service, which are interchangeable.
- *Search*: three subjects, one empty and one that ends the worker; generations enough to submit,
  overtake, cancel and submit again.
- *Close*: two documents, so that Save All saves one and asks about another; two texts, two edits,
  saves and closes, so that a save can overlap an edit, another save and a second close.
- *Window*: three documents so that one can be opened or added beside two; two edits, two actions
  of the user and one save. The counterexample needs one save and one action.
- *Converter*: the six stages of the code; three modules, the fewest for a cycle beside
  a module outside it, a diamond's half and a name two modules away; 43 bundles;
  `MaxImportEdges` 4 is exceeded by one of them; two diagnostics, so that the list overflows.
- *Translation*: 14,093 functions in families (calls of two signatures, nested conditions
  and comparisons, operators within operators, bodies with each kind of statement, containers,
  records, rebound parameters), on arguments from {-1, 2}, with three lists of answers
  and three turns of loops. `MaxElements` and `MaxFields` are 2 (64 in the code) so that
  both are exceeded. The verdict of the model (refused, failed, converted) was compared with that
  of the converter itself on every one of these functions: they agree but for 50, whose
  containers or classes exceed the model's two elements or fields and not the code's 64.

### Fairness

Weak fairness of the threads the program starts and never blocks: coordinator, revision thread,
I/O threads, search worker, event loop and timers, the thread that converts; of the clock; of
SIGKILL; and of `close()`, a straight line of code once it has begun. None is assumed of the user,
of a dialog's answer, nor of a worker process that has not been killed as the supervisor
sees it. In `Conversion` a running request is answered in the end: for a stopped one this is
what `Supervisor` shows, for the others it says that the converter terminates, which
`Converter` shows of its loops as far as they are modelled and which the code cannot justify by
itself for the rest. `FilesStaleC` is checked with the fairness of the I/O threads, so that its
violation does not rest on a thread that never runs.

## 5. Proofs

TLAPS checks, for every value of the constants that satisfies the named assumptions:

- **ConversionSupervisorProofs**: type correctness, `NoLostRequest`, `WaitingStopsRunning` with
  `ClosedStops`, `LatestWaits`, `CountersBalance`, `CleanExit`, `StopIsIrrevocable`, and
  that the supervisor implements `LatestRequestService`. `NoLostRequest` alone is not
  inductive: it says nothing of where the coordinator is. `ControlInv` ties each local
  variable to the program counter, and `PlaceInv` says request by request which slot has it.
  On top of that invariant, `StopInv`, `BlameInv`, `CountInv` and `ExitInv` each carry one
  property. The refinement is proved action by action: five actions are steps of the
  service, all others stutter. `TruthfulVerdict` adds what the coordinator knows of the worker's
  stream: what it has read and what is left in the pipe are together what was written.
- **WorkspaceConversionProofs**: `SavableIsCurrent`, `AuthenticatedIsCurrent`, `BusyHasAnEnd`,
  `MarkedStale`, `DeferralIsFinite`, and `LastKnownGood`. The invariant
  has five parts. `TextInv` is the heart: whatever is on its way (revision, job, capture,
  result) and has the current generation has the current text; this is what makes the
  comparison of generations enough under ABA. `RequestInv` orders the requests, `StateInv` says
  what each state of the workspace promises of request and result, `ServiceInv` where the
  revision thread is and which futures are still open, `CallInv` whom deferred calls wait for.
  `HistoryTellsResult` adds which request the newest published entry is of. `TypesAreKept` is the
  whole of `TypeOK`; the bound of the history and the flags of the snapshot are invariants beside
  the five parts. `RevisionsRefine` shows that the revision service implements
  `LatestRequestService`. Four steps change what the service shows: an edit accepts a request and
  drops the queued one, the thread takes a request, a future is resolved, close drops what waits.
  All others stutter. The steps that drop need `ServiceInv`: the generation they cancel still has
  an open future (`DroppedIsCancelled`).
- **WorkspaceDocumentsProofs**: every reachable bundle is one that `_validate_documents` accepts,
  `MirrorsAgree`, `LinkFollowsPrimary`, `ChangeRetiresC` and `CleanStaysOnDisk`. Every operation ends
  in `Mutate`, so the work is in what each hands to it: a sequence of documents with distinct
  identities and names and one primary. `IInv` is that, the mirrors, and that a retained revision
  holds texts. The link is an invariant on top of it. That clean documents stay on disk is
  a property of steps, proved operation by operation: each document of the new bundle is one of the
  old, one added, one read or one written, and saving writes only the file of the document
  itself, which no other has.
- **WorkspaceFilesProofs**: `SentinelForEach`, `GoneMeansAnswered`, type correctness (`FilesTypeOK`),
  `CleanWasWritten`, and that the bundle stays valid and mirrored under the threads. The invariant is
  `IInv` of the documents and `ShopInv` of the service: a queued job is in the queue once, one
  under way has a thread of its own, and what a job captured when it began still fits the operation
  its callback makes of it. After close the queue holds nothing but sentinels, as many as there are
  threads left. `LinkFollowsPrimary` and `CleanStaysOnDisk` are proved of the operations alone: the
  threads do not keep them, as section 4 says of files and `CloseLosesSource` shows.
- **CloseFlowProofs**: `ClosingAsksFirst`, `PendingHasAnEnd`, type correctness. The invariant is not
  about dirty marks, which a save may set again while the question is on the screen, but about
  documents that are safe, which means blank or written by a save: a clean document is safe,
  and while the question is open nothing is left in the editor and every document outside the
  question is safe. `PendingHasAnEnd` is inductive with the types.
- **SearchServiceProofs**: `MatchesAreCurrent`, and type correctness. The invariant says that no request, be it
  pending, with the worker or in a queued signal, is ahead of the service (`Behind`), that an
  open bar and its service count together (`Together`), and that what the bar expects was
  asked about what it shows (`Fresh`).
- **ConverterProofs**: `ResultIsHonest` and `CancelIsHeeded`, the safety part of
  `StreamIsTold`, `OrderIsSound`, `CallsMeanTheSame` and `ConvertedIsAdmitted`, for a pipeline of any length, any bundles and any policy. What the stages do
  is, to the pipeline, one of five outcomes (`StepIsWorkers`), so the invariant is about
  `ConversionWorker` alone. `ResultIsHonest` is not inductive, as it says nothing before there is
  a result: `Honesty` says that the pipeline is left early with a diagnostic in the collector,
  which needs a collector with room for one (`KeptSomething`, from `WorkerAssumption`), and
  `Counting` how many stages there can be where. `Heeding` adds that a worker about to accept an
  artifact with the token set was already there when it was set. For the stream, `Telling`
  counts the events that have been sent at each point of the loop, unless one failed. `LayoutInv`
  is the invariant of the layout: a module waits for exactly the imports not laid out yet, so a
  complete order is free of cycles, and modules left over import each other; the one of them that
  reaches the fewest is on a cycle (`StuckMeansCycle`). `AdmittedSoFar` says what each stage that
  came back has excluded. `CheckedSoFar` says the same of the loops of `analyze()`: names are bound
  once, imports lead to functions of the bundle and to no other import, no function binds the name
  of an import. From this alone `Renaming` shows that what a call refers to after the renaming is
  what Python makes of it. Python's rule follows imports by a recursive function; in a published
  bundle one import is all there is to follow, so its values can be written down (`Values`) and be
  shown to solve the recursion, without an induction. From the assumptions on a bundle: it has a
  document, its IDs are unique, its statements are numbered.
- **TranslationProofs**: a call that is not refused hands every parameter exactly one argument,
  of its category, for any signature and any call (`SupportedCallsBindOneToOne`), and it is
  the argument Python would hand it (`CallsBindAsInPython`, which says of every call what
  `CallsBindLikePython` says of those in the programs of the run `Translation`).
  Places of positional parameters differ because the arguments before them are sets of
  different size (`PositionsDiffer`), the others by their names (`TargetsDiffer`), and
  `EveryArgumentBinds` leaves none over. The converse, that nothing is refused but unpacking and
  categories, counts: in a call Python accepts the parameters and the arguments are in bijection
  (`CallableCounts`), so the comparison of their numbers refuses none.
  `ValidatorBindsAlike`: the validator's own walk over the arguments gives each the parameter the
  analyzer gave it, and the same verdict, in every call, refused ones included. The walk is a
  recursive function, and no induction over it can be had from the library. Instead its
  value after n arguments is written down in closed form from the analyzer's operators
  (a picture of the table), and the least number of arguments for which the walk differs from
  its picture is shown not to exist (`AlikeThroughout`, `GoOnAlike`).
  `HelpersDivideAsPython`: the helpers for // and % give what Python gives, for all operands but a
  zero divisor, and `HelpersStayInRange`: under the preconditions they are registered with, every
  value they compute has a place in the type of the operands, at any width of integers. Both rest
  on `Signs`, which reduces the division of signed operands to that of their magnitudes, after
  which only linear arithmetic is left.

Each proof module lists one lemma for each action, or for each group of actions with the same
effect, and derives the theorems at the end.

Proved and not in a run: the type invariants, and, because the refinement shows them there,
`LatestWaits`, `CountersBalance`, `StopIsIrrevocable`.

Only model-checked: `SameBehaviour`, `CallsBindLikePython` and `ValidatorIsLastResort` of the run
`Translation`, and liveness. Liveness needs ENABLED, which is out of the prover's reach. The three
invariants rest on analyses, a lowering and evaluators that are RECURSIVE operators over trees,
and what those compute for every tree needs an induction over data that the provers cannot be
given. What is proved of the translation are the parts that need none: the binding of calls, its
validator, and division.

## 6. What is left out

- *Workspace*: `wait_idle`, snapshots and counters read by tests and displays: queries.
  `save_generated_c_async`, which is `save_generated_c_linked_async` with a destination of its
  own and the same guard; preferences; the session file.
- *Supervisor*: a start that fails after the child runs (`supervisor.py:319-341`) terminates the child,
  waits 0.1 s for it and forgets it; `StartFails` takes it for gone, so `CleanExit` speaks of
  the workers that were installed. The request is sent without a timeout (`supervisor.py:310`): a
  child that never reads a request larger than the pipe would hold up the coordinator, and every
  liveness property with it; `StartWorker` takes the sending to return.
- *Files*: writers of the files other than this program, and a crash of the machine between the
  writing of the temporary file and its replacement: the code keeps no record to recover from.
  Collisions of fingerprints.
- *Close*: the edit of a document's name still pending in its field, which `closeEvent` does not
  commit, and a Save C under way when the window closes. A flush that fails, after which the close
  is ignored (`qt_close.py:101-103`, `qt_documents.py:94-98`): `Flush` succeeds.
- *Window*: the outline, the generated C, markers, themes and layout, all recomputed
  from the snapshot that is projected.
- *Position index* (`positions.py`): a one-slot service of the shape of the revision service.
- *Worker*: the forms of requests and envelopes, the decision trace and the telemetry, which
  record and decide nothing.
- *Modules*: names equal to a logical module ID used as values, dynamic imports, bodies of
  classes, and the validator that recomputes the plan. The names a function binds are one set in
  `Flattened`, for Python's locals and for `_function_shadow_names` (`analysis.py:1092-1109`), which
  looks at parameters, targets and nested definitions: the two are taken to agree.
- *Analysis*: floats, functions refused for their signature or for recursion, comprehensions,
  stores to elements and fields (all refused always), methods and keyword arguments of a
  construction; identities, rule plans and provenance in the facts and the schema checks
  of their validators.
- *C output*: the spelling of names, escapes of strings, includes, the source map, and the
  registry of helpers.
- *Laboratory, release tools, tests and schemas*: about half of the lines of the repository. They
  audit evidence of releases and hold no state of the program, so nothing of them is modelled.
