------------------------ MODULE ConversionSupervisor ------------------------
(***************************************************************************)
(* ProcessConversionSupervisor (ide/supervisor.py): one spawned worker     *)
(* process at a time, one replaceable pending request, and a coordinator   *)
(* thread that starts, watches, stops and reaps the worker and completes   *)
(* the futures.                                                            *)
(*                                                                         *)
(* Three kinds of process interleave:                                      *)
(*   - callers (the GUI thread and the revision thread, through the        *)
(*     controller): Submit, Cancel, Close, each one critical section of    *)
(*     the supervisor's condition;                                         *)
(*   - the coordinator thread, whose program counter pc stops at every     *)
(*     place where it does not hold the lock;                              *)
(*   - the worker process, which writes events into a pipe and exits.      *)
(* A generation is the number of the request, as the controller gives      *)
(* them: 1, 2, ... in order of submission.                                 *)
(***************************************************************************)
EXTENDS Integers, Sequences

CONSTANTS
    MaxRequests,     \* requests submitted (model bound)
    MaxEvents,       \* events one worker writes into its pipe
    DrainLimit,      \* events read by one call of _drain_events (64)
    FaultyWorker     \* may the worker break the envelope protocol?

ASSUME BoundsAssumption ==
    /\ MaxRequests \in Nat
    /\ MaxEvents \in Nat
    /\ DrainLimit \in Nat \ {0}

ASSUME FaultyAssumption == FaultyWorker \in BOOLEAN

(* One conversion writes fewer events than one drain reads. *)
ASSUME DrainAssumption == MaxEvents <= DrainLimit

Requests == 1 .. MaxRequests
None     == 0        \* no slot: generations are positive

Reasons  == {"superseded", "canceled", "closed"}
Retirals == {"superseded", "canceled"}
Failures == {"startup-failure", "malformed", "duplicate", "abrupt", "failure"}
Outcomes == {"result"} \cup Retirals \cup Failures
Events   == {"progress", "result", "failure", "malformed"}

VARIABLES
    submitted,       \* requests submitted so far
    closed,          \* _closed
    pending,         \* _pending
    retired,         \* the slots in _retired
    retiredAs,       \* the exception a retired slot will be given
    active,          \* _active.slot
    cancelReason,    \* _active.cancel_reason, "none" while cancel_requested_at is None
    cancelAge,       \* 0, 1, 2: time since cancel_requested_at reached the grace, the kill limit
    signals,         \* cancel_frame_sent, terminate_sent, kill_sent
    terminal,        \* _active.terminal_event
    protocol,        \* _active.protocol_failure
    started, reaped, forced,   \* the worker counters
    future,          \* the future of every slot
    pc,              \* where the coordinator is
    batch,           \* coordinator's local: the retired slots it is completing
    starting,        \* coordinator's local: the slot it is starting
    drained,         \* coordinator's local: events read by this drain
    verdict,         \* coordinator's local: what _finish_active decided
    worker,          \* the child process
    emitted,         \* number of events the child has written
    sent,            \* the terminal event the child has written
    pipe             \* event pipe

lockVars   == <<closed, pending, retired, retiredAs>>
activeVars == <<active, cancelReason, cancelAge, signals, terminal, protocol>>
countVars  == <<started, reaped, forced>>
localVars  == <<batch, starting, drained, verdict>>
workerVars == <<worker, emitted, sent, pipe>>
vars == <<lockVars, activeVars, countVars, localVars, workerVars, submitted, future, pc>>

Init ==
    /\ submitted = 0
    /\ closed = FALSE
    /\ pending = None
    /\ retired = {}
    /\ retiredAs = [r \in Requests |-> "none"]
    /\ active = None
    /\ cancelReason = "none"
    /\ cancelAge = 0
    /\ signals = {}
    /\ terminal = "none"
    /\ protocol = "none"
    /\ started = 0 /\ reaped = 0 /\ forced = 0
    /\ future = [r \in Requests |-> "open"]
    /\ pc = "retire"
    /\ batch = {}
    /\ starting = None
    /\ drained = 0
    /\ verdict = "none"
    /\ worker = "none"
    /\ emitted = 0
    /\ sent = "none"
    /\ pipe = <<>>

-----------------------------------------------------------------------------
(* Callers. *)

(* Variant: the replaced slot is overwritten, not retired. *)
RetirePendingForgets(failure) == UNCHANGED <<retired, retiredAs>>

(* Put the pending slot on the retired list with its exception. *)
RetirePending(failure) ==
    /\ retired' = retired \cup ({pending} \ {None})
    /\ retiredAs' = [r \in Requests |-> IF r = pending THEN failure ELSE retiredAs[r]]

(* _request_cancel_locked: the first reason stays, except that "closed" wins. *)
RequestCancel(reason) ==
    /\ cancelReason' = IF cancelReason = "none" \/ reason = "closed"
                         THEN reason ELSE cancelReason
    /\ UNCHANGED <<active, cancelAge, signals, terminal, protocol>>

(* Variant: the active worker is left alone. *)
StampActiveNever(reason) == UNCHANGED activeVars

StampActive(reason) ==
    IF active # None THEN RequestCancel(reason) ELSE UNCHANGED activeVars

Submit ==
    /\ ~closed
    /\ submitted < MaxRequests
    /\ submitted' = submitted + 1
    /\ pending' = submitted + 1
    /\ RetirePending("superseded")
    /\ StampActive("superseded")
    /\ UNCHANGED <<closed, countVars, localVars, workerVars, future, pc>>

(* cancel(generation), or every request for cancel(None). *)
CancelTargets == {{g} : g \in Requests} \cup {Requests}

Cancel(targets) ==
    /\ IF pending \in targets
         THEN pending' = None /\ RetirePending("canceled")
         ELSE UNCHANGED <<pending, retired, retiredAs>>
    /\ IF active \in targets THEN RequestCancel("canceled") ELSE UNCHANGED activeVars
    /\ UNCHANGED <<submitted, closed, countVars, localVars, workerVars, future, pc>>

Close ==
    /\ ~closed
    /\ closed' = TRUE
    /\ pending' = None
    /\ RetirePending("canceled")
    /\ StampActive("closed")
    /\ UNCHANGED <<submitted, countVars, localVars, workerVars, future, pc>>

-----------------------------------------------------------------------------
(* The coordinator thread: _coordinate and what it calls. *)

(* future.set_result / set_exception behind "if not future.done()". *)
Complete(r, outcome) ==
    future' = [future EXCEPT ![r] = IF @ = "open" THEN outcome ELSE @]

(* _complete_retired, the part under the lock. *)
CollectRetired ==
    /\ pc = "retire"
    /\ batch' = retired
    /\ retired' = {}
    /\ pc' = "complete"
    /\ UNCHANGED <<closed, pending, retiredAs, activeVars, countVars, starting, drained,
                   verdict, workerVars, submitted, future>>

(* _complete_retired, one future, without the lock. *)
CompleteRetired ==
    /\ pc = "complete"
    /\ \E r \in batch :
          /\ Complete(r, retiredAs[r])
          /\ batch' = batch \ {r}
    /\ UNCHANGED <<lockVars, activeVars, countVars, starting, drained, verdict,
                   workerVars, submitted, pc>>

Scheduling == pc = "complete" /\ batch = {}

TakePending ==
    /\ Scheduling
    /\ active = None
    /\ pending # None
    /\ starting' = pending
    /\ pending' = None
    /\ pc' = "start"
    /\ UNCHANGED <<closed, retired, retiredAs, activeVars, countVars, batch, drained,
                   verdict, workerVars, submitted, future>>

(* Variant: the retired list is not looked at before leaving. *)
ExitLoopEarly ==
    /\ Scheduling
    /\ active = None
    /\ pending = None
    /\ closed
    /\ pc' = "exited"
    /\ UNCHANGED <<lockVars, activeVars, countVars, localVars, workerVars, submitted, future>>

ExitLoop ==
    /\ Scheduling
    /\ active = None
    /\ pending = None
    /\ closed
    /\ retired = {}
    /\ pc' = "exited"
    /\ UNCHANGED <<lockVars, activeVars, countVars, localVars, workerVars, submitted, future>>

(* Nothing to do: wait POLL_SECONDS on the condition and go round the loop. *)
WaitForWork ==
    /\ Scheduling
    /\ active = None
    /\ pending = None
    /\ ~(closed /\ retired = {})
    /\ pc' = "retire"
    /\ UNCHANGED <<lockVars, activeVars, countVars, localVars, workerVars, submitted, future>>

(* The active worker is serviced: _service begins with _drain_events. *)
ServiceActive ==
    /\ Scheduling
    /\ active # None
    /\ pc' = "drain"
    /\ UNCHANGED <<lockVars, activeVars, countVars, localVars, workerVars, submitted, future>>

(* _start: the child is spawned and given its request. *)
StartWorker ==
    /\ pc = "start"
    /\ worker' = "running"
    /\ pc' = "install"
    /\ UNCHANGED <<lockVars, activeVars, countVars, localVars, emitted, sent, pipe,
                   submitted, future>>

(* _start's exception path.  A child that runs already is told to terminate   *)
(* and no longer watched; it counts as gone.                                  *)
StartFails ==
    /\ pc = "start"
    /\ Complete(starting, "startup-failure")
    /\ starting' = None
    /\ pc' = "retire"
    /\ UNCHANGED <<lockVars, activeVars, countVars, batch, drained, verdict, workerVars,
                   submitted>>

(* Variants: one of the two checks at the end of _start is missing. *)
ReasonAtInstallClosedOnly  == IF closed THEN "closed" ELSE "none"
ReasonAtInstallPendingOnly == IF pending # None THEN "superseded" ELSE "none"

ReasonAtInstall ==
    IF closed THEN "closed" ELSE IF pending # None THEN "superseded" ELSE "none"

(* The end of _start, under the lock: only _closed and _pending are re-read. *)
InstallActive ==
    /\ pc = "install"
    /\ active' = starting
    /\ starting' = None
    /\ cancelReason' = ReasonAtInstall
    /\ started' = started + 1
    /\ pc' = "retire"
    /\ UNCHANGED <<lockVars, cancelAge, signals, terminal, protocol, reaped, forced, batch, drained, verdict, workerVars,
                   submitted, future>>

Draining == pc \in {"drain", "drainLast"}
AfterDrain == IF pc = "drain" THEN "enforce" ELSE "decide"

(* One event of _drain_events.  Progress is only reported; a terminal event *)
(* is kept, and a second one is a protocol failure.                         *)
DrainEvent ==
    /\ Draining
    /\ pipe # <<>>
    /\ drained < DrainLimit
    /\ Head(pipe) # "malformed"
    /\ pipe' = Tail(pipe)
    /\ drained' = drained + 1
    /\ IF Head(pipe) = "progress" THEN UNCHANGED <<terminal, protocol>>
       ELSE IF terminal = "none"  THEN terminal' = Head(pipe) /\ UNCHANGED protocol
       ELSE protocol' = "duplicate" /\ UNCHANGED terminal
    /\ UNCHANGED <<lockVars, active, cancelReason, cancelAge, signals, countVars, batch,
                   starting, verdict, worker, emitted, sent, submitted, future, pc>>

(* receive_event refuses the envelope: the drain returns at once. *)
DrainMalformed ==
    /\ Draining
    /\ pipe # <<>>
    /\ drained < DrainLimit
    /\ Head(pipe) = "malformed"
    /\ pipe' = Tail(pipe)
    /\ protocol' = "malformed"
    /\ drained' = 0
    /\ pc' = AfterDrain
    /\ UNCHANGED <<lockVars, active, cancelReason, cancelAge, signals, terminal, countVars,
                   batch, starting, verdict, worker, emitted, sent, submitted, future>>

DrainEnds ==
    /\ Draining
    /\ pipe = <<>> \/ drained = DrainLimit
    /\ drained' = 0
    /\ pc' = AfterDrain
    /\ UNCHANGED <<lockVars, activeVars, countVars, batch, starting, verdict, workerVars,
                   submitted, future>>

(* Variant: no SIGKILL after SIGTERM. *)
EscalationTerminates ==
    {"frame"} \cup (IF worker = "running" /\ (cancelReason = "closed" \/ cancelAge >= 1)
                     THEN {"terminate"} ELSE {})

(* _service_cancellation: the cancel frame first, then terminate after the *)
(* grace (at once when closing), then kill.                                *)
Escalation ==
    LET terminate == cancelReason = "closed" \/ cancelAge >= 1
        kill      == cancelAge >= 2
    IN  {"frame"} \cup (IF worker = "running" /\ terminate THEN {"terminate"} ELSE {})
                  \cup (IF worker = "running" /\ kill THEN {"kill"} ELSE {})

EnforceCancel ==
    /\ pc = "enforce"
    /\ signals' = IF cancelReason = "none" THEN signals ELSE signals \cup Escalation
    /\ forced' = IF "terminate" \in signals' \ signals THEN forced + 1 ELSE forced
    /\ pc' = "reap"
    /\ UNCHANGED <<lockVars, active, cancelReason, cancelAge, terminal, protocol, started,
                   reaped, localVars, workerVars, submitted, future>>

(* Variant: a dead process is finished without reading its pipe again. *)
ReapCheckNoDrain ==
    /\ pc = "reap"
    /\ pc' = IF worker = "exited" THEN "decide" ELSE "retire"
    /\ UNCHANGED <<lockVars, activeVars, countVars, localVars, workerVars, submitted, future>>

(* The rest of _service: a dead process is drained once more and finished. *)
ReapCheck ==
    /\ pc = "reap"
    /\ pc' = IF worker = "exited" THEN "drainLast" ELSE "retire"
    /\ UNCHANGED <<lockVars, activeVars, countVars, localVars, workerVars, submitted, future>>

(* Variant: every stop but close is reported as a supersession. *)
VerdictSuperseded ==
    CASE cancelReason \in {"superseded", "canceled"}     -> "superseded"
      [] cancelReason = "closed"                         -> "canceled"
      [] cancelReason = "none" /\ protocol # "none"      -> protocol
      [] cancelReason = "none" /\ protocol = "none"      ->
           IF terminal = "none" THEN "abrupt" ELSE terminal

(* _finish_active, up to the future: read without the lock. *)
Verdict ==
    CASE cancelReason = "superseded"                     -> "superseded"
      [] cancelReason \in {"canceled", "closed"}         -> "canceled"
      [] cancelReason = "none" /\ protocol # "none"      -> protocol
      [] cancelReason = "none" /\ protocol = "none"      ->
           IF terminal = "none" THEN "abrupt" ELSE terminal

DecideOutcome ==
    /\ pc = "decide"
    /\ verdict' = Verdict
    /\ pc' = "resolve"
    /\ UNCHANGED <<lockVars, activeVars, countVars, batch, starting, drained, workerVars,
                   submitted, future>>

ResolveFuture ==
    /\ pc = "resolve"
    /\ Complete(active, verdict)
    /\ pc' = "clear"
    /\ UNCHANGED <<lockVars, activeVars, countVars, localVars, workerVars, submitted>>

(* The _Active record, its connections and the process object. *)
NoActiveRecord ==
    /\ active' = None
    /\ cancelReason' = "none"
    /\ cancelAge' = 0
    /\ signals' = {}
    /\ terminal' = "none"
    /\ protocol' = "none"

NoProcess == worker' = "none" /\ emitted' = 0 /\ sent' = "none" /\ pipe' = <<>>

(* Variant: a worker that was told to terminate is not counted as reaped. *)
ClearActiveUncounted ==
    /\ pc = "clear"
    /\ NoActiveRecord
    /\ NoProcess
    /\ reaped' = IF "terminate" \in signals THEN reaped ELSE reaped + 1
    /\ verdict' = "none"
    /\ pc' = "retire"
    /\ UNCHANGED <<lockVars, started, forced, batch, starting, drained, submitted, future>>

(* The end of _finish_active, under the lock. *)
ClearActive ==
    /\ pc = "clear"
    /\ NoActiveRecord
    /\ NoProcess
    /\ reaped' = reaped + 1
    /\ verdict' = "none"
    /\ pc' = "retire"
    /\ UNCHANGED <<lockVars, started, forced, batch, starting, drained, submitted, future>>

Coordinator ==
    \/ CollectRetired \/ CompleteRetired
    \/ TakePending \/ ExitLoop \/ WaitForWork \/ ServiceActive
    \/ StartWorker \/ StartFails \/ InstallActive
    \/ DrainEvent \/ DrainMalformed \/ DrainEnds
    \/ EnforceCancel \/ ReapCheck
    \/ DecideOutcome \/ ResolveFuture \/ ClearActive

-----------------------------------------------------------------------------
(* The worker process (process_worker.worker_main) and time. *)

WriteEvent(e) ==
    /\ worker = "running"
    /\ emitted < MaxEvents
    /\ emitted' = emitted + 1
    /\ pipe' = Append(pipe, e)
    /\ UNCHANGED <<lockVars, activeVars, countVars, localVars, worker, submitted, future, pc>>

WorkerProgress ==
    /\ sent = "none"
    /\ WriteEvent("progress")
    /\ UNCHANGED sent

(* The one terminal event: encode_terminal, or encode_failure. *)
WorkerTerminal ==
    /\ sent = "none"
    /\ \E e \in {"result", "failure"} :
          /\ WriteEvent(e)
          /\ sent' = e

(* An injected worker target that does not follow the envelope protocol. *)
WorkerMisbehaves ==
    /\ FaultyWorker
    /\ \/ WriteEvent("malformed")
       \/ sent # "none" /\ WriteEvent("result")
    /\ UNCHANGED sent

(* Normal exit, crash or death by SIGTERM: at any time, and never required. *)
WorkerExit ==
    /\ worker = "running"
    /\ worker' = "exited"
    /\ UNCHANGED <<lockVars, activeVars, countVars, localVars, emitted, sent, pipe,
                   submitted, future, pc>>

(* SIGKILL cannot be ignored. *)
WorkerKilled == "kill" \in signals /\ WorkerExit

(* The clock passes COOPERATIVE_CANCEL_GRACE_SECONDS, then KILL_ESCALATION_SECONDS. *)
ClockPasses ==
    /\ active # None
    /\ cancelReason # "none"
    /\ cancelAge < 2
    /\ cancelAge' = cancelAge + 1
    /\ UNCHANGED <<lockVars, active, cancelReason, signals, terminal, protocol, countVars,
                   localVars, workerVars, submitted, future, pc>>

Callers == Submit \/ Close \/ \E targets \in CancelTargets : Cancel(targets)
Worker  == WorkerProgress \/ WorkerTerminal \/ WorkerMisbehaves \/ WorkerExit

Next == Callers \/ Coordinator \/ Worker \/ ClockPasses

Spec == Init /\ [][Next]_vars

(* The coordinator thread and the clock run; SIGKILL works.  Nothing is      *)
(* assumed of the callers, nor of a worker that has not been killed: it may  *)
(* hang for ever.                                                            *)
Fairness ==
    /\ WF_vars(Coordinator)
    /\ WF_vars(ClockPasses)
    /\ WF_vars(WorkerKilled)

FairSpec == Spec /\ Fairness

-----------------------------------------------------------------------------
(* Properties. *)

PCs == {"retire", "complete", "start", "install", "drain", "enforce", "reap",
        "drainLast", "decide", "resolve", "clear", "exited"}

SlotsOK ==
    /\ submitted \in 0 .. MaxRequests
    /\ pending \in Requests \cup {None}
    /\ retired \subseteq Requests
    /\ retiredAs \in [Requests -> Retirals \cup {"none"}]
    /\ active \in Requests \cup {None}
    /\ future \in [Requests -> Outcomes \cup {"open"}]
    /\ batch \subseteq Requests
    /\ starting \in Requests \cup {None}

ControlOK ==
    /\ pc \in PCs
    /\ cancelReason \in Reasons \cup {"none"}
    /\ cancelAge \in 0 .. 2
    /\ signals \subseteq {"frame", "terminate", "kill"}
    /\ verdict \in Outcomes \cup {"none"}
    /\ started \in Nat
    /\ reaped \in Nat
    /\ forced \in Nat

EventsOK ==
    /\ terminal \in {"none", "result", "failure"}
    /\ protocol \in {"none", "malformed", "duplicate"}
    /\ drained \in 0 .. DrainLimit
    /\ worker \in {"none", "running", "exited"}
    /\ emitted \in 0 .. MaxEvents
    /\ sent \in {"none", "result", "failure"}
    /\ pipe \in Seq(Events)

(* The values every variable of the supervisor may take: the slots, the     *)
(* coordinator's control state and the event traffic.                       *)
TypeOK == closed \in BOOLEAN /\ SlotsOK /\ ControlOK /\ EventsOK

Slot(s) == {s} \ {None}

(* The request being worked on whose future is still to be completed. *)
InWork == IF pc = "clear" THEN {} ELSE Slot(active)

OpenRequests == {r \in 1 .. submitted : future[r] = "open"}

(* A request handed to submit is never lost and never held twice: as long   *)
(* as its future is open it is in exactly one of the pending slot, the      *)
(* retired list, the coordinator's batch, the slot being started and the    *)
(* active slot; and nothing else is in any of them.                         *)
NoLostRequest ==
    /\ OpenRequests = Slot(pending) \cup retired \cup batch \cup Slot(starting) \cup InWork
    /\ pending \notin retired \cup batch \cup Slot(starting) \cup Slot(active)
    /\ retired \cap (batch \cup Slot(starting) \cup Slot(active)) = {}
    /\ batch \cap (Slot(starting) \cup Slot(active)) = {}
    /\ starting = None \/ active = None

(* A request never waits behind a worker nobody has asked to stop, whatever *)
(* the order of submit, start and finish.                                   *)
WaitingStopsRunning == pending # None /\ active # None => cancelReason # "none"

(* After close nothing waits, and the worker is being stopped without grace. *)
ClosedStops ==
    closed => pending = None /\ (active # None => cancelReason = "closed")

(* Only the newest submitted request can be pending, and it is newer than   *)
(* the one at work: a replaced request is never started later.              *)
LatestWaits ==
    pending # None => pending = submitted /\ pending > active /\ pending > starting

(* What a worker wrote before it died is what its future gets: a result     *)
(* only if one was written, and an abrupt exit only if no terminal event    *)
(* was, whatever the moment of death relative to the reads.                 *)
TruthfulVerdict ==
    pc = "resolve" =>
        /\ verdict = "result" => sent = "result"
        /\ verdict = "abrupt" => sent = "none"

(* The snapshot's counters: a started worker that is not active was reaped, *)
(* and each worker is counted as forcibly terminated at most once.          *)
CountersBalance ==
    /\ started = reaped + (IF active = None THEN 0 ELSE 1)
    /\ forced <= started

(* The coordinator ends only when the child it installed is gone, every       *)
(* worker it counted as started is counted as reaped, and no future is open.  *)
CleanExit ==
    pc = "exited" => worker = "none" /\ started = reaped /\ OpenRequests = {} /\ closed

(* A stop request is never withdrawn from a running worker, and its reason  *)
(* only changes when the supervisor closes.                                 *)
StopIsIrrevocable ==
    [][ active # None /\ active' = active /\ cancelReason # "none"
        => cancelReason' \in {cancelReason, "closed"} ]_vars

(* A superseded or cancelled worker that hangs still gives up its slot.  *)
StopCompletes ==
    \A r \in Requests : (active = r /\ cancelReason # "none") ~> (future[r] # "open")

(* The pending request does not wait for ever, even behind a hung worker. *)
PendingIsServed ==
    \A r \in Requests : (pending = r) ~> (pending # r)

(* close() ends the coordinator with every future completed, even when the  *)
(* worker ignores everything but SIGKILL.                                   *)
CloseCompletes == closed ~> (pc = "exited" /\ OpenRequests = {})

(* The supervisor as the latest-request service its callers rely on. *)
Promise == INSTANCE LatestRequestService WITH
    Answers  <- Outcomes,
    accepted <- submitted,
    waiting  <- pending,
    running  <- IF starting # None THEN starting
                ELSE IF pc = "clear" THEN None ELSE active,
    dropped  <- retired \cup batch,
    answer   <- future,
    shut     <- closed

(* The supervisor implements that service: in particular a future is        *)
(* completed once, only the newest waiting request is begun, and nobody is  *)
(* told "superseded" unless a newer request was accepted.                   *)
Refinement == Promise!Spec
=============================================================================
