------------------------ MODULE WorkspaceConversion ------------------------
(***************************************************************************)
(* The conversion lifecycle of WorkspaceController (ide/controller.py,     *)
(* ide/controller_conversion.py) together with WorkspaceRevisionService    *)
(* (ide/revisions.py).                                                     *)
(*                                                                         *)
(* Four threads interleave, each step below being one critical section:    *)
(*   - the GUI thread edits, converts, cancels and closes;                 *)
(*   - the revision thread authenticates the newest documents and runs the *)
(*     conversions deferred on its futures;                                *)
(*   - the coordinator thread of the supervisor completes requests and     *)
(*     runs _conversion_finished; the supervisor itself appears as the     *)
(*     LatestRequestService it is shown to implement.                      *)
(* The whole document set is one value, its text; a fingerprint stands for *)
(* the text it was computed from.                                          *)
(***************************************************************************)
EXTENDS Integers, Sequences

CONSTANTS
    Texts,           \* what the documents of the workspace can be
    InitialText,     \* the untitled workspace
    BadTexts,        \* texts the revision builder refuses
    MaxEdits,        \* semantic edits (model bound)
    MaxConverts,     \* calls of convert_async (model bound)
    HistoryLimit     \* MAX_CONVERSION_HISTORY_ENTRIES

ASSUME TextAssumption == InitialText \in Texts /\ InitialText \notin BadTexts

ASSUME LimitAssumption ==
    /\ MaxEdits \in Nat
    /\ MaxConverts \in Nat
    /\ HistoryLimit \in Nat \ {0}

Calls       == 1 .. MaxConverts
Requests    == 1 .. MaxConverts
Generations == 0 .. MaxEdits
Nothing     == 0
NoText      == ""

ASSUME NoTextAssumption == NoText \notin Texts

Revision == [generation : Generations, text : Texts]
(* Generation 0 is built by the controller and never by the service. *)
NoJob    == [generation |-> 0, text |-> InitialText]

(* "converted" stands for every member of PUBLISHABLE_STATES. *)
States == {"empty", "converting", "cancel-requested", "converted", "rejected",
           "canceled", "failed", "stale"}
Busy   == {"converting", "cancel-requested"}

(* How a request ends: a result with C, a result without, or an exception. *)
Results  == {"converted", "rejected", "failed", "converter-canceled"}
Stops    == {"superseded", "canceled"}
Failures == {"worker-failure"}
Answers  == Results \cup Stops \cup Failures

VARIABLES
    text,            \* the documents of the snapshot
    generation,      \* revision_generation
    authenticated,   \* revision_authenticated
    bundle,          \* bundle_fingerprint
    revision,        \* _current_revision
    state, stale,    \* state; is stale_reason set?
    result,          \* generated_c with result_revision_generation, result_bundle_fingerprint
    sequence,        \* request_sequence
    history,         \* conversion_history
    closed,          \* _closed of the controller
    closing,         \* how far close() has come
    (* WorkspaceRevisionService *)
    queued, job,     \* _pending; the job of the thread
    step,            \* where the revision thread is
    retired,         \* _closed of the service
    built,           \* revision futures: open, built, refused, cancelled
    awaited,         \* generation of _revision_future
    (* ProcessConversionSupervisor, as a LatestRequestService *)
    waiting, running, dropped, answer, shut,
    captured,        \* revision captured by the callback of each request
    delivered,       \* requests whose _conversion_finished has run
    (* callers of convert_async *)
    call, on         \* where each call is, and the generation or request it waits for

snapshotVars   == <<text, generation, authenticated, bundle, state, stale, result, history>>
lifeVars       == <<closed, closing>>
serviceVars    == <<queued, job, step, retired, built>>
supervisorVars == <<waiting, running, dropped, answer, shut>>
requestVars    == <<sequence, captured, delivered>>
callVars       == <<call, on>>
vars == <<snapshotVars, lifeVars, serviceVars, awaited, revision, supervisorVars,
          requestVars, callVars>>

Supervisor == INSTANCE LatestRequestService WITH
    MaxRequests <- MaxConverts, accepted <- sequence

NoResult == [request |-> Nothing, generation |-> 0, text |-> InitialText]

Init ==
    /\ text = InitialText
    /\ generation = 0
    /\ authenticated = TRUE
    /\ bundle = InitialText
    /\ revision = [generation |-> 0, text |-> InitialText]
    /\ state = "empty"
    /\ stale = FALSE
    /\ result = NoResult
    /\ history = <<>>
    /\ closed = FALSE
    /\ closing = "no"
    /\ queued = NoJob
    /\ job = NoJob
    /\ step = "idle"
    /\ retired = FALSE
    /\ built = [g \in Generations |-> "open"]
    /\ awaited = Nothing
    /\ Supervisor!Init
    /\ captured = [r \in Requests |-> NoJob]
    /\ delivered = {}
    /\ call = [c \in Calls |-> "unused"]
    /\ on = [c \in Calls |-> 0]

HasResult == result.request # Nothing

(* can_save_c *)
CanSaveC ==
    /\ HasResult
    /\ state = "converted"
    /\ result.text = bundle
    /\ result.generation = generation

-----------------------------------------------------------------------------
(* Shared pieces. *)

(* supervisor.cancel(request_sequence): a waiting request is withdrawn; a     *)
(* running one is only asked to stop, which leaves every answer possible.     *)
CancelRequest ==
    IF waiting = sequence /\ waiting # Nothing
      THEN Supervisor!Withdraw
      ELSE UNCHANGED <<sequence, supervisorVars>>

(* Variant: the calls deferred on a cancelled future are forgotten. *)
DropDeferredForgets(g) == UNCHANGED call

(* A cancelled revision future answers every call deferred on it. *)
DropDeferred(g) ==
    call' = [c \in Calls |->
               IF call[c] = "deferred" /\ on[c] = g THEN "superseded" ELSE call[c]]

(* Variant: the future of a job that is replaced is left open. *)
ReplaceQueuedForgets(new) == queued' = new /\ UNCHANGED <<built, call>>

(* WorkspaceRevisionService drops its pending job. *)
ReplaceQueued(new) ==
    /\ queued' = new
    /\ IF queued = NoJob THEN UNCHANGED <<built, call>>
       ELSE /\ built' = [built EXCEPT ![queued.generation] = "cancelled"]
            /\ DropDeferred(queued.generation)

(* Variant: a full history keeps what it has. *)
RecordWhileThereIsRoom(entry) ==
    history' = IF \/ Len(history) = HistoryLimit
                  \/ \E i \in DOMAIN history : history[i].request = entry.request
                 THEN history
                 ELSE Append(history, entry)

(* append_conversion_history *)
Record(entry) ==
    history' = IF \E i \in DOMAIN history : history[i].request = entry.request
                 THEN history
                 ELSE LET all == Append(history, entry)
                      IN  IF Len(all) > HistoryLimit THEN Tail(all) ELSE all

-----------------------------------------------------------------------------
(* The GUI thread. *)

NextGeneration(t) == generation + 1

(* Variant: a change of the text that is not seen to be a semantic one. *)
EditUnnoticed(t) ==
    /\ generation < MaxEdits
    /\ text' = t
    /\ UNCHANGED <<generation, authenticated, bundle, revision, state, stale, result, history,
                   lifeVars, serviceVars, awaited, supervisorVars, requestVars,
                   callVars>>

(* A semantic change of the documents: _mutate_documents.  Opening a file   *)
(* with the same text is one too, so t may equal text.                      *)
Edit(t) ==
    /\ generation < MaxEdits
    /\ text' = t
    /\ generation' = NextGeneration(t)
    /\ authenticated' = FALSE
    /\ bundle' = NoText
    /\ state' = IF HasResult THEN "stale" ELSE "empty"
    /\ stale' = HasResult
    /\ IF state \in Busy THEN CancelRequest ELSE UNCHANGED <<sequence, supervisorVars>>
    /\ IF retired       \* submit raises; the snapshot is already published
         THEN UNCHANGED <<queued, built, call, awaited>>
         ELSE /\ ReplaceQueued([generation |-> generation', text |-> t])
              /\ awaited' = generation'
    /\ UNCHANGED <<revision, result, history, lifeVars, job, step, retired, captured,
                   delivered, on>>

(* _submit_authenticated_revision *)
SubmitRevision(c) ==
    /\ revision.generation = generation
    /\ revision.text = bundle
    /\ Supervisor!Accept
    /\ captured' = [captured EXCEPT ![sequence'] = revision]
    /\ state' = "converting"
    /\ stale' = FALSE
    /\ call' = [call EXCEPT ![c] = "submitted"]
    /\ on' = [on EXCEPT ![c] = sequence']
    /\ UNCHANGED <<text, generation, authenticated, bundle, result, history, delivered>>

(* add_done_callback on _revision_future: a future that is done answers at   *)
(* once.  (A future that is built would call convert_async again without     *)
(* end, until the interpreter refuses: NoConvertLoop.)                       *)
Defer(c) ==
    /\ call' = [call EXCEPT ![c] = CASE built[awaited] = "open"      -> "deferred"
                                     [] built[awaited] = "cancelled" -> "superseded"
                                     [] OTHER                        -> "refused"]
    /\ on' = [on EXCEPT ![c] = awaited]
    /\ UNCHANGED <<snapshotVars, requestVars, supervisorVars>>

(* convert_async while the controller is open. *)
ConvertOpen(c) ==
    IF authenticated THEN SubmitRevision(c) ELSE Defer(c)

Convert(c) ==
    /\ call[c] = "unused"
    /\ \A d \in 1 .. c - 1 : call[d] # "unused"
    /\ ~closed
    /\ authenticated \/ awaited # Nothing
    /\ ConvertOpen(c)
    /\ UNCHANGED <<lifeVars, serviceVars, awaited, revision>>

(* Variant: a cancelled conversion does not mark the older C as stale. *)
StopConversionUnmarked ==
    IF state = "converting"
      THEN /\ state' = "cancel-requested"
           /\ UNCHANGED stale
           /\ CancelRequest
      ELSE UNCHANGED <<state, stale, sequence, supervisorVars>>

(* cancel(), from the GUI or from close() *)
StopConversion ==
    IF state = "converting"
      THEN /\ state' = "cancel-requested"
           /\ stale' = HasResult
           /\ CancelRequest
      ELSE UNCHANGED <<state, stale, sequence, supervisorVars>>

Cancel ==
    /\ StopConversion
    /\ UNCHANGED <<text, generation, authenticated, bundle, result, history, lifeVars, serviceVars, awaited,
                   revision, captured, delivered, callVars>>

(* close(): four critical sections, in this order. *)
CloseController ==
    /\ ~closed
    /\ closed' = TRUE
    /\ closing' = "cancel"
    /\ UNCHANGED <<snapshotVars, serviceVars, awaited, revision, supervisorVars,
                   requestVars, callVars>>

CloseCancels ==
    /\ closing = "cancel"
    /\ closing' = "revisions"
    /\ StopConversion
    /\ UNCHANGED <<text, generation, authenticated, bundle, result, history, closed, serviceVars, awaited,
                   revision, captured, delivered, callVars>>

CloseRevisions ==
    /\ closing = "revisions"
    /\ closing' = "supervisor"
    /\ retired' = TRUE
    /\ ReplaceQueued(NoJob)
    /\ UNCHANGED <<snapshotVars, closed, job, step, awaited, revision, supervisorVars,
                   requestVars, on>>

CloseSupervisor ==
    /\ closing = "supervisor"
    /\ closing' = "done"
    /\ Supervisor!Shut
    /\ UNCHANGED <<snapshotVars, closed, serviceVars, awaited, revision, captured,
                   delivered, callVars>>

-----------------------------------------------------------------------------
(* The revision thread: WorkspaceRevisionService._run. *)

revisionRest == <<lifeVars, awaited, supervisorVars, requestVars>>

TakeJob ==
    /\ step = "idle"
    /\ queued # NoJob
    /\ job' = queued
    /\ queued' = NoJob
    /\ step' = "build"
    /\ UNCHANGED <<snapshotVars, retired, built, revision, revisionRest, callVars>>

(* publishable: decided under the lock of the service, acted on without it. *)
Publishable == ~retired /\ job.generation = awaited /\ queued = NoJob

(* The builder has run; the outcome is decided under the lock. *)
FinishBuild ==
    /\ step = "build"
    /\ step' = IF Publishable THEN "announce" ELSE "resolve"
    /\ UNCHANGED <<snapshotVars, queued, job, retired, built, revision, revisionRest, callVars>>

(* Variant: a revision with an unchanged fingerprint is not published again. *)
AcceptRevisionOnce ==
    IF ~closed /\ job.generation = generation /\ job.text # revision.text
      THEN /\ revision' = job
           /\ bundle' = job.text
           /\ authenticated' = TRUE
           /\ UNCHANGED <<text, generation, state, stale, result, history>>
      ELSE UNCHANGED <<snapshotVars, revision>>

(* Variant: the generation of the snapshot is not compared. *)
AcceptRevisionLate ==
    IF ~closed
      THEN /\ revision' = job
           /\ bundle' = job.text
           /\ authenticated' = TRUE
           /\ UNCHANGED <<text, generation, state, stale, result, history>>
      ELSE UNCHANGED <<snapshotVars, revision>>

(* _accept_revision *)
AcceptRevision ==
    IF ~closed /\ job.generation = generation
      THEN /\ revision' = job
           /\ bundle' = job.text
           /\ authenticated' = TRUE
           /\ UNCHANGED <<text, generation, state, stale, result, history>>
      ELSE UNCHANGED <<snapshotVars, revision>>

(* _reject_revision *)
RejectRevision ==
    IF ~closed /\ job.generation = generation
      THEN /\ authenticated' = FALSE
           /\ state' = "rejected"
           /\ stale' = HasResult
           /\ UNCHANGED <<text, generation, bundle, result, history, revision>>
      ELSE UNCHANGED <<snapshotVars, revision>>

Announce ==
    /\ step = "announce"
    /\ step' = "resolve"
    /\ IF job.text \in BadTexts THEN RejectRevision ELSE AcceptRevision
    /\ UNCHANGED <<queued, job, retired, built, revisionRest, callVars>>

(* job.future.set_result, or set_exception *)
ResolveRevision ==
    /\ step = "resolve"
    /\ step' = "callbacks"
    /\ built' = [built EXCEPT ![job.generation] =
                   IF job.text \in BadTexts THEN "refused" ELSE "built"]
    /\ UNCHANGED <<snapshotVars, queued, job, retired, revision, revisionRest, callVars>>

(* _submit_after_revision, the callback of one deferred call. *)
Resume(c) ==
    /\ step = "callbacks"
    /\ call[c] = "deferred"
    /\ on[c] = job.generation
    /\ IF job.text \in BadTexts \/ closed
         THEN /\ call' = [call EXCEPT ![c] = "refused"]
              /\ UNCHANGED <<snapshotVars, requestVars, supervisorVars, on>>
         ELSE ConvertOpen(c)
    /\ UNCHANGED <<serviceVars, lifeVars, awaited, revision>>

NextJob ==
    /\ step = "callbacks"
    /\ \A c \in Calls : ~(call[c] = "deferred" /\ on[c] = job.generation)
    /\ step' = "idle"
    /\ job' = NoJob
    /\ UNCHANGED <<snapshotVars, queued, retired, built, revision, revisionRest, callVars>>

RevisionThreadExits ==
    /\ step = "idle"
    /\ queued = NoJob
    /\ retired
    /\ step' = "exited"
    /\ UNCHANGED <<snapshotVars, queued, job, retired, built, revision, revisionRest, callVars>>

RevisionThread ==
    \/ TakeJob \/ FinishBuild \/ Announce \/ ResolveRevision
    \/ NextJob \/ RevisionThreadExits
    \/ \E c \in Calls : Resume(c)

-----------------------------------------------------------------------------
(* The coordinator thread: futures are completed one at a time, and the      *)
(* callback of one runs before anything else happens on the thread.          *)

CallbackDue(r) == answer[r] # Supervisor!Unanswered /\ r \notin delivered

Coordinate ==
    /\ \A r \in Requests : ~CallbackDue(r)
    /\ Supervisor!Begin \/ Supervisor!AnswerRunning \/ Supervisor!AnswerDropped
    /\ UNCHANGED <<snapshotVars, lifeVars, serviceVars, awaited, revision, captured,
                   delivered, callVars>>

(* Variant: only the revision is compared, not the request. *)
IsCurrentByText(r) == captured[r].text = bundle

(* The guard of _publish_result, _fail_conversion and _finish_cancellation. *)
IsCurrent(r) ==
    /\ r = sequence
    /\ captured[r].generation = generation
    /\ captured[r].text = bundle

Entry(r, published) == [request |-> r, published |-> published]

(* Variant: the C is kept back, but recorded, after a cancel. *)
PublishResultKeeps(r) ==
    IF IsCurrent(r)
      THEN /\ state' = IF answer[r] = "converter-canceled" THEN "canceled" ELSE answer[r]
           /\ stale' = (answer[r] # "converted" /\ HasResult)
           /\ result' = IF answer[r] = "converted" /\ state = "converting"
                          THEN [request |-> r, generation |-> captured[r].generation,
                                text |-> captured[r].text]
                          ELSE result
           /\ Record(Entry(r, answer[r] = "converted"))
           /\ UNCHANGED <<text, generation, authenticated, bundle>>
      ELSE UNCHANGED snapshotVars

(* _publish_result: whatever the state is. *)
PublishResult(r) ==
    IF IsCurrent(r)
      THEN /\ state' = IF answer[r] = "converter-canceled" THEN "canceled" ELSE answer[r]
           /\ stale' = (answer[r] # "converted" /\ HasResult)
           /\ result' = IF answer[r] = "converted"
                          THEN [request |-> r, generation |-> captured[r].generation,
                                text |-> captured[r].text]
                          ELSE result
           /\ Record(Entry(r, answer[r] = "converted"))
           /\ UNCHANGED <<text, generation, authenticated, bundle>>
      ELSE UNCHANGED snapshotVars

(* Variant: the end of a conversion that was cancelled is not shown. *)
EndWithoutCancelled(r, s) ==
    IF IsCurrent(r) /\ state = "converting"
      THEN /\ state' = s
           /\ stale' = HasResult
           /\ Record(Entry(r, FALSE))
           /\ UNCHANGED <<text, generation, authenticated, bundle, result>>
      ELSE UNCHANGED snapshotVars

(* _finish_cancellation and _fail_conversion *)
EndWithout(r, s) ==
    IF IsCurrent(r) /\ state \in Busy
      THEN /\ state' = s
           /\ stale' = HasResult
           /\ Record(Entry(r, FALSE))
           /\ UNCHANGED <<text, generation, authenticated, bundle, result>>
      ELSE UNCHANGED snapshotVars

(* _conversion_finished: the snapshot first, then the public future. *)
ConversionFinished(r) ==
    /\ CallbackDue(r)
    /\ CASE answer[r] \in Results  -> PublishResult(r)
         [] answer[r] \in Stops    -> EndWithout(r, "canceled")
         [] answer[r] \in Failures -> EndWithout(r, "failed")
    /\ delivered' = delivered \cup {r}
    /\ call' = [c \in Calls |-> IF call[c] = "submitted" /\ on[c] = r
                                  THEN "answered" ELSE call[c]]
    /\ UNCHANGED <<lifeVars, serviceVars, awaited, revision, sequence, captured,
                   supervisorVars, on>>

Coordinator == Coordinate \/ \E r \in Requests : ConversionFinished(r)

-----------------------------------------------------------------------------
User ==
    \/ \E t \in Texts : Edit(t)
    \/ \E c \in Calls : Convert(c)
    \/ Cancel
    \/ CloseController

Closing == CloseCancels \/ CloseRevisions \/ CloseSupervisor

Next == User \/ Closing \/ RevisionThread \/ Coordinator

Spec == Init /\ [][Next]_vars

(* The two service threads run, and close() runs to its end.  The coordinator *)
(* answers a request it works on only because workers end: an assumption      *)
(* ConversionSupervisor discharges for stopped requests, and that a           *)
(* converter which terminates discharges for the others.                      *)
FairSpec == Spec /\ WF_vars(RevisionThread) /\ WF_vars(Coordinator) /\ WF_vars(Closing)

-----------------------------------------------------------------------------
(* Properties. *)

Entries == [request : Requests, published : BOOLEAN]

SnapshotOK ==
    /\ text \in Texts
    /\ generation \in Generations
    /\ bundle \in Texts \cup {NoText}
    /\ revision \in Revision
    /\ state \in States
    /\ result \in [request : Requests \cup {Nothing}, generation : Generations, text : Texts]
    /\ sequence \in Requests \cup {Nothing}

ThreadsOK ==
    /\ closing \in {"no", "cancel", "revisions", "supervisor", "done"}
    /\ queued \in Revision
    /\ job \in Revision
    /\ step \in {"idle", "build", "announce", "resolve", "callbacks", "exited"}
    /\ built \in [Generations -> {"open", "built", "refused", "cancelled"}]
    /\ awaited \in Generations

RequestsOK ==
    /\ waiting \in Requests \cup {Nothing}
    /\ running \in Requests \cup {Nothing}
    /\ dropped \subseteq Requests
    /\ answer \in [Requests -> Answers \cup {Supervisor!Unanswered}]
    /\ captured \in [Requests -> Revision]
    /\ delivered \subseteq Requests

CallsOK ==
    /\ call \in [Calls -> {"unused", "deferred", "superseded", "refused", "submitted", "answered"}]
    /\ on \in [Calls -> 0 .. MaxEdits + MaxConverts]

FlagsOK == authenticated \in BOOLEAN /\ stale \in BOOLEAN /\ closed \in BOOLEAN /\ retired \in BOOLEAN

HistoryOK == history \in Seq(Entries) /\ Len(history) <= HistoryLimit

(* The values of every variable; the history never outgrows its limit. *)
TypeOK == FlagsOK /\ SnapshotOK /\ ThreadsOK /\ RequestsOK /\ CallsOK /\ HistoryOK

(* can_save_c, which compares fingerprints and generations, is true only of *)
(* C that was generated from the very documents on the screen, however often *)
(* they were edited away and back in the meantime.                          *)
SavableIsCurrent == CanSaveC => authenticated /\ result.text = text

(* revision_authenticated means that the revision a conversion would submit *)
(* is that of the documents on the screen: convert_async never raises       *)
(* "workspace revision identity is unsettled".                              *)
AuthenticatedIsCurrent ==
    authenticated =>
        /\ revision = [generation |-> generation, text |-> text]
        /\ bundle = text

(* A snapshot that shows a conversion under way (and so refuses to start     *)
(* another) is always that of a request whose completion is still to come    *)
(* and will not be discarded: the workspace cannot stay busy for ever.       *)
BusyHasAnEnd ==
    state \in Busy =>
        /\ sequence # Nothing
        /\ sequence \notin delivered
        /\ IsCurrent(sequence)

(* C that is still visible but may not be saved is marked stale, except     *)
(* while a conversion runs; and C that may be saved never is.               *)
MarkedStale ==
    HasResult /\ state # "converting" => (stale <=> ~CanSaveC)

(* The history lists each request once, in order; and the C on the screen is *)
(* that of the newest entry recorded as published.                           *)
HistoryTellsResult ==
    /\ \A i, j \in DOMAIN history : i < j => history[i].request < history[j].request
    /\ \A i \in DOMAIN history :
          history[i].published => /\ history[i].request <= result.request
                                  /\ \E j \in DOMAIN history :
                                        history[j] = Entry(result.request, TRUE)

(* A deferred call waits for a revision future that is still to be resolved, *)
(* or whose callbacks are being run: none is forgotten by supersession,      *)
(* rejection or close.                                                       *)
DeferredIsHeard ==
    \A c \in Calls : call[c] = "deferred" =>
        \/ queued # NoJob /\ on[c] = queued.generation
        \/ job # NoJob /\ on[c] = job.generation

(* convert_async never finds its revision future built while the snapshot is *)
(* not authenticated: it would call itself again without end.                *)
NoConvertLoop ==
    ~closed /\ ~authenticated /\ awaited # Nothing => built[awaited] # "built"

(* The two together: every deferred call will be heard, and by something     *)
(* that answers it.                                                          *)
DeferralIsFinite == DeferredIsHeard /\ NoConvertLoop

(* The last-known-good C is replaced only by the C of the newest request,    *)
(* made for the generation on the screen: an obsolete result is discarded    *)
(* even when later edits restored the same text.                             *)
LastKnownGood ==
    [][ result' # result =>
          /\ result'.request = sequence
          /\ result'.request > result.request
          /\ result'.generation = generation
          /\ result'.text = text
          /\ answer[sequence] = "converted" ]_vars

(* Every call of convert_async is answered, whatever is edited, cancelled,   *)
(* refused or closed in the meantime.                                        *)
CallsAnswered ==
    \A c \in Calls : (call[c] # "unused") ~> (call[c] \in {"superseded", "refused", "answered"})

(* WorkspaceRevisionService promises its callers what the supervisor         *)
(* promises: one revision is built at a time and only the newest waits, one   *)
(* is dropped only for a newer one or on close, and a future is resolved      *)
(* once.  The answer of one that is dropped is that its future is cancelled.  *)
BeingBuilt == IF step \in {"build", "announce", "resolve"} THEN job.generation ELSE Nothing
Outcome(g) == IF built[g] = "cancelled" THEN Supervisor!Unanswered ELSE built[g]

Revisions == INSTANCE LatestRequestService WITH
    MaxRequests <- MaxEdits, Answers <- {"built", "refused"},
    accepted <- awaited, waiting <- queued.generation, running <- BeingBuilt,
    dropped <- {g \in 1 .. MaxEdits : built[g] = "cancelled"},
    answer <- [g \in 1 .. MaxEdits |-> Outcome(g)], shut <- retired

RevisionsImplement == Revisions!Spec

(* Edited documents are authenticated or refused, unless edited again or     *)
(* closed.                                                                   *)
RevisionSettles ==
    (~authenticated) ~> (authenticated \/ state = "rejected" \/ closed)
=============================================================================
