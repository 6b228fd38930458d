---------------------- MODULE WorkspaceConversionProofs ----------------------
(***************************************************************************)
(* Proofs about WorkspaceConversion, for every set of texts and every      *)
(* number of edits, conversions and history entries.                       *)
(*                                                                         *)
(* The invariant has five parts beside the types.  TextInv: whatever       *)
(* carries the current generation carries the current text, which is what  *)
(* makes generations safe where fingerprints alone are not.  RequestInv:   *)
(* the supervisor answers only what was submitted.  StateInv: what each    *)
(* workspace state says of the request and of the result.  ServiceInv:     *)
(* what the revision thread is doing.  CallInv: whom deferred calls wait   *)
(* for.                                                                    *)
(***************************************************************************)
EXTENDS WorkspaceConversion, TLAPS

(* A revision, job or result of the current generation has the current text. *)
Follows(r) ==
    /\ r.generation <= generation
    /\ r.generation = generation => r.text = text

TextInv ==
    /\ generation = 0 => text = InitialText
    /\ Follows(revision)
    /\ Follows(queued)
    /\ Follows(job)
    /\ Follows(result)
    /\ \A r \in Requests : Follows(captured[r])
    /\ revision.text \notin BadTexts
    /\ authenticated => /\ revision.generation = generation
                        /\ revision.text = text
                        /\ bundle = text
    /\ ~authenticated => bundle = NoText

RequestInv ==
    /\ waiting <= sequence
    /\ running <= sequence
    /\ \A r \in dropped : r <= sequence
    /\ \A r \in Requests : r > sequence => answer[r] = "open"
    /\ \A r \in delivered : answer[r] # "open"
    /\ result.request # Nothing => result.request \in delivered

StateInv ==
    /\ BusyHasAnEnd
    /\ state = "converted" => /\ HasResult
                              /\ result.text = bundle
                              /\ result.generation = generation
    /\ HasResult /\ state # "converting" => (stale <=> state # "converted")

ServiceInv ==
    /\ closed <=> closing # "no"
    /\ retired => closing \in {"supervisor", "done"}
    /\ awaited <= generation
    /\ ~retired => awaited = generation
    /\ queued # NoJob => /\ ~retired
                         /\ queued.generation = awaited
                         /\ queued.generation # 0
                         /\ built[queued.generation] = "open"
                         /\ job.generation < queued.generation
    /\ \A g \in Generations : g > generation => built[g] = "open"
    /\ job = NoJob <=> step \in {"idle", "exited"}
    /\ job # NoJob => job.generation # 0 /\ job.generation <= awaited
    /\ step \in {"build", "announce", "resolve"} => built[job.generation] = "open"
    /\ step = "callbacks" => built[job.generation] # "open"

CallInv ==
    /\ step = "resolve" /\ ~closed /\ job.generation = generation /\ job.text \notin BadTexts
          => authenticated
    /\ NoConvertLoop
    /\ ~retired /\ awaited # Nothing /\ built[awaited] = "open"
          => \/ queued # NoJob /\ queued.generation = awaited
             \/ job # NoJob /\ job.generation = awaited
    /\ DeferredIsHeard

IInv ==
    /\ SnapshotOK /\ ThreadsOK /\ RequestsOK /\ CallsOK
    /\ TextInv /\ RequestInv /\ StateInv /\ ServiceInv /\ CallInv

USE TextAssumption, LimitAssumption
    DEF TextAssumption, LimitAssumption, Requests, Calls, Generations, Nothing, Revision

-----------------------------------------------------------------------------
(* The outcomes of ConvertOpen, whoever calls it. *)
Submitted(c) ==
    /\ ~closed
    /\ call[c] \in {"unused", "deferred"}
    /\ SubmitRevision(c)
    /\ UNCHANGED <<serviceVars, lifeVars, awaited, revision>>

Deferred(c) ==
    /\ ~closed
    /\ ~authenticated
    /\ awaited # Nothing
    /\ call[c] \in {"unused", "deferred"}
    /\ Defer(c)
    /\ UNCHANGED <<serviceVars, lifeVars, awaited, revision>>

Refused(c) ==
    /\ call' = [call EXCEPT ![c] = "refused"]
    /\ UNCHANGED <<snapshotVars, requestVars, supervisorVars, on>>
    /\ UNCHANGED <<serviceVars, lifeVars, awaited, revision>>

(* What every _conversion_finished does. *)
Finished(r) ==
    /\ CallbackDue(r)
    /\ delivered' = delivered \cup {r}
    /\ call' = [c \in Calls |-> IF call[c] = "submitted" /\ on[c] = r
                                  THEN "answered" ELSE call[c]]
    /\ UNCHANGED <<lifeVars, serviceVars, awaited, revision, sequence, captured,
                   supervisorVars, on>>

LEMMA NoJobShape == NoJob \in Revision /\ NoJob.generation = 0 /\ NoJob.text = InitialText
  BY DEF NoJob

LEMMA NoResultShape ==
    /\ NoResult \in [request : Requests \cup {Nothing}, generation : Generations, text : Texts]
    /\ NoResult.request = Nothing /\ NoResult.generation = 0 /\ NoResult.text = InitialText
  BY DEF NoResult

LEMMA InitIInv == Init => IInv
  <1> SUFFICES ASSUME Init PROVE IInv OBVIOUS
  <1>0. /\ sequence = 0 /\ waiting = 0 /\ running = 0 /\ dropped = {}
        /\ answer = [r \in Requests |-> "open"]
    BY DEF Init, Supervisor!Init, Supervisor!None, Supervisor!Unanswered, Supervisor!Requests
  <1>r. revision = NoJob
    BY DEF Init, NoJob
  <1>1. SnapshotOK
    BY <1>0, <1>r, NoJobShape, NoResultShape DEF Init, SnapshotOK, States
  <1>2. ThreadsOK
    BY <1>0, <1>r, NoJobShape, NoResultShape DEF Init, SnapshotOK, ThreadsOK
  <1>3. RequestsOK
    BY <1>0, <1>r, NoJobShape, NoResultShape DEF Init, SnapshotOK, RequestsOK, Answers, Results, Stops, Failures, Supervisor!Unanswered
  <1>4. CallsOK
    BY <1>0, <1>r, NoJobShape, NoResultShape DEF Init, SnapshotOK, ThreadsOK, CallsOK
  <1>5. TextInv
    BY <1>0, <1>r, NoJobShape, NoResultShape DEF Init, SnapshotOK, ThreadsOK, RequestsOK, TextInv, Follows
  <1>6. RequestInv
    BY <1>0, <1>r, NoJobShape, NoResultShape DEF Init, SnapshotOK, RequestsOK, RequestInv
  <1>7. StateInv
    BY <1>0, <1>r, NoJobShape, NoResultShape DEF Init, SnapshotOK, RequestsOK, TextInv, Follows, RequestInv, StateInv, BusyHasAnEnd, IsCurrent, HasResult, Busy
  <1>8. ServiceInv
    BY <1>0, <1>r, NoJobShape, NoResultShape DEF Init, SnapshotOK, ThreadsOK, ServiceInv
  <1>9. CallInv
    BY <1>0, <1>r, NoJobShape, NoResultShape DEF Init, SnapshotOK, ThreadsOK, CallsOK, TextInv, Follows, ServiceInv, CallInv, NoConvertLoop, DeferredIsHeard
  <1> QED BY <1>1, <1>2, <1>3, <1>4, <1>5, <1>6, <1>7, <1>8, <1>9 DEF IInv

LEMMA EditStep == ASSUME IInv, NEW t \in Texts, Edit(t) PROVE IInv'
  <1> USE NoJobShape DEF IInv
  <1>a. /\ generation < MaxEdits /\ text' = t /\ generation' = generation + 1
        /\ authenticated' = FALSE /\ bundle' = NoText
    BY DEF Edit, NextGeneration, CancelRequest, ReplaceQueued, DropDeferred, HasResult, Supervisor!Accept, Supervisor!DropWaiting, Supervisor!Withdraw, Supervisor!Requests, Supervisor!None, Supervisor!Unanswered, snapshotVars, lifeVars, serviceVars, supervisorVars, requestVars, callVars, revisionRest
  <1>b. /\ state' = IF HasResult THEN "stale" ELSE "empty"
        /\ stale' = HasResult
    BY DEF Edit, NextGeneration, CancelRequest, ReplaceQueued, DropDeferred, HasResult, Supervisor!Accept, Supervisor!DropWaiting, Supervisor!Withdraw, Supervisor!Requests, Supervisor!None, Supervisor!Unanswered, snapshotVars, lifeVars, serviceVars, supervisorVars, requestVars, callVars, revisionRest
  <1>c. UNCHANGED <<revision, result, history, closed, closing, job, step, retired, captured,
                   delivered, on, sequence, running, answer, shut>>
    BY DEF Edit, NextGeneration, CancelRequest, ReplaceQueued, DropDeferred, HasResult, Supervisor!Accept, Supervisor!DropWaiting, Supervisor!Withdraw, Supervisor!Requests, Supervisor!None, Supervisor!Unanswered, snapshotVars, lifeVars, serviceVars, supervisorVars, requestVars, callVars, revisionRest
  <1>d. \/ UNCHANGED <<waiting, dropped>>
        \/ waiting' = 0 /\ waiting # 0 /\ dropped' = dropped \cup {waiting}
    BY DEF Edit, NextGeneration, CancelRequest, ReplaceQueued, DropDeferred, HasResult, Supervisor!Accept, Supervisor!DropWaiting, Supervisor!Withdraw, Supervisor!Requests, Supervisor!None, Supervisor!Unanswered, snapshotVars, lifeVars, serviceVars, supervisorVars, requestVars, callVars, revisionRest
  <1>e. \/ retired /\ UNCHANGED <<queued, built, call, awaited>>
        \/ /\ ~retired /\ awaited' = generation'
           /\ queued' = [generation |-> generation', text |-> t]
           /\ queued = NoJob => UNCHANGED <<built, call>>
           /\ queued # NoJob =>
                /\ built' = [built EXCEPT ![queued.generation] = "cancelled"]
                /\ call' = [c \in Calls |-> IF call[c] = "deferred" /\ on[c] = queued.generation
                                           THEN "superseded" ELSE call[c]]
    BY DEF Edit, NextGeneration, CancelRequest, ReplaceQueued, DropDeferred, HasResult, Supervisor!Accept, Supervisor!DropWaiting, Supervisor!Withdraw, Supervisor!Requests, Supervisor!None, Supervisor!Unanswered, snapshotVars, lifeVars, serviceVars, supervisorVars, requestVars, callVars, revisionRest
  <1>1. SnapshotOK'
    BY <1>a, <1>b, <1>c, <1>d, <1>e DEF SnapshotOK, States
  <1>2. ThreadsOK'
    <2>1. built' \in [Generations -> {"open", "built", "refused", "cancelled"}]
      BY <1>c, <1>e DEF ThreadsOK
    <2>2. generation' \in Generations
      BY <1>a DEF SnapshotOK
    <2>3. queued' \in Revision /\ awaited' \in Generations
      BY <1>a, <1>e, <2>2 DEF SnapshotOK, ThreadsOK
    <2> QED BY <1>c, <2>1, <2>2, <2>3 DEF ThreadsOK
  <1>3. RequestsOK'
    BY <1>a, <1>b, <1>c, <1>d, <1>e DEF SnapshotOK, RequestsOK, Answers, Results, Stops, Failures, Supervisor!Unanswered
  <1>4. CallsOK'
    BY <1>a, <1>b, <1>c, <1>d, <1>e DEF SnapshotOK, ThreadsOK, CallsOK
  <1>5. TextInv'
    <2>1. ASSUME NEW r, r.generation \in Generations, r.generation <= generation
          PROVE  r.generation <= generation' /\ r.generation # generation'
      BY <1>a, <2>1 DEF SnapshotOK
    <2>2. Follows(revision)' /\ Follows(job)' /\ Follows(result)'
      BY <1>a, <1>c, <2>1 DEF SnapshotOK, ThreadsOK, TextInv, Follows
    <2>3. Follows(queued)'
      <3>1. CASE UNCHANGED queued
        BY <1>a, <2>1, <3>1 DEF SnapshotOK, ThreadsOK, TextInv, Follows
      <3>2. CASE queued' = [generation |-> generation', text |-> t]
        BY <1>a, <3>2 DEF SnapshotOK, Follows
      <3> QED BY <1>e, <3>1, <3>2
    <2>4. \A r \in Requests : Follows(captured[r])'
      BY <1>a, <1>c, <2>1 DEF SnapshotOK, RequestsOK, TextInv, Follows
    <2> QED BY <1>a, <1>c, <2>2, <2>3, <2>4 DEF SnapshotOK, TextInv
  <1>6. RequestInv'
    <2>1. CASE UNCHANGED <<waiting, dropped>>
      BY <2>1, <1>a, <1>c, <1>d DEF SnapshotOK, RequestsOK, RequestInv
    <2>2. CASE waiting' = 0 /\ waiting # 0 /\ dropped' = dropped \cup {waiting}
      BY <2>2, <1>a, <1>c, <1>d DEF SnapshotOK, RequestsOK, RequestInv
    <2> QED BY <2>1, <2>2, <1>a, <1>c, <1>d
  <1>7. StateInv'
    BY <1>a, <1>b, <1>c, <1>d, <1>e DEF SnapshotOK, RequestsOK, TextInv, Follows, RequestInv, StateInv, BusyHasAnEnd, IsCurrent, HasResult, Busy
  <1>8. ServiceInv'
    BY <1>a, <1>b, <1>c, <1>d, <1>e DEF SnapshotOK, ThreadsOK, ServiceInv
  <1>9. CallInv'
    <2>1. (step = "resolve" /\ ~closed /\ job.generation = generation /\ job.text \notin BadTexts
            => authenticated)'
      BY <1>a, <1>c DEF SnapshotOK, ThreadsOK, TextInv, Follows
    <2>2. CASE retired /\ UNCHANGED <<queued, built, call, awaited>>
      <3>1. closed /\ closed'
        BY <1>c, <2>2 DEF ServiceInv
      <3>2. NoConvertLoop'
        BY <3>1 DEF NoConvertLoop
      <3>3. DeferredIsHeard'
        BY <1>c, <2>2 DEF CallInv, DeferredIsHeard
      <3>4. retired'
        BY <1>c, <2>2
      <3> QED BY <2>1, <3>2, <3>3, <3>4 DEF CallInv
    <2>3. CASE ~retired /\ awaited' = generation' /\ queued' = [generation |-> generation', text |-> t]
      <3>1. queued' # NoJob /\ queued'.generation = awaited' /\ awaited' \in Generations
        BY <1>a, <2>3 DEF SnapshotOK
      <3>2. built'[awaited'] = "open"
        <4>1. built[awaited'] = "open"
          BY <1>a, <2>3, <3>1 DEF SnapshotOK, ServiceInv
        <4>2. queued # NoJob => queued.generation # awaited'
          BY <1>a, <2>3 DEF SnapshotOK, ThreadsOK, ServiceInv
        <4> QED BY <1>e, <2>3, <3>1, <4>1, <4>2 DEF ThreadsOK
      <3>3. NoConvertLoop'
        BY <3>2 DEF NoConvertLoop
      <3>4. ASSUME NEW c \in Calls, call'[c] = "deferred"
            PROVE  job # NoJob /\ on[c] = job.generation
        BY <1>e, <2>3, <3>4 DEF CallsOK, CallInv, DeferredIsHeard
      <3>5. DeferredIsHeard'
        BY <1>c, <3>4 DEF DeferredIsHeard
      <3> QED BY <2>1, <3>1, <3>3, <3>5 DEF CallInv
    <2> QED BY <1>e, <2>2, <2>3
  <1> QED BY <1>1, <1>2, <1>3, <1>4, <1>5, <1>6, <1>7, <1>8, <1>9 DEF IInv

LEMMA SubmitStep == ASSUME IInv, NEW c \in Calls, Submitted(c) PROVE IInv'
  <1> USE NoJobShape DEF IInv
  <1>a. /\ ~closed /\ call[c] \in {"unused", "deferred"}
        /\ revision.generation = generation /\ revision.text = bundle
    BY DEF Submitted, SubmitRevision, Supervisor!Accept, Supervisor!DropWaiting, Supervisor!Withdraw, Supervisor!Requests, Supervisor!None, Supervisor!Unanswered, snapshotVars, lifeVars, serviceVars, supervisorVars, requestVars, callVars, revisionRest
  <1>b. /\ sequence < MaxConverts /\ sequence' = sequence + 1 /\ waiting' = sequence + 1
        /\ dropped' = dropped \cup ({waiting} \ {0})
        /\ UNCHANGED <<running, answer, shut>>
    BY DEF Submitted, SubmitRevision, Supervisor!Accept, Supervisor!DropWaiting, Supervisor!Withdraw, Supervisor!Requests, Supervisor!None, Supervisor!Unanswered, snapshotVars, lifeVars, serviceVars, supervisorVars, requestVars, callVars, revisionRest
  <1>c. /\ captured' = [captured EXCEPT ![sequence + 1] = revision]
        /\ state' = "converting" /\ stale' = FALSE
        /\ call' = [call EXCEPT ![c] = "submitted"]
        /\ on' = [on EXCEPT ![c] = sequence + 1]
    BY DEF Submitted, SubmitRevision, Supervisor!Accept, Supervisor!DropWaiting, Supervisor!Withdraw, Supervisor!Requests, Supervisor!None, Supervisor!Unanswered, snapshotVars, lifeVars, serviceVars, supervisorVars, requestVars, callVars, revisionRest
  <1>d. UNCHANGED <<text, generation, authenticated, bundle, result, history, delivered,
                   queued, job, step, retired, built, closed, closing, awaited, revision>>
    BY DEF Submitted, SubmitRevision, Supervisor!Accept, Supervisor!DropWaiting, Supervisor!Withdraw, Supervisor!Requests, Supervisor!None, Supervisor!Unanswered, snapshotVars, lifeVars, serviceVars, supervisorVars, requestVars, callVars, revisionRest
  <1>1. SnapshotOK'
    BY <1>a, <1>b, <1>c, <1>d DEF SnapshotOK, States
  <1>2. ThreadsOK'
    BY <1>a, <1>b, <1>c, <1>d DEF SnapshotOK, ThreadsOK
  <1>3. RequestsOK'
    BY <1>a, <1>b, <1>c, <1>d DEF SnapshotOK, RequestsOK, Answers, Results, Stops, Failures, Supervisor!Unanswered
  <1>4. CallsOK'
    <2>1. sequence + 1 \in 0 .. MaxEdits + MaxConverts
      BY <1>b DEF SnapshotOK
    <2> QED BY <1>a, <1>c, <2>1 DEF CallsOK
  <1>5. TextInv'
    BY <1>a, <1>b, <1>c, <1>d DEF SnapshotOK, ThreadsOK, RequestsOK, TextInv, Follows
  <1>6. RequestInv'
    BY <1>a, <1>b, <1>c, <1>d DEF SnapshotOK, RequestsOK, RequestInv
  <1>7. StateInv'
    BY <1>a, <1>b, <1>c, <1>d DEF SnapshotOK, RequestsOK, TextInv, Follows, RequestInv, StateInv, BusyHasAnEnd, IsCurrent, HasResult, Busy
  <1>8. ServiceInv'
    BY <1>a, <1>b, <1>c, <1>d DEF SnapshotOK, ThreadsOK, ServiceInv
  <1>9. CallInv'
    BY <1>a, <1>b, <1>c, <1>d DEF SnapshotOK, ThreadsOK, CallsOK, TextInv, Follows, ServiceInv, CallInv, NoConvertLoop, DeferredIsHeard
  <1> QED BY <1>1, <1>2, <1>3, <1>4, <1>5, <1>6, <1>7, <1>8, <1>9 DEF IInv

LEMMA DeferStep == ASSUME IInv, NEW c \in Calls, Deferred(c) PROVE IInv'
  <1> USE NoJobShape DEF IInv, Deferred, Defer, snapshotVars, lifeVars, serviceVars, supervisorVars, requestVars, callVars, revisionRest
  <1>1. SnapshotOK'
    BY DEF SnapshotOK, States
  <1>2. ThreadsOK'
    BY DEF SnapshotOK, ThreadsOK
  <1>3. RequestsOK'
    BY DEF SnapshotOK, RequestsOK, Answers, Results, Stops, Failures, Supervisor!Unanswered
  <1>4. CallsOK'
    <2>1. on' = [on EXCEPT ![c] = awaited]
      BY DEF Deferred, Defer
    <2>2. awaited \in 0 .. MaxEdits + MaxConverts
      BY DEF ThreadsOK
    <2>3. \E v \in {"deferred", "superseded", "refused"} : call' = [call EXCEPT ![c] = v]
      BY DEF Deferred, Defer
    <2> QED BY <2>1, <2>2, <2>3 DEF CallsOK
  <1>5. TextInv'
    BY DEF SnapshotOK, ThreadsOK, RequestsOK, TextInv, Follows
  <1>6. RequestInv'
    BY DEF SnapshotOK, RequestsOK, RequestInv
  <1>7. StateInv'
    BY DEF SnapshotOK, RequestsOK, TextInv, Follows, RequestInv, StateInv, BusyHasAnEnd, IsCurrent, HasResult, Busy
  <1>8. ServiceInv'
    BY DEF SnapshotOK, ThreadsOK, ServiceInv
  <1>9. CallInv'
    BY DEF SnapshotOK, ThreadsOK, CallsOK, TextInv, Follows, ServiceInv, CallInv, NoConvertLoop, DeferredIsHeard
  <1> QED BY <1>1, <1>2, <1>3, <1>4, <1>5, <1>6, <1>7, <1>8, <1>9 DEF IInv

LEMMA RefuseStep == ASSUME IInv, NEW c \in Calls, Refused(c) PROVE IInv'
  <1> USE NoJobShape DEF IInv, Refused, snapshotVars, lifeVars, serviceVars, supervisorVars, requestVars, callVars, revisionRest
  <1>1. SnapshotOK'
    BY DEF SnapshotOK, States
  <1>2. ThreadsOK'
    BY DEF SnapshotOK, ThreadsOK
  <1>3. RequestsOK'
    BY DEF SnapshotOK, RequestsOK, Answers, Results, Stops, Failures, Supervisor!Unanswered
  <1>4. CallsOK'
    BY DEF SnapshotOK, ThreadsOK, CallsOK
  <1>5. TextInv'
    BY DEF SnapshotOK, ThreadsOK, RequestsOK, TextInv, Follows
  <1>6. RequestInv'
    BY DEF SnapshotOK, RequestsOK, RequestInv
  <1>7. StateInv'
    BY DEF SnapshotOK, RequestsOK, TextInv, Follows, RequestInv, StateInv, BusyHasAnEnd, IsCurrent, HasResult, Busy
  <1>8. ServiceInv'
    BY DEF SnapshotOK, ThreadsOK, ServiceInv
  <1>9. CallInv'
    BY SMTT(60) DEF SnapshotOK, ThreadsOK, CallsOK, TextInv, Follows, ServiceInv, CallInv, NoConvertLoop, DeferredIsHeard
  <1> QED BY <1>1, <1>2, <1>3, <1>4, <1>5, <1>6, <1>7, <1>8, <1>9 DEF IInv

LEMMA CancelStep == ASSUME IInv, Cancel PROVE IInv'
  <1> USE NoJobShape DEF IInv
  <1>a. \/ /\ state = "converting" /\ state' = "cancel-requested" /\ stale' = HasResult
        \/ state # "converting" /\ UNCHANGED <<state, stale>>
    BY DEF Cancel, StopConversion, CancelRequest, HasResult, Supervisor!Accept, Supervisor!DropWaiting, Supervisor!Withdraw, Supervisor!Requests, Supervisor!None, Supervisor!Unanswered, snapshotVars, lifeVars, serviceVars, supervisorVars, requestVars, callVars, revisionRest
  <1>b. \/ UNCHANGED <<waiting, dropped>>
        \/ waiting' = 0 /\ waiting # 0 /\ dropped' = dropped \cup {waiting}
    BY DEF Cancel, StopConversion, CancelRequest, HasResult, Supervisor!Accept, Supervisor!DropWaiting, Supervisor!Withdraw, Supervisor!Requests, Supervisor!None, Supervisor!Unanswered, snapshotVars, lifeVars, serviceVars, supervisorVars, requestVars, callVars, revisionRest
  <1>c. UNCHANGED <<text, generation, authenticated, bundle, result, history, closed, closing,
                   queued, job, step, retired, built, awaited, revision, captured, delivered,
                   call, on, sequence, running, answer, shut>>
    BY DEF Cancel, StopConversion, CancelRequest, HasResult, Supervisor!Accept, Supervisor!DropWaiting, Supervisor!Withdraw, Supervisor!Requests, Supervisor!None, Supervisor!Unanswered, snapshotVars, lifeVars, serviceVars, supervisorVars, requestVars, callVars, revisionRest
  <1>1. SnapshotOK'
    BY <1>a, <1>b, <1>c DEF SnapshotOK, States
  <1>2. ThreadsOK'
    BY <1>a, <1>b, <1>c DEF SnapshotOK, ThreadsOK
  <1>3. RequestsOK'
    BY <1>a, <1>b, <1>c DEF SnapshotOK, RequestsOK, Answers, Results, Stops, Failures, Supervisor!Unanswered
  <1>4. CallsOK'
    BY <1>a, <1>b, <1>c DEF SnapshotOK, ThreadsOK, CallsOK
  <1>5. TextInv'
    BY <1>a, <1>b, <1>c DEF SnapshotOK, ThreadsOK, RequestsOK, TextInv, Follows
  <1>6. RequestInv'
    <2>1. CASE UNCHANGED <<waiting, dropped>>
      BY <2>1, <1>b, <1>c DEF SnapshotOK, RequestsOK, RequestInv
    <2>2. CASE waiting' = 0 /\ waiting # 0 /\ dropped' = dropped \cup {waiting}
      BY <2>2, <1>b, <1>c DEF SnapshotOK, RequestsOK, RequestInv
    <2> QED BY <2>1, <2>2, <1>b, <1>c
  <1>7. StateInv'
    <2>1. CASE state = "converting" /\ state' = "cancel-requested" /\ stale' = HasResult
      BY <2>1, <1>a, <1>c DEF SnapshotOK, RequestsOK, TextInv, Follows, RequestInv, StateInv, BusyHasAnEnd, IsCurrent, HasResult, Busy
    <2>2. CASE state # "converting" /\ UNCHANGED <<state, stale>>
      BY <2>2, <1>a, <1>c DEF SnapshotOK, RequestsOK, TextInv, Follows, RequestInv, StateInv, BusyHasAnEnd, IsCurrent, HasResult, Busy
    <2> QED BY <2>1, <2>2, <1>a, <1>c
  <1>8. ServiceInv'
    BY <1>a, <1>b, <1>c DEF SnapshotOK, ThreadsOK, ServiceInv
  <1>9. CallInv'
    BY <1>a, <1>b, <1>c DEF SnapshotOK, ThreadsOK, CallsOK, TextInv, Follows, ServiceInv, CallInv, NoConvertLoop, DeferredIsHeard
  <1> QED BY <1>1, <1>2, <1>3, <1>4, <1>5, <1>6, <1>7, <1>8, <1>9 DEF IInv

LEMMA CloseControllerStep == ASSUME IInv, CloseController PROVE IInv'
  <1> USE NoJobShape DEF IInv, CloseController, snapshotVars, lifeVars, serviceVars, supervisorVars, requestVars, callVars, revisionRest
  <1>1. SnapshotOK'
    BY DEF SnapshotOK, States
  <1>2. ThreadsOK'
    BY DEF SnapshotOK, ThreadsOK
  <1>3. RequestsOK'
    BY DEF SnapshotOK, RequestsOK, Answers, Results, Stops, Failures, Supervisor!Unanswered
  <1>4. CallsOK'
    BY DEF SnapshotOK, ThreadsOK, CallsOK
  <1>5. TextInv'
    BY DEF SnapshotOK, ThreadsOK, RequestsOK, TextInv, Follows
  <1>6. RequestInv'
    BY DEF SnapshotOK, RequestsOK, RequestInv
  <1>7. StateInv'
    BY DEF SnapshotOK, RequestsOK, TextInv, Follows, RequestInv, StateInv, BusyHasAnEnd, IsCurrent, HasResult, Busy
  <1>8. ServiceInv'
    BY DEF SnapshotOK, ThreadsOK, ServiceInv
  <1>9. CallInv'
    BY DEF SnapshotOK, ThreadsOK, CallsOK, TextInv, Follows, ServiceInv, CallInv, NoConvertLoop, DeferredIsHeard
  <1> QED BY <1>1, <1>2, <1>3, <1>4, <1>5, <1>6, <1>7, <1>8, <1>9 DEF IInv

LEMMA CloseCancelsStep == ASSUME IInv, CloseCancels PROVE IInv'
  <1> USE NoJobShape DEF IInv
  <1>a. \/ /\ state = "converting" /\ state' = "cancel-requested" /\ stale' = HasResult
        \/ state # "converting" /\ UNCHANGED <<state, stale>>
    BY DEF CloseCancels, StopConversion, CancelRequest, HasResult, Supervisor!Accept, Supervisor!DropWaiting, Supervisor!Withdraw, Supervisor!Requests, Supervisor!None, Supervisor!Unanswered, snapshotVars, lifeVars, serviceVars, supervisorVars, requestVars, callVars, revisionRest
  <1>b. \/ UNCHANGED <<waiting, dropped>>
        \/ waiting' = 0 /\ waiting # 0 /\ dropped' = dropped \cup {waiting}
    BY DEF CloseCancels, StopConversion, CancelRequest, HasResult, Supervisor!Accept, Supervisor!DropWaiting, Supervisor!Withdraw, Supervisor!Requests, Supervisor!None, Supervisor!Unanswered, snapshotVars, lifeVars, serviceVars, supervisorVars, requestVars, callVars, revisionRest
  <1>c. closing = "cancel" /\ closing' = "revisions"
    BY DEF CloseCancels, StopConversion, CancelRequest, HasResult, Supervisor!Accept, Supervisor!DropWaiting, Supervisor!Withdraw, Supervisor!Requests, Supervisor!None, Supervisor!Unanswered, snapshotVars, lifeVars, serviceVars, supervisorVars, requestVars, callVars, revisionRest
  <1>d. UNCHANGED <<text, generation, authenticated, bundle, result, history, closed,
                   queued, job, step, retired, built, awaited, revision, captured, delivered,
                   call, on, sequence, running, answer, shut>>
    BY DEF CloseCancels, StopConversion, CancelRequest, HasResult, Supervisor!Accept, Supervisor!DropWaiting, Supervisor!Withdraw, Supervisor!Requests, Supervisor!None, Supervisor!Unanswered, snapshotVars, lifeVars, serviceVars, supervisorVars, requestVars, callVars, revisionRest
  <1>1. SnapshotOK'
    BY <1>a, <1>b, <1>c, <1>d DEF SnapshotOK, States
  <1>2. ThreadsOK'
    BY <1>a, <1>b, <1>c, <1>d DEF SnapshotOK, ThreadsOK
  <1>3. RequestsOK'
    BY <1>a, <1>b, <1>c, <1>d DEF SnapshotOK, RequestsOK, Answers, Results, Stops, Failures, Supervisor!Unanswered
  <1>4. CallsOK'
    BY <1>a, <1>b, <1>c, <1>d DEF SnapshotOK, ThreadsOK, CallsOK
  <1>5. TextInv'
    BY <1>a, <1>b, <1>c, <1>d DEF SnapshotOK, ThreadsOK, RequestsOK, TextInv, Follows
  <1>6. RequestInv'
    <2>1. CASE UNCHANGED <<waiting, dropped>>
      BY <2>1, <1>b, <1>d DEF SnapshotOK, RequestsOK, RequestInv
    <2>2. CASE waiting' = 0 /\ waiting # 0 /\ dropped' = dropped \cup {waiting}
      BY <2>2, <1>b, <1>d DEF SnapshotOK, RequestsOK, RequestInv
    <2> QED BY <2>1, <2>2, <1>b, <1>d
  <1>7. StateInv'
    <2>1. CASE state = "converting" /\ state' = "cancel-requested" /\ stale' = HasResult
      BY <2>1, <1>a, <1>d DEF SnapshotOK, RequestsOK, TextInv, Follows, RequestInv, StateInv, BusyHasAnEnd, IsCurrent, HasResult, Busy
    <2>2. CASE state # "converting" /\ UNCHANGED <<state, stale>>
      BY <2>2, <1>a, <1>d DEF SnapshotOK, RequestsOK, TextInv, Follows, RequestInv, StateInv, BusyHasAnEnd, IsCurrent, HasResult, Busy
    <2> QED BY <2>1, <2>2, <1>a, <1>d
  <1>8. ServiceInv'
    BY <1>a, <1>b, <1>c, <1>d DEF SnapshotOK, ThreadsOK, ServiceInv
  <1>9. CallInv'
    BY <1>a, <1>b, <1>c, <1>d DEF SnapshotOK, ThreadsOK, CallsOK, TextInv, Follows, ServiceInv, CallInv, NoConvertLoop, DeferredIsHeard
  <1> QED BY <1>1, <1>2, <1>3, <1>4, <1>5, <1>6, <1>7, <1>8, <1>9 DEF IInv

LEMMA CloseRevisionsStep == ASSUME IInv, CloseRevisions PROVE IInv'
  <1> USE NoJobShape DEF IInv
  <1>a. /\ closing = "revisions" /\ closing' = "supervisor" /\ retired' = TRUE /\ queued' = NoJob
    BY DEF CloseRevisions, ReplaceQueued, DropDeferred, snapshotVars, lifeVars, serviceVars, supervisorVars, requestVars, callVars, revisionRest
  <1>b. /\ queued = NoJob => UNCHANGED <<built, call>>
        /\ queued # NoJob =>
             /\ built' = [built EXCEPT ![queued.generation] = "cancelled"]
             /\ call' = [c \in Calls |-> IF call[c] = "deferred" /\ on[c] = queued.generation
                                        THEN "superseded" ELSE call[c]]
    BY DEF CloseRevisions, ReplaceQueued, DropDeferred, snapshotVars, lifeVars, serviceVars, supervisorVars, requestVars, callVars, revisionRest
  <1>c. UNCHANGED <<text, generation, authenticated, bundle, state, stale, result, history,
                   closed, job, step, awaited, revision, waiting, running, dropped, answer,
                   shut, sequence, captured, delivered, on>>
    BY DEF CloseRevisions, ReplaceQueued, DropDeferred, snapshotVars, lifeVars, serviceVars, supervisorVars, requestVars, callVars, revisionRest
  <1>1. SnapshotOK'
    BY <1>a, <1>b, <1>c DEF SnapshotOK, States
  <1>2. ThreadsOK'
    BY <1>a, <1>b, <1>c DEF SnapshotOK, ThreadsOK
  <1>3. RequestsOK'
    BY <1>a, <1>b, <1>c DEF SnapshotOK, RequestsOK, Answers, Results, Stops, Failures, Supervisor!Unanswered
  <1>4. CallsOK'
    BY <1>a, <1>b, <1>c DEF SnapshotOK, ThreadsOK, CallsOK
  <1>5. TextInv'
    BY <1>a, <1>b, <1>c DEF SnapshotOK, ThreadsOK, RequestsOK, TextInv, Follows
  <1>6. RequestInv'
    BY <1>a, <1>b, <1>c DEF SnapshotOK, RequestsOK, RequestInv
  <1>7. StateInv'
    BY <1>a, <1>b, <1>c DEF SnapshotOK, RequestsOK, TextInv, Follows, RequestInv, StateInv, BusyHasAnEnd, IsCurrent, HasResult, Busy
  <1>8. ServiceInv'
    BY <1>a, <1>b, <1>c DEF SnapshotOK, ThreadsOK, ServiceInv
  <1>9. CallInv'
    <2>1. (step = "resolve" /\ ~closed /\ job.generation = generation /\ job.text \notin BadTexts
            => authenticated)'
      BY <1>a, <1>c DEF CallInv
    <2>2. closed /\ closed'
      BY <1>a, <1>c DEF ServiceInv
    <2>3. NoConvertLoop'
      BY <2>2 DEF NoConvertLoop
    <2>4. ASSUME NEW c \in Calls, call'[c] = "deferred"
          PROVE  job # NoJob /\ on[c] = job.generation
      BY <1>b, <2>4 DEF CallsOK, CallInv, DeferredIsHeard
    <2>5. DeferredIsHeard'
      BY <1>c, <2>4 DEF DeferredIsHeard
    <2> QED BY <1>a, <2>1, <2>3, <2>5 DEF CallInv
  <1> QED BY <1>1, <1>2, <1>3, <1>4, <1>5, <1>6, <1>7, <1>8, <1>9 DEF IInv

LEMMA CloseSupervisorStep == ASSUME IInv, CloseSupervisor PROVE IInv'
  <1> USE NoJobShape DEF IInv, CloseSupervisor, Supervisor!Shut, Supervisor!DropWaiting, Supervisor!None, snapshotVars, lifeVars, serviceVars, supervisorVars, requestVars, callVars, revisionRest
  <1>1. SnapshotOK'
    BY DEF SnapshotOK, States
  <1>2. ThreadsOK'
    BY DEF SnapshotOK, ThreadsOK
  <1>3. RequestsOK'
    BY DEF SnapshotOK, RequestsOK, Answers, Results, Stops, Failures, Supervisor!Unanswered
  <1>4. CallsOK'
    BY DEF SnapshotOK, ThreadsOK, CallsOK
  <1>5. TextInv'
    BY DEF SnapshotOK, ThreadsOK, RequestsOK, TextInv, Follows
  <1>6. RequestInv'
    BY DEF SnapshotOK, RequestsOK, RequestInv
  <1>7. StateInv'
    BY DEF SnapshotOK, RequestsOK, TextInv, Follows, RequestInv, StateInv, BusyHasAnEnd, IsCurrent, HasResult, Busy
  <1>8. ServiceInv'
    BY DEF SnapshotOK, ThreadsOK, ServiceInv
  <1>9. CallInv'
    BY DEF SnapshotOK, ThreadsOK, CallsOK, TextInv, Follows, ServiceInv, CallInv, NoConvertLoop, DeferredIsHeard
  <1> QED BY <1>1, <1>2, <1>3, <1>4, <1>5, <1>6, <1>7, <1>8, <1>9 DEF IInv

LEMMA TakeJobStep == ASSUME IInv, TakeJob PROVE IInv'
  <1> USE NoJobShape DEF IInv, TakeJob, snapshotVars, lifeVars, serviceVars, supervisorVars, requestVars, callVars, revisionRest
  <1>1. SnapshotOK'
    BY DEF SnapshotOK, States
  <1>2. ThreadsOK'
    BY DEF SnapshotOK, ThreadsOK
  <1>3. RequestsOK'
    BY DEF SnapshotOK, RequestsOK, Answers, Results, Stops, Failures, Supervisor!Unanswered
  <1>4. CallsOK'
    BY DEF SnapshotOK, ThreadsOK, CallsOK
  <1>5. TextInv'
    BY DEF SnapshotOK, ThreadsOK, RequestsOK, TextInv, Follows
  <1>6. RequestInv'
    BY DEF SnapshotOK, RequestsOK, RequestInv
  <1>7. StateInv'
    BY DEF SnapshotOK, RequestsOK, TextInv, Follows, RequestInv, StateInv, BusyHasAnEnd, IsCurrent, HasResult, Busy
  <1>8. ServiceInv'
    BY DEF SnapshotOK, ThreadsOK, ServiceInv
  <1>9. CallInv'
    BY DEF SnapshotOK, ThreadsOK, CallsOK, TextInv, Follows, ServiceInv, CallInv, NoConvertLoop, DeferredIsHeard
  <1> QED BY <1>1, <1>2, <1>3, <1>4, <1>5, <1>6, <1>7, <1>8, <1>9 DEF IInv

LEMMA FinishBuildStep == ASSUME IInv, FinishBuild PROVE IInv'
  <1> USE NoJobShape DEF IInv, FinishBuild, Publishable, snapshotVars, lifeVars, serviceVars, supervisorVars, requestVars, callVars, revisionRest
  <1>1. SnapshotOK'
    BY DEF SnapshotOK, States
  <1>2. ThreadsOK'
    BY DEF SnapshotOK, ThreadsOK
  <1>3. RequestsOK'
    BY DEF SnapshotOK, RequestsOK, Answers, Results, Stops, Failures, Supervisor!Unanswered
  <1>4. CallsOK'
    BY DEF SnapshotOK, ThreadsOK, CallsOK
  <1>5. TextInv'
    BY DEF SnapshotOK, ThreadsOK, RequestsOK, TextInv, Follows
  <1>6. RequestInv'
    BY DEF SnapshotOK, RequestsOK, RequestInv
  <1>7. StateInv'
    BY DEF SnapshotOK, RequestsOK, TextInv, Follows, RequestInv, StateInv, BusyHasAnEnd, IsCurrent, HasResult, Busy
  <1>8. ServiceInv'
    BY DEF SnapshotOK, ThreadsOK, ServiceInv
  <1>9. CallInv'
    BY DEF SnapshotOK, ThreadsOK, CallsOK, TextInv, Follows, ServiceInv, CallInv, NoConvertLoop, DeferredIsHeard
  <1> QED BY <1>1, <1>2, <1>3, <1>4, <1>5, <1>6, <1>7, <1>8, <1>9 DEF IInv

LEMMA AcceptStep == ASSUME IInv, Announce, job.text \notin BadTexts PROVE IInv'
  <1> USE NoJobShape DEF IInv, Announce, AcceptRevision, snapshotVars, lifeVars, serviceVars, supervisorVars, requestVars, callVars, revisionRest
  <1>1. SnapshotOK'
    <2>1. \/ UNCHANGED <<bundle, revision>>
          \/ bundle' = job.text /\ revision' = job
      OBVIOUS
    <2>2. UNCHANGED <<text, generation, state, result, sequence>>
      OBVIOUS
    <2>3. job.text \in Texts
      BY DEF ThreadsOK
    <2> QED BY <2>1, <2>2, <2>3 DEF SnapshotOK, ThreadsOK
  <1>2. ThreadsOK'
    BY DEF SnapshotOK, ThreadsOK
  <1>3. RequestsOK'
    BY DEF SnapshotOK, RequestsOK, Answers, Results, Stops, Failures, Supervisor!Unanswered
  <1>4. CallsOK'
    BY DEF SnapshotOK, ThreadsOK, CallsOK
  <1>5. TextInv'
    BY DEF SnapshotOK, ThreadsOK, RequestsOK, TextInv, Follows
  <1>6. RequestInv'
    BY DEF SnapshotOK, RequestsOK, RequestInv
  <1>7. StateInv'
    BY DEF SnapshotOK, RequestsOK, TextInv, Follows, RequestInv, StateInv, BusyHasAnEnd, IsCurrent, HasResult, Busy
  <1>8. ServiceInv'
    BY DEF SnapshotOK, ThreadsOK, ServiceInv
  <1>9. CallInv'
    BY DEF SnapshotOK, ThreadsOK, CallsOK, TextInv, Follows, ServiceInv, CallInv, NoConvertLoop, DeferredIsHeard
  <1> QED BY <1>1, <1>2, <1>3, <1>4, <1>5, <1>6, <1>7, <1>8, <1>9 DEF IInv

LEMMA RejectStep == ASSUME IInv, Announce, job.text \in BadTexts PROVE IInv'
  <1> USE NoJobShape DEF IInv, Announce, RejectRevision, HasResult, snapshotVars, lifeVars, serviceVars, supervisorVars, requestVars, callVars, revisionRest
  <1>1. SnapshotOK'
    BY DEF SnapshotOK, States
  <1>2. ThreadsOK'
    BY DEF SnapshotOK, ThreadsOK
  <1>3. RequestsOK'
    BY DEF SnapshotOK, RequestsOK, Answers, Results, Stops, Failures, Supervisor!Unanswered
  <1>4. CallsOK'
    BY DEF SnapshotOK, ThreadsOK, CallsOK
  <1>5. TextInv'
    BY DEF SnapshotOK, ThreadsOK, RequestsOK, TextInv, Follows
  <1>6. RequestInv'
    BY DEF SnapshotOK, RequestsOK, RequestInv
  <1>7. StateInv'
    BY DEF SnapshotOK, RequestsOK, TextInv, Follows, RequestInv, StateInv, BusyHasAnEnd, IsCurrent, HasResult, Busy
  <1>8. ServiceInv'
    BY DEF SnapshotOK, ThreadsOK, ServiceInv
  <1>9. CallInv'
    BY DEF SnapshotOK, ThreadsOK, CallsOK, TextInv, Follows, ServiceInv, CallInv, NoConvertLoop, DeferredIsHeard
  <1> QED BY <1>1, <1>2, <1>3, <1>4, <1>5, <1>6, <1>7, <1>8, <1>9 DEF IInv

LEMMA ResolveStep == ASSUME IInv, ResolveRevision PROVE IInv'
  <1> USE NoJobShape DEF IInv, ResolveRevision, snapshotVars, lifeVars, serviceVars, supervisorVars, requestVars, callVars, revisionRest
  <1>1. SnapshotOK'
    BY DEF SnapshotOK, States
  <1>2. ThreadsOK'
    BY DEF SnapshotOK, ThreadsOK
  <1>3. RequestsOK'
    BY DEF SnapshotOK, RequestsOK, Answers, Results, Stops, Failures, Supervisor!Unanswered
  <1>4. CallsOK'
    BY DEF SnapshotOK, ThreadsOK, CallsOK
  <1>5. TextInv'
    BY DEF SnapshotOK, ThreadsOK, RequestsOK, TextInv, Follows
  <1>6. RequestInv'
    BY DEF SnapshotOK, RequestsOK, RequestInv
  <1>7. StateInv'
    BY DEF SnapshotOK, RequestsOK, TextInv, Follows, RequestInv, StateInv, BusyHasAnEnd, IsCurrent, HasResult, Busy
  <1>8. ServiceInv'
    BY DEF SnapshotOK, ThreadsOK, ServiceInv
  <1>9. CallInv'
    BY DEF SnapshotOK, ThreadsOK, CallsOK, TextInv, Follows, ServiceInv, CallInv, NoConvertLoop, DeferredIsHeard
  <1> QED BY <1>1, <1>2, <1>3, <1>4, <1>5, <1>6, <1>7, <1>8, <1>9 DEF IInv

LEMMA NextJobStep == ASSUME IInv, NextJob PROVE IInv'
  <1> USE NoJobShape DEF IInv, NextJob, snapshotVars, lifeVars, serviceVars, supervisorVars, requestVars, callVars, revisionRest
  <1>1. SnapshotOK'
    BY DEF SnapshotOK, States
  <1>2. ThreadsOK'
    BY DEF SnapshotOK, ThreadsOK
  <1>3. RequestsOK'
    BY DEF SnapshotOK, RequestsOK, Answers, Results, Stops, Failures, Supervisor!Unanswered
  <1>4. CallsOK'
    BY DEF SnapshotOK, ThreadsOK, CallsOK
  <1>5. TextInv'
    BY DEF SnapshotOK, ThreadsOK, RequestsOK, TextInv, Follows
  <1>6. RequestInv'
    BY DEF SnapshotOK, RequestsOK, RequestInv
  <1>7. StateInv'
    BY DEF SnapshotOK, RequestsOK, TextInv, Follows, RequestInv, StateInv, BusyHasAnEnd, IsCurrent, HasResult, Busy
  <1>8. ServiceInv'
    BY DEF SnapshotOK, ThreadsOK, ServiceInv
  <1>9. CallInv'
    BY DEF SnapshotOK, ThreadsOK, CallsOK, TextInv, Follows, ServiceInv, CallInv, NoConvertLoop, DeferredIsHeard
  <1> QED BY <1>1, <1>2, <1>3, <1>4, <1>5, <1>6, <1>7, <1>8, <1>9 DEF IInv

LEMMA ExitStep == ASSUME IInv, RevisionThreadExits PROVE IInv'
  <1> USE NoJobShape DEF IInv, RevisionThreadExits, snapshotVars, lifeVars, serviceVars, supervisorVars, requestVars, callVars, revisionRest
  <1>1. SnapshotOK'
    BY DEF SnapshotOK, States
  <1>2. ThreadsOK'
    BY DEF SnapshotOK, ThreadsOK
  <1>3. RequestsOK'
    BY DEF SnapshotOK, RequestsOK, Answers, Results, Stops, Failures, Supervisor!Unanswered
  <1>4. CallsOK'
    BY DEF SnapshotOK, ThreadsOK, CallsOK
  <1>5. TextInv'
    BY DEF SnapshotOK, ThreadsOK, RequestsOK, TextInv, Follows
  <1>6. RequestInv'
    BY DEF SnapshotOK, RequestsOK, RequestInv
  <1>7. StateInv'
    BY DEF SnapshotOK, RequestsOK, TextInv, Follows, RequestInv, StateInv, BusyHasAnEnd, IsCurrent, HasResult, Busy
  <1>8. ServiceInv'
    BY DEF SnapshotOK, ThreadsOK, ServiceInv
  <1>9. CallInv'
    BY DEF SnapshotOK, ThreadsOK, CallsOK, TextInv, Follows, ServiceInv, CallInv, NoConvertLoop, DeferredIsHeard
  <1> QED BY <1>1, <1>2, <1>3, <1>4, <1>5, <1>6, <1>7, <1>8, <1>9 DEF IInv

LEMMA CoordinateStep == ASSUME IInv, Coordinate PROVE IInv'
  <1> USE NoJobShape DEF IInv
  <1>a. UNCHANGED <<text, generation, authenticated, bundle, state, stale, result, history, closed,
                   closing, queued, job, step, retired, built, awaited, revision, captured,
                   delivered, call, on, sequence, shut>>
    BY DEF Coordinate, Supervisor!Begin, Supervisor!AnswerRunning, Supervisor!AnswerDropped, Supervisor!Answer, Supervisor!None, Supervisor!Unanswered, Answers, Results, Stops, Failures, snapshotVars, lifeVars, serviceVars, supervisorVars, requestVars, callVars, revisionRest
  <1>b. \/ /\ waiting # 0 /\ running' = waiting /\ waiting' = 0 /\ UNCHANGED <<dropped, answer>>
        \/ \E a \in Answers : /\ running # 0 /\ running' = 0 /\ answer[running] = "open"
                             /\ answer' = [answer EXCEPT ![running] = a]
                             /\ UNCHANGED <<waiting, dropped>>
        \/ \E r \in dropped, a \in Stops : /\ dropped' = dropped \ {r} /\ answer[r] = "open"
                                         /\ answer' = [answer EXCEPT ![r] = a]
                                         /\ UNCHANGED <<waiting, running>>
    BY DEF Coordinate, Supervisor!Begin, Supervisor!AnswerRunning, Supervisor!AnswerDropped, Supervisor!Answer, Supervisor!None, Supervisor!Unanswered, Answers, Results, Stops, Failures, snapshotVars, lifeVars, serviceVars, supervisorVars, requestVars, callVars, revisionRest
  <1>1. SnapshotOK'
    BY <1>a, <1>b DEF SnapshotOK, States
  <1>2. ThreadsOK'
    BY <1>a, <1>b DEF SnapshotOK, ThreadsOK
  <1>3. RequestsOK'
    BY <1>a, <1>b, ZenonT(60) DEF SnapshotOK, RequestsOK, Answers, Results, Stops, Failures, Supervisor!Unanswered
  <1>4. CallsOK'
    BY <1>a, <1>b DEF SnapshotOK, ThreadsOK, CallsOK
  <1>5. TextInv'
    BY <1>a, <1>b DEF SnapshotOK, ThreadsOK, RequestsOK, TextInv, Follows
  <1>6. RequestInv'
    <2>1. (waiting <= sequence)' /\ (running <= sequence)' /\ (\A r \in dropped : r <= sequence)'
      <3>1. waiting' \in {waiting, 0} /\ running' \in {running, waiting, 0} /\ dropped' \subseteq dropped
        BY <1>b
      <3>2. 0 <= sequence
        BY DEF SnapshotOK
      <3> QED BY <1>a, <3>1, <3>2 DEF RequestInv
    <2>2. ASSUME NEW r \in Requests, r > sequence PROVE answer'[r] = "open"
      BY <1>a, <1>b, <2>2 DEF SnapshotOK, RequestsOK, RequestInv
    <2>3. ASSUME NEW r \in delivered PROVE answer'[r] # "open"
      <3>1. r \in Requests /\ answer[r] # "open"
        BY DEF RequestsOK, RequestInv
      <3>2. "open" \notin Answers
        BY DEF Answers, Results, Stops, Failures
      <3> QED BY <1>b, <3>1, <3>2 DEF RequestsOK, Answers
    <2> QED BY <1>a, <2>1, <2>2, <2>3 DEF RequestInv
  <1>7. StateInv'
    BY <1>a, <1>b DEF SnapshotOK, RequestsOK, TextInv, Follows, RequestInv, StateInv, BusyHasAnEnd, IsCurrent, HasResult, Busy
  <1>8. ServiceInv'
    BY <1>a, <1>b DEF SnapshotOK, ThreadsOK, ServiceInv
  <1>9. CallInv'
    BY <1>a, <1>b DEF SnapshotOK, ThreadsOK, CallsOK, TextInv, Follows, ServiceInv, CallInv, NoConvertLoop, DeferredIsHeard
  <1> QED BY <1>1, <1>2, <1>3, <1>4, <1>5, <1>6, <1>7, <1>8, <1>9 DEF IInv

LEMMA PublishStep == ASSUME IInv, NEW r \in Requests, Finished(r), PublishResult(r), answer[r] \in Results PROVE IInv'
  <1> USE NoJobShape DEF IInv
  <1>a. /\ r \notin delivered /\ answer[r] # "open" /\ delivered' = delivered \cup {r}
        /\ call' = [c \in Calls |-> IF call[c] = "submitted" /\ on[c] = r
                                   THEN "answered" ELSE call[c]]
    BY DEF Finished, PublishResult, CallbackDue, IsCurrent, Results, HasResult, Supervisor!Unanswered, snapshotVars, lifeVars, serviceVars, supervisorVars, requestVars, callVars, revisionRest
  <1>b. UNCHANGED <<closed, closing, queued, job, step, retired, built, awaited, revision, sequence,
                   captured, waiting, running, dropped, answer, shut, on, text,
                   generation, authenticated, bundle>>
    BY DEF Finished, PublishResult, CallbackDue, IsCurrent, Results, HasResult, Supervisor!Unanswered, snapshotVars, lifeVars, serviceVars, supervisorVars, requestVars, callVars, revisionRest
  <1>c. \/ ~IsCurrent(r) /\ UNCHANGED <<state, stale, result, history>>
        \/ /\ IsCurrent(r) /\ answer[r] = "converted" /\ state' = "converted" /\ stale' = FALSE
           /\ result' = [request |-> r, generation |-> captured[r].generation,
                         text |-> captured[r].text]
        \/ /\ IsCurrent(r) /\ answer[r] # "converted" /\ state' \in {"canceled", "rejected", "failed"}
           /\ stale' = HasResult /\ UNCHANGED result
    BY DEF Finished, PublishResult, CallbackDue, IsCurrent, Results, HasResult, Supervisor!Unanswered, snapshotVars, lifeVars, serviceVars, supervisorVars, requestVars, callVars, revisionRest
  <1>1. SnapshotOK'
    <2>1. result' \in [request : Requests \cup {Nothing}, generation : Generations, text : Texts]
      <3>1. captured[r] \in Revision
        BY DEF RequestsOK
      <3>2. CASE UNCHANGED result
        BY <3>2 DEF SnapshotOK
      <3>3. CASE result' = [request |-> r, generation |-> captured[r].generation,
                            text |-> captured[r].text]
        BY <3>1, <3>3
      <3> QED BY <1>c, <3>2, <3>3
    <2>2. state' \in States
      BY <1>c DEF SnapshotOK, States
    <2> QED BY <1>b, <2>1, <2>2 DEF SnapshotOK
  <1>2. ThreadsOK'
    BY <1>a, <1>b, <1>c DEF SnapshotOK, ThreadsOK
  <1>3. RequestsOK'
    BY <1>a, <1>b, <1>c DEF SnapshotOK, RequestsOK, Answers, Results, Stops, Failures, Supervisor!Unanswered
  <1>4. CallsOK'
    BY <1>a, <1>b, <1>c DEF SnapshotOK, ThreadsOK, CallsOK
  <1>5. TextInv'
    BY <1>a, <1>b, <1>c DEF SnapshotOK, ThreadsOK, RequestsOK, TextInv, Follows
  <1>6. RequestInv'
    BY <1>a, <1>b, <1>c DEF SnapshotOK, RequestsOK, RequestInv
  <1>7. StateInv'
    <2>1. CASE UNCHANGED <<state, stale, result, history>> /\ ~(IsCurrent(r))
      <3>1. BusyHasAnEnd'
        BY <1>a, <1>b, <2>1 DEF StateInv, BusyHasAnEnd, IsCurrent, Busy
      <3> QED BY <1>b, <2>1, <3>1 DEF StateInv, HasResult
    <2>2. CASE /\ IsCurrent(r) /\ answer[r] = "converted" /\ state' = "converted" /\ stale' = FALSE
           /\ result' = [request |-> r, generation |-> captured[r].generation,
                         text |-> captured[r].text]
      <3>1. BusyHasAnEnd'
        BY <2>2 DEF BusyHasAnEnd, Busy
      <3>2. (state = "converted" => HasResult /\ result.text = bundle /\ result.generation = generation)'
        BY <1>b, <2>2 DEF IsCurrent, HasResult
      <3>3. (HasResult /\ state # "converting" => (stale <=> state # "converted"))'
        BY <1>b, <2>2 DEF IsCurrent, HasResult
      <3> QED BY <3>1, <3>2, <3>3 DEF StateInv
    <2>3. CASE /\ IsCurrent(r) /\ answer[r] # "converted" /\ state' \in {"canceled", "rejected", "failed"}
           /\ stale' = HasResult /\ UNCHANGED result
      <3>1. BusyHasAnEnd'
        BY <2>3 DEF BusyHasAnEnd, Busy
      <3>2. (state = "converted" => HasResult /\ result.text = bundle /\ result.generation = generation)'
        BY <1>b, <2>3 DEF HasResult
      <3>3. (HasResult /\ state # "converting" => (stale <=> state # "converted"))'
        BY <1>b, <2>3 DEF HasResult
      <3> QED BY <3>1, <3>2, <3>3 DEF StateInv
    <2> QED BY <1>c, <2>1, <2>2, <2>3
  <1>8. ServiceInv'
    BY <1>a, <1>b, <1>c DEF SnapshotOK, ThreadsOK, ServiceInv
  <1>9. CallInv'
    BY <1>a, <1>b, <1>c DEF SnapshotOK, ThreadsOK, CallsOK, TextInv, Follows, ServiceInv, CallInv, NoConvertLoop, DeferredIsHeard
  <1> QED BY <1>1, <1>2, <1>3, <1>4, <1>5, <1>6, <1>7, <1>8, <1>9 DEF IInv

LEMMA EndStep == ASSUME IInv, NEW r \in Requests, NEW s \in {"canceled", "failed"}, Finished(r), EndWithout(r, s) PROVE IInv'
  <1> USE NoJobShape DEF IInv
  <1>a. /\ r \notin delivered /\ answer[r] # "open" /\ delivered' = delivered \cup {r}
        /\ call' = [c \in Calls |-> IF call[c] = "submitted" /\ on[c] = r
                                   THEN "answered" ELSE call[c]]
    BY DEF Finished, EndWithout, CallbackDue, IsCurrent, HasResult, Supervisor!Unanswered, snapshotVars, lifeVars, serviceVars, supervisorVars, requestVars, callVars, revisionRest
  <1>b. UNCHANGED <<closed, closing, queued, job, step, retired, built, awaited, revision, sequence,
                   captured, waiting, running, dropped, answer, shut, on, text,
                   generation, authenticated, bundle>>
    BY DEF Finished, EndWithout, CallbackDue, IsCurrent, HasResult, Supervisor!Unanswered, snapshotVars, lifeVars, serviceVars, supervisorVars, requestVars, callVars, revisionRest
  <1>c. \/ ~(IsCurrent(r) /\ state \in Busy) /\ UNCHANGED <<state, stale, result, history>>
        \/ /\ IsCurrent(r) /\ state \in Busy /\ state' = s /\ stale' = HasResult /\ UNCHANGED result
    BY DEF Finished, EndWithout, CallbackDue, IsCurrent, HasResult, Supervisor!Unanswered, snapshotVars, lifeVars, serviceVars, supervisorVars, requestVars, callVars, revisionRest
  <1>1. SnapshotOK'
    BY <1>a, <1>b, <1>c DEF SnapshotOK, States
  <1>2. ThreadsOK'
    BY <1>a, <1>b, <1>c DEF SnapshotOK, ThreadsOK
  <1>3. RequestsOK'
    BY <1>a, <1>b, <1>c DEF SnapshotOK, RequestsOK, Answers, Results, Stops, Failures, Supervisor!Unanswered
  <1>4. CallsOK'
    BY <1>a, <1>b, <1>c DEF SnapshotOK, ThreadsOK, CallsOK
  <1>5. TextInv'
    BY <1>a, <1>b, <1>c DEF SnapshotOK, ThreadsOK, RequestsOK, TextInv, Follows
  <1>6. RequestInv'
    BY <1>a, <1>b, <1>c DEF SnapshotOK, RequestsOK, RequestInv
  <1>7. StateInv'
    <2>1. CASE UNCHANGED <<state, stale, result, history>> /\ ~(IsCurrent(r) /\ state \in Busy)
      <3>1. BusyHasAnEnd'
        BY <1>a, <1>b, <2>1 DEF StateInv, BusyHasAnEnd, IsCurrent, Busy
      <3> QED BY <1>b, <2>1, <3>1 DEF StateInv, HasResult
    <2>2. CASE IsCurrent(r) /\ state \in Busy /\ state' = s /\ stale' = HasResult /\ UNCHANGED result
      <3>1. BusyHasAnEnd'
        BY <2>2 DEF BusyHasAnEnd, Busy
      <3>2. (state = "converted" => HasResult /\ result.text = bundle /\ result.generation = generation)'
        BY <1>b, <2>2 DEF HasResult
      <3>3. (HasResult /\ state # "converting" => (stale <=> state # "converted"))'
        BY <1>b, <2>2 DEF HasResult
      <3> QED BY <3>1, <3>2, <3>3 DEF StateInv
    <2> QED BY <1>c, <2>1, <2>2
  <1>8. ServiceInv'
    BY <1>a, <1>b, <1>c DEF SnapshotOK, ThreadsOK, ServiceInv
  <1>9. CallInv'
    BY <1>a, <1>b, <1>c DEF SnapshotOK, ThreadsOK, CallsOK, TextInv, Follows, ServiceInv, CallInv, NoConvertLoop, DeferredIsHeard
  <1> QED BY <1>1, <1>2, <1>3, <1>4, <1>5, <1>6, <1>7, <1>8, <1>9 DEF IInv

-----------------------------------------------------------------------------
(* The steps of WorkspaceConversion, brought to the shapes above. *)

LEMMA ConvertShape == ASSUME NEW c \in Calls, Convert(c), CallsOK, SnapshotOK
                      PROVE  Submitted(c) \/ Deferred(c)
  <1>2. CASE authenticated
    BY <1>2 DEF Convert, ConvertOpen, Submitted
  <1>3. CASE ~authenticated
    BY <1>3 DEF Convert, ConvertOpen, Deferred
  <1> QED BY <1>2, <1>3

LEMMA ResumeShape == ASSUME NEW c \in Calls, Resume(c), IInv
                     PROVE  Submitted(c) \/ Deferred(c) \/ Refused(c)
  <1>2. CASE job.text \in BadTexts \/ closed
    BY <1>2 DEF Resume, Refused, callVars
  <1>3. CASE ~(job.text \in BadTexts \/ closed) /\ authenticated
    BY <1>3 DEF Resume, ConvertOpen, Submitted
  <1>4. CASE ~(job.text \in BadTexts \/ closed) /\ ~authenticated
    <2>1. ~retired
      BY <1>4 DEF IInv, ServiceInv
    <2>2. job.generation # 0 /\ job.generation <= awaited
      BY DEF Resume, IInv, ServiceInv
    <2>3. awaited # Nothing
      BY <2>2 DEF IInv, ThreadsOK
    <2> QED BY <1>4, <2>3 DEF Resume, ConvertOpen, Deferred
  <1> QED BY <1>2, <1>3, <1>4

LEMMA FinishShape == ASSUME NEW r \in Requests, ConversionFinished(r), RequestsOK
                     PROVE  /\ Finished(r)
                            /\ \/ answer[r] \in Results /\ PublishResult(r)
                               \/ EndWithout(r, "canceled")
                               \/ EndWithout(r, "failed")
  <1>1. answer[r] \in Results \cup Stops \cup Failures
    BY DEF RequestsOK, ConversionFinished, CallbackDue, Answers
  <1>2. Finished(r)
    BY DEF ConversionFinished, Finished
  <1>3. Results \cap Stops = {} /\ Results \cap Failures = {} /\ Stops \cap Failures = {}
    BY DEF Results, Stops, Failures
  <1> QED BY <1>1, <1>2, <1>3 DEF ConversionFinished

LEMMA StutterStep == ASSUME IInv, UNCHANGED vars PROVE IInv'
  <1> USE DEF IInv, vars, snapshotVars, lifeVars, serviceVars, supervisorVars, requestVars, callVars
  <1>1. SnapshotOK' /\ ThreadsOK' /\ RequestsOK' /\ CallsOK'
    BY SMTT(60) DEF SnapshotOK, ThreadsOK, RequestsOK, CallsOK
  <1>2. TextInv'
    BY DEF TextInv, Follows
  <1>3. RequestInv'
    BY DEF RequestInv
  <1>4. StateInv'
    BY DEF StateInv, BusyHasAnEnd, IsCurrent, HasResult
  <1>5. ServiceInv'
    BY DEF ServiceInv
  <1>6. CallInv'
    BY DEF CallInv, NoConvertLoop, DeferredIsHeard
  <1> QED BY <1>1, <1>2, <1>3, <1>4, <1>5, <1>6

LEMMA NextIInv == ASSUME IInv, [Next]_vars PROVE IInv'
  <1>1. CASE \E t \in Texts : Edit(t)
    BY <1>1, EditStep
  <1>2. ASSUME NEW c \in Calls, Convert(c) PROVE IInv'
    BY <1>2, ConvertShape, SubmitStep, DeferStep DEF IInv
  <1>3. CASE Cancel
    BY <1>3, CancelStep
  <1>4. CASE CloseController
    BY <1>4, CloseControllerStep
  <1>5. CASE Closing
    BY <1>5, CloseCancelsStep, CloseRevisionsStep, CloseSupervisorStep DEF Closing
  <1>6. ASSUME NEW c \in Calls, Resume(c) PROVE IInv'
    BY <1>6, ResumeShape, SubmitStep, DeferStep, RefuseStep
  <1>7. CASE Announce
    BY <1>7, AcceptStep, RejectStep
  <1>8. CASE TakeJob \/ FinishBuild \/ ResolveRevision \/ NextJob \/ RevisionThreadExits
    BY <1>8, TakeJobStep, FinishBuildStep, ResolveStep, NextJobStep, ExitStep
  <1>9. CASE Coordinate
    BY <1>9, CoordinateStep
  <1>10. ASSUME NEW r \in Requests, ConversionFinished(r) PROVE IInv'
    BY <1>10, FinishShape, PublishStep, EndStep DEF IInv
  <1>11. CASE UNCHANGED vars
    BY <1>11, StutterStep
  <1> QED BY <1>1, <1>2, <1>3, <1>4, <1>5, <1>6, <1>7, <1>8, <1>9, <1>10, <1>11
          DEF Next, User, RevisionThread, Coordinator

(* The invariant of the controller, the revision thread and the coordinator. *)
THEOREM Invariance == Spec => []IInv
  BY InitIInv, NextIInv, PTL DEF Spec

-----------------------------------------------------------------------------
(* can_save_c is true only of C generated from the documents on the screen:  *)
(* the generations of model.WorkspaceSnapshot do what they are for.          *)
THEOREM SavedIsCurrent == Spec => []SavableIsCurrent
  <1>1. ASSUME IInv PROVE SavableIsCurrent
    BY <1>1, NoTextAssumption
       DEF IInv, SnapshotOK, TextInv, Follows, StateInv, SavableIsCurrent, CanSaveC
  <1> QED BY <1>1, Invariance, PTL

(* convert_async submits a revision that is that of the documents on the     *)
(* screen, and never refuses with "workspace revision identity is unsettled".*)
THEOREM AuthenticationIsCurrent == Spec => []AuthenticatedIsCurrent
  <1>1. ASSUME IInv PROVE AuthenticatedIsCurrent
    BY <1>1 DEF IInv, SnapshotOK, TextInv, AuthenticatedIsCurrent
  <1> QED BY <1>1, Invariance, PTL

(* A busy snapshot waits for a completion that will be taken into account.   *)
THEOREM BusyEndsSometime == Spec => []BusyHasAnEnd
  <1>1. ASSUME IInv PROVE BusyHasAnEnd
    BY <1>1 DEF IInv, StateInv
  <1> QED BY <1>1, Invariance, PTL

(* Retained C is marked stale exactly when Save C is refused.                *)
THEOREM StaleIsMarked == Spec => []MarkedStale
  <1>1. ASSUME IInv PROVE MarkedStale
    BY <1>1 DEF IInv, StateInv, MarkedStale, CanSaveC
  <1> QED BY <1>1, Invariance, PTL

(* No deferred call of convert_async is forgotten, and none loops.           *)
THEOREM DeferralIsSafe == Spec => []DeferralIsFinite
  <1>1. ASSUME IInv PROVE DeferralIsFinite
    BY <1>1 DEF IInv, CallInv, DeferralIsFinite
  <1> QED BY <1>1, Invariance, PTL

LEMMA ResultStep ==
  ASSUME IInv, [Next]_vars, result' # result
  PROVE  /\ result'.request = sequence
         /\ result'.request > result.request
         /\ result'.generation = generation
         /\ result'.text = text
         /\ answer[sequence] = "converted"
  <1>1. PICK r \in Requests : ConversionFinished(r)
    <2> USE DEF snapshotVars
    <2>1. ASSUME NEW t \in Texts, Edit(t) PROVE FALSE
      BY <2>1 DEF Edit
    <2>2. ASSUME NEW c \in Calls, ConvertOpen(c) PROVE FALSE
      BY <2>2 DEF ConvertOpen, SubmitRevision, Defer
    <2>3. ASSUME NEW c \in Calls, Resume(c) PROVE FALSE
      BY <2>2, <2>3 DEF Resume
    <2>4. ASSUME NEW c \in Calls, Convert(c) PROVE FALSE
      BY <2>2, <2>4 DEF Convert
    <2>5. CASE Cancel \/ CloseController \/ Closing
      BY <2>5 DEF Cancel, CloseController, Closing, CloseCancels, CloseRevisions, CloseSupervisor
    <2>6. CASE TakeJob \/ FinishBuild \/ Announce \/ ResolveRevision \/ NextJob \/ RevisionThreadExits
      BY <2>6 DEF TakeJob, FinishBuild, Announce, AcceptRevision, RejectRevision,
                  ResolveRevision, NextJob, RevisionThreadExits
    <2>7. CASE Coordinate
      BY <2>7 DEF Coordinate
    <2>8. CASE UNCHANGED vars
      BY <2>8 DEF vars
    <2> QED BY <2>1, <2>3, <2>4, <2>5, <2>6, <2>7, <2>8
            DEF Next, User, RevisionThread, Coordinator
  <1>2. CallbackDue(r) /\ PublishResult(r)
    <2>1. CallbackDue(r)
      BY <1>1 DEF ConversionFinished
    <2>2. \A s : ~EndWithout(r, s)
      BY DEF EndWithout, snapshotVars
    <2> QED BY <1>1, <2>1, <2>2, FinishShape DEF IInv
  <1>3. /\ IsCurrent(r)
        /\ answer[r] = "converted"
        /\ result' = [request |-> r, generation |-> captured[r].generation,
                      text |-> captured[r].text]
    BY <1>2 DEF PublishResult, snapshotVars
  <1>4. r = sequence /\ r \notin delivered /\ captured[r].generation = generation
    BY <1>2, <1>3 DEF IsCurrent, CallbackDue
  <1>5. result.request < r
    <2>1. \A d \in delivered : d <= sequence
      BY DEF IInv, SnapshotOK, RequestsOK, RequestInv
    <2> QED BY <1>4, <2>1 DEF IInv, SnapshotOK, RequestsOK, RequestInv
  <1>6. captured[r].text = text
    BY <1>4 DEF IInv, TextInv, Follows
  <1> QED BY <1>3, <1>4, <1>5, <1>6 DEF IInv, SnapshotOK

(* _publish_result: the last-known-good C gives way only to the C of the     *)
(* newest request for the generation on the screen.                          *)
THEOREM LastKnownGoodIsKept == Spec => LastKnownGood
  <1>1. ASSUME IInv, [Next]_vars
        PROVE  [ result' # result =>
                   /\ result'.request = sequence
                   /\ result'.request > result.request
                   /\ result'.generation = generation
                   /\ result'.text = text
                   /\ answer[sequence] = "converted" ]_vars
    BY <1>1, ResultStep
  <1> QED BY <1>1, Invariance, PTL DEF Spec, LastKnownGood

-----------------------------------------------------------------------------
(* The history. Only requests whose completion was delivered are in it, so    *)
(* that the one being recorded is new and the newest.                         *)
HistoryInv ==
    /\ HistoryOK
    /\ \A i \in DOMAIN history : history[i].request \in delivered
    /\ HistoryTellsResult

(* The completion of request r is recorded, with its C or without.            *)
Recorded(r, published) ==
    /\ r = sequence /\ r \notin delivered /\ delivered' = delivered \cup {r}
    /\ Record(Entry(r, published))
    /\ result'.request = IF published THEN r ELSE result.request

(* append_conversion_history: a new entry is appended, and one is dropped at  *)
(* the front when there are too many.                                         *)
LEMMA RecordAppends ==
  ASSUME HistoryOK, NEW entry \in Entries, Record(entry),
         \A i \in DOMAIN history : history[i].request # entry.request
  PROVE  \E k \in {0, 1} :
           /\ history' \in Seq(Entries)
           /\ Len(history') = Len(history) + 1 - k /\ Len(history') <= HistoryLimit
           /\ Len(history') >= 1 /\ history'[Len(history')] = entry
           /\ \A i \in 1 .. Len(history') - 1 : history'[i] = history[i + k]
  <1> DEFINE all == Append(history, entry)
  <1>1. history \in Seq(Entries) /\ Len(history) \in Nat /\ Len(history) <= HistoryLimit
    BY DEF HistoryOK
  <1>2. all \in Seq(Entries) /\ Len(all) = Len(history) + 1 /\ all[Len(history) + 1] = entry
        /\ \A i \in 1 .. Len(history) : all[i] = history[i]
    BY <1>1
  <1>3. history' = IF Len(all) > HistoryLimit THEN Tail(all) ELSE all
    BY DEF Record
  <1> HIDE DEF all
  <1>4. CASE Len(all) > HistoryLimit
    <2>1. Tail(all) \in Seq(Entries) /\ Len(Tail(all)) = Len(all) - 1
          /\ \A i \in 1 .. Len(all) - 1 : Tail(all)[i] = all[i + 1]
      BY <1>1, <1>2
    <2>2. history' = Tail(all) /\ Len(history) >= 1
      BY <1>1, <1>2, <1>3, <1>4
    <2>3. history'[Len(history')] = entry
      BY <1>1, <1>2, <2>1, <2>2
    <2>4. \A i \in 1 .. Len(history') - 1 : history'[i] = history[i + 1]
      BY <1>1, <1>2, <2>1, <2>2
    <2> QED BY <1>1, <1>2, <2>1, <2>2, <2>3, <2>4
  <1>5. CASE ~(Len(all) > HistoryLimit)
    <2>1. history' = all
      BY <1>3, <1>5
    <2> QED BY <1>1, <1>2, <1>5, <2>1
  <1> QED BY <1>4, <1>5

LEMMA RecordedStep ==
  ASSUME IInv, HistoryInv, NEW r \in Requests, NEW published \in BOOLEAN, Recorded(r, published)
  PROVE  HistoryInv'
  <1>1. /\ Entry(r, published) \in Entries /\ Entry(r, published).request = r
        /\ Entry(r, published).published = published
    BY DEF Entry, Entries
  <1>2. \A d \in delivered : d <= sequence /\ d \in Requests
    BY DEF IInv, SnapshotOK, RequestsOK, RequestInv
  <1>3. \A i \in DOMAIN history : history[i].request < r /\ history[i].request \in Requests
    BY <1>2 DEF HistoryInv, Recorded
  <1>4. \A i \in DOMAIN history : history[i].request # r
    BY <1>3
  <1>5. PICK k \in {0, 1} :
           /\ history' \in Seq(Entries)
           /\ Len(history') = Len(history) + 1 - k /\ Len(history') <= HistoryLimit
           /\ Len(history') >= 1 /\ history'[Len(history')] = Entry(r, published)
           /\ \A i \in 1 .. Len(history') - 1 : history'[i] = history[i + k]
    BY <1>1, <1>4, RecordAppends DEF HistoryInv, Recorded
  <1>6. /\ history \in Seq(Entries) /\ Len(history) \in Nat /\ Len(history') \in Nat
        /\ DOMAIN history = 1 .. Len(history) /\ DOMAIN history' = 1 .. Len(history')
    BY <1>5 DEF HistoryInv, HistoryOK
  <1>7. HistoryOK'
    BY <1>5 DEF HistoryOK
  <1> DEFINE n == Len(history)
             m == Len(history')
  <1>a. n \in Nat /\ m \in Nat /\ k \in Nat /\ m = n + 1 - k /\ m >= 1
    BY <1>5, <1>6
  <1>b. DOMAIN history = 1 .. n /\ DOMAIN history' = 1 .. m /\ history'[m] = Entry(r, published)
    BY <1>5, <1>6
  <1>c. \A i \in 1 .. m - 1 : history'[i] = history[i + k]
    BY <1>5
  <1> HIDE DEF n, m
  <1>d. \A i \in 1 .. m - 1 : i + k \in 1 .. n
    BY <1>a
  <1>8. \A i \in DOMAIN history' : history'[i].request \in delivered'
    BY <1>1, <1>5, <1>6 DEF HistoryInv, Recorded
  <1>9. \A i, j \in DOMAIN history' : i < j => history'[i].request < history'[j].request
    <2> SUFFICES ASSUME NEW i \in DOMAIN history', NEW j \in DOMAIN history', i < j
                 PROVE  history'[i].request < history'[j].request
      OBVIOUS
    <2>1. i \in 1 .. m - 1
      BY <1>a, <1>b
    <2>2. history'[i] = history[i + k] /\ i + k \in DOMAIN history
      BY <1>b, <1>c, <1>d, <2>1
    <2>3. CASE j = m
      BY <1>1, <1>3, <1>b, <2>2, <2>3
    <2>4. CASE j # m
      <3>1. j \in 1 .. m - 1 /\ i + k < j + k
        BY <1>a, <1>b, <2>4
      <3>2. history'[j] = history[j + k] /\ j + k \in DOMAIN history
        BY <1>b, <1>c, <1>d, <3>1
      <3> QED BY <2>2, <3>1, <3>2 DEF HistoryInv, HistoryTellsResult
    <2> QED BY <2>3, <2>4
  <1>10. ASSUME NEW i \in DOMAIN history', history'[i].published
         PROVE  /\ history'[i].request <= result'.request
                /\ \E j \in DOMAIN history' : history'[j] = Entry(result'.request, TRUE)
    <2>0. i = m \/ i \in 1 .. m - 1
      BY <1>a, <1>b
    <2>1. CASE published
      <3>1. result'.request = r /\ history'[m] = Entry(result'.request, TRUE)
        BY <1>b, <2>1 DEF Recorded, Entry
      <3>2. history'[i].request <= r
        <4>1. CASE i = m
          BY <1>1, <1>b, <4>1
        <4>2. CASE i \in 1 .. m - 1
          BY <1>3, <1>b, <1>c, <1>d, <4>2
        <4> QED BY <2>0, <4>1, <4>2
      <3>3. m \in DOMAIN history'
        BY <1>a, <1>b
      <3>4. \E j \in DOMAIN history' : history'[j] = Entry(result'.request, TRUE)
        BY <3>1, <3>3
      <3>5. history'[i].request <= result'.request
        BY <3>1, <3>2
      <3> QED BY <3>4, <3>5
    <2>2. CASE ~published
      <3>1. i \in 1 .. m - 1
        BY <1>1, <1>b, <1>10, <2>0, <2>2
      <3>2. i + k \in DOMAIN history /\ history'[i] = history[i + k]
        BY <1>b, <1>c, <1>d, <3>1
      <3>3. PICK j \in DOMAIN history : history[j] = Entry(result.request, TRUE)
        BY <1>10, <3>2 DEF HistoryInv, HistoryTellsResult
      <3>4. history[i + k].request <= history[j].request
        BY <1>10, <3>2, <3>3 DEF HistoryInv, HistoryTellsResult, Entry
      <3>5. ~(j < i + k)
        <4>1. ASSUME j < i + k PROVE FALSE
          <5>1. history[j].request < history[i + k].request
            BY <3>2, <4>1 DEF HistoryInv, HistoryTellsResult
          <5>2. history[j].request \in Requests /\ history[i + k].request \in Requests
            BY <1>3, <3>2
          <5> QED BY <3>4, <5>1, <5>2
        <4> QED BY <4>1
      <3>6. j - k \in 1 .. m - 1 /\ (j - k) + k = j
        BY <1>a, <1>b, <3>1, <3>5
      <3>7. history'[j - k] = history[j]
        BY <1>c, <3>6
      <3>8. result'.request = result.request
        BY <2>2 DEF Recorded
      <3>9. j - k \in DOMAIN history'
        BY <1>a, <1>b, <3>6
      <3> QED BY <1>10, <3>2, <3>3, <3>7, <3>8, <3>9 DEF HistoryInv, HistoryTellsResult
    <2> QED BY <2>1, <2>2
  <1> QED BY <1>7, <1>8, <1>9, <1>10 DEF HistoryInv, HistoryTellsResult

LEMMA HistoryStep ==
  ASSUME IInv, [Next]_vars
  PROVE  \/ UNCHANGED <<history, result>> /\ delivered \subseteq delivered'
         \/ \E r \in Requests, published \in BOOLEAN : Recorded(r, published)
  <1> USE DEF snapshotVars, requestVars
  <1>1. ASSUME NEW t \in Texts, Edit(t) PROVE UNCHANGED <<history, result, delivered>>
    BY <1>1 DEF Edit
  <1>2. ASSUME NEW c \in Calls, ConvertOpen(c) PROVE UNCHANGED <<history, result, delivered>>
    BY <1>2 DEF ConvertOpen, SubmitRevision, Defer
  <1>3. ASSUME NEW c \in Calls, Resume(c) PROVE UNCHANGED <<history, result, delivered>>
    BY <1>2, <1>3 DEF Resume
  <1>4. ASSUME NEW c \in Calls, Convert(c) PROVE UNCHANGED <<history, result, delivered>>
    BY <1>2, <1>4 DEF Convert
  <1>5. CASE Cancel \/ CloseController \/ Closing
    BY <1>5 DEF Cancel, CloseController, Closing, CloseCancels, CloseRevisions, CloseSupervisor
  <1>6. CASE TakeJob \/ FinishBuild \/ Announce \/ ResolveRevision \/ NextJob \/ RevisionThreadExits
    BY <1>6 DEF TakeJob, FinishBuild, Announce, AcceptRevision, RejectRevision,
                ResolveRevision, NextJob, RevisionThreadExits, revisionRest
  <1>7. CASE Coordinate
    BY <1>7 DEF Coordinate
  <1>8. CASE UNCHANGED vars
    BY <1>8 DEF vars
  <1>9. ASSUME NEW r \in Requests, ConversionFinished(r)
        PROVE  \/ UNCHANGED <<history, result>> /\ delivered \subseteq delivered'
               \/ \E published \in BOOLEAN : Recorded(r, published)
    <2>1. r \notin delivered /\ delivered' = delivered \cup {r}
      BY <1>9 DEF ConversionFinished, CallbackDue
    <2>2. ASSUME PublishResult(r)
          PROVE  UNCHANGED <<history, result>> \/ \E published \in BOOLEAN : Recorded(r, published)
      <3>1. CASE ~IsCurrent(r)
        BY <2>2, <3>1 DEF PublishResult
      <3>2. CASE IsCurrent(r) /\ answer[r] = "converted"
        <4>1. Record(Entry(r, answer[r] = "converted"))
              /\ result' = [request |-> r, generation |-> captured[r].generation,
                            text |-> captured[r].text]
          BY <2>2, <3>2 DEF PublishResult
        <4>2. Record(Entry(r, TRUE)) /\ result'.request = r
          BY <3>2, <4>1
        <4> QED BY <2>1, <3>2, <4>2 DEF Recorded, IsCurrent
      <3>3. CASE IsCurrent(r) /\ answer[r] # "converted"
        <4>1. Record(Entry(r, FALSE)) /\ result' = result
          BY <2>2, <3>3 DEF PublishResult
        <4> QED BY <2>1, <3>3, <4>1 DEF Recorded, IsCurrent
      <3> QED BY <3>1, <3>2, <3>3
    <2>3. ASSUME NEW s \in {"canceled", "failed"}, EndWithout(r, s)
          PROVE  UNCHANGED <<history, result>> \/ \E published \in BOOLEAN : Recorded(r, published)
      <3>1. CASE ~(IsCurrent(r) /\ state \in Busy)
        BY <2>3, <3>1 DEF EndWithout
      <3>2. CASE IsCurrent(r) /\ state \in Busy
        <4>1. Record(Entry(r, FALSE)) /\ result' = result
          BY <2>3, <3>2 DEF EndWithout
        <4> QED BY <2>1, <3>2, <4>1 DEF Recorded, IsCurrent
      <3> QED BY <3>1, <3>2
    <2> QED BY <1>9, <2>1, <2>2, <2>3, FinishShape DEF IInv
  <1> QED BY <1>1, <1>3, <1>4, <1>5, <1>6, <1>7, <1>8, <1>9
          DEF Next, User, RevisionThread, Coordinator

LEMMA HistoryInvStep == ASSUME IInv, HistoryInv, [Next]_vars PROVE HistoryInv'
  <1>1. CASE UNCHANGED <<history, result>> /\ delivered \subseteq delivered'
    BY <1>1 DEF HistoryInv, HistoryOK, HistoryTellsResult
  <1> QED BY <1>1, HistoryStep, RecordedStep

LEMMA InitHistoryInv == Init => HistoryInv
  BY DEF Init, HistoryInv, HistoryOK, HistoryTellsResult

(* append_conversion_history and _publish_result: the history tells the       *)
(* requests in their order, and the newest one it calls published is that of  *)
(* the C on the screen, for any number of conversions and any limit.          *)
THEOREM HistoryIsTrue == Spec => []HistoryTellsResult
  <1>1. HistoryInv => HistoryTellsResult
    BY DEF HistoryInv
  <1> QED BY <1>1, InitHistoryInv, HistoryInvStep, Invariance, PTL DEF Spec

-----------------------------------------------------------------------------
(* The four flags. *)

LEMMA SnapshotFlagsStep ==
  ASSUME IInv, FlagsOK, [Next]_vars
  PROVE  authenticated' \in BOOLEAN /\ stale' \in BOOLEAN
  <1> USE DEF snapshotVars
  <1>0. authenticated \in BOOLEAN /\ stale \in BOOLEAN /\ HasResult \in BOOLEAN
    BY Zenon DEF FlagsOK, HasResult
  <1>1. ASSUME NEW t \in Texts, Edit(t) PROVE authenticated' \in BOOLEAN /\ stale' \in BOOLEAN
    BY <1>0, <1>1, Zenon DEF Edit
  <1>2. ASSUME NEW c \in Calls, ConvertOpen(c) PROVE authenticated' \in BOOLEAN /\ stale' \in BOOLEAN
    BY <1>0, <1>2, Zenon DEF ConvertOpen, SubmitRevision, Defer
  <1>3. ASSUME NEW c \in Calls, Resume(c) PROVE authenticated' \in BOOLEAN /\ stale' \in BOOLEAN
    BY <1>0, <1>2, <1>3, Zenon DEF Resume
  <1>4. ASSUME NEW c \in Calls, Convert(c) PROVE authenticated' \in BOOLEAN /\ stale' \in BOOLEAN
    BY <1>2, <1>4, Zenon DEF Convert
  <1>5. CASE Cancel \/ CloseCancels
    BY <1>0, <1>5, Zenon DEF Cancel, CloseCancels, StopConversion
  <1>6. CASE CloseController \/ CloseRevisions \/ CloseSupervisor
    BY <1>0, <1>6, Zenon DEF CloseController, CloseRevisions, CloseSupervisor
  <1>7. CASE TakeJob \/ FinishBuild \/ ResolveRevision \/ NextJob \/ RevisionThreadExits
    BY <1>0, <1>7, Zenon DEF TakeJob, FinishBuild, ResolveRevision, NextJob, RevisionThreadExits
  <1>8. CASE Announce
    BY <1>0, <1>8, Zenon DEF Announce, AcceptRevision, RejectRevision
  <1>9. CASE Coordinate
    BY <1>0, <1>9, Zenon DEF Coordinate
  <1>10. ASSUME NEW r \in Requests, ConversionFinished(r)
         PROVE  authenticated' \in BOOLEAN /\ stale' \in BOOLEAN
    <2>1. PublishResult(r) \/ EndWithout(r, "canceled") \/ EndWithout(r, "failed")
      BY <1>10, FinishShape DEF IInv
    <2>2. ASSUME PublishResult(r) PROVE authenticated' \in BOOLEAN /\ stale' \in BOOLEAN
      BY <1>0, <2>2, Zenon DEF PublishResult
    <2>3. ASSUME NEW s, EndWithout(r, s) PROVE authenticated' \in BOOLEAN /\ stale' \in BOOLEAN
      BY <1>0, <2>3, Zenon DEF EndWithout
    <2> QED BY <2>1, <2>2, <2>3, Zenon
  <1>11. CASE UNCHANGED vars
    BY <1>0, <1>11, Zenon DEF vars
  <1> QED BY <1>1, <1>3, <1>4, <1>5, <1>6, <1>7, <1>8, <1>9, <1>10, <1>11, Zenon
          DEF Next, User, Closing, RevisionThread, Coordinator

LEMMA LifeFlagsStep ==
  ASSUME FlagsOK, [Next]_vars
  PROVE  closed' \in BOOLEAN /\ retired' \in BOOLEAN
  <1> USE DEF lifeVars, serviceVars
  <1>0. closed \in BOOLEAN /\ retired \in BOOLEAN
    BY Zenon DEF FlagsOK
  <1>1. ASSUME NEW t \in Texts, Edit(t) PROVE UNCHANGED <<closed, retired>>
    BY <1>1, Zenon DEF Edit
  <1>2. ASSUME NEW c \in Calls, Convert(c) PROVE UNCHANGED <<closed, retired>>
    BY <1>2, Zenon DEF Convert
  <1>3. ASSUME NEW c \in Calls, Resume(c) PROVE UNCHANGED <<closed, retired>>
    BY <1>3, Zenon DEF Resume
  <1>4. CASE Cancel \/ CloseCancels \/ CloseSupervisor
    BY <1>0, <1>4, Zenon DEF Cancel, CloseCancels, CloseSupervisor
  <1>5. CASE CloseController \/ CloseRevisions
    BY <1>0, <1>5, Zenon DEF CloseController, CloseRevisions
  <1>6. CASE TakeJob \/ FinishBuild \/ Announce \/ ResolveRevision \/ NextJob \/ RevisionThreadExits
    BY <1>0, <1>6, Zenon DEF TakeJob, FinishBuild, Announce, ResolveRevision, NextJob,
                              RevisionThreadExits, revisionRest
  <1>7. ASSUME NEW r \in Requests, ConversionFinished(r) PROVE UNCHANGED <<closed, retired>>
    BY <1>7, Zenon DEF ConversionFinished
  <1>8. CASE Coordinate \/ UNCHANGED vars
    BY <1>0, <1>8, Zenon DEF Coordinate, vars
  <1> QED BY <1>0, <1>1, <1>2, <1>3, <1>4, <1>5, <1>6, <1>7, <1>8, Zenon
          DEF Next, User, Closing, RevisionThread, Coordinator

(* Every variable of the controller, the revision service, the coordinator    *)
(* and the callers keeps its type, and the history its bound                  *)
(* (MAX_CONVERSION_HISTORY_ENTRIES).                                          *)
THEOREM TypesAreKept == Spec => []TypeOK
  <1>1. Init => FlagsOK
    BY Zenon DEF Init, FlagsOK
  <1>2. IInv /\ FlagsOK /\ [Next]_vars => FlagsOK'
    BY SnapshotFlagsStep, LifeFlagsStep, Zenon DEF FlagsOK
  <1>3. IInv /\ HistoryInv /\ FlagsOK => TypeOK
    BY Zenon DEF IInv, HistoryInv, TypeOK
  <1> QED BY <1>1, <1>2, <1>3, InitHistoryInv, HistoryInvStep, Invariance, PTL DEF Spec

-----------------------------------------------------------------------------
(* The revision service implements LatestRequestService. *)

Cancelled == {g \in 1 .. MaxEdits : built[g] = "cancelled"}
Outcomes  == [g \in 1 .. MaxEdits |-> Outcome(g)]
Seen      == <<awaited, queued, job, step, built, retired>>

LEMMA RevisionsInit == Init => Revisions!Init
  BY DEF Init, Revisions!Init, Revisions!None, Revisions!Requests, Revisions!Unanswered,
         Supervisor!Unanswered, BeingBuilt, Outcome, NoJob

(* A job that is dropped is not forgotten. *)
LEMMA DroppedIsCancelled ==
  ASSUME IInv, NEW new \in Revision, ReplaceQueued(new)
  PROVE  /\ queued' = new
         /\ Cancelled' = Cancelled \cup ({queued.generation} \ {Nothing})
         /\ Outcomes' = Outcomes
  <1> USE DEF ReplaceQueued
  <1>1. CASE queued = NoJob
    BY <1>1, NoJobShape DEF Cancelled, Outcomes, Outcome
  <1>2. CASE queued # NoJob
    <2> DEFINE g == queued.generation
    <2>1. g \in 1 .. MaxEdits /\ built[g] = "open"
      BY <1>2 DEF IInv, ThreadsOK, ServiceInv
    <2>2. built' = [built EXCEPT ![g] = "cancelled"] /\ built \in [0 .. MaxEdits -> {"open", "built", "refused", "cancelled"}]
      BY <1>2 DEF IInv, ThreadsOK
    <2> HIDE DEF g
    <2>3. \A k \in 1 .. MaxEdits : built'[k] = IF k = g THEN "cancelled" ELSE built[k]
      BY <2>1, <2>2
    <2>4. Cancelled' = Cancelled \cup {g}
      BY <2>1, <2>3 DEF Cancelled
    <2>5. \A k \in 1 .. MaxEdits : Outcome(k)' = Outcome(k)
      BY <2>1, <2>3 DEF Outcome, Supervisor!Unanswered
    <2>6. Outcomes' = Outcomes
      BY <2>5 DEF Outcomes
    <2> QED BY <2>1, <2>4, <2>6 DEF g
  <1> QED BY <1>1, <1>2

LEMMA EditRefines ==
  ASSUME IInv, NEW t \in Texts, Edit(t)
  PROVE  Revisions!Accept \/ UNCHANGED Seen
  <1>1. CASE retired
    BY <1>1 DEF Edit, Seen, lifeVars
  <1>2. CASE ~retired
    <2> DEFINE new == [generation |-> generation', text |-> t]
    <2>1. /\ generation \in 0 .. MaxEdits /\ generation < MaxEdits /\ generation' = generation + 1
          /\ awaited = generation
      BY <1>2 DEF Edit, NextGeneration, IInv, SnapshotOK, ServiceInv
    <2>2. /\ awaited' = awaited + 1 /\ awaited < MaxEdits
          /\ ReplaceQueued(new) /\ UNCHANGED <<job, step, retired>>
      BY <1>2, <2>1 DEF Edit, lifeVars
    <2>3. new \in Revision /\ new.generation = awaited + 1
      BY <2>1
    <2> HIDE DEF new
    <2>4. /\ queued' = new
          /\ Cancelled' = Cancelled \cup ({queued.generation} \ {Nothing})
          /\ Outcomes' = Outcomes
      BY <2>2, <2>3, DroppedIsCancelled
    <2>5. BeingBuilt' = BeingBuilt
      BY <2>2 DEF BeingBuilt
    <2> QED BY <1>2, <2>2, <2>3, <2>4, <2>5
            DEF Revisions!Accept, Revisions!DropWaiting, Revisions!None, Cancelled, Outcomes
  <1> QED BY <1>1, <1>2

LEMMA CloseRefines == ASSUME IInv, CloseRevisions PROVE Revisions!Shut
  <1>1. /\ ~retired /\ retired' = TRUE /\ ReplaceQueued(NoJob)
        /\ UNCHANGED <<job, step, awaited>>
    BY DEF CloseRevisions, IInv, ServiceInv
  <1>2. /\ queued' = NoJob
        /\ Cancelled' = Cancelled \cup ({queued.generation} \ {Nothing})
        /\ Outcomes' = Outcomes
    BY <1>1, NoJobShape, DroppedIsCancelled
  <1>3. BeingBuilt' = BeingBuilt
    BY <1>1 DEF BeingBuilt
  <1> QED BY <1>1, <1>2, <1>3, NoJobShape
          DEF Revisions!Shut, Revisions!DropWaiting, Revisions!None, Cancelled, Outcomes

LEMMA TakeJobRefines == ASSUME IInv, TakeJob PROVE Revisions!Begin
  <1>1. /\ queued.generation # 0 /\ queued'.generation = 0 /\ BeingBuilt = 0
        /\ BeingBuilt' = queued.generation
    BY NoJobShape DEF TakeJob, IInv, ServiceInv, BeingBuilt
  <1>2. UNCHANGED <<awaited, built, retired>>
    BY DEF TakeJob, revisionRest
  <1>3. Outcomes' = Outcomes /\ Cancelled' = Cancelled
    BY <1>2 DEF Outcomes, Outcome, Cancelled
  <1> QED BY <1>1, <1>2, <1>3 DEF Revisions!Begin, Revisions!None, Cancelled, Outcomes

LEMMA ResolveRefines == ASSUME IInv, ResolveRevision PROVE Revisions!AnswerRunning
  <1> DEFINE g == job.generation
             a == IF job.text \in BadTexts THEN "refused" ELSE "built"
  <1>1. /\ g \in 1 .. MaxEdits /\ built[g] = "open"
        /\ BeingBuilt = g /\ BeingBuilt' = 0
        /\ built' = [built EXCEPT ![g] = a]
        /\ built \in [0 .. MaxEdits -> {"open", "built", "refused", "cancelled"}]
    BY DEF ResolveRevision, IInv, ThreadsOK, ServiceInv, BeingBuilt
  <1>2. UNCHANGED <<awaited, queued, retired>>
    BY DEF ResolveRevision, revisionRest
  <1>3. a \in {"built", "refused"}
    OBVIOUS
  <1> HIDE DEF g, a
  <1>4. \A k \in 1 .. MaxEdits : built'[k] = IF k = g THEN a ELSE built[k]
    BY <1>1
  <1>5. Cancelled' = Cancelled
    BY <1>1, <1>3, <1>4 DEF Cancelled
  <1>6. \A k \in 1 .. MaxEdits : Outcome(k)' = IF k = g THEN a ELSE Outcome(k)
    BY <1>3, <1>4 DEF Outcome
  <1>7. Outcomes' = [Outcomes EXCEPT ![g] = a]
    BY <1>1, <1>6 DEF Outcomes
  <1>8. Outcomes[g] = "open"
    BY <1>1 DEF Outcomes, Outcome
  <1>9. Revisions!Answer(g, a)
    BY <1>3, <1>7, <1>8 DEF Revisions!Answer, Revisions!Unanswered, Outcomes
  <1>10. Revisions!Answer(BeingBuilt, a) /\ BeingBuilt # 0
    BY <1>1, <1>9
  <1> QED BY <1>1, <1>2, <1>3, <1>5, <1>10 DEF Revisions!AnswerRunning, Revisions!None, Cancelled

(* Every other step changes nothing a caller of the service can see. *)
LEMMA OtherRefines ==
  ASSUME IInv,
         \/ \E c \in Calls : Convert(c) \/ Resume(c)
         \/ Cancel \/ CloseController \/ CloseCancels \/ CloseSupervisor
         \/ FinishBuild \/ Announce \/ NextJob \/ RevisionThreadExits
         \/ Coordinate \/ \E r \in Requests : ConversionFinished(r)
         \/ UNCHANGED vars
  PROVE  /\ UNCHANGED <<awaited, queued, built, retired>>
         /\ BeingBuilt' = BeingBuilt
  <1> USE DEF serviceVars, revisionRest
  <1>1. ASSUME NEW c \in Calls, Convert(c) \/ Resume(c) PROVE UNCHANGED Seen
    BY <1>1 DEF Convert, Resume, Seen
  <1>2. CASE Cancel \/ CloseController \/ CloseCancels \/ CloseSupervisor
    BY <1>2 DEF Cancel, CloseController, CloseCancels, CloseSupervisor, Seen, BeingBuilt
  <1>3. CASE FinishBuild
    BY <1>3 DEF FinishBuild, BeingBuilt
  <1>4. CASE Announce
    BY <1>4 DEF Announce, BeingBuilt
  <1>5. CASE NextJob \/ RevisionThreadExits
    BY <1>5 DEF NextJob, RevisionThreadExits, BeingBuilt
  <1>6. CASE Coordinate \/ UNCHANGED vars
    BY <1>6 DEF Coordinate, vars, BeingBuilt
  <1>7. ASSUME NEW r \in Requests, ConversionFinished(r) PROVE UNCHANGED Seen
    BY <1>7 DEF ConversionFinished, Seen
  <1> QED BY <1>1, <1>2, <1>3, <1>4, <1>5, <1>6, <1>7 DEF Seen, BeingBuilt

LEMMA RevisionsStep ==
  ASSUME IInv, [Next]_vars PROVE [Revisions!Next]_(Revisions!vars)
  <1>1. ASSUME UNCHANGED <<awaited, queued, built, retired>>, BeingBuilt' = BeingBuilt
        PROVE  UNCHANGED Revisions!vars
    BY <1>1 DEF Revisions!vars, Outcome
  <1>2. ASSUME NEW t \in Texts, Edit(t) PROVE [Revisions!Next]_(Revisions!vars)
    <2>1. UNCHANGED Seen => UNCHANGED <<awaited, queued, built, retired>> /\ BeingBuilt' = BeingBuilt
      BY DEF Seen, BeingBuilt
    <2> QED BY <1>1, <1>2, <2>1, EditRefines DEF Revisions!Next
  <1>3. CASE CloseRevisions \/ TakeJob \/ ResolveRevision
    BY <1>3, CloseRefines, TakeJobRefines, ResolveRefines DEF Revisions!Next
  <1>4. CASE \/ \E c \in Calls : Convert(c) \/ Resume(c)
             \/ Cancel \/ CloseController \/ CloseCancels \/ CloseSupervisor
             \/ FinishBuild \/ Announce \/ NextJob \/ RevisionThreadExits
             \/ Coordinate \/ \E r \in Requests : ConversionFinished(r)
             \/ UNCHANGED vars
    BY <1>1, <1>4, OtherRefines
  <1> QED BY <1>2, <1>3, <1>4 DEF Next, User, Closing, RevisionThread, Coordinator

(* WorkspaceRevisionService (revisions.py) implements the latest-request      *)
(* service, as the supervisor does, for any number of edits: it builds one    *)
(* revision at a time, drops one only for a newer one or on close, and        *)
(* resolves a future once, never one it has cancelled before it began.        *)
THEOREM RevisionsRefine == Spec => RevisionsImplement
  BY RevisionsInit, RevisionsStep, Invariance, PTL DEF Spec, RevisionsImplement, Revisions!Spec
=============================================================================
