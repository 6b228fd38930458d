--------------------- MODULE ConversionSupervisorProofs ---------------------
(***************************************************************************)
(* Proofs about ConversionSupervisor, for every number of requests, of     *)
(* events and every drain limit.                                           *)
(*                                                                         *)
(* IInv is the inductive invariant: the types, what the coordinator's      *)
(* program counter says of its slots (ControlInv), and where each open     *)
(* request is held (PlaceInv).  NoLostRequest follows from it; the other   *)
(* safety properties are proved on top of it.                              *)
(***************************************************************************)
EXTENDS ConversionSupervisor, TLAPS

(* Where the coordinator is while it serves the active worker. *)
Serving == {"drain", "enforce", "reap", "drainLast", "decide", "resolve", "clear"}

ControlInv ==
    /\ starting # None <=> pc \in {"start", "install"}
    /\ pc \in Serving => active # None
    /\ pc \in {"start", "install", "exited"} => active = None
    /\ pc # "complete" => batch = {}
    /\ pc = "resolve" => verdict # "none"
    /\ \A r \in retired \cup batch : retiredAs[r] \in Retirals
    /\ active = None => cancelReason = "none"

(* NoLostRequest, request by request; nothing is known of later requests. *)
PlaceInv ==
    /\ \A r \in Requests : r > submitted => future[r] = "open"
    /\ active <= submitted
    /\ \A r \in Requests :
          (r <= submitted /\ future[r] = "open")
             <=> \/ r = pending \/ r \in retired \/ r \in batch \/ r = starting
                 \/ r = active /\ pc # "clear"
    /\ \A r \in Requests :
          /\ r = pending => r \notin retired /\ r \notin batch /\ r # starting /\ r # active
          /\ r \in retired => r \notin batch /\ r # starting /\ r # active
          /\ r \in batch => r # starting /\ r # active
    /\ starting = None \/ active = None

IInv == TypeOK /\ ControlInv /\ PlaceInv

USE BoundsAssumption DEF BoundsAssumption, None, Requests

-----------------------------------------------------------------------------
LEMMA PlaceIsNoLost == ASSUME TypeOK, PlaceInv PROVE NoLostRequest
  <1> USE DEF TypeOK, SlotsOK, PlaceInv, Slot
  <1>1. OpenRequests = Slot(pending) \cup retired \cup batch \cup Slot(starting) \cup InWork
    <2>1. ASSUME NEW r \in Requests
          PROVE  r \in OpenRequests <=>
                   r \in Slot(pending) \cup retired \cup batch \cup Slot(starting) \cup InWork
      BY DEF OpenRequests, InWork
    <2>2. /\ OpenRequests \subseteq Requests
          /\ Slot(pending) \cup retired \cup batch \cup Slot(starting) \cup InWork
               \subseteq Requests
      BY DEF OpenRequests, InWork
    <2> QED BY <2>1, <2>2
  <1>2. pending \notin retired \cup batch \cup Slot(starting) \cup Slot(active)
    OBVIOUS
  <1>3. retired \cap (batch \cup Slot(starting) \cup Slot(active)) = {}
    OBVIOUS
  <1>4. batch \cap (Slot(starting) \cup Slot(active)) = {}
    OBVIOUS
  <1> QED BY <1>1, <1>2, <1>3, <1>4 DEF NoLostRequest

LEMMA InitIInv == Init => IInv
  <1> SUFFICES ASSUME Init PROVE IInv OBVIOUS
  <1> USE DEF Init
  <1>1. closed \in BOOLEAN OBVIOUS
  <1>2. SlotsOK
    BY DEF SlotsOK
  <1>3. ControlOK
    BY DEF ControlOK, PCs
  <1>4. EventsOK
    BY DEF EventsOK
  <1>5. ControlInv
    BY DEF ControlInv, Serving
  <1>6. PlaceInv
    BY DEF PlaceInv
  <1> QED BY <1>1, <1>2, <1>3, <1>4, <1>5, <1>6 DEF IInv, TypeOK

-----------------------------------------------------------------------------
(* The callers. *)

LEMMA SubmitStep == ASSUME IInv, Submit PROVE IInv'
  <1> USE DEF IInv, TypeOK, Submit, RetirePending, StampActive, RequestCancel, lockVars, activeVars, countVars, localVars, workerVars
  <1>1. closed' \in BOOLEAN
    OBVIOUS
  <1>2. SlotsOK'
    BY DEF SlotsOK, Retirals
  <1>3. ControlOK'
    BY DEF ControlOK, Reasons
  <1>4. EventsOK'
    BY DEF EventsOK
  <1>5. ControlInv'
    BY DEF SlotsOK, ControlInv, Serving, Retirals
  <1>6. PlaceInv'
    <2> USE DEF SlotsOK, PlaceInv
    <2>0. UNCHANGED <<active, starting, batch, future, pc>>
      OBVIOUS
    <2>1. ASSUME NEW r \in Requests
          PROVE  (r <= submitted' /\ future'[r] = "open")
                   <=> \/ r = pending' \/ r \in retired' \/ r \in batch' \/ r = starting'
                       \/ r = active' /\ pc' # "clear"
      BY <2>0
    <2>2. ASSUME NEW r \in Requests
          PROVE  /\ r = pending' => /\ r \notin retired' /\ r \notin batch'
                                   /\ r # starting' /\ r # active'
                 /\ r \in retired' => r \notin batch' /\ r # starting' /\ r # active'
                 /\ r \in batch' => r # starting' /\ r # active'
      <3>1. CASE r = pending'
        <4>0. r = submitted + 1
          BY <3>1
        <4>1. r \notin retired /\ r \notin batch /\ r # starting /\ r # pending
          BY <4>0
        <4>2. r # active
          BY <4>0
        <4> QED BY <2>0, <3>1, <4>1, <4>2
      <3>2. CASE r # pending'
        BY <2>0, <3>2
      <3> QED BY <3>1, <3>2
    <2>3. ASSUME NEW r \in Requests, r > submitted'
          PROVE  future'[r] = "open"
      BY <2>0, <2>3
    <2> QED BY <2>0, <2>1, <2>2, <2>3
  <1> QED BY <1>1, <1>2, <1>3, <1>4, <1>5, <1>6

LEMMA CancelStep == ASSUME IInv, NEW targets \in CancelTargets, Cancel(targets) PROVE IInv'
  <1> USE DEF IInv, TypeOK, lockVars, activeVars, countVars, localVars, workerVars
  <1>0. targets \subseteq Requests
    BY DEF CancelTargets
  <1>1. /\ UNCHANGED <<submitted, closed, active, starting, batch, future, pc, cancelAge>>
        /\ UNCHANGED <<signals, terminal, protocol, countVars, drained, verdict, workerVars>>
        /\ cancelReason' # cancelReason => cancelReason' = "canceled" /\ active # None
    BY <1>0 DEF Cancel, RequestCancel
  <1>2. \/ UNCHANGED <<pending, retired, retiredAs>>
        \/ /\ pending \in Requests
           /\ pending' = None
           /\ retired' = retired \cup {pending}
           /\ retiredAs' = [r \in Requests |-> IF r = pending THEN "canceled" ELSE retiredAs[r]]
    <2>1. CASE pending \in targets
      <3>1. pending \in Requests /\ pending # None
        BY <1>0, <2>1
      <3> QED BY <2>1, <3>1 DEF Cancel, RetirePending
    <2>2. CASE pending \notin targets
      BY <2>2 DEF Cancel
    <2> QED BY <2>1, <2>2
  <1>3. closed' \in BOOLEAN
    BY <1>1
  <1>4. SlotsOK'
    BY <1>0, <1>1, <1>2 DEF SlotsOK, Retirals
  <1>5. ControlOK' /\ EventsOK'
    BY <1>1 DEF ControlOK, EventsOK, Reasons
  <1>6. ControlInv'
    BY <1>1, <1>2 DEF SlotsOK, ControlInv, Serving, Retirals
  <1>7. PlaceInv'
    BY <1>1, <1>2 DEF SlotsOK, PlaceInv
  <1> QED BY <1>3, <1>4, <1>5, <1>6, <1>7

LEMMA CloseStep == ASSUME IInv, Close PROVE IInv'
  <1> USE DEF IInv, TypeOK, Close, RetirePending, StampActive, RequestCancel, lockVars, activeVars, countVars, localVars, workerVars
  <1>1. closed' \in BOOLEAN
    OBVIOUS
  <1>2. SlotsOK'
    BY DEF SlotsOK, Retirals
  <1>3. ControlOK'
    BY DEF ControlOK, Reasons
  <1>4. EventsOK'
    BY DEF EventsOK
  <1>5. ControlInv'
    BY DEF SlotsOK, ControlInv, Serving, Retirals
  <1>6. PlaceInv'
    BY DEF SlotsOK, PlaceInv
  <1> QED BY <1>1, <1>2, <1>3, <1>4, <1>5, <1>6

-----------------------------------------------------------------------------
(* The coordinator. *)

LEMMA CollectRetiredStep == ASSUME IInv, CollectRetired PROVE IInv'
  <1> USE DEF IInv, TypeOK, CollectRetired, lockVars, activeVars, countVars, localVars, workerVars
  <1>1. closed' \in BOOLEAN
    OBVIOUS
  <1>2. SlotsOK'
    BY DEF SlotsOK
  <1>3. ControlOK'
    BY DEF ControlOK, PCs
  <1>4. EventsOK'
    BY DEF EventsOK
  <1>5. ControlInv'
    BY DEF SlotsOK, ControlInv, Serving
  <1>6. PlaceInv'
    BY DEF SlotsOK, PlaceInv, ControlInv
  <1> QED BY <1>1, <1>2, <1>3, <1>4, <1>5, <1>6

LEMMA CompleteRetiredStep == ASSUME IInv, CompleteRetired PROVE IInv'
  <1> USE DEF IInv, TypeOK, CompleteRetired, Complete, lockVars, activeVars, countVars, localVars, workerVars
  <1>1. closed' \in BOOLEAN
    OBVIOUS
  <1>2. SlotsOK'
    BY DEF SlotsOK, ControlInv, Outcomes, Retirals
  <1>3. ControlOK'
    BY DEF ControlOK
  <1>4. EventsOK'
    BY DEF EventsOK
  <1>5. ControlInv'
    BY DEF SlotsOK, ControlInv, Serving
  <1>6. PlaceInv'
    BY DEF SlotsOK, PlaceInv, ControlInv, Retirals
  <1> QED BY <1>1, <1>2, <1>3, <1>4, <1>5, <1>6

LEMMA TakePendingStep == ASSUME IInv, TakePending PROVE IInv'
  <1> USE DEF IInv, TypeOK, TakePending, Scheduling, lockVars, activeVars, countVars, localVars, workerVars
  <1>1. closed' \in BOOLEAN
    OBVIOUS
  <1>2. SlotsOK'
    BY DEF SlotsOK
  <1>3. ControlOK'
    BY DEF ControlOK, PCs
  <1>4. EventsOK'
    BY DEF EventsOK
  <1>5. ControlInv'
    BY DEF SlotsOK, ControlInv, Serving
  <1>6. PlaceInv'
    BY DEF SlotsOK, PlaceInv, ControlInv
  <1> QED BY <1>1, <1>2, <1>3, <1>4, <1>5, <1>6

LEMMA ExitLoopStep == ASSUME IInv, ExitLoop PROVE IInv'
  <1> USE DEF IInv, TypeOK, ExitLoop, Scheduling, lockVars, activeVars, countVars, localVars, workerVars
  <1>1. closed' \in BOOLEAN
    OBVIOUS
  <1>2. SlotsOK'
    BY DEF SlotsOK
  <1>3. ControlOK'
    BY DEF ControlOK, PCs
  <1>4. EventsOK'
    BY DEF EventsOK
  <1>5. ControlInv'
    BY DEF SlotsOK, ControlInv, Serving
  <1>6. PlaceInv'
    BY DEF SlotsOK, PlaceInv, ControlInv
  <1> QED BY <1>1, <1>2, <1>3, <1>4, <1>5, <1>6

LEMMA WaitForWorkStep == ASSUME IInv, WaitForWork PROVE IInv'
  <1> USE DEF IInv, TypeOK, WaitForWork, Scheduling, lockVars, activeVars, countVars, localVars, workerVars
  <1>1. closed' \in BOOLEAN
    OBVIOUS
  <1>2. SlotsOK'
    BY DEF SlotsOK
  <1>3. ControlOK'
    BY DEF ControlOK, PCs
  <1>4. EventsOK'
    BY DEF EventsOK
  <1>5. ControlInv'
    BY DEF SlotsOK, ControlInv, Serving
  <1>6. PlaceInv'
    BY DEF SlotsOK, PlaceInv, ControlInv
  <1> QED BY <1>1, <1>2, <1>3, <1>4, <1>5, <1>6

LEMMA ServiceActiveStep == ASSUME IInv, ServiceActive PROVE IInv'
  <1> USE DEF IInv, TypeOK, ServiceActive, Scheduling, lockVars, activeVars, countVars, localVars, workerVars
  <1>1. closed' \in BOOLEAN
    OBVIOUS
  <1>2. SlotsOK'
    BY DEF SlotsOK
  <1>3. ControlOK'
    BY DEF ControlOK, PCs
  <1>4. EventsOK'
    BY DEF EventsOK
  <1>5. ControlInv'
    BY DEF SlotsOK, ControlInv, Serving
  <1>6. PlaceInv'
    BY DEF SlotsOK, PlaceInv, ControlInv
  <1> QED BY <1>1, <1>2, <1>3, <1>4, <1>5, <1>6

LEMMA StartWorkerStep == ASSUME IInv, StartWorker PROVE IInv'
  <1> USE DEF IInv, TypeOK, StartWorker, lockVars, activeVars, countVars, localVars, workerVars
  <1>1. closed' \in BOOLEAN
    OBVIOUS
  <1>2. SlotsOK'
    BY DEF SlotsOK
  <1>3. ControlOK'
    BY DEF ControlOK, PCs
  <1>4. EventsOK'
    BY DEF EventsOK
  <1>5. ControlInv'
    BY DEF SlotsOK, ControlInv, Serving
  <1>6. PlaceInv'
    BY DEF SlotsOK, PlaceInv
  <1> QED BY <1>1, <1>2, <1>3, <1>4, <1>5, <1>6

LEMMA StartFailsStep == ASSUME IInv, StartFails PROVE IInv'
  <1> USE DEF IInv, TypeOK, StartFails, Complete, lockVars, activeVars, countVars, localVars, workerVars
  <1>1. closed' \in BOOLEAN
    OBVIOUS
  <1>2. SlotsOK'
    BY DEF SlotsOK, Outcomes, Failures
  <1>3. ControlOK'
    BY DEF ControlOK, PCs
  <1>4. EventsOK'
    BY DEF EventsOK
  <1>5. ControlInv'
    BY DEF SlotsOK, ControlInv, Serving
  <1>6. PlaceInv'
    BY DEF SlotsOK, PlaceInv, ControlInv
  <1> QED BY <1>1, <1>2, <1>3, <1>4, <1>5, <1>6

LEMMA InstallActiveStep == ASSUME IInv, InstallActive PROVE IInv'
  <1> USE DEF IInv, TypeOK, InstallActive, ReasonAtInstall, lockVars, activeVars, countVars, localVars, workerVars
  <1>1. closed' \in BOOLEAN
    OBVIOUS
  <1>2. SlotsOK'
    BY DEF SlotsOK
  <1>3. ControlOK'
    BY DEF ControlOK, PCs, Reasons
  <1>4. EventsOK'
    BY DEF EventsOK
  <1>5. ControlInv'
    BY DEF SlotsOK, ControlInv, Serving
  <1>6. PlaceInv'
    BY DEF SlotsOK, PlaceInv, ControlInv
  <1> QED BY <1>1, <1>2, <1>3, <1>4, <1>5, <1>6

LEMMA DrainEventStep == ASSUME IInv, DrainEvent PROVE IInv'
  <1> USE DEF IInv, TypeOK, DrainEvent, Draining, lockVars, activeVars, countVars, localVars, workerVars
  <1>1. closed' \in BOOLEAN
    OBVIOUS
  <1>2. SlotsOK'
    BY DEF SlotsOK
  <1>3. ControlOK'
    BY DEF ControlOK
  <1>4. EventsOK'
    BY DEF EventsOK, Events
  <1>5. ControlInv'
    BY DEF SlotsOK, ControlInv, Serving
  <1>6. PlaceInv'
    BY DEF SlotsOK, PlaceInv
  <1> QED BY <1>1, <1>2, <1>3, <1>4, <1>5, <1>6

LEMMA DrainMalformedStep == ASSUME IInv, DrainMalformed PROVE IInv'
  <1> USE DEF IInv, TypeOK, DrainMalformed, Draining, AfterDrain, lockVars, activeVars, countVars, localVars, workerVars
  <1>1. closed' \in BOOLEAN
    OBVIOUS
  <1>2. SlotsOK'
    BY DEF SlotsOK
  <1>3. ControlOK'
    BY DEF ControlOK, PCs
  <1>4. EventsOK'
    BY DEF EventsOK, Events
  <1>5. ControlInv'
    BY DEF SlotsOK, ControlInv, Serving
  <1>6. PlaceInv'
    BY DEF SlotsOK, PlaceInv
  <1> QED BY <1>1, <1>2, <1>3, <1>4, <1>5, <1>6

LEMMA DrainEndsStep == ASSUME IInv, DrainEnds PROVE IInv'
  <1> USE DEF IInv, TypeOK, DrainEnds, Draining, AfterDrain, lockVars, activeVars, countVars, localVars, workerVars
  <1>1. closed' \in BOOLEAN
    OBVIOUS
  <1>2. SlotsOK'
    BY DEF SlotsOK
  <1>3. ControlOK'
    BY DEF ControlOK, PCs
  <1>4. EventsOK'
    BY DEF EventsOK
  <1>5. ControlInv'
    BY DEF SlotsOK, ControlInv, Serving
  <1>6. PlaceInv'
    BY DEF SlotsOK, PlaceInv
  <1> QED BY <1>1, <1>2, <1>3, <1>4, <1>5, <1>6

LEMMA EnforceCancelStep == ASSUME IInv, EnforceCancel PROVE IInv'
  <1> USE DEF IInv, TypeOK, EnforceCancel, Escalation, lockVars, activeVars, countVars, localVars, workerVars
  <1>1. closed' \in BOOLEAN
    OBVIOUS
  <1>2. SlotsOK'
    BY DEF SlotsOK
  <1>3. ControlOK'
    BY DEF ControlOK, PCs
  <1>4. EventsOK'
    BY DEF EventsOK
  <1>5. ControlInv'
    BY DEF SlotsOK, ControlInv, Serving
  <1>6. PlaceInv'
    BY DEF SlotsOK, PlaceInv
  <1> QED BY <1>1, <1>2, <1>3, <1>4, <1>5, <1>6

LEMMA ReapCheckStep == ASSUME IInv, ReapCheck PROVE IInv'
  <1> USE DEF IInv, TypeOK, ReapCheck, lockVars, activeVars, countVars, localVars, workerVars
  <1>1. closed' \in BOOLEAN
    OBVIOUS
  <1>2. SlotsOK'
    BY DEF SlotsOK
  <1>3. ControlOK'
    BY DEF ControlOK, PCs
  <1>4. EventsOK'
    BY DEF EventsOK
  <1>5. ControlInv'
    BY DEF SlotsOK, ControlInv, Serving
  <1>6. PlaceInv'
    BY DEF SlotsOK, PlaceInv
  <1> QED BY <1>1, <1>2, <1>3, <1>4, <1>5, <1>6

LEMMA DecideOutcomeStep == ASSUME IInv, DecideOutcome PROVE IInv'
  <1> USE DEF IInv, TypeOK, DecideOutcome, Verdict, lockVars, activeVars, countVars, localVars, workerVars
  <1>1. closed' \in BOOLEAN
    OBVIOUS
  <1>2. SlotsOK'
    BY DEF SlotsOK
  <1>3. ControlOK'
    BY DEF ControlOK, PCs, Outcomes, Retirals, Failures, Reasons, EventsOK
  <1>4. EventsOK'
    BY DEF EventsOK
  <1>5. ControlInv'
    BY DEF SlotsOK, ControlInv, Serving, ControlOK, EventsOK, Reasons
  <1>6. PlaceInv'
    BY DEF SlotsOK, PlaceInv
  <1> QED BY <1>1, <1>2, <1>3, <1>4, <1>5, <1>6

LEMMA ResolveFutureStep == ASSUME IInv, ResolveFuture PROVE IInv'
  <1> USE DEF IInv, TypeOK, ResolveFuture, Complete, lockVars, activeVars, countVars, localVars, workerVars
  <1>1. closed' \in BOOLEAN
    OBVIOUS
  <1>2. SlotsOK'
    BY DEF SlotsOK, ControlOK, ControlInv
  <1>3. ControlOK'
    BY DEF ControlOK, PCs
  <1>4. EventsOK'
    BY DEF EventsOK
  <1>5. ControlInv'
    BY DEF SlotsOK, ControlInv, Serving
  <1>6. PlaceInv'
    BY DEF SlotsOK, PlaceInv, ControlInv, ControlOK, Serving, Outcomes, Retirals, Failures
  <1> QED BY <1>1, <1>2, <1>3, <1>4, <1>5, <1>6

LEMMA ClearActiveStep == ASSUME IInv, ClearActive PROVE IInv'
  <1> USE DEF IInv, TypeOK, ClearActive, NoActiveRecord, NoProcess, lockVars, activeVars, countVars, localVars, workerVars
  <1>1. closed' \in BOOLEAN
    OBVIOUS
  <1>2. SlotsOK'
    BY DEF SlotsOK
  <1>3. ControlOK'
    BY DEF ControlOK, PCs
  <1>4. EventsOK'
    BY DEF EventsOK, Events
  <1>5. ControlInv'
    BY DEF SlotsOK, ControlInv, Serving
  <1>6. PlaceInv'
    BY DEF SlotsOK, PlaceInv
  <1> QED BY <1>1, <1>2, <1>3, <1>4, <1>5, <1>6

-----------------------------------------------------------------------------
(* The worker process and the clock. *)

LEMMA WorkerProgressStep == ASSUME IInv, WorkerProgress PROVE IInv'
  <1> USE DEF IInv, TypeOK, WorkerProgress, WriteEvent, lockVars, activeVars, countVars, localVars, workerVars
  <1>1. closed' \in BOOLEAN
    OBVIOUS
  <1>2. SlotsOK'
    BY DEF SlotsOK
  <1>3. ControlOK'
    BY DEF ControlOK
  <1>4. EventsOK'
    <2>1. PICK e \in Events : WriteEvent(e)
      BY DEF Events
    <2>2. pipe' \in Seq(Events) /\ emitted' \in 0 .. MaxEvents
      BY <2>1, BoundsAssumption DEF EventsOK, BoundsAssumption
    <2>3. /\ UNCHANGED <<terminal, protocol, drained, worker>>
          /\ sent' \in {"none", "result", "failure"}
      BY <2>1 DEF EventsOK
    <2> QED BY <2>2, <2>3 DEF EventsOK
  <1>5. ControlInv'
    BY DEF SlotsOK, ControlInv, Serving
  <1>6. PlaceInv'
    BY DEF SlotsOK, PlaceInv
  <1> QED BY <1>1, <1>2, <1>3, <1>4, <1>5, <1>6

LEMMA WorkerTerminalStep == ASSUME IInv, WorkerTerminal PROVE IInv'
  <1> USE DEF IInv, TypeOK, WorkerTerminal, WriteEvent, lockVars, activeVars, countVars, localVars, workerVars
  <1>1. closed' \in BOOLEAN
    OBVIOUS
  <1>2. SlotsOK'
    BY DEF SlotsOK
  <1>3. ControlOK'
    BY DEF ControlOK
  <1>4. EventsOK'
    <2>1. PICK e \in Events : WriteEvent(e)
      BY DEF Events
    <2>2. pipe' \in Seq(Events) /\ emitted' \in 0 .. MaxEvents
      BY <2>1, BoundsAssumption DEF EventsOK, BoundsAssumption
    <2>3. /\ UNCHANGED <<terminal, protocol, drained, worker>>
          /\ sent' \in {"none", "result", "failure"}
      BY <2>1 DEF EventsOK
    <2> QED BY <2>2, <2>3 DEF EventsOK
  <1>5. ControlInv'
    BY DEF SlotsOK, ControlInv, Serving
  <1>6. PlaceInv'
    BY DEF SlotsOK, PlaceInv
  <1> QED BY <1>1, <1>2, <1>3, <1>4, <1>5, <1>6

LEMMA WorkerMisbehavesStep == ASSUME IInv, WorkerMisbehaves PROVE IInv'
  <1> USE DEF IInv, TypeOK, WorkerMisbehaves, WriteEvent, lockVars, activeVars, countVars, localVars, workerVars
  <1>1. closed' \in BOOLEAN
    OBVIOUS
  <1>2. SlotsOK'
    BY DEF SlotsOK
  <1>3. ControlOK'
    BY DEF ControlOK
  <1>4. EventsOK'
    <2>1. PICK e \in Events : WriteEvent(e)
      BY DEF Events
    <2>2. pipe' \in Seq(Events) /\ emitted' \in 0 .. MaxEvents
      BY <2>1, BoundsAssumption DEF EventsOK, BoundsAssumption
    <2>3. /\ UNCHANGED <<terminal, protocol, drained, worker>>
          /\ sent' \in {"none", "result", "failure"}
      BY <2>1 DEF EventsOK
    <2> QED BY <2>2, <2>3 DEF EventsOK
  <1>5. ControlInv'
    BY DEF SlotsOK, ControlInv, Serving
  <1>6. PlaceInv'
    BY DEF SlotsOK, PlaceInv
  <1> QED BY <1>1, <1>2, <1>3, <1>4, <1>5, <1>6

LEMMA WorkerExitStep == ASSUME IInv, WorkerExit PROVE IInv'
  <1> USE DEF IInv, TypeOK, WorkerExit, lockVars, activeVars, countVars, localVars, workerVars
  <1>1. closed' \in BOOLEAN
    OBVIOUS
  <1>2. SlotsOK'
    BY DEF SlotsOK
  <1>3. ControlOK'
    BY DEF ControlOK
  <1>4. EventsOK'
    BY DEF EventsOK
  <1>5. ControlInv'
    BY DEF SlotsOK, ControlInv, Serving
  <1>6. PlaceInv'
    BY DEF SlotsOK, PlaceInv
  <1> QED BY <1>1, <1>2, <1>3, <1>4, <1>5, <1>6

LEMMA ClockPassesStep == ASSUME IInv, ClockPasses PROVE IInv'
  <1> USE DEF IInv, TypeOK, ClockPasses, lockVars, activeVars, countVars, localVars, workerVars
  <1>1. closed' \in BOOLEAN
    OBVIOUS
  <1>2. SlotsOK'
    BY DEF SlotsOK
  <1>3. ControlOK'
    BY DEF ControlOK
  <1>4. EventsOK'
    BY DEF EventsOK
  <1>5. ControlInv'
    BY DEF SlotsOK, ControlInv, Serving
  <1>6. PlaceInv'
    BY DEF SlotsOK, PlaceInv
  <1> QED BY <1>1, <1>2, <1>3, <1>4, <1>5, <1>6

-----------------------------------------------------------------------------
LEMMA NextIInv == ASSUME IInv, [Next]_vars PROVE IInv'
  <1>1. CASE Callers
    BY <1>1, SubmitStep, CloseStep, CancelStep DEF Callers
  <1>2. CASE Coordinator
    BY <1>2, CollectRetiredStep, CompleteRetiredStep, TakePendingStep, ExitLoopStep,
       WaitForWorkStep, ServiceActiveStep, StartWorkerStep, StartFailsStep,
       InstallActiveStep, DrainEventStep, DrainMalformedStep, DrainEndsStep,
       EnforceCancelStep, ReapCheckStep, DecideOutcomeStep, ResolveFutureStep,
       ClearActiveStep DEF Coordinator
  <1>3. CASE Worker
    BY <1>3, WorkerProgressStep, WorkerTerminalStep, WorkerMisbehavesStep,
       WorkerExitStep DEF Worker
  <1>4. CASE ClockPasses
    BY <1>4, ClockPassesStep
  <1>5. CASE UNCHANGED vars
    <2> USE <1>5 DEF IInv, TypeOK, vars, lockVars, activeVars, countVars, localVars,
                     workerVars
    <2>1. closed' \in BOOLEAN
      OBVIOUS
    <2>2. SlotsOK' /\ ControlOK' /\ EventsOK'
      BY DEF SlotsOK, ControlOK, EventsOK
    <2>3. ControlInv' /\ PlaceInv'
      BY DEF ControlInv, PlaceInv
    <2> QED BY <2>1, <2>2, <2>3
  <1> QED BY <1>1, <1>2, <1>3, <1>4, <1>5 DEF Next

THEOREM Invariance == Spec => []IInv
  BY InitIInv, NextIInv, PTL DEF Spec

(* Every variable keeps its type. *)
THEOREM TypeCorrectness == Spec => []TypeOK
  BY Invariance, PTL DEF IInv

(* A request handed to submit is held in exactly one place until its future *)
(* is completed (ide/supervisor.py: _pending, _retired, _start, _active).   *)
THEOREM RequestsAreKept == Spec => []NoLostRequest
  <1>1. IInv => NoLostRequest
    BY PlaceIsNoLost DEF IInv
  <1> QED BY <1>1, Invariance, PTL

-----------------------------------------------------------------------------
(* A waiting request stops the running worker; close stops it at once. *)
StopInv == WaitingStopsRunning /\ ClosedStops

LEMMA StopStep == ASSUME IInv, StopInv, [Next]_vars PROVE StopInv'
  <1> USE DEF IInv, TypeOK, SlotsOK, ControlOK, ControlInv, WaitingStopsRunning, ClosedStops, StopInv, lockVars, activeVars, countVars,
             localVars, workerVars
  <1>1. ASSUME NEW targets \in CancelTargets, Cancel(targets) PROVE StopInv'
    <2>1. targets \subseteq Requests BY DEF CancelTargets
    <2>2. CASE pending \in targets
      BY <1>1, <2>1, <2>2 DEF Cancel, RetirePending, RequestCancel
    <2>3. CASE pending \notin targets
      BY <1>1, <2>1, <2>3 DEF Cancel, RequestCancel
    <2> QED BY <2>2, <2>3
  <1>2. CASE Submit
    BY <1>2 DEF Submit, RetirePending, StampActive, RequestCancel
  <1>3. CASE Close
    BY <1>3 DEF Close, RetirePending, StampActive, RequestCancel
  <1>4. CASE CollectRetired
    BY <1>4 DEF CollectRetired
  <1>5. CASE CompleteRetired
    BY <1>5 DEF CompleteRetired
  <1>6. CASE TakePending
    BY <1>6 DEF TakePending, Scheduling
  <1>7. CASE ExitLoop
    BY <1>7 DEF ExitLoop, Scheduling
  <1>8. CASE WaitForWork
    BY <1>8 DEF WaitForWork, Scheduling
  <1>9. CASE ServiceActive
    BY <1>9 DEF ServiceActive, Scheduling
  <1>10. CASE StartWorker
    BY <1>10 DEF StartWorker
  <1>11. CASE StartFails
    BY <1>11 DEF StartFails
  <1>12. CASE InstallActive
    BY <1>12 DEF InstallActive, ReasonAtInstall
  <1>13. CASE DrainEvent
    BY <1>13 DEF DrainEvent, Draining
  <1>14. CASE DrainMalformed
    BY <1>14 DEF DrainMalformed, Draining, AfterDrain
  <1>15. CASE DrainEnds
    BY <1>15 DEF DrainEnds, Draining, AfterDrain
  <1>16. CASE EnforceCancel
    BY <1>16 DEF EnforceCancel, Escalation
  <1>17. CASE ReapCheck
    BY <1>17 DEF ReapCheck
  <1>18. CASE DecideOutcome
    BY <1>18 DEF DecideOutcome, Verdict
  <1>19. CASE ResolveFuture
    BY <1>19 DEF ResolveFuture
  <1>20. CASE ClearActive
    BY <1>20 DEF ClearActive, NoActiveRecord, NoProcess
  <1>21. CASE Worker
    BY <1>21 DEF Worker, WorkerProgress, WorkerTerminal, WorkerMisbehaves, WorkerExit, WriteEvent
  <1>22. CASE ClockPasses
    BY <1>22 DEF ClockPasses
  <1>23. CASE UNCHANGED vars
    BY <1>23 DEF vars
  <1> QED BY <1>1, <1>2, <1>3, <1>4, <1>5, <1>6, <1>7, <1>8, <1>9, <1>10, <1>11, <1>12, <1>13, <1>14, <1>15, <1>16, <1>17, <1>18, <1>19, <1>20, <1>21, <1>22, <1>23 DEF Next, Callers, Coordinator

(* A request waits only behind a worker that is being stopped, and nothing  *)
(* waits or runs on after close.                                            *)
THEOREM WaitingIsServed == Spec => [](WaitingStopsRunning /\ ClosedStops)
  <1>1. Init => StopInv
    BY DEF Init, StopInv, WaitingStopsRunning, ClosedStops
  <1>2. Spec => []StopInv
    BY <1>1, StopStep, Invariance, PTL DEF Spec
  <1> QED BY <1>2, PTL DEF StopInv

(* Who is blamed: a request is only called superseded when there is a newer *)
(* one.                                                                     *)
BlameInv ==
    /\ LatestWaits
    /\ \A r \in retired \cup batch : retiredAs[r] = "superseded" => r < submitted
    /\ cancelReason = "superseded" => active < submitted
    /\ verdict = "superseded" => active < submitted
    /\ verdict # "none" => pc \in {"resolve", "clear"}

LEMMA BlameStep == ASSUME IInv, BlameInv, [Next]_vars PROVE BlameInv'
  <1> USE DEF IInv, TypeOK, SlotsOK, ControlOK, ControlInv, PlaceInv, LatestWaits, BlameInv, lockVars, activeVars, countVars,
             localVars, workerVars
  <1>1. ASSUME NEW targets \in CancelTargets, Cancel(targets) PROVE BlameInv'
    <2>1. targets \subseteq Requests BY DEF CancelTargets
    <2>2. CASE pending \in targets
      <3>1. /\ UNCHANGED <<submitted, active, starting, batch, verdict, pc>>
            /\ pending' = None
            /\ retired' = retired \cup {pending}
            /\ \A r \in retired : retiredAs'[r] = retiredAs[r]
            /\ \A r \in batch : retiredAs'[r] = retiredAs[r]
            /\ retiredAs'[pending] = "canceled"
            /\ cancelReason' = "superseded" => cancelReason = "superseded"
        BY <1>1, <2>1, <2>2 DEF Cancel, RetirePending, RequestCancel
      <3> QED BY <3>1
    <2>3. CASE pending \notin targets
      BY <1>1, <2>1, <2>3 DEF Cancel, RequestCancel
    <2> QED BY <2>2, <2>3
  <1>2. CASE Submit
    BY <1>2 DEF Submit, RetirePending, StampActive, RequestCancel
  <1>3. CASE Close
    BY <1>3 DEF Close, RetirePending, StampActive, RequestCancel
  <1>4. CASE CollectRetired
    BY <1>4 DEF CollectRetired
  <1>5. CASE CompleteRetired
    BY <1>5 DEF CompleteRetired
  <1>6. CASE TakePending
    BY <1>6 DEF TakePending, Scheduling
  <1>7. CASE ExitLoop
    BY <1>7 DEF ExitLoop, Scheduling
  <1>8. CASE WaitForWork
    BY <1>8 DEF WaitForWork, Scheduling
  <1>9. CASE ServiceActive
    BY <1>9 DEF ServiceActive, Scheduling
  <1>10. CASE StartWorker
    BY <1>10 DEF StartWorker
  <1>11. CASE StartFails
    BY <1>11 DEF StartFails
  <1>12. CASE InstallActive
    BY <1>12 DEF InstallActive, ReasonAtInstall
  <1>13. CASE DrainEvent
    BY <1>13 DEF DrainEvent, Draining
  <1>14. CASE DrainMalformed
    BY <1>14 DEF DrainMalformed, Draining, AfterDrain
  <1>15. CASE DrainEnds
    BY <1>15 DEF DrainEnds, Draining, AfterDrain
  <1>16. CASE EnforceCancel
    BY <1>16 DEF EnforceCancel, Escalation
  <1>17. CASE ReapCheck
    BY <1>17 DEF ReapCheck
  <1>18. CASE DecideOutcome
    <2>1. verdict' = "superseded" => cancelReason = "superseded"
      BY <1>18 DEF DecideOutcome, Verdict, EventsOK, Reasons
    <2> QED BY <1>18, <2>1 DEF DecideOutcome
  <1>19. CASE ResolveFuture
    BY <1>19 DEF ResolveFuture
  <1>20. CASE ClearActive
    BY <1>20 DEF ClearActive, NoActiveRecord, NoProcess
  <1>21. CASE Worker
    BY <1>21, ZenonT(60) DEF Worker, WorkerProgress, WorkerTerminal, WorkerMisbehaves, WorkerExit, WriteEvent
  <1>22. CASE ClockPasses
    BY <1>22 DEF ClockPasses
  <1>23. CASE UNCHANGED vars
    BY <1>23 DEF vars
  <1> QED BY <1>1, <1>2, <1>3, <1>4, <1>5, <1>6, <1>7, <1>8, <1>9, <1>10, <1>11, <1>12, <1>13, <1>14, <1>15, <1>16, <1>17, <1>18, <1>19, <1>20, <1>21, <1>22, <1>23 DEF Next, Callers, Coordinator

LEMMA BlameInvariance == Spec => []BlameInv
  <1>1. Init => BlameInv
    BY DEF Init, BlameInv, LatestWaits
  <1> QED BY <1>1, BlameStep, Invariance, PTL DEF Spec

(* Only the newest request can be waiting. *)
THEOREM NewestWaits == Spec => []LatestWaits
  BY BlameInvariance, PTL DEF BlameInv

(* Where the child process and the counters stand. *)
CountInv ==
    /\ worker = "none" <=> (active = None /\ pc # "install")
    /\ active = None => signals = {}
    /\ started = reaped + (IF active = None THEN 0 ELSE 1)
    /\ forced <= reaped + (IF "terminate" \in signals THEN 1 ELSE 0)

LEMMA CountStep == ASSUME IInv, CountInv, [Next]_vars PROVE CountInv'
  <1> USE DEF IInv, TypeOK, SlotsOK, ControlOK, ControlInv, Serving, CountInv, lockVars, activeVars, countVars,
             localVars, workerVars
  <1>1. ASSUME NEW targets \in CancelTargets, Cancel(targets) PROVE CountInv'
    <2>1. targets \subseteq Requests BY DEF CancelTargets
    <2>2. CASE pending \in targets
      BY <1>1, <2>1, <2>2 DEF Cancel, RetirePending, RequestCancel
    <2>3. CASE pending \notin targets
      BY <1>1, <2>1, <2>3 DEF Cancel, RequestCancel
    <2> QED BY <2>2, <2>3
  <1>2. CASE Submit
    BY <1>2 DEF Submit, RetirePending, StampActive, RequestCancel
  <1>3. CASE Close
    BY <1>3 DEF Close, RetirePending, StampActive, RequestCancel
  <1>4. CASE CollectRetired
    BY <1>4 DEF CollectRetired
  <1>5. CASE CompleteRetired
    BY <1>5 DEF CompleteRetired
  <1>6. CASE TakePending
    BY <1>6 DEF TakePending, Scheduling
  <1>7. CASE ExitLoop
    BY <1>7 DEF ExitLoop, Scheduling
  <1>8. CASE WaitForWork
    BY <1>8 DEF WaitForWork, Scheduling
  <1>9. CASE ServiceActive
    BY <1>9 DEF ServiceActive, Scheduling
  <1>10. CASE StartWorker
    BY <1>10 DEF StartWorker
  <1>11. CASE StartFails
    BY <1>11 DEF StartFails
  <1>12. CASE InstallActive
    BY <1>12 DEF InstallActive, ReasonAtInstall
  <1>13. CASE DrainEvent
    BY <1>13 DEF DrainEvent, Draining
  <1>14. CASE DrainMalformed
    BY <1>14 DEF DrainMalformed, Draining, AfterDrain
  <1>15. CASE DrainEnds
    BY <1>15 DEF DrainEnds, Draining, AfterDrain
  <1>16. CASE EnforceCancel
    BY <1>16 DEF EnforceCancel, Escalation
  <1>17. CASE ReapCheck
    BY <1>17 DEF ReapCheck
  <1>18. CASE DecideOutcome
    BY <1>18 DEF DecideOutcome, Verdict
  <1>19. CASE ResolveFuture
    BY <1>19 DEF ResolveFuture
  <1>20. CASE ClearActive
    BY <1>20 DEF ClearActive, NoActiveRecord, NoProcess
  <1>21. CASE Worker
    BY <1>21 DEF Worker, WorkerProgress, WorkerTerminal, WorkerMisbehaves, WorkerExit, WriteEvent
  <1>22. CASE ClockPasses
    BY <1>22 DEF ClockPasses
  <1>23. CASE UNCHANGED vars
    BY <1>23 DEF vars
  <1> QED BY <1>1, <1>2, <1>3, <1>4, <1>5, <1>6, <1>7, <1>8, <1>9, <1>10, <1>11, <1>12, <1>13, <1>14, <1>15, <1>16, <1>17, <1>18, <1>19, <1>20, <1>21, <1>22, <1>23 DEF Next, Callers, Coordinator

LEMMA CountInvariance == Spec => []CountInv
  <1>1. Init => CountInv
    BY DEF Init, CountInv
  <1> QED BY <1>1, CountStep, Invariance, PTL DEF Spec

(* The snapshot's worker counters balance, and no worker is counted twice   *)
(* as forcibly terminated.                                                  *)
THEOREM WorkerCounters == Spec => []CountersBalance
  <1>1. IInv /\ CountInv => CountersBalance
    BY DEF IInv, TypeOK, SlotsOK, ControlOK, CountInv, CountersBalance
  <1> QED BY <1>1, Invariance, CountInvariance, PTL

ExitInv == pc = "exited" => closed /\ retired = {} /\ pending = None

LEMMA ExitStep == ASSUME IInv, StopInv, ExitInv, [Next]_vars PROVE ExitInv'
  <1> USE DEF IInv, TypeOK, SlotsOK, ControlInv, StopInv, ClosedStops, ExitInv, lockVars, activeVars, countVars,
             localVars, workerVars
  <1>1. ASSUME NEW targets \in CancelTargets, Cancel(targets) PROVE ExitInv'
    <2>1. targets \subseteq Requests BY DEF CancelTargets
    <2>2. CASE pending \in targets
      BY <1>1, <2>1, <2>2 DEF Cancel, RetirePending, RequestCancel
    <2>3. CASE pending \notin targets
      BY <1>1, <2>1, <2>3 DEF Cancel, RequestCancel
    <2> QED BY <2>2, <2>3
  <1>2. CASE Submit
    BY <1>2 DEF Submit, RetirePending, StampActive, RequestCancel
  <1>3. CASE Close
    BY <1>3 DEF Close, RetirePending, StampActive, RequestCancel
  <1>4. CASE CollectRetired
    BY <1>4 DEF CollectRetired
  <1>5. CASE CompleteRetired
    BY <1>5 DEF CompleteRetired
  <1>6. CASE TakePending
    BY <1>6 DEF TakePending, Scheduling
  <1>7. CASE ExitLoop
    BY <1>7 DEF ExitLoop, Scheduling
  <1>8. CASE WaitForWork
    BY <1>8 DEF WaitForWork, Scheduling
  <1>9. CASE ServiceActive
    BY <1>9 DEF ServiceActive, Scheduling
  <1>10. CASE StartWorker
    BY <1>10 DEF StartWorker
  <1>11. CASE StartFails
    BY <1>11 DEF StartFails
  <1>12. CASE InstallActive
    BY <1>12 DEF InstallActive, ReasonAtInstall
  <1>13. CASE DrainEvent
    BY <1>13 DEF DrainEvent, Draining
  <1>14. CASE DrainMalformed
    BY <1>14 DEF DrainMalformed, Draining, AfterDrain
  <1>15. CASE DrainEnds
    BY <1>15 DEF DrainEnds, Draining, AfterDrain
  <1>16. CASE EnforceCancel
    BY <1>16 DEF EnforceCancel, Escalation
  <1>17. CASE ReapCheck
    BY <1>17 DEF ReapCheck
  <1>18. CASE DecideOutcome
    BY <1>18 DEF DecideOutcome, Verdict
  <1>19. CASE ResolveFuture
    BY <1>19 DEF ResolveFuture
  <1>20. CASE ClearActive
    BY <1>20 DEF ClearActive, NoActiveRecord, NoProcess
  <1>21. CASE Worker
    BY <1>21 DEF Worker, WorkerProgress, WorkerTerminal, WorkerMisbehaves, WorkerExit, WriteEvent
  <1>22. CASE ClockPasses
    BY <1>22 DEF ClockPasses
  <1>23. CASE UNCHANGED vars
    BY <1>23 DEF vars
  <1> QED BY <1>1, <1>2, <1>3, <1>4, <1>5, <1>6, <1>7, <1>8, <1>9, <1>10, <1>11, <1>12, <1>13, <1>14, <1>15, <1>16, <1>17, <1>18, <1>19, <1>20, <1>21, <1>22, <1>23 DEF Next, Callers, Coordinator

(* The coordinator thread ends only after every worker it installed was      *)
(* reaped, and counted so, and the last future completed.                    *)
THEOREM ExitIsClean == Spec => []CleanExit
  <1>1. Init => ExitInv /\ StopInv
    BY DEF Init, ExitInv, StopInv, WaitingStopsRunning, ClosedStops
  <1>2. Spec => []ExitInv
    BY <1>1, ExitStep, StopStep, Invariance, PTL DEF Spec
  <1>3. ASSUME IInv, CountInv, ExitInv PROVE CleanExit
    <2> SUFFICES ASSUME pc = "exited" PROVE worker = "none" /\ started = reaped
                                          /\ OpenRequests = {} /\ closed
      BY DEF CleanExit
    <2>1. closed /\ retired = {} /\ pending = None BY <1>3 DEF ExitInv
    <2>2. active = None /\ starting = None /\ batch = {}
      BY <1>3 DEF IInv, ControlInv
    <2>3. worker = "none" /\ started = reaped
      BY <1>3, <2>2 DEF IInv, TypeOK, ControlOK, CountInv
    <2>4. OpenRequests = {}
      BY <1>3, <2>1, <2>2 DEF IInv, TypeOK, SlotsOK, PlaceInv, OpenRequests, Requests, None
    <2> QED BY <2>1, <2>3, <2>4
  <1> QED BY <1>2, <1>3, Invariance, CountInvariance, PTL

-----------------------------------------------------------------------------
(* What the coordinator has read, against what the worker has written. *)

Quiet(e) == e \in {"progress", "malformed"}

(* The first terminal event of the pipe is the one the worker was to write. *)
SentIsNext ==
    \E k \in 1 .. Len(pipe) :
        pipe[k] = sent /\ \A i \in 1 .. k - 1 : Quiet(pipe[i])

(* A terminal event is in the pipe until it is the terminal event that was  *)
(* read, unless the envelope protocol was broken; every event counts.       *)
PipeInv ==
    /\ sent = "none" => /\ terminal = "none"
                        /\ \A i \in 1 .. Len(pipe) : Quiet(pipe[i])
    /\ protocol = "none" /\ terminal # "none" => terminal = sent
    /\ protocol = "none" /\ terminal = "none" /\ sent # "none" => SentIsNext
    /\ drained + Len(pipe) <= emitted
    /\ ~Draining => drained = 0

(* The last drain follows the death of the worker, and empties the pipe. *)
LastReadInv ==
    /\ pc \in {"drainLast", "decide", "resolve"} => worker = "exited"
    /\ pc = "decide" /\ protocol = "none" => pipe = <<>>
    /\ TruthfulVerdict

EventInv == PipeInv /\ LastReadInv

LEMMA InitEventInv == Init => EventInv
  BY DEF Init, EventInv, PipeInv, LastReadInv, SentIsNext, Quiet, Draining, TruthfulVerdict

(* The worker writes an event: nothing already in the pipe moves. *)
LEMMA WriteEventStep ==
  ASSUME IInv, EventInv, NEW e \in Events, WriteEvent(e),
         \/ sent' = sent /\ (sent = "none" => Quiet(e))
         \/ sent = "none" /\ sent' = e /\ e \in {"result", "failure"}
  PROVE  EventInv'
  <1> USE DEF IInv, TypeOK, EventsOK, EventInv, WriteEvent, lockVars, activeVars, countVars,
              localVars
  <1>1. /\ pipe' \in Seq(Events)
        /\ Len(pipe') = Len(pipe) + 1
        /\ \A i \in 1 .. Len(pipe) : pipe'[i] = pipe[i]
        /\ pipe'[Len(pipe) + 1] = e
        /\ Len(pipe) \in Nat
    OBVIOUS
  <1>2. UNCHANGED <<terminal, protocol, drained, pc, worker, verdict>>
    OBVIOUS
  <1>3. sent' = "none" => terminal' = "none" /\ \A i \in 1 .. Len(pipe') : Quiet(pipe'[i])
    <2> SUFFICES ASSUME sent' = "none"
                 PROVE  terminal' = "none" /\ \A i \in 1 .. Len(pipe') : Quiet(pipe'[i])
      OBVIOUS
    <2>1. sent = "none" /\ Quiet(e) /\ terminal = "none"
      BY DEF PipeInv
    <2>2. ASSUME NEW i \in 1 .. Len(pipe') PROVE Quiet(pipe'[i])
      <3>1. i \in 1 .. Len(pipe) \/ i = Len(pipe) + 1
        BY <1>1
      <3> QED BY <1>1, <2>1, <3>1 DEF PipeInv
    <2> QED BY <1>2, <2>1, <2>2
  <1>4. ASSUME protocol = "none", terminal = "none", sent' # "none" PROVE SentIsNext'
    <2>1. CASE sent = "none"
      <3>1. sent' = e
        BY <1>4, <2>1
      <3>2. Len(pipe) + 1 \in 1 .. Len(pipe') /\ (Len(pipe) + 1) - 1 = Len(pipe)
        BY <1>1
      <3>3. \A i \in 1 .. Len(pipe) : Quiet(pipe'[i])
        BY <1>1, <2>1 DEF PipeInv
      <3> QED BY <1>1, <3>1, <3>2, <3>3 DEF SentIsNext
    <2>2. CASE sent # "none"
      <3>1. PICK k \in 1 .. Len(pipe) : pipe[k] = sent /\ \A i \in 1 .. k - 1 : Quiet(pipe[i])
        BY <1>4, <2>2 DEF PipeInv, SentIsNext
      <3>2. k \in 1 .. Len(pipe') /\ 1 .. k - 1 \subseteq 1 .. Len(pipe)
        BY <1>1
      <3>3. sent' = sent
        BY <2>2
      <3> QED BY <1>1, <3>1, <3>2, <3>3 DEF SentIsNext
    <2> QED BY <2>1, <2>2
  <1>5. drained' + Len(pipe') <= emitted' /\ (~Draining' => drained' = 0)
    BY <1>1, <1>2 DEF PipeInv, Draining
  <1>6. protocol' = "none" /\ terminal' # "none" => terminal' = sent'
    BY <1>2 DEF PipeInv
  <1>7. PipeInv'
    BY <1>2, <1>3, <1>4, <1>5, <1>6 DEF PipeInv
  <1>8. LastReadInv'
    BY <1>2 DEF LastReadInv, TruthfulVerdict
  <1> QED BY <1>7, <1>8

(* One event is read: the head of the pipe, which is the next it was to be. *)
LEMMA DrainEventReads == ASSUME IInv, EventInv, DrainEvent PROVE EventInv'
  <1> USE DEF IInv, TypeOK, EventsOK, EventInv, lockVars, activeVars, countVars
  <1>1. /\ pipe # <<>> /\ pipe' = Tail(pipe)
        /\ drained' = drained + 1
        /\ UNCHANGED <<emitted, sent, worker, verdict, pc>>
        /\ Draining
        /\ Head(pipe) # "malformed"
    BY DEF DrainEvent
  <1>2. /\ Len(pipe) \in Nat \ {0} /\ Len(pipe') = Len(pipe) - 1
        /\ \A i \in 1 .. Len(pipe') : pipe'[i] = pipe[i + 1]
        /\ Head(pipe) = pipe[1] /\ pipe[1] \in Events
        /\ \A i \in 1 .. Len(pipe') : i + 1 \in 1 .. Len(pipe)
    BY <1>1
  <1>3. CASE Head(pipe) = "progress"
    <2>1. UNCHANGED <<terminal, protocol>>
      BY <1>3 DEF DrainEvent
    <2>2. ASSUME protocol = "none", terminal = "none", sent # "none" PROVE SentIsNext'
      <3>1. PICK k \in 1 .. Len(pipe) : pipe[k] = sent /\ \A i \in 1 .. k - 1 : Quiet(pipe[i])
        BY <2>2 DEF PipeInv, SentIsNext
      <3>2. k # 1
        BY <1>2, <1>3, <3>1
      <3>3. k - 1 \in 1 .. Len(pipe') /\ pipe'[k - 1] = pipe[k]
        BY <1>2, <3>2
      <3>4. ASSUME NEW i \in 1 .. (k - 1) - 1 PROVE Quiet(pipe'[i])
        <4>1. i \in 1 .. Len(pipe') /\ i + 1 \in 1 .. k - 1
          BY <1>2
        <4> QED BY <1>2, <3>1, <4>1
      <3> QED BY <1>1, <3>1, <3>3, <3>4 DEF SentIsNext
    <2>3. PipeInv'
      BY <1>1, <1>2, <2>1, <2>2 DEF PipeInv, Draining
    <2>4. LastReadInv'
      BY <1>1, <2>1 DEF LastReadInv, TruthfulVerdict, Draining
    <2> QED BY <2>3, <2>4
  <1>4. CASE Head(pipe) \in {"result", "failure"}
    <2>1. sent # "none"
      <3>1. ~Quiet(pipe[1]) /\ 1 \in 1 .. Len(pipe)
        BY <1>2, <1>4 DEF Quiet
      <3> QED BY <3>1 DEF PipeInv
    <2>2. CASE terminal = "none"
      <3>1. terminal' = Head(pipe) /\ protocol' = protocol
        BY <1>4, <2>2 DEF DrainEvent
      <3>2. ASSUME protocol = "none" PROVE Head(pipe) = sent
        <4>1. PICK k \in 1 .. Len(pipe) : /\ pipe[k] = sent
                                         /\ \A i \in 1 .. k - 1 : Quiet(pipe[i])
          BY <2>1, <2>2, <3>2 DEF PipeInv, SentIsNext
        <4>2. ~Quiet(pipe[1])
          BY <1>2, <1>4 DEF Quiet
        <4>3. k = 1
          BY <4>1, <4>2
        <4> QED BY <1>2, <4>1, <4>3
      <3>3. PipeInv'
        BY <1>1, <1>2, <1>4, <2>1, <3>1, <3>2 DEF PipeInv, Draining
      <3>4. LastReadInv'
        BY <1>1, <3>1 DEF LastReadInv, TruthfulVerdict, Draining
      <3> QED BY <3>3, <3>4
    <2>3. CASE terminal # "none"
      <3>1. terminal' = terminal /\ protocol' = "duplicate"
        BY <1>4, <2>3 DEF DrainEvent
      <3>2. PipeInv'
        BY <1>1, <1>2, <2>1, <3>1 DEF PipeInv, Draining
      <3>3. LastReadInv'
        BY <1>1, <3>1 DEF LastReadInv, TruthfulVerdict, Draining
      <3> QED BY <3>2, <3>3
    <2> QED BY <2>2, <2>3
  <1> QED BY <1>1, <1>2, <1>3, <1>4 DEF Events

(* A malformed envelope ends the drain, and is what the verdict will be. *)
LEMMA DrainMalformedReads == ASSUME IInv, EventInv, DrainMalformed PROVE EventInv'
  <1> USE DEF IInv, TypeOK, EventsOK, EventInv, lockVars, activeVars, countVars
  <1>1. /\ pipe # <<>> /\ pipe' = Tail(pipe)
        /\ drained' = 0 /\ protocol' = "malformed"
        /\ UNCHANGED <<emitted, sent, worker, verdict, terminal>>
        /\ pc' = IF pc = "drain" THEN "enforce" ELSE "decide"
        /\ pc \in {"drain", "drainLast"}
    BY DEF DrainMalformed, AfterDrain, Draining
  <1>2. /\ Len(pipe) \in Nat \ {0} /\ Len(pipe') = Len(pipe) - 1
        /\ \A i \in 1 .. Len(pipe') : pipe'[i] = pipe[i + 1] /\ i + 1 \in 1 .. Len(pipe)
    BY <1>1
  <1>3. sent' = "none" => terminal' = "none" /\ \A i \in 1 .. Len(pipe') : Quiet(pipe'[i])
    BY <1>1, <1>2 DEF PipeInv
  <1>4. drained' + Len(pipe') <= emitted'
    BY <1>1, <1>2 DEF PipeInv
  <1>5. PipeInv'
    BY <1>1, <1>3, <1>4 DEF PipeInv
  <1>6. LastReadInv'
    BY <1>1 DEF LastReadInv, TruthfulVerdict
  <1> QED BY <1>5, <1>6

(* A drain that ends without a malformed envelope has read all there was:   *)
(* one worker writes no more events than one drain reads.                   *)
LEMMA DrainEndsReads == ASSUME IInv, EventInv, DrainEnds PROVE EventInv'
  <1> USE DEF IInv, TypeOK, EventsOK, EventInv, lockVars, activeVars, countVars, workerVars
  <1>1. /\ UNCHANGED <<emitted, sent, worker, verdict, terminal, protocol, pipe>>
        /\ drained' = 0
        /\ pc' = IF pc = "drain" THEN "enforce" ELSE "decide"
        /\ pc \in {"drain", "drainLast"}
        /\ pipe = <<>> \/ drained = DrainLimit
    BY DEF DrainEnds, AfterDrain, Draining
  <1>2. pipe = <<>>
    <2>1. CASE drained = DrainLimit
      <3>1. Len(pipe) <= 0 /\ Len(pipe) \in Nat
        BY <2>1, DrainAssumption DEF PipeInv, DrainAssumption
      <3> QED BY <3>1
    <2> QED BY <1>1, <2>1
  <1>3. PipeInv'
    BY <1>1 DEF PipeInv, SentIsNext
  <1>4. LastReadInv'
    BY <1>1, <1>2 DEF LastReadInv, TruthfulVerdict
  <1> QED BY <1>3, <1>4

(* The pipe is empty when the outcome is decided, so a terminal event that  *)
(* was written has been read.                                               *)
LEMMA DecideReads == ASSUME IInv, EventInv, DecideOutcome PROVE EventInv'
  <1> USE DEF IInv, TypeOK, EventsOK, EventInv, lockVars, activeVars, countVars, workerVars
  <1>1. /\ UNCHANGED <<emitted, sent, worker, terminal, protocol, pipe, drained>>
        /\ pc = "decide" /\ pc' = "resolve"
        /\ verdict' = Verdict
    BY DEF DecideOutcome
  <1>2. PipeInv'
    BY <1>1 DEF PipeInv, SentIsNext, Draining
  <1>3. Verdict = "result" => sent = "result"
    BY DEF Verdict, PipeInv, ControlOK, Reasons
  <1>4. Verdict = "abrupt" => sent = "none"
    <2>1. Verdict = "abrupt" => protocol = "none" /\ terminal = "none"
      BY DEF Verdict, ControlOK, Reasons
    <2>2. protocol = "none" => ~SentIsNext
      BY <1>1 DEF LastReadInv, SentIsNext
    <2> QED BY <2>1, <2>2 DEF PipeInv
  <1>5. LastReadInv'
    BY <1>1, <1>3, <1>4 DEF LastReadInv, TruthfulVerdict
  <1> QED BY <1>2, <1>5

(* A step that leaves pipe, terminal event and protocol failure alone. *)
LEMMA NothingIsRead ==
  ASSUME EventInv, UNCHANGED <<terminal, protocol, emitted, sent, pipe, drained>>,
         Draining' \/ drained = 0,
         pc' \in {"drainLast", "decide", "resolve"} => worker' = "exited",
         pc' \in {"decide", "resolve"} => pc' = pc /\ verdict' = verdict
  PROVE  EventInv'
  <1>1. PipeInv'
    BY DEF EventInv, PipeInv, SentIsNext, Draining
  <1>2. LastReadInv'
    BY DEF EventInv, LastReadInv, TruthfulVerdict
  <1> QED BY <1>1, <1>2 DEF EventInv

LEMMA EventStep == ASSUME IInv, EventInv, [Next]_vars PROVE EventInv'
  <1> USE DEF lockVars, activeVars, countVars, localVars, workerVars
  <1>0. /\ pc \in {"drainLast", "decide", "resolve"} => worker = "exited"
        /\ ~Draining => drained = 0
    BY DEF EventInv, PipeInv, LastReadInv
  <1>1. CASE Callers
    <2>1. UNCHANGED <<terminal, protocol, emitted, sent, pipe, drained, pc, worker, verdict>>
      BY <1>1 DEF Callers, Submit, Close, Cancel, RetirePending, StampActive, RequestCancel
    <2> QED BY <1>0, <2>1, NothingIsRead DEF Draining
  <1>2. CASE \/ CollectRetired \/ CompleteRetired \/ TakePending \/ ExitLoop \/ WaitForWork
             \/ ServiceActive \/ StartFails \/ InstallActive
             \/ EnforceCancel \/ ReapCheck \/ ResolveFuture
    <2>1. /\ UNCHANGED <<terminal, protocol, emitted, sent, pipe, drained, worker, verdict>>
          /\ pc' \notin {"decide", "resolve"}
          /\ pc' = "drainLast" => worker = "exited"
          /\ ~Draining
      BY <1>2 DEF CollectRetired, CompleteRetired, TakePending, ExitLoop, WaitForWork, Scheduling,
         ServiceActive, StartFails, InstallActive, EnforceCancel, ReapCheck, ResolveFuture,
         Draining
    <2> QED BY <1>0, <2>1, NothingIsRead
  <1>3. CASE StartWorker
    <2>1. /\ UNCHANGED <<terminal, protocol, emitted, sent, pipe, drained, verdict>>
          /\ pc = "start" /\ pc' = "install"
      BY <1>3 DEF StartWorker
    <2> QED BY <1>0, <2>1, NothingIsRead DEF Draining
  <1>4. CASE ClearActive
    BY <1>0, <1>4 DEF ClearActive, NoActiveRecord, NoProcess, EventInv, PipeInv, LastReadInv,
       SentIsNext, Quiet, Draining, TruthfulVerdict
  <1>5. CASE DrainEvent
    BY <1>5, DrainEventReads
  <1>6. CASE DrainMalformed
    BY <1>6, DrainMalformedReads
  <1>7. CASE DrainEnds
    BY <1>7, DrainEndsReads
  <1>8. CASE DecideOutcome
    BY <1>8, DecideReads
  <1>9. CASE WorkerProgress
    BY <1>9, WriteEventStep DEF WorkerProgress, Events, Quiet
  <1>10. CASE WorkerTerminal
    BY <1>10, WriteEventStep DEF WorkerTerminal, Events
  <1>11. CASE WorkerMisbehaves
    BY <1>11, WriteEventStep DEF WorkerMisbehaves, Events, Quiet
  <1>12. CASE WorkerExit
    <2>1. /\ UNCHANGED <<terminal, protocol, emitted, sent, pipe, drained, pc, verdict>>
          /\ worker' = "exited"
      BY <1>12 DEF WorkerExit
    <2> QED BY <1>0, <2>1, NothingIsRead DEF Draining
  <1>13. CASE ClockPasses \/ UNCHANGED vars
    <2>1. UNCHANGED <<terminal, protocol, emitted, sent, pipe, drained, pc, worker, verdict>>
      BY <1>13 DEF ClockPasses, vars
    <2> QED BY <1>0, <2>1, NothingIsRead DEF Draining
  <1> QED BY <1>1, <1>2, <1>3, <1>4, <1>5, <1>6, <1>7, <1>8, <1>9, <1>10, <1>11, <1>12, <1>13
          DEF Next, Coordinator, Worker

(* A future gets what its worker wrote before it died: a result only if one *)
(* was written, and an abrupt exit only if no terminal event was, whatever  *)
(* the moment of death relative to the reads of the pipe.                   *)
THEOREM VerdictIsTruthful == Spec => []TruthfulVerdict
  <1>1. EventInv => TruthfulVerdict
    BY DEF EventInv, LastReadInv
  <1> QED BY <1>1, InitEventInv, EventStep, Invariance, PTL DEF Spec

-----------------------------------------------------------------------------
(* The supervisor implements LatestRequestService. *)

(* The request the abstract service is working on. *)
RunningNow == IF starting # None THEN starting ELSE IF pc = "clear" THEN None ELSE active
PromiseVars == <<submitted, pending, RunningNow, retired \cup batch, future, closed>>

LEMMA InitRefines == Init => Promise!Init
  BY DEF Init, Promise!Init, Promise!Requests, Promise!None, Promise!Unanswered

LEMMA SubmitRefines == ASSUME IInv, Submit PROVE Promise!Accept
  BY DEF Submit, RetirePending, StampActive, RequestCancel, Promise!Accept,
         Promise!DropWaiting, Promise!None, localVars, workerVars, activeVars, IInv, TypeOK,
         SlotsOK

LEMMA CloseRefines == ASSUME IInv, Close PROVE Promise!Shut
  BY DEF Close, RetirePending, StampActive, RequestCancel, Promise!Shut,
         Promise!DropWaiting, Promise!None, localVars, workerVars, activeVars,
         IInv, TypeOK, SlotsOK

LEMMA CancelRefines ==
  ASSUME IInv, NEW targets \in CancelTargets, Cancel(targets)
  PROVE  Promise!Withdraw \/ UNCHANGED PromiseVars
  <1>1. None \notin targets
    BY DEF CancelTargets
  <1>2. UNCHANGED <<submitted, starting, active, pc, batch, future, closed>>
    BY DEF Cancel, RequestCancel, activeVars, localVars
  <1>3. CASE pending \in targets
    <2>1. /\ pending # None
          /\ pending' = None
          /\ retired' = retired \cup ({pending} \ {None})
      BY <1>1, <1>3 DEF Cancel, RetirePending
    <2> QED BY <1>2, <2>1 DEF Promise!Withdraw, Promise!DropWaiting, Promise!None
  <1>4. CASE pending \notin targets
    <2>1. UNCHANGED <<pending, retired>>
      BY <1>4 DEF Cancel
    <2> QED BY <1>2, <2>1 DEF PromiseVars, RunningNow
  <1> QED BY <1>3, <1>4

LEMMA CompleteRetiredRefines ==
  ASSUME IInv, BlameInv, CompleteRetired PROVE Promise!AnswerDropped
  <1> USE DEF IInv, TypeOK, SlotsOK
  <1>1. PICK r \in batch : Complete(r, retiredAs[r]) /\ batch' = batch \ {r}
    BY DEF CompleteRetired
  <1>2. /\ future[r] = "open"
        /\ r \notin retired
        /\ retiredAs[r] \in {"superseded", "canceled"}
        /\ retiredAs[r] = "superseded" => r < submitted
    BY <1>1 DEF PlaceInv, ControlInv, Retirals, BlameInv
  <1>3. Promise!Answer(r, retiredAs[r])
    BY <1>1, <1>2 DEF Promise!Answer, Promise!Unanswered, Complete
  <1>4. /\ UNCHANGED <<submitted, pending, closed, retired, starting, active, pc>>
        /\ retired' \cup batch' = (retired \cup batch) \ {r}
    BY <1>1, <1>2 DEF CompleteRetired, lockVars, activeVars
  <1> QED BY <1>1, <1>2, <1>3, <1>4 DEF Promise!AnswerDropped

LEMMA TakePendingRefines == ASSUME IInv, TakePending PROVE Promise!Begin
  BY DEF IInv, TypeOK, SlotsOK, ControlInv, TakePending, Scheduling, Promise!Begin,
         Promise!None, activeVars

LEMMA StartFailsRefines == ASSUME IInv, StartFails PROVE Promise!AnswerRunning
  <1> USE DEF IInv, TypeOK, SlotsOK
  <1>1. /\ starting \in Requests
        /\ active = None
        /\ future[starting] = "open"
    BY DEF StartFails, ControlInv, PlaceInv
  <1>2. Promise!Answer(starting, "startup-failure")
    BY <1>1 DEF StartFails, Complete, Promise!Answer, Promise!Unanswered
  <1>3. /\ UNCHANGED <<submitted, pending, retired, batch, closed, active>>
        /\ starting' = None
        /\ pc' = "retire"
    BY DEF StartFails, lockVars, activeVars
  <1>4. "startup-failure" \in Outcomes
    BY DEF Outcomes, Failures
  <1> QED BY <1>1, <1>2, <1>3, <1>4 DEF Promise!AnswerRunning, Promise!None

LEMMA ResolveFutureRefines ==
  ASSUME IInv, BlameInv, ResolveFuture PROVE Promise!AnswerRunning
  <1> USE DEF IInv, TypeOK, SlotsOK
  <1>1. /\ active \in Requests
        /\ starting = None
        /\ pc = "resolve"
        /\ future[active] = "open"
        /\ verdict \in Outcomes
        /\ verdict = "superseded" => active < submitted
    BY DEF ResolveFuture, ControlInv, PlaceInv, ControlOK, BlameInv, Serving
  <1>2. Promise!Answer(active, verdict)
    BY <1>1 DEF ResolveFuture, Complete, Promise!Answer, Promise!Unanswered
  <1>3. /\ UNCHANGED <<submitted, pending, retired, batch, closed, active, starting>>
        /\ pc' = "clear"
    BY DEF ResolveFuture, lockVars, activeVars, localVars
  <1> QED BY <1>1, <1>2, <1>3 DEF Promise!AnswerRunning, Promise!None

(* Every other step changes nothing the callers can see. *)
LEMMA OtherRefines ==
  ASSUME IInv,
         \/ CollectRetired \/ ExitLoop \/ WaitForWork \/ ServiceActive \/ StartWorker
         \/ InstallActive \/ DrainEvent \/ DrainMalformed \/ DrainEnds \/ EnforceCancel
         \/ ReapCheck \/ DecideOutcome \/ ClearActive \/ Worker \/ ClockPasses
         \/ UNCHANGED vars
  PROVE  UNCHANGED PromiseVars
  <1> USE DEF IInv, PromiseVars, RunningNow, lockVars, activeVars, localVars,
              ControlInv
  <1>1. CASE CollectRetired
    BY <1>1 DEF CollectRetired
  <1>2. CASE ExitLoop
    BY <1>2 DEF ExitLoop, Scheduling
  <1>3. CASE WaitForWork
    BY <1>3 DEF WaitForWork, Scheduling
  <1>4. CASE ServiceActive
    BY <1>4 DEF ServiceActive, Scheduling
  <1>5. CASE StartWorker
    BY <1>5 DEF StartWorker
  <1>6. CASE InstallActive
    BY <1>6 DEF InstallActive
  <1>7. CASE DrainEvent
    BY <1>7 DEF DrainEvent, Draining
  <1>8. CASE DrainMalformed
    BY <1>8 DEF DrainMalformed, Draining, AfterDrain
  <1>9. CASE DrainEnds
    BY <1>9 DEF DrainEnds, Draining, AfterDrain
  <1>10. CASE EnforceCancel
    BY <1>10 DEF EnforceCancel
  <1>11. CASE ReapCheck
    BY <1>11 DEF ReapCheck
  <1>12. CASE DecideOutcome
    BY <1>12 DEF DecideOutcome
  <1>13. CASE ClearActive
    BY <1>13 DEF ClearActive, NoActiveRecord
  <1>14. CASE Worker
    BY <1>14 DEF Worker, WorkerProgress, WorkerTerminal, WorkerMisbehaves, WorkerExit, WriteEvent
  <1>15. CASE ClockPasses
    BY <1>15 DEF ClockPasses
  <1>16. CASE UNCHANGED vars
    BY <1>16 DEF vars
  <1> QED BY <1>1, <1>2, <1>3, <1>4, <1>5, <1>6, <1>7, <1>8, <1>9, <1>10, <1>11, <1>12, <1>13, <1>14, <1>15, <1>16

LEMMA StepRefines ==
  ASSUME IInv, BlameInv, [Next]_vars PROVE [Promise!Next]_(Promise!vars)
  <1>1. CASE Callers
    BY <1>1, SubmitRefines, CloseRefines, CancelRefines
       DEF Callers, Promise!Next, Promise!vars, PromiseVars, RunningNow
  <1>2. CASE CompleteRetired \/ TakePending \/ StartFails \/ ResolveFuture
    BY <1>2, CompleteRetiredRefines, TakePendingRefines, StartFailsRefines,
       ResolveFutureRefines DEF Promise!Next
  <1>3. CASE ~Callers /\ ~(CompleteRetired \/ TakePending \/ StartFails \/ ResolveFuture)
    BY <1>3, OtherRefines DEF Next, Coordinator, Promise!vars, PromiseVars, RunningNow
  <1> QED BY <1>1, <1>2, <1>3

(* The supervisor implements the latest-request service: it begins only the *)
(* newest waiting request, works on one at a time, answers every accepted   *)
(* request at most once and blames a newer request only if there is one.    *)
THEOREM SupervisorRefines == Spec => Refinement
  BY InitRefines, StepRefines, Invariance, BlameInvariance, PTL
     DEF Spec, Refinement, Promise!Spec

(* A stop request is never withdrawn from the running worker. *)
LEMMA StopStays ==
  ASSUME IInv, [Next]_vars, active # None, active' = active, cancelReason # "none"
  PROVE  cancelReason' \in {cancelReason, "closed"}
  <1> USE DEF IInv, TypeOK, SlotsOK, ControlInv, activeVars
  <1>1. CASE Callers
    BY <1>1 DEF Callers, Submit, Close, Cancel, StampActive, RequestCancel
  <1>2. CASE Coordinator
    BY <1>2 DEF Coordinator, CollectRetired, CompleteRetired, TakePending, ExitLoop,
                WaitForWork, ServiceActive, StartWorker, StartFails, InstallActive,
                DrainEvent, DrainMalformed, DrainEnds, EnforceCancel, ReapCheck,
                DecideOutcome, ResolveFuture, ClearActive, NoActiveRecord
  <1>3. CASE Worker \/ ClockPasses \/ UNCHANGED vars
    BY <1>3 DEF Worker, WorkerProgress, WorkerTerminal, WorkerMisbehaves, WorkerExit,
                WriteEvent, ClockPasses, vars
  <1> QED BY <1>1, <1>2, <1>3 DEF Next

(* Once a worker was asked to stop it stays asked, for the same reason or   *)
(* because the supervisor closed.                                           *)
THEOREM StopsAreIrrevocable == Spec => StopIsIrrevocable
  <1>1. ASSUME IInv, [Next]_vars
        PROVE  [ active # None /\ active' = active /\ cancelReason # "none"
                 => cancelReason' \in {cancelReason, "closed"} ]_vars
    BY <1>1, StopStays
  <1> QED BY <1>1, Invariance, PTL DEF Spec, StopIsIrrevocable
=============================================================================
