--------------------------- MODULE ConversionWorker ---------------------------
(***************************************************************************)
(* The child process that runs one conversion: worker_main of              *)
(* ide/process_worker.py, and the pipeline it drives, convert() of         *)
(* converter/facade.py.  Two threads share the cancellation token: the one *)
(* that converts and the one that listens for the cancel command.          *)
(*                                                                         *)
(* A stage is what it comes back with.  Any event may fail to be sent, and *)
(* what is caught where follows the except clauses.  The decision trace    *)
(* and the telemetry are left out: they record and decide nothing.         *)
(***************************************************************************)
EXTENDS Naturals, Sequences, FiniteSets

CONSTANTS
    Stages,          \* how many stages the pipeline has
    MaxDiagnostics   \* max_diagnostics of the resource policy

ASSUME WorkerAssumption ==
    /\ Stages \in Nat \ {0}
    /\ MaxDiagnostics \in Nat \ {0}

VARIABLES
    at,           \* the call that comes next
    published,    \* how many stages have an accepted artifact
    caught,       \* convert() is in its except clause
    ending,       \* the status _result() is called with
    diagnostics,  \* the codes in the collector; "stage" is any code of a stage
    result,       \* the status of the ConversionResult, once there is one
    failing,      \* the classification of the failure to report
    muted,        \* progress_failed
    sent,         \* the events in the pipe
    token,        \* the cancellation token is set
    control,      \* the command pipe: "quiet", "sent", "heard" or "deaf"
    heardAt       \* where the pipeline was when the token was set

pipelineVars == <<published, caught, ending, diagnostics>>
cancelVars == <<token, control, heardAt>>
workerVars == <<at, pipelineVars, result, failing, muted, sent, cancelVars>>

Classes == {"protocol-error", "request-transport-error", "worker-resource-exhaustion",
            "worker-internal-error"}
Statuses == {"Converted", "Rejected", "InternalFailure", "Canceled"}
NoneYet == "none"

Event(kind, what) == [kind |-> kind, what |-> what]

WorkerInit ==
    /\ at = "request" /\ published = 0 /\ caught = FALSE /\ ending = NoneYet
    /\ diagnostics = {} /\ result = NoneYet /\ failing = NoneYet
    /\ muted = FALSE /\ sent = <<>>
    /\ token = FALSE /\ control = "quiet" /\ heardAt = [at |-> NoneYet, published |-> 0]

-----------------------------------------------------------------------------
(* worker_main around the conversion. *)

Fail(class) == at' = "failed" /\ failing' = class

ReceiveRequest ==
    /\ at = "request"
    /\ \/ at' = "canonical" /\ UNCHANGED failing
       \/ \E class \in Classes : Fail(class)
    /\ UNCHANGED <<pipelineVars, result, muted, sent, cancelVars>>

(* The terminal event is encoded and sent. *)
SendTerminal ==
    /\ at = "send"
    /\ \/ /\ sent' = Append(sent, Event("result", result))
          /\ at' = "exited"
          /\ UNCHANGED failing
       \/ \E class \in Classes : Fail(class) /\ UNCHANGED sent
    /\ UNCHANGED <<pipelineVars, result, muted, cancelVars>>

(* _send_failure_quietly *)
SendFailure ==
    /\ at = "failed"
    /\ \/ sent' = Append(sent, Event("failure", failing))
       \/ sent' = sent
    /\ at' = "exited"
    /\ UNCHANGED <<pipelineVars, result, failing, muted, cancelVars>>

-----------------------------------------------------------------------------
(* The cancel command. *)

(* The supervisor sends one command. *)
SendCancel ==
    /\ control = "quiet"
    /\ control' = "sent"
    /\ UNCHANGED <<at, pipelineVars, result, failing, muted, sent, token, heardAt>>

(* _listen_for_cancel receives one command and returns; a frame it cannot     *)
(* read or that is for another request, and a closed pipe, end it as well.    *)
Listen ==
    /\ at \notin {"request", "exited"}
    /\ \/ /\ control = "sent"
          /\ control' = "heard" /\ token' = TRUE
          /\ heardAt' = [at |-> at, published |-> published]
       \/ /\ control \in {"quiet", "sent"}
          /\ control' = "deaf"
          /\ UNCHANGED <<token, heardAt>>
    /\ UNCHANGED <<at, pipelineVars, result, failing, muted, sent>>

-----------------------------------------------------------------------------
(* convert() *)

Kept(code) ==
    IF Cardinality(diagnostics) < MaxDiagnostics THEN diagnostics \cup {code} ELSE diagnostics

(* Variant: a progress event that cannot be sent is simply skipped. *)
ReportUnlatched(event) ==
    /\ sent' \in {sent, Append(sent, event)}
    /\ UNCHANGED muted

(* report_progress: after one event that could not be sent none is.           *)
Report(event) ==
    \/ ~muted /\ sent' = Append(sent, event) /\ UNCHANGED muted
    \/ muted' = TRUE /\ UNCHANGED sent

(* return self._result(status, ...) after one more diagnostic.                *)
Return(status, code) ==
    /\ at' = "conclude"
    /\ ending' = status
    /\ diagnostics' = Kept(code)

(* except Exception *)
Raised == Return("InternalFailure", "PYC9001") /\ caught' = TRUE

Canonicalize ==
    /\ at = "canonical"
    /\ \/ at' = "ready" /\ UNCHANGED <<result, diagnostics>>
       \/ at' = "send" /\ result' = "Rejected" /\ diagnostics' = {"stage"}
    /\ UNCHANGED <<published, caught, ending, failing, muted, sent, cancelVars>>

ReportReady ==
    /\ at = "ready"
    /\ Report(Event("pipeline-ready", 0))
    /\ at' = "enter"
    /\ UNCHANGED <<pipelineVars, result, failing, cancelVars>>

(* The stage is entered if it accepts the artifact of the stage before.       *)
Enter ==
    /\ at = "enter"
    /\ Report(Event("stage-entered", published + 1))
    /\ \/ at' = "run" /\ UNCHANGED <<ending, diagnostics>>
       \/ Return("InternalFailure", "PYC9004")
    /\ UNCHANGED <<published, caught, result, failing, cancelVars>>

(* stage.run comes back with an outcome, or raises. A stage is canceled only  *)
(* if it saw the token.                                                       *)
Outcome(outcome) ==
    \/ outcome = "completed" /\ at' = "check" /\ UNCHANGED <<caught, ending, diagnostics>>
    \/ outcome \in {"Rejected", "InternalFailure"} /\ Return(outcome, "stage") /\ UNCHANGED caught
    \/ outcome = "Canceled" /\ token /\ Return("Canceled", "PYC1901") /\ UNCHANGED caught
    \/ outcome = "raised" /\ Raised
Outcomes == {"completed", "Rejected", "InternalFailure", "Canceled", "raised"}

RunStage(outcome) ==
    /\ at = "run"
    /\ Outcome(outcome)
    /\ UNCHANGED <<published, result, failing, muted, sent, cancelVars>>

Check ==
    /\ at = "check"
    /\ \/ token /\ Return("Canceled", "PYC1901")
       \/ ~token /\ at' = "validate" /\ UNCHANGED <<ending, diagnostics>>
    /\ UNCHANGED <<published, caught, result, failing, muted, sent, cancelVars>>

(* Variant: an artifact that is not valid is reported and passed on. *)
ValidateLeniently ==
    /\ at = "validate"
    /\ \/ at' = "recheck" /\ UNCHANGED <<caught, ending, diagnostics>>
       \/ at' = "recheck" /\ diagnostics' = Kept("PYC9002") /\ UNCHANGED <<caught, ending>>
    /\ UNCHANGED <<published, result, failing, muted, sent, cancelVars>>

(* stage.validate *)
Validate ==
    /\ at = "validate"
    /\ \/ at' = "recheck" /\ UNCHANGED <<caught, ending, diagnostics>>
       \/ Return("InternalFailure", "PYC9002") /\ UNCHANGED caught
       \/ Raised
    /\ UNCHANGED <<published, result, failing, muted, sent, cancelVars>>

(* Variant: the token is not looked at again after validation. *)
RecheckNothing ==
    /\ at = "recheck"
    /\ at' = "accept"
    /\ UNCHANGED <<pipelineVars, result, failing, muted, sent, cancelVars>>

(* The token is looked at once more. *)
Recheck ==
    /\ at = "recheck"
    /\ \/ token /\ Return("Canceled", "PYC1901")
       \/ ~token /\ at' = "accept" /\ UNCHANGED <<ending, diagnostics>>
    /\ UNCHANGED <<published, caught, result, failing, muted, sent, cancelVars>>

(* The artifact becomes the current one. *)
Accept ==
    /\ at = "accept"
    /\ at' = "completed" /\ published' = published + 1
    /\ UNCHANGED <<caught, ending, diagnostics, result, failing, muted, sent, cancelVars>>

ReportCompleted ==
    /\ at = "completed"
    /\ Report(Event("stage-completed", published))
    /\ \/ published < Stages /\ at' = "enter" /\ UNCHANGED ending
       \/ published = Stages /\ at' = "conclude" /\ ending' = "Converted"
    /\ UNCHANGED <<published, caught, diagnostics, result, failing, cancelVars>>

(* _result: what it raises is caught once; from the except clause it escapes  *)
(* to worker_main.                                                            *)
Conclude ==
    /\ at = "conclude"
    /\ \/ /\ result' = ending /\ at' = "send"
          /\ UNCHANGED <<caught, ending, diagnostics, failing>>
       \/ ~caught /\ Raised /\ UNCHANGED <<result, failing>>
       \/ /\ caught
          /\ \E class \in {"worker-resource-exhaustion", "worker-internal-error"} : Fail(class)
          /\ UNCHANGED <<caught, ending, diagnostics, result>>
    /\ UNCHANGED <<published, muted, sent, cancelVars>>

-----------------------------------------------------------------------------
(* What the stages do is left to the module that composes them. *)

Around ==
    \/ ReceiveRequest \/ SendTerminal \/ SendFailure
    \/ ReportReady \/ Enter \/ Check \/ Validate \/ Recheck \/ Accept
    \/ ReportCompleted \/ Conclude

WorkerNext ==
    \/ Around \/ Canonicalize \/ \E outcome \in Outcomes : RunStage(outcome)
    \/ SendCancel \/ Listen

-----------------------------------------------------------------------------
(* Properties *)

(* A result says Converted only when every stage was accepted and nothing was *)
(* reported, Canceled only when the token was set; any other result carries a *)
(* reason, whatever was raised on the way (_result, add_diagnostic).          *)
ResultIsHonest ==
    result # NoneYet =>
        /\ result = "Converted" <=> diagnostics = {}
        /\ result = "Converted" => published = Stages
        /\ result = "Canceled"  => token

(* Once the token is set no stage is published, but for the one that had      *)
(* passed its last look at the token; a conversion that was canceled while a  *)
(* stage was at work ends without C (the checks of convert() around           *)
(* validate).                                                                 *)
CancelIsHeeded ==
    token =>
        LET passed == IF heardAt.at = "accept" THEN 1 ELSE 0 IN
        /\ published <= heardAt.published + passed
        /\ result = "Converted" => heardAt.published + passed = Stages
=============================================================================
