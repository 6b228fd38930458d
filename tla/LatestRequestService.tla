------------------------ MODULE LatestRequestService ------------------------
(***************************************************************************)
(* What the workspace's one-active/one-latest-pending services promise to  *)
(* their callers, with no threads, processes or queues.                    *)
(*                                                                         *)
(* Requests are numbered in the order they are accepted.  At most one is   *)
(* being worked on and at most one, the newest accepted, is waiting.  An   *)
(* accepted request leaves the service in exactly one way: it is answered, *)
(* once.  A request is answered "superseded" only if a newer one was       *)
(* accepted.                                                               *)
(***************************************************************************)
EXTENDS Integers

CONSTANTS
    MaxRequests,     \* number of requests the callers make (model bound)
    Answers          \* what a request can be answered with

Requests == 1 .. MaxRequests
None     == 0        \* no request
Unanswered == "open"

VARIABLES
    accepted,        \* number of requests accepted so far
    waiting,         \* the newest request, not begun
    running,         \* the request being worked on
    dropped,         \* requests that left the queue and await their answer
    answer,          \* the answer of every request
    shut             \* the service accepts nothing more

vars == <<accepted, waiting, running, dropped, answer, shut>>

Init ==
    /\ accepted = 0
    /\ waiting = None
    /\ running = None
    /\ dropped = {}
    /\ answer = [r \in Requests |-> Unanswered]
    /\ shut = FALSE

DropWaiting == dropped' = dropped \cup ({waiting} \ {None})

Accept ==
    /\ ~shut
    /\ accepted < MaxRequests
    /\ accepted' = accepted + 1
    /\ waiting' = accepted + 1
    /\ DropWaiting
    /\ UNCHANGED <<running, answer, shut>>

Withdraw ==
    /\ waiting # None
    /\ waiting' = None
    /\ DropWaiting
    /\ UNCHANGED <<accepted, running, answer, shut>>

Shut ==
    /\ ~shut
    /\ shut' = TRUE
    /\ waiting' = None
    /\ DropWaiting
    /\ UNCHANGED <<accepted, running, answer>>

Begin ==
    /\ running = None
    /\ waiting # None
    /\ running' = waiting
    /\ waiting' = None
    /\ UNCHANGED <<accepted, dropped, answer, shut>>

(* An answer may blame a newer request only when there is one. *)
Answer(r, a) ==
    /\ answer[r] = Unanswered
    /\ a = "superseded" => r < accepted
    /\ answer' = [answer EXCEPT ![r] = a]

AnswerRunning ==
    /\ running # None
    /\ \E a \in Answers : Answer(running, a)
    /\ running' = None
    /\ UNCHANGED <<accepted, waiting, dropped, shut>>

AnswerDropped ==
    /\ \E r \in dropped, a \in {"superseded", "canceled"} :
          /\ Answer(r, a)
          /\ dropped' = dropped \ {r}
    /\ UNCHANGED <<accepted, waiting, running, shut>>

Next ==
    \/ Accept
    \/ Withdraw
    \/ Shut
    \/ Begin
    \/ AnswerRunning
    \/ AnswerDropped

Spec == Init /\ [][Next]_vars
=============================================================================
