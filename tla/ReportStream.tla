----------------------------- MODULE ReportStream -----------------------------
(* What a conversion worker promises the supervisor that reads its pipe: the  *)
(* stages are told in order and without a gap, at most one event ends the     *)
(* stream, nothing follows it, and the stream does end.                       *)
EXTENDS Naturals, Sequences

CONSTANTS
    Story,   \* the progress of a conversion that completes every stage
    Ends     \* the events that may end the stream: a result or a failure

VARIABLES
    log,     \* the events in the pipe, in the order they were sent
    over     \* whether the pipe is closed

vars == <<log, over>>

Init == log = <<>> /\ over = FALSE

Tell ==
    /\ ~over
    /\ Len(log) < Len(Story)
    /\ log' = Append(log, Story[Len(log) + 1])
    /\ UNCHANGED over

(* A worker that fails or is not heard closes the pipe without an end.        *)
Finish ==
    /\ ~over
    /\ \/ log' = log
       \/ \E e \in Ends : log' = Append(log, e)
    /\ over' = TRUE

Next == Tell \/ Finish

Spec == Init /\ [][Next]_vars /\ <>over
=============================================================================
