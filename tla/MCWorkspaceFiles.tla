-------------------------- MODULE MCWorkspaceFiles --------------------------
(* Instances of WorkspaceFiles for TLC. *)
EXTENDS WorkspaceFiles, TLC

OnePath  == {"a.py"}
OneCFile == {"a.c"}
Only     == [p \in OnePath |-> "a.c"]

-----------------------------------------------------------------------------
(* What the run Files tells states apart by.  Left out is what no action      *)
(* reads but to copy it, and what no action can tell apart.                   *)

(* Not the mirrors of the active document nor the revision they are from.     *)
Bundle == <<documents, active, documentSequence, linkVars>>

(* Whether the C on the screen is current, and idle and stale alike.          *)
Conversion ==
    <<generation, authenticated, state \in {"converting", "converted"}, CanSaveC,
      state = "converting", result = NoResult, result = generation>>

(* Not the files that only C is written to. *)
PythonFiles == [p \in Paths |-> files[p]]

(* Of a job whether the generation it was started in is still the current     *)
(* one, until the guard or the callback has asked.                            *)
Told(job) ==
    IF job.stage \in {"queued", "running", "read"}
      THEN [job EXCEPT !.expected = IF @ = generation THEN 1 ELSE 0]
      ELSE [job EXCEPT !.expected = 0, !.origin = NoPath]

(* Which operations are done, not in which order, and how many have no answer. *)
Written ==
    {<<jobs[j].path, jobs[j].text>> :
       j \in {i \in DOMAIN jobs : jobs[i].stage = "done" /\ jobs[i].path \in Paths}}
Unanswered == Cardinality({j \in DOMAIN jobs : jobs[j].stage \notin Answered})

(* The jobs by where they are, not by their numbers; what the threads do, not *)
(* which thread does it.                                                      *)
Line == [i \in DOMAIN queue |-> IF queue[i] = Exit THEN <<>> ELSE <<Told(jobs[queue[i]])>>]

Hands(w) ==
    IF Busy(w) THEN <<Told(Doing(w))>> ELSE IF at[w] = Idle THEN <<>> ELSE <<Gone, Gone>>

Staff == [h \in {Hands(w) : w \in Workers} |-> Cardinality({w \in Workers : Hands(w) = h})]

WhatMatters ==
    <<Bundle, Conversion, PythonFiles, Len(jobs), Written, Unanswered, Line, Staff,
      closed, retired>>
=============================================================================
