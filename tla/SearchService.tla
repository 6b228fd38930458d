---------------------------- MODULE SearchService ----------------------------
(***************************************************************************)
(* AsyncLiteralSearchService (ide/search_service.py) and the find bar that *)
(* uses it (ide/find_replace.py).  AsyncSourceStructureService and         *)
(* AsyncBundleSearchService have the same protocol.                        *)
(*                                                                         *)
(* The GUI thread replaces the pending request and advances the            *)
(* generation; the worker scans in windows, asks between two of them       *)
(* whether it is still wanted, and hands its result to a queued signal     *)
(* that the event loop delivers later.  A search stands for what it looks  *)
(* at: the text of the editor with the query.                              *)
(***************************************************************************)
EXTENDS Integers, Sequences

CONSTANTS
    Subjects,        \* a text with a query
    NoQuery,         \* the subject with an empty query
    Unencodable,     \* subjects with an unpaired surrogate before their last match
    MaxGeneration    \* calls of submit and cancel (model bound)

ASSUME SubjectAssumption == NoQuery \in Subjects /\ Unencodable \subseteq Subjects
ASSUME BoundAssumption == MaxGeneration \in Nat

Generations == 0 .. MaxGeneration
None        == 0          \* no request
Hidden      == "hidden"   \* no matches are shown

ASSUME HiddenAssumption == Hidden \notin Subjects

VARIABLES
    (* the service *)
    generation,      \* _generation
    pending,         \* generation of _pending
    searching,       \* _active_generation
    step,            \* where the worker is
    closed,          \* _closed
    subject,         \* what each generation was submitted with
    (* the find bar *)
    current,         \* the text and the query on the screen
    open,            \* _search_active
    armed,           \* _search_timer is running
    waiting,         \* _search_pending: the label says "Searching"
    expected,        \* _search_generation
    shown,           \* the subject whose matches are shown
    signals          \* _searchCompleted signals not delivered yet

serviceVars == <<generation, pending, searching, step, closed, subject>>
barVars     == <<current, open, armed, waiting, expected, shown, signals>>
vars        == <<serviceVars, barVars>>

Init ==
    /\ generation = 0
    /\ pending = None
    /\ searching = None
    /\ step = "idle"
    /\ closed = FALSE
    /\ subject = [g \in Generations |-> NoQuery]
    /\ current \in Subjects
    /\ open = FALSE
    /\ armed = FALSE
    /\ waiting = FALSE
    /\ expected = 0
    /\ shown = Hidden
    /\ signals = <<>>

-----------------------------------------------------------------------------
(* The GUI thread. *)

(* cancel: the generation moves on and the pending request is forgotten; a    *)
(* closed service keeps its generation.                                       *)
Cancel ==
    IF closed THEN expected' = generation /\ UNCHANGED <<generation, pending>>
    ELSE /\ generation < MaxGeneration
         /\ generation' = generation + 1
         /\ expected' = generation'
         /\ pending' = None

(* _schedule_refresh, on every change of the text, the query or the bar *)
ScheduleRefresh(now, isOpen) ==
    /\ Cancel
    /\ waiting' = (isOpen /\ now # NoQuery)
    /\ armed' = waiting'
    /\ shown' = Hidden

Change(s) ==
    /\ s # current
    /\ current' = s
    /\ ScheduleRefresh(s, open)
    /\ UNCHANGED <<open, signals, step, searching, closed, subject>>

OpenFind ==
    /\ ~closed
    /\ open' = TRUE
    /\ ScheduleRefresh(current, TRUE)
    /\ UNCHANGED <<current, signals, step, searching, closed, subject>>

CloseBar ==
    /\ open
    /\ open' = FALSE
    /\ ScheduleRefresh(current, FALSE)
    /\ UNCHANGED <<current, signals, step, searching, closed, subject>>

(* Variant: the generation is remembered before the request advances it. *)
SubmitSearchEarly ==
    /\ armed
    /\ ~closed
    /\ generation < MaxGeneration
    /\ armed' = FALSE
    /\ expected' = generation
    /\ generation' = generation + 1
    /\ pending' = generation'
    /\ subject' = [subject EXCEPT ![generation'] = current]
    /\ UNCHANGED <<waiting, current, open, shown, signals, step, searching, closed>>

(* The debounce interval is over: _submit_search.  While it runs the bar is   *)
(* open and the query is not empty.                                           *)
SubmitSearch ==
    /\ armed
    /\ ~closed
    /\ generation < MaxGeneration
    /\ armed' = FALSE
    /\ generation' = generation + 1
    /\ expected' = generation'
    /\ pending' = generation'
    /\ subject' = [subject EXCEPT ![generation'] = current]
    /\ UNCHANGED <<waiting, current, open, shown, signals, step, searching, closed>>

(* Variant: any result is good. *)
ApplySearchResultAny ==
    /\ signals # <<>>
    /\ signals' = Tail(signals)
    /\ IF open THEN shown' = subject[Head(signals)] /\ waiting' = FALSE
       ELSE UNCHANGED <<shown, waiting>>
    /\ UNCHANGED <<serviceVars, current, open, armed, expected>>

(* The event loop delivers a signal: _apply_search_result. *)
ApplySearchResult ==
    /\ signals # <<>>
    /\ signals' = Tail(signals)
    /\ IF open /\ Head(signals) = expected
         THEN shown' = subject[Head(signals)] /\ waiting' = FALSE
         ELSE UNCHANGED <<shown, waiting>>
    /\ UNCHANGED <<serviceVars, current, open, armed, expected>>

(* close_service *)
CloseService ==
    /\ ~closed
    /\ generation < MaxGeneration
    /\ open' = FALSE
    /\ waiting' = FALSE
    /\ armed' = FALSE
    /\ closed' = TRUE
    /\ generation' = generation + 1
    /\ pending' = None
    /\ UNCHANGED <<current, expected, shown, signals, searching, step, subject>>

-----------------------------------------------------------------------------
(* The worker. *)

Cancelled == closed \/ searching # generation

(* Variant: only a request wakes the worker. *)
TakeRequestOnly ==
    /\ step = "idle"
    /\ pending # None
    /\ searching' = pending
    /\ pending' = None
    /\ step' = "scanning"
    /\ UNCHANGED <<generation, closed, subject, barVars>>

TakeRequest ==
    /\ step = "idle"
    /\ pending # None \/ closed
    /\ IF closed THEN step' = "gone" /\ UNCHANGED <<pending, searching>>
       ELSE /\ searching' = pending
            /\ pending' = None
            /\ step' = "scanning"
    /\ UNCHANGED <<generation, closed, subject, barVars>>

(* _bounded_literal_search comes to an end, by itself or because it is not    *)
(* wanted any more; a search overtaken in its last window ends by itself too. *)
(* _qt_ranges cannot encode an unpaired surrogate: the exception leaves       *)
(* _worker_main and with it the thread.                                       *)
Scan ==
    /\ step = "scanning"
    /\ \/ Cancelled /\ step' = "dropped"
       \/ subject[searching] \notin Unencodable /\ step' = "found"
       \/ subject[searching] \in Unencodable /\ step' = "gone"
    /\ UNCHANGED <<generation, pending, searching, closed, subject, barVars>>

(* The decision under the lock.  The callback runs after it, so the generation *)
(* may move on between the two.                                                *)
Decide ==
    /\ step \in {"found", "dropped"}
    /\ step' = IF step = "found" /\ ~Cancelled THEN "delivering" ELSE "idle"
    /\ searching' = IF step' = "idle" THEN None ELSE searching
    /\ UNCHANGED <<generation, pending, closed, subject, barVars>>

(* request.callback(result): the signal is queued. *)
Deliver ==
    /\ step = "delivering"
    /\ signals' = Append(signals, searching)
    /\ searching' = None
    /\ step' = "idle"
    /\ UNCHANGED <<generation, pending, closed, subject, current, open, armed, waiting,
                   expected, shown>>

Worker == TakeRequest \/ Scan \/ Decide \/ Deliver

Next ==
    \/ \E s \in Subjects : Change(s)
    \/ OpenFind
    \/ CloseBar
    \/ SubmitSearch
    \/ ApplySearchResult
    \/ CloseService
    \/ Worker

Spec == Init /\ [][Next]_vars

(* The worker thread runs, the timer fires and the event loop delivers. *)
FairSpec ==
    Spec /\ WF_vars(Worker) /\ WF_vars(SubmitSearch) /\ WF_vars(ApplySearchResult)

-----------------------------------------------------------------------------
(* What is pending is the newest request: an older one never waits.           *)
TypeOK ==
    /\ generation \in Generations
    /\ pending \in {None, generation}
    /\ searching \in 0 .. generation
    /\ step \in {"idle", "scanning", "found", "dropped", "delivering", "gone"}
    /\ closed \in BOOLEAN
    /\ subject \in [Generations -> Subjects]
    /\ current \in Subjects
    /\ open \in BOOLEAN
    /\ armed \in BOOLEAN
    /\ waiting \in BOOLEAN
    /\ expected \in Generations
    /\ shown \in Subjects \cup {Hidden}
    /\ signals \in Seq(Generations)

(* The matches on the screen, which Replace All will replace, are those of    *)
(* the text and the query on the screen, whatever was typed, cancelled or     *)
(* delivered late.                                                            *)
MatchesAreCurrent == shown \in {Hidden, current}

(* The worker is gone before the service is closed.                           *)
Lost == step = "gone" /\ ~closed

(* While the worker lives, the bar stops saying "Searching" once the user     *)
(* stops typing.                                                              *)
SearchEnds == waiting ~> (~waiting \/ Lost \/ generation = MaxGeneration)

(* After close the worker returns. *)
WorkerReturns == closed ~> step = "gone"
=============================================================================
