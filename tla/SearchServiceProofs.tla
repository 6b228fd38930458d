------------------------ MODULE SearchServiceProofs ------------------------
(* Proofs about SearchService, for every set of subjects and every bound.    *)
EXTENDS SearchService, TLAPS

(* Requests on their way to the bar: pending, with the worker, or as signals. *)
Awaited(g) == g = pending \/ g = searching \/ \E i \in DOMAIN signals : signals[i] = g

(* The numbers of the type invariant, which is all of it the argument needs.  *)
Numbers ==
    /\ generation \in Nat
    /\ expected \in Nat
    /\ pending \in Nat
    /\ searching \in Nat
    /\ signals \in Seq(Nat)
    /\ subject \in [Generations -> Subjects]
    /\ current \in Subjects

(* A closed service has a closed bar; an open one and its bar count together. *)
Together ==
    /\ closed => ~open
    /\ open => expected # None
    /\ ~closed => expected = generation
    /\ expected <= generation
    /\ generation <= MaxGeneration

(* No request is ahead of the service.                                        *)
Behind == \A g \in Nat : Awaited(g) => g <= generation

(* What the bar waits for was asked about the text and the query it shows.    *)
Fresh == \A g \in Nat : Awaited(g) /\ g # None /\ g = expected /\ ~closed => subject[g] = current

IInv == Numbers /\ Together /\ Behind /\ Fresh /\ MatchesAreCurrent

LEMMA InitIInv == Init => IInv
<1> SUFFICES ASSUME Init PROVE IInv
  OBVIOUS
<1> USE BoundAssumption, SubjectAssumption
<1>1. Numbers
  BY DEF Init, Numbers, None, Generations
<1>2. Together
  BY DEF Init, Together, None
<1>3. \A g : Awaited(g) => g = None
  BY DEF Init, Awaited, None
<1>4. Behind
  BY <1>3 DEF Init, Behind, None
<1>5. Fresh
  BY <1>3 DEF Fresh
<1>6. MatchesAreCurrent
  BY DEF Init, MatchesAreCurrent
<1> QED
  BY <1>1, <1>2, <1>4, <1>5, <1>6 DEF IInv

(* Refreshing the bar: it shows nothing, and what it now waits for was never  *)
(* asked.                                                                     *)
LEMMA RefreshIInv ==
    ASSUME IInv, current' \in Subjects, NEW isOpen, ScheduleRefresh(current', isOpen), open' = isOpen,
           closed => ~isOpen, UNCHANGED <<signals, searching, closed, subject>>
    PROVE  IInv'
<1> USE BoundAssumption
<1>1. Numbers'
  BY DEF IInv, Numbers, ScheduleRefresh, Cancel, None
<1>2. Together'
  BY DEF IInv, Numbers, Together, ScheduleRefresh, Cancel, None
<1>3. \A g \in Nat : Awaited(g)' => g = None \/ Awaited(g)
  BY DEF Awaited, ScheduleRefresh, Cancel
<1>4. generation' >= generation
  BY DEF IInv, Numbers, ScheduleRefresh, Cancel
<1>5. Behind'
  BY <1>1, <1>3, <1>4 DEF IInv, Behind, Numbers, None
<1>6. Fresh'
  <2>1. CASE closed
    BY <2>1 DEF Fresh
  <2>2. CASE ~closed
    <3>1. expected' = generation + 1
      BY <2>2 DEF ScheduleRefresh, Cancel
    <3>2. \A g \in Nat : Awaited(g)' => g # expected' \/ g = None
      BY <3>1, <1>3 DEF IInv, Behind, Numbers
    <3> QED
      BY <3>2 DEF Fresh
  <2> QED
    BY <2>1, <2>2
<1>7. MatchesAreCurrent'
  BY DEF ScheduleRefresh, MatchesAreCurrent
<1> QED
  BY <1>1, <1>2, <1>5, <1>6, <1>7 DEF IInv

LEMMA SubmitIInv == ASSUME IInv, SubmitSearch PROVE IInv'
<1> USE BoundAssumption
<1>a. generation' = generation + 1 /\ expected' = generation + 1 /\ pending' = generation + 1
  BY DEF SubmitSearch
<1>b. UNCHANGED <<current, open, shown, signals, searching, closed>>
  BY DEF SubmitSearch
<1>c. generation + 1 \in Generations /\ generation \in Nat
  BY DEF IInv, Numbers, SubmitSearch, Generations
<1>d. subject' = [subject EXCEPT ![generation + 1] = current] /\ current' = current
  BY <1>a, <1>b DEF SubmitSearch
<1>1. Numbers'
  <2>1. subject' \in [Generations -> Subjects] /\ current' \in Subjects
    BY <1>d DEF IInv, Numbers
  <2>2. UNCHANGED <<searching, signals>>
    BY <1>b
  <2> QED
    BY <1>a, <1>c, <2>1, <2>2 DEF IInv, Numbers
<1>2. Together'
  BY <1>a, <1>b, <1>c DEF IInv, Numbers, Together, Generations, None
<1>3. \A g \in Nat : Awaited(g)' => g = generation + 1 \/ Awaited(g)
  BY <1>a, <1>b DEF Awaited
<1>4. Behind'
  BY <1>3, <1>a, <1>c DEF IInv, Behind
<1>5. Fresh'
  <2>1. subject'[generation + 1] = current'
    BY <1>c, <1>d DEF IInv, Numbers
  <2> QED
    BY <2>1, <1>a DEF Fresh
<1>6. MatchesAreCurrent'
  BY <1>b DEF IInv, MatchesAreCurrent
<1> QED
  BY <1>1, <1>2, <1>4, <1>5, <1>6 DEF IInv

(* A step that forgets requests or moves them along.                          *)
LEMMA ForwardIInv ==
    ASSUME IInv, Numbers', \A g \in Nat : Awaited(g)' => g = None \/ Awaited(g),
           MatchesAreCurrent', UNCHANGED <<generation, expected, closed, open, subject, current>>
    PROVE  IInv'
<1>1. Together'
  BY DEF IInv, Together
<1>2. Behind'
  BY DEF IInv, Behind, Numbers, None
<1>3. Fresh'
  BY DEF IInv, Fresh
<1> QED
  BY <1>1, <1>2, <1>3 DEF IInv

LEMMA ApplyIInv == ASSUME IInv, ApplySearchResult PROVE IInv'
<1>a. UNCHANGED <<generation, pending, searching, closed, subject, current, open, expected>>
  BY DEF ApplySearchResult, serviceVars
<1>b. signals # <<>> /\ signals' = Tail(signals) /\ signals \in Seq(Nat)
  BY DEF ApplySearchResult, IInv, Numbers
<1>c. Head(signals) \in Nat /\ Awaited(Head(signals))
  BY <1>b DEF Awaited
<1>1. Numbers'
  BY <1>a, <1>b DEF IInv, Numbers
<1>2. \A i \in DOMAIN signals' : \E j \in DOMAIN signals : signals'[i] = signals[j]
  <2> TAKE i \in DOMAIN signals'
  <2>1. i + 1 \in DOMAIN signals /\ signals'[i] = signals[i + 1]
    BY <1>b
  <2> QED
    BY <2>1
<1>3. \A g \in Nat : Awaited(g)' => Awaited(g)
  BY <1>a, <1>2 DEF Awaited
<1>4. MatchesAreCurrent'
  <2>1. CASE open /\ Head(signals) = expected
    <3>1. ~closed
      BY <2>1 DEF IInv, Together
    <3>2. shown' = subject[Head(signals)]
      BY <2>1 DEF ApplySearchResult
    <3>3. CASE Head(signals) # None
      BY <1>a, <1>c, <2>1, <3>1, <3>2, <3>3 DEF IInv, Fresh, MatchesAreCurrent
    <3>4. CASE Head(signals) = None
      BY <3>4, <2>1 DEF IInv, Together
    <3> QED
      BY <3>3, <3>4
  <2>2. CASE ~(open /\ Head(signals) = expected)
    BY <2>2, <1>a DEF ApplySearchResult, IInv, MatchesAreCurrent
  <2> QED
    BY <2>1, <2>2
<1> QED
  BY <1>1, <1>3, <1>4, <1>a, ForwardIInv

LEMMA CloseIInv == ASSUME IInv, CloseService PROVE IInv'
<1> USE BoundAssumption
<1>1. Numbers'
  BY DEF IInv, Numbers, CloseService, None
<1>2. Together'
  BY DEF IInv, Numbers, Together, CloseService
<1>3. \A g \in Nat : Awaited(g)' => g = None \/ Awaited(g)
  BY DEF Awaited, CloseService
<1>4. Behind'
  BY <1>3 DEF IInv, Behind, Numbers, CloseService, None
<1>5. Fresh'
  BY DEF Fresh, CloseService
<1>6. MatchesAreCurrent'
  BY DEF IInv, MatchesAreCurrent, CloseService
<1> QED
  BY <1>1, <1>2, <1>4, <1>5, <1>6 DEF IInv

LEMMA WorkerIInv == ASSUME IInv, Worker PROVE IInv'
<1>a. UNCHANGED <<generation, expected, closed, open, subject, current, shown>>
  BY DEF Worker, TakeRequest, Scan, Decide, Deliver, barVars
<1>1. MatchesAreCurrent'
  BY <1>a DEF IInv, MatchesAreCurrent
<1>2. CASE TakeRequest
  <2>1. Numbers'
    BY <1>2, <1>a DEF TakeRequest, barVars, IInv, Numbers, None
  <2>2. \A g \in Nat : Awaited(g)' => g = None \/ Awaited(g)
    BY <1>2 DEF TakeRequest, barVars, Awaited
  <2> QED
    BY <2>1, <2>2, <1>1, <1>a, ForwardIInv
<1>3. CASE Scan
  <2>1. Numbers'
    BY <1>3, <1>a DEF Scan, barVars, IInv, Numbers
  <2>2. \A g \in Nat : Awaited(g)' => g = None \/ Awaited(g)
    BY <1>3 DEF Scan, barVars, Awaited
  <2> QED
    BY <2>1, <2>2, <1>1, <1>a, ForwardIInv
<1>4. CASE Decide
  <2>1. Numbers'
    BY <1>4, <1>a DEF Decide, barVars, IInv, Numbers, None
  <2>2. \A g \in Nat : Awaited(g)' => g = None \/ Awaited(g)
    BY <1>4 DEF Decide, barVars, Awaited
  <2> QED
    BY <2>1, <2>2, <1>1, <1>a, ForwardIInv
<1>5. CASE Deliver
  <2>a. signals \in Seq(Nat) /\ searching \in Nat /\ signals' = Append(signals, searching)
    BY <1>5 DEF Deliver, IInv, Numbers
  <2>1. Numbers'
    BY <1>5, <1>a, <2>a DEF Deliver, IInv, Numbers, None
  <2>2. \A i \in DOMAIN signals' : signals'[i] = searching \/ \E j \in DOMAIN signals : signals'[i] = signals[j]
    BY <2>a
  <2>3. \A g \in Nat : Awaited(g)' => g = None \/ Awaited(g)
    BY <1>5, <2>2 DEF Deliver, Awaited
  <2> QED
    BY <2>1, <2>3, <1>1, <1>a, ForwardIInv
<1> QED
  BY <1>2, <1>3, <1>4, <1>5 DEF Worker

LEMMA NextIInv == IInv /\ [Next]_vars => IInv'
<1> SUFFICES ASSUME IInv, [Next]_vars PROVE IInv'
  OBVIOUS
<1>1. ASSUME NEW s \in Subjects, Change(s) PROVE IInv'
  <2>1. current' \in Subjects /\ ScheduleRefresh(current', open) /\ open' = open
    BY <1>1 DEF Change
  <2>2. UNCHANGED <<signals, searching, closed, subject>>
    BY <1>1 DEF Change
  <2>3. closed => ~open
    BY DEF IInv, Together
  <2> QED
    BY <2>1, <2>2, <2>3, RefreshIInv
<1>2. CASE OpenFind
  <2>1. current' \in Subjects /\ ScheduleRefresh(current', TRUE) /\ open' = TRUE /\ ~closed
    BY <1>2 DEF OpenFind, IInv, Numbers
  <2>2. UNCHANGED <<signals, searching, closed, subject>>
    BY <1>2 DEF OpenFind
  <2> QED
    BY <2>1, <2>2, RefreshIInv
<1>3. CASE CloseBar
  <2>1. current' \in Subjects /\ ScheduleRefresh(current', FALSE) /\ open' = FALSE
    BY <1>3 DEF CloseBar, IInv, Numbers
  <2>2. UNCHANGED <<signals, searching, closed, subject>>
    BY <1>3 DEF CloseBar
  <2> QED
    BY <2>1, <2>2, RefreshIInv
<1>4. CASE UNCHANGED vars
  <2>1. UNCHANGED <<generation, expected, closed, open, subject, current, pending, searching, signals, shown>>
    BY <1>4 DEF vars, serviceVars, barVars
  <2>2. Numbers' /\ MatchesAreCurrent'
    BY <2>1 DEF IInv, Numbers, MatchesAreCurrent
  <2>3. \A g \in Nat : Awaited(g)' => g = None \/ Awaited(g)
    BY <2>1 DEF Awaited
  <2> QED
    BY <2>1, <2>2, <2>3, ForwardIInv
<1> QED
  BY <1>1, <1>2, <1>3, <1>4, SubmitIInv, ApplyIInv, CloseIInv, WorkerIInv DEF Next

(* The matches on the screen are always those of the text and the query on    *)
(* the screen, for every sequence of edits, cancellations and late signals.   *)
THEOREM ShownMatchesAreCurrent == Spec => []MatchesAreCurrent
<1>1. IInv => MatchesAreCurrent
  BY DEF IInv
<1> QED
  BY <1>1, InitIInv, NextIInv, PTL DEF Spec

-----------------------------------------------------------------------------
(* The type invariant.  That no older request waits in it needs the counting  *)
(* above: what is pending, searched for or signalled is never ahead.          *)

(* The numbers, the places and the flags, taken apart for the provers.        *)
Counted ==
    /\ generation \in Generations
    /\ pending \in {None, generation}
    /\ searching \in 0 .. generation
    /\ expected \in Generations
    /\ signals \in Seq(Generations)
Standing ==
    /\ step \in {"idle", "scanning", "found", "dropped", "delivering", "gone"}
    /\ subject \in [Generations -> Subjects]
    /\ current \in Subjects
    /\ shown \in Subjects \cup {Hidden}
Flags ==
    /\ closed \in BOOLEAN
    /\ open \in BOOLEAN
    /\ armed \in BOOLEAN
    /\ waiting \in BOOLEAN

LEMMA InitTypes == Init => Counted /\ Standing /\ Flags
<1> SUFFICES ASSUME Init PROVE Counted /\ Standing /\ Flags
  OBVIOUS
<1> USE BoundAssumption, SubjectAssumption
<1>1. Counted
  BY DEF Init, Counted, None, Generations
<1>2. Standing
  BY DEF Init, Standing
<1>3. Flags
  BY Zenon DEF Init, Flags
<1> QED
  BY <1>1, <1>2, <1>3

LEMMA CountedStep == ASSUME IInv, Counted, [Next]_vars PROVE Counted'
<1> USE BoundAssumption DEF Counted, None, Generations
<1>1. ASSUME NEW now, NEW isOpen, ScheduleRefresh(now, isOpen), UNCHANGED <<signals, searching>>
      PROVE  Counted'
  BY <1>1 DEF ScheduleRefresh, Cancel
<1>2. CASE \/ \E s \in Subjects : Change(s)
           \/ OpenFind
           \/ CloseBar
  BY <1>1, <1>2 DEF Change, OpenFind, CloseBar
<1>3. CASE SubmitSearch
  BY <1>3 DEF SubmitSearch
<1>4. CASE ApplySearchResult
  <2>1. signals' \in Seq(Generations)
    BY <1>4 DEF ApplySearchResult
  <2> QED
    BY <1>4, <2>1 DEF ApplySearchResult, serviceVars
<1>5. CASE CloseService
  BY <1>5 DEF CloseService
<1>6. CASE TakeRequest
  BY <1>6 DEF TakeRequest, barVars
<1>7. CASE Scan
  BY <1>7 DEF Scan, barVars
<1>8. CASE Decide
  BY <1>8 DEF Decide, barVars
<1>9. CASE Deliver
  <2>1. signals' \in Seq(Generations)
    BY <1>9 DEF Deliver
  <2> QED
    BY <1>9, <2>1 DEF Deliver
<1>10. CASE UNCHANGED vars
  BY <1>10 DEF vars, serviceVars, barVars
<1> QED
  BY <1>2, <1>3, <1>4, <1>5, <1>6, <1>7, <1>8, <1>9, <1>10 DEF Next, Worker

LEMMA StandingStep == ASSUME Standing, Counted, [Next]_vars PROVE Standing'
<1> USE DEF Standing
<1>1. CASE \/ \E s \in Subjects : Change(s)
           \/ OpenFind
           \/ CloseBar
  BY <1>1 DEF Change, OpenFind, CloseBar, ScheduleRefresh
<1>2. CASE SubmitSearch
  BY <1>2 DEF SubmitSearch
<1>3. CASE ApplySearchResult
  <2>1. Head(signals) \in Generations
    BY <1>3 DEF ApplySearchResult, Counted
  <2>2. subject[Head(signals)] \in Subjects
    BY <2>1
  <2> QED
    BY <1>3, <2>2 DEF ApplySearchResult, serviceVars
<1>4. CASE CloseService
  BY <1>4 DEF CloseService
<1>5. CASE Worker
  BY <1>5 DEF Worker, TakeRequest, Scan, Decide, Deliver, barVars
<1>6. CASE UNCHANGED vars
  BY <1>6 DEF vars, serviceVars, barVars
<1> QED
  BY <1>1, <1>2, <1>3, <1>4, <1>5, <1>6 DEF Next

LEMMA FlagsStep == ASSUME Flags, [Next]_vars PROVE Flags'
<1>1. ASSUME NEW s \in Subjects, Change(s) PROVE Flags'
  BY <1>1, Zenon DEF Change, ScheduleRefresh, Flags
<1>2. CASE OpenFind
  BY <1>2, Zenon DEF OpenFind, ScheduleRefresh, Flags
<1>3. CASE CloseBar
  BY <1>3, Zenon DEF CloseBar, ScheduleRefresh, Flags
<1>4. CASE SubmitSearch
  BY <1>4, Zenon DEF SubmitSearch, Flags
<1>5. CASE ApplySearchResult
  BY <1>5, Zenon DEF ApplySearchResult, serviceVars, Flags
<1>6. CASE CloseService
  BY <1>6, Zenon DEF CloseService, Flags
<1>7. CASE Worker
  BY <1>7, Zenon DEF Worker, TakeRequest, Scan, Decide, Deliver, barVars, Flags
<1>8. CASE UNCHANGED vars
  BY <1>8, Zenon DEF vars, serviceVars, barVars, Flags
<1> QED
  BY <1>1, <1>2, <1>3, <1>4, <1>5, <1>6, <1>7, <1>8 DEF Next

(* Every variable keeps its values; what is pending is the newest request.    *)
THEOREM TypesAreKept == Spec => []TypeOK
<1>1. Counted /\ Standing /\ Flags => TypeOK
  BY DEF Counted, Standing, Flags, TypeOK
<1>2. IInv /\ (Counted /\ Standing /\ Flags) /\ [Next]_vars => (Counted /\ Standing /\ Flags)'
  BY CountedStep, StandingStep, FlagsStep
<1> QED
  BY <1>1, <1>2, InitIInv, InitTypes, NextIInv, PTL DEF Spec
=============================================================================
