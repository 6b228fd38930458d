---------------------------- MODULE ConverterProofs ----------------------------
(* Proofs about one conversion in its worker, for any number of stages, any   *)
(* bundles and any policy.                                                    *)
EXTENDS Converter, FiniteSetTheorems, SequenceTheorems, WellFoundedInduction, TLAPS

(* Where the pipeline is between two accepted artifacts, and before the first.*)
Underway == {"enter", "run", "check", "validate", "recheck", "accept"}
Starting == {"request", "canonical", "ready"}
Over == {"conclude", "send", "failed", "exited"}

WorkerTypes ==
    /\ at \in Starting \cup Underway \cup {"completed"} \cup Over
    /\ published \in 0 .. Stages
    /\ IsFiniteSet(diagnostics)
    /\ heardAt.published \in Nat

(* How far the pipeline can be where. *)
Counting ==
    /\ at \in Starting => published = 0
    /\ at \in Underway => published < Stages
    /\ at = "completed" => published > 0

(* A reason is collected exactly when the pipeline is left, but by its end.   *)
Honesty ==
    /\ at \in Starting \cup Underway \cup {"completed"} => diagnostics = {}
    /\ at = "conclude" =>
          /\ ending = "Converted" <=> diagnostics = {}
          /\ ending = "Converted" => published = Stages
          /\ ending = "Canceled" => token
    /\ result # NoneYet => at \in {"send", "failed", "exited"}
    /\ ResultIsHonest

(* What may still be published once the token was set.                        *)
Heeding ==
    /\ token => control = "heard"
    /\ token =>
          LET passed == IF heardAt.at = "accept" THEN 1 ELSE 0 IN
          /\ published <= heardAt.published + passed
          /\ heardAt.published + passed <= Stages
          /\ at = "accept" => heardAt.at = "accept" /\ published = heardAt.published

IInv == WorkerTypes /\ Counting /\ Honesty /\ Heeding

(* How much has been told where, unless an event could not be sent.           *)
Told ==
    IF at \in Starting THEN 0
    ELSE IF at = "enter" THEN 2 * published + 1
    ELSE IF at = "completed" THEN 2 * published
    ELSE 2 * published + 2

AnyEvent == {Story[i] : i \in 1 .. Len(Story)} \cup Ends
Telling ==
    /\ sent \in Seq(AnyEvent)
    /\ at = "conclude" => ending \in Statuses
    /\ at = "send" => result \in Statuses
    /\ at = "failed" => failing \in Classes
    /\ ~muted /\ at \in Starting \cup Underway \cup {"completed"} => Len(sent) = Told

-----------------------------------------------------------------------------
(* A collector that has room for one diagnostic is not empty after one.       *)
LEMMA KeptSomething ==
    ASSUME IsFiniteSet(diagnostics), NEW code
    PROVE  Kept(code) # {} /\ IsFiniteSet(Kept(code))
<1>1. CASE diagnostics = {}
  <2>1. Cardinality(diagnostics) = 0
    BY <1>1, FS_EmptySet
  <2>2. Cardinality(diagnostics) < MaxDiagnostics
    BY <2>1, WorkerAssumption
  <2>3. Kept(code) = diagnostics \cup {code}
    BY <2>2 DEF Kept
  <2>4. Kept(code) = {code}
    BY <1>1, <2>3
  <2> QED
    BY <2>4, FS_Singleton
<1>2. CASE diagnostics # {}
  <2>1. IsFiniteSet(diagnostics \cup {code})
    BY FS_AddElement
  <2>2. Kept(code) \in {diagnostics \cup {code}, diagnostics}
    BY DEF Kept
  <2> QED
    BY <1>2, <2>1, <2>2
<1> QED
  BY <1>1, <1>2

(* What the first four stages do in detail is, to the pipeline, one of the    *)
(* outcomes of a stage, or nothing.                                           *)
LEMMA StepIsWorkers == [Next]_vars => WorkerNext \/ UNCHANGED workerVars
<1> SUFFICES ASSUME [Next]_vars PROVE WorkerNext \/ UNCHANGED workerVars
  OBVIOUS
<1>1. ASSUME NEW stage, NEW fault, Frontend(stage, fault) PROVE WorkerNext
  BY <1>1 DEF Frontend, WorkerNext, Outcomes
<1>2. CASE SourceDocuments \/ Parse
  BY <1>1, <1>2 DEF SourceDocuments, Parse
<1>3. CASE Normalize
  BY <1>3 DEF Normalize, WorkerNext, Outcomes
<1>4. CASE Resolve
  BY <1>4 DEF Resolve
<1>5. CASE ResolveEnds
  BY <1>5 DEF ResolveEnds, WorkerNext, Outcomes
<1>6. CASE Translate
  <2>1. PICK outcome \in Outcomes : RunStage(outcome)
    BY <1>6 DEF Translate, Outcomes
  <2> QED
    BY <2>1 DEF WorkerNext
<1>7. CASE Around \/ CanonicalizeBundle
  BY <1>7 DEF CanonicalizeBundle, WorkerNext
<1>8. CASE Observe
  BY <1>8 DEF Observe, WorkerNext
<1>9. CASE Exited \/ UNCHANGED vars
  BY <1>9 DEF Exited, vars
<1> QED
  BY <1>2, <1>3, <1>4, <1>5, <1>6, <1>7, <1>8, <1>9 DEF Next, Convert

LEMMA InitIInv == Init => IInv
<1> SUFFICES ASSUME Init PROVE IInv
  OBVIOUS
<1>1. WorkerInit
  BY DEF Init
<1>2. WorkerTypes
  <2>1. IsFiniteSet(diagnostics)
    BY <1>1, FS_EmptySet DEF WorkerInit
  <2> QED
    BY <1>1, <2>1, WorkerAssumption DEF WorkerInit, WorkerTypes, Starting
<1>3. Counting /\ Heeding
  BY <1>1 DEF WorkerInit, Counting, Heeding, Starting, Underway
<1>4. Honesty
  BY <1>1 DEF WorkerInit, Honesty, ResultIsHonest, Starting, Underway, NoneYet
<1> QED
  BY <1>2, <1>3, <1>4 DEF IInv
-----------------------------------------------------------------------------
(* The four parts of the invariant, each kept by every action. *)

(* No count leaves its range. *)
LEMMA TypesKept == ASSUME IInv, WorkerNext PROVE WorkerTypes'
<1>a. WorkerTypes /\ Counting
  BY DEF IInv
<1>b. IsFiniteSet({"stage"}) /\ \A code : IsFiniteSet(Kept(code))
  BY <1>a, KeptSomething, FS_Singleton DEF WorkerTypes
<1>1. CASE ReceiveRequest
  BY <1>1, <1>a, <1>b, WorkerAssumption DEF ReceiveRequest, Fail, pipelineVars, cancelVars, Starting, Underway, Over, WorkerTypes, Counting
<1>2. CASE SendTerminal
  BY <1>2, <1>a, <1>b, WorkerAssumption DEF SendTerminal, Fail, pipelineVars, cancelVars, Starting, Underway, Over, WorkerTypes, Counting
<1>3. CASE SendFailure
  BY <1>3, <1>a, <1>b, WorkerAssumption DEF SendFailure, pipelineVars, cancelVars, Starting, Underway, Over, WorkerTypes, Counting
<1>4. CASE ReportReady
  BY <1>4, <1>a, <1>b, WorkerAssumption DEF ReportReady, Report, pipelineVars, cancelVars, Starting, Underway, Over, WorkerTypes, Counting
<1>5. CASE Enter
  BY <1>5, <1>a, <1>b, WorkerAssumption DEF Enter, Report, Return, pipelineVars, cancelVars, Starting, Underway, Over, WorkerTypes, Counting
<1>6. CASE Check
  BY <1>6, <1>a, <1>b, WorkerAssumption DEF Check, Return, pipelineVars, cancelVars, Starting, Underway, Over, WorkerTypes, Counting
<1>7. CASE Validate
  BY <1>7, <1>a, <1>b, WorkerAssumption DEF Validate, Return, Raised, pipelineVars, cancelVars, Starting, Underway, Over, WorkerTypes, Counting
<1>8. CASE Recheck
  BY <1>8, <1>a, <1>b, WorkerAssumption DEF Recheck, Return, pipelineVars, cancelVars, Starting, Underway, Over, WorkerTypes, Counting
<1>9. CASE Accept
  BY <1>9, <1>a, <1>b, WorkerAssumption DEF Accept, pipelineVars, cancelVars, Starting, Underway, Over, WorkerTypes, Counting
<1>10. CASE ReportCompleted
  BY <1>10, <1>a, <1>b, WorkerAssumption DEF ReportCompleted, Report, pipelineVars, cancelVars, Starting, Underway, Over, WorkerTypes, Counting
<1>11. CASE Conclude
  BY <1>11, <1>a, <1>b, WorkerAssumption DEF Conclude, Return, Raised, Fail, pipelineVars, cancelVars, Starting, Underway, Over, WorkerTypes, Counting
<1>12. CASE Canonicalize
  BY <1>12, <1>a, <1>b, WorkerAssumption DEF Canonicalize, pipelineVars, cancelVars, Starting, Underway, Over, WorkerTypes, Counting
<1>13. CASE SendCancel
  BY <1>13, <1>a, <1>b, WorkerAssumption DEF SendCancel, pipelineVars, cancelVars, Starting, Underway, Over, WorkerTypes, Counting
<1>14. CASE Listen
  BY <1>14, <1>a, <1>b, WorkerAssumption DEF Listen, pipelineVars, cancelVars, Starting, Underway, Over, WorkerTypes, Counting
<1>15. ASSUME NEW outcome \in Outcomes, RunStage(outcome) PROVE WorkerTypes'
  BY <1>15, <1>a, <1>b, WorkerAssumption DEF RunStage, Outcome, Outcomes, Return, Raised, pipelineVars, cancelVars, Starting, Underway, Over, WorkerTypes, Counting
<1> QED
  BY <1>1, <1>2, <1>3, <1>4, <1>5, <1>6, <1>7, <1>8, <1>9, <1>10, <1>11, <1>12, <1>13, <1>14, <1>15 DEF WorkerNext, Around

(* A stage is published only where one is left. *)
LEMMA CountingKept == ASSUME IInv, WorkerNext PROVE Counting'
<1>a. WorkerTypes /\ Counting
  BY DEF IInv
<1>1. CASE ReceiveRequest
  BY <1>1, <1>a, WorkerAssumption DEF ReceiveRequest, Fail, pipelineVars, cancelVars, Starting, Underway, WorkerTypes, Counting
<1>2. CASE SendTerminal
  BY <1>2, <1>a, WorkerAssumption DEF SendTerminal, Fail, pipelineVars, cancelVars, Starting, Underway, WorkerTypes, Counting
<1>3. CASE SendFailure
  BY <1>3, <1>a, WorkerAssumption DEF SendFailure, pipelineVars, cancelVars, Starting, Underway, WorkerTypes, Counting
<1>4. CASE ReportReady
  BY <1>4, <1>a, WorkerAssumption DEF ReportReady, Report, pipelineVars, cancelVars, Starting, Underway, WorkerTypes, Counting
<1>5. CASE Enter
  BY <1>5, <1>a, WorkerAssumption DEF Enter, Report, Return, pipelineVars, cancelVars, Starting, Underway, WorkerTypes, Counting
<1>6. CASE Check
  BY <1>6, <1>a, WorkerAssumption DEF Check, Return, pipelineVars, cancelVars, Starting, Underway, WorkerTypes, Counting
<1>7. CASE Validate
  BY <1>7, <1>a, WorkerAssumption DEF Validate, Return, Raised, pipelineVars, cancelVars, Starting, Underway, WorkerTypes, Counting
<1>8. CASE Recheck
  BY <1>8, <1>a, WorkerAssumption DEF Recheck, Return, pipelineVars, cancelVars, Starting, Underway, WorkerTypes, Counting
<1>9. CASE Accept
  BY <1>9, <1>a, WorkerAssumption DEF Accept, pipelineVars, cancelVars, Starting, Underway, WorkerTypes, Counting
<1>10. CASE ReportCompleted
  BY <1>10, <1>a, WorkerAssumption DEF ReportCompleted, Report, pipelineVars, cancelVars, Starting, Underway, WorkerTypes, Counting
<1>11. CASE Conclude
  BY <1>11, <1>a, WorkerAssumption DEF Conclude, Return, Raised, Fail, pipelineVars, cancelVars, Starting, Underway, WorkerTypes, Counting
<1>12. CASE Canonicalize
  BY <1>12, <1>a, WorkerAssumption DEF Canonicalize, pipelineVars, cancelVars, Starting, Underway, WorkerTypes, Counting
<1>13. CASE SendCancel
  BY <1>13, <1>a, WorkerAssumption DEF SendCancel, pipelineVars, cancelVars, Starting, Underway, WorkerTypes, Counting
<1>14. CASE Listen
  BY <1>14, <1>a, WorkerAssumption DEF Listen, pipelineVars, cancelVars, Starting, Underway, WorkerTypes, Counting
<1>15. ASSUME NEW outcome \in Outcomes, RunStage(outcome) PROVE Counting'
  BY <1>15, <1>a, WorkerAssumption DEF RunStage, Outcome, Outcomes, Return, Raised, pipelineVars, cancelVars, Starting, Underway, WorkerTypes, Counting
<1> QED
  BY <1>1, <1>2, <1>3, <1>4, <1>5, <1>6, <1>7, <1>8, <1>9, <1>10, <1>11, <1>12, <1>13, <1>14, <1>15 DEF WorkerNext, Around

(* Who leaves the pipeline early leaves a reason. *)
LEMMA HonestyKept == ASSUME IInv, WorkerNext PROVE Honesty'
<1>a. WorkerTypes /\ Counting /\ Honesty
  BY DEF IInv
<1>b. \A code : Kept(code) # {}
  BY <1>a, KeptSomething DEF WorkerTypes
<1>1. CASE ReceiveRequest
  BY <1>1, <1>a, <1>b DEF ReceiveRequest, Fail, pipelineVars, cancelVars, Starting, Underway, Honesty, ResultIsHonest, NoneYet
<1>2. CASE SendTerminal
  BY <1>2, <1>a, <1>b DEF SendTerminal, Fail, pipelineVars, cancelVars, Starting, Underway, Honesty, ResultIsHonest, NoneYet
<1>3. CASE SendFailure
  BY <1>3, <1>a, <1>b DEF SendFailure, pipelineVars, cancelVars, Starting, Underway, Honesty, ResultIsHonest, NoneYet
<1>4. CASE ReportReady
  BY <1>4, <1>a, <1>b DEF ReportReady, Report, pipelineVars, cancelVars, Starting, Underway, Honesty, ResultIsHonest, NoneYet
<1>5. CASE Enter
  BY <1>5, <1>a, <1>b DEF Enter, Report, Return, pipelineVars, cancelVars, Starting, Underway, Honesty, ResultIsHonest, NoneYet
<1>6. CASE Check
  BY <1>6, <1>a, <1>b DEF Check, Return, pipelineVars, cancelVars, Starting, Underway, Honesty, ResultIsHonest, NoneYet
<1>7. CASE Validate
  BY <1>7, <1>a, <1>b DEF Validate, Return, Raised, pipelineVars, cancelVars, Starting, Underway, Honesty, ResultIsHonest, NoneYet
<1>8. CASE Recheck
  BY <1>8, <1>a, <1>b DEF Recheck, Return, pipelineVars, cancelVars, Starting, Underway, Honesty, ResultIsHonest, NoneYet
<1>9. CASE Accept
  BY <1>9, <1>a, <1>b DEF Accept, pipelineVars, cancelVars, Starting, Underway, Honesty, ResultIsHonest, NoneYet
<1>10. CASE ReportCompleted
  BY <1>10, <1>a, <1>b DEF ReportCompleted, Report, pipelineVars, cancelVars, Starting, Underway, Honesty, ResultIsHonest, NoneYet
<1>11. CASE Conclude
  BY <1>11, <1>a, <1>b DEF Conclude, Return, Raised, Fail, pipelineVars, cancelVars, Starting, Underway, Honesty, ResultIsHonest, NoneYet
<1>12. CASE Canonicalize
  BY <1>12, <1>a, <1>b DEF Canonicalize, pipelineVars, cancelVars, Starting, Underway, Honesty, ResultIsHonest, NoneYet
<1>13. CASE SendCancel
  BY <1>13, <1>a, <1>b DEF SendCancel, pipelineVars, cancelVars, Starting, Underway, Honesty, ResultIsHonest, NoneYet
<1>14. CASE Listen
  BY <1>14, <1>a, <1>b DEF Listen, pipelineVars, cancelVars, Starting, Underway, Honesty, ResultIsHonest, NoneYet
<1>15. ASSUME NEW outcome \in Outcomes, RunStage(outcome) PROVE Honesty'
  BY <1>15, <1>a, <1>b DEF RunStage, Outcome, Outcomes, Return, Raised, pipelineVars, cancelVars, Starting, Underway, Honesty, ResultIsHonest, NoneYet
<1> QED
  BY <1>1, <1>2, <1>3, <1>4, <1>5, <1>6, <1>7, <1>8, <1>9, <1>10, <1>11, <1>12, <1>13, <1>14, <1>15 DEF WorkerNext, Around

(* Who has passed the last look at the token publishes one stage more. *)
LEMMA HeedingKept == ASSUME IInv, WorkerNext PROVE Heeding'
<1>a. WorkerTypes /\ Counting /\ Heeding
  BY DEF IInv
<1>1. CASE ReceiveRequest
  BY <1>1, <1>a, WorkerAssumption DEF ReceiveRequest, Fail, pipelineVars, cancelVars, Starting, Underway, WorkerTypes, Counting, Heeding
<1>2. CASE SendTerminal
  BY <1>2, <1>a, WorkerAssumption DEF SendTerminal, Fail, pipelineVars, cancelVars, Starting, Underway, WorkerTypes, Counting, Heeding
<1>3. CASE SendFailure
  BY <1>3, <1>a, WorkerAssumption DEF SendFailure, pipelineVars, cancelVars, Starting, Underway, WorkerTypes, Counting, Heeding
<1>4. CASE ReportReady
  BY <1>4, <1>a, WorkerAssumption DEF ReportReady, Report, pipelineVars, cancelVars, Starting, Underway, WorkerTypes, Counting, Heeding
<1>5. CASE Enter
  BY <1>5, <1>a, WorkerAssumption DEF Enter, Report, Return, pipelineVars, cancelVars, Starting, Underway, WorkerTypes, Counting, Heeding
<1>6. CASE Check
  BY <1>6, <1>a, WorkerAssumption DEF Check, Return, pipelineVars, cancelVars, Starting, Underway, WorkerTypes, Counting, Heeding
<1>7. CASE Validate
  BY <1>7, <1>a, WorkerAssumption DEF Validate, Return, Raised, pipelineVars, cancelVars, Starting, Underway, WorkerTypes, Counting, Heeding
<1>8. CASE Recheck
  BY <1>8, <1>a, WorkerAssumption DEF Recheck, Return, pipelineVars, cancelVars, Starting, Underway, WorkerTypes, Counting, Heeding
<1>9. CASE Accept
  BY <1>9, <1>a, WorkerAssumption DEF Accept, pipelineVars, cancelVars, Starting, Underway, WorkerTypes, Counting, Heeding
<1>10. CASE ReportCompleted
  BY <1>10, <1>a, WorkerAssumption DEF ReportCompleted, Report, pipelineVars, cancelVars, Starting, Underway, WorkerTypes, Counting, Heeding
<1>11. CASE Conclude
  BY <1>11, <1>a, WorkerAssumption DEF Conclude, Return, Raised, Fail, pipelineVars, cancelVars, Starting, Underway, WorkerTypes, Counting, Heeding
<1>12. CASE Canonicalize
  BY <1>12, <1>a, WorkerAssumption DEF Canonicalize, pipelineVars, cancelVars, Starting, Underway, WorkerTypes, Counting, Heeding
<1>13. CASE SendCancel
  BY <1>13, <1>a, WorkerAssumption DEF SendCancel, pipelineVars, cancelVars, Starting, Underway, WorkerTypes, Counting, Heeding
<1>14. CASE Listen
  BY <1>14, <1>a, WorkerAssumption DEF Listen, pipelineVars, cancelVars, Starting, Underway, WorkerTypes, Counting, Heeding
<1>15. ASSUME NEW outcome \in Outcomes, RunStage(outcome) PROVE Heeding'
  BY <1>15, <1>a, WorkerAssumption DEF RunStage, Outcome, Outcomes, Return, Raised, pipelineVars, cancelVars, Starting, Underway, WorkerTypes, Counting, Heeding
<1> QED
  BY <1>1, <1>2, <1>3, <1>4, <1>5, <1>6, <1>7, <1>8, <1>9, <1>10, <1>11, <1>12, <1>13, <1>14, <1>15 DEF WorkerNext, Around

-----------------------------------------------------------------------------
LEMMA NextIInv == IInv /\ [Next]_vars => IInv'
<1> SUFFICES ASSUME IInv, [Next]_vars PROVE IInv'
  OBVIOUS
<1>1. CASE WorkerNext
  BY <1>1, TypesKept, CountingKept, HonestyKept, HeedingKept DEF IInv
<1>2. CASE UNCHANGED workerVars
  BY <1>2 DEF workerVars, pipelineVars, cancelVars, IInv, WorkerTypes, Counting,
              Honesty, ResultIsHonest, Heeding
<1> QED
  BY <1>1, <1>2, StepIsWorkers

LEMMA IInvAlways == Spec => []IInv
<1>1. Init => IInv
  BY InitIInv
<1>2. IInv /\ [Next]_vars => IInv'
  BY NextIInv
<1> QED
  BY <1>1, <1>2, PTL DEF Spec

(* What the worker calls converted has every stage behind it and nothing      *)
(* reported; what it calls anything else has a reason, and what it calls      *)
(* canceled was: for pipelines of any length and collectors of any room       *)
(* (_result and add_diagnostic of converter/facade.py).                       *)
THEOREM ConvertedHonestly == Spec => []ResultIsHonest
<1>1. IInv => ResultIsHonest
  BY DEF IInv, Honesty
<1> QED
  BY <1>1, IInvAlways, PTL

(* A cancel command that is heard lets at most one stage more be published,   *)
(* the one that had passed its last look at the token, for pipelines of any   *)
(* length (convert() of converter/facade.py).                                 *)
THEOREM CanceledPromptly == Spec => []CancelIsHeeded
<1>1. IInv => CancelIsHeeded
  BY DEF IInv, WorkerTypes, Honesty, ResultIsHonest, Heeding, CancelIsHeeded, NoneYet
<1> QED
  BY <1>1, IInvAlways, PTL

-----------------------------------------------------------------------------
(* The refinement: the stages are told in the order of the story. *)

LEMMA StoryToldInOrder ==
    /\ Len(Story) = 2 * Stages + 1
    /\ Story[1] = Event("pipeline-ready", 0)
    /\ \A p \in 0 .. Stages - 1 :
          /\ Story[2 * p + 2] = Event("stage-entered", p + 1)
          /\ Story[2 * p + 3] = Event("stage-completed", p + 1)
<1> DEFINE stages == [k \in 1 .. 2 * Stages |->
             Event(IF k % 2 = 1 THEN "stage-entered" ELSE "stage-completed", (k + 1) \div 2)]
           first == <<Event("pipeline-ready", 0)>>
           all == {Event("pipeline-ready", 0)} \cup {stages[k] : k \in 1 .. 2 * Stages}
<1>0. Stages \in Nat /\ 2 * Stages \in Nat
  BY WorkerAssumption
<1>1. ASSUME NEW p \in 0 .. Stages - 1
      PROVE  /\ stages[2 * p + 1] = Event("stage-entered", p + 1)
             /\ stages[2 * p + 2] = Event("stage-completed", p + 1)
  <2>1. /\ 2 * p + 1 \in 1 .. 2 * Stages /\ (2 * p + 1) % 2 = 1 /\ (2 * p + 1 + 1) \div 2 = p + 1
        /\ 2 * p + 2 \in 1 .. 2 * Stages /\ (2 * p + 2) % 2 = 0 /\ (2 * p + 2 + 1) \div 2 = p + 1
    BY <1>0
  <2> QED
    BY <2>1
<1>2. DOMAIN stages = 1 .. 2 * Stages
  OBVIOUS
<1>3. first[1] = Event("pipeline-ready", 0) /\ Len(first) = 1
  OBVIOUS
<1>4. Story = first \o stages
  BY DEF Story
<1>5. first \in Seq(all)
  OBVIOUS
<1>6. stages \in Seq(all) /\ Len(stages) = 2 * Stages
  <2>1. stages \in [1 .. 2 * Stages -> all]
    OBVIOUS
  <2> HIDE DEF stages, all
  <2> QED
    BY <1>0, <1>2, <2>1
<1> HIDE DEF stages, first, all
<1>7. /\ Len(Story) = 2 * Stages + 1
      /\ \A i \in 1 .. Len(Story) : Story[i] = IF i <= 1 THEN first[i] ELSE stages[i - 1]
  <2>1. /\ Len(first \o stages) = Len(first) + Len(stages)
        /\ \A i \in 1 .. Len(first) + Len(stages) :
              (first \o stages)[i] = IF i <= Len(first) THEN first[i] ELSE stages[i - Len(first)]
    BY <1>5, <1>6, ConcatProperties, Zenon
  <2>2. Len(first \o stages) = 2 * Stages + 1
    BY <1>0, <1>3, <1>6, <2>1
  <2>3. \A i \in 1 .. Len(Story) : Story[i] = IF i <= Len(first) THEN first[i] ELSE stages[i - Len(first)]
    BY <1>0, <1>4, <2>1, <2>2, <1>3, <1>6
  <2> QED
    BY <1>3, <1>4, <2>2, <2>3
<1>8. Story[1] = first[1]
  BY <1>0, <1>7
<1>9. ASSUME NEW p \in 0 .. Stages - 1
      PROVE  Story[2 * p + 2] = stages[2 * p + 1] /\ Story[2 * p + 3] = stages[2 * p + 2]
  BY <1>0, <1>7
<1> QED
  BY <1>1, <1>3, <1>7, <1>8, <1>9

(* What is reported where the pipeline reports is the story's next event.     *)
LEMMA ReportIsNext ==
    ASSUME IInv, Telling, NEW event, Report(event),
           \/ at = "ready" /\ event = Event("pipeline-ready", 0)
           \/ at = "enter" /\ event = Event("stage-entered", published + 1)
           \/ at = "completed" /\ event = Event("stage-completed", published)
    PROVE  /\ sent' \in Seq(AnyEvent)
           /\ \/ sent' = sent /\ muted'
              \/ /\ Len(sent) = Told /\ Len(sent) < Len(Story)
                 /\ sent' = Append(sent, Story[Len(sent) + 1])
                 /\ Len(sent') = Told + 1
<1>1. /\ WorkerTypes /\ Counting /\ sent \in Seq(AnyEvent) /\ Stages \in Nat
      /\ published \in Nat
  BY WorkerAssumption DEF IInv, Telling, WorkerTypes
<1>2. CASE muted'
  <2>1. sent' = sent
    BY <1>2 DEF Report
  <2> QED
    BY <1>1, <1>2, <2>1
<1>3. CASE ~muted'
  <2>1. ~muted /\ sent' = Append(sent, event)
    BY <1>3 DEF Report
  <2>2. Len(sent) = Told
    BY <2>1 DEF Telling, Starting, Underway
  <2>3. /\ Told \in Nat /\ Told < Len(Story) /\ event = Story[Told + 1]
    <3>1. CASE at = "ready"
      <4>1. Told = 0
        BY <3>1 DEF Told, Starting
      <4> QED
        BY <1>1, <3>1, <4>1, StoryToldInOrder
    <3>2. CASE at = "enter"
      <4>1. Told = 2 * published + 1 /\ published \in 0 .. Stages - 1
        BY <1>1, <3>2 DEF Told, Starting, Underway, WorkerTypes, Counting
      <4>2. event = Story[2 * published + 2]
        BY <3>2, <4>1, StoryToldInOrder
      <4> QED
        BY <1>1, <4>1, <4>2, StoryToldInOrder
    <3>3. CASE at = "completed"
      <4>1. Told = 2 * published /\ published - 1 \in 0 .. Stages - 1
        BY <1>1, <3>3 DEF Told, Starting, WorkerTypes, Counting
      <4>2. Story[2 * (published - 1) + 3] = Event("stage-completed", (published - 1) + 1)
        BY <4>1, StoryToldInOrder
      <4>3. /\ 2 * (published - 1) + 3 = 2 * published + 1 /\ (published - 1) + 1 = published
        BY <1>1
      <4> QED
        BY <1>1, <3>3, <4>1, <4>2, <4>3, StoryToldInOrder
    <3> QED
      BY <3>1, <3>2, <3>3
  <2>4. event \in AnyEvent
    BY <2>3 DEF AnyEvent
  <2>5. Append(sent, event) \in Seq(AnyEvent) /\ Len(Append(sent, event)) = Len(sent) + 1
    BY <1>1, <2>4, AppendProperties
  <2> QED
    BY <2>1, <2>2, <2>3, <2>5
<1> QED
  BY <1>2, <1>3

(* The steps that say nothing, the steps that tell, and the last.             *)
LEMMA TellingKept == ASSUME IInv, Telling, WorkerNext PROVE Telling'
<1>a. /\ WorkerTypes /\ Counting /\ Telling /\ Stages \in Nat
      /\ at = "conclude" => ending \in Statuses
  BY WorkerAssumption DEF IInv, Telling
<1>1. CASE ReceiveRequest
  BY <1>1, <1>a DEF ReceiveRequest, Fail, pipelineVars, cancelVars, Starting, Underway, WorkerTypes, Counting, Telling, Told, Statuses, Classes
<1>2. CASE SendTerminal
  <2>1. Event("result", result) \in AnyEvent
    BY <1>2, <1>a DEF SendTerminal, Telling, AnyEvent, Ends
  <2>2. Append(sent, Event("result", result)) \in Seq(AnyEvent)
    BY <1>a, <2>1, AppendProperties DEF Telling
  <2> QED
    BY <1>2, <1>a, <2>2 DEF SendTerminal, Fail, pipelineVars, cancelVars, Starting, Underway, WorkerTypes, Counting, Telling, Told, Statuses, Classes
<1>3. CASE SendFailure
  <2>1. Event("failure", failing) \in AnyEvent
    BY <1>3, <1>a DEF SendFailure, Telling, AnyEvent, Ends
  <2>2. Append(sent, Event("failure", failing)) \in Seq(AnyEvent)
    BY <1>a, <2>1, AppendProperties DEF Telling
  <2> QED
    BY <1>3, <1>a, <2>2 DEF SendFailure, pipelineVars, cancelVars, Starting, Underway, WorkerTypes, Counting, Telling, Told, Statuses, Classes
<1>4. CASE ReportReady
  <2>1. /\ sent' \in Seq(AnyEvent)
        /\ muted' \/ Len(sent') = Told + 1
    BY <1>4, ReportIsNext DEF ReportReady
  <2>2. AnyEvent' = AnyEvent
    BY DEF AnyEvent
  <2> QED
    BY <1>4, <1>a, <2>1, <2>2 DEF ReportReady, pipelineVars, cancelVars, Starting, Underway, WorkerTypes, Counting, Telling, Told, Statuses, Classes
<1>5. CASE Enter
  <2>1. /\ sent' \in Seq(AnyEvent)
        /\ muted' \/ Len(sent') = Told + 1
    BY <1>5, ReportIsNext DEF Enter
  <2>2. AnyEvent' = AnyEvent
    BY DEF AnyEvent
  <2> QED
    BY <1>5, <1>a, <2>1, <2>2 DEF Enter, Return, pipelineVars, cancelVars, Starting, Underway, WorkerTypes, Counting, Telling, Told, Statuses, Classes
<1>6. CASE Check
  BY <1>6, <1>a DEF Check, Return, pipelineVars, cancelVars, Starting, Underway, WorkerTypes, Counting, Telling, Told, Statuses, Classes
<1>7. CASE Validate
  BY <1>7, <1>a DEF Validate, Return, Raised, pipelineVars, cancelVars, Starting, Underway, WorkerTypes, Counting, Telling, Told, Statuses, Classes
<1>8. CASE Recheck
  BY <1>8, <1>a DEF Recheck, Return, pipelineVars, cancelVars, Starting, Underway, WorkerTypes, Counting, Telling, Told, Statuses, Classes
<1>9. CASE Accept
  BY <1>9, <1>a DEF Accept, pipelineVars, cancelVars, Starting, Underway, WorkerTypes, Counting, Telling, Told, Statuses, Classes
<1>10. CASE ReportCompleted
  <2>1. /\ sent' \in Seq(AnyEvent)
        /\ muted' \/ Len(sent') = Told + 1
    BY <1>10, ReportIsNext DEF ReportCompleted
  <2>2. AnyEvent' = AnyEvent
    BY DEF AnyEvent
  <2> QED
    BY <1>10, <1>a, <2>1, <2>2 DEF ReportCompleted, pipelineVars, cancelVars, Starting, Underway, WorkerTypes, Counting, Telling, Told, Statuses, Classes
<1>11. CASE Conclude
  BY <1>11, <1>a DEF Conclude, Return, Raised, Fail, pipelineVars, cancelVars, Starting, Underway, WorkerTypes, Counting, Telling, Told, Statuses, Classes
<1>12. CASE Canonicalize
  BY <1>12, <1>a DEF Canonicalize, pipelineVars, cancelVars, Starting, Underway, WorkerTypes, Counting, Telling, Told, Statuses, Classes
<1>13. CASE SendCancel
  BY <1>13, <1>a DEF SendCancel, pipelineVars, cancelVars, Starting, Underway, WorkerTypes, Counting, Telling, Told, Statuses, Classes
<1>14. CASE Listen
  BY <1>14, <1>a DEF Listen, pipelineVars, cancelVars, Starting, Underway, WorkerTypes, Counting, Telling, Told, Statuses, Classes
<1>15. ASSUME NEW outcome \in Outcomes, RunStage(outcome) PROVE Telling'
  BY <1>15, <1>a DEF RunStage, Outcome, Outcomes, Return, Raised, pipelineVars, cancelVars, Starting, Underway, WorkerTypes, Counting, Telling, Told, Statuses, Classes
<1> QED
  BY <1>1, <1>2, <1>3, <1>4, <1>5, <1>6, <1>7, <1>8, <1>9, <1>10, <1>11, <1>12, <1>13, <1>14, <1>15 DEF WorkerNext, Around

LEMMA StepTells == ASSUME IInv, Telling, WorkerNext PROVE [Stream!Next]_(Stream!vars)
<1>a. ASSUME at # "exited", at' # "exited", sent' = sent PROVE UNCHANGED Stream!vars
  BY <1>a DEF Stream!vars
<1>b. ASSUME at # "exited", at' # "exited", Len(sent) < Len(Story),
             sent' = Append(sent, Story[Len(sent) + 1])
      PROVE  Stream!Next
  BY <1>b DEF Stream!Next, Stream!Tell
<1>c. ASSUME at # "exited", at' = "exited",
             sent' = sent \/ \E e \in Ends : sent' = Append(sent, e)
      PROVE  Stream!Next
  BY <1>c DEF Stream!Next, Stream!Finish
<1>1. CASE ReceiveRequest
  BY <1>1, <1>a DEF ReceiveRequest, Fail
<1>2. CASE SendTerminal
  <2>1. Event("result", result) \in Ends
    BY <1>2 DEF SendTerminal, Telling, Ends
  <2>2. \/ at' = "exited" /\ (sent' = sent \/ sent' = Append(sent, Event("result", result)))
        \/ at' # "exited" /\ sent' = sent
    BY <1>2 DEF SendTerminal, Fail
  <2>3. at # "exited"
    BY <1>2 DEF SendTerminal
  <2> QED
    BY <1>a, <1>c, <2>1, <2>2, <2>3
<1>3. CASE SendFailure
  <2>1. Event("failure", failing) \in Ends
    BY <1>3 DEF SendFailure, Telling, Ends
  <2>2. \/ at' = "exited" /\ (sent' = sent \/ sent' = Append(sent, Event("failure", failing)))
        \/ at' # "exited" /\ sent' = sent
    BY <1>3 DEF SendFailure
  <2>3. at # "exited"
    BY <1>3 DEF SendFailure
  <2> QED
    BY <1>a, <1>c, <2>1, <2>2, <2>3
<1>4. CASE ReportReady
  <2>1. at # "exited" /\ at' # "exited"
    BY <1>4 DEF ReportReady
  <2>2. sent' = sent \/ (Len(sent) < Len(Story) /\ sent' = Append(sent, Story[Len(sent) + 1]))
    BY <1>4, ReportIsNext DEF ReportReady
  <2> QED
    BY <1>a, <1>b, <2>1, <2>2
<1>5. CASE Enter
  <2>1. at # "exited" /\ at' # "exited"
    BY <1>5 DEF Enter, Return
  <2>2. sent' = sent \/ (Len(sent) < Len(Story) /\ sent' = Append(sent, Story[Len(sent) + 1]))
    BY <1>5, ReportIsNext DEF Enter
  <2> QED
    BY <1>a, <1>b, <2>1, <2>2
<1>6. CASE Check
  BY <1>6, <1>a DEF Check, Return
<1>7. CASE Validate
  BY <1>7, <1>a DEF Validate, Return, Raised
<1>8. CASE Recheck
  BY <1>8, <1>a DEF Recheck, Return
<1>9. CASE Accept
  BY <1>9, <1>a DEF Accept
<1>10. CASE ReportCompleted
  <2>1. at # "exited" /\ at' # "exited"
    BY <1>10 DEF ReportCompleted
  <2>2. sent' = sent \/ (Len(sent) < Len(Story) /\ sent' = Append(sent, Story[Len(sent) + 1]))
    BY <1>10, ReportIsNext DEF ReportCompleted
  <2> QED
    BY <1>a, <1>b, <2>1, <2>2
<1>11. CASE Conclude
  BY <1>11, <1>a DEF Conclude, Return, Raised, Fail
<1>12. CASE Canonicalize
  BY <1>12, <1>a DEF Canonicalize
<1>13. CASE SendCancel
  BY <1>13 DEF SendCancel, Stream!vars
<1>14. CASE Listen
  BY <1>14 DEF Listen, Stream!vars
<1>15. ASSUME NEW outcome \in Outcomes, RunStage(outcome) PROVE [Stream!Next]_(Stream!vars)
  BY <1>15, <1>a DEF RunStage, Outcome, Outcomes, Return, Raised
<1> QED
  BY <1>1, <1>2, <1>3, <1>4, <1>5, <1>6, <1>7, <1>8, <1>9, <1>10, <1>11, <1>12, <1>13, <1>14, <1>15 DEF WorkerNext, Around

(* The safety part of StreamIsTold: whatever the number of stages, the pipe   *)
(* carries the story in order and without a gap, at most one end, and nothing *)
(* after it (report_progress of converter/facade.py, worker_main of           *)
(* ide/process_worker.py). That it ends is liveness.                          *)
THEOREM StreamToldInOrder == Spec => Stream!Init /\ [][Stream!Next]_(Stream!vars)
<1>1. Init => Stream!Init /\ Telling
  <2> SUFFICES ASSUME Init PROVE Stream!Init /\ Telling
    OBVIOUS
  <2>1. WorkerInit
    BY DEF Init
  <2> QED
    BY <2>1 DEF WorkerInit, Stream!Init, Telling, Told, Starting
<1>2. IInv /\ Telling /\ [Next]_vars => Telling' /\ [Stream!Next]_(Stream!vars)
  <2> SUFFICES ASSUME IInv, Telling, [Next]_vars
               PROVE  Telling' /\ [Stream!Next]_(Stream!vars)
    OBVIOUS
  <2>1. CASE WorkerNext
    BY <2>1, TellingKept, StepTells
  <2>2. CASE UNCHANGED workerVars
    BY <2>2 DEF workerVars, pipelineVars, cancelVars, Telling, Told, AnyEvent, Stream!vars
  <2> QED
    BY <2>1, <2>2, StepIsWorkers
<1> QED
  BY <1>1, <1>2, IInvAlways, PTL DEF Spec
-----------------------------------------------------------------------------
(* ModuleResolution: the order in which the modules are laid out.            *)

Modules == Resolver!Modules
Needs(m) == Resolver!DependsOn(m)
LaidOut == {order[i] : i \in DOMAIN order}

Examining == {"shape", "imports", "uses", "deferred"}
BundleTypes ==
    /\ bundle \in {input.bundle : input \in Inputs}
    /\ phase \in Examining \cup {"count", "order", "done"}
    /\ position \in 0 .. Len(Listing)
    /\ order \in Seq(Modules)
    /\ phase \in Examining \cup {"count"} => order = <<>>
    /\ phase = "count" => position = 0

(* Once the imports are resolved every module imports from the bundle only.  *)
TargetsKnown ==
    /\ phase = "imports" => \A i \in 1 .. position : Needs(Listing[i]) \subseteq Modules
    /\ phase \in {"uses", "deferred", "order"} => \A m \in Modules : Needs(m) \subseteq Modules

(* What is laid out is laid out once, and after what it imports.             *)
OrderOK ==
    /\ \A i, j \in DOMAIN order : order[i] = order[j] => i = j
    /\ \A i \in DOMAIN order : \A d \in Needs(order[i]) : \E j \in 1 .. i - 1 : order[j] = d

(* A module waits for its imports that are not laid out yet.                 *)
WaitingOK ==
    phase = "order" =>
        /\ dependencies = [m \in Modules |-> Needs(m) \ LaidOut]
        /\ ready = {m \in Modules : m \notin LaidOut /\ Needs(m) \subseteq LaidOut}

VerdictOK ==
    /\ phase # "done" => verdict.code = "none"
    /\ verdict.code = "published" => Len(order) = Cardinality(Modules)
    /\ verdict.code = "PYC3507" => verdict.module \in Resolver!OnCycle

LayoutInv == BundleTypes /\ TargetsKnown /\ OrderOK /\ WaitingOK /\ VerdictOK

LEMMA ModulesAreNumbers ==
    /\ Modules \subseteq Nat /\ IsFiniteSet(Modules) /\ Modules # {}
    /\ Cardinality(Modules) = Len(Listing)
<1>1. Listing \in Seq(Nat) /\ Listing # <<>>
  BY ModulesAssumption
<1>2. Len(Listing) \in Nat /\ DOMAIN Listing = 1 .. Len(Listing) /\ DOMAIN Listing # {}
  BY <1>1, SMT
<1>3. Modules = {Listing[i] : i \in 1 .. Len(Listing)}
  BY <1>2 DEF Modules, Resolver!Modules
<1>4. Listing \in Bijection(1 .. Len(Listing), Modules)
  <2>1. Listing \in [1 .. Len(Listing) -> Modules]
    BY <1>1, <1>2, <1>3, SMT
  <2>2. \A i, j \in 1 .. Len(Listing) : Listing[i] = Listing[j] => i = j
    BY <1>2, ModulesAssumption
  <2>3. \A m \in Modules : \E i \in 1 .. Len(Listing) : Listing[i] = m
    BY <1>3
  <2>4. QED
    BY <2>1, <2>2, <2>3 DEF Bijection, Injection, Surjection, IsInjective
<1>5. IsFiniteSet(1 .. Len(Listing)) /\ Cardinality(1 .. Len(Listing)) = Len(Listing)
  <2> DEFINE n == Len(Listing)
  <2>1. n \in Nat
    BY <1>2
  <2> HIDE DEF n
  <2>2. IsFiniteSet(1 .. n) /\ Cardinality(1 .. n) = IF 1 > n THEN 0 ELSE n - 1 + 1
    BY <2>1, FS_Interval
  <2>3. (IF 1 > n THEN 0 ELSE n - 1 + 1) = n
    BY <2>1, SMT
  <2>4. QED
    BY <2>2, <2>3 DEF n
<1>6. IsFiniteSet(Modules) /\ Cardinality(Modules) = Len(Listing)
  BY <1>4, <1>5, FS_Bijection DEF ExistsBijection
<1>7. Modules \subseteq Nat /\ Modules # {}
  BY <1>1, <1>2, <1>3, SMT
<1>8. QED
  BY <1>6, <1>7

(* A set of numbers has a least element.                                     *)
LEMMA SmallestIsIn ==
    ASSUME NEW S \in SUBSET Nat, S # {}
    PROVE  \E x \in S : \A y \in S : x <= y
<1> DEFINE Less == {p \in Nat \X Nat : p[1] < p[2]}
<1>1. IsWellFoundedOn(Less, Nat)
  BY NatLessThanWellFounded, Zenon DEF OpToRel
<1>2. PICK x \in S : \A y \in S : ~ (<<y, x>> \in Less)
  <2> HIDE DEF Less
  <2>1. QED
    BY <1>1, WFMin, Zenon
<1>3. ASSUME NEW y \in S PROVE x <= y
  <2>1. <<y, x>> \in Nat \X Nat /\ <<y, x>>[1] = y /\ <<y, x>>[2] = x
    BY SMT
  <2>2. <<y, x>> \in Less <=> <<y, x>>[1] < <<y, x>>[2]
    BY <2>1, Zenon
  <2>3. ~ (y < x)
    BY <1>2, <2>1, <2>2
  <2>4. QED
    BY <2>3, SMT
<1>4. QED
  BY <1>3

LEMMA LeastIsIn ==
    ASSUME NEW S \in SUBSET Nat, S # {}
    PROVE  Resolver!Least(S) \in S
BY SmallestIsIn, Zenon DEF Resolver!Least

-----------------------------------------------------------------------------
(* Cycles of imports.                                                        *)

(* What a module reaches through one import or more.                         *)
Reaches(m) ==
    {n \in Modules : \A S \in SUBSET Modules : Needs(m) \subseteq S /\ Resolver!Closed(S) => n \in S}

LEMMA ReachesFacts ==
    ASSUME \A m \in Modules : Needs(m) \subseteq Modules, NEW m \in Modules
    PROVE  /\ Needs(m) \subseteq Reaches(m) /\ Resolver!Closed(Reaches(m))
           /\ Reaches(m) \in SUBSET Modules
           /\ m \in Resolver!OnCycle <=> m \in Reaches(m)
<1>1. Needs(m) \subseteq Reaches(m)
  BY DEF Reaches
<1>2. ASSUME NEW n \in Reaches(m), NEW d \in Needs(n) PROVE d \in Reaches(m)
  BY <1>2 DEF Reaches, Resolver!Closed, Needs
<1>3. QED
  BY <1>1, <1>2 DEF Reaches, Needs, Modules, Resolver!Closed, Resolver!OnCycle

(* Modules each of which waits for another of them hold a cycle: one that    *)
(* reaches as few modules as any of them is reached by what it waits for.    *)
LEMMA StuckMeansCycle ==
    ASSUME \A m \in Modules : Needs(m) \subseteq Modules,
           NEW R \in SUBSET Modules, R # {}, \A m \in R : Needs(m) \cap R # {}
    PROVE  Resolver!OnCycle # {}
<1> DEFINE Sizes == {Cardinality(Reaches(m)) : m \in R}
<1>1. ASSUME NEW m \in R
      PROVE  /\ Reaches(m) \in SUBSET Modules /\ IsFiniteSet(Reaches(m))
             /\ Cardinality(Reaches(m)) \in Nat
  BY ReachesFacts, ModulesAreNumbers, FS_Subset, FS_CardinalityType
<1>2. Sizes \in SUBSET Nat /\ Sizes # {}
  BY <1>1
<1>3. PICK m \in R : \A n \in R : Cardinality(Reaches(m)) <= Cardinality(Reaches(n))
  <2>1. PICK s \in Sizes : \A t \in Sizes : s <= t
    <3> HIDE DEF Sizes
    <3>1. QED
      BY <1>2, SmallestIsIn
  <2>2. QED
    BY <2>1
<1>4. PICK d \in R : d \in Needs(m)
  OBVIOUS
<1>5. d \in Reaches(m) /\ Resolver!Closed(Reaches(m)) /\ Needs(d) \subseteq Reaches(m)
  BY <1>4, ReachesFacts DEF Resolver!Closed, Needs
<1>6. Reaches(d) \subseteq Reaches(m)
  BY <1>1, <1>5 DEF Reaches
<1>7. Reaches(d) = Reaches(m)
  <2>1. Cardinality(Reaches(d)) <= Cardinality(Reaches(m))
    BY <1>1, <1>6, FS_Subset
  <2>2. Cardinality(Reaches(d)) = Cardinality(Reaches(m))
    BY <1>1, <1>3, <2>1, SMT
  <2>3. QED
    BY <1>1, <1>6, <2>2, FS_Subset
<1>8. d \in Resolver!OnCycle
  BY <1>5, <1>7, ReachesFacts
<1>9. QED
  BY <1>8

(* Where every module is laid out after its imports there is no cycle.       *)
LEMMA LaidOutMeansNone ==
    ASSUME order \in Seq(Modules), OrderOK, LaidOut = Modules
    PROVE  Resolver!OnCycle = {}
<1> SUFFICES ASSUME NEW m \in Resolver!OnCycle PROVE FALSE
  OBVIOUS
<1>1. DOMAIN order = 1 .. Len(order) /\ Len(order) \in Nat
  BY SMT
<1>2. PICK i \in DOMAIN order : order[i] = m
  BY DEF LaidOut, Resolver!OnCycle, Modules
<1> DEFINE S == {order[j] : j \in 1 .. i - 1}
<1>3. \A j \in 1 .. i - 1 : j \in DOMAIN order /\ \A l \in 1 .. j - 1 : l \in 1 .. i - 1
  BY <1>1, SMT
<1>4. S \in SUBSET Modules
  BY <1>3 DEF LaidOut
<1>5. Needs(m) \subseteq S
  BY <1>2 DEF OrderOK
<1>6. Resolver!Closed(S)
  BY <1>3 DEF OrderOK, Resolver!Closed, Needs
<1>7. m \in S
  BY <1>4, <1>5, <1>6 DEF Resolver!OnCycle, Needs, Modules
<1>8. PICK j \in 1 .. i - 1 : order[j] = m
  BY <1>7
<1>9. j = i
  BY <1>2, <1>3, <1>8 DEF OrderOK
<1>10. QED
  BY <1>1, <1>8, <1>9, SMT
-----------------------------------------------------------------------------
(* What a fault says about the module it is found in.                        *)

LEMMA ListingFacts ==
    /\ DOMAIN Listing = 1 .. Len(Listing) /\ Len(Listing) \in Nat \ {0}
    /\ \A i \in 1 .. Len(Listing) : Listing[i] \in Modules
    /\ \A m \in Modules : \E i \in 1 .. Len(Listing) : Listing[i] = m
<1>1. Listing \in Seq(Nat) /\ Listing # <<>>
  BY ModulesAssumption
<1>2. DOMAIN Listing = 1 .. Len(Listing) /\ Len(Listing) \in Nat \ {0}
  BY <1>1, SMT
<1>3. QED
  BY <1>2 DEF Modules, Resolver!Modules

LEMMA StatementsAreCounted ==
    ASSUME BundleTypes, NEW m \in Modules
    PROVE  DOMAIN bundle[m] \subseteq Nat
<1>1. PICK input \in Inputs : bundle = input.bundle
  BY DEF BundleTypes
<1>2. PICK i \in DOMAIN Listing : Listing[i] = m
  BY ListingFacts
<1>3. QED
  BY <1>1, <1>2, ModulesAssumption

Harmless(code) == code \notin {"none", "published", "PYC3507"}

(* An import that is resolved is from the bundle; PYC3507 is said of one of  *)
(* a module by itself.                                                       *)
LEMMA ImportFaults ==
    ASSUME NEW m, NEW i
    PROVE  \/ Resolver!ImportFault(m, i) = "none" /\ bundle[m][i].target \in Modules
           \/ Resolver!ImportFault(m, i) = "PYC3507" /\ bundle[m][i].target = m
           \/ Harmless(Resolver!ImportFault(m, i))
BY Zenon DEF Resolver!ImportFault, Harmless, Modules

LEMMA ResolveFaults ==
    ASSUME BundleTypes, NEW m \in Modules
    PROVE  \/ Resolver!ResolveFault(m) = "none" /\ Needs(m) \subseteq Modules
           \/ Resolver!ResolveFault(m) = "PYC3507" /\ m \in Needs(m)
           \/ Harmless(Resolver!ResolveFault(m))
<1> DEFINE wrong == {i \in Resolver!Imports(m) : Resolver!ImportFault(m, i) # "none"}
           first == CHOOSE i \in wrong : \A j \in wrong : i <= j
<1>1. wrong \in SUBSET Nat
  BY StatementsAreCounted DEF Resolver!Imports, Resolver!At
<1>2. CASE wrong = {}
  <2>1. Resolver!ResolveFault(m) = "none"
    BY <1>2 DEF Resolver!ResolveFault
  <2>2. ASSUME NEW i \in Resolver!Imports(m) PROVE bundle[m][i].target \in Modules
    <3>1. Resolver!ImportFault(m, i) = "none"
      BY <1>2
    <3>2. QED
      BY <3>1, ImportFaults DEF Harmless
  <2>3. QED
    BY <2>1, <2>2 DEF Needs, Resolver!DependsOn
<1>3. CASE wrong # {}
  <2>1. first \in wrong
    <3>1. \E i \in wrong : \A j \in wrong : i <= j
      <4> HIDE DEF wrong
      <4>1. QED
        BY <1>1, <1>3, SmallestIsIn
    <3>2. QED
      BY <3>1, Zenon
  <2>2. Resolver!ResolveFault(m) = Resolver!ImportFault(m, first)
    BY <1>3 DEF Resolver!ResolveFault
  <2>3. first \in Resolver!Imports(m) /\ Resolver!ImportFault(m, first) # "none"
    BY <2>1
  <2> HIDE DEF first
  <2>4. bundle[m][first].target \in Needs(m)
    BY <2>3 DEF Needs, Resolver!DependsOn
  <2>5. QED
    BY <2>2, <2>3, <2>4, ImportFaults
<1>4. QED
  BY <1>2, <1>3

LEMMA ShapeFaults ==
    ASSUME NEW m
    PROVE  Resolver!ShapeFault(m) = "none" \/ Harmless(Resolver!ShapeFault(m))
<1>1. ASSUME NEW i PROVE Resolver!StatementFault(m, i) = "none" \/ Harmless(Resolver!StatementFault(m, i))
  BY DEF Resolver!StatementFault, Harmless
<1>2. QED
  BY <1>1, Zenon DEF Resolver!ShapeFault, Harmless

LEMMA OtherFaults ==
    ASSUME NEW m, phase \in {"uses", "deferred"}
    PROVE  Resolver!Fault(m) = "none" \/ Harmless(Resolver!Fault(m))
BY DEF Resolver!Fault, Resolver!UsesFault, Harmless

(* The loops of analyze() go on over a module, or end with its fault.        *)
LEMMA Faults ==
    ASSUME BundleTypes, NEW m \in Modules, phase \in Examining
    PROVE  \/ Resolver!Fault(m) = "none" /\ (phase = "imports" => Needs(m) \subseteq Modules)
           \/ Resolver!Fault(m) = "PYC3507" /\ m \in Needs(m)
           \/ Harmless(Resolver!Fault(m))
<1>1. CASE phase = "shape"
  BY <1>1, ShapeFaults DEF Resolver!Fault
<1>2. CASE phase = "imports"
  BY <1>2, ResolveFaults DEF Resolver!Fault
<1>3. CASE phase \in {"uses", "deferred"}
  BY <1>3, OtherFaults
<1>4. QED
  BY <1>1, <1>2, <1>3 DEF Examining
-----------------------------------------------------------------------------
(* The steps of the analyzer.                                                *)

LEMMA BundleFixed ==
    ASSUME UNCHANGED bundle
    PROVE  (\A m : Needs(m)' = Needs(m)) /\ Resolver!OnCycle' = Resolver!OnCycle
<1>1. \A m : Needs(m)' = Needs(m)
  BY DEF Needs, Resolver!DependsOn, Resolver!Imports, Resolver!At
<1>2. QED
  BY <1>1 DEF Needs, Resolver!OnCycle, Resolver!Closed

LEMMA OrderStays ==
    ASSUME OrderOK, UNCHANGED <<bundle, order>>
    PROVE  OrderOK' /\ LaidOut' = LaidOut
BY BundleFixed DEF OrderOK, LaidOut

(* An end of the analyzer, before the order is complete.                     *)
LEMMA EndKeeps ==
    ASSUME LayoutInv, UNCHANGED <<bundle, position, order>>,
           NEW code, NEW m, Resolver!Conclude(code, m),
           Harmless(code) \/ (code = "PYC3507" /\ m \in Resolver!OnCycle)
    PROVE  LayoutInv'
<1>0. phase' = "done" /\ verdict' = [code |-> code, module |-> m]
  BY DEF Resolver!Conclude
<1>1. BundleTypes' /\ TargetsKnown' /\ WaitingOK'
  BY <1>0 DEF LayoutInv, BundleTypes, TargetsKnown, WaitingOK, Examining
<1>2. OrderOK'
  BY OrderStays DEF LayoutInv
<1>3. verdict'.code = code /\ verdict'.module = m
  BY <1>0
<1>4. VerdictOK'
  BY <1>0, <1>3, BundleFixed DEF VerdictOK, Harmless
<1>5. QED
  BY <1>1, <1>2, <1>4 DEF LayoutInv

LEMMA CheckCanceledKeeps ==
    ASSUME LayoutInv, Resolver!CheckCanceled
    PROVE  LayoutInv'
<1>1. Harmless("canceled")
  BY DEF Harmless
<1>2. QED
  BY <1>1, EndKeeps DEF Resolver!CheckCanceled, Resolver!orderVars

(* A module that imports itself is on a cycle.                               *)
LEMMA SelfMeansCycle ==
    ASSUME NEW m \in Modules, m \in Needs(m)
    PROVE  m \in Resolver!OnCycle
BY DEF Needs, Modules, Resolver!OnCycle

(* The analyzer goes on in one of its loops, or to the next one.             *)
LEMMA LoopKeeps ==
    ASSUME LayoutInv, UNCHANGED <<bundle, order, verdict>>, phase # "done", order = <<>>,
           BundleTypes', TargetsKnown', phase' \notin {"order", "done"}
    PROVE  LayoutInv'
<1>1. OrderOK'
  BY OrderStays DEF LayoutInv
<1>2. VerdictOK' /\ WaitingOK'
  BY BundleFixed DEF LayoutInv, VerdictOK, WaitingOK
<1>3. QED
  BY <1>1, <1>2 DEF LayoutInv

LEMMA ExamineKeeps ==
    ASSUME LayoutInv, Resolver!Examine
    PROVE  LayoutInv'
<1> DEFINE m == Listing[position + 1]
<1>1. /\ BundleTypes /\ TargetsKnown /\ phase \in Examining /\ position \in 0 .. Len(Listing)
      /\ position < Len(Listing) /\ order = <<>> /\ phase \notin {"count", "order", "done"}
      /\ UNCHANGED <<bundle, order>>
  BY DEF LayoutInv, Resolver!Examine, Resolver!orderVars, Examining, BundleTypes
<1>2. Len(Listing) \in Nat /\ position + 1 \in 1 .. Len(Listing) /\ m \in Modules
  BY <1>1, ListingFacts, SMT
<1>3. \/ Resolver!Fault(m) = "none" /\ position' = position + 1 /\ UNCHANGED <<phase, verdict>>
      \/ /\ Resolver!Fault(m) # "none" /\ UNCHANGED position
         /\ Resolver!Conclude(Resolver!Fault(m), m)
  BY DEF Resolver!Examine
<1>4. \/ Resolver!Fault(m) = "none" /\ (phase = "imports" => Needs(m) \subseteq Modules)
      \/ Resolver!Fault(m) = "PYC3507" /\ m \in Needs(m)
      \/ Harmless(Resolver!Fault(m))
  BY <1>1, <1>2, Faults
<1>5. CASE Resolver!Fault(m) = "none"
  <2>1. position' = position + 1 /\ UNCHANGED <<phase, verdict>>
    BY <1>3, <1>5
  <2>2. position' \in 0 .. Len(Listing) /\ \A i \in 1 .. position' : i = position + 1 \/ i \in 1 .. position
    BY <1>1, <1>2, <2>1, SMT
  <2>3. BundleTypes'
    BY <1>1, <2>1, <2>2 DEF BundleTypes
  <2>4. TargetsKnown'
    <3>1. ASSUME phase = "imports", NEW i \in 1 .. position' PROVE Needs(Listing[i])' \subseteq Modules
      <4>1. Needs(Listing[i])' = Needs(Listing[i])
        BY <1>1, BundleFixed
      <4>2. Needs(m) \subseteq Modules
        BY <1>4, <1>5, <3>1 DEF Harmless
      <4>3. QED
        BY <1>1, <2>2, <3>1, <4>1, <4>2 DEF TargetsKnown
    <3>2. ASSUME phase \in {"uses", "deferred"}, NEW n \in Modules PROVE Needs(n)' \subseteq Modules
      BY <1>1, <3>2, BundleFixed DEF TargetsKnown
    <3>3. QED
      BY <1>1, <2>1, <3>1, <3>2 DEF TargetsKnown
  <2>5. QED
    BY <1>1, <2>1, <2>3, <2>4, LoopKeeps
<1>6. CASE Resolver!Fault(m) # "none"
  <2>1. \/ Harmless(Resolver!Fault(m))
        \/ Resolver!Fault(m) = "PYC3507" /\ m \in Resolver!OnCycle
    BY <1>2, <1>4, <1>6, SelfMeansCycle
  <2> HIDE DEF m
  <2>2. QED
    BY <1>1, <1>3, <1>6, <2>1, EndKeeps
<1>7. QED
  BY <1>5, <1>6

LEMMA EndLoopKeeps ==
    ASSUME LayoutInv, Resolver!EndLoop
    PROVE  LayoutInv'
<1>1. /\ BundleTypes /\ TargetsKnown /\ position = Len(Listing) /\ position' = 0
      /\ phase \in {"shape", "imports", "uses"} /\ UNCHANGED <<bundle, order, verdict>>
      /\ order = <<>>
  BY DEF LayoutInv, Resolver!EndLoop, Resolver!orderVars, Resolver!FollowingPhase, BundleTypes, Examining
<1>2. phase' = IF phase = "shape" THEN "count" ELSE IF phase = "imports" THEN "uses" ELSE "deferred"
  BY <1>1 DEF Resolver!EndLoop, Resolver!FollowingPhase
<1>3. 0 \in 0 .. Len(Listing)
  BY ListingFacts, SMT
<1>4. BundleTypes'
  BY <1>1, <1>2, <1>3 DEF BundleTypes, Examining
<1>5. TargetsKnown'
  <2>1. ASSUME phase \in {"imports", "uses"}, NEW m \in Modules PROVE Needs(m)' \subseteq Modules
    <3>1. PICK i \in 1 .. Len(Listing) : Listing[i] = m
      BY ListingFacts
    <3>2. QED
      BY <1>1, <2>1, <3>1, BundleFixed DEF TargetsKnown
  <2>2. QED
    BY <1>1, <1>2, <2>1 DEF TargetsKnown
<1>6. QED
  BY <1>1, <1>2, <1>4, <1>5, LoopKeeps

LEMMA CountImportsKeeps ==
    ASSUME LayoutInv, Resolver!CountImports
    PROVE  LayoutInv'
<1>1. BundleTypes /\ phase = "count" /\ position = 0 /\ order = <<>>
      /\ UNCHANGED <<bundle, position, order>>
  BY DEF LayoutInv, Resolver!CountImports, Resolver!orderVars, BundleTypes
<1>2. CASE phase' = "imports" /\ UNCHANGED verdict
  <2>1. BundleTypes'
    BY <1>1, <1>2 DEF BundleTypes, Examining
  <2>2. TargetsKnown'
    BY <1>1, <1>2, SMT DEF TargetsKnown
  <2>3. QED
    BY <1>1, <1>2, <2>1, <2>2, LoopKeeps
<1>3. CASE Resolver!Conclude("PYC3510", Resolver!FirstImporter)
  <2>1. Harmless("PYC3510")
    BY DEF Harmless
  <2>2. QED
    BY <1>1, <1>3, <2>1, EndKeeps
<1>4. QED
  BY <1>2, <1>3 DEF Resolver!CountImports

LEMMA StartOrderKeeps ==
    ASSUME LayoutInv, Resolver!StartOrder
    PROVE  LayoutInv'
<1>1. /\ BundleTypes /\ TargetsKnown /\ phase = "deferred" /\ phase' = "order" /\ order = <<>>
      /\ UNCHANGED <<bundle, position, order, verdict>>
      /\ dependencies' = [m \in Modules |-> Needs(m)]
      /\ ready' = {m \in Modules : Needs(m) = {}}
  BY DEF LayoutInv, Resolver!StartOrder, BundleTypes, Examining, Modules, Needs
<1>2. BundleTypes'
  BY <1>1 DEF BundleTypes, Examining
<1>3. (\A m : Needs(m)' = Needs(m)) /\ TargetsKnown'
  BY <1>1, BundleFixed DEF TargetsKnown
<1>4. LaidOut' = {}
  BY <1>1, SMT DEF LaidOut
<1>5. WaitingOK'
  <2>1. \A m \in Modules : Needs(m)' \ LaidOut' = Needs(m)
    BY <1>3, <1>4
  <2>2. dependencies' = [m \in Modules |-> Needs(m)' \ LaidOut']
    BY <1>1, <2>1, Zenon
  <2>3. ready' = {m \in Modules : m \notin LaidOut' /\ Needs(m)' \subseteq LaidOut'}
    BY <1>1, <1>3, <1>4
  <2>4. QED
    BY <2>2, <2>3 DEF WaitingOK
<1>6. OrderOK' /\ VerdictOK'
  BY <1>1, OrderStays, BundleFixed DEF LayoutInv, VerdictOK
<1>7. QED
  BY <1>2, <1>3, <1>5, <1>6 DEF LayoutInv
(* The module laid out waits for nothing; each that imports it waits for one *)
(* module less, and what then waits for nothing is ready.                    *)
LEMMA LayOutKeeps ==
    ASSUME LayoutInv, Resolver!LayOut
    PROVE  LayoutInv'
<1> DEFINE c == Resolver!Least(ready)
           n == Len(order)
<1>1. /\ BundleTypes /\ TargetsKnown /\ OrderOK /\ WaitingOK /\ VerdictOK
      /\ phase = "order" /\ ready # {} /\ order' = Append(order, c)
      /\ UNCHANGED <<bundle, phase, position, verdict>>
  BY DEF LayoutInv, Resolver!LayOut
<1>2. /\ dependencies = [m \in Modules |-> Needs(m) \ LaidOut]
      /\ ready = {m \in Modules : m \notin LaidOut /\ Needs(m) \subseteq LaidOut}
  BY <1>1 DEF WaitingOK
<1>3. c \in ready /\ c \in Modules /\ c \notin LaidOut /\ Needs(c) \subseteq LaidOut
  <2>1. ready \in SUBSET Nat
    BY <1>2, ModulesAreNumbers
  <2>2. c \in ready
    BY <1>1, <2>1, LeastIsIn
  <2>3. QED
    BY <1>2, <2>2
<1>4. order \in Seq(Modules) /\ n \in Nat /\ DOMAIN order = 1 .. n
  BY <1>1, SMT DEF BundleTypes
<1>5. /\ dependencies' = Resolver!Released(c)
      /\ ready' = (ready \ {c})
                    \cup {m \in Resolver!Dependents(c) :
                            Resolver!Released(c)[m] = {} /\ \A i \in DOMAIN order' : order'[i] # m}
  BY DEF Resolver!LayOut
<1> HIDE DEF c, n
<1>6. /\ order' \in Seq(Modules) /\ DOMAIN order' = 1 .. n + 1
      /\ \A i \in 1 .. n : order'[i] = order[i]
      /\ order'[n + 1] = c
  <2>1. /\ order' \in Seq(Modules) /\ Len(order') = n + 1
        /\ \A i \in 1 .. n : order'[i] = order[i]
        /\ order'[n + 1] = c
    BY <1>1, <1>3, <1>4, AppendProperties DEF n
  <2>2. QED
    BY <1>4, <2>1, SMT
<1>7. \A i \in 1 .. n + 1 : i \in 1 .. n \/ i = n + 1
  BY <1>4, SMT
<1>8. LaidOut = {order[i] : i \in 1 .. n} /\ LaidOut' = {order'[i] : i \in 1 .. n + 1}
  BY <1>4, <1>6 DEF LaidOut
<1>9. LaidOut' = LaidOut \cup {c}
  <2>1. 1 .. n \subseteq 1 .. n + 1 /\ n + 1 \in 1 .. n + 1
    BY <1>4, SMT
  <2>2. QED
    BY <1>6, <1>7, <1>8, <2>1
<1>10. \A m : Needs(m)' = Needs(m)
  BY <1>1, BundleFixed
<1>11. BundleTypes'
  BY <1>1, <1>6 DEF BundleTypes, Examining
<1>12. TargetsKnown'
  BY <1>1, <1>10 DEF TargetsKnown
<1>13. OrderOK'
  <2>1. ASSUME NEW i \in 1 .. n + 1, NEW j \in 1 .. n + 1, order'[i] = order'[j] PROVE i = j
    BY <1>1, <1>3, <1>4, <1>6, <1>7, <1>8, <2>1 DEF OrderOK
  <2>2. ASSUME NEW i \in 1 .. n + 1, NEW d \in Needs(order[i])' PROVE \E j \in 1 .. i - 1 : order'[j] = d
    <3>1. d \in Needs(order'[i])
      BY <1>1, <2>2, BundleFixed DEF Needs, Resolver!DependsOn, Resolver!Imports, Resolver!At
    <3>2. CASE i \in 1 .. n
      <4>1. PICK j \in 1 .. i - 1 : order[j] = d
        BY <1>1, <1>4, <1>6, <3>1, <3>2 DEF OrderOK
      <4>2. j \in 1 .. n
        BY <1>4, <3>2, SMT
      <4>3. QED
        BY <1>6, <4>1, <4>2
    <3>3. CASE i = n + 1
      <4>1. d \in LaidOut
        BY <1>3, <1>6, <3>1, <3>3
      <4>2. PICK j \in 1 .. n : order[j] = d
        BY <1>8, <4>1
      <4>3. j \in 1 .. i - 1
        BY <1>4, <3>3, SMT
      <4>4. QED
        BY <1>6, <4>2, <4>3
    <3>4. QED
      BY <1>7, <3>2, <3>3
  <2>3. QED
    BY <1>6, <2>1, <2>2 DEF OrderOK
<1>14. WaitingOK'
  <2>1. \A m \in Modules : m \in Resolver!Dependents(c) <=> c \in Needs(m)
    BY DEF Resolver!Dependents, Needs, Modules
  <2>2. Resolver!Released(c) = [m \in Modules |-> Needs(m)' \ LaidOut']
    <3>1. ASSUME NEW m \in Modules
          PROVE  (IF m \in Resolver!Dependents(c) THEN dependencies[m] \ {c} ELSE dependencies[m])
                   = Needs(m)' \ LaidOut'
      <4>1. dependencies[m] = Needs(m) \ LaidOut
        BY <1>2
      <4>2. QED
        BY <1>9, <1>10, <2>1, <4>1
    <3>2. Resolver!Released(c) = [m \in Modules |->
             IF m \in Resolver!Dependents(c) THEN dependencies[m] \ {c} ELSE dependencies[m]]
      BY DEF Resolver!Released, Modules
    <3>3. QED
      BY <3>1, <3>2
  <2>3. \A m \in Modules : Resolver!Released(c)[m] = {} <=> Needs(m) \subseteq LaidOut'
    BY <1>10, <2>2
  <2>4. \A m : (\A i \in DOMAIN order' : order'[i] # m) <=> m \notin LaidOut'
    BY <1>6, <1>8
  <2>5. Resolver!Dependents(c) \subseteq Modules
    BY DEF Resolver!Dependents, Modules
  <2>6. ready' = {m \in Modules : m \notin LaidOut' /\ Needs(m) \subseteq LaidOut'}
    <3>1. ASSUME NEW m \in ready' PROVE m \in Modules /\ m \notin LaidOut' /\ Needs(m) \subseteq LaidOut'
      <4>1. CASE m \in ready \ {c}
        BY <1>2, <1>9, <4>1
      <4>2. CASE m \notin ready \ {c}
        BY <1>5, <2>3, <2>4, <2>5, <3>1, <4>2
      <4>3. QED
        BY <4>1, <4>2
    <3>2. ASSUME NEW m \in Modules, m \notin LaidOut', Needs(m) \subseteq LaidOut' PROVE m \in ready'
      <4>1. m # c /\ m \notin LaidOut
        BY <1>9, <3>2
      <4>2. CASE c \in Needs(m)
        BY <1>5, <2>1, <2>3, <2>4, <3>2, <4>2
      <4>3. CASE c \notin Needs(m)
        BY <1>2, <1>5, <1>9, <3>2, <4>1, <4>3
      <4>4. QED
        BY <4>2, <4>3
    <3>3. QED
      BY <3>1, <3>2
  <2>7. dependencies' = [m \in Modules |-> Needs(m)' \ LaidOut']
    BY <1>5, <2>2
  <2>8. ready' = {m \in Modules : m \notin LaidOut' /\ Needs(m)' \subseteq LaidOut'}
    BY <1>10, <2>6
  <2>9. QED
    BY <2>7, <2>8 DEF WaitingOK
<1>15. VerdictOK'
  BY <1>1, BundleFixed DEF VerdictOK
<1>16. QED
  BY <1>11, <1>12, <1>13, <1>14, <1>15 DEF LayoutInv

(* An order that has every module is published; where some are left none of  *)
(* them is ready, and they hold a cycle.                                     *)
LEMMA EndOrderKeeps ==
    ASSUME LayoutInv, Resolver!EndOrder
    PROVE  LayoutInv'
<1>1. /\ BundleTypes /\ TargetsKnown /\ OrderOK /\ WaitingOK /\ VerdictOK
      /\ phase = "order" /\ ready = {} /\ UNCHANGED <<bundle, position, order>>
  BY DEF LayoutInv, Resolver!EndOrder, Resolver!orderVars
<1>2. CASE Len(order) = Cardinality(Modules) /\ Resolver!Conclude("published", 0)
  <2>1. phase' = "done" /\ verdict' = [code |-> "published", module |-> 0]
    BY <1>2 DEF Resolver!Conclude
  <2>2. BundleTypes' /\ TargetsKnown' /\ WaitingOK'
    BY <1>1, <2>1 DEF BundleTypes, TargetsKnown, WaitingOK, Examining
  <2>3. OrderOK' /\ VerdictOK'
    BY <1>1, <1>2, <2>1, OrderStays DEF VerdictOK
  <2>4. QED
    BY <2>2, <2>3 DEF LayoutInv
<1>3. CASE Len(order) # Cardinality(Modules) /\ Resolver!Conclude("PYC3507", Resolver!Least(Resolver!OnCycle))
  <2> DEFINE R == Modules \ LaidOut
  <2>1. order \in Seq(Modules) /\ DOMAIN order = 1 .. Len(order) /\ Len(order) \in Nat
    BY <1>1, SMT DEF BundleTypes
  <2>2. R # {}
    <3>1. SUFFICES ASSUME LaidOut = Modules PROVE FALSE
      BY <2>1 DEF LaidOut
    <3>2. order \in Bijection(1 .. Len(order), Modules)
      <4>1. order \in [1 .. Len(order) -> Modules]
        BY <2>1, LenProperties
      <4>2. QED
        BY <1>1, <2>1, <3>1, <4>1
           DEF OrderOK, LaidOut, Bijection, Injection, Surjection, IsInjective
    <3>3. IsFiniteSet(1 .. Len(order)) /\ Cardinality(1 .. Len(order)) = Len(order)
      <4> DEFINE n == Len(order)
      <4>1. n \in Nat
        BY <2>1
      <4> HIDE DEF n
      <4>2. IsFiniteSet(1 .. n) /\ Cardinality(1 .. n) = IF 1 > n THEN 0 ELSE n - 1 + 1
        BY <4>1, FS_Interval
      <4>3. (IF 1 > n THEN 0 ELSE n - 1 + 1) = n
        BY <4>1, SMT
      <4>4. QED
        BY <4>2, <4>3 DEF n
    <3>4. Cardinality(Modules) = Len(order)
      BY <3>2, <3>3, FS_Bijection DEF ExistsBijection
    <3>5. QED
      BY <1>3, <3>4
  <2>3. \A m \in Modules : Needs(m) \subseteq Modules
    BY <1>1 DEF TargetsKnown
  <2>4. \A m \in R : Needs(m) \cap R # {}
    BY <1>1, <2>3 DEF WaitingOK
  <2>5. Resolver!OnCycle # {}
    <3> HIDE DEF R
    <3>1. R \in SUBSET Modules
      BY DEF R
    <3>2. QED
      BY <2>2, <2>3, <2>4, <3>1, StuckMeansCycle
  <2>6. Resolver!OnCycle \in SUBSET Nat
    BY ModulesAreNumbers DEF Resolver!OnCycle, Modules
  <2>7. Resolver!Least(Resolver!OnCycle) \in Resolver!OnCycle
    BY <2>5, <2>6, LeastIsIn
  <2>8. QED
    BY <1>1, <1>3, <2>7, EndKeeps
<1>4. QED
  BY <1>2, <1>3 DEF Resolver!EndOrder, Resolver!Cardinality, Cardinality, Modules

LEMMA AnalyzeKeeps ==
    ASSUME LayoutInv, Resolver!Analyze \/ UNCHANGED moduleVars
    PROVE  LayoutInv'
<1>1. CASE Resolver!Analyze
  BY <1>1, CheckCanceledKeeps, ExamineKeeps, EndLoopKeeps, CountImportsKeeps, StartOrderKeeps,
     LayOutKeeps, EndOrderKeeps DEF Resolver!Analyze
<1>2. CASE UNCHANGED moduleVars
  <2>1. UNCHANGED <<bundle, phase, position, dependencies, ready, order, verdict>>
    BY <1>2 DEF moduleVars
  <2>2. (\A m : Needs(m)' = Needs(m)) /\ OrderOK' /\ LaidOut' = LaidOut /\ Resolver!OnCycle' = Resolver!OnCycle
    BY <2>1, OrderStays, BundleFixed DEF LayoutInv
  <2>3. BundleTypes' /\ TargetsKnown' /\ VerdictOK'
    BY <2>1, <2>2 DEF LayoutInv, BundleTypes, TargetsKnown, VerdictOK
  <2>4. WaitingOK'
    BY <2>1, <2>2 DEF LayoutInv, WaitingOK
  <2>5. QED
    BY <2>2, <2>3, <2>4 DEF LayoutInv
<1>3. QED
  BY <1>1, <1>2

(* A step of the conversion is one of the analyzer, or leaves it alone.      *)
LEMMA StepIsResolvers == [Next]_vars => Resolver!Analyze \/ UNCHANGED moduleVars
BY DEF Next, Convert, Observe, Exited, vars, SourceDocuments, Parse, Frontend, Normalize, Resolve,
       ResolveEnds, Translate

LEMMA LayoutInitially == Init => LayoutInv
<1> SUFFICES ASSUME Init PROVE LayoutInv
  OBVIOUS
<1>1. /\ bundle \in {input.bundle : input \in Inputs} /\ phase = "shape" /\ position = 0
      /\ order = <<>> /\ verdict = [code |-> "none", module |-> 0]
  BY DEF Init, Resolver!Init, Resolver!NoVerdict
<1>2. 0 \in 0 .. Len(Listing)
  BY ListingFacts, SMT
<1>3. order \in Seq(Modules) /\ DOMAIN order = {}
  BY <1>1, EmptySeq, SMT
<1>4. QED
  BY <1>1, <1>2, <1>3 DEF LayoutInv, BundleTypes, TargetsKnown, OrderOK, WaitingOK, VerdictOK, Examining

LEMMA LayoutInvariance == Spec => []LayoutInv
<1>1. LayoutInv /\ [Next]_vars => LayoutInv'
  BY AnalyzeKeeps, StepIsResolvers
<1>2. QED
  BY LayoutInitially, <1>1, PTL DEF Spec

(* All modules are laid out when as many are as there are.                   *)
LEMMA CompleteMeansAll ==
    ASSUME BundleTypes, OrderOK, Len(order) = Cardinality(Modules)
    PROVE  LaidOut = Modules
<1>1. order \in Seq(Modules) /\ DOMAIN order = 1 .. Len(order) /\ Len(order) \in Nat
  BY SMT DEF BundleTypes
<1>2. LaidOut \in SUBSET Modules /\ LaidOut = {order[i] : i \in 1 .. Len(order)}
  BY <1>1 DEF LaidOut
<1>3. order \in Bijection(1 .. Len(order), LaidOut)
  <2>1. order \in [1 .. Len(order) -> LaidOut]
    BY <1>1, <1>2, LenProperties
  <2>2. QED
    BY <1>1, <1>2, <2>1 DEF OrderOK, Bijection, Injection, Surjection, IsInjective
<1>4. IsFiniteSet(1 .. Len(order)) /\ Cardinality(1 .. Len(order)) = Len(order)
  <2> DEFINE n == Len(order)
  <2>1. n \in Nat
    BY <1>1
  <2> HIDE DEF n
  <2>2. IsFiniteSet(1 .. n) /\ Cardinality(1 .. n) = IF 1 > n THEN 0 ELSE n - 1 + 1
    BY <2>1, FS_Interval
  <2>3. (IF 1 > n THEN 0 ELSE n - 1 + 1) = n
    BY <2>1, SMT
  <2>4. QED
    BY <2>2, <2>3 DEF n
<1>5. Cardinality(LaidOut) = Len(order)
  BY <1>3, <1>4, FS_Bijection DEF ExistsBijection
<1>6. QED
  BY <1>2, <1>5, ModulesAreNumbers, FS_Subset

(* In every bundle, whenever the conversion is interrupted: no module is laid *)
(* out twice or before one it imports, a published order is complete and free *)
(* of cycles, and a bundle rejected for a cycle has one, through the module   *)
(* that is named (_dependency_first_order).                                   *)
THEOREM ModulesInOrder == Spec => []OrderIsSound
<1>1. LayoutInv => OrderIsSound
  <2> SUFFICES ASSUME LayoutInv PROVE OrderIsSound
    OBVIOUS
  <2>1. verdict.code = "published" => Resolver!OnCycle = {}
    BY CompleteMeansAll, LaidOutMeansNone DEF LayoutInv, VerdictOK, BundleTypes
  <2>2. phase = "order" =>
          ready = {m \in Modules : /\ \A i \in DOMAIN order : order[i] # m
                                   /\ \A d \in Needs(m) : \E i \in DOMAIN order : order[i] = d}
    BY DEF LayoutInv, WaitingOK, LaidOut
  <2>3. QED
    BY <2>1, <2>2 DEF LayoutInv, OrderOK, VerdictOK, OrderIsSound, Resolver!OrderIsSound, Modules, Needs
<1>2. QED
  BY LayoutInvariance, <1>1, PTL

-----------------------------------------------------------------------------
(* What has passed the first stages of the pipeline.                         *)

(* How many stages have come back with an artifact.                          *)
Done == published + IF at \in {"check", "validate", "recheck", "accept"} THEN 1 ELSE 0

Documents == DOMAIN Listing
AdmittedSoFar ==
    /\ measure \in {input.measure : input \in Inputs}
    /\ at \in {"ready"} \cup Underway \cup {"completed"} \/ published > 0
          => Within(Len(Listing), "bytes")
    /\ Done >= 1 => \A i \in Documents : ~SourceFault(i)
    /\ Done >= 2 => \A i \in Documents : ~ParseFault(i)
    /\ Done >= 4 => verdict.code = "published"

(* The size of the documents does not change.                                *)
LEMMA SizesStay ==
    ASSUME UNCHANGED measure
    PROVE  /\ Within(Len(Listing), "bytes")' = Within(Len(Listing), "bytes")
           /\ \A i : SourceFault(i)' = SourceFault(i)
           /\ \A i : ParseFault(i)' = ParseFault(i)
BY Zenon DEF Within, SourceFault, ParseFault

(* A stage more has come back only when a stage completed.                   *)
LEMMA StageByStage ==
    ASSUME IInv, WorkerNext
    PROVE  \/ Done' <= Done
           \/ at = "run" /\ RunStage("completed") /\ Done = published /\ Done' = Done + 1
<1>1. published \in Nat
  BY WorkerAssumption, SMT DEF IInv, WorkerTypes
<1>2. CASE \E outcome \in Outcomes : RunStage(outcome)
  BY <1>1, <1>2, SMT DEF RunStage, Outcome, Outcomes, Raised, Return, Done
<1>3. CASE Around
  BY <1>1, <1>3, SMT
     DEF Around, ReceiveRequest, SendTerminal, SendFailure, ReportReady, Enter, Check, Validate,
         Recheck, Accept, ReportCompleted, Conclude, Fail, Raised, Return, Done, pipelineVars
<1>4. CASE Canonicalize \/ SendCancel \/ Listen
  BY <1>1, <1>4, SMT DEF Canonicalize, SendCancel, Listen, Done, pipelineVars
<1>5. QED
  BY <1>2, <1>3, <1>4 DEF WorkerNext
(* No stage of the frontend completes over a fault, nor the resolver over a  *)
(* bundle it did not publish.                                                *)
LEMMA StagesAdmit ==
    ASSUME Next, at = "run", at' = "check", published \in Nat
    PROVE  /\ published = 0 => \A i \in Documents : ~SourceFault(i)
           /\ published = 1 => \A i \in Documents : ~ParseFault(i)
           /\ published = 3 => verdict.code = "published" /\ verdict' = verdict
<1> DEFINE stage == StageNames[published + 1]
<1>1. /\ published = 0 => stage = "source_document"
      /\ published = 1 => stage = "parse"
      /\ published = 3 => stage = "modules"
  BY SMT DEF StageNames
<1>2. CASE SourceDocuments
  <2>1. stage = "source_document" /\ ~\E i \in Documents : SourceFault(i)
    BY <1>2 DEF SourceDocuments, Frontend, Working, RunStage, Outcome, Return, Documents
  <2>2. QED
    BY <1>1, <2>1
<1>3. CASE Parse
  <2>1. stage = "parse" /\ ~\E i \in Documents : ParseFault(i)
    BY <1>3 DEF Parse, Frontend, Working, RunStage, Outcome, Return, Documents
  <2>2. QED
    BY <1>1, <2>1
<1>4. CASE ResolveEnds
  <2>1. stage = "modules" /\ verdict.code = "published" /\ verdict' = verdict
    BY <1>4 DEF ResolveEnds, Working, RunStage, Outcome, Return, moduleVars
  <2>2. QED
    BY <1>1, <2>1
<1>5. CASE Normalize \/ Translate
  <2>1. stage \in {"normalize", "analysis", "lowering"}
    BY <1>5 DEF Normalize, Translate, Working
  <2>2. QED
    BY <1>1, <2>1
<1>6. ~Resolve /\ ~Observe /\ ~Exited
  BY DEF Resolve, Observe, Exited, SendCancel, Listen, workerVars
<1>7. ~Around /\ ~CanonicalizeBundle
  BY DEF Around, ReceiveRequest, SendTerminal, SendFailure, ReportReady, Enter, Check, Validate,
         Recheck, Accept, ReportCompleted, Conclude, CanonicalizeBundle, Canonicalize
<1>8. QED
  BY <1>2, <1>3, <1>4, <1>5, <1>6, <1>7 DEF Next, Convert

(* The resolver's verdict is not touched again.                              *)
LEMMA VerdictStands ==
    ASSUME [Next]_vars, IInv, at # "run" \/ published # 3
    PROVE  verdict' = verdict
<1>1. CASE Next
  <2>1. ~Working("modules")
    <3>1. CASE published = 3
      BY <3>1 DEF Working
    <3>2. CASE published # 3
      <4> SUFFICES ASSUME at = "run" PROVE StageNames[published + 1] # "modules"
        BY DEF Working
      <4> DEFINE k == published + 1
      <4>1. k \in 1 .. 6 /\ k # 4
        BY <3>2, WorkerAssumption, PipelineAssumption, SMT
           DEF IInv, WorkerTypes, Counting, Underway, StageNames
      <4>2. <<"source_document", "parse", "normalize", "modules", "analysis", "lowering">>[k] # "modules"
        BY <4>1, SMT
      <4>3. QED
        BY <4>2 DEF StageNames
    <3>3. QED
      BY <3>1, <3>2
  <2>2. QED
    BY <1>1, <2>1
       DEF Next, Convert, Observe, Exited, SourceDocuments, Parse, Frontend, Normalize, Resolve,
           ResolveEnds, Translate, moduleVars
<1>2. CASE UNCHANGED vars
  BY <1>2 DEF vars, moduleVars
<1>3. QED
  BY <1>1, <1>2
(* A bundle too large is not canonical, so the pipeline is not entered.      *)
LEMMA OnlyWithinBytes ==
    ASSUME IInv, Next, ~(at \in {"ready"} \cup Underway \cup {"completed"} \/ published > 0),
           at' \in {"ready"} \cup Underway \cup {"completed"} \/ published' > 0
    PROVE  Within(Len(Listing), "bytes")
<1>1. published \in Nat /\ result \in {NoneYet} \cup {r \in {result} : at \in {"send", "failed", "exited"}}
  BY WorkerAssumption, SMT DEF IInv, WorkerTypes, Honesty
<1>2. at \in Starting \cup Over
  BY DEF IInv, WorkerTypes
<1>3. CASE CanonicalizeBundle
  <2>1. at = "canonical" /\ published' = published
    BY <1>3 DEF CanonicalizeBundle, Canonicalize
  <2>2. at' = "ready" /\ result' = result /\ result = NoneYet
    BY <1>1, <1>3, <2>1 DEF CanonicalizeBundle, Canonicalize, Underway, NoneYet
  <2>3. QED
    BY <1>3, <2>2 DEF CanonicalizeBundle, NoneYet
<1>4. ~Around
  BY <1>1, <1>2
     DEF Around, ReceiveRequest, SendTerminal, SendFailure, ReportReady, Enter, Check, Validate,
         Recheck, Accept, ReportCompleted, Conclude, Fail, Raised, Return, pipelineVars, Underway,
         Starting, Over
<1>5. at # "run" /\ ~(UNCHANGED <<at, published>>)
  BY DEF Underway
<1>6. ~SourceDocuments /\ ~Parse /\ ~Normalize /\ ~Resolve /\ ~ResolveEnds /\ ~Translate
  BY <1>5 DEF SourceDocuments, Parse, Frontend, Normalize, Resolve, ResolveEnds, Translate, Working
<1>7. ~Observe /\ ~Exited
  BY <1>5 DEF Observe, Exited, SendCancel, Listen, pipelineVars, workerVars
<1>8. QED
  BY <1>3, <1>4, <1>6, <1>7 DEF Next, Convert

LEMMA AdmittedKept ==
    ASSUME IInv, AdmittedSoFar, [Next]_vars
    PROVE  AdmittedSoFar'
<1>1. UNCHANGED measure
  BY DEF Next, vars
<1>2. published \in Nat
  BY WorkerAssumption, SMT DEF IInv, WorkerTypes
<1>3. CASE UNCHANGED workerVars /\ verdict' = verdict
  BY <1>1, <1>3, SizesStay DEF AdmittedSoFar, Done, workerVars, pipelineVars
<1>4. CASE UNCHANGED workerVars /\ verdict' # verdict
  <2>1. at = "run" /\ published = 3
    BY <1>4, VerdictStands
  <2>2. Done = 3 /\ Done' = 3
    BY <1>4, <2>1, SMT DEF Done, workerVars, pipelineVars
  <2>3. QED
    BY <1>1, <1>4, <2>2, SizesStay DEF AdmittedSoFar, Done, workerVars, pipelineVars
<1>5. CASE WorkerNext /\ Next
  <2>1. Within(Len(Listing), "bytes")'
        \/ ~(at \in {"ready"} \cup Underway \cup {"completed"} \/ published > 0)'
    BY <1>1, <1>5, OnlyWithinBytes, SizesStay DEF AdmittedSoFar
  <2>2. CASE Done' <= Done
    <3>1. Done \in Nat /\ Done' \in Nat
      BY <1>2, <1>5, TypesKept, WorkerAssumption, SMT DEF Done, WorkerTypes
    <3>2. Done' >= 4 => verdict' = verdict
      <4> SUFFICES ASSUME Done' >= 4 PROVE verdict' = verdict
        OBVIOUS
      <4>1. at # "run" \/ published # 3
        BY <2>2, <3>1, SMT DEF Done
      <4>2. QED
        BY <4>1, VerdictStands
    <3>3. QED
      BY <1>1, <2>1, <2>2, <3>1, <3>2, SizesStay DEF AdmittedSoFar
  <2>3. CASE at = "run" /\ RunStage("completed") /\ Done = published /\ Done' = Done + 1
    <3>1. at' = "check"
      BY <2>3 DEF RunStage, Outcome, Raised, Return
    <3>2. /\ published = 0 => \A i \in Documents : ~SourceFault(i)
          /\ published = 1 => \A i \in Documents : ~ParseFault(i)
          /\ published = 3 => verdict.code = "published" /\ verdict' = verdict
      BY <1>2, <1>5, <2>3, <3>1, StagesAdmit
    <3>3. published # 3 => verdict' = verdict
      BY VerdictStands
    <3>4. /\ Done' >= 1 => published >= 1 \/ published = 0
          /\ Done' >= 2 => published >= 2 \/ published = 1
          /\ Done' >= 4 => published >= 4 \/ published = 3
      BY <1>2, <2>3, SMT
    <3>5. QED
      BY <1>1, <2>1, <2>3, <3>2, <3>3, <3>4, SizesStay DEF AdmittedSoFar
  <2>4. QED
    BY <1>5, <2>2, <2>3, StageByStage
<1>6. QED
  BY <1>3, <1>4, <1>5, StepIsWorkers DEF vars, workerVars

LEMMA AdmittedAlways == Spec => [](IInv /\ LayoutInv /\ AdmittedSoFar)
<1>1. Init => AdmittedSoFar
  BY SMT DEF Init, WorkerInit, AdmittedSoFar, Underway, Done
<1>2. QED
  BY <1>1, AdmittedKept, IInvAlways, LayoutInvariance, PTL DEF Spec

(* For any bundle, any policy and whatever the analysis and the lowering come *)
(* back with: what is converted was within every ceiling of the policy over   *)
(* the whole bundle, was Python throughout, and is laid out completely and    *)
(* without a cycle (frontend/stages.py, modules/analysis.py).                 *)
THEOREM OnlyTheAdmitted == Spec => []ConvertedIsAdmitted
<1>1. IInv /\ LayoutInv /\ AdmittedSoFar => ConvertedIsAdmitted
  <2> SUFFICES ASSUME IInv, LayoutInv, AdmittedSoFar, result = "Converted"
               PROVE  ConvertedIsAdmitted
    BY DEF ConvertedIsAdmitted
  <2>1. published = 6
    BY PipelineAssumption, SMT DEF IInv, Honesty, ResultIsHonest, NoneYet, StageNames
  <2>2. Done >= 4 /\ Done >= 2 /\ Done >= 1 /\ published > 0
    BY <2>1, SMT DEF Done
  <2>3. /\ Within(Len(Listing), "bytes") /\ verdict.code = "published"
        /\ \A i \in Documents : ~SourceFault(i) /\ ~ParseFault(i)
    BY <2>2 DEF AdmittedSoFar
  <2>4. Len(Listing) \in Documents
    BY ModulesAssumption, EmptySeq, SMT DEF Documents
  <2>5. \A what \in {"bytes", "lines", "tokens", "nodes"} : Within(Len(Listing), what)
    BY <2>3, <2>4 DEF SourceFault, ParseFault
  <2>6. \A i \in Documents : measure[Listing[i]].depth \in Nat /\ Policy.depth \in Nat
    BY ModulesAssumption DEF AdmittedSoFar, Documents
  <2>7. \A i \in Documents : /\ measure[Listing[i]].tokenizes /\ measure[Listing[i]].parses
                             /\ ~(measure[Listing[i]].depth > Policy.depth)
    BY <2>3 DEF SourceFault, ParseFault
  <2>8. \A i \in Documents : measure[Listing[i]].depth <= Policy.depth
    BY <2>6, <2>7, SMT
  <2>9. Len(order) = Len(Listing) /\ Resolver!OnCycle = {}
    BY <2>3, CompleteMeansAll, LaidOutMeansNone, ModulesAreNumbers DEF LayoutInv, VerdictOK, BundleTypes
  <2>10. QED
    BY <2>5, <2>7, <2>8, <2>9, Zenon DEF ConvertedIsAdmitted, Within, Documents
<1>2. QED
  BY <1>1, AdmittedAlways, PTL
-----------------------------------------------------------------------------
(* ModuleResolution: what the calls of a published bundle refer to.          *)

Binding == {"def", "async", "class"}
KindOf(m, i) == bundle[m][i].kind

(* What the loops of analyze() have excluded of a module they have passed.   *)
Declared(m) ==
    /\ \A i \in DOMAIN bundle[m] : /\ KindOf(m, i) \notin {"state", "import"}
                                   /\ KindOf(m, i) = "class" => AllowRecords
    /\ \A i, j \in DOMAIN bundle[m] :
          KindOf(m, i) \in Binding /\ KindOf(m, j) \in Binding /\ bundle[m][i].name = bundle[m][j].name
             => i = j
Linked(m) ==
    \A i \in DOMAIN bundle[m] : KindOf(m, i) = "from" =>
       /\ bundle[m][i].target \in Modules
       /\ \E k \in DOMAIN bundle[bundle[m][i].target] :
             /\ KindOf(bundle[m][i].target, k) = "def"
             /\ bundle[bundle[m][i].target][k].name = bundle[m][i].name
       /\ \A j \in DOMAIN bundle[m] :
             /\ KindOf(m, j) = "def" \/ (KindOf(m, j) = "class" /\ AllowRecords)
                   => bundle[m][j].name # bundle[m][i].local
             /\ KindOf(m, j) = "from" /\ bundle[m][j].local = bundle[m][i].local => i = j
Called(m) ==
    \A i, j \in DOMAIN bundle[m] :
       KindOf(m, i) = "def" /\ KindOf(m, j) = "from" => bundle[m][j].local \notin bundle[m][i].binds
Synchronous(m) == \A i \in DOMAIN bundle[m] : KindOf(m, i) # "async"

(* The first of some statements is one of them. *)
LEMMA FirstStatement ==
    ASSUME NEW S \in SUBSET Nat, S # {}
    PROVE  (CHOOSE i \in S : \A j \in S : i <= j) \in S
BY SmallestIsIn, Zenon

LEMMA ShapeSays ==
    ASSUME BundleTypes, NEW m \in Modules, Resolver!ShapeFault(m) = "none"
    PROVE  Declared(m)
<1> DEFINE wrong == {i \in DOMAIN bundle[m] : Resolver!StatementFault(m, i) # "none"}
<1>1. DOMAIN bundle[m] \subseteq Nat
  BY StatementsAreCounted
<1>2. wrong = {}
  <2>1. SUFFICES ASSUME wrong # {} PROVE FALSE
    OBVIOUS
  <2> DEFINE first == CHOOSE i \in wrong : \A j \in wrong : i <= j
  <2>2. first \in wrong
    <3>1. wrong \in SUBSET Nat
      BY <1>1
    <3> HIDE DEF wrong
    <3>2. QED
      BY <2>1, <3>1, FirstStatement
  <2>3. Resolver!StatementFault(m, first) # "none"
    BY <2>2
  <2>4. Resolver!ShapeFault(m) = Resolver!StatementFault(m, first)
    BY <2>1 DEF Resolver!ShapeFault
  <2>5. QED
    BY <2>3, <2>4
<1>3. \A i \in DOMAIN bundle[m] : Resolver!StatementFault(m, i) = "none"
  BY <1>2
<1>4. ASSUME NEW i \in DOMAIN bundle[m]
      PROVE  /\ KindOf(m, i) \notin {"state", "import"}
             /\ KindOf(m, i) = "class" => AllowRecords
             /\ KindOf(m, i) \in Binding => ~Resolver!Rebound(m, i)
  BY <1>3, SMT DEF Resolver!StatementFault, KindOf, Binding
<1>5. ASSUME NEW i \in DOMAIN bundle[m], NEW j \in DOMAIN bundle[m], j < i,
             KindOf(m, i) \in Binding, KindOf(m, j) \in Binding, bundle[m][i].name = bundle[m][j].name
      PROVE  FALSE
  BY <1>4, <1>5 DEF Resolver!Rebound, Resolver!Before, Resolver!At, KindOf, Binding
<1>6. ASSUME NEW i \in DOMAIN bundle[m], NEW j \in DOMAIN bundle[m] PROVE i < j \/ j < i \/ i = j
  BY <1>1, SMT
<1>7. QED
  BY <1>4, <1>5, <1>6 DEF Declared

LEMMA LinkSays ==
    ASSUME BundleTypes, NEW m \in Modules, Resolver!ResolveFault(m) = "none"
    PROVE  Linked(m)
<1> DEFINE wrong == {i \in Resolver!Imports(m) : Resolver!ImportFault(m, i) # "none"}
<1>1. DOMAIN bundle[m] \subseteq Nat
  BY StatementsAreCounted
<1>2. wrong = {}
  <2>1. SUFFICES ASSUME wrong # {} PROVE FALSE
    OBVIOUS
  <2> DEFINE first == CHOOSE i \in wrong : \A j \in wrong : i <= j
  <2>2. first \in wrong
    <3>1. wrong \in SUBSET Nat
      BY <1>1 DEF Resolver!Imports, Resolver!At
    <3> HIDE DEF wrong
    <3>2. QED
      BY <2>1, <3>1, FirstStatement
  <2>3. Resolver!ImportFault(m, first) # "none"
    BY <2>2
  <2>4. Resolver!ResolveFault(m) = Resolver!ImportFault(m, first)
    BY <2>1 DEF Resolver!ResolveFault
  <2>5. QED
    BY <2>3, <2>4
<1>3. ASSUME NEW i \in DOMAIN bundle[m], KindOf(m, i) = "from"
      PROVE  /\ bundle[m][i].target \in Modules
             /\ bundle[m][i].name \in Resolver!Functions(bundle[m][i].target)
             /\ bundle[m][i].local \notin Resolver!Occupied(m, i)
  <2>1. Resolver!ImportFault(m, i) = "none"
    BY <1>2, <1>3 DEF Resolver!Imports, Resolver!At, KindOf
  <2>2. QED
    BY <2>1, Zenon DEF Resolver!ImportFault, Modules
<1>4. ASSUME NEW i \in DOMAIN bundle[m], KindOf(m, i) = "from"
      PROVE  /\ \E k \in DOMAIN bundle[bundle[m][i].target] :
                   /\ KindOf(bundle[m][i].target, k) = "def"
                   /\ bundle[bundle[m][i].target][k].name = bundle[m][i].name
             /\ \A j \in DOMAIN bundle[m] :
                   /\ KindOf(m, j) = "def" \/ (KindOf(m, j) = "class" /\ AllowRecords)
                         => bundle[m][j].name # bundle[m][i].local
                   /\ KindOf(m, j) = "from" /\ bundle[m][j].local = bundle[m][i].local => ~(j < i)
  <2>1. /\ bundle[m][i].name \in Resolver!Functions(bundle[m][i].target)
        /\ bundle[m][i].local \notin Resolver!Functions(m)
        /\ bundle[m][i].local \notin Resolver!Records(m)
        /\ bundle[m][i].local \notin {bundle[m][j].local : j \in Resolver!Before(m, i, {"from"})}
    BY <1>3, <1>4 DEF Resolver!Occupied
  <2>2. \E k \in DOMAIN bundle[bundle[m][i].target] :
                   /\ KindOf(bundle[m][i].target, k) = "def"
                   /\ bundle[bundle[m][i].target][k].name = bundle[m][i].name
    BY <2>1 DEF Resolver!Functions, Resolver!NamesOf, Resolver!At, KindOf
  <2>3. ASSUME NEW j \in DOMAIN bundle[m], KindOf(m, j) = "def"
        PROVE  bundle[m][j].name # bundle[m][i].local
    BY <2>1, <2>3 DEF Resolver!Functions, Resolver!NamesOf, Resolver!At, KindOf
  <2>4. ASSUME NEW j \in DOMAIN bundle[m], KindOf(m, j) = "class", AllowRecords
        PROVE  bundle[m][j].name # bundle[m][i].local
    BY <2>1, <2>4 DEF Resolver!Records, Resolver!NamesOf, Resolver!At, KindOf
  <2>5. ASSUME NEW j \in DOMAIN bundle[m], KindOf(m, j) = "from", j < i
        PROVE  bundle[m][j].local # bundle[m][i].local
    BY <2>1, <2>5 DEF Resolver!Before, Resolver!At, KindOf
  <2>6. QED
    BY <2>2, <2>3, <2>4, <2>5
<1>5. ASSUME NEW i \in DOMAIN bundle[m], NEW j \in DOMAIN bundle[m] PROVE i < j \/ j < i \/ i = j
  BY <1>1, SMT
<1>6. QED
  BY <1>3, <1>4, <1>5 DEF Linked

LEMMA UsesSay ==
    ASSUME NEW m, Resolver!UsesFault(m) = "none"
    PROVE  Called(m)
<1>1. ASSUME NEW i \in DOMAIN bundle[m], NEW j \in DOMAIN bundle[m],
             KindOf(m, i) = "def", KindOf(m, j) = "from", bundle[m][j].local \in bundle[m][i].binds
      PROVE  FALSE
  <2>1. i \in Resolver!At(m, {"def", "async"})
    BY <1>1 DEF Resolver!At, KindOf
  <2>2. bundle[m][j].local \in Resolver!Imported(m)
    BY <1>1 DEF Resolver!Imported, Resolver!Imports, Resolver!At, KindOf
  <2>3. bundle[m][i].binds \cap Resolver!Imported(m) # {}
    BY <1>1, <2>2
  <2>4. QED
    BY <2>1, <2>3, Zenon DEF Resolver!UsesFault
<1>2. QED
  BY <1>1 DEF Called

LEMMA DeferredSays ==
    ASSUME NEW m, Resolver!Ineligible(m) = {}
    PROVE  Synchronous(m)
BY DEF Resolver!Ineligible, Resolver!NamesOf, Resolver!At, Synchronous, KindOf

-----------------------------------------------------------------------------
Right(m) == Declared(m) /\ Linked(m) /\ Called(m) /\ Synchronous(m)
AllRight == \A m \in Modules : Right(m)

Binder(m, i, name) == i \in DOMAIN bundle[m] /\ name \in Resolver!BoundBy(bundle[m][i])

LEMMA BinderFacts ==
    ASSUME AllRight, NEW m \in Modules, NEW name, NEW i, Binder(m, i, name)
    PROVE  \/ KindOf(m, i) = "from" /\ bundle[m][i].local = name
           \/ /\ KindOf(m, i) \in {"def", "class"} /\ bundle[m][i].name = name
              /\ KindOf(m, i) = "class" => AllowRecords
<1>1. /\ KindOf(m, i) \notin {"state", "async"} /\ i \in DOMAIN bundle[m]
      /\ KindOf(m, i) = "class" => AllowRecords
  BY DEF AllRight, Right, Declared, Synchronous, Binder
<1>2. QED
  BY <1>1 DEF Binder, Resolver!BoundBy, KindOf

(* A published module binds every name once. *)
LEMMA BoundOnce ==
    ASSUME AllRight, BundleTypes, NEW m \in Modules, NEW name, NEW i, Binder(m, i, name)
    PROVE  /\ \A j : Binder(m, j, name) => j = i
           /\ Resolver!LastBinding(m, name) = i
<1>1. Declared(m) /\ Linked(m) /\ i \in DOMAIN bundle[m] /\ i \in Nat
  BY StatementsAreCounted DEF AllRight, Right, Binder
<1>2. ASSUME NEW j, Binder(m, j, name) PROVE j = i
  <2>1. j \in DOMAIN bundle[m]
    BY <1>2 DEF Binder
  <2>2. \/ KindOf(m, i) = "from" /\ bundle[m][i].local = name
        \/ /\ KindOf(m, i) \in {"def", "class"} /\ bundle[m][i].name = name
           /\ KindOf(m, i) = "class" => AllowRecords
    BY BinderFacts
  <2>3. \/ KindOf(m, j) = "from" /\ bundle[m][j].local = name
        \/ /\ KindOf(m, j) \in {"def", "class"} /\ bundle[m][j].name = name
           /\ KindOf(m, j) = "class" => AllowRecords
    BY <1>2, BinderFacts
  <2>4. CASE KindOf(m, i) = "from" \/ KindOf(m, j) = "from"
    BY <1>1, <2>1, <2>2, <2>3, <2>4 DEF Linked
  <2>5. CASE KindOf(m, i) # "from" /\ KindOf(m, j) # "from"
    BY <1>1, <2>1, <2>2, <2>3, <2>5 DEF Declared, Binding
  <2>6. QED
    BY <2>4, <2>5
<1>3. /\ i \in DOMAIN bundle[m] /\ name \in Resolver!BoundBy(bundle[m][i])
      /\ \A j \in DOMAIN bundle[m] : name \in Resolver!BoundBy(bundle[m][j]) => j <= i
  BY <1>1, <1>2, SMT DEF Binder
<1>4. \A j \in DOMAIN bundle[m] : name \in Resolver!BoundBy(bundle[m][j]) => j = i
  BY <1>2 DEF Binder
<1>5. Resolver!LastBinding(m, name) = i
  BY <1>3, <1>4, Zenon DEF Resolver!LastBinding
<1>6. QED
  BY <1>2, <1>5

LEMMA NamesAreBound ==
    ASSUME NEW m
    PROVE  \A name : name \in Resolver!NamesIn(m) <=> \E i : Binder(m, i, name)
BY Zenon DEF Resolver!NamesIn, Binder

Bound(m, name) == bundle[m][Resolver!LastBinding(m, name)]

LEMMA BoundFacts ==
    ASSUME AllRight, BundleTypes, NEW m \in Modules, NEW name \in Resolver!NamesIn(m)
    PROVE  /\ Binder(m, Resolver!LastBinding(m, name), name)
           /\ \/ Bound(m, name).kind = "from" /\ Bound(m, name).local = name
              \/ Bound(m, name).kind \in {"def", "class"} /\ Bound(m, name).name = name
<1>1. PICK i : Binder(m, i, name)
  BY NamesAreBound
<1>2. Resolver!LastBinding(m, name) = i
  BY <1>1, BoundOnce
<1>3. QED
  BY <1>1, <1>2, BinderFacts DEF Bound, KindOf

(* An import is of a function its module defines. *)
LEMMA ImportFacts ==
    ASSUME AllRight, BundleTypes, NEW m \in Modules, NEW name \in Resolver!NamesIn(m),
           Bound(m, name).kind = "from"
    PROVE  /\ Bound(m, name).target \in Modules
           /\ Bound(m, name).name \in Resolver!NamesIn(Bound(m, name).target)
           /\ Bound(m, name).name \in Resolver!AllNames
           /\ Bound(Bound(m, name).target, Bound(m, name).name).kind = "def"
<1> DEFINE i == Resolver!LastBinding(m, name)
           t == bundle[m][i].target
           f == bundle[m][i].name
<1>1. i \in DOMAIN bundle[m] /\ KindOf(m, i) = "from"
  BY BoundFacts DEF Binder, Bound, KindOf
<1>2. t \in Modules /\ \E k \in DOMAIN bundle[t] : KindOf(t, k) = "def" /\ bundle[t][k].name = f
  BY <1>1 DEF AllRight, Right, Linked
<1>3. PICK k \in DOMAIN bundle[t] : KindOf(t, k) = "def" /\ bundle[t][k].name = f
  BY <1>2
<1>4. Binder(t, k, f)
  BY <1>3 DEF Binder, Resolver!BoundBy, KindOf
<1> HIDE DEF t, f, i
<1>5. f \in Resolver!NamesIn(t) /\ Resolver!LastBinding(t, f) = k
  BY <1>2, <1>4, NamesAreBound, BoundOnce
<1>6. f \in Resolver!AllNames
  BY <1>2, <1>5 DEF Resolver!AllNames, Modules
<1>7. QED
  BY <1>2, <1>3, <1>5, <1>6 DEF Bound, KindOf, t, f, i

-----------------------------------------------------------------------------
(* One round of Attribute, and the values it comes to. *)
Round(f, n) ==
    [m \in Modules |-> [name \in Resolver!AllNames |->
        IF name \notin Resolver!NamesIn(m) THEN Resolver!Plain
        ELSE LET s == bundle[m][Resolver!LastBinding(m, name)] IN
             CASE s.kind = "from" /\ s.target \in Modules /\ s.name \in Resolver!AllNames /\ n > 0
                      -> f[n - 1][s.target][s.name]
               [] s.kind \in {"def", "async", "class"} -> Resolver!Named(m, name)
               [] OTHER -> Resolver!Plain]]

LEMMA AttributeIs ==
    Resolver!Attribute = CHOOSE f : f = [n \in Nat |-> Round(f, n)]
BY DEF Resolver!Attribute, Round, Modules

LEMMA RoundAt ==
    ASSUME AllRight, BundleTypes, NEW m \in Modules, NEW name \in Resolver!AllNames, NEW f, NEW n \in Nat
    PROVE  /\ name \notin Resolver!NamesIn(m) => Round(f, n)[m][name] = Resolver!Plain
           /\ name \in Resolver!NamesIn(m) =>
                 /\ Bound(m, name).kind = "from" /\ n = 0 => Round(f, n)[m][name] = Resolver!Plain
                 /\ Bound(m, name).kind = "from" /\ n # 0
                      => Round(f, n)[m][name] = f[n - 1][Bound(m, name).target][Bound(m, name).name]
                 /\ Bound(m, name).kind # "from" => Round(f, n)[m][name] = Resolver!Named(m, name)
<1> DEFINE s == Bound(m, name)
           here == IF name \notin Resolver!NamesIn(m) THEN Resolver!Plain
                   ELSE CASE s.kind = "from" /\ s.target \in Modules /\ s.name \in Resolver!AllNames /\ n > 0
                            -> f[n - 1][s.target][s.name]
                     [] s.kind \in {"def", "async", "class"} -> Resolver!Named(m, name)
                     [] OTHER -> Resolver!Plain
<1>1. Round(f, n)[m][name] = here
  BY Zenon DEF Round, Bound
<1>2. name \in Resolver!NamesIn(m) =>
         /\ s.kind \in {"from", "def", "class"}
         /\ s.kind = "from" => s.target \in Modules /\ s.name \in Resolver!AllNames
  BY BoundFacts, ImportFacts
<1> HIDE DEF s
<1>3. n > 0 <=> n # 0
  BY SMT
<1>4. /\ name \notin Resolver!NamesIn(m) => here = Resolver!Plain
      /\ name \in Resolver!NamesIn(m) =>
                 /\ s.kind = "from" /\ n = 0 => here = Resolver!Plain
                 /\ s.kind = "from" /\ n # 0 => here = f[n - 1][s.target][s.name]
                 /\ s.kind # "from" => here = Resolver!Named(m, name)
  BY <1>2, <1>3
<1>5. QED
  BY <1>1, <1>4 DEF s

-----------------------------------------------------------------------------
(* What Attribute comes to in a published bundle, at once: imports lead to   *)
(* functions, never to another import.                                       *)
Own(m, name) ==
    IF name \in Resolver!NamesIn(m) /\ Bound(m, name).kind # "from" THEN Resolver!Named(m, name)
    ELSE Resolver!Plain
Followed(m, name) ==
    IF name \in Resolver!NamesIn(m) /\ Bound(m, name).kind = "from"
    THEN Resolver!Named(Bound(m, name).target, Bound(m, name).name)
    ELSE Own(m, name)

Values ==
    [n \in Nat |-> [m \in Modules |-> [name \in Resolver!AllNames |->
        IF n = 0 THEN Own(m, name) ELSE Followed(m, name)]]]

LEMMA ImportedOwn ==
    ASSUME AllRight, BundleTypes, NEW m \in Modules, NEW name \in Resolver!NamesIn(m),
           Bound(m, name).kind = "from"
    PROVE  LET t == Bound(m, name).target
               f == Bound(m, name).name
           IN  Own(t, f) = Resolver!Named(t, f) /\ Followed(t, f) = Resolver!Named(t, f)
BY ImportFacts DEF Own, Followed

LEMMA ValuesStep ==
    ASSUME AllRight, BundleTypes, NEW n \in Nat
    PROVE  Values[n] = Round(Values, n)
<1>1. ASSUME NEW m \in Modules, NEW name \in Resolver!AllNames
      PROVE  Round(Values, n)[m][name] = IF n = 0 THEN Own(m, name) ELSE Followed(m, name)
  <2>1. CASE name \notin Resolver!NamesIn(m)
    BY <2>1, RoundAt DEF Own, Followed
  <2>2. CASE name \in Resolver!NamesIn(m) /\ Bound(m, name).kind # "from"
    BY <2>2, RoundAt DEF Own, Followed
  <2>3. CASE name \in Resolver!NamesIn(m) /\ Bound(m, name).kind = "from" /\ n = 0
    BY <2>3, RoundAt DEF Own
  <2>4. CASE name \in Resolver!NamesIn(m) /\ Bound(m, name).kind = "from" /\ n # 0
    <3> DEFINE t == Bound(m, name).target
               f == Bound(m, name).name
    <3>1. Round(Values, n)[m][name] = Values[n - 1][t][f]
      BY <2>4, RoundAt
    <3>2. n - 1 \in Nat
      BY <2>4, SMT
    <3>3. t \in Modules /\ f \in Resolver!AllNames
      BY <2>4, ImportFacts
    <3>4. Own(t, f) = Resolver!Named(t, f) /\ Followed(t, f) = Resolver!Named(t, f)
      BY <2>4, ImportedOwn
    <3> HIDE DEF t, f
    <3>5. Values[n - 1][t][f] = Resolver!Named(t, f)
      BY <3>2, <3>3, <3>4 DEF Values
    <3>6. QED
      BY <2>4, <3>1, <3>5 DEF Followed, t, f
  <2>5. QED
    BY <2>1, <2>2, <2>3, <2>4
<1>2. Round(Values, n) = [m \in Modules |-> [name \in Resolver!AllNames |-> Round(Values, n)[m][name]]]
  BY ZenonT(60) DEF Round
<1>3. Values[n] = [m \in Modules |-> [name \in Resolver!AllNames |->
                     IF n = 0 THEN Own(m, name) ELSE Followed(m, name)]]
  BY DEF Values
<1>4. QED
  BY <1>1, <1>2, <1>3, Zenon

LEMMA AttributeUnfolds ==
    ASSUME AllRight, BundleTypes, NEW n \in Nat
    PROVE  Resolver!Attribute[n] = Round(Resolver!Attribute, n)
<1>1. Values = [k \in Nat |-> Round(Values, k)]
  <2>1. Values = [k \in Nat |-> Values[k]]
    BY Zenon DEF Values
  <2>2. QED
    BY <2>1, ValuesStep, Zenon
<1>2. Resolver!Attribute = [k \in Nat |-> Round(Resolver!Attribute, k)]
  BY <1>1, AttributeIs, Zenon
<1>3. QED
  BY <1>2, Zenon

(* The meaning of a name in a published module: its own, or that of the      *)
(* function its import names.                                                *)
LEMMA AttributeMeans ==
    ASSUME AllRight, BundleTypes, NEW m \in Modules, NEW name \in Resolver!AllNames
    PROVE  Resolver!Attribute[Len(Listing)][m][name] = Followed(m, name)
<1> DEFINE n == Len(Listing)
           a == Resolver!Attribute
<1>1. n \in Nat /\ n # 0 /\ n - 1 \in Nat
  BY ListingFacts, SMT
<1>2. a[n] = Round(a, n) /\ a[n - 1] = Round(a, n - 1)
  BY <1>1, AttributeUnfolds
<1>3. CASE name \in Resolver!NamesIn(m) /\ Bound(m, name).kind = "from"
  <2> DEFINE t == Bound(m, name).target
             f == Bound(m, name).name
  <2>1. a[n][m][name] = a[n - 1][t][f]
    BY <1>1, <1>2, <1>3, RoundAt
  <2>2. t \in Modules /\ f \in Resolver!AllNames /\ f \in Resolver!NamesIn(t) /\ Bound(t, f).kind # "from"
    BY <1>3, ImportFacts
  <2> HIDE DEF t, f, n, a
  <2>3. Round(a, n - 1)[t][f] = Resolver!Named(t, f)
    BY <1>1, <2>2, RoundAt
  <2>4. QED
    BY <1>2, <1>3, <2>1, <2>3 DEF Followed, t, f, n, a
<1>4. CASE ~(name \in Resolver!NamesIn(m) /\ Bound(m, name).kind = "from")
  <2>1. Round(a, n)[m][name] = Own(m, name)
    <3> HIDE DEF a, n
    <3>1. QED
      BY <1>1, <1>4, RoundAt DEF Own
  <2>2. QED
    BY <1>2, <1>4, <2>1 DEF Followed
<1>5. QED
  BY <1>3, <1>4

LEMMA Renaming ==
    ASSUME AllRight, BundleTypes, NEW m \in Modules, NEW i \in Resolver!At(m, {"def"}), NEW name
    PROVE  Resolver!Flattened(m, i, name) = Resolver!Meaning(m, i, name)
<1> DEFINE binds == bundle[m][i].binds
<1>0. i \in DOMAIN bundle[m] /\ KindOf(m, i) = "def"
  BY DEF Resolver!At, KindOf
<1>1. \A x : x \in Resolver!Imported(m) <=>
        \E j \in DOMAIN bundle[m] : KindOf(m, j) = "from" /\ bundle[m][j].local = x
  BY DEF Resolver!Imported, Resolver!Imports, Resolver!At, KindOf
<1>2. name \in Resolver!Imported(m) => name \notin binds
  BY <1>0, <1>1 DEF AllRight, Right, Called
<1>3. \A x : x \in Resolver!Functions(m) <=>
        \E j \in DOMAIN bundle[m] : KindOf(m, j) = "def" /\ bundle[m][j].name = x
  BY DEF Resolver!Functions, Resolver!NamesOf, Resolver!At, KindOf
<1>4. \A x : x \in Resolver!Records(m) <=>
        AllowRecords /\ \E j \in DOMAIN bundle[m] : KindOf(m, j) = "class" /\ bundle[m][j].name = x
  BY DEF Resolver!Records, Resolver!NamesOf, Resolver!At, KindOf
<1>5. ASSUME NEW j \in DOMAIN bundle[m]
      PROVE  /\ KindOf(m, j) = "from" => Binder(m, j, bundle[m][j].local)
             /\ KindOf(m, j) \in {"def", "class"} => Binder(m, j, bundle[m][j].name)
  BY DEF Binder, Resolver!BoundBy, KindOf
<1>6. name \in Resolver!NamesIn(m) <=>
        name \in Resolver!Imported(m) \cup Resolver!Functions(m) \cup Resolver!Records(m)
  <2>1. ASSUME NEW j, Binder(m, j, name)
        PROVE  name \in Resolver!Imported(m) \cup Resolver!Functions(m) \cup Resolver!Records(m)
    <3>1. j \in DOMAIN bundle[m]
      BY <2>1 DEF Binder
    <3>2. QED
      BY <1>1, <1>3, <1>4, <2>1, <3>1, BinderFacts
  <2>2. ASSUME name \in Resolver!Imported(m) \cup Resolver!Functions(m) \cup Resolver!Records(m)
        PROVE  \E j : Binder(m, j, name)
    BY <1>1, <1>3, <1>4, <1>5, <2>2
  <2>3. QED
    BY <2>1, <2>2, NamesAreBound
<1>7. name \in Resolver!Imported(m) =>
        /\ Bound(m, name).kind = "from"
        /\ bundle[m][CHOOSE j \in Resolver!Imports(m) : bundle[m][j].local = name] = Bound(m, name)
  <2>1. SUFFICES ASSUME name \in Resolver!Imported(m)
                 PROVE  /\ Bound(m, name).kind = "from"
                        /\ bundle[m][CHOOSE j \in Resolver!Imports(m) : bundle[m][j].local = name] = Bound(m, name)
    OBVIOUS
  <2>2. PICK k \in DOMAIN bundle[m] : KindOf(m, k) = "from" /\ bundle[m][k].local = name
    BY <1>1, <2>1
  <2>3. Binder(m, k, name)
    BY <1>5, <2>2
  <2>4. Resolver!LastBinding(m, name) = k
    BY <2>3, BoundOnce
  <2>5. \A j \in Resolver!Imports(m) : bundle[m][j].local = name => j = k
    <3>1. ASSUME NEW j \in Resolver!Imports(m), bundle[m][j].local = name PROVE j = k
      <4>1. j \in DOMAIN bundle[m] /\ KindOf(m, j) = "from"
        BY DEF Resolver!Imports, Resolver!At, KindOf
      <4>2. Binder(m, j, name)
        BY <1>5, <3>1, <4>1
      <4>3. QED
        BY <2>3, <4>2, BoundOnce
    <3>2. QED
      BY <3>1
  <2>6. k \in Resolver!Imports(m)
    BY <2>2 DEF Resolver!Imports, Resolver!At, KindOf
  <2>7. (CHOOSE j \in Resolver!Imports(m) : bundle[m][j].local = name) = k
    BY <2>2, <2>5, <2>6, Zenon
  <2>8. QED
    BY <2>2, <2>4, <2>7 DEF Bound, KindOf
<1>8. name \in Resolver!NamesIn(m) /\ name \notin Resolver!Imported(m) => Bound(m, name).kind # "from"
  <2>1. SUFFICES ASSUME name \in Resolver!NamesIn(m), Bound(m, name).kind = "from"
                 PROVE  name \in Resolver!Imported(m)
    OBVIOUS
  <2>2. Binder(m, Resolver!LastBinding(m, name), name) /\ Bound(m, name).local = name
    BY <2>1, BoundFacts
  <2>3. QED
    BY <1>1, <2>1, <2>2 DEF Binder, Bound, KindOf
<1>9. name \in Resolver!NamesIn(m) => name \in Resolver!AllNames
  BY Zenon DEF Resolver!AllNames, Modules
<1>10. CASE name \in binds \/ name \notin Resolver!AllNames
  <2>1. Resolver!Meaning(m, i, name) = Resolver!Plain
    BY <1>10 DEF Resolver!Meaning
  <2>2. name \notin Resolver!Imported(m) /\ name \notin (Resolver!Functions(m) \cup Resolver!Records(m)) \ binds
    BY <1>2, <1>6, <1>9, <1>10
  <2>3. QED
    BY <2>1, <2>2 DEF Resolver!Flattened
<1>11. CASE name \notin binds /\ name \in Resolver!AllNames
  <2>1. Resolver!Meaning(m, i, name) = Followed(m, name)
    BY <1>11, AttributeMeans DEF Resolver!Meaning
  <2>2. CASE name \in Resolver!Imported(m)
    BY <1>6, <1>7, <2>1, <2>2 DEF Resolver!Flattened, Followed
  <2>3. CASE name \notin Resolver!Imported(m) /\ name \in Resolver!NamesIn(m)
    BY <1>6, <1>8, <1>11, <2>1, <2>3 DEF Resolver!Flattened, Followed, Own
  <2>4. CASE name \notin Resolver!NamesIn(m)
    BY <1>6, <2>1, <2>4 DEF Resolver!Flattened, Followed, Own
  <2>5. QED
    BY <2>2, <2>3, <2>4
<1>12. QED
  BY <1>10, <1>11

-----------------------------------------------------------------------------
(* What the loops of analyze() have passed so far. *)

Passed(here, later, Holds(_)) ==
    /\ phase = here => \A i \in 1 .. position : Holds(Listing[i])
    /\ phase \in later \/ verdict.code = "published" => \A m \in Modules : Holds(m)

CheckedSoFar ==
    /\ Passed("shape", {"count", "imports", "uses", "deferred", "order"}, Declared)
    /\ Passed("imports", {"uses", "deferred", "order"}, Linked)
    /\ Passed("uses", {"deferred", "order"}, Called)
    /\ Passed("deferred", {"order"}, Synchronous)

LEMMA JudgementsStand ==
    ASSUME UNCHANGED bundle
    PROVE  /\ \A m : Declared(m)' = Declared(m)
           /\ \A m : Linked(m)' = Linked(m)
           /\ \A m : Called(m)' = Called(m)
           /\ \A m : Synchronous(m)' = Synchronous(m)
<1>1. \A m : Declared(m)' = Declared(m)
  BY DEF Declared, KindOf
<1>2. \A m : Linked(m)' = Linked(m)
  BY DEF Linked, KindOf, Modules, Resolver!Modules
<1>3. \A m : Called(m)' = Called(m)
  BY DEF Called, KindOf
<1>4. \A m : Synchronous(m)' = Synchronous(m)
  BY DEF Synchronous, KindOf
<1>5. QED
  BY <1>1, <1>2, <1>3, <1>4

LEMMA FaultlessMeans ==
    ASSUME BundleTypes, NEW m \in Modules, Resolver!Fault(m) = "none"
    PROVE  /\ phase = "shape" => Declared(m)
           /\ phase = "imports" => Linked(m)
           /\ phase = "uses" => Called(m)
           /\ phase = "deferred" => Synchronous(m)
BY ShapeSays, LinkSays, UsesSay, DeferredSays DEF Resolver!Fault

LEMMA CheckedKept ==
    ASSUME LayoutInv, CheckedSoFar, Resolver!Analyze \/ UNCHANGED moduleVars
    PROVE  CheckedSoFar'
<1>1. /\ BundleTypes /\ UNCHANGED bundle
      /\ phase # "done" => verdict.code = "none"
      /\ position \in 0 .. Len(Listing) /\ (phase = "count" => position = 0)
  BY DEF LayoutInv, BundleTypes, VerdictOK, Resolver!Analyze, moduleVars, Resolver!CheckCanceled,
         Resolver!Examine, Resolver!EndLoop, Resolver!CountImports, Resolver!StartOrder,
         Resolver!LayOut, Resolver!EndOrder
<1>2. /\ \A m : Declared(m)' = Declared(m)
      /\ \A m : Linked(m)' = Linked(m)
      /\ \A m : Called(m)' = Called(m)
      /\ \A m : Synchronous(m)' = Synchronous(m)
  BY <1>1, JudgementsStand
<1>3. CASE UNCHANGED moduleVars
  BY <1>2, <1>3 DEF CheckedSoFar, Passed, moduleVars
<1>4. ASSUME phase' = "done", verdict'.code # "published" PROVE CheckedSoFar'
  BY <1>4 DEF CheckedSoFar, Passed
<1>5. CASE Resolver!CheckCanceled
  BY <1>4, <1>5 DEF Resolver!CheckCanceled, Resolver!Conclude
<1>6. CASE Resolver!Examine
  <2> DEFINE m == Listing[position + 1]
  <2>1. /\ phase \in Examining /\ position + 1 \in 1 .. Len(Listing) /\ m \in Modules
    BY <1>1, <1>6, ListingFacts, SMT DEF Resolver!Examine, Examining
  <2>2. CASE Resolver!Fault(m) = "none"
    <3>1. UNCHANGED <<phase, verdict>> /\ position' = position + 1
      BY <1>6, <2>2 DEF Resolver!Examine
    <3>2. \A i \in 1 .. position' : i = position + 1 \/ i \in 1 .. position
      BY <1>1, <3>1, SMT
    <3>3. /\ phase = "shape" => Declared(m)
          /\ phase = "imports" => Linked(m)
          /\ phase = "uses" => Called(m)
          /\ phase = "deferred" => Synchronous(m)
      BY <1>1, <2>1, <2>2, FaultlessMeans
    <3> HIDE DEF m
    <3>4. QED
      BY <1>2, <3>1, <3>2, <3>3 DEF CheckedSoFar, Passed, m
  <2>3. CASE Resolver!Fault(m) # "none"
    <3>1. Resolver!Fault(m) # "published"
      BY <1>1, <2>1, <2>3, Faults DEF Harmless
    <3>2. phase' = "done" /\ verdict'.code # "published"
      BY <1>6, <2>3, <3>1 DEF Resolver!Examine, Resolver!Conclude
    <3>3. QED
      BY <1>4, <3>2
  <2>4. QED
    BY <2>2, <2>3
<1>7. CASE Resolver!EndLoop
  <2>1. /\ phase \in {"shape", "imports", "uses"} /\ position = Len(Listing) /\ position' = 0
        /\ UNCHANGED verdict
        /\ phase' = IF phase = "shape" THEN "count" ELSE IF phase = "imports" THEN "uses" ELSE "deferred"
    BY <1>7 DEF Resolver!EndLoop, Resolver!FollowingPhase
  <2>2. \A m \in Modules : \E i \in 1 .. position : Listing[i] = m
    BY <2>1, ListingFacts
  <2>3. \A i \in 1 .. position' : FALSE
    BY <2>1, SMT
  <2>4. QED
    BY <1>1, <1>2, <2>1, <2>2, <2>3 DEF CheckedSoFar, Passed
<1>8. CASE Resolver!CountImports
  <2>1. CASE phase = "count" /\ phase' = "imports" /\ UNCHANGED <<verdict, position>>
    <3>1. \A i \in 1 .. position' : FALSE
      BY <1>1, <2>1, SMT
    <3>2. QED
      BY <1>1, <1>2, <2>1, <3>1 DEF CheckedSoFar, Passed
  <2>2. CASE phase' = "done" /\ verdict'.code = "PYC3510"
    BY <1>4, <2>2
  <2>3. QED
    BY <1>8, <2>1, <2>2 DEF Resolver!CountImports, Resolver!Conclude
<1>9. CASE Resolver!StartOrder
  <2>1. /\ phase = "deferred" /\ position = Len(Listing) /\ phase' = "order"
        /\ UNCHANGED verdict
    BY <1>9 DEF Resolver!StartOrder
  <2>2. \A m \in Modules : \E i \in 1 .. position : Listing[i] = m
    BY <2>1, ListingFacts
  <2>3. QED
    BY <1>1, <1>2, <2>1, <2>2 DEF CheckedSoFar, Passed
<1>10. CASE Resolver!LayOut
  BY <1>2, <1>10 DEF Resolver!LayOut, CheckedSoFar, Passed
<1>11. CASE Resolver!EndOrder
  BY <1>2, <1>11 DEF Resolver!EndOrder, Resolver!Conclude, CheckedSoFar, Passed
<1>12. QED
  BY <1>3, <1>5, <1>6, <1>7, <1>8, <1>9, <1>10, <1>11 DEF Resolver!Analyze

LEMMA CheckedInitially == Init => CheckedSoFar
<1> SUFFICES ASSUME Init PROVE CheckedSoFar
  OBVIOUS
<1>1. phase = "shape" /\ position = 0 /\ verdict.code = "none"
  BY DEF Init, Resolver!Init, Resolver!NoVerdict
<1>2. \A i \in 1 .. position : FALSE
  BY <1>1, SMT
<1>3. QED
  BY <1>1, <1>2 DEF CheckedSoFar, Passed

(* For bundles of any size, whatever modules, functions, imports, parameters *)
(* and local variables share their names: a call of the published program    *)
(* refers to what Python's rules for attributes and scopes make of it        *)
(* (analyze and _publish).                                                   *)
THEOREM PublishedCallsMeanTheSame == Spec => []CallsMeanTheSame
<1>1. LayoutInv /\ CheckedSoFar => CallsMeanTheSame
  <2> SUFFICES ASSUME LayoutInv, CheckedSoFar, verdict.code = "published",
                      NEW m \in Modules, NEW i \in Resolver!At(m, {"def"}), NEW name
               PROVE  Resolver!Flattened(m, i, name) = Resolver!Meaning(m, i, name)
    BY DEF CallsMeanTheSame, Resolver!CallsMeanTheSame, Modules
  <2>1. AllRight /\ BundleTypes
    BY DEF LayoutInv, CheckedSoFar, Passed, AllRight, Right
  <2>2. QED
    BY <2>1, Renaming
<1>2. LayoutInv /\ CheckedSoFar /\ [Next]_vars => CheckedSoFar'
  BY CheckedKept, StepIsResolvers
<1>3. QED
  BY <1>1, <1>2, CheckedInitially, LayoutInvariance, PTL DEF Spec
=============================================================================
