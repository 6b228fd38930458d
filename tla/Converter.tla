------------------------------- MODULE Converter -------------------------------
(***************************************************************************)
(* One conversion in its worker: the pipeline of ConversionWorker with its *)
(* first four stages filled in.  The frontend measures the documents of    *)
(* the bundle and holds them against the resource policy                   *)
(* (converter/frontend/stages.py), ModuleResolution lays the modules out.  *)
(* What the analysis and the lowering stage come back with is left open.   *)
(***************************************************************************)
EXTENDS ConversionWorker, FiniteSetsExt

CONSTANTS
    Listing, Submodules, MaxImportEdges, AllowRecords,  \* of ModuleResolution
    Inputs,      \* the bundles converted, with the size of each document
    Policy       \* the ceilings of the resource policy

(* A bundle has a primary document and no two of one module ID (canonicalize);*)
(* each is a list of statements.                                              *)
ASSUME ModulesAssumption ==
    /\ Listing \in Seq(Nat) /\ Listing # <<>>
    /\ \A i, j \in DOMAIN Listing : Listing[i] = Listing[j] => i = j
    /\ MaxImportEdges \in Nat
    /\ AllowRecords \in BOOLEAN
    /\ Policy.depth \in Nat
    /\ \A input \in Inputs : \A i \in DOMAIN Listing :
          DOMAIN input.bundle[Listing[i]] \subseteq Nat /\ input.measure[Listing[i]].depth \in Nat

VARIABLES
    bundle, phase, position, dependencies, ready, order, verdict,  \* of ModuleResolution
    measure      \* the size of each document

Resolver == INSTANCE ModuleResolution
                WITH canceled <- token, Bundles <- {input.bundle : input \in Inputs}

moduleVars == <<bundle, phase, position, dependencies, ready, order, verdict>>
vars == <<workerVars, moduleVars, measure>>

StageNames == <<"source_document", "parse", "normalize", "modules", "analysis", "lowering">>
ASSUME PipelineAssumption == Stages = Len(StageNames)

Working(stage) == at = "run" /\ StageNames[published + 1] = stage

-----------------------------------------------------------------------------
(* The frontend: document by document in the order of the bundle. *)

(* What the documents up to the i-th have of lines, tokens, nodes or bytes.   *)
Total(sizes, i, what) == MapThenSumSet(LAMBDA j : sizes[Listing[j]][what], 1 .. i)

(* Variant: the ceilings hold for each document by itself. *)
WithinAlone(i, what) == measure[Listing[i]][what] <= Policy[what]

(* The ceilings hold for the documents together. *)
Within(i, what) == Total(measure, i, what) <= Policy[what]

SourceFault(i) ==
    \/ ~Within(i, "lines")                   \* PYC3510
    \/ ~measure[Listing[i]].tokenizes        \* PYC2002
    \/ ~Within(i, "tokens")                  \* PYC3510
ParseFault(i) ==
    \/ ~measure[Listing[i]].parses           \* PYC2001
    \/ measure[Listing[i]].depth > Policy.depth  \* PYC2006
    \/ ~Within(i, "nodes")                   \* PYC3510

(* canonicalize: the ceiling on the bytes of all documents; its other checks  *)
(* are of the request's form.                                                 *)
CanonicalizeBundle ==
    /\ Canonicalize
    /\ ~Within(Len(Listing), "bytes") => result' = "Rejected"

(* A stage that meets a fault is rejected, and it may be canceled before it   *)
(* gets there. Fingerprinting text that is no Unicode raises.                 *)
Frontend(stage, fault) ==
    /\ Working(stage)
    /\ \/ ~fault /\ RunStage("completed")
       \/ fault /\ RunStage("Rejected")
       \/ RunStage("Canceled")
    /\ UNCHANGED moduleVars

SourceDocuments == Frontend("source_document", \E i \in DOMAIN Listing : SourceFault(i))
Parse == Frontend("parse", \E i \in DOMAIN Listing : ParseFault(i))
Normalize ==
    /\ Working("normalize")
    /\ \/ (\A i \in DOMAIN Listing : measure[Listing[i]].unicode) /\ RunStage("completed")
       \/ (\E i \in DOMAIN Listing : ~measure[Listing[i]].unicode) /\ RunStage("raised")
       \/ RunStage("Canceled")
    /\ UNCHANGED moduleVars

(* ModuleResolutionStage.run: the analyzer's steps, then its verdict. *)
Resolve ==
    /\ Working("modules")
    /\ Resolver!Analyze
    /\ UNCHANGED workerVars
ResolveEnds ==
    /\ Working("modules") /\ phase = "done"
    /\ \/ verdict.code = "published" /\ RunStage("completed")
       \/ verdict.code = "canceled" /\ RunStage("Canceled")
       \/ verdict.code \notin {"published", "canceled"} /\ RunStage("Rejected")
    /\ UNCHANGED moduleVars

(* An integer of more digits than int64 has is never lowered. *)
Wide == \E i \in DOMAIN Listing : measure[Listing[i]].wide
Translate ==
    /\ Working("analysis") \/ Working("lowering")
    /\ \/ ~Wide /\ RunStage("completed")
       \/ Wide /\ Working("analysis") /\ RunStage("completed")
       \/ \E outcome \in Outcomes \ {"completed"} : RunStage(outcome)
    /\ UNCHANGED moduleVars

-----------------------------------------------------------------------------
Init ==
    /\ WorkerInit
    /\ Resolver!Init
    /\ measure \in {input.measure : input \in {i \in Inputs : i.bundle = bundle}}

Convert ==
    \/ SourceDocuments \/ Parse \/ Normalize \/ Resolve \/ ResolveEnds \/ Translate
    \/ (Around \/ CanonicalizeBundle) /\ UNCHANGED moduleVars
Observe == (SendCancel \/ Listen) /\ UNCHANGED moduleVars
Exited == at = "exited" /\ UNCHANGED <<workerVars, moduleVars>>

Next == (Convert \/ Observe \/ Exited) /\ UNCHANGED measure

(* The converting thread runs: every stage ends.                              *)
Spec == Init /\ [][Next]_vars /\ WF_vars(Convert /\ UNCHANGED measure)

-----------------------------------------------------------------------------
(* Properties *)

(* The progress of a conversion that completes every stage. *)
Story ==
    <<Event("pipeline-ready", 0)>> \o
    [k \in 1 .. 2 * Stages |->
        Event(IF k % 2 = 1 THEN "stage-entered" ELSE "stage-completed", (k + 1) \div 2)]
Ends == {Event("result", status) : status \in Statuses}
          \cup {Event("failure", class) : class \in Classes}

(* The worker keeps its promise to the supervisor (worker_main, convert):     *)
(* progress without a gap, one end at most and nothing after it, and an exit. *)
Stream == INSTANCE ReportStream WITH log <- sent, over <- (at = "exited")
StreamIsTold == Stream!Spec

(* What is converted was within every ceiling of the policy, taken over the   *)
(* whole bundle, was Python throughout, and is laid out without a cycle       *)
(* (frontend/stages.py, modules/analysis.py).                                 *)
ConvertedIsAdmitted ==
    result = "Converted" =>
        /\ \A what \in {"bytes", "lines", "tokens", "nodes"} :
              Total(measure, Len(Listing), what) <= Policy[what]
        /\ \A i \in DOMAIN Listing :
              /\ measure[Listing[i]].tokenizes /\ measure[Listing[i]].parses
              /\ measure[Listing[i]].depth <= Policy.depth
        /\ Len(order) = Len(Listing) /\ Resolver!OnCycle = {}

(* What ModuleResolution promises, in whatever order it is interrupted: a     *)
(* published bundle calls what the Python modules call, and is laid out with  *)
(* every module after those it imports (modules/analysis.py, _publish and     *)
(* _dependency_first_order).                                                  *)
CallsMeanTheSame == Resolver!CallsMeanTheSame
OrderIsSound == Resolver!OrderIsSound
=============================================================================
