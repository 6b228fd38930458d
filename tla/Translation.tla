------------------------------ MODULE Translation ------------------------------
(***************************************************************************)
(* One function on its way through the converter: analyzed, lowered to C,  *)
(* the C validated and printed; then the function and the C, as a compiler *)
(* reads it, are run on the same arguments, the functions they call giving *)
(* the same answers.                                                       *)
(***************************************************************************)
EXTENDS CValidation, FactValidation, COutput

CONSTANTS
    Programs,    \* the functions that are converted, in families
    Values,      \* the integers arguments and answers are taken from
    Answers,     \* the answers of the functions called: non-empty sequences
    MaxTurns     \* how many turns of loops a run is followed for

Run == INSTANCE Semantics

(* The trees of the helpers compute the functions of Division.                *)
ASSUME HelpersDivide ==
    \A l \in -7 .. 7, r \in (-4 .. 4) \ {0} :
        /\ Run!CHelper(FloorDivide, l, r).value = Run!HelperQuotient(l, r)
        /\ Run!CHelper(FloorModulo, l, r).value = Run!HelperRemainder(l, r)

VARIABLES program, stage, verdict, code, runs
vars == <<program, stage, verdict, code, runs>>

Init ==
    /\ \E family \in Programs : program \in family
    /\ stage = "parsed"
    /\ verdict = "open"
    /\ code = <<>>
    /\ runs = <<>>

AnalyzedAs(facts) ==
    IF RefusedAtOnce(program, facts) THEN "refused"
    ELSE IF ~FactsConfirmed(program, facts) THEN "failed"
    ELSE IF RefusedInAnalysis(program, facts) THEN "refused"
    ELSE "open"

(* AnalysisPlanningStage.run; of what is refused but not at once, the lowering *)
(* stage is the one that says so.                                             *)
Analyze ==
    /\ stage = "parsed"
    /\ stage' = "analyzed"
    /\ verdict' = AnalyzedAs(Facts(program))
    /\ UNCHANGED <<program, code, runs>>

(* FirstSliceLoweringStage.run: the C IR and its validation,                  *)
Lower ==
    /\ stage = "analyzed" /\ verdict = "open"
    /\ stage' = "lowered"
    /\ code' = Function(program)
    /\ verdict' = CASE RefusedInLowering(code') -> "refused"
                    [] ~RefusedInLowering(code') /\ ~ValidFunction(program, code') -> "failed"
                    [] OTHER -> "open"
    /\ UNCHANGED <<program, runs>>

(* the text and its validation; from here on the C is what is read of it.     *)
PublishedAs(text) ==
    /\ verdict' = IF Conforming(text) THEN "converted" ELSE "failed"
    /\ code' = Compiled(text)
Render ==
    /\ stage = "lowered" /\ verdict = "open"
    /\ stage' = "rendered"
    /\ PublishedAs(RenderedBlock(code))
    /\ UNCHANGED <<program, runs>>

ValuesOf(category) == IF category = "boolean" THEN {0, 1} ELSE Values

(* Not part of the converter: the two programs are run side by side.          *)
Execute ==
    /\ stage = "rendered" /\ verdict = "converted"
    /\ stage' = "run"
    /\ \E arguments \in [DOMAIN program.parameters -> {0, 1} \cup Values], answers \in Answers :
          /\ \A x \in DOMAIN arguments : arguments[x] \in ValuesOf(program.parameters[x])
          /\ runs' = <<Run!PyBlock(program.body, Run!Starting(arguments, answers)),
                       Run!CBlock(code, Run!Starting(
                           [v \in DOMAIN Scope(program.parameters) |-> arguments[v[2]]], answers))>>
    /\ UNCHANGED <<program, verdict, code>>

Next == Analyze \/ Lower \/ Render \/ Execute
Spec == Init /\ [][Next]_vars

-----------------------------------------------------------------------------
(* The C of a converted function makes the calls the Python function makes,   *)
(* in the same order and with the same arguments, ends as it ends and returns *)
(* what it returns, and reads no variable before or outside its declaration.  *)
SameBehaviour ==
    stage = "run" =>
        LET python == runs[1]  c == runs[2] IN
        /\ ~python.wrong /\ ~c.wrong
        /\ python.calls = c.calls
        /\ python.signal = c.signal
        /\ python.signal = "return" => python.value = c.value

(* A call is supported only if Python would accept it, binding the same       *)
(* argument to each parameter; one without unpacking that Python would accept *)
(* is refused only for the representation of an argument.                     *)
CallsBindLikePython ==
    stage = "parsed" =>
        LET facts == Facts(program)
        IN \A e \in Expressions(program) : e.op = "call" =>
              LET signature == Signatures[e.function]
              IN Run!BindsAsPython(signature, e.arguments, Fault(e, facts),
                     [i \in DOMAIN e.arguments |-> Ordinal(signature, e.arguments, i)])

(* The validators find nothing wrong with what the analysis and the lowering  *)
(* did not refuse, but for two things: a value negated that is no number, which *)
(* no check before them refuses, and a parameter given another representation, *)
(* which is refused only after the facts are validated.                       *)
NegatesNoNumber(program0, facts) ==
    \E e \in Expressions(program0) : e.op = "negate" /\ Category(e.of, facts) # "integer"
ParameterConflict(program0, facts) ==
    \E x \in DOMAIN program0.parameters : facts.names[x] = "contradictory"
Excused(program0, facts) == NegatesNoNumber(program0, facts) \/ ParameterConflict(program0, facts)
ValidatorIsLastResort == verdict = "failed" => Excused(program, Facts(program))
=============================================================================
