----------------------------- MODULE FactValidation -----------------------------
(***************************************************************************)
(* The facts found out a second time, before anything is lowered:          *)
(* analysis/validation.py, keyword_calls/validation.py,                    *)
(* keyword_only_calls/validation.py, conditional_regions/validation.py.    *)
(* These read the program and the simpler facts, never the analyzers, and  *)
(* rebuild the others in a way of their own; where the two differ the      *)
(* conversion is an internal failure, not a refusal.  Left out: identities,*)
(* orders and schemas of tables, provenance, and the plans and module      *)
(* tables that repeat the facts.                                           *)
(***************************************************************************)
EXTENDS FunctionFacts, CallRebinding

-----------------------------------------------------------------------------
(* Calls with keywords: found a second time, they bind the same.              *)
BindingConfirmed(e, facts) ==
    LET signature == Signatures[e.function] IN
    KeywordCandidate(signature, e.arguments) \/ KeywordOnlyCandidate(signature) =>
        SameBinding(signature, e.arguments, ArgumentCategories(e, facts), Rebound(signature, e.arguments))

(* The category an argument has by its form and the annotations alone.        *)
RECURSIVE CategoryByForm(_, _)
FormOfArithmetic(l, r) == IF l = r /\ l \in {"integer", "string"} THEN l ELSE "none"
CategoryByForm(e, program) ==
    CASE e.op = "const" -> e.category
      [] e.op = "name" /\ e.name \in DOMAIN program.parameters -> program.parameters[e.name]
      [] e.op = "call" -> Signatures[e.function].returns
      [] e.op = "not" ->
            IF CategoryByForm(e.of, program) \in {"integer", "boolean"} THEN "boolean" ELSE "none"
      [] e.op = "negate" ->
            IF CategoryByForm(e.of, program) = "integer" THEN "integer" ELSE "none"
      [] e.op \in {"and", "or"} ->
            IF {CategoryByForm(o, program) : o \in ToSet(e.operands)} = {"boolean"} THEN "boolean" ELSE "none"
      [] e.op = "compare" ->
            IF {CategoryByForm(o, program) : o \in ToSet(e.operands)} \in {{"integer"}, {"boolean"}}
            THEN "boolean" ELSE "none"
      [] e.op \in Arithmetic ->
            FormOfArithmetic(CategoryByForm(e.left, program), CategoryByForm(e.right, program))
      [] OTHER -> "none"

(* Of a call with keyword-only parameters, no argument's form says otherwise. *)
CategoriesConfirmed(e, program, facts) ==
    KeywordOnlyCandidate(Signatures[e.function]) =>
        \A i \in {j \in DOMAIN e.arguments : e.arguments[j].kind # "starred"} :
            CategoryByForm(e.arguments[i].value, program)
               \in {"none", Category(e.arguments[i].value, facts)}

-----------------------------------------------------------------------------
(* Conditional regions: what is approved is collected from the leaves up, and  *)
(* so are the expressions that need a statement of their own.                  *)

Approves(e, approved, facts) ==
    LET category == Category(e, facts) IN
    CASE e.op \in {"name", "const"} -> category \in Scalar
      [] e.op \in {"item", "field"} -> e \in DOMAIN facts.accesses /\ category \in Scalar
      [] e.op = "call" ->
            Supported(e, facts) /\ category \in Scalar /\ PlainArguments(e) \subseteq approved
      [] e.op = "not" -> /\ e.of \in approved /\ category = "boolean"
                         /\ Category(e.of, facts) \in {"integer", "boolean"}
      [] e.op = "negate" -> e.of \in approved /\ category = "integer"
      [] e.op \in {"add", "sub"} -> {e.left, e.right} \subseteq approved /\ category = "integer"
      [] e.op \in {"floordiv", "mod"} -> {e.left, e.right} \subseteq approved
      [] e.op \in {"and", "or"} -> /\ ToSet(e.operands) \subseteq approved /\ category = "boolean"
                                   /\ \A o \in ToSet(e.operands) : Category(o, facts) = "boolean"
      [] e.op = "compare" ->
            /\ ToSet(e.operands) \subseteq approved /\ category = "boolean"
            /\ {Category(o, facts) : o \in ToSet(e.operands)} \in {{"integer"}, {"boolean"}}
      [] OTHER -> FALSE
RECURSIVE Reapproved(_, _, _)
Reapproved(expressions, approved, facts) ==
    LET next == {e \in expressions : Approves(e, approved, facts)}
    IN IF next = approved THEN approved ELSE Reapproved(expressions, next, facts)

(* The parts of an expression whose statements come before its own.           *)
Inherits(e) ==
    CASE e.op = "call" -> PlainArguments(e)
      [] e.op \in {"not", "negate", "and", "or", "compare"} \cup Arithmetic -> Parts(e)
      [] OTHER -> {}
RECURSIVE PutBefore(_, _)
PutBefore(e, approved) ==
    LET inherited == UNION {PutBefore(o, approved) : o \in Inherits(e)} IN
    CASE e \notin approved -> {}
      [] e \in approved /\ (\/ e.op \in {"call", "floordiv", "mod"}
                            \/ (e.op = "compare" /\ Len(e.tests) > 1)) -> inherited \cup {e}
      [] OTHER -> IF e.op \in {"and", "or"} /\ inherited # {} THEN inherited \cup {e} ELSE inherited

RegionsAgain(approved) ==
    {e \in approved :
        \/ e.op \in {"and", "or"} /\ \E o \in ToSet(e.operands) : PutBefore(o, approved) # {}
        \/ /\ e.op = "compare" /\ Len(e.tests) > 1
           /\ \E i \in 3 .. Len(e.operands) :
                 e.operands[i].op \notin {"name", "const"} \/ PutBefore(e.operands[i], approved) # {}}
RegionsConfirmed(expressions, facts) ==
    LET approved == Reapproved(expressions, {}, facts)
        found == {e \in expressions : \/ e.op \in {"and", "or"} /\ BooleanRegion(e, facts)
                                      \/ e.op = "compare" /\ ComparisonRegion(e, facts)}
    IN /\ found = RegionsAgain(approved)
       /\ \A e \in found : \A o \in ToSet(e.operands) :
             Prerequisite(o, facts) <=> PutBefore(o, approved) # {}

-----------------------------------------------------------------------------
(* Numbers: every // and % has its proof.                                      *)

RECURSIVE IntegerAgain(_, _)
IntegerAgain(e, facts) ==
    /\ Category(e, facts) = "integer"
    /\ CASE e.op \in {"name", "const", "floordiv", "mod"} -> TRUE
         [] e.op = "negate" -> IntegerAgain(e.of, facts)
         [] e.op \in {"add", "sub"} -> IntegerAgain(e.left, facts) /\ IntegerAgain(e.right, facts)
         [] e.op = "call" -> Supported(e, facts)
         [] e.op \in {"item", "field"} -> e \in DOMAIN facts.accesses
         [] OTHER -> FALSE
(* The divisors a literal spells: one or none.                                *)
Divisors(e) ==
    CASE e.op = "const" /\ e.category = "integer" -> {e.value}
      [] e.op = "negate" /\ e.of.op = "const" /\ e.of.category = "integer" -> {-e.of.value}
      [] OTHER -> {}
NumberConfirmed(e, facts) ==
    /\ {Category(o, facts) : o \in {e, e.left, e.right}} = {"integer"}
    /\ IntegerAgain(e.left, facts)
    /\ \E divisor \in Divisors(e.right) : divisor \notin {0, -1}

-----------------------------------------------------------------------------
(* Containers: what is read or looped over is bound once and validly, and the  *)
(* name of every container that is has a representation.                       *)

ContainersConfirmed(program, facts) ==
    LET valid == {x \in Holders(program) : Fixed(program, x, Found(program)[2])} IN
    /\ \A e \in DOMAIN facts.accesses : e.op = "item" => e.of.name \in valid
    /\ \A x \in DOMAIN facts.turns : x \in valid /\ facts.turns[x].capacity > 0
    /\ \A x \in valid : facts.names[x] \in Literals

-----------------------------------------------------------------------------
(* Records: classes, instances, the reading of fields and nothing else.        *)

ClassConfirmed(class) ==
    /\ Len(class.fields) \in 1 .. MaxFields
    /\ IsInjective([i \in DOMAIN class.fields |-> class.fields[i].name])
    /\ Len(class.parameters) = Len(class.fields) /\ Len(class.assignments) = Len(class.fields)
    /\ \A i \in DOMAIN class.fields :
          /\ class.fields[i].category \in {"integer", "boolean"}
          /\ class.parameters[i] = class.fields[i]
          /\ {class.assignments[i].to, class.assignments[i].from} = {class.fields[i].name}

InstanceConfirmed(program, i, facts) ==
    LET st == program.body[i] IN
    /\ [a \in DOMAIN st.value.arguments |-> Category(st.value.arguments[a], facts)]
          = Types(st.value.record)
    /\ st.target \notin DOMAIN program.parameters
    /\ Len(BindingsOf(program, st.target)) = 1

(* A field is read below the construction, in the statements of the body.     *)
AccessConfirmed(program, e) ==
    \E i \in Constructions(program) :
        /\ program.body[i].target = e.of.name
        /\ e.field \in Fields(program.body[i].value.record)
        /\ \A j \in 1 .. i :
              \A st \in Statements(<<program.body[j]>>) : e \notin UNION {Within(u) : u \in Uses(st)}

(* Every occurrence of an instance is its construction or a field that is read.*)
AloneConfirmed(program, x, facts) ==
    /\ RolesOf(x, Statements(program.body)) \subseteq {"field"}
    /\ \A e \in Expressions(program) :
          e.op = "field" /\ e.of.op = "name" /\ e.of.name = x => e \in DOMAIN facts.accesses

RecordsConfirmed(program, facts) ==
    LET constructed == {e \in Expressions(program) : e.op = "construct"} IN
    /\ \A e \in constructed : ClassConfirmed(Records[e.record])
    /\ constructed = {program.body[i].value : i \in Constructions(program)}
    /\ \A i \in Constructions(program) :
          InstanceConfirmed(program, i, facts) /\ AloneConfirmed(program, program.body[i].target, facts)
    /\ \A e \in DOMAIN facts.accesses : e.op = "field" => AccessConfirmed(program, e)

-----------------------------------------------------------------------------
(* validate_analysis_payload *)
FactsConfirmed(program, facts) ==
    LET expressions == Expressions(program) IN
    /\ ContainersConfirmed(program, facts)
    /\ RecordsConfirmed(program, facts)
    /\ \A e \in expressions : e.op \in {"floordiv", "mod"} => NumberConfirmed(e, facts)
    /\ RegionsConfirmed(expressions, facts)
    /\ \A e \in expressions : e.op = "call" =>
          BindingConfirmed(e, facts) /\ CategoriesConfirmed(e, program, facts)
=============================================================================
