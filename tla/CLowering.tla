------------------------------- MODULE CLowering -------------------------------
(***************************************************************************)
(* The C a function is lowered to: lowering.py, with the lowerers of calls *)
(* with keywords, of conditional regions, of floor arithmetic, of          *)
(* containers and of records.                                              *)
(*                                                                         *)
(* An expression becomes a prelude of statements and a value without calls *)
(* that is read after it.  A variable is <<"source", name>> or a temporary *)
(* <<purpose, path, ordinal>>: the path to the node in the tree stands for *)
(* the identity of the node.  A refusal is a statement of its own, so that *)
(* one anywhere in the code refuses the program.                           *)
(***************************************************************************)
EXTENDS FunctionFacts

Ref(variable) == [c |-> "ref", variable |-> variable]
Literal(value, type) == [c |-> "literal", value |-> value, type |-> type]
Negate(e) == [c |-> "negate", of |-> e]
Not(e) == [c |-> "not", of |-> e]
Binary(operator, l, r) == [c |-> "binary", operator |-> operator, left |-> l, right |-> r]

Declare(variable, type, e) ==
    [c |-> "declare", variable |-> variable, type |-> type, value |-> e]
Assign(variable, e) == [c |-> "assign", variable |-> variable, value |-> e]
If(test, body, orelse) == [c |-> "if", test |-> test, body |-> body, orelse |-> orelse]
While(test, body) == [c |-> "while", test |-> test, body |-> body]
Reject == [c |-> "reject"]

Subscript(variable, index) == [c |-> "subscript", of |-> Ref(variable), index |-> index]
Member(variable, field) == [c |-> "member", of |-> Ref(variable), field |-> field]
ArrayOf == [integer |-> "integers", boolean |-> "booleans", string |-> "strings"]

Zero == Literal(0, "integer")
One == Literal(1, "integer")
True == Literal(1, "boolean")

Source(name) == <<"source", name>>
Temporary(purpose, path, ordinal) == <<purpose, path, ordinal>>

Lowered(prelude, value) == [prelude |-> prelude, value |-> value]
Refused == Lowered(<<Reject>>, Zero)
Preludes(lowered) == FlattenSeq([i \in DOMAIN lowered |-> lowered[i].prelude])

RECURSIVE RefusedInLowering(_)
RefusedInLowering(block) ==
    \E st \in ToSet(block) :
        \/ st.c = "reject"
        \/ st.c = "if" /\ (RefusedInLowering(st.body) \/ RefusedInLowering(st.orelse))
        \/ st.c \in {"while", "for"} /\ RefusedInLowering(st.body)

-----------------------------------------------------------------------------
(* The helpers for // and %: support_templates/factories.py.                  *)

Dividend == Ref("dividend")
Divisor == Ref("divisor")
Quotient == Ref("quotient")
Remainder == Ref("remainder")
AdjustmentCondition ==
    Binary("&&", Binary("!=", Remainder, Zero),
                 Binary("!=", Binary("<", Remainder, Zero), Binary("<", Divisor, Zero)))
Return(e) == [c |-> "return", value |-> e]
FloorDivide ==
    <<Declare("quotient", "integer", Binary("/", Dividend, Divisor)),
      Declare("remainder", "integer", Binary("%", Dividend, Divisor)),
      If(AdjustmentCondition, <<Assign("quotient", Binary("-", Quotient, One))>>, <<>>),
      Return(Quotient)>>
FloorModulo ==
    <<Declare("remainder", "integer", Binary("%", Dividend, Divisor)),
      If(AdjustmentCondition, <<Assign("remainder", Binary("+", Remainder, Divisor))>>, <<>>),
      Return(Remainder)>>

-----------------------------------------------------------------------------
(* Forms of expressions, from the lowered forms of their parts.               *)

SignedLiteral(v) == IF v < 0 THEN Negate(Literal(-v, "integer")) ELSE Literal(v, "integer")

(* NumericCIRLowerer.operation *)
NumericOperationOf(e, left, path) ==
    LET l == Temporary("numeric_left", path, 0)
        r == Temporary("numeric_right", path, 0)
        result == Temporary("numeric_result", path, 0)
        call == [c |-> "helper", arguments |-> <<Ref(l), Ref(r)>>,
                 block |-> IF e.op = "floordiv" THEN FloorDivide ELSE FloorModulo]
    IN Lowered(left.prelude \o <<Declare(l, "integer", left.value),
                                 Declare(r, "integer", SignedLiteral(SignedValue(e.right))),
                                 Declare(result, "integer", call)>>,
               Ref(result))

(* The arguments are staged in the order of the text, handed over in that of  *)
(* the parameters.                                                            *)
Staged(e, lowered, path, i) ==
    LET signature == Signatures[e.function]
    IN Append(lowered[i].prelude,
              Declare(Temporary("arg", path, i),
                      signature.categories[Ordinal(signature, e.arguments, i)], lowered[i].value))
(* Variant: staged in the order of the parameters. *)
StagedInFormalOrder(e, lowered, path) ==
    FlattenSeq([p \in DOMAIN lowered |->
        Staged(e, lowered, path, CHOOSE j \in DOMAIN lowered :
                                     Ordinal(Signatures[e.function], e.arguments, j) = p)])

StagedArguments(e, lowered, path) ==
    FlattenSeq([i \in DOMAIN lowered |-> Staged(e, lowered, path, i)])

HandedOver(e, path) ==
    [p \in Formals(Signatures[e.function]) |->
        Ref(Temporary("arg", path, CHOOSE i \in DOMAIN e.arguments :
                                      Ordinal(Signatures[e.function], e.arguments, i) = p))]

(* _Lowerer._call *)
CallOf(e, lowered, path, facts, materialize) ==
    LET call == [c |-> "call", function |-> e.function, arguments |-> HandedOver(e, path)]
        result == Temporary("call", path, 0)
    IN IF ~Supported(e, facts) THEN Refused
       ELSE IF ~materialize THEN Lowered(StagedArguments(e, lowered, path), call)
       ELSE Lowered(Append(StagedArguments(e, lowered, path), 
                           Declare(result, Signatures[e.function].returns, call)), Ref(result))

(* _Lowerer._truthy *)
TruthOf(lowered, category) ==
    CASE category = "boolean" -> lowered
      [] category = "integer" -> Lowered(lowered.prelude, Binary("!=", lowered.value, Zero))
      [] OTHER -> Lowered(Append(lowered.prelude, Reject), lowered.value)

RECURSIVE Chained(_, _)
Chained(operator, values) ==
    IF Len(values) = 1 THEN Head(values)
    ELSE Binary(operator, Chained(operator, Front(values)), Last(values))

LegacyBoolean(e, lowered, facts) ==
    IF \/ \E o \in Parts(e) : Category(o, facts) # "boolean"
       \/ \E i \in DOMAIN lowered : lowered[i].prelude # <<>>
    THEN Refused
    ELSE Lowered(<<>>, Chained(IF e.op = "and" THEN "&&" ELSE "||",
                               [i \in DOMAIN lowered |-> lowered[i].value]))

GuardedBoolean(e, lowered, path) ==
    LET result == Temporary("bool_region_result", path, 0)
        guard == IF e.op = "and" THEN Ref(result) ELSE Not(Ref(result))
    IN Lowered(lowered[1].prelude \o <<Declare(result, "boolean", lowered[1].value)>>
               \o [i \in 1 .. Len(lowered) - 1 |->
                      If(guard, Append(lowered[i + 1].prelude, Assign(result, lowered[i + 1].value)),
                         <<>>)],
               Ref(result))

CmpOperand(path, i) == Temporary("cmp", path, i)
OperandDeclared(e, path, facts, i, value) ==
    Declare(CmpOperand(path, i), Category(e.operands[i], facts), value)
Piece(e, path, i) == Binary(e.tests[i], Ref(CmpOperand(path, i)), Ref(CmpOperand(path, i + 1)))

LegacyComparison(e, lowered, path, facts) ==
    IF \/ \E o \in Parts(e) : Category(o, facts) \notin {"integer", "boolean"}
       \/ \E i \in 3 .. Len(lowered) :
             lowered[i].prelude # <<>> \/ e.operands[i].op \notin {"name", "const"}
    THEN Refused
    ELSE IF Len(e.tests) = 1
    THEN Lowered(Preludes(lowered), Binary(e.tests[1], lowered[1].value, lowered[2].value))
    ELSE Lowered(FlattenSeq([i \in DOMAIN lowered |->
                     Append(lowered[i].prelude, OperandDeclared(e, path, facts, i, lowered[i].value))]),
                 Chained("&&", [i \in DOMAIN e.tests |-> Piece(e, path, i)]))

GuardedComparison(e, lowered, path, facts) ==
    LET result == Temporary("comparison_region_result", path, 0)
        eager == FlattenSeq([i \in 1 .. 2 |->
                     Append(lowered[i].prelude, OperandDeclared(e, path, facts, i, lowered[i].value))])
        later == [i \in 1 .. Len(lowered) - 2 |-> i + 2]
    IN Lowered(eager
               \o [k \in DOMAIN later |-> 
                      OperandDeclared(e, path, facts, later[k],
                                      Literal(0, Category(e.operands[later[k]], facts)))]
               \o <<Declare(result, "boolean", Piece(e, path, 1))>>
               \o [k \in DOMAIN later |->
                      If(Ref(result),
                         lowered[later[k]].prelude
                         \o <<Assign(CmpOperand(path, later[k]), lowered[later[k]].value),
                              Assign(result, Piece(e, path, later[k] - 1))>>,
                         <<>>)],
               Ref(result))

-----------------------------------------------------------------------------
(* _Lowerer._expression *)

ArithmeticOf(e, lowered, facts) ==
    IF Category(e, facts) # "integer" THEN Refused
    ELSE Lowered(Preludes(lowered),
                 Binary(IF e.op = "add" THEN "+" ELSE "-", lowered[1].value, lowered[2].value))

Arguments(e) == [i \in DOMAIN e.arguments |-> e.arguments[i].value]

(* ContainerCIRLowerer.access, its storage: a dictionary is two arrays.       *)
Component(kind, component, x) == IF kind = "dict" THEN <<component, x>> ELSE Source(x)
ElementOf(x, access) ==
    Subscript(Component(access.kind, "values", x), Literal(access.offset, "integer"))

(* The expressions that are lowered for an expression.                        *)
Operands(e) ==
    CASE e.op \in {"not", "negate"} -> <<e.of>>
      [] e.op \in Arithmetic -> <<e.left, e.right>>
      [] e.op = "call" -> Arguments(e)
      [] e.op \in {"and", "or", "compare"} -> e.operands
      [] OTHER -> <<>>

RECURSIVE Expression(_, _, _)
Each(expressions, path, facts) ==
    [i \in DOMAIN expressions |-> Expression(expressions[i], Append(path, i), facts)]
Expression(e, path, facts) ==
    LET lowered == Each(Operands(e), path, facts) IN
    CASE e.op = "name" -> Lowered(<<>>, Ref(Source(e.name)))
      [] e.op = "const" -> Lowered(<<>>, Literal(e.value, e.category))
      [] e.op = "not" -> LET t == TruthOf(lowered[1], Category(e.of, facts))
                         IN Lowered(t.prelude, Not(t.value))
      [] e.op = "negate" -> Lowered(lowered[1].prelude, Negate(lowered[1].value))
      [] e.op \in {"floordiv", "mod"} -> NumericOperationOf(e, lowered[1], path)
      [] e.op \in {"add", "sub"} -> ArithmeticOf(e, lowered, facts)
      [] e.op = "call" -> CallOf(e, lowered, path, facts, TRUE)
      [] e.op \in {"and", "or"} ->
            IF BooleanRegion(e, facts) THEN GuardedBoolean(e, lowered, path)
            ELSE LegacyBoolean(e, lowered, facts)
      [] e.op = "compare" ->
            IF ComparisonRegion(e, facts) THEN GuardedComparison(e, lowered, path, facts)
            ELSE LegacyComparison(e, lowered, path, facts)
      [] e.op = "item" -> Lowered(<<>>, ElementOf(e.of.name, facts.accesses[e]))
      [] e.op = "field" -> Lowered(<<>>, Member(Source(e.of.name), e.field))

-----------------------------------------------------------------------------
(* Containers and records: what is stored together, for which purpose, as     *)
(* values of which types, in which variable.                                  *)

Parcel(purpose, expressions, types, variable, type, initial) ==
    [purpose |-> purpose, expressions |-> expressions, types |-> types,
     variable |-> variable, type |-> type, initial |-> initial]
Alike(type, expressions) == [i \in DOMAIN expressions |-> type]
ArrayParcel(purpose, expressions, category, variable) ==
    Parcel(purpose, expressions, Alike(category, expressions), variable, ArrayOf[category], [c |-> "array"])

Parcels(x, e, facts) ==
    CASE e.op \in {"list", "tuple"} ->
            <<ArrayParcel("container_item", e.elements, ElementCategory(e, facts), Source(x))>>
      [] e.op = "dict" ->
            <<ArrayParcel("container_key", e.keys, KeyCategory(Head(e.keys)), <<"keys", x>>),
              ArrayParcel("container_value", e.values, ElementCategory(e, facts), <<"values", x>>)>>
      [] e.op = "construct" ->
            <<Parcel("record_arg", e.arguments, Types(e.record), Source(x), e.record,
                     [c |-> "struct", record |-> e.record])>>

(* Each value is evaluated into a temporary, one after the other; a key       *)
(* before its value.                                                          *)
Storage(x, e, path, facts) ==
    LET parcels == Parcels(x, e, facts)
        Place(k, i) == Temporary(parcels[k].purpose, Append(path, k), i)
        Evaluated(k, i) ==
            LET v == Expression(parcels[k].expressions[i], path \o <<k, i>>, facts)
            IN Append(v.prelude, Declare(Place(k, i), parcels[k].types[i], v.value))
        Initial(k) ==
            parcels[k].initial @@ [arguments |-> [i \in DOMAIN parcels[k].types |-> Ref(Place(k, i))]]
    IN FlattenSeq([i \in DOMAIN parcels[1].expressions |->
                      FlattenSeq([k \in DOMAIN parcels |-> Evaluated(k, i)])])
       \o [k \in DOMAIN parcels |-> Declare(parcels[k].variable, parcels[k].type, Initial(k))]

-----------------------------------------------------------------------------
(* Statements.  In a context: the categories of the bindings, the names bound *)
(* earlier in the text, whether a loop encloses the statement.                *)

AssignmentOf(st, lowered, context) ==
    LET category == Category(st.value, context.facts) IN
    Append(lowered.prelude,
           IF st.target \in context.earlier THEN Assign(Source(st.target), lowered.value)
           ELSE IF category \in Scalar THEN Declare(Source(st.target), category, lowered.value)
           ELSE Reject)

ExpressionStatement(st, lowered, path, context) ==
    IF st.value.op # "call" THEN <<Reject>>
    ELSE LET call == CallOf(st.value, lowered, path, context.facts, FALSE)
         IN Append(call.prelude, [c |-> "expr", value |-> call.value])

Break == [c |-> "break"]

(* Variant: the prelude of the condition is put before the loop. *)
WhileLoopHoisted(test, body) == Append(test.prelude, While(test.value, body))

(* A condition with a prelude is evaluated within the loop.                   *)
WhileLoop(test, body) ==
    IF test.prelude = <<>> THEN <<While(test.value, body)>>
    ELSE <<While(True, test.prelude \o <<If(Not(test.value), <<Break>>, <<>>)>> \o body)>>

(* The sign of a step, 0 when it is zero or no literal.                       *)
StepSign(st) ==
    CASE Len(st.range) < 3 -> 1
      [] ~Signed(st.range[3]) -> 0
      [] SignedValue(st.range[3]) > 0 -> 1
      [] SignedValue(st.range[3]) < 0 -> -1
      [] OTHER -> 0

(* _Lowerer._for_range *)
RangeLoop(st, lowered, body, path) ==
    LET bound == [i \in DOMAIN lowered |-> Ref(Temporary("range", path, i))]
        start == IF Len(bound) = 1 THEN Zero ELSE bound[1]
        stop  == IF Len(bound) = 1 THEN bound[1] ELSE bound[2]
        step  == IF Len(bound) = 3 THEN bound[3] ELSE One
        target == Source(st.target)
    IN FlattenSeq([i \in DOMAIN lowered |->
           Append(lowered[i].prelude, Declare(Temporary("range", path, i), "integer", lowered[i].value))])
       \o <<[c |-> "for", variable |-> target, start |-> start,
             test |-> Binary(IF StepSign(st) < 0 THEN ">" ELSE "<", Ref(target), stop),
             next |-> Binary("+", Ref(target), step), body |-> body]>>

(* ContainerCIRLowerer.iteration *)
ContainerLoop(st, turn, body, path) ==
    LET index == Temporary("container_index", path, 0)
        data == Component(turn.kind, "keys", st.over.name)
    IN <<[c |-> "for", variable |-> index, start |-> Zero,
          test |-> Binary("<", Ref(index), Literal(turn.capacity, "integer")),
          next |-> Binary("+", Ref(index), One),
          body |-> <<Declare(Source(st.target), turn.category, Subscript(data, Ref(index)))>> \o body]>>

(* The expressions that are lowered for a statement.                          *)
Stored == Literals \cup {"construct"}
Inputs(st) ==
    CASE st.op = "return" -> <<st.value>>
      [] st.op = "assign" /\ st.value.op \notin Stored -> <<st.value>>
      [] st.op = "expr" /\ st.value.op = "call" -> Arguments(st.value)
      [] st.op \in {"if", "while"} -> <<st.test>>
      [] st.op = "for" -> st.range
      [] OTHER -> <<>>

RECURSIVE Block(_, _, _)
Statement(st, path, context) ==
    LET facts == context.facts
        inner == Append(path, 1)
        lowered == Each(Inputs(st), inner, facts)
        test == TruthOf(lowered[1], Category(st.test, facts))
        earlier == CASE st.op \in {"for", "each"} -> {st.target}
                     [] st.op = "if" -> Targets(st.body)
                     [] OTHER -> {}
        Inside(b) == Block(Blocks(st)[b], Append(path, b + 1),
                           [context EXCEPT !.loop = @ \/ st.op # "if",
                                           !.earlier = @ \cup (IF b = 1 /\ st.op = "if" THEN {} ELSE earlier)])
    IN CASE st.op = "return" -> Append(lowered[1].prelude, Return(lowered[1].value))
         [] st.op = "assign" ->
              IF st.value.op \in Stored THEN Storage(st.target, st.value, inner, facts)
              ELSE AssignmentOf(st, lowered[1], context)
         [] st.op = "expr" -> ExpressionStatement(st, lowered, inner, context)
         [] st.op = "if" -> Append(test.prelude, If(test.value, Inside(1), Inside(2)))
         [] st.op = "while" -> WhileLoop(test, Inside(1))
         [] st.op = "for" ->
              IF StepSign(st) = 0 THEN <<Reject>> ELSE RangeLoop(st, lowered, Inside(1), path)
         [] st.op = "each" -> ContainerLoop(st, facts.turns[st.over.name], Inside(1), path)
         [] st.op \in {"break", "continue"} ->
              <<IF context.loop THEN [c |-> st.op] ELSE Reject>>

Block(block, path, context) ==
    FlattenSeq([i \in DOMAIN block |->
        Statement(block[i], Append(path, i),
                  [context EXCEPT !.earlier = @ \cup Targets(SubSeq(block, 1, i - 1))])])

(* _Lowerer._function *)
Function(program) ==
    Block(program.body, <<>>, [facts |-> Facts(program),
                               earlier |-> DOMAIN program.parameters, loop |-> FALSE])
=============================================================================
