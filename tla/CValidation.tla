------------------------------ MODULE CValidation ------------------------------
(***************************************************************************)
(* The validator the lowered function must pass before it is rendered:     *)
(* scopes and types, ir/c_ir/validation.py.  What it finds wrong is an     *)
(* internal failure, not a refusal.  Types are named by the category they  *)
(* represent; "none" is the type of what has none.                         *)
(***************************************************************************)
EXTENDS CLowering

(* The type of an expression, the variables of the scopes having theirs.      *)
ArrayType(element) == IF element \in Scalar THEN ArrayOf[element] ELSE "none"
ElementType(array) ==
    IF \E c \in Scalar : ArrayOf[c] = array THEN CHOOSE c \in Scalar : ArrayOf[c] = array ELSE "none"
FieldType(record, field) ==
    IF record \in DOMAIN Records /\ field \in Fields(record) THEN FieldCategory(record, field) ELSE "none"

RECURSIVE Type(_, _)
OperandTypes(e, scope) == {Type(e.left, scope), Type(e.right, scope)}
BinaryType(e, scope) ==
    IF e.operator \in {"+", "-", "*", "/", "%"}
    THEN IF OperandTypes(e, scope) = {"integer"} THEN "integer" ELSE "none"
    ELSE "boolean"
Type(e, scope) ==
    CASE e.c = "ref" -> IF e.variable \in DOMAIN scope THEN scope[e.variable] ELSE "none"
      [] e.c = "literal" -> e.type
      [] e.c = "not" -> "boolean"
      [] e.c = "negate" -> Type(e.of, scope)
      [] e.c = "binary" -> BinaryType(e, scope)
      [] e.c = "call" -> Signatures[e.function].returns
      [] e.c = "helper" -> "integer"
      [] e.c = "array" -> ArrayType(Type(Head(e.arguments), scope))
      [] e.c = "struct" -> e.record
      [] e.c = "subscript" -> ElementType(Type(e.of, scope))
      [] e.c = "member" -> FieldType(Type(e.of, scope), e.field)

RECURSIVE Typed(_, _)
TypedArguments(e, scope, types) ==
    /\ \A i \in DOMAIN e.arguments : Typed(e.arguments[i], scope)
    /\ [i \in DOMAIN e.arguments |-> Type(e.arguments[i], scope)] = types
Typing(e, type, scope) == Typed(e, scope) /\ Type(e, scope) = type
Typed(e, scope) ==
    CASE e.c = "ref" -> e.variable \in DOMAIN scope
      [] e.c = "literal" -> e.value >= 0
      [] e.c = "not" -> Typed(e.of, scope) /\ Type(e.of, scope) = "boolean"
      [] e.c = "negate" -> Typed(e.of, scope) /\ Type(e.of, scope) = "integer"
      [] e.c = "binary" ->
            /\ Typed(e.left, scope) /\ Typed(e.right, scope)
            /\ CASE e.operator \in {"&&", "||"} -> OperandTypes(e, scope) = {"boolean"}
                 [] e.operator \in {"<", ">", "==", "!="} ->
                       "none" \notin OperandTypes(e, scope) /\ Cardinality(OperandTypes(e, scope)) = 1
                 [] OTHER -> BinaryType(e, scope) # "none"
      [] e.c = "call" -> TypedArguments(e, scope, Signatures[e.function].categories)
      [] e.c = "helper" -> TypedArguments(e, scope, <<"integer", "integer">>)
      [] e.c = "array" ->
            TypedArguments(e, scope, Alike(Type(Head(e.arguments), scope), e.arguments))
      [] e.c = "struct" -> TypedArguments(e, scope, Types(e.record))
      [] e.c = "subscript" -> Typed(e.of, scope) /\ Typing(e.index, "integer", scope)
      [] e.c = "member" -> Typed(e.of, scope)

(* A declaration adds to the innermost scope, which own is: a block may       *)
(* declare again what an outer one has declared.                              *)
Opened(st, scope) ==
    IF st.c = "declare" THEN (st.variable :> st.type) @@ scope ELSE scope

RECURSIVE Valid(_, _, _, _, _)
ValidStatement(st, scope, own, loop, returns) ==
    CASE st.c = "declare" -> st.variable \notin own /\ Typing(st.value, st.type, scope)
      [] st.c = "assign" -> st.variable \in DOMAIN scope /\ Typing(st.value, scope[st.variable], scope)
      [] st.c = "expr" -> Typed(st.value, scope)
      [] st.c = "return" -> Typing(st.value, returns, scope)
      [] st.c = "if" -> /\ Typing(st.test, "boolean", scope)
                        /\ Valid(st.body, scope, {}, loop, returns)
                        /\ Valid(st.orelse, scope, {}, loop, returns)
      [] st.c = "while" -> /\ Typing(st.test, "boolean", scope)
                           /\ Valid(st.body, scope, {}, TRUE, returns)
      [] st.c = "for" -> LET inner == (st.variable :> "integer") @@ scope
                         IN /\ Typing(st.start, "integer", scope)
                            /\ Typing(st.test, "boolean", inner)
                            /\ Typing(st.next, "integer", inner)
                            /\ Valid(st.body, inner, {}, TRUE, returns)
      [] st.c \in {"break", "continue"} -> loop

(* The scope after the first i statements of a block, and what they declare.  *)
RECURSIVE ScopeAfter(_, _)
ScopeAfter(statements, scope) ==
    IF statements = <<>> THEN scope
    ELSE Opened(Last(statements), ScopeAfter(Front(statements), scope))
Own(statements) == {st.variable : st \in {d \in ToSet(statements) : d.c = "declare"}}

Valid(block, scope, own, loop, returns) ==
    \A i \in DOMAIN block :
        LET before == SubSeq(block, 1, i - 1)
        IN ValidStatement(block[i], ScopeAfter(before, scope), own \cup Own(before), loop, returns)

Scope(parameters) ==
    [v \in {Source(x) : x \in DOMAIN parameters} |-> parameters[v[2]]]
ValidFunction(program, block) ==
    Valid(block, Scope(program.parameters), DOMAIN Scope(program.parameters), FALSE, program.returns)
=============================================================================
