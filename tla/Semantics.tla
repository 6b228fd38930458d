------------------------------- MODULE Semantics -------------------------------
(***************************************************************************)
(* What a function of the converter's Python subset does, and what the C   *)
(* it is converted to does: two evaluators of the same form, over trees.   *)
(* Neither translates code of the converter; its code is held against      *)
(* them.                                                                   *)
(*                                                                         *)
(* Booleans are 0 and 1.  The functions a program calls are opaque: calls  *)
(* are recorded with their arguments in the order of the parameters, and   *)
(* answered from a list the run is given.  A run that takes more turns of  *)
(* its loops than MaxTurns is cut off.  Integers do not overflow.          *)
(***************************************************************************)
EXTENDS SequencesExt, PythonCalls, Division

CONSTANTS
    Signatures,   \* of the functions a program may call, by name
    Records,      \* the record classes, by name
    MaxTurns      \* how many turns of loops are followed

(* The state of a run: the variables in scope, the calls so far, their        *)
(* answers, the turns taken, whether it did what the language gives no        *)
(* meaning to, how control leaves the last statement, the last value.         *)
Starting(variables, answers) ==
    [variables |-> variables, calls |-> <<>>, answers |-> answers, turns |-> 0,
     wrong |-> FALSE, signal |-> "next", value |-> 0]

With(v, s) == [s EXCEPT !.value = v]
Signal(signal, s) == [s EXCEPT !.signal = signal]
Wrong(s) == [s EXCEPT !.wrong = TRUE]
Set(x, v, s) == [s EXCEPT !.variables = (x :> v) @@ @]
Bit(holds) == IF holds THEN 1 ELSE 0

Called(function, values, s) ==
    LET answer == s.answers[(Len(s.calls) % Len(s.answers)) + 1] IN
    [s EXCEPT !.calls = Append(@, <<function, values>>),
              !.value = IF Signatures[function].returns = "boolean" THEN Bit(answer # 0) ELSE answer]

Compared(test, l, r) == Bit(IF test = "<" THEN l < r ELSE l = r)

(* A turn of a loop is begun, unless the body left the loop in the one before.*)
Leaves(s) == s.signal \in {"break", "return", "cut"}
Left(s) == IF s.signal = "break" THEN Signal("next", s) ELSE s
Turn(s) ==
    IF Leaves(s) THEN s
    ELSE IF s.turns = MaxTurns THEN Signal("cut", s)
    ELSE Signal("next", [s EXCEPT !.turns = @ + 1])

-----------------------------------------------------------------------------
(* Python: expressions are evaluated from left to right, a comparison chain   *)
(* and a Boolean expression no further than they need.                        *)

RECURSIVE Py(_, _), PyEach(_, _, _), PyBoolean(_, _, _), PyChain(_, _, _, _)

PyEach(expressions, values, s) ==
    IF expressions = <<>> THEN <<values, s>>
    ELSE LET r == Py(Head(expressions), s)
         IN PyEach(Tail(expressions), Append(values, r.value), r)

PyBoolean(op, operands, s) ==
    LET r == Py(Head(operands), s) IN
    IF Len(operands) = 1 \/ (op = "and" /\ r.value = 0) \/ (op = "or" /\ r.value # 0) THEN r
    ELSE PyBoolean(op, Tail(operands), r)

PyChain(left, tests, operands, s) ==
    LET r == Py(Head(operands), s)
        holds == Compared(Head(tests), left, r.value)
    IN IF holds = 0 \/ Len(tests) = 1 THEN With(holds, r)
       ELSE PyChain(r.value, Tail(tests), Tail(operands), r)

PyCall(e, s) ==
    LET signature == Signatures[e.function]
        each == PyEach([i \in DOMAIN e.arguments |-> e.arguments[i].value], <<>>, s)
    IN IF ~Callable(signature, e.arguments) THEN Wrong(each[2])
       ELSE Called(e.function,
                   [p \in DOMAIN signature.categories |->
                       each[1][CHOOSE i \in Binders(signature, e.arguments, p) : TRUE]],
                   each[2])

PyBinary(op, l, r) ==
    CASE op = "add" -> l + r
      [] op = "sub" -> l - r
      [] op = "floordiv" -> PyFloorDiv(l, r)
      [] op = "mod" -> PyModulo(l, r)

(* A call of a class runs its __init__; an assignment overrides one before it.*)
PyInstance(class, values) ==
    [f \in {assignment.to : assignment \in ToSet(class.assignments)} |->
        LET last == CHOOSE i \in DOMAIN class.assignments :
                        /\ class.assignments[i].to = f
                        /\ \A j \in i + 1 .. Len(class.assignments) : class.assignments[j].to # f
        IN values[CHOOSE p \in DOMAIN class.parameters :
                      class.parameters[p].name = class.assignments[last].from]]

PyConstruct(e, s) ==
    LET class == Records[e.record]
        each == PyEach(e.arguments, <<>>, s)
    IN IF Len(class.parameters) # Len(e.arguments) THEN Wrong(each[2])
       ELSE With(PyInstance(class, each[1]), each[2])

PyField(e, s) ==
    LET r == Py(e.of, s)
    IN IF e.field \in DOMAIN r.value THEN With(r.value[e.field], r) ELSE Wrong(With(0, r))

(* A container holds its elements in order; a dictionary also their keys.     *)
Entries(e) == FlattenSeq([i \in DOMAIN e.keys |-> <<e.keys[i], e.values[i]>>])
PyDictionary(entries) ==
    [keys |-> [i \in 1 .. Len(entries) \div 2 |-> entries[2 * i - 1]],
     elements |-> [i \in 1 .. Len(entries) \div 2 |-> entries[2 * i]]]

Places(container, index) ==
    LET size == Len(container.elements) IN
    IF "keys" \in DOMAIN container THEN {i \in 1 .. size : container.keys[i] = index}
    ELSE {i \in 1 .. size : index \in -size .. size - 1 /\ i = (index % size) + 1}
PyItem(container, index, s) ==
    IF Places(container, index) = {} THEN Wrong(With(0, s))
    ELSE With(container.elements[CHOOSE i \in Places(container, index) : TRUE], s)

Py(e, s) ==
    CASE e.op = "name" -> IF e.name \in DOMAIN s.variables THEN With(s.variables[e.name], s)
                          ELSE Wrong(With(0, s))
      [] e.op = "const" -> With(e.value, s)
      [] e.op = "not" -> LET r == Py(e.of, s) IN With(Bit(r.value = 0), r)
      [] e.op = "negate" -> LET r == Py(e.of, s) IN With(-r.value, r)
      [] e.op \in {"add", "sub", "floordiv", "mod"} ->
            LET each == PyEach(<<e.left, e.right>>, <<>>, s)
            IN With(PyBinary(e.op, each[1][1], each[1][2]), each[2])
      [] e.op = "call" -> PyCall(e, s)
      [] e.op \in {"and", "or"} -> PyBoolean(e.op, e.operands, s)
      [] e.op = "compare" -> LET r == Py(Head(e.operands), s)
                             IN PyChain(r.value, e.tests, Tail(e.operands), r)
      [] e.op \in {"list", "tuple"} -> LET each == PyEach(e.elements, <<>>, s)
                                       IN With([elements |-> each[1]], each[2])
      [] e.op = "dict" -> LET each == PyEach(Entries(e), <<>>, s)
                          IN With(PyDictionary(each[1]), each[2])
      [] e.op = "item" -> LET each == PyEach(<<e.of, e.index>>, <<>>, s)
                          IN PyItem(each[1][1], each[1][2], each[2])
      [] e.op = "construct" -> PyConstruct(e, s)
      [] e.op = "field" -> PyField(e, s)

RECURSIVE PyBlock(_, _), PyWhile(_, _), PyTested(_, _), PyRange(_, _, _), PyOver(_, _, _)

PyWhile(st, s) ==
    LET t == Turn(s) IN IF Leaves(t) THEN Left(t) ELSE PyTested(st, Py(st.test, t))
PyTested(st, r) == IF r.value = 0 THEN r ELSE PyWhile(st, PyBlock(st.body, r))

(* The next value of a range, the value it stops at, the step.                *)
Bounds(values) ==
    CASE Len(values) = 1 -> <<0, values[1], 1>>
      [] Len(values) = 2 -> Append(values, 1)
      [] OTHER -> values
Exhausted(b) == (b[3] > 0 /\ b[1] >= b[2]) \/ (b[3] < 0 /\ b[1] <= b[2])
PyRange(st, b, s) ==
    LET t == Turn(s) IN
    IF Leaves(t) THEN Left(t)
    ELSE IF Exhausted(b) THEN t
    ELSE PyRange(st, [b EXCEPT ![1] = @ + b[3]], PyBlock(st.body, Set(st.target, b[1], t)))

PyOver(st, items, s) ==
    LET t == Turn(s) IN
    IF Leaves(t) THEN Left(t)
    ELSE IF items = <<>> THEN t
    ELSE PyOver(st, Tail(items), PyBlock(st.body, Set(st.target, Head(items), t)))

PyStatement(st, s) ==
    CASE st.op = "assign" -> LET r == Py(st.value, s) IN Set(st.target, r.value, r)
      [] st.op = "expr"   -> Py(st.value, s)
      [] st.op = "return" -> Signal("return", Py(st.value, s))
      [] st.op = "if"     -> LET r == Py(st.test, s)
                             IN PyBlock(IF r.value # 0 THEN st.body ELSE st.orelse, r)
      [] st.op = "while"  -> PyWhile(st, s)
      [] st.op \in {"break", "continue"} -> Signal(st.op, s)
      [] st.op = "each"   -> LET r == Py(st.over, s)
                             IN PyOver(st, IF "keys" \in DOMAIN r.value THEN r.value.keys
                                           ELSE r.value.elements, r)
      [] st.op = "for"    -> LET each == PyEach(st.range, <<>>, s)
                             IN PyRange(st, Bounds(each[1]), each[2])

PyBlock(statements, s) ==
    IF statements = <<>> \/ s.signal # "next" THEN s
    ELSE PyBlock(Tail(statements), PyStatement(Head(statements), s))

-----------------------------------------------------------------------------
(* C: a block is a scope, a variable is read only in its scope, and calls     *)
(* stand alone, since C leaves the order of operands open.                    *)

RECURSIVE CNodes(_), CValue(_, _)

CParts(e) ==
    CASE e.c \in {"not", "negate"} -> {e.of}
      [] e.c \in {"call", "helper", "array", "struct"} -> {e.arguments[i] : i \in DOMAIN e.arguments}
      [] e.c = "subscript" -> {e.of, e.index}
      [] e.c = "member" -> {e.of}
      [] e.c = "binary" -> {e.left, e.right}
      [] OTHER -> {}
CNodes(e) == {e} \cup UNION {CNodes(p) : p \in CParts(e)}
CReads(e) == {n.variable : n \in {m \in CNodes(e) : m.c = "ref"}}
CPure(e) == \A n \in CNodes(e) : n.c \notin {"call", "helper"}

CBinary(op, l, r) ==
    CASE op = "+"  -> l + r
      [] op = "-"  -> l - r
      [] op = "/"  -> CDivide(l, r)
      [] op = "%"  -> CRemainder(l, r)
      [] op = "&&" -> Bit(l # 0 /\ r # 0)
      [] op = "||" -> Bit(l # 0 \/ r # 0)
      [] op = "!=" -> Bit(l # r)
      [] op = ">"  -> Bit(l > r)
      [] op \in {"<", "=="} -> Compared(op, l, r)

(* An initializer gives the members their values in their order.              *)
CStruct(e, s) ==
    LET fields == Records[e.record].fields
    IN [f \in {fields[i].name : i \in DOMAIN fields} |->
           CValue(e.arguments[CHOOSE i \in DOMAIN fields : fields[i].name = f], s)]

CValue(e, s) ==
    CASE e.c = "ref" -> s.variables[e.variable]
      [] e.c = "literal" -> e.value
      [] e.c = "not" -> Bit(CValue(e.of, s) = 0)
      [] e.c = "negate" -> -CValue(e.of, s)
      [] e.c = "binary" -> CBinary(e.operator, CValue(e.left, s), CValue(e.right, s))
      [] e.c = "array" -> [i \in DOMAIN e.arguments |-> CValue(e.arguments[i], s)]
      [] e.c = "struct" -> CStruct(e, s)
      [] e.c = "subscript" -> CValue(e.of, s)[CValue(e.index, s) + 1]
      [] e.c = "member" -> CValue(e.of, s)[e.field]

(* No subscript is outside its array.                                         *)
CWithinArrays(e, s) ==
    \A n \in CNodes(e) :
        n.c = "subscript" => CValue(n.index, s) \in 0 .. Len(CValue(n.of, s)) - 1

(* What is declared in a block ends with it, and is declared once.            *)
Scoped(outer, s) ==
    [s EXCEPT !.variables = [x \in DOMAIN outer.variables |-> s.variables[x]]]
Declare(x, s) == IF x \in DOMAIN s.variables THEN Wrong(s) ELSE Set(x, s.value, s)
Assign(x, s)  == IF x \in DOMAIN s.variables THEN Set(x, s.value, s) ELSE Wrong(s)

RECURSIVE C(_, _), CBlock(_, _), CWhile(_, _), CTested(_, _), CAfterTurn(_, _)

(* A call of a helper comes with the block of the helper.                     *)
CHelper(block, dividend, divisor) ==
    CBlock(block, Starting("dividend" :> dividend @@ "divisor" :> divisor, <<>>))

C(e, s) ==
    LET values == [i \in DOMAIN e.arguments |-> CValue(e.arguments[i], s)] IN
    IF ~(/\ CReads(e) \subseteq DOMAIN s.variables /\ \A p \in CParts(e) : CPure(p)
         /\ CWithinArrays(e, s))
    THEN Wrong(With(0, s))
    ELSE CASE e.c = "call"   -> Called(e.function, values, s)
           [] e.c = "helper" -> With(CHelper(e.block, values[1], values[2]).value, s)
           [] OTHER          -> With(CValue(e, s), s)

CScope(statements, s) == Scoped(s, CBlock(statements, s))

CWhile(st, s) ==
    LET t == Turn(s) IN IF Leaves(t) THEN Left(t) ELSE CTested(st, C(st.test, t))
CTested(st, r) == IF r.value = 0 THEN r ELSE CAfterTurn(st, CScope(st.body, r))
CAfterTurn(st, s) ==
    CWhile(st, IF st.c = "while" \/ Leaves(s) THEN s ELSE Assign(st.variable, C(st.next, s)))

CStatement(st, s) ==
    CASE st.c = "declare" -> Declare(st.variable, C(st.value, s))
      [] st.c = "assign"  -> Assign(st.variable, C(st.value, s))
      [] st.c = "expr"    -> C(st.value, s)
      [] st.c = "return"  -> Signal("return", C(st.value, s))
      [] st.c = "if"      -> LET r == C(st.test, s)
                             IN CScope(IF r.value # 0 THEN st.body ELSE st.orelse, r)
      [] st.c = "while"   -> CWhile(st, s)
      [] st.c = "for"     -> Scoped(s, CWhile(st, Declare(st.variable, C(st.start, s))))
      [] st.c \in {"break", "continue"} -> Signal(st.c, s)

CBlock(statements, s) ==
    IF statements = <<>> \/ s.signal # "next" THEN s
    ELSE CBlock(Tail(statements), CStatement(Head(statements), s))
=============================================================================
