------------------------------- MODULE Categories -------------------------------
(***************************************************************************)
(* The body of a function as a tree, and the category, that is the         *)
(* representation in C, of every value in it: analysis/symbols.py,         *)
(* analysis/planning.py.                                                   *)
(*                                                                         *)
(* A program is one function, [parameters, returns, body], that calls      *)
(* others.  Expressions and statements are trees; a fact the code keeps by *)
(* node identity is a function of the tree and of the facts found before.  *)
(* Facts are [names, accesses, turns]: the category of every name; of the  *)
(* accesses to containers and records that are supported, the category and *)
(* where in its container an element lies; and, by the name of the         *)
(* container, what a supported loop over it binds.  Floats, and literals   *)
(* wider than 64 bits, are left out.                                       *)
(***************************************************************************)
EXTENDS CallBinding, SequencesExt

CONSTANTS
    Signatures,   \* of the functions a program may call, by name
    Records       \* the record classes, by name: [fields, parameters,
                  \* assignments], the last two of __init__; a field and a
                  \* parameter are [name, category], an assignment [to, from]

Arithmetic == {"add", "sub", "floordiv", "mod"}

(* The expressions an expression is made of, and all within it.               *)
Parts(e) ==
    CASE e.op \in {"not", "negate", "field"} -> {e.of}
      [] e.op = "item" -> {e.of, e.index}
      [] e.op \in Arithmetic -> {e.left, e.right}
      [] e.op = "call" -> {e.arguments[i].value : i \in DOMAIN e.arguments}
      [] e.op = "construct" -> ToSet(e.arguments)
      [] e.op \in {"and", "or", "compare"} -> ToSet(e.operands)
      [] e.op \in {"list", "tuple"} -> ToSet(e.elements)
      [] e.op = "dict" -> ToSet(e.keys) \cup ToSet(e.values)
      [] OTHER -> {}
RECURSIVE Within(_)
Within(e) == {e} \cup UNION {Within(part) : part \in Parts(e)}

(* The expressions and the blocks a statement is made of.                     *)
Uses(st) ==
    CASE st.op \in {"assign", "expr", "return"} -> {st.value}
      [] st.op \in {"if", "while"} -> {st.test}
      [] st.op = "for" -> ToSet(st.range)
      [] st.op = "each" -> {st.over}
      [] OTHER -> {}
Blocks(st) ==
    CASE st.op = "if" -> <<st.body, st.orelse>>
      [] st.op \in {"while", "for", "each"} -> <<st.body>>
      [] OTHER -> <<>>

(* The statements of a block and of those within it; in the order of the text.*)
RECURSIVE Statements(_)
Statements(block) ==
    ToSet(block) \cup UNION {Statements(inner) : inner \in UNION {ToSet(Blocks(st)) : st \in ToSet(block)}}
RECURSIVE InOrder(_)
InOrder(block) ==
    FlattenSeq([i \in DOMAIN block |->
        <<block[i]>> \o FlattenSeq([b \in DOMAIN Blocks(block[i]) |-> InOrder(Blocks(block[i])[b])])])

Expressions(program) ==
    UNION {UNION {Within(e) : e \in Uses(st)} : st \in Statements(program.body)}

(* The names a block binds, and the bindings of one.                          *)
Binding(st) == st.op \in {"assign", "for", "each"}
Targets(block) == {st.target : st \in {s \in Statements(block) : Binding(s)}}
BindingsOf(program, x) ==
    LET ToX(st) == Binding(st) /\ st.target = x
    IN SelectSeq(InOrder(program.body), ToX)

(* A literal, or a literal behind a sign.                                     *)
Signed(e) ==
    \/ e.op = "const" /\ e.category = "integer"
    \/ e.op = "negate" /\ e.of.op = "const" /\ e.of.category = "integer"
SignedValue(e) == IF e.op = "const" THEN e.value ELSE -e.of.value

-----------------------------------------------------------------------------
(* AnalysisPlanner.analyze_categories: the representation of every value.     *)

Scalar == {"integer", "boolean", "string"}

Known(categories) == categories \ {"unknown"}
Joined(categories) ==
    CASE Known(categories) = {} -> "unknown"
      [] Cardinality(Known(categories)) = 1 -> CHOOSE c \in Known(categories) : TRUE
      [] OTHER -> "contradictory"

OfBoolean(categories) ==
    CASE categories = {"boolean"} -> "boolean"
      [] categories \subseteq {"boolean", "unknown"} -> "unknown"
      [] OTHER -> "contradictory"
OfComparison(categories) ==
    CASE categories \in {{"integer"}, {"boolean"}} -> "boolean"
      [] \/ "contradictory" \in categories
         \/ "unknown" \notin categories /\ Cardinality(categories) > 1 -> "contradictory"
      [] OTHER -> "unknown"
OfArithmetic(l, r) ==
    CASE l = r /\ l \in {"integer", "string"} -> l
      [] "contradictory" \in {l, r} \/ (l # r /\ "unknown" \notin {l, r}) -> "contradictory"
      [] OTHER -> "unknown"
OfNot(operand) ==
    CASE operand \in {"boolean", "integer"} -> "boolean"
      [] operand = "contradictory" -> "contradictory"
      [] OTHER -> "unknown"
OfNegate(operand) ==
    IF operand \in {"integer", "contradictory"} THEN operand ELSE "unknown"

RECURSIVE Category(_, _)
Category(e, facts) ==
    CASE e.op = "name" -> facts.names[e.name]
      [] e.op = "const" -> e.category
      [] e.op = "not" -> OfNot(Category(e.of, facts))
      [] e.op = "negate" -> OfNegate(Category(e.of, facts))
      [] e.op \in Arithmetic -> OfArithmetic(Category(e.left, facts), Category(e.right, facts))
      [] e.op = "call" -> Signatures[e.function].returns
      [] e.op = "construct" -> "record"
      [] e.op \in {"and", "or"} -> OfBoolean({Category(o, facts) : o \in ToSet(e.operands)})
      [] e.op = "compare" -> OfComparison({Category(o, facts) : o \in ToSet(e.operands)})
      [] e.op \in {"list", "tuple", "dict"} -> e.op
      [] e.op \in {"item", "field"} ->
            IF e \in DOMAIN facts.accesses THEN facts.accesses[e].category ELSE "unknown"

Names(program) == DOMAIN program.parameters \cup Targets(program.body)

(* The category a statement gives its target.                                 *)
Given(st, facts) ==
    CASE st.op = "assign" -> Category(st.value, facts)
      [] st.op = "for" -> "integer"
      [] st.op = "each" -> IF st.over.op = "name" /\ st.over.name \in DOMAIN facts.turns
                           THEN facts.turns[st.over.name].category ELSE "unknown"
Written(program, x, facts) ==
    {Given(st, facts) : st \in {s \in Statements(program.body) : Binding(s) /\ s.target = x}}
    \cup (IF x \in DOMAIN program.parameters THEN {program.parameters[x]} ELSE {})

(* The categories of the names, the accesses and the loops being as they are. *)
RECURSIVE Settled(_, _)
Settled(program, facts) ==
    LET next == [facts EXCEPT !.names = [x \in Names(program) |-> Joined(Written(program, x, facts))]]
    IN IF next = facts THEN facts ELSE Settled(program, next)
Settle(program, accesses, turns) ==
    Settled(program, [names |-> [x \in Names(program) |-> "unknown"],
                      accesses |-> accesses, turns |-> turns])
=============================================================================
