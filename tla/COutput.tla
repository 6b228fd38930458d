-------------------------------- MODULE COutput --------------------------------
(***************************************************************************)
(* The C as text: c_output/renderer.py prints the tree, with parentheses   *)
(* where it thinks they are needed, and the text is parsed twice, by the   *)
(* check of c_output/conformance.py, which only accepts it or not, and by  *)
(* a compiler, which sees nothing else.                                    *)
(*                                                                         *)
(* A text is a sequence of tokens [t, of]: what the token is and, of a     *)
(* name, a number or a type, which.  Spellings of names, escapes, includes *)
(* and the signature are left out; a blank is kept where two tokens could  *)
(* be read as one.                                                         *)
(***************************************************************************)
EXTENDS CLowering

Mark(t) == <<[t |-> t]>>
Word(t, of) == <<[t |-> t, of |-> of]>>
Separated(texts) ==
    FlattenSeq([i \in DOMAIN texts |-> IF i = 1 THEN texts[i] ELSE Mark(",") \o texts[i]])

-----------------------------------------------------------------------------
(* CRenderer: expressions. *)

Rank(operator) ==
    CASE operator = "||" -> 3
      [] operator = "&&" -> 4
      [] operator \in {"==", "!="} -> 8
      [] operator \in {"<", ">"} -> 9
      [] operator \in {"+", "-"} -> 11
      [] operator \in {"/", "%"} -> 12
Precedence(e) ==
    CASE e.c = "binary" -> Rank(e.operator)
      [] e.c \in {"not", "negate"} -> 13
      [] e.c \in {"call", "helper", "subscript", "member"} -> 14
      [] OTHER -> 15

(* Variant: operators of one rank are taken to associate either way. *)
EnclosedByRank(e, parent, right) == Precedence(e) < parent

(* Whether an expression is put in parentheses, as an operand of a parent.    *)
Enclosed(e, parent, right) ==
    \/ Precedence(e) < parent
    \/ right /\ Precedence(e) = parent /\ e.c = "binary"

RECURSIVE Rendered(_, _, _), RenderedBlock(_)
(* A name that is called; a helper's function is in the text as well.         *)
Callee(e) ==
    IF e.c = "helper" THEN [e EXCEPT !.arguments = <<>>, !.block = RenderedBlock(@)]
    ELSE [e EXCEPT !.arguments = <<>>]
List(expressions) == Separated([i \in DOMAIN expressions |-> Rendered(expressions[i], 0, FALSE)])
Bare(e) ==
    CASE e.c = "ref" -> Word("name", e.variable)
      [] e.c = "literal" -> Word("number", [value |-> e.value, type |-> e.type])
      [] e.c \in {"array", "struct"} -> Mark("{") \o List(e.arguments) \o Mark("}")
      [] e.c \in {"call", "helper"} ->
            Word("name", Callee(e)) \o Mark("(") \o List(e.arguments) \o Mark(")")
      [] e.c = "subscript" ->
            Rendered(e.of, 14, FALSE) \o Mark("[") \o Rendered(e.index, 0, FALSE) \o Mark("]")
      [] e.c = "member" -> Rendered(e.of, 14, FALSE) \o Mark(".") \o Word("name", e.field)
      [] e.c = "not" -> Mark("!") \o Rendered(e.of, Precedence(e) + 1, FALSE)
      [] e.c = "negate" -> Mark("-") \o Rendered(e.of, Precedence(e) + 1, FALSE)
      [] e.c = "binary" ->
            Rendered(e.left, Precedence(e), FALSE) \o Mark(" ") \o Mark(e.operator) \o Mark(" ")
               \o Rendered(e.right, Precedence(e), TRUE)
Rendered(e, parent, right) ==
    IF Enclosed(e, parent, right) THEN Mark("(") \o Bare(e) \o Mark(")") ELSE Bare(e)
Plain(e) == Rendered(e, 0, FALSE)

(* Statements. *)
Assigned(variable, e) == Word("name", variable) \o Mark("=") \o Plain(e)
Declared(variable, type, e) == Word("type", type) \o Assigned(variable, e)
RenderedStatement(st) ==
    CASE st.c = "declare" -> Declared(st.variable, st.type, st.value) \o Mark(";")
      [] st.c = "assign" -> Assigned(st.variable, st.value) \o Mark(";")
      [] st.c = "expr" -> Plain(st.value) \o Mark(";")
      [] st.c = "return" -> Mark("return") \o Plain(st.value) \o Mark(";")
      [] st.c \in {"break", "continue"} -> Mark(st.c) \o Mark(";")
      [] st.c = "if" -> 
            Mark("if") \o Mark("(") \o Plain(st.test) \o Mark(")") \o RenderedBlock(st.body)
               \o (IF st.orelse = <<>> THEN <<>> ELSE Mark("else") \o RenderedBlock(st.orelse))
      [] st.c = "while" -> Mark("while") \o Mark("(") \o Plain(st.test) \o Mark(")") \o RenderedBlock(st.body)
      [] st.c = "for" ->
            Mark("for") \o Mark("(") \o Declared(st.variable, "integer", st.start) \o Mark(";")
               \o Plain(st.test) \o Mark(";") \o Assigned(st.variable, st.next) \o Mark(")")
               \o RenderedBlock(st.body)
RenderedBlock(block) ==
    Mark("{") \o FlattenSeq([i \in DOMAIN block |-> RenderedStatement(block[i])]) \o Mark("}")

-----------------------------------------------------------------------------
(* Reading: what is read of a text from a place, and the place after it.  Two  *)
(* ends follow the text; at the last, nothing can be read any more.            *)

Read(value, next) == [value |-> value, next |-> next]
Unreadable == Ref(<<"unreadable">>)
Failed(text) == Read(Unreadable, Len(text))
Past(text, r, t) == IF text[r.next].t = t THEN Read(r.value, r.next + 1) ELSE Failed(text)

Operators == {"||", "&&", "==", "!=", "<", ">", "+", "-", "/", "%"}
(* The levels of C, and of _BINARY_PRECEDENCE. *)
Level(operator) ==
    CASE operator = "||" -> 1
      [] operator = "&&" -> 2
      [] operator \in {"==", "!="} -> 6
      [] operator \in {"<", ">"} -> 7
      [] operator \in {"+", "-"} -> 9
      [] OTHER -> 10

RECURSIVE Compiled(_)
Called(callee) ==
    IF callee.c = "helper" THEN [callee EXCEPT !.block = Compiled(@)] ELSE callee

RECURSIVE ReadExpression(_, _, _), ReadUnary(_, _), ReadPostfix(_, _), ReadBinary(_, _, _), ReadList(_, _, _)

(* Expressions with commas between them, up to a closing token.               *)
ReadMore(text, values, r, close) ==
    IF text[r.next].t = "," THEN ReadList(text, Read(Append(values, r.value), r.next + 1), close)
    ELSE Past(text, Read(Append(values, r.value), r.next), close)
ReadList(text, r, close) ==
    IF r.value = <<>> /\ text[r.next].t = close THEN Read(<<>>, r.next + 1)
    ELSE ReadMore(text, r.value, ReadExpression(text, r.next, 1), close)

ReadPrimary(text, i) ==
    CASE text[i].t = "(" -> Past(text, ReadExpression(text, i + 1, 1), ")")
      [] text[i].t = "number" -> Read(Literal(text[i].of.value, text[i].of.type), i + 1)
      [] text[i].t = "name" /\ text[i + 1].t = "(" -> Read(Called(text[i].of), i + 1)
      [] text[i].t = "name" /\ text[i + 1].t # "(" -> Read(Ref(text[i].of), i + 1)
      [] OTHER -> Failed(text)
ReadPostfix(text, r) ==
    CASE text[r.next].t = "(" ->
            LET list == ReadList(text, Read(<<>>, r.next + 1), ")")
            IN ReadPostfix(text, Read([r.value EXCEPT !.arguments = list.value], list.next))
      [] text[r.next].t = "[" ->
            LET index == Past(text, ReadExpression(text, r.next + 1, 1), "]")
            IN ReadPostfix(text, Read([c |-> "subscript", of |-> r.value, index |-> index.value], index.next))
      [] text[r.next].t = "." ->
            ReadPostfix(text, Read([c |-> "member", of |-> r.value, field |-> text[r.next + 1].of], r.next + 2))
      [] OTHER -> r
Behind(sign, r) == Read(IF sign = "-" THEN Negate(r.value) ELSE Not(r.value), r.next)
ReadUnary(text, i) ==
    IF text[i].t \in {"-", "!"} THEN Behind(text[i].t, ReadUnary(text, i + 1))
    ELSE ReadPostfix(text, ReadPrimary(text, i))

Operated(text, left, operator, minimum, right) ==
    ReadBinary(text, Read(Binary(operator, left.value, right.value), right.next), minimum)
ReadBinary(text, left, minimum) ==
    IF text[left.next].t \in Operators /\ Level(text[left.next].t) >= minimum
    THEN Operated(text, left, text[left.next].t, minimum,
                 ReadExpression(text, left.next + 1, Level(text[left.next].t) + 1))
    ELSE left
ReadExpression(text, i, minimum) == ReadBinary(text, ReadUnary(text, i), minimum)

(* Statements. *)
RECURSIVE ReadBlock(_, _), ReadStatements(_, _)
Condition(text, i) == Past(text, ReadExpression(text, i + 2, 1), ")")

(* An initializer has the type of what it is declared for.                    *)
Initial(type, values) ==
    IF type \in DOMAIN Records THEN [c |-> "struct", record |-> type, arguments |-> values]
    ELSE [c |-> "array", arguments |-> values]
ReadInitializer(text, type, i) ==
    CASE text[i].t # "{" -> ReadExpression(text, i, 1)
      [] text[i].t = "{" /\ text[i + 1].t = "}" -> Failed(text)
      [] OTHER -> LET list == ReadList(text, Read(<<>>, i + 1), "}")
                  IN Read(Initial(type, list.value), list.next)
Completed(text, r) == Past(text, r, ";")
ReadDeclaration(text, i) ==
    LET r == Completed(text, ReadInitializer(text, text[i].of, i + 3))
    IN Read(Declare(text[i + 1].of, text[i].of, r.value), r.next)
ReadSimple(text, target) ==
    IF text[target.next].t # "=" THEN Completed(text, Read([c |-> "expr", value |-> target.value], target.next))
    ELSE LET r == Completed(text, ReadExpression(text, target.next + 1, 1))
         IN Read(Assign(target.value.variable, r.value), r.next)

Otherwise(text, r) == IF text[r.next].t = "else" THEN ReadBlock(text, r.next + 1) ELSE Read(<<>>, r.next)
ReadIf(test, body, orelse) == Read(If(test.value, body.value, orelse.value), orelse.next)
ReadBranches(text, test, body) == ReadIf(test, body, Otherwise(text, body))
ReadWhile(test, body) == Read(While(test.value, body.value), body.next)
(* for (T x = start; test; x = next) body *)
ReadFor(text, i) ==
    LET start == Completed(text, ReadExpression(text, i + 5, 1))
        test  == Completed(text, ReadExpression(text, start.next, 1))
        next  == Past(text, ReadExpression(text, test.next + 2, 1), ")")
        body  == ReadBlock(text, next.next)
    IN Read([c |-> "for", variable |-> text[i + 3].of, start |-> start.value, test |-> test.value,
             next |-> next.value, body |-> body.value], body.next)
ReadStatement(text, i) ==
    CASE text[i].t = "return" -> LET r == Completed(text, ReadExpression(text, i + 1, 1))
                                 IN Read(Return(r.value), r.next)
      [] text[i].t \in {"break", "continue"} -> Completed(text, Read([c |-> text[i].t], i + 1))
      [] text[i].t = "if" ->
            LET test == Condition(text, i) IN ReadBranches(text, test, ReadBlock(text, test.next))
      [] text[i].t = "while" ->
            LET test == Condition(text, i) IN ReadWhile(test, ReadBlock(text, test.next))
      [] text[i].t = "for" -> ReadFor(text, i)
      [] text[i].t = "type" -> ReadDeclaration(text, i)
      [] OTHER -> ReadSimple(text, ReadExpression(text, i, 1))
ReadStatements(text, r) ==
    IF text[r.next].t \in {"}", "end"} THEN Past(text, r, "}")
    ELSE LET st == ReadStatement(text, r.next)
         IN ReadStatements(text, Read(Append(r.value, st.value), st.next))
ReadBlock(text, i) ==
    IF text[i].t = "{" THEN ReadStatements(text, Read(<<>>, i + 1)) ELSE Failed(text)

-----------------------------------------------------------------------------
(* A compiler takes two signs side by side for one token, the check does not. *)
Sign(text, i) == i \in DOMAIN text /\ text[i].t = "-"
Glued(text) ==
    [i \in DOMAIN text |-> IF Sign(text, i) /\ (Sign(text, i - 1) \/ Sign(text, i + 1))
                           THEN [t |-> "--"] ELSE text[i]]
Tokens(text) ==
    LET Solid(token) == token.t # " " IN SelectSeq(text, Solid) \o Mark("end") \o Mark("end")

(* validate_c_text *)
Conforming(text) == ReadBlock(Tokens(text), 1).next = Len(Tokens(text)) - 1

(* The C of a text, to a compiler; and that of the helpers it calls.    *)
Compiled(text) == ReadBlock(Tokens(Glued(text)), 1).value
=============================================================================
