----------------------------- MODULE MCTranslation -----------------------------
(* Small functions for Translation: every call of two signatures, nested      *)
(* conditions and comparisons, short bodies with every kind of statement, and *)
(* containers and records with what they are built of and used for.           *)
EXTENDS Translation

Var(x) == [op |-> "name", name |-> x]
Number(v) == [op |-> "const", value |-> v, category |-> "integer"]
Text == [op |-> "const", value |-> 7, category |-> "string"]
Unary(op, e) == [op |-> op, of |-> e]
Arith(op, l, r) == [op |-> op, left |-> l, right |-> r]
Logic(op, operands) == [op |-> op, operands |-> operands]
Compare(tests, operands) == [op |-> "compare", tests |-> tests, operands |-> operands]
Argument(kind, name, e) == [kind |-> kind, name |-> name, value |-> e]
Sequence(op, elements) == [op |-> op, elements |-> elements]
Dictionary(keys, values) == [op |-> "dict", keys |-> keys, values |-> values]
Item(x, index) == [op |-> "item", of |-> Var(x), index |-> index]
Field(x, field) == [op |-> "field", of |-> Var(x), field |-> field]
New(record, arguments) == [op |-> "construct", record |-> record, arguments |-> arguments]
Pair(arguments) == New("Pair", arguments)
CallTo(f, arguments) == [op |-> "call", function |-> f, arguments |-> arguments]
Apply(f, e) == CallTo(f, <<Argument("positional", 0, e)>>)

Let(x, e) == [op |-> "assign", target |-> x, value |-> e]
Do(e) == [op |-> "expr", value |-> e]
Give(e) == [op |-> "return", value |-> e]
When(test, body, orelse) == [op |-> "if", test |-> test, body |-> body, orelse |-> orelse]
Loop(test, body) == [op |-> "while", test |-> test, body |-> body]
For(x, range, body) == [op |-> "for", target |-> x, range |-> range, body |-> body]
Over(x, e, body) == [op |-> "each", target |-> x, over |-> e, body |-> body]
Leave == [op |-> "break"]
Again == [op |-> "continue"]

Def(returns, body) ==
    [parameters |-> [a |-> "integer", p |-> "boolean"], returns |-> returns, body |-> body]

(* def g(x: int) -> int, def t(x: int) -> bool, def u(s: str) -> bool,
   def h(x: int, /, y: int) -> int, def k(x: int, /, y: int, *, z: int) -> int *)
Signature(positionalOnly, keywordOnly, categories, returns) ==
    [positionalOnly |-> positionalOnly, keywordOnly |-> keywordOnly,
     categories |-> categories, returns |-> returns]
MCSignatures ==
    [g |-> Signature(0, 0, <<"integer">>, "integer"),
     t |-> Signature(0, 0, <<"integer">>, "boolean"),
     u |-> Signature(0, 0, <<"string">>, "boolean"),
     h |-> Signature(1, 0, <<"integer", "integer">>, "integer"),
     k |-> Signature(1, 1, <<"integer", "integer", "integer">>, "integer")]

(* class Pair: n: int, b: bool; and classes that are no records, or whose
   __init__ takes, assigns or types the fields in another way. *)
Typed2(name, category) == [name |-> name, category |-> category]
Copy(to, from) == [to |-> to, from |-> from]
Class(fields, parameters, assignments) ==
    [fields |-> fields, parameters |-> parameters, assignments |-> assignments]
Two == <<Typed2("n", "integer"), Typed2("b", "boolean")>>
Same == <<Typed2("n", "integer"), Typed2("m", "integer")>>
MCRecords ==
    [Pair |-> Class(Two, Two, <<Copy("n", "n"), Copy("b", "b")>>),
     Same |-> Class(Same, Same, <<Copy("n", "n"), Copy("m", "m")>>),
     Turned |-> Class(Same, <<Same[2], Same[1]>>, <<Copy("n", "n"), Copy("m", "m")>>),
     Later |-> Class(Same, Same, <<Copy("m", "m"), Copy("n", "n")>>),
     Crossed |-> Class(Same, Same, <<Copy("n", "m"), Copy("m", "n")>>),
     Halved |-> Class(Same, Same, <<Copy("n", "n")>>),
     Doubled |-> Class(Same, Same, <<Copy("n", "n"), Copy("n", "m")>>),
     Loose |-> Class(Same, Two, <<Copy("n", "n"), Copy("m", "b")>>),
     Longer |-> Class(<<Same[1]>>, Same, <<Copy("n", "n")>>),
     Repeated |-> Class(<<Same[1], Same[1]>>, <<Same[1]>>, <<Copy("n", "n")>>),
     Wide |-> Class(Same \o <<Typed2("l", "integer")>>, Same \o <<Typed2("l", "integer")>>,
                    <<Copy("n", "n"), Copy("m", "m"), Copy("l", "l")>>),
     Named |-> Class(<<Typed2("n", "string")>>, <<Typed2("n", "string")>>, <<Copy("n", "n")>>)]

A == Var("a")
P == Var("p")
X == Var("x")
Count(v) == Apply("g", Number(v))

-----------------------------------------------------------------------------
(* Calls: a positional argument follows no keyword. *)
Kinds(arity) == {<<"positional", 0>>, <<"starred", 0>>, <<"unpack", 0>>}
                \cup ({"keyword"} \X (0 .. arity))
Shapes(arity, length) ==
    {s \in [1 .. length -> Kinds(arity)] :
        \A i, j \in 1 .. length : i < j /\ s[j][1] = "positional" => s[i][1] \notin {"keyword", "unpack"}}
CallsOf(f, arity, length) ==
    {CallTo(f, [i \in 1 .. length |-> Argument(s[i][1], s[i][2], Count(i))]) : s \in Shapes(arity, length)}
    \cup {CallTo(f, [i \in 1 .. length |-> Argument(s[i][1], s[i][2], IF i = length THEN Text ELSE A)]) :
             s \in Shapes(arity, length)}
Calls == UNION {CallsOf("h", 2, n) : n \in 0 .. 3} \cup UNION {CallsOf("k", 3, n) : n \in 0 .. 4}

-----------------------------------------------------------------------------
Keyword(e) == CallTo("h", <<Argument("positional", 0, e), Argument("keyword", 2, Count(1))>>)
Numbers == {A, Number(1), Count(2), Unary("negate", Count(3)),
            Arith("floordiv", Count(2), Unary("negate", Number(2)))}
Truths == {P, Apply("t", A), Unary("not", Apply("t", Number(1))),
           Compare(<<"<">>, <<A, Count(1)>>), Apply("u", Text)}
Chains == {Compare(tests, operands) :
              tests \in {<<"<", "<">>, <<"==", "<">>}, operands \in [1 .. 3 -> Numbers]}
Longer == {Compare(<<"<", "==", "<">>, <<n, A, Count(2), m>>) : n, m \in Numbers}
Junctions(of) == {Logic(op, operands) : op \in {"and", "or"}, operands \in of \X of}
Nested == {Logic(op, <<l, r, m>>) : op \in {"and", "or"}, l \in Truths, m \in Truths,
              r \in Junctions({P, Apply("t", A)}) \cup {Compare(<<"<", "<">>, <<A, Number(1), Count(1)>>)}}
Negations == {Unary("not", c) : c \in Junctions(Truths)}
Sums == {Arith(op, l, r) : op \in {"add", "sub"}, l, r \in Numbers \cup {P, Text}}
        \cup {Arith(op, l, r) : op \in {"floordiv", "mod"}, l \in Numbers \cup {P, Apply("t", A)},
                 r \in {Number(v) : v \in 0 .. 2} \cup {Unary("negate", Number(v)) : v \in 1 .. 2} \cup {A}}
        \cup {Keyword(n) : n \in Numbers}

-----------------------------------------------------------------------------
Simple == {Let("x", Count(1)), Let("x", Arith("add", X, Number(1))), Let("x", P),
           Let("x", Unary("negate", P)), Let("i", Number(1)), Do(Apply("g", X)), Do(Apply("g", Var("i"))),
           Do(X), Give(X), Leave, Again}
Tests == {P, A, Text, Apply("t", X), Compare(<<"<">>, <<X, Number(2)>>),
          Logic("and", <<P, Apply("t", X)>>), Compare(<<"<", "<">>, <<Number(0), X, Count(1)>>)}
Ranges == {<<Count(2)>>, <<Number(0), X>>, <<Count(1), Number(0), Unary("negate", Number(1))>>,
           <<A, Number(2), Number(0)>>, <<P>>, <<Number(0), Number(2), X>>}
Bodies == {<<s>> : s \in Simple}
          \cup {<<When(P, <<s>>, <<>>), t>> : s \in {Leave, Again, Give(X), Let("x", Count(2))},
                                             t \in {Do(Apply("g", X)), Let("x", Arith("add", X, Number(1)))}}
Compounds ==
    {Simple,
     {When(test, body, orelse) : test \in Tests, body \in Bodies,
                                 orelse \in {<<>>, <<Let("x", Number(5))>>, <<Give(A)>>}},
     {Loop(test, body) : test \in Tests, body \in Bodies},
     {For(x, range, body) : x \in {"i", "x", "a"}, range \in Ranges, body \in Bodies},
     {For("i", <<A>>, <<For(x, <<Count(1)>>, body)>>) : x \in {"i", "j"}, body \in Bodies}}

-----------------------------------------------------------------------------
Minus(e) == Unary("negate", e)
Up(n, of) == UNION {[1 .. k -> of] : k \in 0 .. n}
Stored3 == {A, P, Count(1)}
Sequences == {Sequence("list", e) : e \in Up(3, Stored3)}
             \cup {Sequence("tuple", e) : e \in Up(2, {Count(2), Text, Arith("mod", A, Number(2))})}
             \cup {Sequence("list", <<Sequence("tuple", <<A>>)>>), Sequence("list", <<Var("z")>>)}
Keys == {Number(0), Number(1), Minus(Number(1)), Text, A}
Dictionaries ==
    {Dictionary(<<>>, <<>>)} \cup {Dictionary(<<k>>, <<v>>) : k \in Keys, v \in Stored3}
    \cup {Dictionary(<<k, l>>, v) : k, l \in Keys, v \in {<<Count(1), Count(2)>>, <<A, P>>, <<P, P>>}}
Indices == {Number(v) : v \in 0 .. 2} \cup {Minus(Number(v)) : v \in 1 .. 3} \cup {Text, A, Count(0)}
Few == {Sequence("list", <<A, Count(1)>>), Sequence("tuple", <<Count(1)>>), Sequence("list", <<P, P>>),
        Dictionary(<<Number(1), Minus(Number(1))>>, <<Count(1), A>>), Dictionary(<<Text>>, <<Count(1)>>)}
Turns == {<<Do(Apply("g", Var("i")))>>, <<Give(Var("i"))>>, <<When(P, <<Leave>>, <<>>), Do(Apply("g", A))>>,
          <<When(Apply("t", Var("i")), <<Again>>, <<>>), Do(Apply("g", Var("i")))>>,
          <<Let("i", A)>>, <<Let("a", Var("i"))>>, <<Over("j", X, <<Do(Apply("g", Var("j")))>>)>>}
OfContainers ==
    {{<<Let("x", c), Give(Item("x", i))>> : c \in Sequences \cup Dictionaries, i \in Indices},
     {<<Let("x", c), Over(i, X, body), Give(A)>> :
             c \in Few \cup Dictionaries, i \in {"i", "a", "x"}, body \in Turns},
     {s \o <<Give(Item("x", Number(0)))>> :
             s \in {<<When(P, <<Let("x", c)>>, <<>>)>> : c \in Few}
                   \cup {<<For("i", <<A>>, <<Let("x", c)>>)>> : c \in Few}
                   \cup {<<Let("x", c), t>> : c \in Few, t \in {Let("y", X), Do(X), Do(Apply("g", X)),
                        Let("x", A), When(X, <<Give(A)>>, <<>>), Over("i", Item("x", Number(0)), <<>>),
                        When(P, <<Give(Item("x", Number(1)))>>, <<Over("i", X, <<Give(Var("i"))>>)>>)}}
                   \cup {<<Let("x", c), Let("x", d)>> : c \in Few \cup {A}, d \in Few}
                   \cup {<<Let(y, Item("x", Number(0))), Let("x", c)>> : c \in Few, y \in {"x", "y"}}},
     {<<Let("x", c), Let("y", Sequence("list", <<Item("x", i), e>>)), Give(Item("y", j))>> :
             c \in Few, i, j \in {Number(0), Number(1), Minus(Number(1))}, e \in Stored3},
     {<<Over("i", e, <<>>), Give(A)>> : e \in {A, Apply("g", A)} \cup Few},
     {<<Let("a", c), Give(Item("a", Number(0)))>> : c \in Few}}

Filling == {A, P, Count(1), Apply("t", A), Minus(P), Text, Field("q", "n"), Field("q", "b"),
            Minus(Field("q", "n")), Minus(Field("q", "b")), Unary("not", Field("q", "b")),
            Arith("add", A, Field("q", "n")), Item("x", Number(0))}
Given2 == {<<>>, <<Let("q", Pair(<<A, P>>))>>, <<Let("x", Sequence("list", <<Count(1)>>))>>,
           <<Let("q", Pair(<<A, P>>)), Let("x", Sequence("list", <<Field("q", "b"), P>>))>>,
           <<Let("x", Sequence("list", <<P>>)), Let("q", Pair(<<A, Item("x", Number(0))>>))>>}
OfRecords ==
    {{s \o <<Let("r", Pair(<<n, b>>)), Give(Field("r", "n"))>> : s \in Given2, n, b \in Filling},
     {<<Let("r", New(record, e)), Give(Field("r", f))>> :
         record \in DOMAIN MCRecords, e \in [1 .. 2 -> {A, Count(1)}] \cup {<<A>>, <<Text>>, <<A, A, A>>},
         f \in {"n", "m"}},
     {<<Let("r", Pair(e)), Give(Field("r", f))>> : e \in Up(3, {A, P}), f \in {"n", "b", "z"}},
     {s \o <<Give(Field("q", "n"))>> :
             s \in {<<When(P, <<Let("q", Pair(<<A, P>>))>>, <<>>)>>}
                   \cup {<<Let("q", Pair(<<A, P>>)), t>> : t \in {Let("q", Pair(<<A, P>>)), Let("q", A),
                        Let("r", Var("q")), Do(Var("q")), Do(Apply("g", Field("q", "n"))),
                        When(Field("q", "b"), <<Give(Minus(Field("q", "n")))>>, <<>>),
                        Let("a", Field("q", "n")), Over("i", Var("q"), <<>>),
                        For("i", <<Field("q", "n")>>, <<Do(Apply("g", Field("q", "n")))>>),
                        Let("x", Sequence("list", <<Field("q", "n"), Field("q", "n")>>)),
                        Let("x", Sequence("list", <<Var("q")>>)), Let("r", Pair(<<Var("q"), P>>)),
                        Do(Pair(<<A, P>>)), Let("a", Pair(<<A, P>>)), Let("a", Field("q", "b"))}}
                   \cup {<<t, Let("q", Pair(<<A, P>>))>> : t \in {Let("x", Field("q", "n")), Let("q", A),
                        Do(Apply("g", Field("q", "n")))}}}}
Truthful ==
    {<<Let("q", Pair(<<Count(1), Apply("t", A)>>)), Give(e)>> :
        e \in {Field("q", "b"), Unary("not", Field("q", "b"))}
              \cup {Compare(<<"<", "<">>, <<n, A, m>>) : n, m \in {Field("q", "n"), Count(1)}}
              \cup Junctions({Field("q", "b"), P, Apply("t", Field("q", "n"))})}
    \cup {<<Let("x", c), Give(e)>> : c \in Few,
        e \in {Item("x", Number(0)), Compare(<<"<">>, <<Item("x", Minus(Number(1))), Count(1)>>)}
              \cup Junctions({Item("x", Number(0)), Apply("t", A)})}

(* A parameter bound again, and what a call is then given of it. *)
Forms == {A, P, Minus(A), Unary("not", A), Unary("not", P), Arith("add", A, Number(1)),
          Arith("mod", A, Number(2)), Compare(<<"<">>, <<A, Number(1)>>), Logic("and", <<P, Unary("not", P)>>)}
Rebinding ==
    {<<s, Give(CallTo("k", <<Argument("positional", 0, e), Argument("positional", 0, Count(1)),
                             Argument("keyword", 3, A)>>))>> :
        s \in {Let("a", P), Let("a", Count(1)), Let("p", A), Let("p", Apply("t", A))}, e \in Forms}
    \cup {<<Let("a", P), Give(CallTo("h", <<Argument(kind, 1, e), Argument("keyword", 2, Count(1))>>))>> :
        kind \in {"positional", "keyword"}, e \in Forms}

(* Operators within operators, which C reads by their ranks. *)
Terms == {A, Minus(A), Minus(Minus(A))} \cup {Arith(op, A, r) : op \in {"add", "sub"}, r \in {Number(1), Minus(A)}}
Deep == {Arith(op, l, r) : op \in {"add", "sub"}, l, r \in Terms} \cup {Minus(t) : t \in Terms}
Conditions == {P, Unary("not", A), Unary("not", Unary("not", P)), Compare(<<"==">>, <<A, Minus(A)>>),
               Compare(<<"<">>, <<Arith("sub", A, Number(1)), Minus(A)>>)}
DeepConditions ==
    Junctions(Conditions) \cup {Compare(<<op>>, <<l, r>>) : op \in {"==", "<"}, l, r \in Conditions}
    \cup {Unary("not", c) : c \in Conditions}
    \cup {Logic(op, <<l, P, r>>) : op \in {"and", "or"}, l, r \in Junctions({P, Unary("not", A)})}

(* A name that is read is bound somewhere in the function. *)
Closed(programs) ==
    {d \in programs : UNION {Loads(e) : e \in Expressions(d)} \subseteq Names(d)}

MCPrograms ==
    {{Def("integer", <<Give(e)>>) : e \in Calls}, {Def("integer", <<Give(e)>>) : e \in Sums},
     {Def("integer", body) : body \in Rebinding}, {Def("integer", <<Give(e)>>) : e \in Deep}}
    \cup {{Def("boolean", <<Give(e)>>) : e \in c} : c \in {Chains, Longer, Nested, Negations, Junctions(Truths), DeepConditions}}
    \cup {Closed({Def("integer", body) : body \in b}) : b \in OfContainers \cup OfRecords}
    \cup {{Def("boolean", body) : body \in Truthful}}
    \cup {Closed({Def("integer", prefix \o <<c>> \o suffix) :
                     prefix \in {<<>>, <<Let("x", Number(1))>>, <<For("i", <<A>>, <<Do(Count(1))>>), Let("x", A)>>},
                     suffix \in {<<Give(X)>>, <<>>}, c \in cs}) : cs \in Compounds}

MCValues == {-1, 2}
MCAnswers == {<<0, 1>>, <<2, 1, 0>>, <<-2, 3, 1>>}
=============================================================================
