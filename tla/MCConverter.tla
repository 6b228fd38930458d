----------------------------- MODULE MCConverter -----------------------------
(* Bundles of three documents for TLC.                                        *)
EXTENDS Converter

From(target, name, local) ==
    [kind |-> "from", target |-> target, name |-> name, local |-> local, malformed |-> FALSE]
Def(name, binds, calls) ==
    [kind |-> "def", name |-> name, eligible |-> TRUE, binds |-> binds, calls |-> calls,
     reads |-> {}, imports |-> FALSE]
Class(name) == [kind |-> "class", name |-> name]

ThreeModules == <<2, 1, 3>>
Documents == {1, 2, 3}
Dotted == {<<1, "s", 5>>}

Everything == {"f", "g", "h"}
Of(first, second, third) ==
    [m \in Documents |-> CASE m = 1 -> first [] m = 2 -> second [] m = 3 -> third]

(* Imports of functions and of imports, under their own and under other       *)
(* names, shadowed and rebound, in chains, cycles and diamonds.               *)
Firsts ==
    {imports \o defs :
        imports \in {<<From(2, "f", "g")>>, <<From(2, "f", "g"), From(3, "f", "h")>>},
        defs \in {<<Def("f", {}, Everything)>>, <<Def("f", {"g"}, Everything)>>}}
Seconds ==
    {<<Def("g", {}, {"h"}), Def("f", {}, {"g"})>>,
     <<From(3, "f", "g"), Def("f", {}, {"g"})>>, <<From(1, "f", "g"), Def("f", {}, {"g"})>>}

(* What the shape of a module may have wrong, and what it may have at all.    *)
Odd ==
    { <<[Def("f", {}, {}) EXCEPT !.kind = "async"]>>,
      <<[Def("f", {}, {}) EXCEPT !.eligible = FALSE]>>,
      <<[Def("f", {}, {}) EXCEPT !.imports = TRUE]>>,
      <<Def("f", {}, {}), [From(2, "f", "g") EXCEPT !.malformed = TRUE]>>,
      <<From(2, "f", "g"), [Def("f", {}, {}) EXCEPT !.reads = {"g"}]>>,
      <<[kind |-> "state", binds |-> {"f"}], Def("f", {}, {})>>,
      <<From(2, "f", "g"), [kind |-> "state", binds |-> {"g"}]>>,
      <<[kind |-> "import"], Def("f", {}, {})>>,
      <<From(1, "f", "g"), Def("f", {}, {"g"})>>,
      <<From(4, "f", "f"), Def("g", {}, {})>>,
      <<From(5, "f", "f"), Def("g", {}, {})>>,
      <<From(2, "s", "f"), Def("g", {}, {})>>,
      <<From(2, "f", "f"), Def("f", {}, {"f"})>>,
      <<From(2, "f", "g"), From(3, "f", "g"), Def("f", {}, {"g"})>>,
      <<From(2, "f", "g"), From(3, "f", "h"), From(3, "f", "i"), From(3, "f", "j"), Def("f", {}, {})>>,
      <<Class("g"), Def("f", {}, Everything)>>,
      <<Class("g"), From(2, "f", "g"), Def("f", {}, {"g"})>>,
      <<Def("f", {}, {}), Class("h")>>,
      <<Def("f", {}, {}), Def("f", {}, {"f"})>>,
      <<>> }
Leaf == <<Def("f", {}, {})>>
Simplest == Of(<<From(2, "f", "g"), Def("f", {}, {"g"})>>, Leaf, Leaf)
SomeBundles ==
    {Of(a, b, Leaf) : a \in Firsts, b \in Seconds}
      \cup {Of(a, <<From(1, "f", "g"), Def("f", {}, {"g"})>>, Leaf) : a \in Odd}
      \cup {Of(a, <<From(3, "f", "g"), Def("f", {}, {"g"})>>, <<From(1, "f", "g"), Def("f", {}, {"g"})>>) :
               a \in {Leaf, <<From(2, "f", "g"), Def("f", {}, {"g"})>>}}

Usual == [bytes |-> 1, lines |-> 1, tokens |-> 1, nodes |-> 1, depth |-> 1,
          tokenizes |-> TRUE, parses |-> TRUE, unicode |-> TRUE, wide |-> FALSE]
Unusual ==
    { [Usual EXCEPT !.bytes = 2], [Usual EXCEPT !.lines = 2],
      [Usual EXCEPT !.tokens = 2], [Usual EXCEPT !.nodes = 2],
      [Usual EXCEPT !.depth = 3],
      [Usual EXCEPT !.tokenizes = FALSE], [Usual EXCEPT !.parses = FALSE],
      [Usual EXCEPT !.unicode = FALSE], [Usual EXCEPT !.wide = TRUE] }
AllUsual == [m \in Documents |-> Usual]
OneUnusual == {[AllUsual EXCEPT ![3] = u] : u \in Unusual}
Ceilings == [bytes |-> 3, lines |-> 3, tokens |-> 3, nodes |-> 3, depth |-> 2]

(* Every bundle with usual documents, one bundle with unusual ones.           *)
SomeInputs ==
    {[bundle |-> b, measure |-> AllUsual] : b \in SomeBundles}
      \cup {[bundle |-> Simplest, measure |-> m] : m \in OneUnusual}
=============================================================================
