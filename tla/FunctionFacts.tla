----------------------------- MODULE FunctionFacts -----------------------------
(***************************************************************************)
(* What the converter's analysis finds out about the body of a function    *)
(* and why it refuses one: analysis/functions.py,                          *)
(* numeric_semantics/analysis.py, conditional_regions/analysis.py.         *)
(*                                                                         *)
(* A refusal is one bit: which of several is reported, and with which      *)
(* code, is left out, but for the codes of one call (CallBinding).         *)
(***************************************************************************)
EXTENDS StorageFacts

-----------------------------------------------------------------------------
(* Calls, and what is approved of numbers and of conditional operands.        *)

ArgumentCategories(e, facts) ==
    [i \in DOMAIN e.arguments |-> IF e.arguments[i].kind = "starred" THEN "unknown"
                                  ELSE Category(e.arguments[i].value, facts)]
Fault(e, facts) ==
    CallFault(Signatures[e.function], e.arguments, ArgumentCategories(e, facts))
Supported(e, facts) == Fault(e, facts) = "none"

RECURSIVE ApprovedInteger(_, _)
NumericOperation(e, facts) ==
    /\ Category(e.left, facts) = "integer" /\ Category(e.right, facts) = "integer"
    /\ ApprovedInteger(e.left, facts)
    /\ Signed(e.right) /\ SignedValue(e.right) \notin {0, -1}
ApprovedInteger(e, facts) ==
    /\ Category(e, facts) = "integer"
    /\ CASE e.op \in {"name", "const"} -> TRUE
         [] e.op = "negate" -> ApprovedInteger(e.of, facts)
         [] e.op \in {"add", "sub"} -> ApprovedInteger(e.left, facts) /\ ApprovedInteger(e.right, facts)
         [] e.op \in {"floordiv", "mod"} -> NumericOperation(e, facts)
         [] e.op = "call" -> Supported(e, facts)
         [] e.op \in {"item", "field"} -> e \in DOMAIN facts.accesses
         [] OTHER -> FALSE

(* Of a call, only the positional arguments are looked into.                  *)
PlainArguments(e) ==
    {e.arguments[i].value : i \in {j \in DOMAIN e.arguments : e.arguments[j].kind = "positional"}}

RECURSIVE Approved(_, _)
Approved(e, facts) ==
    LET category == Category(e, facts) IN
    CASE e.op \in {"name", "const"} -> category \in Scalar
      [] e.op \in {"item", "field"} -> e \in DOMAIN facts.accesses /\ category \in Scalar
      [] e.op = "call" -> /\ Supported(e, facts) /\ category \in Scalar
                          /\ \A a \in PlainArguments(e) : Approved(a, facts)
      [] e.op = "not" -> category = "boolean" /\ Approved(e.of, facts)
      [] e.op = "negate" -> category = "integer" /\ Approved(e.of, facts)
      [] e.op \in {"floordiv", "mod"} -> /\ \A o \in Parts(e) : Approved(o, facts)
                                         /\ NumericOperation(e, facts)
      [] e.op \in {"add", "sub"} -> /\ \A o \in Parts(e) : Approved(o, facts)
                                    /\ category = "integer"
      [] e.op \in {"and", "or", "compare"} -> /\ category = "boolean"
                                              /\ \A o \in Parts(e) : Approved(o, facts)
      [] OTHER -> FALSE

(* Whether an expression has statements put before it.                        *)
RECURSIVE Prerequisite(_, _)
Prerequisite(e, facts) ==
    /\ Approved(e, facts)
    /\ CASE e.op = "call" -> TRUE
         [] e.op \in {"floordiv", "mod"} -> TRUE
         [] e.op = "compare" /\ Len(e.tests) > 1 -> TRUE
         [] OTHER -> \E o \in Parts(e) : Prerequisite(o, facts)

BooleanRegion(e, facts) ==
    Approved(e, facts) /\ \E o \in Parts(e) : Prerequisite(o, facts)
ComparisonRegion(e, facts) ==
    /\ Approved(e, facts) /\ Len(e.tests) > 1
    /\ \E i \in 3 .. Len(e.operands) :
          e.operands[i].op \notin {"name", "const"} \/ Prerequisite(e.operands[i], facts)

-----------------------------------------------------------------------------
(* FunctionFactsAnalyzer.local_declarations and .return_paths.                *)

Loads(e) == {n.name : n \in {part \in Within(e) : part.op = "name"}}

(* The names that are bound whichever way a block is left at its end.         *)
RECURSIVE Bound(_, _)
After(st, bound) ==
    CASE st.op = "assign" -> bound \cup {st.target}
      [] st.op = "if" -> Bound(st.body, bound) \cap Bound(st.orelse, bound)
      [] OTHER -> bound
Bound(block, bound) ==
    IF block = <<>> THEN bound ELSE Bound(Tail(block), After(Head(block), bound))

(* A name is read before it is bound, or first bound in a branch or a loop.   *)
RECURSIVE Unbound(_, _, _)
(* Variant: a name may be bound first in every branch. *)
UnboundWhenRead(st, bound, nested) ==
    \/ \E e \in Uses(st) : ~(Loads(e) \subseteq bound)
    \/ \E block \in ToSet(Blocks(st)) :
          Unbound(block, IF Binding(st) THEN bound \cup {st.target} ELSE bound, TRUE)

UnboundIn(st, bound, nested) ==
    \/ \E e \in Uses(st) : ~(Loads(e) \subseteq bound)
    \/ st.op = "assign" /\ nested /\ st.target \notin bound
    \/ \E block \in ToSet(Blocks(st)) :
          Unbound(block, IF Binding(st) THEN bound \cup {st.target} ELSE bound, TRUE)
Unbound(block, bound, nested) ==
    /\ block # <<>>
    /\ \/ UnboundIn(Head(block), bound, nested)
       \/ Unbound(Tail(block), After(Head(block), bound), nested)

RepresentationConflict(facts) == \E x \in DOMAIN facts.names : facts.names[x] = "contradictory"

(* A loop's target is a name of its own: no parameter, no other binding of it.*)
LoopTargets(program) ==
    {s.target : s \in {st \in Statements(program.body) : st.op \in {"for", "each"}}}
TargetReused(program) ==
    \E x \in LoopTargets(program) :
        x \in DOMAIN program.parameters \/ Len(BindingsOf(program, x)) > 1

RECURSIVE GuaranteesReturn(_)
GuaranteesReturn(block) ==
    \E st \in ToSet(block) :
        \/ st.op = "return"
        \/ st.op = "if" /\ GuaranteesReturn(st.body) /\ GuaranteesReturn(st.orelse)

Returned(program, facts) ==
    {Category(st.value, facts) :
        st \in {s \in Statements(program.body) : s.op = "return"}}

-----------------------------------------------------------------------------
RangeSupported(st, facts) ==
    Len(st.range) \in 1 .. 3 /\ \A e \in ToSet(st.range) : Category(e, facts) = "integer"

(* A refusal that ends the analysis, before its facts are validated.          *)
RefusedAtOnce(program, facts) ==
    \/ \E round \in {1, 3} : RecordsRefused(program, Found(program)[round])
    \/ \E e \in Expressions(program) : e.op \in {"floordiv", "mod"} /\ ~NumericOperation(e, facts)

RefusedInAnalysis(program, facts) ==
    \/ ContainersRefused(program, facts, Found(program)[2])
    \/ \E e \in Expressions(program) : e.op = "call" /\ ~Supported(e, facts)
    \/ \E st \in Statements(program.body) : st.op = "for" /\ ~RangeSupported(st, facts)
    \/ Unbound(program.body, DOMAIN program.parameters, FALSE)
    \/ RepresentationConflict(facts)
    \/ TargetReused(program)
    \/ ~GuaranteesReturn(program.body)
    \/ Returned(program, facts) # {program.returns}
=============================================================================
