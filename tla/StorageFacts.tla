------------------------------ MODULE StorageFacts ------------------------------
(***************************************************************************)
(* The containers and records of a function, which live in it and nowhere  *)
(* else: containers/analysis.py, records/analysis.py, and the rounds in    *)
(* which analysis/stage.py finds them together with the categories.        *)
(*                                                                         *)
(* A list, tuple or dictionary is a literal bound once to a name; the name *)
(* is used only to read an element at a literal place or to loop over all. *)
(* A record is constructed once for a name, which is used only to read its *)
(* fields.  Stores to elements and fields, always refused, are left out,   *)
(* and so are comprehensions and, of a class, all but its fields and what  *)
(* its __init__ takes and assigns.  A program has the classes it uses.     *)
(***************************************************************************)
EXTENDS Categories

CONSTANTS
    MaxElements,   \* MAX_CONTAINER_ELEMENTS
    MaxFields      \* MAX_RECORD_FIELDS

(* How a name occurs in an expression, and in a statement but as its target.  *)
RECURSIVE Roles(_)
Roles(e) ==
    CASE e.op = "name" -> {<<"plain", e.name>>}
      [] e.op \in {"item", "field"} /\ e.of.op = "name" ->
            {<<e.op, e.of.name>>} \cup UNION {Roles(part) : part \in Parts(e) \ {e.of}}
      [] OTHER -> UNION {Roles(part) : part \in Parts(e)}
RolesIn(st) ==
    IF st.op = "each" /\ st.over.op = "name" THEN {<<"each", st.over.name>>}
    ELSE UNION {Roles(e) : e \in Uses(st)}
RolesOf(x, statements) ==
    {role[1] : role \in {r \in UNION {RolesIn(st) : st \in statements} : r[2] = x}}

(* What is within a statement, but for the very value that it assigns.        *)
Aside(st) ==
    UNION {Within(e) : e \in Uses(st)} \ (IF st.op = "assign" THEN {st.value} ELSE {})
AsideIn(program) == UNION {Aside(st) : st \in Statements(program.body)}

AssignmentsTo(program, x) ==
    LET To(st) == st.op = "assign" /\ st.target = x
    IN SelectSeq(InOrder(program.body), To)

-----------------------------------------------------------------------------
(* BoundedContainerAnalyzer *)

Literals == {"list", "tuple", "dict"}
Elements(e) == IF e.op = "dict" THEN e.values ELSE e.elements

KeyCategory(e) ==
    CASE Signed(e) -> "integer"
      [] e.op = "const" /\ e.category = "string" -> "string"
      [] OTHER -> "none"
KeyValue(e) == IF Signed(e) THEN SignedValue(e) ELSE e.value

ValidKeys(keys) ==
    /\ {KeyCategory(k) : k \in ToSet(keys)} \in {{"integer"}, {"string"}}
    /\ Cardinality({KeyValue(k) : k \in ToSet(keys)}) = Len(keys)
ValidShape(e, facts) ==
    /\ Len(Elements(e)) \in 1 .. MaxElements
    /\ \A x \in ToSet(Elements(e)) : x.op \notin Literals
    /\ \E c \in Scalar : {Category(x, facts) : x \in ToSet(Elements(e))} = {c}
    /\ e.op = "dict" => ValidKeys(e.keys)
ElementCategory(e, facts) == Category(Head(Elements(e)), facts)

(* The names that are assigned a literal, and the first that each is.         *)
Holders(program) ==
    {st.target : st \in {s \in Statements(program.body) : s.op = "assign" /\ s.value.op \in Literals}}
Held(program, x) ==
    LET Holds(st) == st.value.op \in Literals
    IN Head(SelectSeq(AssignmentsTo(program, x), Holds)).value

(* A binding is fixed: direct in the body, the only one, used as it may be.   *)
Fixed(program, x, facts) ==
    /\ ValidShape(Held(program, x), facts)
    /\ Len(BindingsOf(program, x)) = 1
    /\ Head(AssignmentsTo(program, x)) \in ToSet(program.body)
    /\ RolesOf(x, Statements(program.body)) \subseteq {"item", "each"}

(* The place in a literal that an index or a key stands for, from 0.          *)
PlacesOf(index, literal) ==
    IF literal.op = "dict"
    THEN {i \in 0 .. Len(literal.keys) - 1 :
             /\ KeyCategory(index) = KeyCategory(literal.keys[i + 1])
             /\ KeyValue(index) = KeyValue(literal.keys[i + 1])}
    ELSE {i \in 0 .. Len(literal.elements) - 1 :
             Signed(index) /\ SignedValue(index) \in {i, i - Len(literal.elements)}}
(* Variant: a negative index counts from the front, as any integer key does. *)
OffsetFromFront(index, literal) ==
    CASE Signed(index) /\ SignedValue(index) < 0 -> -SignedValue(index)
      [] Signed(index) -> SignedValue(index)
      [] OTHER -> 0
Offset(index, literal) == CHOOSE i \in PlacesOf(index, literal) : TRUE

Readable(program, e, facts) ==
    /\ e.op = "item" /\ e.of.op = "name" /\ e.of.name \in Holders(program)
    /\ Fixed(program, e.of.name, facts)
    /\ PlacesOf(e.index, Held(program, e.of.name)) # {}
ContainerAccesses(program, facts) ==
    [e \in {i \in Expressions(program) : Readable(program, i, facts)} |->
        LET literal == Held(program, e.of.name)
        IN [category |-> ElementCategory(literal, facts), kind |-> literal.op,
            offset |-> Offset(e.index, literal)]]
ContainerTurns(program, facts) ==
    [x \in {h \in Holders(program) : Fixed(program, h, facts)} |->
        LET literal == Held(program, x)
        IN [category |-> IF literal.op = "dict" THEN KeyCategory(Head(literal.keys))
                         ELSE ElementCategory(literal, facts),
            kind |-> literal.op, capacity |-> Len(Elements(literal))]]

ContainersRefused(program, facts, found) ==
    \/ \E x \in Holders(program) : ~Fixed(program, x, found)
    \/ \E e \in AsideIn(program) : e.op \in Literals
    \/ \E e \in Expressions(program) : e.op = "item" /\ e \notin DOMAIN facts.accesses
    \/ \E st \in Statements(program.body) :
          st.op = "each" /\ ~(st.over.op = "name" /\ st.over.name \in DOMAIN facts.turns)

-----------------------------------------------------------------------------
(* StaticRecordAnalyzer *)

Fields(record) == {Records[record].fields[i].name : i \in DOMAIN Records[record].fields}
Types(record) == [i \in DOMAIN Records[record].fields |-> Records[record].fields[i].category]
FieldCategory(record, name) ==
    LET fields == Records[record].fields
    IN fields[CHOOSE i \in DOMAIN fields : fields[i].name = name].category

(* Variant: __init__ may take and assign the fields in an order of its own. *)
WellFormedInAnyOrder(class) ==
    /\ Len(class.fields) \in 1 .. MaxFields
    /\ Cardinality({field.name : field \in ToSet(class.fields)}) = Len(class.fields)
    /\ \A field \in ToSet(class.fields) : field.category \in {"integer", "boolean"}
    /\ ToSet(class.parameters) = ToSet(class.fields)
    /\ ToSet(class.assignments) = {[to |-> field.name, from |-> field.name] : field \in ToSet(class.fields)}

(* __init__ takes the fields in their order and copies each to its own.       *)
WellFormed(class) ==
    /\ Len(class.fields) \in 1 .. MaxFields
    /\ Cardinality({field.name : field \in ToSet(class.fields)}) = Len(class.fields)
    /\ \A field \in ToSet(class.fields) : field.category \in {"integer", "boolean"}
    /\ class.parameters = class.fields
    /\ class.assignments = [i \in DOMAIN class.fields |->
                               [to |-> class.fields[i].name, from |-> class.fields[i].name]]

Constructs(st) == st.op = "assign" /\ st.value.op = "construct"
Constructions(program) == {i \in DOMAIN program.body : Constructs(program.body[i])}
Instances(program) == {program.body[i].target : i \in Constructions(program)}
Constructed(program, x) ==
    program.body[CHOOSE i \in Constructions(program) : program.body[i].target = x].value

(* A field read from an instance.                                             *)
Reads(program, e) ==
    /\ e.op = "field" /\ e.of.op = "name" /\ e.of.name \in Instances(program)
    /\ e.field \in Fields(Constructed(program, e.of.name).record)
RecordAccesses(program) ==
    [e \in {f \in Expressions(program) : Reads(program, f)} |->
        [category |-> FieldCategory(Constructed(program, e.of.name).record, e.field)]]

(* What is not known before the fields are is found in the form of it.        *)
RECURSIVE CategoryOfArgument(_, _, _)
CategoryOfArgument(program, e, facts) ==
    IF Category(e, facts) \notin {"unknown", "contradictory"} THEN Category(e, facts)
    ELSE CASE e.op = "name" /\ e.name \in DOMAIN program.parameters -> program.parameters[e.name]
           [] Reads(program, e) -> RecordAccesses(program)[e].category
           [] e.op \in {"not", "negate"} -> CategoryOfArgument(program, e.of, facts)
           [] e.op \in Arithmetic ->
                 LET l == CategoryOfArgument(program, e.left, facts)
                     r == CategoryOfArgument(program, e.right, facts)
                 IN IF l = r /\ l = "integer" THEN l ELSE "unknown"
           [] OTHER -> "unknown"

(* The arguments are those of the fields, the name is one of its own.         *)
Constructible(program, i, facts) ==
    LET x == program.body[i].target
        record == program.body[i].value.record
        arguments == program.body[i].value.arguments
    IN /\ Len(arguments) = Len(Types(record))
       /\ \A a \in DOMAIN arguments :
             CategoryOfArgument(program, arguments[a], facts) = Types(record)[a]
       /\ x \notin DOMAIN program.parameters
       /\ Len(BindingsOf(program, x)) = 1

(* A name is used after its construction only, and only for its fields.       *)
UsedAsRecord(program, i) ==
    LET x == program.body[i].target IN
    /\ RolesOf(x, Statements(program.body)) \subseteq {"field"}
    /\ \A j \in 1 .. i : RolesOf(x, Statements(<<program.body[j]>>)) = {}

RecordsRefused(program, facts) ==
    \/ \E e \in Expressions(program) : e.op = "construct" /\ ~WellFormed(Records[e.record])
    \/ \E e \in AsideIn(program) : e.op = "construct"
    \/ \E i \in DOMAIN program.body :
          \E block \in ToSet(Blocks(program.body[i])) : \E st \in Statements(block) : Constructs(st)
    \/ \E i \in Constructions(program) :
          ~Constructible(program, i, facts) \/ ~UsedAsRecord(program, i)
    \/ \E e \in Expressions(program) : e.op = "field" /\ ~Reads(program, e)

-----------------------------------------------------------------------------
(* AnalysisPlanningStage.run: the categories are found four times, containers *)
(* before and after the records.                                              *)

(* Round 0 knows no accesses, round 1 those to containers, round 2 those to   *)
(* records too; round 3 looks at the containers again.                        *)
Found(program) ==
    LET facts[round \in 0 .. 3] ==
            LET earlier == facts[IF round = 3 THEN 2 ELSE 0]
                containers == IF round = 0 THEN <<>> ELSE ContainerAccesses(program, earlier)
                records == IF round < 2 THEN <<>> ELSE RecordAccesses(program)
            IN Settle(program, records @@ containers,
                      IF round = 0 THEN <<>> ELSE ContainerTurns(program, earlier))
    IN facts
Facts(program) == Found(program)[3]
=============================================================================
