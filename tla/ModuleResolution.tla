--------------------------- MODULE ModuleResolution ---------------------------
(***************************************************************************)
(* The converter's stage for bundles of modules: which bundles it accepts, *)
(* in which order it lays the modules out, and what each call of the       *)
(* flattened program refers to.                                            *)
(*                                                                         *)
(* converter/modules/analysis.py, class ExplicitModuleAnalyzer.  A module  *)
(* is a sequence of top-level statements.  A from-import of several names  *)
(* is written as one statement for each, and of a function only what the   *)
(* analyzer looks at is kept: its name, whether it may be imported, the    *)
(* names it binds, calls and reads.  Module IDs are numbers in the order   *)
(* of their spelling.  Bodies of classes are left out.                     *)
(***************************************************************************)
EXTENDS Naturals, Sequences, FiniteSets

CONSTANTS
    Listing,         \* the modules of the bundle, in its order
    Submodules,      \* triples <<m, name, s>>: the ID s is that of m, a dot and name
    MaxImportEdges,  \* max_import_edges of the resource policy
    AllowRecords,    \* whether the rule set supports record classes
    Bundles          \* the bundles considered

Modules == {Listing[i] : i \in DOMAIN Listing}

VARIABLES
    bundle,        \* the statements of each module
    canceled,      \* the cancellation token
    phase,         \* which loop of analyze() is under way
    position,      \* how many modules that loop has passed
    dependencies,  \* of _dependency_first_order: what each module still waits for
    ready,         \* the modules that wait for nothing
    order,         \* the modules laid out so far
    verdict        \* the code of the rejection and its module

orderVars == <<dependencies, ready, order>>

NoVerdict == [code |-> "none", module |-> 0]

-----------------------------------------------------------------------------
(* The shape of one document. *)

At(m, kinds) == {i \in DOMAIN bundle[m] : bundle[m][i].kind \in kinds}
NamesOf(m, kinds) == {bundle[m][i].name : i \in At(m, kinds)}

Functions(m)  == NamesOf(m, {"def"})
Ineligible(m) == NamesOf(m, {"async"})
Records(m)    == IF AllowRecords THEN NamesOf(m, {"class"}) ELSE {}
Imports(m)    == At(m, {"from"})
Imported(m)   == {bundle[m][i].local : i \in Imports(m)}
Function(m, name) == CHOOSE i \in At(m, {"def"}) : bundle[m][i].name = name

Before(m, i, kinds) == {j \in At(m, kinds) : j < i}
Rebound(m, i) ==
    bundle[m][i].name \in {bundle[m][j].name : j \in Before(m, i, {"def", "async", "class"})}

(* What is wrong with statement i, of a module whose earlier ones are right.  *)
StatementFault(m, i) ==
    LET s == bundle[m][i]
        late == Before(m, i, {"def", "async"}) # {}
    IN
    CASE s.kind = "from" /\ (late \/ s.malformed)        -> "PYC3504"
      [] s.kind \in {"def", "async"} /\ Rebound(m, i)    -> "PYC3506"
      [] s.kind = "class" /\ ~AllowRecords               -> "PYC3509"
      [] s.kind = "class" /\ AllowRecords /\ late        -> "PYC3601"
      [] s.kind = "class" /\ AllowRecords /\ ~late /\ Rebound(m, i) -> "PYC3506"
      [] s.kind = "import"                               -> "PYC3504"
      [] s.kind = "state" -> IF s.binds \cap {bundle[m][j].local : j \in Before(m, i, {"from"})} # {}
                             THEN "PYC3506" ELSE "PYC3509"
      [] OTHER                                           -> "none"

(* _analyze_document_shape: imports inside functions first, then statement by *)
(* statement, then whether there is a function at all.                        *)
ShapeFault(m) ==
    LET wrong == {i \in DOMAIN bundle[m] : StatementFault(m, i) # "none"} IN
    IF \E i \in At(m, {"def", "async"}) : bundle[m][i].imports THEN "PYC3504"
    ELSE IF wrong # {} THEN StatementFault(m, CHOOSE i \in wrong : \A j \in wrong : i <= j)
    ELSE IF At(m, {"def", "async"}) = {} THEN "PYC3509"
    ELSE "none"

-----------------------------------------------------------------------------
(* The imports of one module. *)

(* _has_package_relation: one of the two IDs is a parent of the other.        *)
Packaged(target) ==
    \E t \in Submodules : \/ t[1] = target /\ t[3] \in Modules
                          \/ t[3] = target /\ t[1] \in Modules

(* The names taken when import i is resolved. *)
Occupied(m, i) ==
    Functions(m) \cup Records(m) \cup {bundle[m][j].local : j \in Before(m, i, {"from"})}

(* _resolve_imports, for one item. The name range stands for that builtin.    *)
ImportFault(m, i) ==
    LET s == bundle[m][i] IN
    IF s.target \notin Modules THEN IF Packaged(s.target) THEN "PYC3508" ELSE "PYC3503"
    ELSE IF s.target = m THEN "PYC3507"
    ELSE IF s.name \notin Functions(s.target) THEN
           IF s.name \in Records(s.target) THEN "PYC3610"
           ELSE IF s.name \in Ineligible(s.target) THEN "PYC3505"
           ELSE IF s.name \in Imported(s.target) THEN "PYC3506"
           ELSE IF \E t \in Submodules : t[1] = s.target /\ t[2] = s.name /\ t[3] \in Modules
                THEN "PYC3506"
           ELSE "PYC3505"
    ELSE IF ~bundle[s.target][Function(s.target, s.name)].eligible THEN "PYC3505"
    ELSE IF s.local = "range" \/ s.local \in Occupied(m, i) THEN "PYC3506"
    ELSE "none"

ResolveFault(m) ==
    LET wrong == {i \in Imports(m) : ImportFault(m, i) # "none"} IN
    IF wrong = {} THEN "none"
    ELSE ImportFault(m, CHOOSE i \in wrong : \A j \in wrong : i <= j)

(* Variant: a function may bind the name of an import. *)
UsesFaultUnbound(m) ==
    IF \E i \in At(m, {"def", "async"}) : bundle[m][i].reads \cap Imported(m) # {}
    THEN "PYC3506" ELSE "none"

(* _validate_import_binding_uses: an imported name is only ever called, and   *)
(* no function calls a function of another module without importing it.       *)
UsesFault(m) ==
    LET foreign == UNION {Functions(n) \cup Ineligible(n) : n \in Modules \ {m}} IN
    IF \E i \in At(m, {"def", "async"}) :
          LET f == bundle[m][i]
              bound == IF f.kind = "def" THEN f.binds ELSE {}
          IN \/ f.binds \cap Imported(m) # {}
             \/ f.reads \cap Imported(m) # {}
             \/ (f.calls \cap foreign) \ (Functions(m) \cup Imported(m) \cup bound \cup {"range"}) # {}
    THEN "PYC3506" ELSE "none"

Fault(m) ==
    CASE phase = "shape"   -> ShapeFault(m)
      [] phase = "imports" -> ResolveFault(m)
      [] phase = "uses"    -> UsesFault(m)
      [] phase = "deferred" -> IF Ineligible(m) # {} THEN "PYC3509" ELSE "none"

-----------------------------------------------------------------------------
(* analyze() *)

Init ==
    /\ bundle \in Bundles
    /\ canceled = FALSE
    /\ phase = "shape" /\ position = 0
    /\ dependencies = [m \in Modules |-> {}] /\ ready = {} /\ order = <<>>
    /\ verdict = NoVerdict

Conclude(code, m) ==
    /\ phase' = "done"
    /\ verdict' = [code |-> code, module |-> m]

(* _check_canceled. The fourth loop does not call it, and what follows the    *)
(* order calls it again: _first_cyclic_component and _publish.                *)
CheckCanceled ==
    /\ canceled
    /\ \/ phase \in {"shape", "imports", "uses"} /\ position < Len(Listing)
       \/ phase = "order"
    /\ Conclude("canceled", 0)
    /\ UNCHANGED <<bundle, canceled, position, orderVars>>

(* One module of one of the four loops. *)
Examine ==
    LET m == Listing[position + 1] IN
    /\ phase \in {"shape", "imports", "uses", "deferred"}
    /\ phase # "deferred" => ~canceled
    /\ position < Len(Listing)
    /\ \/ /\ Fault(m) = "none"
          /\ position' = position + 1
          /\ UNCHANGED <<phase, verdict>>
       \/ /\ Fault(m) # "none"
          /\ Conclude(Fault(m), m)
          /\ UNCHANGED position
    /\ UNCHANGED <<bundle, canceled, orderVars>>

FollowingPhase == [shape |-> "count", imports |-> "uses", uses |-> "deferred"]
EndLoop ==
    /\ phase \in DOMAIN FollowingPhase
    /\ position = Len(Listing)
    /\ phase' = FollowingPhase[phase]
    /\ position' = 0
    /\ UNCHANGED <<bundle, canceled, orderVars, verdict>>

(* The import items of the whole bundle are counted once its shape is right.  *)
ImportItems == Cardinality(UNION {{m} \X Imports(m) : m \in Modules})
FirstImporter == LET i == CHOOSE i \in DOMAIN Listing : /\ Imports(Listing[i]) # {}
                                                        /\ \A j \in 1 .. i - 1 : Imports(Listing[j]) = {}
                 IN Listing[i]
CountImports ==
    /\ phase = "count"
    /\ \/ /\ ImportItems > MaxImportEdges
          /\ Conclude("PYC3510", FirstImporter)
       \/ /\ ImportItems <= MaxImportEdges
          /\ phase' = "imports"
          /\ UNCHANGED verdict
    /\ UNCHANGED <<bundle, canceled, position, orderVars>>

-----------------------------------------------------------------------------
(* _dependency_first_order *)

DependsOn(m) == {bundle[m][i].target : i \in Imports(m)}
Dependents(m) == {n \in Modules : m \in DependsOn(n)}

Least(S) == CHOOSE m \in S : \A n \in S : m <= n

StartOrder ==
    /\ phase = "deferred" /\ position = Len(Listing)
    /\ phase' = "order"
    /\ dependencies' = [m \in Modules |-> DependsOn(m)]
    /\ ready' = {m \in Modules : DependsOn(m) = {}}
    /\ UNCHANGED <<bundle, canceled, position, order, verdict>>

Released(current) ==
    [m \in Modules |-> IF m \in Dependents(current) THEN dependencies[m] \ {current}
                       ELSE dependencies[m]]

(* Variant: a module is ready as soon as one of its imports is laid out. *)
LayOutEarly ==
    LET current == Least(ready) IN
    /\ phase = "order" /\ ready # {} /\ ~canceled
    /\ order' = Append(order, current)
    /\ dependencies' = Released(current)
    /\ ready' = (ready \ {current})
                  \cup {m \in Dependents(current) : \A i \in DOMAIN order' : order'[i] # m}
    /\ UNCHANGED <<bundle, canceled, phase, position, verdict>>

(* One turn of its loop: the least module that waits for nothing is laid out  *)
(* and its dependents wait for one module less.                               *)
LayOut ==
    LET current == Least(ready) IN
    /\ phase = "order" /\ ready # {} /\ ~canceled
    /\ order' = Append(order, current)
    /\ dependencies' = Released(current)
    /\ ready' = (ready \ {current})
                  \cup {m \in Dependents(current) :
                          Released(current)[m] = {} /\ \A i \in DOMAIN order' : order'[i] # m}
    /\ UNCHANGED <<bundle, canceled, phase, position, verdict>>

(* The modules on an import cycle: those in every set that has the modules    *)
(* they import and is closed under imports.                                   *)
Closed(S) == \A m \in S : DependsOn(m) \subseteq S
OnCycle == {m \in Modules :
              \A S \in SUBSET Modules : DependsOn(m) \subseteq S /\ Closed(S) => m \in S}

(* _first_cyclic_component and the import it reports: the components are      *)
(* compared by their least member, whose import into the component is first.  *)
EndOrder ==
    /\ phase = "order" /\ ready = {} /\ ~canceled
    /\ \/ /\ Len(order) = Cardinality(Modules)
          /\ Conclude("published", 0)
       \/ /\ Len(order) # Cardinality(Modules)
          /\ Conclude("PYC3507", Least(OnCycle))
    /\ UNCHANGED <<bundle, canceled, position, orderVars>>

Analyze ==
    CheckCanceled \/ Examine \/ EndLoop \/ CountImports \/ StartOrder \/ LayOut \/ EndOrder

-----------------------------------------------------------------------------
(* _publish: what the name of a call in function i of module m refers to once *)
(* the modules are one. A name that is not rewritten is a local variable or   *)
(* no function of the bundle.                                                 *)
Plain == [module |-> 0, name |-> "plain"]
Named(m, name) == [module |-> m, name |-> name]

Flattened(m, i, name) ==
    IF name \in Imported(m)
    THEN LET s == bundle[m][CHOOSE j \in Imports(m) : bundle[m][j].local = name]
         IN Named(s.target, s.name)
    ELSE IF name \in (Functions(m) \cup Records(m)) \ bundle[m][i].binds THEN Named(m, name)
    ELSE Plain

-----------------------------------------------------------------------------
(* What Python makes of the bundle. *)

BoundBy(s) ==
    CASE s.kind = "from"                    -> {s.local}
      [] s.kind \in {"def", "async", "class"} -> {s.name}
      [] s.kind = "state"                   -> s.binds
      [] OTHER                              -> {}
NamesIn(m) == UNION {BoundBy(bundle[m][i]) : i \in DOMAIN bundle[m]}
AllNames == UNION {NamesIn(m) : m \in Modules}

LastBinding(m, name) ==
    CHOOSE i \in DOMAIN bundle[m] :
        /\ name \in BoundBy(bundle[m][i])
        /\ \A j \in DOMAIN bundle[m] : name \in BoundBy(bundle[m][j]) => j <= i

(* What a module's attribute is once the module has run: its last binding,    *)
(* followed through imports, of which n are still to be followed.             *)
Attribute[n \in Nat] ==
    [m \in Modules |-> [name \in AllNames |->
        IF name \notin NamesIn(m) THEN Plain
        ELSE LET s == bundle[m][LastBinding(m, name)] IN
             CASE s.kind = "from" /\ s.target \in Modules /\ s.name \in AllNames /\ n > 0
                      -> Attribute[n - 1][s.target][s.name]
               [] s.kind \in {"def", "async", "class"} -> Named(m, name)
               [] OTHER -> Plain]]

(* What Python calls by that name in function i of module m: a local, or what *)
(* the global is when the function runs.                                      *)
Meaning(m, i, name) ==
    IF name \in bundle[m][i].binds \/ name \notin AllNames THEN Plain
    ELSE Attribute[Len(Listing)][m][name]

(* A published program calls what the Python program calls: no renaming picks *)
(* another binding than the last one of the module, captures a local or ties  *)
(* a call to a function of a module that does not export it (_publish).       *)
CallsMeanTheSame ==
    verdict.code = "published" =>
        \A m \in Modules : \A i \in At(m, {"def"}) : \A name \in bundle[m][i].calls :
            Flattened(m, i, name) = Meaning(m, i, name)

(* _dependency_first_order: no module is laid out twice or before one it      *)
(* imports, what is ready is all that could be laid out next, the order ends  *)
(* complete or with a module that reaches itself, and never both.             *)
OrderIsSound ==
    /\ \A i, j \in DOMAIN order : order[i] = order[j] => i = j
    /\ \A i \in DOMAIN order : \A d \in DependsOn(order[i]) : \E j \in 1 .. i - 1 : order[j] = d
    /\ phase = "order" =>
          ready = {m \in Modules : /\ \A i \in DOMAIN order : order[i] # m
                                   /\ \A d \in DependsOn(m) : \E i \in DOMAIN order : order[i] = d}
    /\ verdict.code = "published" => OnCycle = {}
    /\ phase = "done" /\ verdict.code = "PYC3507" => verdict.module \in OnCycle
=============================================================================
