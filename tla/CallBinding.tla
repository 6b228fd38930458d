------------------------------ MODULE CallBinding ------------------------------
(***************************************************************************)
(* Which parameter each argument of a call binds, and which calls are      *)
(* refused: converter/keyword_calls/analysis.py for calls with keywords,   *)
(* converter/keyword_only_calls/analysis.py for callees with required      *)
(* keyword-only parameters, converter/analysis/functions.py for the rest.  *)
(*                                                                         *)
(* The arguments of a call are a sequence in source order.  Each has a     *)
(* kind: "positional", "starred" (an unpacked sequence), "keyword" or      *)
(* "unpack" (an unpacked mapping).  A keyword's name is the ordinal of the *)
(* parameter of that name, 0 if there is none.  A signature is eligible:   *)
(* one that is not refuses the program before its calls are looked at.     *)
(***************************************************************************)
EXTENDS Naturals, Sequences, FiniteSets

Arity(signature) == Len(signature.categories)
Formals(signature) == 1 .. Arity(signature)

(* Variant: positional arguments may bind keyword-only parameters. *)
CapacityOfAll(signature) == Arity(signature)

(* How many parameters positional arguments may bind.                         *)
Capacity(signature) == Arity(signature) - signature.keywordOnly

KeywordCandidate(signature, arguments) ==
    /\ signature.keywordOnly = 0
    /\ \E i \in DOMAIN arguments : arguments[i].kind \in {"keyword", "unpack"}
KeywordOnlyCandidate(signature) == signature.keywordOnly > 0

-----------------------------------------------------------------------------
Positionals(arguments) ==
    {i \in DOMAIN arguments : arguments[i].kind \in {"positional", "starred"}}
Position(arguments, i) == Cardinality({j \in Positionals(arguments) : j <= i})

(* A positional argument that follows an unpacked sequence has no place.      *)
Placed(arguments, i) ==
    /\ arguments[i].kind = "positional"
    /\ \A j \in 1 .. i : arguments[j].kind # "starred"

(* The parameter an argument names or is placed at, 0 if there is none.       *)
Target(signature, arguments, i) ==
    IF Placed(arguments, i) /\ Position(arguments, i) <= Capacity(signature)
    THEN Position(arguments, i)
    ELSE IF arguments[i].kind = "keyword" /\ arguments[i].name > signature.positionalOnly
    THEN arguments[i].name
    ELSE 0

(* The parameter recorded of an argument.  The one a keyword names is looked  *)
(* up among all, but for a callee with keyword-only parameters among those    *)
(* that keywords may bind.                                                    *)
ByName(signature, argument) ==
    IF KeywordOnlyCandidate(signature) /\ argument.name <= signature.positionalOnly
    THEN 0 ELSE argument.name
ParameterOrdinal(signature, arguments, i) ==
    IF arguments[i].kind = "keyword" THEN ByName(signature, arguments[i])
    ELSE Target(signature, arguments, i)

(* Positional arguments are bound first, then keywords in their order.        *)
Taken(signature, arguments, i) ==
    /\ arguments[i].kind = "keyword"
    /\ Target(signature, arguments, i) # 0
    /\ \E j \in DOMAIN arguments \ {i} :
          /\ Target(signature, arguments, j) = Target(signature, arguments, i)
          /\ arguments[j].kind = "positional" \/ j < i

Binds(signature, arguments, i) ==
    Target(signature, arguments, i) # 0 /\ ~Taken(signature, arguments, i)

-----------------------------------------------------------------------------
(* The verdict of the two analyzers, in the order of their checks. *)

Unpacked(arguments) ==
    {i \in DOMAIN arguments : arguments[i].kind \in {"starred", "unpack"}}
Excess(signature, arguments) ==
    {i \in DOMAIN arguments : /\ Placed(arguments, i)
                              /\ Position(arguments, i) > Capacity(signature)}
BindingProblems(signature, arguments) ==
    {i \in DOMAIN arguments : /\ arguments[i].kind = "keyword"
                              /\ ~Binds(signature, arguments, i)}
Missing(signature, arguments) ==
    {p \in Formals(signature) :
        \A i \in DOMAIN arguments : Binds(signature, arguments, i) =>
                                      Target(signature, arguments, i) # p}
Mismatches(signature, arguments, categories) ==
    {i \in DOMAIN arguments :
        /\ Binds(signature, arguments, i)
        /\ categories[i] # signature.categories[Target(signature, arguments, i)]}

BindingFault(signature, arguments, categories) ==
    IF Unpacked(arguments) # {} THEN "PYC2910"
    ELSE IF Excess(signature, arguments) # {} THEN "PYC2904"
    ELSE IF BindingProblems(signature, arguments) # {} THEN "PYC2912"
    ELSE IF Missing(signature, arguments) # {} THEN "PYC2904"
    ELSE IF Mismatches(signature, arguments, categories) # {} THEN "PYC2905"
    ELSE IF Len(arguments) # Arity(signature) THEN "PYC2904"
    ELSE "none"

(* KeywordCallAnalyzer._fact *)
KeywordFault(signature, arguments, categories) ==
    BindingFault(signature, arguments, categories)

(* KeywordOnlyCallAnalyzer._fact *)
KeywordOnlyFault(signature, arguments, categories) ==
    BindingFault(signature, arguments, categories)

(* FunctionFactsAnalyzer.calls, for a call that neither of them looks at.     *)
PlainFault(signature, arguments, categories) ==
    IF \E i \in DOMAIN arguments : arguments[i].kind # "positional" THEN "PYC2910"
    ELSE IF Len(arguments) # Arity(signature) THEN "PYC2904"
    ELSE IF \E i \in DOMAIN arguments : categories[i] # signature.categories[i] THEN "PYC2905"
    ELSE "none"

CallFault(signature, arguments, categories) ==
    IF KeywordOnlyCandidate(signature)
    THEN KeywordOnlyFault(signature, arguments, categories)
    ELSE IF KeywordCandidate(signature, arguments)
    THEN KeywordFault(signature, arguments, categories)
    ELSE PlainFault(signature, arguments, categories)

(* The parameter each argument of a supported call is handed to.              *)
Ordinal(signature, arguments, i) ==
    IF KeywordOnlyCandidate(signature) \/ KeywordCandidate(signature, arguments)
    THEN Target(signature, arguments, i)
    ELSE i
=============================================================================
