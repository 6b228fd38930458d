----------------------------- MODULE CallRebinding -----------------------------
(***************************************************************************)
(* What a call with keywords binds, found a second time by the validator   *)
(* (converter/keyword_calls/validation.py) and compared with what the      *)
(* analyzer found, which is CallBinding.  The positional arguments are     *)
(* taken from left to right, then the keywords, each looking at what those *)
(* before it have left.  A parameter's source is the argument bound to it, *)
(* an argument's ordinal the parameter it asks for.                        *)
(***************************************************************************)
EXTENDS CallBinding

Nothing(signature, arguments) ==
    [sources |-> [p \in Formals(signature) |-> 0], ordinals |-> [i \in DOMAIN arguments |-> 0],
     position |-> 0, starred |-> FALSE, unpacking |-> {}, excess |-> {}, problems |-> {}]
Bind(found, i, p) == [found EXCEPT !.sources[p] = i, !.ordinals[i] = p]

InPlace(argument) == argument.kind \in {"positional", "starred"}

TakePositional(signature, arguments, found, i) ==
    LET place == found.position + 1
        next == [found EXCEPT !.position = place] IN
    CASE arguments[i].kind = "starred" ->
            [next EXCEPT !.starred = TRUE, !.unpacking = @ \cup {i}]
      [] arguments[i].kind # "starred" /\ found.starred -> next
      [] OTHER -> IF place > Capacity(signature) THEN [next EXCEPT !.excess = @ \cup {i}]
                  ELSE Bind(next, i, place)
TakeKeyword(signature, arguments, found, i) ==
    LET p == ByName(signature, arguments[i]) IN
    IF arguments[i].kind = "unpack" THEN [found EXCEPT !.unpacking = @ \cup {i}]
    ELSE IF p <= signature.positionalOnly \/ found.sources[p] # 0
    THEN [found EXCEPT !.problems = @ \cup {i}, !.ordinals[i] = p]
    ELSE Bind(found, i, p)

(* What is found of the first n arguments in each of the two passes.          *)
AfterPositional(signature, arguments) ==
    LET found[n \in 0 .. Len(arguments)] ==
            IF n = 0 THEN Nothing(signature, arguments)
            ELSE IF InPlace(arguments[n]) THEN TakePositional(signature, arguments, found[n - 1], n)
            ELSE found[n - 1]
    IN found
AfterKeywords(signature, arguments) ==
    LET found[n \in 0 .. Len(arguments)] ==
            IF n = 0 THEN AfterPositional(signature, arguments)[Len(arguments)]
            ELSE IF InPlace(arguments[n]) THEN found[n - 1]
            ELSE TakeKeyword(signature, arguments, found[n - 1], n)
    IN found
Rebound(signature, arguments) == AfterKeywords(signature, arguments)[Len(arguments)]

Unlike(signature, categories, found) ==
    {i \in DOMAIN categories :
        /\ found.ordinals[i] # 0 /\ found.sources[found.ordinals[i]] = i
        /\ categories[i] # signature.categories[found.ordinals[i]]}
ReboundFault(signature, categories, found) ==
    IF found.unpacking # {} THEN "PYC2910"
    ELSE IF found.excess # {} THEN "PYC2904"
    ELSE IF found.problems # {} THEN "PYC2912"
    ELSE IF \E p \in Formals(signature) : found.sources[p] = 0 THEN "PYC2904"
    ELSE IF Unlike(signature, categories, found) # {} THEN "PYC2905"
    ELSE IF Len(categories) # Arity(signature) THEN "PYC2904"
    ELSE "none"

SameBinding(signature, arguments, categories, found) ==
    /\ BindingFault(signature, arguments, categories) = ReboundFault(signature, categories, found)
    /\ \A i \in DOMAIN arguments : found.ordinals[i] = ParameterOrdinal(signature, arguments, i)
    /\ \A p \in Formals(signature) :
          {i \in DOMAIN arguments : Binds(signature, arguments, i) /\ Target(signature, arguments, i) = p}
             = {found.sources[p]} \ {0}
=============================================================================
