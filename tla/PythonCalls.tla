------------------------------ MODULE PythonCalls ------------------------------
(***************************************************************************)
(* What the Python language says of a call: which parameters its arguments *)
(* bind, and when they bind every parameter once.  Nothing here translates *)
(* code of the converter: CallBinding, which does, is held against it.     *)
(* Signatures and arguments have the form that module describes.           *)
(***************************************************************************)
EXTENDS Naturals, Sequences, FiniteSets

PlacedAt(arguments, i) == Cardinality({j \in 1 .. i : arguments[j].kind = "positional"})

(* The arguments that bind parameter p.                                       *)
Binders(signature, arguments, p) ==
    {i \in DOMAIN arguments :
        \/ /\ arguments[i].kind = "positional" /\ PlacedAt(arguments, i) = p
           /\ p <= Len(signature.categories) - signature.keywordOnly
        \/ /\ arguments[i].kind = "keyword" /\ arguments[i].name = p
           /\ p > signature.positionalOnly}

Callable(signature, arguments) ==
    /\ \A i \in DOMAIN arguments :
          \E p \in DOMAIN signature.categories : i \in Binders(signature, arguments, p)
    /\ \A p \in DOMAIN signature.categories : Cardinality(Binders(signature, arguments, p)) = 1

(* What a converter that finds this fault with a call, or else hands the      *)
(* parameter ordinals[i] its argument i, owes to the language: it supports no *)
(* call Python would refuse or bind in another way, and a call Python accepts *)
(* and that unpacks nothing it refuses only for an argument's representation. *)
BindsAsPython(signature, arguments, fault, ordinals) ==
    /\ fault = "none" =>
          /\ Callable(signature, arguments)
          /\ \A i \in DOMAIN arguments : i \in Binders(signature, arguments, ordinals[i])
    /\ Callable(signature, arguments) => fault \in {"none", "PYC2905"}
=============================================================================
