------------------------------- MODULE Division -------------------------------
(***************************************************************************)
(* Division of integers that do not overflow: what // and % are in Python, *)
(* what / and % are in C, and the two helpers of                           *)
(* support_templates/factories.py, which make the first of the second.     *)
(* CLowering has the helpers as the trees of C that are printed; here they *)
(* are the functions those trees compute.                                  *)
(***************************************************************************)
EXTENDS Integers

(* Python rounds towards minus infinity,                                      *)
PyFloorDiv(l, r) == IF r > 0 THEN l \div r ELSE (-l) \div (-r)
PyModulo(l, r) == l - r * PyFloorDiv(l, r)

(* C towards zero.                                                            *)
Magnitude(i) == IF i < 0 THEN -i ELSE i
CDivide(l, r) == LET q == Magnitude(l) \div Magnitude(r)
                 IN IF (l < 0) # (r < 0) THEN -q ELSE q
CRemainder(l, r) == l - r * CDivide(l, r)

(* A remainder that has not the sign of the divisor is one divisor off.       *)
Adjusts(l, r) == CRemainder(l, r) # 0 /\ (CRemainder(l, r) < 0) # (r < 0)
HelperQuotient(l, r) == CDivide(l, r) - (IF Adjusts(l, r) THEN 1 ELSE 0)
HelperRemainder(l, r) == CRemainder(l, r) + (IF Adjusts(l, r) THEN r ELSE 0)
===============================================================================
