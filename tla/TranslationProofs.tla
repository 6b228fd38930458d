--------------------------- MODULE TranslationProofs ---------------------------
(* What is proved of the translation of one function, for signatures, calls   *)
(* and numbers of any size: in a supported call every parameter gets exactly  *)
(* one argument, that of its category and the one Python would hand it; a     *)
(* call is refused only if Python would refuse it too or a category is        *)
(* another; the validator binds it alike; and the helpers for // and % divide *)
(* as Python does, within the range of their operands.                        *)
EXTENDS CallRebinding, PythonCalls, Division, FiniteSetTheorems, FunctionTheorems,
        WellFoundedInduction, TLAPS

Kinds == {"positional", "starred", "keyword", "unpack"}

IsSignature(signature) ==
    /\ Arity(signature) \in Nat
    /\ DOMAIN signature.categories = Formals(signature)
    /\ signature.keywordOnly \in 0 .. Arity(signature)
    /\ signature.positionalOnly \in Nat

AreArguments(signature, arguments) ==
    /\ Len(arguments) \in Nat
    /\ DOMAIN arguments = 1 .. Len(arguments)
    /\ \A i \in DOMAIN arguments :
          /\ arguments[i].kind \in Kinds
          /\ arguments[i].kind = "keyword" => arguments[i].name \in 0 .. Arity(signature)

(* Which argument a parameter gets is a question with one answer.             *)
OneToOne(signature, arguments) ==
    /\ \A i \in DOMAIN arguments : Ordinal(signature, arguments, i) \in Formals(signature)
    /\ \A i, j \in DOMAIN arguments :
          Ordinal(signature, arguments, i) = Ordinal(signature, arguments, j) => i = j
    /\ \A p \in Formals(signature) :
          \E i \in DOMAIN arguments : Ordinal(signature, arguments, i) = p

SameCategory(signature, arguments, categories) ==
    \A i \in DOMAIN arguments :
        categories[i] = signature.categories[Ordinal(signature, arguments, i)]

-----------------------------------------------------------------------------
(* The place of a positional argument is a number, and its own.               *)
LEMMA PositionIsNatural ==
    ASSUME NEW signature, NEW arguments, AreArguments(signature, arguments),
           NEW i \in Positionals(arguments)
    PROVE  /\ IsFiniteSet({k \in Positionals(arguments) : k <= i})
           /\ Position(arguments, i) \in Nat \ {0}
<1> DEFINE Upto == {k \in Positionals(arguments) : k <= i}
<1>1. IsFiniteSet(1 .. Len(arguments))
  BY FS_Interval DEF AreArguments
<1>2. Upto \in SUBSET (1 .. Len(arguments))
  BY DEF AreArguments, Positionals
<1>3. IsFiniteSet(Upto)
  BY <1>1, <1>2, FS_Subset
<1>4. i \in Upto
  BY DEF AreArguments, Positionals
<1>5. Cardinality(Upto) \in Nat /\ Cardinality(Upto) # 0
  BY <1>3, <1>4, FS_CardinalityType, FS_EmptySet
<1> QED
  BY <1>3, <1>5 DEF Position

LEMMA PositionsDiffer ==
    ASSUME NEW signature, NEW arguments, AreArguments(signature, arguments),
           NEW i \in Positionals(arguments), NEW j \in Positionals(arguments),
           Position(arguments, i) = Position(arguments, j)
    PROVE  i = j
<1>1. \A a, b \in Positionals(arguments) :
         a < b => Position(arguments, a) # Position(arguments, b)
  <2> SUFFICES ASSUME NEW a \in Positionals(arguments), NEW b \in Positionals(arguments), a < b
               PROVE  Position(arguments, a) # Position(arguments, b)
    OBVIOUS
  <2> DEFINE Upto(c) == {k \in Positionals(arguments) : k <= c}
  <2>1. a \in Nat /\ b \in Nat /\ \A k \in Positionals(arguments) : k \in Nat
    BY DEF AreArguments, Positionals
  <2>2. Upto(a) \in SUBSET Upto(b)
    <3>1. \A k \in Positionals(arguments) : k <= a => k <= b
      BY <2>1
    <3> QED
      BY <3>1
  <2>3. b \in Upto(b) /\ b \notin Upto(a)
    BY <2>1
  <2>4. IsFiniteSet(Upto(b))
    BY PositionIsNatural
  <2>5. Cardinality(Upto(a)) # Cardinality(Upto(b))
    BY <2>2, <2>3, <2>4, FS_Subset
  <2> QED
    BY <2>5 DEF Position
<1>2. i \in Nat /\ j \in Nat
  BY DEF AreArguments, Positionals
<1> QED
  BY <1>1, <1>2

-----------------------------------------------------------------------------
(* A call that one of the analyzers of keywords finds no fault with has only  *)
(* placed positional arguments and keywords that bind.                        *)
LEMMA NoFault ==
    ASSUME NEW signature, NEW arguments, NEW categories,
           BindingFault(signature, arguments, categories) = "none"
    PROVE  /\ Unpacked(arguments) = {} /\ Excess(signature, arguments) = {}
           /\ BindingProblems(signature, arguments) = {} /\ Missing(signature, arguments) = {}
           /\ Mismatches(signature, arguments, categories) = {}
BY DEF BindingFault

LEMMA EveryArgumentBinds ==
    ASSUME NEW signature, NEW arguments, NEW categories,
           IsSignature(signature), AreArguments(signature, arguments),
           BindingFault(signature, arguments, categories) = "none",
           NEW i \in DOMAIN arguments
    PROVE  /\ Binds(signature, arguments, i)
           /\ Target(signature, arguments, i) \in Formals(signature)
           /\ \/ arguments[i].kind = "keyword"
              \/ /\ i \in Positionals(arguments)
                 /\ arguments[i].kind = "positional"
                 /\ Target(signature, arguments, i) = Position(arguments, i)
<1>1. \A k \in DOMAIN arguments : arguments[k].kind \in {"positional", "keyword"}
  BY NoFault DEF Unpacked, AreArguments, Kinds
<1>2. CASE arguments[i].kind = "keyword"
  <2>1. Binds(signature, arguments, i)
    BY <1>2, NoFault DEF BindingProblems
  <2>2. Target(signature, arguments, i) # 0
    BY <2>1 DEF Binds
  <2>3. Target(signature, arguments, i) = arguments[i].name
    BY <1>2, <2>2 DEF Target, Placed
  <2>4. arguments[i].name \in 1 .. Arity(signature)
    BY <1>2, <2>2, <2>3 DEF AreArguments, IsSignature
  <2> QED
    BY <1>2, <2>1, <2>3, <2>4 DEF Formals
<1>3. CASE arguments[i].kind = "positional"
  <2>1. i \in Positionals(arguments)
    BY <1>3 DEF Positionals
  <2>2. Placed(arguments, i)
    <3>1. \A k \in 1 .. i : k \in DOMAIN arguments
      BY DEF AreArguments
    <3> QED
      BY <1>1, <1>3, <3>1 DEF Placed
  <2>3. Position(arguments, i) \in Nat \ {0}
    BY <2>1, PositionIsNatural
  <2>4. ~(Position(arguments, i) > Capacity(signature))
    BY <2>2, NoFault DEF Excess
  <2>5. Capacity(signature) \in Nat /\ Capacity(signature) <= Arity(signature)
    BY DEF Capacity, IsSignature
  <2>6. Position(arguments, i) <= Capacity(signature) /\ Position(arguments, i) \in 1 .. Arity(signature)
    BY <2>3, <2>4, <2>5 DEF IsSignature
  <2>7. Target(signature, arguments, i) = Position(arguments, i)
    BY <2>2, <2>6 DEF Target
  <2>8. Binds(signature, arguments, i)
    BY <1>3, <2>6, <2>7 DEF Binds, Taken
  <2> QED
    BY <1>3, <2>1, <2>6, <2>7, <2>8 DEF Formals
<1> QED
  BY <1>1, <1>2, <1>3

LEMMA TargetsDiffer ==
    ASSUME NEW signature, NEW arguments, NEW categories,
           IsSignature(signature), AreArguments(signature, arguments),
           BindingFault(signature, arguments, categories) = "none",
           NEW i \in DOMAIN arguments, NEW j \in DOMAIN arguments,
           Target(signature, arguments, i) = Target(signature, arguments, j)
    PROVE  i = j
<1>1. /\ Binds(signature, arguments, i) /\ Binds(signature, arguments, j)
      /\ ~Taken(signature, arguments, i) /\ ~Taken(signature, arguments, j)
      /\ Target(signature, arguments, i) # 0
  BY EveryArgumentBinds DEF Binds
<1>2. CASE arguments[i].kind = "keyword" /\ arguments[j].kind = "keyword"
  <2>1. ~(i < j) /\ ~(j < i)
    BY <1>1, <1>2 DEF Taken, AreArguments
  <2> QED
    BY <2>1 DEF AreArguments
<1>3. CASE arguments[i].kind = "keyword" /\ arguments[j].kind = "positional"
  BY <1>1, <1>3 DEF Taken
<1>4. CASE arguments[i].kind = "positional" /\ arguments[j].kind = "keyword"
  BY <1>1, <1>4 DEF Taken
<1>5. CASE arguments[i].kind = "positional" /\ arguments[j].kind = "positional"
  <2>1. /\ i \in Positionals(arguments) /\ j \in Positionals(arguments)
        /\ Position(arguments, i) = Position(arguments, j)
    BY <1>5, EveryArgumentBinds
  <2> QED
    BY <2>1, PositionsDiffer
<1> QED
  BY <1>2, <1>3, <1>4, <1>5, EveryArgumentBinds

-----------------------------------------------------------------------------
LEMMA KeywordsAreSound ==
    ASSUME NEW signature, NEW arguments, NEW categories,
           IsSignature(signature), AreArguments(signature, arguments),
           BindingFault(signature, arguments, categories) = "none",
           KeywordOnlyCandidate(signature) \/ KeywordCandidate(signature, arguments)
    PROVE  OneToOne(signature, arguments) /\ SameCategory(signature, arguments, categories)
<1>1. \A i \in DOMAIN arguments : Ordinal(signature, arguments, i) = Target(signature, arguments, i)
  BY DEF Ordinal
<1>2. \A i \in DOMAIN arguments : Target(signature, arguments, i) \in Formals(signature)
  BY EveryArgumentBinds
<1>3. \A i, j \in DOMAIN arguments :
         Target(signature, arguments, i) = Target(signature, arguments, j) => i = j
  BY TargetsDiffer
<1>4. \A p \in Formals(signature) :
         \E i \in DOMAIN arguments : Target(signature, arguments, i) = p
  BY NoFault DEF Missing
<1>5. \A i \in DOMAIN arguments :
         categories[i] = signature.categories[Target(signature, arguments, i)]
  BY NoFault, EveryArgumentBinds DEF Mismatches
<1> QED
  BY <1>1, <1>2, <1>3, <1>4, <1>5 DEF OneToOne, SameCategory

LEMMA PlainCallsAreSound ==
    ASSUME NEW signature, NEW arguments, NEW categories,
           IsSignature(signature), AreArguments(signature, arguments),
           PlainFault(signature, arguments, categories) = "none",
           ~(KeywordOnlyCandidate(signature) \/ KeywordCandidate(signature, arguments))
    PROVE  OneToOne(signature, arguments) /\ SameCategory(signature, arguments, categories)
<1>1. \A i \in DOMAIN arguments : Ordinal(signature, arguments, i) = i
  BY DEF Ordinal
<1>2. DOMAIN arguments = Formals(signature)
  BY DEF PlainFault, AreArguments, Formals
<1>3. \A i \in DOMAIN arguments : categories[i] = signature.categories[i]
  BY DEF PlainFault
<1> QED
  BY <1>1, <1>2, <1>3 DEF OneToOne, SameCategory

(* A call the analyzers do not refuse (keyword_calls/analysis.py,             *)
(* keyword_only_calls/analysis.py, analysis/functions.py) hands every         *)
(* parameter one argument, of its category, and every argument to a parameter: *)
(* what the lowering, which looks arguments up by ordinal, takes for granted. *)
THEOREM SupportedCallsBindOneToOne ==
    ASSUME NEW signature, NEW arguments, NEW categories,
           IsSignature(signature), AreArguments(signature, arguments),
           CallFault(signature, arguments, categories) = "none"
    PROVE  OneToOne(signature, arguments) /\ SameCategory(signature, arguments, categories)
<1>1. CASE KeywordOnlyCandidate(signature)
  <2>1. BindingFault(signature, arguments, categories) = "none"
    BY <1>1 DEF CallFault, KeywordOnlyFault
  <2> QED
    BY <1>1, <2>1, KeywordsAreSound
<1>2. CASE ~KeywordOnlyCandidate(signature) /\ KeywordCandidate(signature, arguments)
  <2>1. BindingFault(signature, arguments, categories) = "none"
    BY <1>2 DEF CallFault, KeywordFault
  <2> QED
    BY <1>2, <2>1, KeywordsAreSound
<1>3. CASE ~KeywordOnlyCandidate(signature) /\ ~KeywordCandidate(signature, arguments)
  <2>1. PlainFault(signature, arguments, categories) = "none"
    BY <1>3 DEF CallFault
  <2> QED
    BY <1>3, <2>1, PlainCallsAreSound
<1> QED
  BY <1>1, <1>2, <1>3

-----------------------------------------------------------------------------
(* Where nothing is unpacked, the analyzers and Python count alike.           *)
LEMMA CountedAlike ==
    ASSUME NEW signature, NEW arguments, AreArguments(signature, arguments),
           Unpacked(arguments) = {}, NEW i \in Positionals(arguments)
    PROVE  /\ arguments[i].kind = "positional" /\ Placed(arguments, i)
           /\ PlacedAt(arguments, i) = Position(arguments, i)
<1>1. /\ i \in 1 .. Len(arguments) /\ Len(arguments) \in Nat
      /\ DOMAIN arguments = 1 .. Len(arguments)
  BY DEF AreArguments, Positionals
<1>2. \A k \in DOMAIN arguments : arguments[k].kind # "starred"
  BY DEF Unpacked
<1>3. \A k \in 1 .. i : k \in DOMAIN arguments
  BY <1>1
<1>4. arguments[i].kind = "positional"
  BY <1>2 DEF Positionals
<1>5. {j \in 1 .. i : arguments[j].kind = "positional"} = {j \in Positionals(arguments) : j <= i}
  <2>1. \A j \in 1 .. i : arguments[j].kind = "positional" => j \in Positionals(arguments) /\ j <= i
    BY <1>1, <1>3 DEF Positionals
  <2>2. \A j \in Positionals(arguments) :
           j <= i => j \in 1 .. i /\ arguments[j].kind = "positional"
    BY <1>1, <1>2 DEF Positionals
  <2> QED
    BY <2>1, <2>2
<1> QED
  BY <1>2, <1>3, <1>4, <1>5 DEF Placed, PlacedAt, Position

(* An argument that binds a parameter for the analyzers does so for Python.   *)
LEMMA SupportedBinds ==
    ASSUME NEW signature, NEW arguments, NEW categories,
           IsSignature(signature), AreArguments(signature, arguments),
           CallFault(signature, arguments, categories) = "none",
           NEW i \in DOMAIN arguments
    PROVE  i \in Binders(signature, arguments, Ordinal(signature, arguments, i))
<1>1. CASE KeywordOnlyCandidate(signature) \/ KeywordCandidate(signature, arguments)
  <2>1. BindingFault(signature, arguments, categories) = "none"
    BY <1>1 DEF CallFault, KeywordOnlyFault, KeywordFault
  <2>2. Ordinal(signature, arguments, i) = Target(signature, arguments, i)
    BY <1>1 DEF Ordinal
  <2>3. Target(signature, arguments, i) # 0
    BY <2>1, EveryArgumentBinds DEF Binds
  <2>4. CASE arguments[i].kind = "keyword"
    <3>1. arguments[i].name > signature.positionalOnly
          /\ Target(signature, arguments, i) = arguments[i].name
      BY <2>3, <2>4 DEF Target, Placed
    <3> QED
      BY <2>2, <2>4, <3>1 DEF Binders
  <2>5. CASE arguments[i].kind # "keyword"
    <3>1. /\ i \in Positionals(arguments) /\ arguments[i].kind = "positional"
          /\ Target(signature, arguments, i) = Position(arguments, i)
      BY <2>1, <2>5, EveryArgumentBinds
    <3>2. PlacedAt(arguments, i) = Position(arguments, i)
      BY <2>1, <3>1, NoFault, CountedAlike
    <3>3. Position(arguments, i) <= Capacity(signature)
      BY <2>3, <2>5 DEF Target
    <3> QED
      BY <2>2, <3>1, <3>2, <3>3 DEF Binders, Capacity, Arity
  <2> QED
    BY <2>4, <2>5
<1>2. CASE ~(KeywordOnlyCandidate(signature) \/ KeywordCandidate(signature, arguments))
  <2>1. PlainFault(signature, arguments, categories) = "none"
    BY <1>2 DEF CallFault
  <2>2. /\ \A k \in DOMAIN arguments : arguments[k].kind = "positional"
        /\ Len(arguments) = Arity(signature)
    BY <2>1 DEF PlainFault
  <2>3. /\ Len(arguments) \in Nat /\ DOMAIN arguments = 1 .. Len(arguments)
        /\ i \in 1 .. Len(arguments) /\ i \in Nat
    BY DEF AreArguments
  <2>4. {j \in 1 .. i : arguments[j].kind = "positional"} = 1 .. i
    <3>1. \A j \in 1 .. i : j \in DOMAIN arguments
      BY <2>3
    <3> QED
      BY <2>2, <3>1
  <2>5. PlacedAt(arguments, i) = i
    <3>1. i \in Int /\ 1 <= i
      BY <2>3
    <3>2. Cardinality(1 .. i) = i
      BY <3>1, FS_Interval
    <3> QED
      BY <2>4, <3>2 DEF PlacedAt
  <2>6. signature.keywordOnly = 0
    BY <1>2 DEF KeywordOnlyCandidate, IsSignature
  <2>7. i <= Len(signature.categories) - signature.keywordOnly
    BY <2>2, <2>3, <2>6 DEF Arity
  <2> QED
    BY <1>2, <2>2, <2>5, <2>7 DEF Binders, Ordinal
<1> QED
  BY <1>1, <1>2

(* No argument binds two parameters. *)
LEMMA BindersDiffer ==
    ASSUME NEW signature, NEW arguments, NEW p, NEW q,
           NEW i \in Binders(signature, arguments, p), i \in Binders(signature, arguments, q)
    PROVE  p = q
BY DEF Binders

LEMMA SupportedIsCallable ==
    ASSUME NEW signature, NEW arguments, NEW categories,
           IsSignature(signature), AreArguments(signature, arguments),
           CallFault(signature, arguments, categories) = "none"
    PROVE  Callable(signature, arguments)
<1>1. OneToOne(signature, arguments)
  BY SupportedCallsBindOneToOne
<1>2. \A i \in DOMAIN arguments :
         \E p \in DOMAIN signature.categories : i \in Binders(signature, arguments, p)
  BY <1>1, SupportedBinds DEF OneToOne, IsSignature
<1>3. ASSUME NEW p \in DOMAIN signature.categories
      PROVE  Cardinality(Binders(signature, arguments, p)) = 1
  <2>1. PICK i \in DOMAIN arguments : Ordinal(signature, arguments, i) = p
    BY <1>1 DEF OneToOne, IsSignature
  <2>2. i \in Binders(signature, arguments, p)
    BY <2>1, SupportedBinds
  <2>3. ASSUME NEW j \in Binders(signature, arguments, p)
        PROVE  j = i
    <3>1. j \in DOMAIN arguments
      BY DEF Binders
    <3>2. Ordinal(signature, arguments, j) = p
      BY <3>1, SupportedBinds, BindersDiffer
    <3> QED
      BY <1>1, <2>1, <3>1, <3>2 DEF OneToOne
  <2>4. Binders(signature, arguments, p) = {i}
    BY <2>2, <2>3
  <2> QED
    BY <2>4, FS_Singleton
<1> QED
  BY <1>2, <1>3 DEF Callable

-----------------------------------------------------------------------------
(* What a call Python accepts looks like: nothing is unpacked, and each       *)
(* parameter has one argument of its own.                                     *)
LEMMA CallableIsOneToOne ==
    ASSUME NEW signature, NEW arguments, AreArguments(signature, arguments),
           Callable(signature, arguments)
    PROVE  /\ Unpacked(arguments) = {}
           /\ \A p \in DOMAIN signature.categories :
                 \E i : Binders(signature, arguments, p) = {i}
<1>1. Unpacked(arguments) = {}
  <2>1. \A i \in DOMAIN arguments : arguments[i].kind \in {"positional", "keyword"}
    <3> SUFFICES ASSUME NEW i \in DOMAIN arguments
                 PROVE  arguments[i].kind \in {"positional", "keyword"}
      OBVIOUS
    <3>1. PICK p \in DOMAIN signature.categories : i \in Binders(signature, arguments, p)
      BY DEF Callable
    <3> QED
      BY <3>1 DEF Binders
  <2> QED
    BY <2>1 DEF Unpacked
<1>2. ASSUME NEW p \in DOMAIN signature.categories
      PROVE  \E i : Binders(signature, arguments, p) = {i}
  <2>1. Cardinality(Binders(signature, arguments, p)) = 1
    BY DEF Callable
  <2>2. Binders(signature, arguments, p) \in SUBSET (1 .. Len(arguments))
    BY DEF Binders, AreArguments
  <2>3. IsFiniteSet(1 .. Len(arguments))
    BY FS_Interval DEF AreArguments
  <2>4. IsFiniteSet(Binders(signature, arguments, p))
    BY <2>2, <2>3, FS_Subset
  <2> QED
    BY <2>1, <2>4, FS_Singleton
<1> QED
  BY <1>1, <1>2

(* So it has as many arguments as the signature has parameters.               *)
LEMMA CallableCounts ==
    ASSUME NEW signature, NEW arguments,
           IsSignature(signature), AreArguments(signature, arguments),
           Callable(signature, arguments)
    PROVE  Len(arguments) = Arity(signature)
<1> DEFINE Params == 1 .. Arity(signature)
           Args == 1 .. Len(arguments)
           Chosen == [p \in Params |-> CHOOSE i : Binders(signature, arguments, p) = {i}]
<1>1. /\ Arity(signature) \in Nat /\ Len(arguments) \in Nat
      /\ DOMAIN signature.categories = Params /\ DOMAIN arguments = Args
  BY DEF IsSignature, AreArguments, Formals
<1>2. \A p \in Params : Binders(signature, arguments, p) = {Chosen[p]}
  BY <1>1, CallableIsOneToOne
<1>3. \A p \in Params : Chosen[p] \in Args
  BY <1>1, <1>2 DEF Binders
<1>4. \A p, q \in Params : Chosen[p] = Chosen[q] => p = q
  <2> SUFFICES ASSUME NEW p \in Params, NEW q \in Params, Chosen[p] = Chosen[q]
               PROVE  p = q
    OBVIOUS
  <2>1. /\ Chosen[p] \in Binders(signature, arguments, p)
        /\ Chosen[p] \in Binders(signature, arguments, q)
    BY <1>2
  <2> QED
    BY <2>1, BindersDiffer
<1>5. \A i \in Args : \E p \in Params : Chosen[p] = i
  <2> SUFFICES ASSUME NEW i \in Args
               PROVE  \E p \in Params : Chosen[p] = i
    OBVIOUS
  <2>1. PICK p \in Params : i \in Binders(signature, arguments, p)
    BY <1>1 DEF Callable
  <2> QED
    BY <1>2, <2>1
<1>6. Chosen \in [Params -> Args]
  BY <1>3
<1>7. Chosen \in Bijection(Params, Args)
  BY <1>4, <1>5, <1>6, Fun_IsInj, Fun_IsSurj DEF Bijection
<1>8. /\ IsFiniteSet(Params) /\ Cardinality(Params) = Arity(signature)
      /\ Cardinality(Args) = Len(arguments)
  <2>1. \A n \in Nat : IsFiniteSet(1 .. n) /\ Cardinality(1 .. n) = n
    BY FS_Interval
  <2> QED
    BY <1>1, <2>1
<1>9. ExistsBijection(Params, Args)
  BY <1>7 DEF ExistsBijection
<1> QED
  BY <1>8, <1>9, FS_Bijection

(* The converse of SupportedIsCallable.                                       *)
LEMMA CallableIsBound ==
    ASSUME NEW signature, NEW arguments, NEW categories,
           IsSignature(signature), AreArguments(signature, arguments),
           Callable(signature, arguments)
    PROVE  BindingFault(signature, arguments, categories) \in {"none", "PYC2905"}
<1>1. /\ Unpacked(arguments) = {} /\ Len(arguments) = Arity(signature)
      /\ DOMAIN signature.categories = Formals(signature)
  BY CallableIsOneToOne, CallableCounts DEF IsSignature
<1>2. ASSUME NEW i \in DOMAIN arguments, NEW p \in Formals(signature),
             i \in Binders(signature, arguments, p)
      PROVE  /\ Target(signature, arguments, i) = p /\ p # 0
             /\ ~(Placed(arguments, i) /\ Position(arguments, i) > Capacity(signature))
  <2>1. /\ p \in Nat \ {0} /\ Capacity(signature) \in Nat
        /\ arguments[i].kind \in {"positional", "keyword"}
    BY <1>2 DEF Formals, IsSignature, Capacity, Binders
  <2>2. CASE arguments[i].kind = "positional"
    <3>1. i \in Positionals(arguments)
      BY <2>2 DEF Positionals
    <3>2. Placed(arguments, i) /\ PlacedAt(arguments, i) = Position(arguments, i)
      BY <1>1, <3>1, CountedAlike
    <3>3. Position(arguments, i) = p /\ p <= Capacity(signature)
      BY <1>2, <2>2, <3>2 DEF Binders, Capacity, Arity
    <3> QED
      BY <2>1, <3>2, <3>3 DEF Target
  <2>3. CASE arguments[i].kind = "keyword"
    BY <1>2, <2>1, <2>3 DEF Binders, Target, Placed
  <2> QED
    BY <2>1, <2>2, <2>3
<1>3. ASSUME NEW i \in DOMAIN arguments
      PROVE  Binds(signature, arguments, i) /\ i \notin Excess(signature, arguments)
  <2>1. PICK p \in Formals(signature) : i \in Binders(signature, arguments, p)
    BY <1>1 DEF Callable
  <2>2. Target(signature, arguments, i) = p /\ p # 0 /\ i \notin Excess(signature, arguments)
    BY <1>2, <2>1 DEF Excess
  <2>3. ASSUME NEW j \in DOMAIN arguments \ {i}
        PROVE  Target(signature, arguments, j) # p
    <3>1. PICK q \in Formals(signature) : j \in Binders(signature, arguments, q)
      BY <1>1 DEF Callable
    <3>2. Target(signature, arguments, j) = q
      BY <1>2, <3>1
    <3>3. q # p
      BY <1>1, <2>1, <3>1, CallableIsOneToOne
    <3> QED
      BY <3>2, <3>3
  <2> QED
    BY <2>2, <2>3 DEF Binds, Taken
<1>4. Excess(signature, arguments) = {} /\ BindingProblems(signature, arguments) = {}
  BY <1>3 DEF Excess, BindingProblems
<1>5. ASSUME NEW p \in Formals(signature)
      PROVE  p \notin Missing(signature, arguments)
  <2>1. PICK i : Binders(signature, arguments, p) = {i}
    BY <1>1, CallableIsOneToOne
  <2>2. i \in DOMAIN arguments
    BY <2>1 DEF Binders
  <2> QED
    BY <1>2, <1>3, <2>1, <2>2 DEF Missing
<1>6. Missing(signature, arguments) = {}
  BY <1>5 DEF Missing
<1> QED
  BY <1>1, <1>4, <1>6 DEF BindingFault

(* What the analyzers (keyword_calls/analysis.py, keyword_only_calls/         *)
(* analysis.py, analysis/functions.py) support is what Python accepts, bound  *)
(* as Python binds it; what they refuse without need is an unpacking or an    *)
(* argument of another category.                                              *)
THEOREM CallsBindAsInPython ==
    ASSUME NEW signature, NEW arguments, NEW categories,
           IsSignature(signature), AreArguments(signature, arguments)
    PROVE  BindsAsPython(signature, arguments, CallFault(signature, arguments, categories),
               [i \in DOMAIN arguments |-> Ordinal(signature, arguments, i)])
<1>1. CallFault(signature, arguments, categories) = "none" =>
         /\ Callable(signature, arguments)
         /\ \A i \in DOMAIN arguments :
               i \in Binders(signature, arguments, Ordinal(signature, arguments, i))
  BY SupportedBinds, SupportedIsCallable
<1>2. ASSUME Callable(signature, arguments)
      PROVE  CallFault(signature, arguments, categories) \in {"none", "PYC2905"}
  <2>1. CASE KeywordOnlyCandidate(signature) \/ KeywordCandidate(signature, arguments)
    <3>1. BindingFault(signature, arguments, categories) \in {"none", "PYC2905"}
      BY <1>2, CallableIsBound
    <3> QED
      BY <2>1, <3>1 DEF CallFault, KeywordOnlyFault, KeywordFault
  <2>2. CASE ~(KeywordOnlyCandidate(signature) \/ KeywordCandidate(signature, arguments))
    <3>1. CallFault(signature, arguments, categories) = PlainFault(signature, arguments, categories)
      BY <2>2 DEF CallFault
    <3>2. signature.keywordOnly = 0
      BY <2>2 DEF KeywordOnlyCandidate, IsSignature
    <3>3. Unpacked(arguments) = {} /\ Len(arguments) = Arity(signature)
      BY <1>2, CallableIsOneToOne, CallableCounts
    <3>4. \A i \in DOMAIN arguments : arguments[i].kind = "positional"
      BY <2>2, <3>2, <3>3 DEF KeywordCandidate, Unpacked, AreArguments, Kinds
    <3> QED
      BY <3>1, <3>3, <3>4 DEF PlainFault
  <2> QED
    BY <2>1, <2>2
<1> QED
  BY <1>1, <1>2 DEF BindsAsPython

-----------------------------------------------------------------------------
(* The validator's two passes.  What they have found when they have seen a   *)
(* set of arguments is pictured at once, by what CallBinding says of those    *)
(* arguments; the picture satisfies the equations of the passes, which have   *)
(* one solution.                                                              *)

Gives(signature, arguments, i, p) ==
    Binds(signature, arguments, i) /\ Target(signature, arguments, i) = p
SourceOf(signature, arguments, seen, p) ==
    IF \E i \in seen : Gives(signature, arguments, i, p)
    THEN CHOOSE i \in seen : Gives(signature, arguments, i, p)
    ELSE 0
OrdinalOf(signature, arguments, seen, i) ==
    IF i \in seen THEN ParameterOrdinal(signature, arguments, i) ELSE 0

Sources(signature, arguments, seen) ==
    [p \in Formals(signature) |-> SourceOf(signature, arguments, seen, p)]
Ordinals(signature, arguments, seen) ==
    [i \in DOMAIN arguments |-> OrdinalOf(signature, arguments, seen, i)]
Starred(arguments, seen) == IF \E i \in seen : arguments[i].kind = "starred" THEN TRUE ELSE FALSE

Pictured(signature, arguments, seen) ==
    [sources |-> Sources(signature, arguments, seen),
     ordinals |-> Ordinals(signature, arguments, seen),
     position |-> Cardinality(Positionals(arguments) \cap seen),
     starred |-> Starred(arguments, seen),
     unpacking |-> Unpacked(arguments) \cap seen,
     excess |-> Excess(signature, arguments) \cap seen,
     problems |-> BindingProblems(signature, arguments) \cap seen]

(* What the passes have seen after n arguments. *)
First(arguments, n) == {i \in Positionals(arguments) : i <= n}
Second(arguments, n) == Positionals(arguments) \cup {i \in DOMAIN arguments : i <= n}

(* A set of numbers has a least element.                                      *)
LEMMA SmallestIsIn ==
    ASSUME NEW S \in SUBSET Nat, S # {}
    PROVE  \E x \in S : \A y \in S : x <= y
<1> DEFINE Less == {p \in Nat \X Nat : p[1] < p[2]}
<1>1. IsWellFoundedOn(Less, Nat)
  BY NatLessThanWellFounded, Zenon DEF OpToRel
<1>2. PICK x \in S : \A y \in S : ~ (<<y, x>> \in Less)
  <2> HIDE DEF Less
  <2>1. QED
    BY <1>1, WFMin, Zenon
<1>3. ASSUME NEW y \in S PROVE x <= y
  <2>1. <<y, x>> \in Nat \X Nat /\ <<y, x>>[1] = y /\ <<y, x>>[2] = x
    BY SMT
  <2>2. <<y, x>> \in Less <=> <<y, x>>[1] < <<y, x>>[2]
    BY <2>1, Zenon
  <2>3. ~ (y < x)
    BY <1>2, <2>1, <2>2
  <2>4. QED
    BY <2>3, SMT
<1>4. QED
  BY <1>3

(* What an argument asks for is one of the parameters.                        *)
LEMMA TargetsAre ==
    ASSUME NEW signature, NEW arguments,
           IsSignature(signature), AreArguments(signature, arguments), NEW i \in DOMAIN arguments
    PROVE  /\ Target(signature, arguments, i) \in 0 .. Arity(signature)
           /\ Target(signature, arguments, i) # 0 =>
                 \/ /\ arguments[i].kind = "positional" /\ Placed(arguments, i)
                    /\ i \in Positionals(arguments)
                    /\ Target(signature, arguments, i) = Position(arguments, i)
                 \/ /\ arguments[i].kind = "keyword" /\ arguments[i].name > signature.positionalOnly
                    /\ Target(signature, arguments, i) = arguments[i].name
<1>1. CASE Placed(arguments, i) /\ Position(arguments, i) <= Capacity(signature)
  <2>1. i \in Positionals(arguments) /\ arguments[i].kind = "positional"
    BY <1>1 DEF Placed, Positionals
  <2>2. Position(arguments, i) \in Nat \ {0}
    BY <2>1, PositionIsNatural
  <2>3. Capacity(signature) \in Nat /\ Capacity(signature) <= Arity(signature)
    BY DEF Capacity, IsSignature
  <2>4. Target(signature, arguments, i) = Position(arguments, i)
    BY <1>1 DEF Target
  <2>5. Position(arguments, i) \in 0 .. Arity(signature)
    BY <1>1, <2>2, <2>3 DEF IsSignature
  <2> QED
    BY <1>1, <2>1, <2>4, <2>5
<1>2. CASE /\ ~(Placed(arguments, i) /\ Position(arguments, i) <= Capacity(signature))
           /\ arguments[i].kind = "keyword" /\ arguments[i].name > signature.positionalOnly
  BY <1>2 DEF Target, AreArguments
<1>3. CASE /\ ~(Placed(arguments, i) /\ Position(arguments, i) <= Capacity(signature))
           /\ ~(arguments[i].kind = "keyword" /\ arguments[i].name > signature.positionalOnly)
  BY <1>3 DEF Target, IsSignature
<1> QED
  BY <1>1, <1>2, <1>3

(* Of an argument that binds, the parameter it binds is recorded.             *)
LEMMA RecordedIsBound ==
    ASSUME NEW signature, NEW arguments,
           IsSignature(signature), AreArguments(signature, arguments), NEW i \in DOMAIN arguments,
           Binds(signature, arguments, i)
    PROVE  ParameterOrdinal(signature, arguments, i) = Target(signature, arguments, i)
<1>1. Target(signature, arguments, i) # 0
  BY DEF Binds
<1>2. arguments[i].kind = "keyword" =>
         /\ arguments[i].name > signature.positionalOnly
         /\ Target(signature, arguments, i) = arguments[i].name
  BY <1>1, TargetsAre
<1>3. arguments[i].kind = "keyword" => arguments[i].name \in Nat /\ signature.positionalOnly \in Nat
  BY DEF AreArguments, IsSignature
<1> QED
  BY <1>2, <1>3 DEF ParameterOrdinal, ByName

(* Only a keyword that asks for a parameter already bound does not bind.      *)
LEMMA PositionalsBind ==
    ASSUME NEW signature, NEW arguments, NEW i \in DOMAIN arguments,
           arguments[i].kind # "keyword", Target(signature, arguments, i) # 0
    PROVE  Binds(signature, arguments, i)
BY DEF Binds, Taken

(* No parameter is bound twice, whatever is wrong with the call.              *)
LEMMA BoundByOne ==
    ASSUME NEW signature, NEW arguments, IsSignature(signature), AreArguments(signature, arguments),
           NEW p, NEW i \in DOMAIN arguments, Gives(signature, arguments, i, p),
           NEW j \in DOMAIN arguments, Gives(signature, arguments, j, p)
    PROVE  i = j
<1>1. /\ Target(signature, arguments, i) = p /\ Target(signature, arguments, j) = p /\ p # 0
      /\ ~Taken(signature, arguments, i) /\ ~Taken(signature, arguments, j)
  BY DEF Gives, Binds
<1>2. i \in Nat /\ j \in Nat
  BY DEF AreArguments
<1>3. CASE arguments[i].kind = "keyword" /\ arguments[j].kind = "keyword"
  BY <1>1, <1>2, <1>3 DEF Taken
<1>4. CASE arguments[i].kind = "keyword" /\ arguments[j].kind # "keyword"
  <2>1. arguments[j].kind = "positional"
    BY <1>1, <1>4, TargetsAre
  <2> QED
    BY <1>1, <1>4, <2>1 DEF Taken
<1>5. CASE arguments[i].kind # "keyword" /\ arguments[j].kind = "keyword"
  <2>1. arguments[i].kind = "positional"
    BY <1>1, <1>5, TargetsAre
  <2> QED
    BY <1>1, <1>5, <2>1 DEF Taken
<1>6. CASE arguments[i].kind # "keyword" /\ arguments[j].kind # "keyword"
  <2>1. /\ i \in Positionals(arguments) /\ p = Position(arguments, i)
        /\ j \in Positionals(arguments) /\ p = Position(arguments, j)
    BY <1>1, <1>6, TargetsAre
  <2> QED
    BY <2>1, PositionsDiffer
<1> QED
  BY <1>3, <1>4, <1>5, <1>6

(* A parameter asked for is bound, by a positional argument or by the first   *)
(* keyword of its name.                                                       *)
LEMMA SomeoneBinds ==
    ASSUME NEW signature, NEW arguments, IsSignature(signature), AreArguments(signature, arguments),
           NEW j \in DOMAIN arguments, Target(signature, arguments, j) # 0
    PROVE  \E i \in DOMAIN arguments :
              /\ Gives(signature, arguments, i, Target(signature, arguments, j))
              /\ i \in Positionals(arguments) \/ i <= j
<1> DEFINE p == Target(signature, arguments, j)
           asking == {i \in DOMAIN arguments : Target(signature, arguments, i) = p}
<1>1. CASE \E i \in asking : arguments[i].kind # "keyword"
  <2>1. PICK i \in asking : arguments[i].kind # "keyword"
    BY <1>1
  <2>2. Binds(signature, arguments, i)
    BY <2>1, PositionalsBind
  <2>3. i \in Positionals(arguments)
    BY <2>1, TargetsAre
  <2> QED
    BY <2>1, <2>2, <2>3 DEF Gives
<1>2. CASE \A i \in asking : arguments[i].kind = "keyword"
  <2>1. asking \in SUBSET Nat /\ j \in asking
    BY DEF AreArguments
  <2>2. PICK i \in asking : \A k \in asking : i <= k
    <3> HIDE DEF asking
    <3> QED
      BY <2>1, SmallestIsIn
  <2>3. \A k \in asking : ~(k < i)
    BY <2>1, <2>2
  <2>4. \A k \in asking : arguments[k].kind # "positional"
    BY <1>2
  <2>5. Binds(signature, arguments, i)
    BY <2>2, <2>3, <2>4 DEF Binds, Taken
  <2> QED
    BY <2>1, <2>2, <2>5 DEF Gives
<1> QED
  BY <1>1, <1>2

(* One argument more is seen.                                                 *)
OneMore(signature, arguments, seen, n) ==
    /\ IsSignature(signature) /\ AreArguments(signature, arguments)
    /\ seen \in SUBSET DOMAIN arguments /\ n \in DOMAIN arguments \ seen

LEMMA SourceStays ==
    ASSUME NEW signature, NEW arguments, NEW seen, NEW n, NEW p, ~Gives(signature, arguments, n, p)
    PROVE  SourceOf(signature, arguments, seen \cup {n}, p) = SourceOf(signature, arguments, seen, p)
<1>1. \A i : i \in seen /\ Gives(signature, arguments, i, p)
             <=> i \in seen \cup {n} /\ Gives(signature, arguments, i, p)
  OBVIOUS
<1>2. (CHOOSE i \in seen : Gives(signature, arguments, i, p))
         = (CHOOSE i \in seen \cup {n} : Gives(signature, arguments, i, p))
  BY <1>1, Zenon
<1> QED
  BY <1>1, <1>2, Zenon DEF SourceOf

LEMMA SourcesStay ==
    ASSUME NEW signature, NEW arguments, NEW seen, NEW n, OneMore(signature, arguments, seen, n),
           ~Binds(signature, arguments, n)
    PROVE  Sources(signature, arguments, seen \cup {n}) = Sources(signature, arguments, seen)
<1>1. \A p : ~Gives(signature, arguments, n, p)
  BY DEF Gives
<1>2. \A p \in Formals(signature) :
         SourceOf(signature, arguments, seen \cup {n}, p) = SourceOf(signature, arguments, seen, p)
  BY <1>1, SourceStays, Zenon
<1> QED
  BY <1>2, Zenon DEF Sources

LEMMA SourcesGrow ==
    ASSUME NEW signature, NEW arguments, NEW seen, NEW n, OneMore(signature, arguments, seen, n),
           NEW t, t = Target(signature, arguments, n), Binds(signature, arguments, n)
    PROVE  /\ Sources(signature, arguments, seen \cup {n}) =
                 [Sources(signature, arguments, seen) EXCEPT ![t] = n]
           /\ t \in Formals(signature)
<1>o. /\ IsSignature(signature) /\ AreArguments(signature, arguments)
      /\ seen \in SUBSET DOMAIN arguments /\ n \in DOMAIN arguments \ seen
  BY DEF OneMore
<1> DEFINE Older(p) == SourceOf(signature, arguments, seen, p)
           Newer(p) == SourceOf(signature, arguments, seen \cup {n}, p)
<1>1. Gives(signature, arguments, n, t)
  BY DEF Gives
<1>2. \A i \in seen : ~Gives(signature, arguments, i, t)
  BY <1>o, <1>1, BoundByOne
<1>3. \A i \in seen \cup {n} : Gives(signature, arguments, i, t) => i = n
  BY <1>2
<1>4. (CHOOSE i \in seen \cup {n} : Gives(signature, arguments, i, t)) = n
  BY <1>1, <1>3, Zenon
<1>5. Newer(t) = n
  BY <1>1, <1>4, Zenon DEF SourceOf
<1>6. t \in Formals(signature)
  BY <1>o, TargetsAre DEF Binds, Formals, IsSignature
<1>7. \A p : p # t => Newer(p) = Older(p)
  <2>1. \A p : p # t => ~Gives(signature, arguments, n, p)
    BY DEF Gives
  <2> QED
    BY <2>1, SourceStays, Zenon
<1>8. [Sources(signature, arguments, seen) EXCEPT ![t] = n]
         = [p \in Formals(signature) |-> IF p = t THEN n ELSE Older(p)]
  BY <1>6, Zenon DEF Sources
<1>9. \A p \in Formals(signature) : Newer(p) = IF p = t THEN n ELSE Older(p)
  BY <1>5, <1>7, Zenon
<1> QED
  BY <1>6, <1>8, <1>9, Zenon DEF Sources

LEMMA OrdinalsStay ==
    ASSUME NEW signature, NEW arguments, NEW seen, NEW n, OneMore(signature, arguments, seen, n),
           ParameterOrdinal(signature, arguments, n) = 0
    PROVE  Ordinals(signature, arguments, seen \cup {n}) = Ordinals(signature, arguments, seen)
<1>1. \A i \in DOMAIN arguments :
         OrdinalOf(signature, arguments, seen \cup {n}, i) = OrdinalOf(signature, arguments, seen, i)
  BY Zenon DEF OrdinalOf
<1> QED
  BY <1>1, Zenon DEF Ordinals

LEMMA OrdinalsGrow ==
    ASSUME NEW signature, NEW arguments, NEW seen, NEW n, OneMore(signature, arguments, seen, n),
           NEW t, t = ParameterOrdinal(signature, arguments, n)
    PROVE  Ordinals(signature, arguments, seen \cup {n}) =
              [Ordinals(signature, arguments, seen) EXCEPT ![n] = t]
<1> DEFINE Newer(i) == OrdinalOf(signature, arguments, seen \cup {n}, i)
           Older(i) == OrdinalOf(signature, arguments, seen, i)
<1>1. \A i \in DOMAIN arguments : Newer(i) = IF i = n THEN t ELSE Older(i)
  BY Zenon DEF OrdinalOf
<1>2. [Ordinals(signature, arguments, seen) EXCEPT ![n] = t]
         = [i \in DOMAIN arguments |-> IF i = n THEN t ELSE Older(i)]
  BY Zenon DEF Ordinals
<1> QED
  BY <1>1, <1>2, Zenon DEF Ordinals

(* The counting and the lists of one argument more. *)
LEMMA PlacesGrow ==
    ASSUME NEW signature, NEW arguments, NEW seen, NEW n, OneMore(signature, arguments, seen, n)
    PROVE  /\ Cardinality(Positionals(arguments) \cap seen) \in Nat
           /\ n \in Positionals(arguments) =>
                 Cardinality(Positionals(arguments) \cap (seen \cup {n}))
                    = Cardinality(Positionals(arguments) \cap seen) + 1
           /\ n \notin Positionals(arguments) =>
                 Cardinality(Positionals(arguments) \cap (seen \cup {n}))
                    = Cardinality(Positionals(arguments) \cap seen)
<1>o. /\ IsSignature(signature) /\ AreArguments(signature, arguments)
      /\ seen \in SUBSET DOMAIN arguments /\ n \in DOMAIN arguments \ seen
  BY DEF OneMore
<1> USE <1>o
<1>1. IsFiniteSet(1 .. Len(arguments))
  BY FS_Interval DEF AreArguments
<1>2. Positionals(arguments) \cap seen \in SUBSET (1 .. Len(arguments))
  BY DEF AreArguments
<1>3. IsFiniteSet(Positionals(arguments) \cap seen)
  BY <1>1, <1>2, FS_Subset
<1>4. n \in Positionals(arguments) =>
         Positionals(arguments) \cap (seen \cup {n}) = (Positionals(arguments) \cap seen) \cup {n}
  BY Zenon
<1>5. n \notin Positionals(arguments) =>
         Positionals(arguments) \cap (seen \cup {n}) = Positionals(arguments) \cap seen
  BY Zenon
<1> QED
  BY <1>3, <1>4, <1>5, FS_CardinalityType, FS_AddElement

LEMMA ListsGrow ==
    ASSUME NEW list, NEW seen, NEW n
    PROVE  /\ n \in list => list \cap (seen \cup {n}) = (list \cap seen) \cup {n}
           /\ n \notin list => list \cap (seen \cup {n}) = list \cap seen
  BY Zenon

(* The place the validator counts is the position the analyzer does.          *)
LEMMA FirstCounts ==
    ASSUME NEW signature, NEW arguments, IsSignature(signature), AreArguments(signature, arguments),
           NEW n \in DOMAIN arguments
    PROVE  /\ OneMore(signature, arguments, First(arguments, n - 1), n)
           /\ Positionals(arguments) \cap First(arguments, n - 1) = First(arguments, n - 1)
           /\ n \in Positionals(arguments) =>
                 /\ First(arguments, n) = First(arguments, n - 1) \cup {n}
                 /\ Position(arguments, n) = Cardinality(First(arguments, n - 1)) + 1
           /\ n \notin Positionals(arguments) => First(arguments, n) = First(arguments, n - 1)
<1>1. n \in Nat /\ \A i \in DOMAIN arguments : i \in Nat
  BY DEF AreArguments
<1>2. OneMore(signature, arguments, First(arguments, n - 1), n)
  BY <1>1 DEF OneMore, First, Positionals
<1>3. n \in Positionals(arguments) => First(arguments, n) = First(arguments, n - 1) \cup {n}
  BY <1>1 DEF First, Positionals
<1>4. n \notin Positionals(arguments) => First(arguments, n) = First(arguments, n - 1)
  BY <1>1 DEF First, Positionals
<1>5. Positionals(arguments) \cap First(arguments, n - 1) = First(arguments, n - 1)
  BY DEF First
<1>6. ASSUME n \in Positionals(arguments)
      PROVE  Position(arguments, n) = Cardinality(First(arguments, n - 1)) + 1
  <2>1. Position(arguments, n) = Cardinality(First(arguments, n))
    BY DEF Position, First
  <2>2. Positionals(arguments) \cap (First(arguments, n - 1) \cup {n}) = First(arguments, n)
    BY <1>3, <1>6 DEF First
  <2> QED
    BY <1>2, <1>5, <1>6, <2>1, <2>2, PlacesGrow
<1> QED
  BY <1>2, <1>3, <1>4, <1>5, <1>6

-----------------------------------------------------------------------------
(* The records the two passes hand on, component by component.                *)
Found(sources, ordinals, position, starred, unpacking, excess, problems) ==
    [sources |-> sources, ordinals |-> ordinals, position |-> position, starred |-> starred,
     unpacking |-> unpacking, excess |-> excess, problems |-> problems]

(* The picture, component by component. *)
LEMMA PictureIs ==
    ASSUME NEW signature, NEW arguments, NEW seen
    PROVE  Pictured(signature, arguments, seen) =
              Found(Sources(signature, arguments, seen), Ordinals(signature, arguments, seen),
                    Cardinality(Positionals(arguments) \cap seen), Starred(arguments, seen),
                    Unpacked(arguments) \cap seen, Excess(signature, arguments) \cap seen,
                    BindingProblems(signature, arguments) \cap seen)
BY Zenon DEF Pictured, Found

LEMMA StarredGrows ==
    ASSUME NEW arguments, NEW seen, NEW n
    PROVE  /\ Starred(arguments, seen) <=> \E i \in seen : arguments[i].kind = "starred"
           /\ arguments[n].kind = "starred" => Starred(arguments, seen \cup {n}) = TRUE
           /\ arguments[n].kind # "starred" =>
                 Starred(arguments, seen \cup {n}) = Starred(arguments, seen)
BY Zenon DEF Starred

LEMMA PositionalStep ==
    ASSUME NEW signature, NEW arguments, IsSignature(signature), AreArguments(signature, arguments),
           NEW n \in Positionals(arguments)
    PROVE  Pictured(signature, arguments, First(arguments, n))
             = TakePositional(signature, arguments,
                              Pictured(signature, arguments, First(arguments, n - 1)), n)
<1> DEFINE seen == First(arguments, n - 1)
           s == Sources(signature, arguments, seen)
           o == Ordinals(signature, arguments, seen)
           c == Cardinality(Positionals(arguments) \cap seen)
           t == Starred(arguments, seen)
           u == Unpacked(arguments) \cap seen
           e == Excess(signature, arguments) \cap seen
           q == BindingProblems(signature, arguments) \cap seen
           place == Target(signature, arguments, n)
<1>1. n \in DOMAIN arguments /\ arguments[n].kind \in {"positional", "starred"}
  BY DEF Positionals
<1>p. ParameterOrdinal(signature, arguments, n) = place
  BY <1>1 DEF ParameterOrdinal
<1>2. /\ OneMore(signature, arguments, seen, n)
      /\ First(arguments, n) = seen \cup {n}
      /\ Positionals(arguments) \cap seen = seen
      /\ Position(arguments, n) = c + 1
  BY <1>1, FirstCounts
<1>3. Pictured(signature, arguments, seen) = Found(s, o, c, t, u, e, q)
  BY Zenon DEF Pictured, Found
<1>4. Placed(arguments, n) <=> arguments[n].kind = "positional" /\ ~t
  <2>1. t <=> \E i \in seen : arguments[i].kind = "starred"
    BY StarredGrows
  <2>2. (\E i \in seen : arguments[i].kind = "starred")
           <=> \E i \in 1 .. n - 1 : arguments[i].kind = "starred"
    BY <1>1 DEF First, Positionals, AreArguments
  <2>3. \A i \in 1 .. n : i = n \/ i \in 1 .. n - 1
    BY <1>1 DEF AreArguments
  <2>4. \A i \in 1 .. n - 1 : i \in 1 .. n
    BY <1>1 DEF AreArguments
  <2> HIDE DEF t, seen
  <2> QED
    BY <1>1, <2>1, <2>2, <2>3, <2>4 DEF Placed
<1>5. /\ Cardinality(Positionals(arguments) \cap (seen \cup {n})) = c + 1 /\ c \in Nat
      /\ n \notin BindingProblems(signature, arguments)
  BY <1>1, <1>2, PlacesGrow DEF BindingProblems
<1>6. BindingProblems(signature, arguments) \cap (seen \cup {n}) = q
  BY <1>5, ListsGrow
<1> HIDE DEF seen, s, o, c, t, u, e, q
<1>7. CASE arguments[n].kind = "starred"
  <2>1. place = 0
    BY <1>4, <1>7 DEF Target
  <2>2. /\ Sources(signature, arguments, seen \cup {n}) = s
        /\ Ordinals(signature, arguments, seen \cup {n}) = o
    <3>1. OneMore(signature, arguments, seen, n) /\ ParameterOrdinal(signature, arguments, n) = 0
      BY <1>p, <1>2, <2>1
    <3>2. ~Binds(signature, arguments, n)
      BY <2>1 DEF Binds
    <3>3. Sources(signature, arguments, seen \cup {n}) = Sources(signature, arguments, seen)
      BY <3>1, <3>2, SourcesStay
    <3>4. Ordinals(signature, arguments, seen \cup {n}) = Ordinals(signature, arguments, seen)
      BY <3>1, OrdinalsStay
    <3> QED
      BY <3>3, <3>4 DEF s, o
  <2>3. /\ Unpacked(arguments) \cap (seen \cup {n}) = u \cup {n}
        /\ Excess(signature, arguments) \cap (seen \cup {n}) = e
    BY <1>1, <1>4, <1>7, ListsGrow DEF Unpacked, Excess, u, e
  <2>4. Starred(arguments, seen \cup {n}) = TRUE
    BY <1>7, StarredGrows
  <2>5. Pictured(signature, arguments, seen \cup {n}) = Found(s, o, c + 1, TRUE, u \cup {n}, e, q)
    BY <1>2, <1>5, <1>6, <2>2, <2>3, <2>4, PictureIs, Zenon
  <2>6. TakePositional(signature, arguments, Found(s, o, c, t, u, e, q), n)
           = Found(s, o, c + 1, TRUE, u \cup {n}, e, q)
    BY <1>7 DEF TakePositional, Bind, Found
  <2> QED
    BY <1>2, <1>3, <2>5, <2>6 DEF seen
<1>8. CASE arguments[n].kind = "positional" /\ (t \/ c + 1 > Capacity(signature))
  <2>1. place = 0
    BY <1>2, <1>4, <1>5, <1>8 DEF Target, IsSignature, Capacity
  <2>2. /\ Sources(signature, arguments, seen \cup {n}) = s
        /\ Ordinals(signature, arguments, seen \cup {n}) = o
    <3>1. OneMore(signature, arguments, seen, n) /\ ParameterOrdinal(signature, arguments, n) = 0
      BY <1>p, <1>2, <2>1
    <3>2. ~Binds(signature, arguments, n)
      BY <2>1 DEF Binds
    <3>3. Sources(signature, arguments, seen \cup {n}) = Sources(signature, arguments, seen)
      BY <3>1, <3>2, SourcesStay
    <3>4. Ordinals(signature, arguments, seen \cup {n}) = Ordinals(signature, arguments, seen)
      BY <3>1, OrdinalsStay
    <3> QED
      BY <3>3, <3>4 DEF s, o
  <2>3. /\ Unpacked(arguments) \cap (seen \cup {n}) = u
        /\ Excess(signature, arguments) \cap (seen \cup {n}) = IF t THEN e ELSE e \cup {n}
    <3>1. n \notin Unpacked(arguments)
      BY <1>8 DEF Unpacked
    <3>2. n \in Excess(signature, arguments) <=> ~t
      BY <1>1, <1>2, <1>4, <1>8 DEF Excess
    <3> QED
      BY <3>1, <3>2, ListsGrow DEF u, e
  <2>4. Starred(arguments, seen \cup {n}) = t
    BY <1>8, StarredGrows DEF t
  <2>5. Pictured(signature, arguments, seen \cup {n})
           = Found(s, o, c + 1, t, u, IF t THEN e ELSE e \cup {n}, q)
    BY <1>2, <1>5, <1>6, <2>2, <2>3, <2>4, PictureIs, Zenon
  <2>6. TakePositional(signature, arguments, Found(s, o, c, t, u, e, q), n)
           = Found(s, o, c + 1, t, u, IF t THEN e ELSE e \cup {n}, q)
    <3>1. CASE t
      BY <1>8, <3>1 DEF TakePositional, Bind, Found
    <3>2. CASE ~t
      BY <1>8, <3>2 DEF TakePositional, Bind, Found
    <3> QED
      BY <3>1, <3>2
  <2> QED
    BY <1>2, <1>3, <2>5, <2>6 DEF seen
<1>9. CASE arguments[n].kind = "positional" /\ ~(t \/ c + 1 > Capacity(signature))
  <2>1. place = c + 1 /\ place # 0
    BY <1>2, <1>4, <1>5, <1>9 DEF Target, IsSignature, Capacity
  <2>2. Binds(signature, arguments, n)
    BY <1>1, <1>9, <2>1, PositionalsBind
  <2>3. /\ Sources(signature, arguments, seen \cup {n}) = [s EXCEPT ![c + 1] = n]
        /\ Ordinals(signature, arguments, seen \cup {n}) = [o EXCEPT ![n] = c + 1]
    <3>1. /\ OneMore(signature, arguments, seen, n)
          /\ c + 1 = Target(signature, arguments, n)
          /\ c + 1 = ParameterOrdinal(signature, arguments, n)
      BY <1>p, <1>2, <2>1
    <3>2. Sources(signature, arguments, seen \cup {n})
             = [Sources(signature, arguments, seen) EXCEPT ![c + 1] = n]
      BY <2>2, <3>1, SourcesGrow
    <3>3. Ordinals(signature, arguments, seen \cup {n})
             = [Ordinals(signature, arguments, seen) EXCEPT ![n] = c + 1]
      BY <3>1, OrdinalsGrow
    <3> QED
      BY <3>2, <3>3 DEF s, o
  <2>4. /\ Unpacked(arguments) \cap (seen \cup {n}) = u
        /\ Excess(signature, arguments) \cap (seen \cup {n}) = e
    <3>1. n \notin Unpacked(arguments) /\ n \notin Excess(signature, arguments)
      BY <1>2, <1>9 DEF Unpacked, Excess
    <3> QED
      BY <3>1, ListsGrow DEF u, e
  <2>5. Starred(arguments, seen \cup {n}) = t
    BY <1>9, StarredGrows DEF t
  <2>6. Pictured(signature, arguments, seen \cup {n})
           = Found([s EXCEPT ![c + 1] = n], [o EXCEPT ![n] = c + 1], c + 1, t, u, e, q)
    BY <1>2, <1>5, <1>6, <2>3, <2>4, <2>5, PictureIs, Zenon
  <2>7. TakePositional(signature, arguments, Found(s, o, c, t, u, e, q), n)
           = Found([s EXCEPT ![c + 1] = n], [o EXCEPT ![n] = c + 1], c + 1, t, u, e, q)
    BY <1>9 DEF TakePositional, Bind, Found
  <2> QED
    BY <1>2, <1>3, <2>6, <2>7 DEF seen
<1> QED
  BY <1>1, <1>7, <1>8, <1>9

(* The keywords see the positional arguments and the keywords before them.    *)
LEMMA SecondCounts ==
    ASSUME NEW signature, NEW arguments, IsSignature(signature), AreArguments(signature, arguments),
           NEW n \in DOMAIN arguments
    PROVE  /\ n \in Positionals(arguments) => Second(arguments, n) = Second(arguments, n - 1)
           /\ n \notin Positionals(arguments) =>
                 /\ OneMore(signature, arguments, Second(arguments, n - 1), n)
                 /\ Second(arguments, n) = Second(arguments, n - 1) \cup {n}
<1>1. n \in Nat /\ \A i \in DOMAIN arguments : i \in Nat
  BY DEF AreArguments
<1>2. n \in Positionals(arguments) => Second(arguments, n) = Second(arguments, n - 1)
  BY <1>1 DEF Second, Positionals
<1>3. n \notin Positionals(arguments) => Second(arguments, n) = Second(arguments, n - 1) \cup {n}
  BY <1>1 DEF Second, Positionals
<1>4. n \notin Positionals(arguments) => OneMore(signature, arguments, Second(arguments, n - 1), n)
  BY <1>1 DEF OneMore, Second, Positionals
<1> QED
  BY <1>2, <1>3, <1>4

(* A keyword finds its parameter bound exactly if the analyzer says so.       *)
LEMMA TakenIsSeen ==
    ASSUME NEW signature, NEW arguments, IsSignature(signature), AreArguments(signature, arguments),
           NEW n \in DOMAIN arguments \ Positionals(arguments),
           NEW p, p = Target(signature, arguments, n), p # 0
    PROVE  Sources(signature, arguments, Second(arguments, n - 1))[p] # 0
              <=> ~Binds(signature, arguments, n)
<1> DEFINE seen == Second(arguments, n - 1)
<1>1. OneMore(signature, arguments, seen, n)
  BY SecondCounts
<1>2. p \in Formals(signature)
  BY TargetsAre DEF Formals, IsSignature
<1>3. CASE Binds(signature, arguments, n)
  <2>1. Gives(signature, arguments, n, p)
    BY <1>3 DEF Gives
  <2>2. \A i \in seen : i \in DOMAIN arguments /\ i # n
    BY <1>1 DEF OneMore
  <2>3. \A i \in seen : ~Gives(signature, arguments, i, p)
    BY <2>1, <2>2, BoundByOne
  <2>4. SourceOf(signature, arguments, seen, p) = 0
    BY <2>3, Zenon DEF SourceOf
  <2> QED
    BY <1>2, <1>3, <2>4 DEF Sources
<1>4. CASE ~Binds(signature, arguments, n)
  <2>1. PICK i \in DOMAIN arguments : /\ Gives(signature, arguments, i, p)
                                      /\ i \in Positionals(arguments) \/ i <= n
    BY SomeoneBinds
  <2>2. i # n
    BY <1>4, <2>1 DEF Gives
  <2>3. \A j \in DOMAIN arguments : j \in Nat \ {0}
    BY DEF AreArguments
  <2>4. i \in seen
    BY <2>1, <2>2, <2>3 DEF Second
  <2>5. SourceOf(signature, arguments, seen, p) \in seen
    BY <2>1, <2>4, Zenon DEF SourceOf
  <2>6. SourceOf(signature, arguments, seen, p) # 0
    BY <1>1, <2>3, <2>5 DEF OneMore
  <2> QED
    BY <1>2, <1>4, <2>6 DEF Sources
<1> QED
  BY <1>3, <1>4

LEMMA KeywordStep ==
    ASSUME NEW signature, NEW arguments, IsSignature(signature), AreArguments(signature, arguments),
           NEW n \in DOMAIN arguments \ Positionals(arguments)
    PROVE  Pictured(signature, arguments, Second(arguments, n))
             = TakeKeyword(signature, arguments,
                           Pictured(signature, arguments, Second(arguments, n - 1)), n)
<1> DEFINE seen == Second(arguments, n - 1)
           s == Sources(signature, arguments, seen)
           o == Ordinals(signature, arguments, seen)
           c == Cardinality(Positionals(arguments) \cap seen)
           t == Starred(arguments, seen)
           u == Unpacked(arguments) \cap seen
           e == Excess(signature, arguments) \cap seen
           q == BindingProblems(signature, arguments) \cap seen
           p == Target(signature, arguments, n)
<1>1. arguments[n].kind \in {"unpack", "keyword"}
  BY DEF Positionals, AreArguments, Kinds
<1>2. OneMore(signature, arguments, seen, n) /\ Second(arguments, n) = seen \cup {n}
  BY SecondCounts
<1>3. Pictured(signature, arguments, seen) = Found(s, o, c, t, u, e, q)
  BY Zenon DEF Pictured, Found
<1>4. p # 0 => (s[p] # 0 <=> ~Binds(signature, arguments, n))
  BY TakenIsSeen
<1> HIDE DEF seen
<1>5. Cardinality(Positionals(arguments) \cap (seen \cup {n})) = c
  BY <1>2, PlacesGrow
<1>6. Starred(arguments, seen \cup {n}) = t
  BY <1>1, StarredGrows
<1>7. Excess(signature, arguments) \cap (seen \cup {n}) = e
  <2>1. n \notin Excess(signature, arguments)
    BY <1>1 DEF Excess, Placed
  <2> QED
    BY <2>1, ListsGrow
<1>8. CASE arguments[n].kind = "unpack"
  <2>1. p = 0 /\ ParameterOrdinal(signature, arguments, n) = 0
    BY <1>8 DEF Target, Placed, ParameterOrdinal
  <2>2. ~Binds(signature, arguments, n)
    BY <2>1 DEF Binds
  <2>3. Sources(signature, arguments, seen \cup {n}) = s
    BY <1>2, <2>2, SourcesStay
  <2>4. Ordinals(signature, arguments, seen \cup {n}) = o
    BY <1>2, <2>1, OrdinalsStay
  <2>5. n \in Unpacked(arguments) /\ n \notin BindingProblems(signature, arguments)
    BY <1>8 DEF Unpacked, BindingProblems
  <2>6. /\ Unpacked(arguments) \cap (seen \cup {n}) = u \cup {n}
        /\ BindingProblems(signature, arguments) \cap (seen \cup {n}) = q
    BY <2>5, ListsGrow
  <2> HIDE DEF s, o, c, t, u, e, q
  <2>7. Pictured(signature, arguments, seen \cup {n}) = Found(s, o, c, t, u \cup {n}, e, q)
    BY <1>5, <1>6, <1>7, <2>3, <2>4, <2>6, PictureIs, Zenon
  <2>8. TakeKeyword(signature, arguments, Found(s, o, c, t, u, e, q), n)
           = Found(s, o, c, t, u \cup {n}, e, q)
    BY <1>8 DEF TakeKeyword, Bind, Found
  <2> QED
    BY <1>2, <1>3, <2>7, <2>8 DEF seen
<1>9. CASE arguments[n].kind = "keyword"
  <2> DEFINE name == ByName(signature, arguments[n])
             refused == name <= signature.positionalOnly \/ s[name] # 0
  <2>1. /\ n \notin Unpacked(arguments)
        /\ n \in BindingProblems(signature, arguments) <=> ~Binds(signature, arguments, n)
    BY <1>9 DEF Unpacked, BindingProblems
  <2>2. Unpacked(arguments) \cap (seen \cup {n}) = u
    BY <2>1, ListsGrow
  <2>3. name \in Nat /\ signature.positionalOnly \in Nat
    BY <1>9 DEF AreArguments, IsSignature, ByName
  <2>4. p = IF name > signature.positionalOnly THEN name ELSE 0
    <3>1. p = IF arguments[n].name > signature.positionalOnly THEN arguments[n].name ELSE 0
      BY <1>9 DEF Target, Placed
    <3>2. arguments[n].name \in Nat
      BY <1>9 DEF AreArguments
    <3> HIDE DEF p
    <3> QED
      BY <2>3, <3>1, <3>2 DEF ByName
  <2>5. refused <=> ~Binds(signature, arguments, n)
    <3>1. CASE name <= signature.positionalOnly
      BY <2>3, <2>4, <3>1 DEF Binds
    <3>2. CASE name > signature.positionalOnly
      <4>1. p = name /\ p # 0 /\ ~(name <= signature.positionalOnly)
        BY <2>3, <2>4, <3>2
      <4> HIDE DEF s, p
      <4> QED
        BY <1>4, <4>1
    <3> QED
      BY <2>3, <3>1, <3>2
  <2>6. Ordinals(signature, arguments, seen \cup {n}) = [o EXCEPT ![n] = name]
    <3>1. name = ParameterOrdinal(signature, arguments, n)
      BY <1>9 DEF ParameterOrdinal
    <3> QED
      BY <1>2, <3>1, OrdinalsGrow
  <2>7. CASE refused
    <3>1. ~Binds(signature, arguments, n)
      BY <2>5, <2>7
    <3>2. Sources(signature, arguments, seen \cup {n}) = s
      BY <1>2, <3>1, SourcesStay
    <3>3. BindingProblems(signature, arguments) \cap (seen \cup {n}) = q \cup {n}
      BY <2>1, <3>1, ListsGrow
    <3> HIDE DEF s, o, c, t, u, e, q
    <3>4. Pictured(signature, arguments, seen \cup {n})
             = Found(s, [o EXCEPT ![n] = name], c, t, u, e, q \cup {n})
      BY <1>5, <1>6, <1>7, <2>2, <2>6, <3>2, <3>3, PictureIs, Zenon
    <3>5. TakeKeyword(signature, arguments, Found(s, o, c, t, u, e, q), n)
             = Found(s, [o EXCEPT ![n] = name], c, t, u, e, q \cup {n})
      BY <1>9, <2>7 DEF TakeKeyword, Bind, Found
    <3> QED
      BY <1>2, <1>3, <3>4, <3>5 DEF seen
  <2>8. CASE ~refused
    <3>1. Binds(signature, arguments, n) /\ p = name
      BY <2>3, <2>4, <2>5, <2>8
    <3>2. Sources(signature, arguments, seen \cup {n}) = [s EXCEPT ![p] = n]
      BY <1>2, <3>1, SourcesGrow
    <3>3. BindingProblems(signature, arguments) \cap (seen \cup {n}) = q
      BY <2>1, <3>1, ListsGrow
    <3> HIDE DEF s, o, c, t, u, e, q, p
    <3>4. Pictured(signature, arguments, seen \cup {n})
             = Found([s EXCEPT ![name] = n], [o EXCEPT ![n] = name], c, t, u, e, q)
      BY <1>5, <1>6, <1>7, <2>2, <2>6, <3>1, <3>2, <3>3, PictureIs, Zenon
    <3>5. TakeKeyword(signature, arguments, Found(s, o, c, t, u, e, q), n)
             = Found([s EXCEPT ![name] = n], [o EXCEPT ![n] = name], c, t, u, e, q)
      BY <1>9, <2>8 DEF TakeKeyword, Bind, Found
    <3> QED
      BY <1>2, <1>3, <3>4, <3>5 DEF seen
  <2> QED
    BY <2>7, <2>8
<1> QED
  BY <1>1, <1>8, <1>9

-----------------------------------------------------------------------------
(* The two passes, each as one equation for all that it finds on the way.     *)
FirstPass(signature, arguments, found) ==
    [n \in 0 .. Len(arguments) |->
        IF n = 0 THEN Nothing(signature, arguments)
        ELSE IF InPlace(arguments[n]) THEN TakePositional(signature, arguments, found[n - 1], n)
        ELSE found[n - 1]]
SecondPass(signature, arguments, found) ==
    [n \in 0 .. Len(arguments) |->
        IF n = 0 THEN AfterPositional(signature, arguments)[Len(arguments)]
        ELSE IF InPlace(arguments[n]) THEN found[n - 1]
        ELSE TakeKeyword(signature, arguments, found[n - 1], n)]

LEMMA PassesAre ==
    ASSUME NEW signature, NEW arguments
    PROVE  /\ AfterPositional(signature, arguments)
                 = CHOOSE found : found = FirstPass(signature, arguments, found)
           /\ AfterKeywords(signature, arguments)
                 = CHOOSE found : found = SecondPass(signature, arguments, found)
BY Zenon DEF AfterPositional, AfterKeywords, FirstPass, SecondPass

(* The pictures solve the equations. *)
FirstPictures(signature, arguments) ==
    [n \in 0 .. Len(arguments) |-> Pictured(signature, arguments, First(arguments, n))]
SecondPictures(signature, arguments) ==
    [n \in 0 .. Len(arguments) |-> Pictured(signature, arguments, Second(arguments, n))]

LEMMA NothingIsPictured ==
    ASSUME NEW signature, NEW arguments
    PROVE  Pictured(signature, arguments, {}) = Nothing(signature, arguments)
<1>1. /\ Sources(signature, arguments, {}) = [p \in Formals(signature) |-> 0]
      /\ Ordinals(signature, arguments, {}) = [i \in DOMAIN arguments |-> 0]
  BY Zenon DEF Sources, SourceOf, Ordinals, OrdinalOf
<1>2. /\ Cardinality(Positionals(arguments) \cap {}) = 0
      /\ Starred(arguments, {}) = FALSE
      /\ \A list : list \cap {} = {}
  BY FS_EmptySet DEF Starred
<1> QED
  BY <1>1, <1>2, Zenon DEF Pictured, Nothing

LEMMA FirstSolves ==
    ASSUME NEW signature, NEW arguments, IsSignature(signature), AreArguments(signature, arguments)
    PROVE  FirstPictures(signature, arguments)
              = FirstPass(signature, arguments, FirstPictures(signature, arguments))
<1> DEFINE pictures == FirstPictures(signature, arguments)
<1>1. ASSUME NEW n \in 0 .. Len(arguments)
      PROVE  pictures[n] = FirstPass(signature, arguments, pictures)[n]
  <2>1. CASE n = 0
    <3>1. First(arguments, 0) = {}
      BY DEF First, Positionals, AreArguments
    <3> QED
      BY <2>1, <3>1, NothingIsPictured DEF FirstPictures, FirstPass
  <2>2. CASE n # 0
    <3>1. n \in DOMAIN arguments /\ n - 1 \in 0 .. Len(arguments)
      BY <2>2 DEF AreArguments
    <3>2. /\ pictures[n] = Pictured(signature, arguments, First(arguments, n))
          /\ pictures[n - 1] = Pictured(signature, arguments, First(arguments, n - 1))
      BY <3>1 DEF FirstPictures
    <3>3. CASE n \in Positionals(arguments)
      <4>1. InPlace(arguments[n])
        BY <3>3 DEF InPlace, Positionals
      <4>2. pictures[n] = TakePositional(signature, arguments, pictures[n - 1], n)
        BY <3>2, <3>3, PositionalStep
      <4> QED
        BY <2>2, <4>1, <4>2, Zenon DEF FirstPass
    <3>4. CASE n \notin Positionals(arguments)
      <4>1. ~InPlace(arguments[n])
        BY <3>1, <3>4 DEF InPlace, Positionals
      <4>2. First(arguments, n) = First(arguments, n - 1)
        BY <3>1, <3>4, FirstCounts
      <4> QED
        BY <2>2, <3>2, <4>1, <4>2, Zenon DEF FirstPass
    <3> QED
      BY <3>3, <3>4
  <2> QED
    BY <2>1, <2>2
<1> QED
  BY <1>1, Zenon DEF FirstPictures, FirstPass

LEMMA FirstUnfolds ==
    ASSUME NEW signature, NEW arguments, IsSignature(signature), AreArguments(signature, arguments)
    PROVE  AfterPositional(signature, arguments)
              = FirstPass(signature, arguments, AfterPositional(signature, arguments))
BY FirstSolves, PassesAre, Zenon

(* Two functions on an interval that start alike and go on alike are alike.   *)
GoOnAlike(f, g, N) ==
    /\ f[0] = g[0]
    /\ \A n \in 1 .. N : f[n - 1] = g[n - 1] => f[n] = g[n]
LEMMA AlikeThroughout ==
    ASSUME NEW f, NEW g, NEW N \in Nat, GoOnAlike(f, g, N), NEW k \in 0 .. N
    PROVE  f[k] = g[k]
<1> DEFINE differ == {n \in 0 .. N : f[n] # g[n]}
<1>1. SUFFICES ASSUME differ # {} PROVE FALSE
  OBVIOUS
<1>2. differ \in SUBSET Nat
  OBVIOUS
<1>3. PICK x \in differ : \A y \in differ : x <= y
  <2> HIDE DEF differ
  <2> QED
    BY <1>1, <1>2, SmallestIsIn
<1>4. x \in 1 .. N
  BY <1>3 DEF GoOnAlike
<1>5. x - 1 \in 0 .. N /\ x - 1 \notin differ
  BY <1>2, <1>3, <1>4
<1>6. f[x - 1] = g[x - 1]
  BY <1>5
<1> QED
  BY <1>3, <1>4, <1>6 DEF GoOnAlike

(* What a pass has found after n arguments is the picture of them.            *)
LEMMA FirstFinds ==
    ASSUME NEW signature, NEW arguments, IsSignature(signature), AreArguments(signature, arguments),
           NEW n \in 0 .. Len(arguments)
    PROVE  AfterPositional(signature, arguments)[n]
              = Pictured(signature, arguments, First(arguments, n))
<1> DEFINE N == Len(arguments)
           found == AfterPositional(signature, arguments)
           pictures == FirstPictures(signature, arguments)
<1>1. N \in Nat
  BY DEF AreArguments
<1>2. ASSUME NEW k \in 0 .. N
      PROVE  /\ found[k] = FirstPass(signature, arguments, found)[k]
             /\ pictures[k] = FirstPass(signature, arguments, pictures)[k]
  <2>1. found = FirstPass(signature, arguments, found)
    BY FirstUnfolds
  <2>2. pictures = FirstPass(signature, arguments, pictures)
    BY FirstSolves
  <2> HIDE DEF found, pictures
  <2> QED
    BY <2>1, <2>2, Zenon
<1> HIDE DEF found, pictures
<1>3. found[0] = pictures[0]
  <2>1. 0 \in 0 .. N
    BY <1>1
  <2> QED
    BY <1>2, <2>1, Zenon DEF FirstPass
<1>4. ASSUME NEW k \in 1 .. N, found[k - 1] = pictures[k - 1]
      PROVE  found[k] = pictures[k]
  <2>1. k \in 0 .. N /\ k # 0
    BY <1>1
  <2>2. \A f : FirstPass(signature, arguments, f)[k] =
                  IF InPlace(arguments[k])
                     THEN TakePositional(signature, arguments, f[k - 1], k) ELSE f[k - 1]
    BY <2>1, Zenon DEF FirstPass
  <2>3. FirstPass(signature, arguments, found)[k] = FirstPass(signature, arguments, pictures)[k]
    BY <1>4, <2>2, Zenon
  <2> QED
    BY <1>2, <2>1, <2>3
<1>5. \A k \in 1 .. N : found[k - 1] = pictures[k - 1] => found[k] = pictures[k]
  BY <1>4
<1>6. GoOnAlike(found, pictures, N)
  BY <1>3, <1>5, Zenon DEF GoOnAlike
<1>7. n \in 0 .. N
  OBVIOUS
<1> HIDE DEF N
<1>8. found[n] = pictures[n]
  BY <1>1, <1>6, <1>7, AlikeThroughout
<1> QED
  BY <1>7, <1>8 DEF found, pictures, FirstPictures, N

LEMMA SecondSolves ==
    ASSUME NEW signature, NEW arguments, IsSignature(signature), AreArguments(signature, arguments)
    PROVE  SecondPictures(signature, arguments)
              = SecondPass(signature, arguments, SecondPictures(signature, arguments))
<1> DEFINE pictures == SecondPictures(signature, arguments)
<1>1. ASSUME NEW n \in 0 .. Len(arguments)
      PROVE  pictures[n] = SecondPass(signature, arguments, pictures)[n]
  <2>1. CASE n = 0
    <3>1. First(arguments, Len(arguments)) = Second(arguments, 0)
      BY DEF First, Second, Positionals, AreArguments
    <3>2. Len(arguments) \in 0 .. Len(arguments)
      BY DEF AreArguments
    <3> QED
      BY <2>1, <3>1, <3>2, FirstFinds DEF SecondPictures, SecondPass
  <2>2. CASE n # 0
    <3>1. n \in DOMAIN arguments /\ n - 1 \in 0 .. Len(arguments)
      BY <2>2 DEF AreArguments
    <3>2. /\ pictures[n] = Pictured(signature, arguments, Second(arguments, n))
          /\ pictures[n - 1] = Pictured(signature, arguments, Second(arguments, n - 1))
      BY <3>1 DEF SecondPictures
    <3>3. CASE n \in Positionals(arguments)
      <4>1. InPlace(arguments[n])
        BY <3>3 DEF InPlace, Positionals
      <4>2. Second(arguments, n) = Second(arguments, n - 1)
        BY <3>1, <3>3, SecondCounts
      <4> QED
        BY <2>2, <3>2, <4>1, <4>2, Zenon DEF SecondPass
    <3>4. CASE n \notin Positionals(arguments)
      <4>1. ~InPlace(arguments[n])
        BY <3>1, <3>4 DEF InPlace, Positionals
      <4>2. pictures[n] = TakeKeyword(signature, arguments, pictures[n - 1], n)
        BY <3>1, <3>2, <3>4, KeywordStep
      <4> QED
        BY <2>2, <4>1, <4>2, Zenon DEF SecondPass
    <3> QED
      BY <3>3, <3>4
  <2> QED
    BY <2>1, <2>2
<1> QED
  BY <1>1, Zenon DEF SecondPictures, SecondPass

LEMMA SecondFinds ==
    ASSUME NEW signature, NEW arguments, IsSignature(signature), AreArguments(signature, arguments),
           NEW n \in 0 .. Len(arguments)
    PROVE  AfterKeywords(signature, arguments)[n]
              = Pictured(signature, arguments, Second(arguments, n))
<1> DEFINE N == Len(arguments)
           found == AfterKeywords(signature, arguments)
           pictures == SecondPictures(signature, arguments)
<1>1. N \in Nat
  BY DEF AreArguments
<1>2. ASSUME NEW k \in 0 .. N
      PROVE  /\ found[k] = SecondPass(signature, arguments, found)[k]
             /\ pictures[k] = SecondPass(signature, arguments, pictures)[k]
  <2>1. pictures = SecondPass(signature, arguments, pictures)
    BY SecondSolves
  <2>2. found = SecondPass(signature, arguments, found)
    BY <2>1, PassesAre, Zenon
  <2> HIDE DEF found, pictures
  <2> QED
    BY <2>1, <2>2, Zenon
<1> HIDE DEF found, pictures
<1>3. found[0] = pictures[0]
  <2>1. 0 \in 0 .. N
    BY <1>1
  <2> QED
    BY <1>2, <2>1, Zenon DEF SecondPass
<1>4. ASSUME NEW k \in 1 .. N, found[k - 1] = pictures[k - 1]
      PROVE  found[k] = pictures[k]
  <2>1. k \in 0 .. N /\ k # 0
    BY <1>1
  <2>2. \A f : SecondPass(signature, arguments, f)[k] =
                  IF InPlace(arguments[k])
                     THEN f[k - 1] ELSE TakeKeyword(signature, arguments, f[k - 1], k)
    BY <2>1, Zenon DEF SecondPass
  <2>3. SecondPass(signature, arguments, found)[k] = SecondPass(signature, arguments, pictures)[k]
    BY <1>4, <2>2, Zenon
  <2> QED
    BY <1>2, <2>1, <2>3
<1>5. \A k \in 1 .. N : found[k - 1] = pictures[k - 1] => found[k] = pictures[k]
  BY <1>4
<1>6. GoOnAlike(found, pictures, N)
  BY <1>3, <1>5, Zenon DEF GoOnAlike
<1>7. n \in 0 .. N
  OBVIOUS
<1> HIDE DEF N
<1>8. found[n] = pictures[n]
  BY <1>1, <1>6, <1>7, AlikeThroughout
<1> QED
  BY <1>7, <1>8 DEF found, pictures, SecondPictures, N

LEMMA ReboundIs ==
    ASSUME NEW signature, NEW arguments, IsSignature(signature), AreArguments(signature, arguments)
    PROVE  Rebound(signature, arguments) = Pictured(signature, arguments, DOMAIN arguments)
<1>1. Len(arguments) \in 0 .. Len(arguments)
  BY DEF AreArguments
<1>2. Second(arguments, Len(arguments)) = DOMAIN arguments
  BY DEF Second, Positionals, AreArguments
<1> QED
  BY <1>1, <1>2, SecondFinds DEF Rebound

(* Who gives a parameter its value, seen from the parameter.                  *)
LEMMA SourceIs ==
    ASSUME NEW signature, NEW arguments, IsSignature(signature), AreArguments(signature, arguments),
           NEW p
    PROVE  {i \in DOMAIN arguments : Gives(signature, arguments, i, p)}
              = {SourceOf(signature, arguments, DOMAIN arguments, p)} \ {0}
<1>1. \A i \in DOMAIN arguments : i # 0
  BY DEF AreArguments
<1>2. CASE \E i \in DOMAIN arguments : Gives(signature, arguments, i, p)
  <2>1. /\ SourceOf(signature, arguments, DOMAIN arguments, p) \in DOMAIN arguments
        /\ Gives(signature, arguments, SourceOf(signature, arguments, DOMAIN arguments, p), p)
    BY <1>2, Zenon DEF SourceOf
  <2>2. \A i \in DOMAIN arguments : Gives(signature, arguments, i, p) =>
           i = SourceOf(signature, arguments, DOMAIN arguments, p)
    BY <2>1, BoundByOne
  <2> QED
    BY <1>1, <2>1, <2>2
<1>3. CASE ~ \E i \in DOMAIN arguments : Gives(signature, arguments, i, p)
  <2>1. SourceOf(signature, arguments, DOMAIN arguments, p) = 0
    BY <1>3, Zenon DEF SourceOf
  <2> QED
    BY <1>3, <2>1
<1> QED
  BY <1>2, <1>3

(* The validator (keyword_calls/validation.py), which walks through a call    *)
(* argument by argument, gives each argument the parameter the analyzer       *)
(* (keyword_calls/analysis.py) gives it and comes to the same verdict, however *)
(* many arguments and parameters there are and whatever is wrong with them:   *)
(* it never refuses a call the analyzer bound, nor passes one it refused.     *)
THEOREM ValidatorBindsAlike ==
    ASSUME NEW signature, NEW arguments, NEW categories,
           IsSignature(signature), AreArguments(signature, arguments),
           DOMAIN categories = DOMAIN arguments, Len(categories) = Len(arguments)
    PROVE  SameBinding(signature, arguments, categories, Rebound(signature, arguments))
<1> DEFINE found == Rebound(signature, arguments)
           All == DOMAIN arguments
<1>1. /\ \A p \in Formals(signature) : found.sources[p] = SourceOf(signature, arguments, All, p)
      /\ \A i \in All : found.ordinals[i] = ParameterOrdinal(signature, arguments, i)
      /\ found.unpacking = Unpacked(arguments)
      /\ found.excess = Excess(signature, arguments)
      /\ found.problems = BindingProblems(signature, arguments)
  <2>1. found = Pictured(signature, arguments, All)
    BY ReboundIs
  <2>2. /\ Unpacked(arguments) \cap All = Unpacked(arguments)
        /\ Excess(signature, arguments) \cap All = Excess(signature, arguments)
        /\ BindingProblems(signature, arguments) \cap All = BindingProblems(signature, arguments)
    BY DEF Unpacked, Excess, BindingProblems
  <2> HIDE DEF found
  <2>3. /\ found.sources = Sources(signature, arguments, All)
        /\ found.ordinals = Ordinals(signature, arguments, All)
        /\ found.unpacking = Unpacked(arguments) \cap All
        /\ found.excess = Excess(signature, arguments) \cap All
        /\ found.problems = BindingProblems(signature, arguments) \cap All
    BY <2>1 DEF Pictured
  <2> QED
    BY <2>2, <2>3 DEF Sources, Ordinals, OrdinalOf
<1> HIDE DEF found
<1>2. \A i \in All : i # 0
  BY DEF AreArguments
<1>3. \A p \in Formals(signature) :
         {i \in All : Gives(signature, arguments, i, p)} = {found.sources[p]} \ {0}
  <2> SUFFICES ASSUME NEW p \in Formals(signature)
               PROVE  {i \in All : Gives(signature, arguments, i, p)} = {found.sources[p]} \ {0}
    OBVIOUS
  <2>1. {i \in All : Gives(signature, arguments, i, p)}
           = {SourceOf(signature, arguments, All, p)} \ {0}
    BY SourceIs
  <2>2. found.sources[p] = SourceOf(signature, arguments, All, p)
    BY <1>1
  <2> QED
    BY <2>1, <2>2
<1>4. (\E p \in Formals(signature) : found.sources[p] = 0) <=> Missing(signature, arguments) # {}
  <2>1. \A p \in Formals(signature) :
           found.sources[p] = 0 <=> \A i \in All : ~Gives(signature, arguments, i, p)
    BY <1>2, <1>3
  <2> QED
    BY <2>1 DEF Missing, Gives
<1>5. Unlike(signature, categories, found) = Mismatches(signature, arguments, categories)
  <2>1. ASSUME NEW i \in All
        PROVE  (found.ordinals[i] # 0 /\ found.sources[found.ordinals[i]] = i)
                  <=> Binds(signature, arguments, i)
    <3> DEFINE p == ParameterOrdinal(signature, arguments, i)
    <3>1. found.ordinals[i] = p
      BY <1>1
    <3>2. Binds(signature, arguments, i) => p = Target(signature, arguments, i) /\ p # 0
      BY RecordedIsBound DEF Binds
    <3>3. Gives(signature, arguments, i, p) <=> Binds(signature, arguments, i)
      BY <3>2 DEF Gives
    <3>4. p # 0 => p \in Formals(signature)
      <4>1. Target(signature, arguments, i) \in 0 .. Arity(signature)
        BY TargetsAre
      <4>2. p \in 0 .. Arity(signature)
        BY <4>1 DEF ParameterOrdinal, ByName, AreArguments, IsSignature
      <4> QED
        BY <4>2 DEF Formals, IsSignature
    <3> HIDE DEF p
    <3>5. p # 0 => (found.sources[p] = i <=> Gives(signature, arguments, i, p))
      BY <1>2, <1>3, <3>4
    <3> QED
      BY <3>1, <3>2, <3>3, <3>5
  <2>2. \A i \in All : found.ordinals[i] = ParameterOrdinal(signature, arguments, i)
    BY <1>1
  <2>3. \A i \in All : Binds(signature, arguments, i) =>
           ParameterOrdinal(signature, arguments, i) = Target(signature, arguments, i)
    BY RecordedIsBound
  <2> QED
    BY <2>1, <2>2, <2>3, Zenon DEF Unlike, Mismatches
<1>6. BindingFault(signature, arguments, categories) = ReboundFault(signature, categories, found)
  BY <1>1, <1>4, <1>5 DEF BindingFault, ReboundFault
<1>7. \A p \in Formals(signature) :
         {i \in All : Binds(signature, arguments, i) /\ Target(signature, arguments, i) = p}
            = {found.sources[p]} \ {0}
  BY <1>3 DEF Gives
<1>8. \A i \in All : found.ordinals[i] = ParameterOrdinal(signature, arguments, i)
  BY <1>1
<1> QED
  BY <1>6, <1>7, <1>8, Zenon DEF SameBinding, found

-----------------------------------------------------------------------------
(* Division: what \div of a positive divisor is, and that nothing else is.    *)
LEMMA Euclid ==
  ASSUME NEW a \in Int, NEW b \in Nat \ {0}
  PROVE  a \div b \in Int /\ b * (a \div b) <= a /\ a < b * (a \div b) + b
OBVIOUS

(* The quotient is the only integer between whose multiples the dividend lies.*)
LEMMA OneQuotient ==
  ASSUME NEW a \in Int, NEW b \in Nat \ {0}, NEW q \in Int,
         b * q <= a, a < b * q + b
  PROVE  a \div b = q
<1> DEFINE d == a \div b
<1>1. d \in Int /\ b * d <= a /\ a < b * d + b
  BY Euclid
<1> HIDE DEF d
<1>2. ~ d + 1 <= q
  <2>1. ASSUME d + 1 <= q PROVE FALSE
    <3>1. b * (d + 1) <= b * q
      BY <2>1, <1>1
    <3>2. b * (d + 1) = b * d + b
      BY <1>1
    <3> QED BY <3>1, <3>2, <1>1
  <2> QED BY <2>1
<1>3. ~ q + 1 <= d
  <2>1. ASSUME q + 1 <= d PROVE FALSE
    <3>1. b * (q + 1) <= b * d
      BY <2>1, <1>1
    <3>2. b * (q + 1) = b * q + b
      BY <1>1
    <3> QED BY <3>1, <3>2, <1>1
  <2> QED BY <2>1
<1>4. d = q
  BY <1>1, <1>2, <1>3
<1> QED BY <1>4 DEF d

(* How far division without signs goes: with the quotient of the magnitudes   *)
(* and what is left over, the two divisions of signed operands are linear.    *)
LEMMA Signs ==
  ASSUME NEW l \in Int, NEW r \in Int \ {0}
  PROVE  \E q \in Nat, s \in Nat :
           /\ s < Magnitude(r)
           /\ Magnitude(l) = Magnitude(r) * q + s
           /\ CDivide(l, r) = IF (l < 0) # (r < 0) THEN -q ELSE q
           /\ CRemainder(l, r) = IF l < 0 THEN -s ELSE s
           /\ Adjusts(l, r) <=> s # 0 /\ (l < 0) # (r < 0)
<1> DEFINE m == Magnitude(l)
           d == Magnitude(r)
           q == m \div d
           s == m - d * q
<1>1. m \in Nat /\ d \in Nat \ {0}
  BY DEF Magnitude
<1>2. q \in Int /\ d * q <= m /\ m < d * q + d
  <2> HIDE DEF m, d
  <2> QED BY <1>1, Euclid
<1>3. CDivide(l, r) = IF (l < 0) # (r < 0) THEN -q ELSE q
  BY DEF CDivide
<1>4. /\ l = IF l < 0 THEN -m ELSE m
      /\ r = IF r < 0 THEN -d ELSE d
  BY DEF Magnitude
<1> HIDE DEF m, d, q
<1>5. d * q \in Int
  BY <1>1, <1>2
<1>6. s \in Nat /\ s < d /\ m = d * q + s
  BY <1>1, <1>2, <1>5
<1>7. q \in Nat
  <2>1. ASSUME q <= -1 PROVE FALSE
    <3>1. d * q <= d * (-1)
      BY <2>1, <1>1, <1>2
    <3>2. d * (-1) = -d
      BY <1>1
    <3> QED BY <3>1, <3>2, <1>1, <1>2, <1>5
  <2> QED BY <2>1, <1>2
<1>8. CRemainder(l, r) = IF l < 0 THEN -s ELSE s
  <2>1. (-d) * q = -(d * q) /\ d * (-q) = -(d * q) /\ (-d) * (-q) = d * q
    BY <1>1, <1>2
  <2>2. CRemainder(l, r) = l - r * CDivide(l, r)
    BY DEF CRemainder
  <2>3. CASE l < 0 /\ r < 0
    BY <2>1, <2>2, <2>3, <1>1, <1>3, <1>4, <1>5
  <2>4. CASE l < 0 /\ ~ r < 0
    BY <2>1, <2>2, <2>4, <1>1, <1>3, <1>4, <1>5
  <2>5. CASE ~ l < 0 /\ r < 0
    BY <2>1, <2>2, <2>5, <1>1, <1>3, <1>4, <1>5
  <2>6. CASE ~ l < 0 /\ ~ r < 0
    BY <2>1, <2>2, <2>6, <1>1, <1>3, <1>4, <1>5
  <2> QED BY <2>3, <2>4, <2>5, <2>6
<1> HIDE DEF s
<1>9. Adjusts(l, r) <=> s # 0 /\ (l < 0) # (r < 0)
  BY <1>6, <1>8 DEF Adjusts
<1> QED BY <1>3, <1>6, <1>7, <1>8, <1>9 DEF m, d

(* The helpers for // and % compute what Python's // and % do: for operands   *)
(* of any size and sign, but a divisor of zero.                               *)
THEOREM HelpersDivideAsPython ==
  ASSUME NEW l \in Int, NEW r \in Int \ {0}
  PROVE  /\ HelperQuotient(l, r) = PyFloorDiv(l, r)
         /\ HelperRemainder(l, r) = PyModulo(l, r)
<1>1. PICK q \in Nat, s \in Nat :
           /\ s < Magnitude(r)
           /\ Magnitude(l) = Magnitude(r) * q + s
           /\ CDivide(l, r) = IF (l < 0) # (r < 0) THEN -q ELSE q
           /\ CRemainder(l, r) = IF l < 0 THEN -s ELSE s
           /\ Adjusts(l, r) <=> s # 0 /\ (l < 0) # (r < 0)
  BY Signs
<1> DEFINE d == Magnitude(r)
           floor == CDivide(l, r) - (IF Adjusts(l, r) THEN 1 ELSE 0)
           over == IF r > 0 THEN l ELSE -l
<1>2. d \in Nat \ {0} /\ d = IF r > 0 THEN r ELSE -r
  BY DEF Magnitude
<1>3. PyFloorDiv(l, r) = over \div d
  BY <1>2 DEF PyFloorDiv
<1>4. over = IF (l < 0) # (r < 0) THEN -Magnitude(l) ELSE Magnitude(l)
  BY DEF Magnitude
<1>5. floor \in Int /\ over \in Int
  BY <1>1
<1>6. floor = IF (l < 0) = (r < 0) THEN q ELSE IF s = 0 THEN -q ELSE -q - 1
  BY <1>1
<1> HIDE DEF d, floor, over
<1>7. d * floor <= over /\ over < d * floor + d
  <2>1. d * q \in Int /\ d * (-q) = -(d * q) /\ d * (-q - 1) = -(d * q) - d
    BY <1>1, <1>2
  <2>2. s < d /\ Magnitude(l) = d * q + s
    BY <1>1 DEF d
  <2>3. CASE (l < 0) = (r < 0)
    <3>1. floor = q /\ over = d * q + s
      BY <2>2, <2>3, <1>4, <1>6
    <3> QED BY <3>1, <2>1, <2>2, <1>1, <1>2
  <2>4. CASE (l < 0) # (r < 0) /\ s = 0
    <3>1. floor = -q /\ over = -(d * q + s)
      BY <2>2, <2>4, <1>4, <1>6
    <3> QED BY <3>1, <2>1, <2>2, <2>4, <1>1, <1>2
  <2>5. CASE (l < 0) # (r < 0) /\ s # 0
    <3>1. floor = -q - 1 /\ over = -(d * q + s)
      BY <2>2, <2>5, <1>4, <1>6
    <3> QED BY <3>1, <2>1, <2>2, <2>5, <1>1, <1>2
  <2> QED BY <2>3, <2>4, <2>5
<1>8. over \div d = floor
  BY <1>2, <1>5, <1>7, OneQuotient
<1>9. HelperQuotient(l, r) = PyFloorDiv(l, r)
  BY <1>3, <1>8 DEF HelperQuotient, floor
<1>10. HelperRemainder(l, r) = l - r * HelperQuotient(l, r)
  <2>1. CDivide(l, r) \in Int
    BY <1>1
  <2>2. r * (CDivide(l, r) - 1) = r * CDivide(l, r) - r /\ r * CDivide(l, r) \in Int
    BY <2>1
  <2>3. CASE Adjusts(l, r)
    BY <2>1, <2>2, <2>3 DEF HelperRemainder, HelperQuotient, CRemainder
  <2>4. CASE ~ Adjusts(l, r)
    BY <2>1, <2>2, <2>4 DEF HelperRemainder, HelperQuotient, CRemainder
  <2> QED BY <2>3, <2>4
<1> QED BY <1>9, <1>10 DEF PyModulo

(* The preconditions the helpers are registered with, a divisor that is not   *)
(* zero and not the least dividend over -1, are enough for every value they   *)
(* compute to have a place in the type of their operands: for two's           *)
(* complement integers of any width, which range over -bound .. bound - 1.    *)
THEOREM HelpersStayInRange ==
  ASSUME NEW bound \in Nat \ {0},
         NEW l \in -bound .. bound - 1, NEW r \in (-bound .. bound - 1) \ {0},
         ~(l = -bound /\ r = -1)
  PROVE  {CDivide(l, r), CRemainder(l, r), HelperQuotient(l, r), HelperRemainder(l, r)}
           \subseteq -bound .. bound - 1
<1>0. l \in Int /\ r \in Int \ {0}
  OBVIOUS
<1>1. PICK q \in Nat, s \in Nat :
           /\ s < Magnitude(r)
           /\ Magnitude(l) = Magnitude(r) * q + s
           /\ CDivide(l, r) = IF (l < 0) # (r < 0) THEN -q ELSE q
           /\ CRemainder(l, r) = IF l < 0 THEN -s ELSE s
           /\ Adjusts(l, r) <=> s # 0 /\ (l < 0) # (r < 0)
  BY <1>0, Signs
<1> DEFINE m == Magnitude(l)
           d == Magnitude(r)
<1>2. /\ m \in 0 .. bound /\ d \in 1 .. bound
      /\ m = bound => l = -bound
      /\ d = bound => r = -bound
      /\ d = 1 /\ r < 0 => r = -1
  BY DEF Magnitude
<1>3. s < d /\ m = d * q + s
  BY <1>1
<1> HIDE DEF m, d
<1>4. q <= d * q /\ d * q \in Int
  <2>1. q * 1 <= q * d
    BY <1>2
  <2> QED BY <2>1, <1>2
<1>5. ASSUME d >= 2 PROVE 2 * q <= d * q
  BY <1>5, <1>2
<1>6. q <= bound /\ (q = bound => l = -bound /\ d = 1)
  BY <1>2, <1>3, <1>4, <1>5
<1>7. s # 0 => q + 1 <= bound
  BY <1>2, <1>3, <1>4
<1>8. CDivide(l, r) \in -bound .. bound - 1
  BY <1>1, <1>2, <1>6
<1>9. CRemainder(l, r) \in -bound .. bound - 1
  BY <1>1, <1>2, <1>3
<1>10. HelperQuotient(l, r) \in -bound .. bound - 1
  BY <1>1, <1>7, <1>8 DEF HelperQuotient
<1>11. HelperRemainder(l, r) \in -bound .. bound - 1
  BY <1>1, <1>2, <1>3, <1>9 DEF HelperRemainder
<1> QED BY <1>8, <1>9, <1>10, <1>11
================================================================================
