--------------------------- MODULE CloseFlowProofs ---------------------------
(***************************************************************************)
(* Proofs about CloseFlow, for every set of documents and texts, and for   *)
(* any number of threads, keystrokes, saves and requests to close.         *)
(*                                                                         *)
(* What has to be known of a closed window is known of each state before:  *)
(* a clean document is safe, which means that it is blank or that a save   *)
(* has written its text; while the question is on the screen nothing is    *)
(* left in the editor, and a document that is not in the question is safe. *)
(* A save may make a document dirty again while the question is up; it     *)
(* stays safe, which is why the invariant is not about the dirty marks.    *)
(***************************************************************************)
EXTENDS CloseFlow, SequenceTheorems, FiniteSetTheorems, WellFoundedInduction, TLAPS

Dialog == [kind : {"choice", "saving", "asking", "destination", "remove"},
           docs : SUBSET Documents, futures : SUBSET Nat]

BundleType ==
    /\ documents \subseteq Documents /\ active \in documents
    /\ text \in [Documents -> Texts] /\ disk \in [Documents -> Texts]
    /\ dirty \in [Documents -> BOOLEAN] /\ linked \in [Documents -> BOOLEAN]

EditorType == editor \in Texts /\ pending \in BOOLEAN

SavesType == saves \in Seq(Save) /\ signals \subseteq DOMAIN saves

CloseType ==
    /\ closePending \in Nat /\ recloses \in Nat /\ closes \in Nat /\ edits \in Nat
    /\ closeFailed \in BOOLEAN /\ closing \in BOOLEAN
    /\ notice \in {"none", "not saved", "changed"} /\ discarded \subseteq Documents

Safe(d) == text[d] = Blank \/ Captured(d)

(* A dialog keeps what it was opened for; a question about a removal has     *)
(* the whole window to itself, and leaves a document in the bundle.          *)
FrameOK(f, i) ==
    /\ f.futures \subseteq DOMAIN saves
    /\ f.kind \in {"destination", "remove"} => \E d \in Documents : f.docs = {d}
    /\ f.kind = "remove" => i = 1 /\ documents \ f.docs # {}
    /\ f.kind = "asking" => f.docs # {}

DialogsOK == dialogs \in Seq(Dialog) /\ \A i \in DOMAIN dialogs : FrameOK(dialogs[i], i)

EditorOK == ~pending => editor = text[active]

CleanOK == \A d \in documents : ~dirty[d] => Safe(d)

Asks(f) == f.kind = "choice" => ~pending /\ \A d \in documents \ f.docs : Safe(d)

ChoiceOK == \A i \in DOMAIN dialogs : Asks(dialogs[i])

ClosedOK == closing => ~pending /\ \A d \in documents \ discarded : Safe(d)

Types == BundleType /\ EditorType /\ SavesType /\ CloseType /\ DialogsOK

(* The callbacks that will still bring the count of the close down.          *)
Due == {k \in DOMAIN saves : saves[k].close /\ (~Ended(k) \/ k \in signals)}

IInv == Types /\ EditorOK /\ CleanOK /\ ChoiceOK /\ ClosedOK /\ PendingHasAnEnd
-----------------------------------------------------------------------------
(* Numbers and sequences.                                                    *)

(* The first element of a set of numbers is one of its elements.             *)
LEMMA FirstIsIn ==
    ASSUME NEW S \in SUBSET Nat, S # {}
    PROVE  First(S) \in S /\ \A e \in S : First(S) <= e
<1> DEFINE Less == {p \in Nat \X Nat : p[1] < p[2]}
<1>1. IsWellFoundedOn(Less, Nat)
  BY NatLessThanWellFounded, Zenon DEF OpToRel
<1>2. PICK x \in S : \A y \in S : ~ (<<y, x>> \in Less)
  <2> HIDE DEF Less
  <2>1. QED
    BY <1>1, WFMin, Zenon
<1>3. \A y \in S : x <= y
  <2>1. ASSUME NEW y \in S PROVE ~ (y < x)
    <3>1. <<y, x>> \in Nat \X Nat /\ <<y, x>>[1] = y /\ <<y, x>>[2] = x
      BY SMT
    <3>2. <<y, x>> \in Less <=> <<y, x>>[1] < <<y, x>>[2]
      BY <3>1, Zenon
    <3>3. QED
      BY <1>2, <3>1, <3>2
  <2>2. QED
    BY <2>1, SMT
<1>4. QED
  BY <1>3, Zenon DEF First

(* A finite set of numbers has a last element: of the sets without one, one  *)
(* with the fewest elements would keep none after the loss of any.           *)
LEMMA LastIsIn ==
    ASSUME NEW S \in SUBSET Nat, IsFiniteSet(S), S # {}
    PROVE  \E e \in S : \A f \in S : f <= e
<1> DEFINE Endless(T) == T # {} /\ \A e \in T : \E f \in T : ~(f <= e)
           Sizes == {n \in Nat : \E T \in SUBSET S : Endless(T) /\ Cardinality(T) = n}
<1>1. ASSUME Endless(S) PROVE FALSE
  <2>1. Sizes # {}
    <3>1. Cardinality(S) \in Sizes
      BY <1>1, FS_CardinalityType
    <3>2. QED
      BY <3>1
  <2>2. Sizes \in SUBSET Nat
    OBVIOUS
  <2>3. PICK n \in Sizes : \A m \in Sizes : n <= m
    <3> HIDE DEF Sizes
    <3>1. QED
      BY <2>1, <2>2, FirstIsIn
  <2>4. PICK T \in SUBSET S : Endless(T) /\ Cardinality(T) = n
    BY <2>3
  <2>5. IsFiniteSet(T)
    BY <2>4, FS_Subset
  <2>6. PICK x \in T : TRUE
    BY <2>4
  <2>7. /\ IsFiniteSet(T \ {x}) /\ Cardinality(T \ {x}) = Cardinality(T) - 1
        /\ Cardinality(T \ {x}) \in Nat
    BY <2>5, <2>6, FS_RemoveElement, FS_CardinalityType
  <2>8. Endless(T \ {x})
    <3>1. PICK f \in T : ~(f <= x)
      BY <2>4, <2>6
    <3>2. f # x /\ f \in T \ {x}
      BY <3>1, SMT
    <3>3. ASSUME NEW e \in T \ {x} PROVE \E g \in T \ {x} : ~(g <= e)
      <4>1. PICK g \in T : ~(g <= e)
        BY <2>4
      <4>2. CASE g # x
        BY <4>1, <4>2
      <4>3. CASE g = x
        BY <3>1, <3>2, <4>1, <4>3, SMT
      <4>4. QED
        BY <4>2, <4>3
    <3>4. QED
      BY <3>2, <3>3
  <2>9. Cardinality(T) - 1 \in Sizes
    BY <2>7, <2>8
  <2>10. QED
    BY <2>3, <2>4, <2>7, <2>9, SMT
<1>2. QED
  BY <1>1

(* The innermost dialog ends: the others stay where they are.                *)
LEMMA PoppedFacts ==
    ASSUME dialogs \in Seq(Dialog), dialogs # <<>>
    PROVE  /\ Top \in Dialog /\ Len(dialogs) \in DOMAIN dialogs /\ Len(dialogs) \in Nat \ {0}
           /\ Popped \in Seq(Dialog) /\ Len(Popped) = Len(dialogs) - 1
           /\ DOMAIN Popped \subseteq DOMAIN dialogs
           /\ \A i \in DOMAIN Popped : Popped[i] = dialogs[i]
<1>1. Len(dialogs) \in Nat \ {0} /\ DOMAIN dialogs = 1 .. Len(dialogs)
  BY SMT
<1>2. Top \in Dialog
  BY <1>1, SMT DEF Top
<1>3. /\ Popped \in Seq(Dialog) /\ Len(Popped) = Len(dialogs) - 1
      /\ \A i \in 1 .. Len(dialogs) - 1 : Popped[i] = dialogs[i]
  BY <1>1, SubSeqProperties, SMT DEF Popped
<1>4. DOMAIN Popped = 1 .. Len(dialogs) - 1
  BY <1>1, <1>3, SMT
<1>5. QED
  BY <1>1, <1>2, <1>3, <1>4, SMT

(* A dialog opens above the others, or in the place of the innermost.        *)
LEMMA PushedFacts ==
    ASSUME dialogs \in Seq(Dialog), NEW f \in Dialog
    PROVE  /\ Pushed(f) \in Seq(Dialog)
           /\ DOMAIN Pushed(f) = DOMAIN dialogs \cup {Len(dialogs) + 1}
           /\ \A i \in DOMAIN dialogs : Pushed(f)[i] = dialogs[i]
           /\ Pushed(f)[Len(dialogs) + 1] = f
BY AppendProperties, SMT DEF Pushed

LEMMA ExchangedFacts ==
    ASSUME dialogs \in Seq(Dialog), dialogs # <<>>, NEW f \in Dialog
    PROVE  /\ Exchanged(f) \in Seq(Dialog)
           /\ DOMAIN Exchanged(f) = DOMAIN dialogs
           /\ \A i \in DOMAIN dialogs : Exchanged(f)[i] = IF i = Len(dialogs) THEN f ELSE dialogs[i]
<1>1. /\ Popped \in Seq(Dialog) /\ Len(Popped) = Len(dialogs) - 1 /\ Len(dialogs) \in Nat \ {0}
      /\ \A i \in DOMAIN Popped : Popped[i] = dialogs[i]
  BY PoppedFacts
<1>2. /\ Exchanged(f) \in Seq(Dialog) /\ Len(Exchanged(f)) = Len(dialogs)
      /\ \A i \in 1 .. Len(dialogs) - 1 : Exchanged(f)[i] = Popped[i]
      /\ Exchanged(f)[Len(dialogs)] = f
  BY <1>1, AppendProperties, SMT DEF Exchanged
<1>3. DOMAIN Popped = 1 .. Len(dialogs) - 1 /\ DOMAIN dialogs = 1 .. Len(dialogs)
      /\ DOMAIN Exchanged(f) = 1 .. Len(dialogs)
  BY <1>1, <1>2, SMT
<1>4. QED
  BY <1>1, <1>2, <1>3, SMT
-----------------------------------------------------------------------------
(* What a step leaves of the invariant when the saves only move on.          *)

(* No save is forgotten, none changes what it writes, and one that has       *)
(* succeeded stays so.                                                       *)
SavesGrow ==
    /\ SavesType' /\ DOMAIN saves \subseteq DOMAIN saves'
    /\ \A k \in DOMAIN saves :
         /\ saves'[k].doc = saves[k].doc /\ saves'[k].text = saves[k].text
         /\ saves[k].stage = "done" => saves'[k].stage = "done"

Edited == Flush \/ UNCHANGED <<text, dirty, pending>>

(* What is shown to the user while nothing is pending does not change.       *)
Undisturbed == ~pending => ~pending' /\ UNCHANGED text

LEMMA SavesFacts ==
    ASSUME NEW list \in Seq(Save)
    PROVE  /\ DOMAIN list = 1 .. Len(list) /\ Len(list) \in Nat
           /\ DOMAIN list \subseteq Nat /\ IsFiniteSet(DOMAIN list)
           /\ \A k \in DOMAIN list : list[k] \in Save
BY FS_Interval, SMTT(40)

(* A safe document is safe after a step that does not change its text.       *)
LEMMA SafeKeeps ==
    ASSUME SavesGrow, NEW d, text'[d] = text[d], Safe(d)
    PROVE  Safe(d)'
BY DEF SavesGrow, Safe, Captured

(* A flush types correctly, marks each document it changes, and finds        *)
(* nothing to do when nothing is pending.                                    *)
LEMMA EditedFacts ==
    ASSUME BundleType, EditorType, Edited
    PROVE  /\ text' \in [Documents -> Texts] /\ dirty' \in [Documents -> BOOLEAN]
           /\ pending' \in BOOLEAN
           /\ Undisturbed
           /\ \A d \in Documents : ~dirty'[d] => ~dirty[d] /\ text'[d] = text[d]
<1>1. CASE UNCHANGED <<text, dirty, pending>>
  BY <1>1 DEF BundleType, EditorType, Undisturbed
<1>2. CASE Flush /\ ~Unsynchronized
  BY <1>2 DEF BundleType, EditorType, Flush, FlushedText, FlushedDirty, Unsynchronized, Undisturbed
<1>3. CASE Flush /\ Unsynchronized
  <2>1. /\ text' = [text EXCEPT ![active] = editor] /\ dirty' = [dirty EXCEPT ![active] = TRUE]
        /\ pending' = FALSE /\ pending
    BY <1>3 DEF Flush, FlushedText, FlushedDirty, Unsynchronized
  <2>2. active \in Documents
    BY DEF BundleType
  <2>3. \A d \in Documents : ~dirty'[d] => d # active
    BY <2>1, <2>2 DEF BundleType
  <2>4. \A d \in Documents : d # active => dirty'[d] = dirty[d] /\ text'[d] = text[d]
    BY <2>1 DEF BundleType
  <2>5. text' \in [Documents -> Texts] /\ dirty' \in [Documents -> BOOLEAN]
    BY <2>1, <2>2 DEF BundleType, EditorType
  <2>6. QED
    BY <2>1, <2>3, <2>4, <2>5 DEF Undisturbed
<1>4. QED
  BY <1>1, <1>2, <1>3 DEF Edited

LEMMA FlushFacts ==
    ASSUME BundleType, EditorOK, Flush
    PROVE  text'[active] = editor /\ ~pending'
<1>1. CASE Unsynchronized
  BY <1>1 DEF Flush, FlushedText, BundleType
<1>2. CASE ~Unsynchronized
  BY <1>2 DEF Flush, FlushedText, Unsynchronized, EditorOK
<1>3. QED
  BY <1>1, <1>2

LEMMA CleanKeeps ==
    ASSUME BundleType, EditorType, CleanOK, SavesGrow, Edited, documents' \subseteq documents
    PROVE  CleanOK'
<1> SUFFICES ASSUME NEW d \in documents', ~dirty'[d]
             PROVE  Safe(d)'
  BY DEF CleanOK
<1>1. d \in documents /\ d \in Documents
  BY DEF BundleType
<1>2. ~dirty[d] /\ text'[d] = text[d]
  BY <1>1, EditedFacts
<1>3. QED
  BY <1>1, <1>2, SafeKeeps DEF CleanOK

LEMMA AsksKeeps ==
    ASSUME SavesGrow, Undisturbed, documents' \subseteq documents, NEW f, Asks(f)
    PROVE  f.kind = "choice" => ~pending' /\ \A d \in documents' \ f.docs : Safe(d)'
<1> SUFFICES ASSUME f.kind = "choice"
             PROVE  ~pending' /\ \A d \in documents' \ f.docs : Safe(d)'
  OBVIOUS
<1>1. ~pending' /\ text' = text
  BY DEF Asks, Undisturbed
<1>2. QED
  BY <1>1, SafeKeeps DEF Asks

LEMMA ClosedKeeps ==
    ASSUME ClosedOK, SavesGrow, Undisturbed, documents' \subseteq documents,
           UNCHANGED <<closing, discarded>>
    PROVE  ClosedOK'
<1> SUFFICES ASSUME closing
             PROVE  ~pending' /\ \A d \in documents' \ discarded' : Safe(d)'
  BY DEF ClosedOK
<1>1. ~pending' /\ text' = text
  BY DEF ClosedOK, Undisturbed
<1>2. QED
  BY <1>1, SafeKeeps DEF ClosedOK

(* A dialog that was open and still is keeps its promises.                   *)
LEMMA DialogsKeep ==
    ASSUME DialogsOK, ChoiceOK, SavesGrow, Undisturbed, UNCHANGED documents,
           dialogs' \in Seq(Dialog),
           \A i \in DOMAIN dialogs' :
              \/ i \in DOMAIN dialogs /\ dialogs'[i] = dialogs[i]
              \/ FrameOK(dialogs[i], i)' /\ Asks(dialogs[i])'
    PROVE  DialogsOK' /\ ChoiceOK'
<1>1. ASSUME NEW i \in DOMAIN dialogs' PROVE FrameOK(dialogs[i], i)' /\ Asks(dialogs[i])'
  <2>1. CASE i \in DOMAIN dialogs /\ dialogs'[i] = dialogs[i]
    <3>1. FrameOK(dialogs[i], i) /\ Asks(dialogs[i])
      BY <2>1 DEF DialogsOK, ChoiceOK
    <3>2. FrameOK(dialogs[i], i)'
      BY <2>1, <3>1 DEF FrameOK, SavesGrow
    <3>3. Asks(dialogs[i])'
      BY <2>1, <3>1, AsksKeeps DEF Asks
    <3>4. QED
      BY <3>2, <3>3
  <2>2. QED
    BY <1>1, <2>1
<1>2. QED
  BY <1>1 DEF DialogsOK, ChoiceOK

LEMMA DialogsStay ==
    ASSUME DialogsOK, ChoiceOK, SavesGrow, Undisturbed, UNCHANGED <<documents, dialogs>>
    PROVE  DialogsOK' /\ ChoiceOK'
<1>1. dialogs' \in Seq(Dialog)
  BY DEF DialogsOK
<1>2. QED
  BY <1>1, DialogsKeep

LEMMA DialogsPopped ==
    ASSUME DialogsOK, ChoiceOK, SavesGrow, Undisturbed, UNCHANGED documents,
           dialogs # <<>>, dialogs' = Popped
    PROVE  DialogsOK' /\ ChoiceOK'
<1>1. /\ dialogs' \in Seq(Dialog) /\ DOMAIN dialogs' \subseteq DOMAIN dialogs
      /\ \A i \in DOMAIN dialogs' : dialogs'[i] = dialogs[i]
  BY PoppedFacts DEF DialogsOK
<1>2. QED
  BY <1>1, DialogsKeep

LEMMA DialogsPushed ==
    ASSUME DialogsOK, ChoiceOK, SavesGrow, Undisturbed, UNCHANGED documents,
           NEW f \in Dialog, dialogs' = Pushed(f),
           ASSUME NEW i \in DOMAIN dialogs', i = Len(dialogs) + 1, dialogs'[i] = f
           PROVE  FrameOK(dialogs[i], i)' /\ Asks(dialogs[i])'
    PROVE  DialogsOK' /\ ChoiceOK'
<1>1. /\ dialogs' \in Seq(Dialog) /\ DOMAIN dialogs' = DOMAIN dialogs \cup {Len(dialogs) + 1}
      /\ \A i \in DOMAIN dialogs : dialogs'[i] = dialogs[i]
      /\ dialogs'[Len(dialogs) + 1] = f
  BY PushedFacts DEF DialogsOK
<1>2. QED
  BY <1>1, DialogsKeep

LEMMA DialogsExchanged ==
    ASSUME DialogsOK, ChoiceOK, SavesGrow, Undisturbed, UNCHANGED documents,
           NEW f \in Dialog, dialogs # <<>>, dialogs' = Exchanged(f),
           ASSUME NEW i \in DOMAIN dialogs', i = Len(dialogs), dialogs'[i] = f
           PROVE  FrameOK(dialogs[i], i)' /\ Asks(dialogs[i])'
    PROVE  DialogsOK' /\ ChoiceOK'
<1>1. /\ dialogs' \in Seq(Dialog) /\ DOMAIN dialogs' = DOMAIN dialogs
      /\ \A i \in DOMAIN dialogs : dialogs'[i] = IF i = Len(dialogs) THEN f ELSE dialogs[i]
  BY ExchangedFacts DEF DialogsOK
<1>2. QED
  BY <1>1, DialogsKeep

(* The count does not grow and no callback is lost.                          *)
LEMMA CountKeeps ==
    ASSUME PendingHasAnEnd, CloseType, SavesType', Due \subseteq Due', UNCHANGED closePending
    PROVE  PendingHasAnEnd'
<1>0. saves' \in Seq(Save) /\ Due' \in SUBSET DOMAIN saves'
  BY DEF SavesType, Due
<1>1. IsFiniteSet(Due')
  BY <1>0, SavesFacts, FS_Subset
<1>2. /\ Cardinality(Due) <= Cardinality(Due')
      /\ Cardinality(Due) \in Nat /\ Cardinality(Due') \in Nat
  BY <1>1, FS_Subset, FS_CardinalityType
<1>3. closePending <= Cardinality(Due)
  BY DEF PendingHasAnEnd, Due
<1>4. closePending' <= Cardinality(Due')
  <2> DEFINE old == Cardinality(Due)
             new == Cardinality(Due')
  <2>1. closePending \in Nat /\ old \in Nat /\ new \in Nat /\ closePending <= old /\ old <= new
    BY <1>2, <1>3 DEF CloseType
  <2> HIDE DEF old, new
  <2>2. closePending' <= new
    BY <2>1, SMT
  <2>3. QED
    BY <2>2 DEF new
<1>5. QED
  BY <1>4 DEF PendingHasAnEnd, Due
-----------------------------------------------------------------------------
(* What the steps do to the saves.                                           *)

Stages == {"queued", "writing", "guarded", "replaced", "done", "failed"}

LEMMA SameLength ==
    ASSUME NEW list \in Seq(Save), NEW new \in [DOMAIN list -> Save]
    PROVE  new \in Seq(Save) /\ DOMAIN new = DOMAIN list /\ Len(new) = Len(list)
<1>1. DOMAIN list = 1 .. Len(list) /\ Len(list) \in Nat
  BY SavesFacts
<1>2. new \in [1 .. Len(list) -> Save]
  BY <1>1
<1>3. new \in Seq(Save)
  BY <1>1, <1>2, SeqDef
<1>4. QED
  BY <1>1, <1>2, <1>3, SMT

LEMMA SavesStay ==
    ASSUME SavesType, UNCHANGED <<saves, signals>>
    PROVE  SavesGrow /\ Due \subseteq Due'
BY DEF SavesType, SavesGrow, Due, Ended

(* A save that starts is the last of the list.                               *)
LEMMA StartGrows ==
    ASSUME BundleType, SavesType, NEW d \in Documents, NEW t \in Texts,
           saves' = Started(d, t), UNCHANGED signals
    PROVE  /\ SavesGrow /\ Due \subseteq Due'
           /\ Len(saves) + 1 \in DOMAIN saves'
<1> DEFINE save == [doc |-> d, text |-> t, origin |-> linked[d], stage |-> "queued", close |-> FALSE]
<1>1. save \in Save
  BY DEF BundleType, Save
<1>2. saves' = Append(saves, save) /\ saves \in Seq(Save)
  BY DEF Started, SavesType
<1> HIDE DEF save
<1>3. /\ saves' \in Seq(Save) /\ Len(saves') = Len(saves) + 1
      /\ \A k \in 1 .. Len(saves) : saves'[k] = saves[k]
  BY <1>1, <1>2, AppendProperties
<1>4. /\ DOMAIN saves = 1 .. Len(saves) /\ Len(saves) \in Nat
      /\ DOMAIN saves' = 1 .. Len(saves')
  BY <1>2, <1>3, SavesFacts
<1>5. /\ DOMAIN saves \subseteq DOMAIN saves' /\ Len(saves) + 1 \in DOMAIN saves'
      /\ \A k \in DOMAIN saves : saves'[k] = saves[k]
  BY <1>3, <1>4, SMT
<1>6. SavesGrow
  BY <1>3, <1>5 DEF SavesGrow, SavesType
<1>7. Due \subseteq Due'
  BY <1>5 DEF Due, Ended
<1>8. QED
  BY <1>5, <1>6, <1>7

(* A save enters its next stage; a save that ends tells the close that       *)
(* waits for it.                                                             *)
LEMMA StageFacts ==
    ASSUME SavesType, NEW k \in DOMAIN saves, NEW s \in Stages,
           saves' = [saves EXCEPT ![k].stage = s]
    PROVE  /\ saves' \in Seq(Save) /\ DOMAIN saves' = DOMAIN saves
           /\ saves'[k] = [saves[k] EXCEPT !.stage = s]
           /\ \A j \in DOMAIN saves : j # k => saves'[j] = saves[j]
<1>1. saves \in Seq(Save) /\ saves[k] \in Save
  BY SavesFacts DEF SavesType
<1>2. [saves[k] EXCEPT !.stage = s] \in Save
  BY <1>1 DEF Save, Stages
<1>3. \A j \in DOMAIN saves : saves[j] \in Save
  BY <1>1, SavesFacts
<1>4. saves' \in [DOMAIN saves -> Save]
  BY <1>1, <1>2, <1>3, SMT
<1>5. saves' \in Seq(Save) /\ DOMAIN saves' = DOMAIN saves
  BY <1>1, <1>4, SameLength
<1>6. QED
  BY <1>5

LEMMA StageGrows ==
    ASSUME SavesType, NEW k \in DOMAIN saves, ~Ended(k), NEW s \in Stages,
           saves' = [saves EXCEPT ![k].stage = s],
           \/ UNCHANGED signals /\ s \notin {"done", "failed"}
           \/ signals' = IF saves[k].close THEN signals \cup {k} ELSE signals
    PROVE  SavesGrow /\ Due \subseteq Due'
<1>1. /\ saves' \in Seq(Save) /\ DOMAIN saves' = DOMAIN saves
      /\ saves'[k] = [saves[k] EXCEPT !.stage = s]
      /\ \A j \in DOMAIN saves : j # k => saves'[j] = saves[j]
      /\ saves[k] \in Save
  BY StageFacts, SavesFacts DEF SavesType
<1>2. /\ saves'[k].doc = saves[k].doc /\ saves'[k].text = saves[k].text
      /\ saves'[k].close = saves[k].close /\ saves'[k].stage = s /\ saves[k].stage # "done"
  BY <1>1 DEF Save, Ended
<1>3. signals \subseteq signals' /\ signals' \subseteq DOMAIN saves
  BY DEF SavesType
<1>4. SavesGrow
  BY <1>1, <1>2, <1>3 DEF SavesGrow, SavesType
<1>5. ASSUME NEW j \in Due PROVE j \in Due'
  <2>1. CASE j # k
    BY <1>1, <1>3, <1>5, <2>1 DEF Due, Ended
  <2>2. CASE j = k
    <3>1. saves'[k].close /\ (~Ended(k)' \/ k \in signals')
      BY <1>2, <1>5, <2>2 DEF Due, Ended
    <3>2. QED
      BY <1>1, <2>2, <3>1 DEF Due
  <2>3. QED
    BY <2>1, <2>2
<1>6. QED
  BY <1>4, <1>5

(* The service ends the queued saves when it is closed, and tells the close  *)
(* that waits for them.                                                      *)
LEMMA ShutGrows ==
    ASSUME SavesType, Shut
    PROVE  SavesGrow /\ Due \subseteq Due'
<1>0. saves \in Seq(Save) /\ \A k \in DOMAIN saves : saves[k] \in Save
  BY SavesFacts DEF SavesType
<1>1. \A k \in DOMAIN saves : [saves[k] EXCEPT !.stage = "failed"] \in Save
  BY <1>0 DEF Save
<1>2. saves' \in [DOMAIN saves -> Save]
  BY <1>0, <1>1, Zenon DEF Shut
<1>3. saves' \in Seq(Save) /\ DOMAIN saves' = DOMAIN saves
  BY <1>0, <1>2, SameLength
<1>4. ASSUME NEW k \in DOMAIN saves
      PROVE  saves'[k] = IF k \in Queued THEN [saves[k] EXCEPT !.stage = "failed"] ELSE saves[k]
  BY Zenon DEF Shut
<1>5. ASSUME NEW k \in DOMAIN saves
      PROVE  /\ saves'[k].doc = saves[k].doc /\ saves'[k].text = saves[k].text
             /\ saves'[k].close = saves[k].close
             /\ saves'[k].stage = IF k \in Queued THEN "failed" ELSE saves[k].stage
             /\ k \in Queued <=> saves[k].stage = "queued"
  BY <1>0, <1>4 DEF Save, Queued
<1>6. signals \subseteq signals' /\ signals' \subseteq DOMAIN saves
  BY DEF Shut, SavesType, Queued
<1>7. SavesGrow
  BY <1>3, <1>5, <1>6 DEF SavesGrow, SavesType
<1>8. ASSUME NEW k \in Due PROVE k \in Due'
  <2>1. k \in DOMAIN saves /\ saves[k].close /\ (~Ended(k) \/ k \in signals)
    BY <1>8 DEF Due
  <2>2. CASE k \in Queued
    BY <1>3, <1>5, <2>1, <2>2 DEF Shut, Due
  <2>3. CASE k \notin Queued
    BY <1>3, <1>5, <1>6, <2>1, <2>3 DEF Due, Ended
  <2>4. QED
    BY <2>2, <2>3
<1>9. QED
  BY <1>7, <1>8
-----------------------------------------------------------------------------
(* The steps of the editor.                                                  *)

(* A step that leaves the close alone keeps the invariant when it keeps the  *)
(* parts named here.                                                         *)
LEMMA Whole ==
    ASSUME IInv, SavesGrow, Due \subseteq Due', Undisturbed, documents' \subseteq documents,
           UNCHANGED <<closePending, closing, discarded>>,
           BundleType', EditorType', CloseType', EditorOK', CleanOK', DialogsOK', ChoiceOK'
    PROVE  IInv'
<1>1. ClosedOK'
  BY ClosedKeeps DEF IInv
<1>2. PendingHasAnEnd' /\ SavesType'
  BY CountKeeps DEF IInv, Types, SavesGrow
<1>3. QED
  BY <1>1, <1>2 DEF IInv, Types

LEMMA CloseTypeStays ==
    ASSUME CloseType, UNCHANGED <<closeVars, closes, edits>>
    PROVE  CloseType'
BY Zenon DEF closeVars, CloseType

LEMMA TypeKeeps ==
    ASSUME IInv, NEW t \in Texts, Type(t)
    PROVE  IInv'
<1>1. /\ BundleType /\ EditorType /\ SavesType /\ CloseType /\ DialogsOK /\ CleanOK
      /\ PendingHasAnEnd
  BY DEF IInv, Types
<1>2. SavesGrow /\ Due \subseteq Due'
  BY <1>1, SavesStay DEF Type
<1>3. BundleType' /\ EditorType'
  BY <1>1 DEF Type, bundleVars, BundleType, EditorType
<1>4. CloseType'
  <2>1. edits \in Nat /\ edits' = edits + 1 /\ UNCHANGED <<closeVars, closes>>
    BY <1>1, Zenon DEF Type, CloseType
  <2>2. edits' \in Nat
    BY <2>1, SMT
  <2>3. QED
    BY <1>1, <2>1, <2>2, Zenon DEF closeVars, CloseType
<1>5. EditorOK'
  BY DEF Type, EditorOK
<1>6. CleanOK'
  <2>1. ASSUME NEW d \in documents', ~dirty'[d] PROVE Safe(d)'
    BY <1>1, <1>2, <2>1, SafeKeeps DEF Type, bundleVars, CleanOK
  <2>2. QED
    BY <2>1 DEF CleanOK
<1>7. DialogsOK' /\ ChoiceOK' /\ ClosedOK'
  <2>1. dialogs' = <<>> /\ ~closing'
    BY DEF Type, InWindow, closeVars
  <2>2. DOMAIN dialogs' = {} /\ dialogs' \in Seq(Dialog)
    BY <2>1, SMT
  <2>3. QED
    BY <2>1, <2>2 DEF DialogsOK, ChoiceOK, ClosedOK
<1>8. PendingHasAnEnd' /\ SavesType'
  BY <1>1, <1>2, CountKeeps DEF Type, closeVars, SavesGrow
<1>9. QED
  BY <1>3, <1>4, <1>5, <1>6, <1>7, <1>8 DEF IInv, Types

LEMMA SourceSyncTimerKeeps ==
    ASSUME IInv, SourceSyncTimer
    PROVE  IInv'
<1>1. BundleType /\ EditorType /\ SavesType /\ CloseType /\ DialogsOK /\ ChoiceOK /\ CleanOK /\ EditorOK
  BY DEF IInv, Types
<1>2. Edited /\ UNCHANGED <<documents, active, editor, linked, disk, dialogs>>
  BY DEF SourceSyncTimer, Edited
<1>3. SavesGrow /\ Due \subseteq Due'
  BY <1>1, SavesStay DEF SourceSyncTimer
<1>4. Undisturbed /\ BundleType' /\ EditorType'
  BY <1>1, <1>2, EditedFacts DEF BundleType, EditorType
<1>5. CloseType'
  BY <1>1, CloseTypeStays DEF SourceSyncTimer
<1>6. EditorOK'
  BY <1>1, <1>2, FlushFacts DEF SourceSyncTimer, EditorOK
<1>7. CleanOK'
  BY <1>1, <1>2, <1>3, CleanKeeps
<1>8. DialogsOK' /\ ChoiceOK'
  BY <1>1, <1>2, <1>3, <1>4, DialogsStay
<1>9. UNCHANGED <<closePending, closing, discarded>>
  BY DEF SourceSyncTimer, closeVars
<1>10. QED
  BY <1>2, <1>3, <1>4, <1>5, <1>6, <1>7, <1>8, <1>9, Whole

LEMMA SelectDocumentKeeps ==
    ASSUME IInv, NEW d \in Documents, SelectDocument(d)
    PROVE  IInv'
<1>1. BundleType /\ EditorType /\ SavesType /\ CloseType /\ DialogsOK /\ ChoiceOK /\ CleanOK /\ EditorOK
  BY DEF IInv, Types
<1>2. Edited /\ UNCHANGED <<documents, linked, disk, dialogs>>
  BY DEF SelectDocument, Edited
<1>3. SavesGrow /\ Due \subseteq Due'
  BY <1>1, SavesStay DEF SelectDocument
<1>4. Undisturbed /\ BundleType' /\ EditorType'
  BY <1>1, <1>2, EditedFacts DEF SelectDocument, BundleType, EditorType
<1>5. CloseType'
  BY <1>1, CloseTypeStays DEF SelectDocument
<1>6. EditorOK'
  BY <1>1 DEF SelectDocument, EditorOK, BundleType, Flush, FlushedText
<1>7. CleanOK'
  BY <1>1, <1>2, <1>3, CleanKeeps
<1>8. DialogsOK' /\ ChoiceOK'
  BY <1>1, <1>2, <1>3, <1>4, DialogsStay
<1>9. UNCHANGED <<closePending, closing, discarded>>
  BY DEF SelectDocument, closeVars
<1>10. QED
  BY <1>2, <1>3, <1>4, <1>5, <1>6, <1>7, <1>8, <1>9, Whole

(* A file dialog opens for one document.                                     *)
LEMMA SaveSourceKeeps ==
    ASSUME IInv, SaveSource
    PROVE  IInv'
<1>1. BundleType /\ EditorType /\ SavesType /\ CloseType /\ DialogsOK /\ ChoiceOK /\ CleanOK /\ EditorOK
  BY DEF IInv, Types
<1>2. Edited /\ UNCHANGED <<documents, active, editor, linked, disk, signals>>
  BY DEF SaveSource, Edited
<1>3. Undisturbed /\ BundleType' /\ EditorType' /\ text'[active] \in Texts
  BY <1>1, <1>2, EditedFacts DEF BundleType, EditorType
<1>4. SavesGrow /\ Due \subseteq Due'
  <2>1. CASE saves' = saves
    BY <1>1, <1>2, <2>1, SavesStay
  <2>2. CASE saves' = Started(active, FlushedText[active])
    <3>1. FlushedText[active] \in Texts /\ active \in Documents
      BY <1>1, <1>3 DEF SaveSource, Flush, BundleType
    <3>2. QED
      BY <1>1, <1>2, <2>2, <3>1, StartGrows
  <2>3. QED
    BY <2>1, <2>2 DEF SaveSource
<1>5. CloseType'
  BY <1>1, CloseTypeStays DEF SaveSource
<1>6. EditorOK'
  BY <1>1, <1>2, FlushFacts DEF SaveSource, EditorOK
<1>7. CleanOK'
  BY <1>1, <1>2, <1>4, CleanKeeps
<1>8. DialogsOK' /\ ChoiceOK'
  <2>1. CASE dialogs' = dialogs
    BY <1>1, <1>2, <1>3, <1>4, <2>1, DialogsStay
  <2>2. CASE dialogs' = Pushed(Frame("destination", {active}, {}))
    <3> DEFINE f == Frame("destination", {active}, {})
    <3>1. f \in Dialog /\ f.kind = "destination" /\ f.futures = {} /\ f.docs = {active}
      BY <1>1 DEF Frame, Dialog, BundleType
    <3>2. dialogs' = Pushed(f)
      BY <2>2
    <3> HIDE DEF f
    <3>3. ASSUME NEW i \in DOMAIN dialogs', i = Len(dialogs) + 1, dialogs'[i] = f
          PROVE  FrameOK(dialogs[i], i)' /\ Asks(dialogs[i])'
      BY <1>1, <3>1, <3>3 DEF FrameOK, Asks, BundleType
    <3>4. QED
      BY <1>1, <1>2, <1>3, <1>4, <3>1, <3>2, <3>3, DialogsPushed
  <2>3. QED
    BY <2>1, <2>2 DEF SaveSource
<1>9. UNCHANGED <<closePending, closing, discarded>>
  BY DEF SaveSource, closeVars
<1>10. QED
  BY <1>2, <1>3, <1>4, <1>5, <1>6, <1>7, <1>8, <1>9, Whole
-----------------------------------------------------------------------------
(* The saves and their threads.                                              *)

LEMMA DocumentsAreNumbers == Documents \subseteq Nat
BY CloseAssumption

(* The innermost dialog, of a kind.                                          *)
LEMMA AskedFacts ==
    ASSUME DialogsOK, NEW k, Asked(k)
    PROVE  /\ dialogs # <<>> /\ Len(dialogs) \in DOMAIN dialogs
           /\ Top \in Dialog /\ Top.kind = k /\ FrameOK(Top, Len(dialogs))
           /\ Top.docs # {} => First(Top.docs) \in Top.docs /\ First(Top.docs) \in Documents
<1>1. /\ dialogs # <<>> /\ Len(dialogs) \in DOMAIN dialogs
      /\ Top \in Dialog /\ Top.kind = k
  BY PoppedFacts DEF DialogsOK, Asked
<1>2. FrameOK(Top, Len(dialogs))
  BY <1>1 DEF DialogsOK, Top
<1>3. Top.docs \in SUBSET Nat /\ Top.docs \subseteq Documents
  BY <1>1, DocumentsAreNumbers DEF Dialog
<1>4. QED
  BY <1>1, <1>2, <1>3, FirstIsIn

LEMMA AnswerDestinationKeeps ==
    ASSUME IInv, AnswerDestination
    PROVE  IInv'
<1>1. BundleType /\ EditorType /\ SavesType /\ CloseType /\ DialogsOK /\ ChoiceOK /\ CleanOK /\ EditorOK
  BY DEF IInv, Types
<1>2. UNCHANGED <<text, dirty, pending, documents, active, editor, linked, disk, signals>>
  BY DEF AnswerDestination, bundleVars, editorVars
<1>3. Edited /\ Undisturbed /\ BundleType' /\ EditorType'
  BY <1>1, <1>2 DEF Edited, Undisturbed, BundleType, EditorType
<1>4. dialogs # <<>> /\ First(Top.docs) \in Documents
  <2>1. Top.docs # {}
    BY <1>1, AskedFacts DEF AnswerDestination, FrameOK
  <2>2. QED
    BY <1>1, <2>1, AskedFacts DEF AnswerDestination
<1>5. SavesGrow /\ Due \subseteq Due'
  <2>1. CASE saves' = saves
    BY <1>1, <1>2, <2>1, SavesStay
  <2>2. CASE saves' = Started(First(Top.docs), text[First(Top.docs)])
    <3>1. text[First(Top.docs)] \in Texts
      BY <1>1, <1>4 DEF BundleType
    <3>2. QED
      BY <1>1, <1>2, <1>4, <2>2, <3>1, StartGrows
  <2>3. QED
    BY <2>1, <2>2 DEF AnswerDestination
<1>6. CloseType'
  BY <1>1, CloseTypeStays DEF AnswerDestination
<1>7. EditorOK'
  BY <1>1, <1>2 DEF EditorOK
<1>8. CleanOK'
  BY <1>1, <1>2, <1>3, <1>5, CleanKeeps
<1>9. DialogsOK' /\ ChoiceOK'
  BY <1>1, <1>2, <1>3, <1>4, <1>5, DialogsPopped DEF AnswerDestination
<1>10. UNCHANGED <<closePending, closing, discarded>>
  BY DEF AnswerDestination, closeVars
<1>11. QED
  BY <1>2, <1>3, <1>5, <1>6, <1>7, <1>8, <1>9, <1>10, Whole

(* A step of a thread that leaves the texts and the marks alone.             *)
LEMMA ThreadKeeps ==
    ASSUME IInv, SavesGrow, Due \subseteq Due', disk' \in [Documents -> Texts],
           UNCHANGED <<documents, text, dirty, linked, active, editorVars, dialogs, closeVars, edits, closes>>
    PROVE  IInv'
<1>1. BundleType /\ EditorType /\ SavesType /\ CloseType /\ DialogsOK /\ ChoiceOK /\ CleanOK /\ EditorOK
  BY DEF IInv, Types
<1>2. UNCHANGED <<text, dirty, pending, documents, active, editor, linked>>
  BY DEF editorVars
<1>3. Edited /\ Undisturbed /\ BundleType' /\ EditorType'
  BY <1>1, <1>2 DEF Edited, Undisturbed, BundleType, EditorType
<1>4. CloseType'
  BY <1>1, CloseTypeStays
<1>5. EditorOK'
  BY <1>1, <1>2 DEF EditorOK
<1>6. CleanOK'
  BY <1>1, <1>2, <1>3, CleanKeeps
<1>7. DialogsOK' /\ ChoiceOK'
  BY <1>1, <1>2, <1>3, DialogsStay
<1>8. UNCHANGED <<closePending, closing, discarded>>
  BY DEF closeVars
<1>9. QED
  BY <1>2, <1>3, <1>4, <1>5, <1>6, <1>7, <1>8, Whole

LEMMA DiskStays ==
    ASSUME BundleType, UNCHANGED bundleVars
    PROVE  disk' \in [Documents -> Texts] /\ UNCHANGED <<documents, text, dirty, linked, active>>
BY DEF BundleType, bundleVars

LEMMA StartWriteKeeps ==
    ASSUME IInv, StartWrite
    PROVE  IInv'
<1>1. BundleType /\ SavesType /\ DOMAIN saves \subseteq Nat
  BY SavesFacts DEF IInv, Types, SavesType
<1> DEFINE k == First(Queued)
<1>2. k \in DOMAIN saves /\ ~Ended(k) /\ "writing" \in Stages
  <2>1. Queued \in SUBSET Nat /\ Queued # {}
    BY <1>1 DEF Queued, StartWrite
  <2>2. k \in Queued
    BY <2>1, FirstIsIn
  <2>3. QED
    BY <2>2 DEF Queued, Ended, Stages
<1>3. saves' = [saves EXCEPT ![k].stage = "writing"] /\ UNCHANGED signals
  BY DEF StartWrite
<1> HIDE DEF k
<1>4. SavesGrow /\ Due \subseteq Due'
  BY <1>1, <1>2, <1>3, StageGrows
<1>5. QED
  BY <1>1, <1>4, DiskStays, ThreadKeeps DEF StartWrite

LEMMA ResolveGrows ==
    ASSUME SavesType, NEW k \in DOMAIN saves, ~Ended(k), NEW s \in {"done", "failed"}, Resolve(k, s)
    PROVE  SavesGrow /\ Due \subseteq Due'
<1>1. s \in Stages
  BY DEF Stages
<1>2. QED
  BY <1>1, StageGrows DEF Resolve

LEMMA CheckGuardKeeps ==
    ASSUME IInv, NEW k \in DOMAIN saves, CheckGuard(k)
    PROVE  IInv'
<1>1. BundleType /\ SavesType
  BY DEF IInv, Types
<1>2. ~Ended(k) /\ "guarded" \in Stages
  BY DEF CheckGuard, Ended, Stages
<1>3. SavesGrow /\ Due \subseteq Due'
  BY <1>1, <1>2, StageGrows, ResolveGrows DEF CheckGuard
<1>4. QED
  BY <1>1, <1>3, DiskStays, ThreadKeeps DEF CheckGuard

LEMMA WriteFailsKeeps ==
    ASSUME IInv, NEW k \in DOMAIN saves, WriteFails(k)
    PROVE  IInv'
<1>1. BundleType /\ SavesType
  BY DEF IInv, Types
<1>2. ~Ended(k)
  BY DEF WriteFails, Ended
<1>3. SavesGrow /\ Due \subseteq Due'
  BY <1>1, <1>2, ResolveGrows DEF WriteFails
<1>4. QED
  BY <1>1, <1>3, DiskStays, ThreadKeeps DEF WriteFails

LEMMA ReplaceFileKeeps ==
    ASSUME IInv, NEW k \in DOMAIN saves, ReplaceFile(k)
    PROVE  IInv'
<1>1. BundleType /\ SavesType /\ saves[k] \in Save
  BY SavesFacts DEF IInv, Types, SavesType
<1>2. ~Ended(k) /\ "replaced" \in Stages /\ saves' = [saves EXCEPT ![k].stage = "replaced"]
      /\ UNCHANGED signals
  BY DEF ReplaceFile, Ended, Stages
<1>3. SavesGrow /\ Due \subseteq Due'
  BY <1>1, <1>2, StageGrows
<1>4. disk' \in [Documents -> Texts]
  BY <1>1 DEF ReplaceFile, BundleType, Save
<1>5. QED
  BY <1>3, <1>4, ThreadKeeps DEF ReplaceFile

(* A document is clean after a save only when its text is the one the save   *)
(* has written.                                                              *)
LEMMA FinishSaveKeeps ==
    ASSUME IInv, NEW k \in DOMAIN saves, FinishSave(k)
    PROVE  IInv'
<1> DEFINE d == saves[k].doc
<1>1. BundleType /\ EditorType /\ SavesType /\ CloseType /\ DialogsOK /\ ChoiceOK /\ CleanOK /\ EditorOK
      /\ saves[k] \in Save
  BY SavesFacts DEF IInv, Types, SavesType
<1>2. ~Ended(k) /\ UNCHANGED <<documents, text, disk, active, editorVars, dialogs, closeVars, edits, closes>>
  BY DEF FinishSave, Ended
<1>3. CASE d \notin documents
  <2>1. Resolve(k, "failed") /\ UNCHANGED <<dirty, linked>>
    BY <1>3 DEF FinishSave
  <2>2. SavesGrow /\ Due \subseteq Due'
    BY <1>1, <1>2, <2>1, ResolveGrows
  <2>3. QED
    BY <1>1, <1>2, <2>1, <2>2, ThreadKeeps DEF BundleType
<1>4. CASE d \in documents
  <2>1. /\ Resolve(k, "done") /\ dirty' = [dirty EXCEPT ![d] = (text[d] # saves[k].text)]
        /\ linked' = [linked EXCEPT ![d] = TRUE]
    BY <1>4 DEF FinishSave
  <2>2. SavesGrow /\ Due \subseteq Due'
    BY <1>1, <1>2, <2>1, ResolveGrows
  <2>3. d \in Documents
    BY <1>1 DEF Save
  <2>4. Undisturbed /\ UNCHANGED <<closePending, closing, discarded>>
    BY <1>2 DEF Undisturbed, editorVars, closeVars
  <2>5. dirty' \in [Documents -> BOOLEAN]
    <3>1. (text[d] # saves[k].text) \in BOOLEAN
      OBVIOUS
    <3>2. QED
      BY <1>1, <2>1, <2>3, <3>1, Zenon DEF BundleType
  <2>6. BundleType' /\ EditorType'
    BY <1>1, <1>2, <2>1, <2>3, <2>5 DEF BundleType, EditorType, editorVars
  <2>7. CloseType' /\ EditorOK'
    BY <1>1, <1>2, CloseTypeStays DEF EditorOK, editorVars
  <2>8. DialogsOK' /\ ChoiceOK'
    BY <1>1, <1>2, <2>2, <2>4, DialogsStay
  <2>9. CleanOK'
    <3>1. ASSUME NEW e \in documents, ~dirty'[e] PROVE Safe(e)'
      <4>1. e \in Documents /\ text'[e] = text[e]
        BY <1>1, <1>2 DEF BundleType
      <4>2. CASE e # d
        <5>1. ~dirty[e]
          BY <1>1, <2>1, <3>1, <4>1, <4>2 DEF BundleType
        <5>2. QED
          BY <1>1, <2>2, <4>1, <5>1, SafeKeeps DEF CleanOK
      <4>3. CASE e = d
        <5>1. text[d] = saves[k].text
          BY <1>1, <2>1, <2>3, <3>1, <4>3 DEF BundleType
        <5>2. saves'[k].stage = "done"
          BY <1>1, <2>1 DEF Resolve, Save
        <5>3. k \in DOMAIN saves' /\ saves'[k].doc = d /\ saves'[k].text = saves[k].text
          BY <2>2 DEF SavesGrow
        <5>4. QED
          BY <4>1, <4>3, <5>1, <5>2, <5>3 DEF Safe, Captured
      <4>4. QED
        BY <4>2, <4>3
    <3>2. QED
      BY <1>2, <3>1 DEF CleanOK
  <2>10. QED
    BY <1>2, <2>2, <2>4, <2>6, <2>7, <2>8, <2>9, Whole
<1>5. QED
  BY <1>3, <1>4
-----------------------------------------------------------------------------
(* Removing a document.                                                      *)

(* The document shown instead is another one of the bundle.                  *)
LEMMA NeighbourIsIn ==
    ASSUME BundleType, NEW d \in Documents, documents \ {d} # {}
    PROVE  Neighbour(d) \in documents \ {d}
<1> DEFINE after  == {e \in documents : e > d}
           others == documents \ {d}
<1>1. documents \subseteq Nat /\ IsFiniteSet(documents) /\ d \in Nat
  BY CloseAssumption, FS_Subset DEF BundleType
<1>2. CASE after # {}
  <2>1. First(after) \in after
    BY <1>1, <1>2, FirstIsIn
  <2>2. First(after) # d /\ First(after) \in documents
    BY <1>1, <2>1, SMT
  <2>3. QED
    BY <1>2, <2>2 DEF Neighbour
<1>3. CASE after = {}
  <2>1. others \in SUBSET Nat /\ IsFiniteSet(others) /\ others # {}
    BY <1>1, FS_Subset
  <2>2. \E e \in others : \A f \in others : f <= e
    <3> HIDE DEF others
    <3>1. QED
      BY <2>1, LastIsIn
  <2>3. QED
    BY <1>3, <2>2, Zenon DEF Neighbour
<1>4. QED
  BY <1>2, <1>3

LEMMA RemoveTypes ==
    ASSUME BundleType, NEW d \in Documents, NEW texts \in [Documents -> Texts], documents \ {d} # {},
           RemoveEffect(d, texts)
    PROVE  /\ documents' \subseteq documents /\ active' \in documents' /\ editor' \in Texts
           /\ editor' = texts[active']
<1>1. Neighbour(d) \in documents \ {d}
  BY NeighbourIsIn
<1>2. active' \in documents \ {d} /\ documents' = documents \ {d}
  BY <1>1 DEF RemoveEffect, BundleType
<1>3. QED
  BY <1>2 DEF RemoveEffect, BundleType

LEMMA NoDialogs ==
    ASSUME dialogs' \in Seq(Dialog), DOMAIN dialogs' = {}
    PROVE  DialogsOK' /\ ChoiceOK'
BY DEF DialogsOK, ChoiceOK

LEMMA RemoveDocumentKeeps ==
    ASSUME IInv, RemoveDocument
    PROVE  IInv'
<1>1. BundleType /\ EditorType /\ SavesType /\ CloseType /\ DialogsOK /\ ChoiceOK /\ CleanOK /\ EditorOK
  BY DEF IInv, Types
<1>2. Edited /\ Flush /\ UNCHANGED <<linked, disk, saves, signals>>
  BY DEF RemoveDocument, Edited
<1>3. /\ text' \in [Documents -> Texts] /\ dirty' \in [Documents -> BOOLEAN]
      /\ pending' \in BOOLEAN /\ Undisturbed /\ ~pending'
  BY <1>1, <1>2, EditedFacts, FlushFacts
<1>4. SavesGrow /\ Due \subseteq Due'
  BY <1>1, <1>2, SavesStay
<1>5. dialogs = <<>> /\ Len(dialogs) = 0 /\ DOMAIN dialogs = {}
  BY SMT DEF RemoveDocument, InWindow
<1>6. documents \ {active} # {}
  <2>1. SUFFICES ASSUME documents = {active} PROVE FALSE
    BY <1>1 DEF BundleType
  <2>2. Cardinality(documents) = 1
    BY <2>1, FS_Singleton
  <2>3. QED
    BY <2>2, SMT DEF RemoveDocument
<1>7. CloseType' /\ UNCHANGED <<closePending, closing, discarded>>
  BY <1>1, CloseTypeStays DEF RemoveDocument, closeVars
<1>8. CASE FlushedDirty[active] /\ dialogs' = Pushed(Frame("remove", {active}, {}))
           /\ UNCHANGED <<documents, active, editor>>
  <2> DEFINE f == Frame("remove", {active}, {})
  <2>1. f \in Dialog /\ f.kind = "remove" /\ f.futures = {} /\ f.docs = {active}
    BY <1>1 DEF Frame, Dialog, BundleType
  <2>2. dialogs' = Pushed(f)
    BY <1>8
  <2> HIDE DEF f
  <2>3. ASSUME NEW i \in DOMAIN dialogs', i = Len(dialogs) + 1, dialogs'[i] = f
        PROVE  FrameOK(dialogs[i], i)' /\ Asks(dialogs[i])'
    <3>1. i = 1
      BY <1>5, <2>3
    <3>2. QED
      BY <1>1, <1>6, <1>8, <2>1, <2>3, <3>1 DEF FrameOK, Asks, BundleType
  <2>4. DialogsOK' /\ ChoiceOK'
    BY <1>1, <1>3, <1>4, <1>8, <2>1, <2>2, <2>3, DialogsPushed
  <2>5. BundleType' /\ EditorType'
    BY <1>1, <1>2, <1>3, <1>8 DEF BundleType, EditorType
  <2>6. EditorOK'
    BY <1>1, <1>2, <1>8, FlushFacts DEF EditorOK
  <2>7. CleanOK'
    BY <1>1, <1>2, <1>4, <1>8, CleanKeeps
  <2>8. QED
    BY <1>3, <1>4, <1>7, <1>8, <2>4, <2>5, <2>6, <2>7, Whole
<1>9. CASE RemoveEffect(active, FlushedText) /\ UNCHANGED dialogs
  <2>1. text' = FlushedText
    BY <1>2 DEF Flush
  <2>2. /\ documents' \subseteq documents /\ active' \in documents' /\ editor' \in Texts
        /\ editor' = FlushedText[active']
    BY <1>1, <1>3, <1>6, <1>9, <2>1, RemoveTypes DEF BundleType
  <2>3. BundleType' /\ EditorType' /\ EditorOK'
    BY <1>1, <1>2, <1>3, <2>1, <2>2 DEF BundleType, EditorType, EditorOK
  <2>4. CleanOK'
    BY <1>1, <1>2, <1>4, <2>2, CleanKeeps
  <2>5. DialogsOK' /\ ChoiceOK'
    BY <1>1, <1>5, <1>9, NoDialogs DEF DialogsOK
  <2>6. QED
    BY <1>3, <1>4, <1>7, <2>2, <2>3, <2>4, <2>5, Whole
<1>10. QED
  BY <1>8, <1>9 DEF RemoveDocument

LEMMA AnswerRemoveKeeps ==
    ASSUME IInv, AnswerRemove
    PROVE  IInv'
<1>1. BundleType /\ EditorType /\ SavesType /\ CloseType /\ DialogsOK /\ ChoiceOK /\ CleanOK /\ EditorOK
  BY DEF IInv, Types
<1>2. Edited /\ Undisturbed /\ UNCHANGED <<text, dirty, linked, disk, pending, saves, signals>>
  BY DEF AnswerRemove, Edited, Undisturbed
<1>3. SavesGrow /\ Due \subseteq Due'
  BY <1>1, <1>2, SavesStay
<1>4. /\ dialogs # <<>> /\ Top.kind = "remove" /\ FrameOK(Top, Len(dialogs))
      /\ Top.docs # {} => First(Top.docs) \in Top.docs
  BY <1>1, AskedFacts DEF AnswerRemove
<1>5. Len(dialogs) = 1 /\ documents \ Top.docs # {} /\ Top.docs = {First(Top.docs)}
  BY <1>4 DEF FrameOK
<1>6. DialogsOK' /\ ChoiceOK'
  <2>1. dialogs' \in Seq(Dialog) /\ Len(dialogs') = 0
    BY <1>1, <1>4, <1>5, PoppedFacts DEF AnswerRemove, DialogsOK
  <2>2. DOMAIN dialogs' = {}
    BY <2>1, SMT
  <2>3. QED
    BY <2>1, <2>2, NoDialogs
<1>7. CloseType' /\ UNCHANGED <<closePending, closing, discarded>>
  BY <1>1, CloseTypeStays DEF AnswerRemove, closeVars
<1>8. documents' \subseteq documents /\ active' \in documents' /\ editor' \in Texts /\ EditorOK'
  <2>1. CASE UNCHANGED <<documents, active, editor>>
    BY <1>1, <1>2, <2>1 DEF BundleType, EditorType, EditorOK
  <2>2. CASE RemoveEffect(First(Top.docs), text)
    <3>1. /\ text \in [Documents -> Texts] /\ documents \ {First(Top.docs)} # {}
          /\ First(Top.docs) \in Documents
      BY <1>1, <1>5, AskedFacts DEF BundleType, AnswerRemove
    <3>2. QED
      BY <1>1, <1>2, <2>2, <3>1, RemoveTypes DEF EditorOK
  <2>3. QED
    BY <2>1, <2>2 DEF AnswerRemove
<1>9. BundleType' /\ EditorType'
  BY <1>1, <1>2, <1>8 DEF BundleType, EditorType
<1>10. CleanOK'
  BY <1>1, <1>2, <1>3, <1>8, CleanKeeps
<1>11. QED
  BY <1>2, <1>3, <1>6, <1>7, <1>8, <1>9, <1>10, Whole
-----------------------------------------------------------------------------
(* Closing.                                                                  *)

(* The question is opened for the documents that are dirty once the editor   *)
(* is flushed; where there is none, every document is safe and the window    *)
(* goes.                                                                     *)
LEMMA CloseEventKeeps ==
    ASSUME IInv, CloseEvent, recloses' \in Nat, closes' \in Nat,
           UNCHANGED <<documents, linked, disk, active, editor, closePending, closeFailed, notice,
                       discarded, edits>>
    PROVE  IInv'
<1>1. /\ BundleType /\ EditorType /\ SavesType /\ CloseType /\ DialogsOK /\ ChoiceOK /\ CleanOK
      /\ EditorOK /\ ClosedOK /\ PendingHasAnEnd
  BY DEF IInv, Types
<1>2. Edited
  BY DEF CloseEvent, Edited
<1>3. Undisturbed /\ BundleType' /\ EditorType'
  BY <1>1, <1>2, EditedFacts DEF BundleType, EditorType
<1>4. EditorOK'
  BY <1>1, FlushFacts DEF CloseEvent, EditorOK
<1>5. CloseType'
  <2>1. closing' \in BOOLEAN
    BY <1>1, Zenon DEF CloseEvent, Shut, CloseType
  <2>2. QED
    BY <1>1, <2>1, Zenon DEF CloseType
<1>6. CASE UNCHANGED <<text, dirty, pending, saves, signals, dialogs, closing>>
  <2>1. SavesGrow /\ Due \subseteq Due'
    BY <1>1, <1>6, SavesStay
  <2>2. CleanOK' /\ DialogsOK' /\ ChoiceOK'
    BY <1>1, <1>2, <1>3, <1>6, <2>1, CleanKeeps, DialogsStay
  <2>3. QED
    BY <1>3, <1>4, <1>5, <1>6, <2>1, <2>2, Whole
<1> DEFINE unsaved == {d \in documents : FlushedDirty[d]}
           f       == Frame("choice", unsaved, {})
<1>7. CASE Flush /\ dialogs' = Pushed(f) /\ UNCHANGED <<saves, signals, closing>>
  <2>1. SavesGrow /\ Due \subseteq Due'
    BY <1>1, <1>7, SavesStay
  <2>2. CleanOK'
    BY <1>1, <1>2, <2>1, CleanKeeps
  <2>3. f \in Dialog /\ f.kind = "choice" /\ f.futures = {} /\ f.docs = {d \in documents : dirty'[d]}
    BY <1>1, <1>7 DEF Frame, Dialog, BundleType, Flush
  <2>4. dialogs' = Pushed(f)
    BY <1>7
  <2> HIDE DEF f
  <2>5. ASSUME NEW i \in DOMAIN dialogs', i = Len(dialogs) + 1, dialogs'[i] = f
        PROVE  FrameOK(dialogs[i], i)' /\ Asks(dialogs[i])'
    <3>1. FrameOK(dialogs[i], i)'
      BY <2>3, <2>5 DEF FrameOK
    <3>2. ~pending'
      BY <1>7 DEF Flush
    <3>3. \A d \in documents' \ f.docs : Safe(d)'
      BY <2>2, <2>3 DEF CleanOK
    <3>4. QED
      BY <2>5, <3>1, <3>2, <3>3 DEF Asks
  <2>6. DialogsOK' /\ ChoiceOK'
    BY <1>1, <1>3, <2>1, <2>3, <2>4, <2>5, DialogsPushed
  <2>7. QED
    BY <1>3, <1>4, <1>5, <1>7, <2>1, <2>2, <2>6, Whole
<1>8. CASE Flush /\ unsaved = {} /\ Shut /\ UNCHANGED dialogs
  <2>1. SavesGrow /\ Due \subseteq Due'
    BY <1>1, <1>8, ShutGrows
  <2>2. CleanOK' /\ DialogsOK' /\ ChoiceOK'
    BY <1>1, <1>2, <1>3, <1>8, <2>1, CleanKeeps, DialogsStay
  <2>3. ClosedOK'
    BY <1>8, <2>2 DEF ClosedOK, CleanOK, Flush
  <2>4. PendingHasAnEnd' /\ SavesType'
    BY <1>1, <2>1, CountKeeps DEF SavesGrow
  <2>5. QED
    BY <1>3, <1>4, <1>5, <2>2, <2>3, <2>4 DEF IInv, Types
<1>9. QED
  BY <1>6, <1>7, <1>8 DEF CloseEvent

LEMMA CloseWindowKeeps ==
    ASSUME IInv, CloseWindow
    PROVE  IInv'
<1>1. recloses \in Nat /\ closes \in Nat
  BY DEF IInv, Types, CloseType
<1>2. recloses' \in Nat /\ closes' \in Nat
  BY <1>1, SMT DEF CloseWindow
<1>3. QED
  BY <1>2, CloseEventKeeps DEF CloseWindow

LEMMA CloseAgainKeeps ==
    ASSUME IInv, CloseAgain
    PROVE  IInv'
<1>1. recloses \in Nat /\ closes \in Nat
  BY DEF IInv, Types, CloseType
<1>2. recloses' \in Nat /\ closes' \in Nat
  BY <1>1, SMT DEF CloseAgain
<1>3. QED
  BY <1>2, CloseEventKeeps DEF CloseAgain

(* A step of a dialog, which changes nothing of the bundle and the editor.   *)
LEMMA DialogKeeps ==
    ASSUME IInv, SavesGrow, Due \subseteq Due', UNCHANGED <<bundleVars, editorVars>>,
           UNCHANGED <<closePending, closing, discarded>>, CloseType', DialogsOK', ChoiceOK'
    PROVE  IInv'
<1>1. BundleType /\ EditorType /\ CleanOK /\ EditorOK
  BY DEF IInv, Types
<1>2. UNCHANGED <<documents, text, dirty, linked, disk, active, editor, pending>>
  BY DEF bundleVars, editorVars
<1>3. Edited /\ Undisturbed /\ BundleType' /\ EditorType' /\ EditorOK'
  BY <1>1, <1>2 DEF Edited, Undisturbed, BundleType, EditorType, EditorOK
<1>4. CleanOK'
  BY <1>1, <1>2, <1>3, CleanKeeps
<1>5. QED
  BY <1>2, <1>3, <1>4, Whole

(* What such a step may do to the dialogs.                                   *)
LEMMA DialogMoves ==
    ASSUME IInv, SavesGrow, UNCHANGED <<bundleVars, editorVars>>, dialogs # <<>>,
           \/ dialogs' = Popped
           \/ \E f \in Dialog : /\ dialogs' = Exchanged(f)
                                /\ f.kind \in {"saving", "asking"}
                                /\ f.futures \subseteq DOMAIN saves'
                                /\ f.kind = "asking" => f.docs # {}
    PROVE  DialogsOK' /\ ChoiceOK'
<1>1. BundleType /\ EditorType /\ DialogsOK /\ ChoiceOK
  BY DEF IInv, Types
<1>2. Undisturbed /\ UNCHANGED documents
  BY DEF Undisturbed, bundleVars, editorVars
<1>3. CASE dialogs' = Popped
  BY <1>1, <1>2, <1>3, DialogsPopped
<1>4. ASSUME NEW f \in Dialog, dialogs' = Exchanged(f), f.kind \in {"saving", "asking"},
             f.futures \subseteq DOMAIN saves', f.kind = "asking" => f.docs # {}
      PROVE  DialogsOK' /\ ChoiceOK'
  <2>1. ASSUME NEW i \in DOMAIN dialogs', i = Len(dialogs), dialogs'[i] = f
        PROVE  FrameOK(dialogs[i], i)' /\ Asks(dialogs[i])'
    BY <1>4, <2>1 DEF FrameOK, Asks
  <2>2. QED
    BY <1>1, <1>2, <1>4, <2>1, DialogsExchanged
<1>5. QED
  BY <1>3, <1>4

LEMMA AnswerCancelKeeps ==
    ASSUME IInv, AnswerCancel
    PROVE  IInv'
<1>1. SavesType /\ CloseType /\ dialogs # <<>>
  BY DEF IInv, Types, AnswerCancel, Asked
<1>2. SavesGrow /\ Due \subseteq Due'
  BY <1>1, SavesStay DEF AnswerCancel
<1>3. CloseType' /\ UNCHANGED <<closePending, closing, discarded>>
  BY <1>1, CloseTypeStays DEF AnswerCancel, closeVars
<1>4. DialogsOK' /\ ChoiceOK'
  BY <1>1, <1>2, DialogMoves DEF AnswerCancel
<1>5. QED
  BY <1>2, <1>3, <1>4, DialogKeeps DEF AnswerCancel

(* What is not in the question is safe, and what is in it is discarded.      *)
LEMMA AnswerDiscardKeeps ==
    ASSUME IInv, AnswerDiscard
    PROVE  IInv'
<1>1. /\ BundleType /\ EditorType /\ SavesType /\ CloseType /\ DialogsOK /\ ChoiceOK /\ CleanOK
      /\ EditorOK /\ PendingHasAnEnd
  BY DEF IInv, Types
<1>2. /\ Shut /\ dialogs' = Popped /\ discarded' = discarded \cup Top.docs
      /\ UNCHANGED <<documents, text, dirty, linked, disk, active, editor, pending>>
      /\ UNCHANGED <<closePending, closeFailed, recloses, notice, edits, closes>>
  BY DEF AnswerDiscard, bundleVars, editorVars
<1>3. Edited /\ Undisturbed /\ BundleType' /\ EditorType' /\ EditorOK'
  BY <1>1, <1>2 DEF Edited, Undisturbed, BundleType, EditorType, EditorOK
<1>4. SavesGrow /\ Due \subseteq Due'
  BY <1>1, <1>2, ShutGrows
<1>5. /\ dialogs # <<>> /\ Len(dialogs) \in DOMAIN dialogs /\ Top \in Dialog
      /\ Top.kind = "choice"
  BY <1>1, AskedFacts DEF AnswerDiscard
<1>6. CleanOK' /\ DialogsOK' /\ ChoiceOK'
  BY <1>1, <1>2, <1>3, <1>4, <1>5, CleanKeeps, DialogsPopped
<1>7. CloseType'
  <2>1. closing' \in BOOLEAN /\ discarded' \subseteq Documents
    BY <1>1, <1>2, <1>5 DEF Shut, CloseType, Dialog
  <2>2. QED
    BY <1>1, <1>2, <2>1, Zenon DEF CloseType
<1>8. ClosedOK'
  <2>1. ~pending /\ \A d \in documents \ Top.docs : Safe(d)
    BY <1>1, <1>5 DEF ChoiceOK, Asks, Top
  <2>2. ASSUME NEW d \in documents' \ discarded' PROVE Safe(d)'
    BY <1>2, <1>4, <2>1, SafeKeeps
  <2>3. QED
    BY <1>2, <2>1, <2>2 DEF ClosedOK
<1>9. PendingHasAnEnd' /\ SavesType'
  BY <1>1, <1>2, <1>4, CountKeeps DEF SavesGrow
<1>10. QED
  BY <1>3, <1>6, <1>7, <1>8, <1>9 DEF IInv, Types
LEMMA AnswerSaveKeeps ==
    ASSUME IInv, AnswerSave
    PROVE  IInv'
<1>1. SavesType /\ CloseType /\ DialogsOK
  BY DEF IInv, Types
<1>2. SavesGrow /\ Due \subseteq Due'
  BY <1>1, SavesStay DEF AnswerSave
<1>3. CloseType' /\ UNCHANGED <<closePending, closing, discarded>>
  BY <1>1, CloseTypeStays DEF AnswerSave, closeVars
<1> DEFINE f == Frame("saving", Top.docs, {})
<1>4. dialogs # <<>> /\ Top \in Dialog
  BY <1>1, AskedFacts DEF AnswerSave
<1>5. f \in Dialog /\ f.kind = "saving" /\ f.futures = {} /\ dialogs' = Exchanged(f)
  BY <1>4 DEF Frame, Dialog, AnswerSave
<1> HIDE DEF f
<1>6. DialogsOK' /\ ChoiceOK'
  BY <1>2, <1>4, <1>5, DialogMoves DEF AnswerSave
<1>7. QED
  BY <1>2, <1>3, <1>6, DialogKeeps DEF AnswerSave

(* The next save of the close joins the futures it will wait for.            *)
LEMMA NextSaveKeeps ==
    ASSUME IInv, dialogs # <<>>, Top.docs # {},
           UNCHANGED <<bundleVars, editorVars, signals, closeVars, edits, closes>>,
           saves' = Started(First(Top.docs), text[First(Top.docs)]),
           dialogs' = Exchanged(Frame("saving", Top.docs \ {First(Top.docs)},
                                      Top.futures \cup {Len(saves) + 1}))
    PROVE  IInv'
<1>1. BundleType /\ SavesType /\ CloseType /\ DialogsOK
  BY DEF IInv, Types
<1>2. Top \in Dialog /\ Top.docs \subseteq Documents /\ Top.futures \subseteq Nat
  BY <1>1, PoppedFacts DEF DialogsOK, Dialog
<1>3. Top.futures \subseteq DOMAIN saves
  BY <1>1, PoppedFacts DEF DialogsOK, FrameOK, Top
<1>4. First(Top.docs) \in Documents
  BY <1>2, DocumentsAreNumbers, FirstIsIn
<1>5. text[First(Top.docs)] \in Texts
  BY <1>1, <1>4 DEF BundleType
<1>6. SavesGrow /\ Due \subseteq Due' /\ Len(saves) + 1 \in DOMAIN saves'
  BY <1>1, <1>4, <1>5, StartGrows
<1>7. Len(saves) + 1 \in Nat
  BY <1>1, SavesFacts, SMT DEF SavesType
<1> DEFINE f == Frame("saving", Top.docs \ {First(Top.docs)}, Top.futures \cup {Len(saves) + 1})
<1>8. /\ f \in Dialog /\ f.kind = "saving" /\ f.futures = Top.futures \cup {Len(saves) + 1}
      /\ dialogs' = Exchanged(f)
  BY <1>2, <1>7 DEF Frame, Dialog
<1> HIDE DEF f
<1>9. f.futures \subseteq DOMAIN saves'
  BY <1>3, <1>6, <1>8 DEF SavesGrow
<1>10. DialogsOK' /\ ChoiceOK'
  BY <1>6, <1>8, <1>9, DialogMoves
<1>11. CloseType' /\ UNCHANGED <<closePending, closing, discarded>>
  BY <1>1, CloseTypeStays DEF closeVars
<1>12. QED
  BY <1>6, <1>10, <1>11, DialogKeeps

LEMMA SaveNextKeeps ==
    ASSUME IInv, SaveNext
    PROVE  IInv'
<1>1. SavesType /\ CloseType /\ DialogsOK
  BY DEF IInv, Types
<1>2. dialogs # <<>> /\ Top \in Dialog /\ Top.docs # {} /\ FrameOK(Top, Len(dialogs))
  BY <1>1, AskedFacts DEF SaveNext
<1>3. CASE UNCHANGED saves /\ (\/ dialogs' = Popped
                              \/ dialogs' = Exchanged(Frame("asking", Top.docs, Top.futures)))
  <2>1. SavesGrow /\ Due \subseteq Due'
    BY <1>1, <1>3, SavesStay DEF SaveNext
  <2>2. CloseType' /\ UNCHANGED <<closePending, closing, discarded>>
    BY <1>1, CloseTypeStays DEF SaveNext, closeVars
  <2>3. DialogsOK' /\ ChoiceOK'
    <3>1. CASE dialogs' = Popped
      BY <1>2, <2>1, <3>1, DialogMoves DEF SaveNext
    <3>2. CASE dialogs' = Exchanged(Frame("asking", Top.docs, Top.futures))
      <4> DEFINE f == Frame("asking", Top.docs, Top.futures)
      <4>1. /\ f \in Dialog /\ f.kind = "asking" /\ f.docs # {} /\ dialogs' = Exchanged(f)
            /\ f.futures \subseteq DOMAIN saves'
        BY <1>2, <1>3, <3>2 DEF Frame, Dialog, FrameOK
      <4> HIDE DEF f
      <4>2. QED
        BY <1>2, <2>1, <4>1, DialogMoves DEF SaveNext
    <3>3. QED
      BY <1>3, <3>1, <3>2
  <2>4. QED
    BY <2>1, <2>2, <2>3, DialogKeeps DEF SaveNext
<1>4. CASE /\ saves' = Started(First(Top.docs), text[First(Top.docs)])
           /\ dialogs' = Exchanged(Frame("saving", Top.docs \ {First(Top.docs)},
                                         Top.futures \cup {Len(saves) + 1}))
  BY <1>2, <1>4, NextSaveKeeps DEF SaveNext
<1>5. QED
  BY <1>3, <1>4 DEF SaveNext

LEMMA AnswerAskingKeeps ==
    ASSUME IInv, AnswerAsking
    PROVE  IInv'
<1>1. SavesType /\ CloseType /\ DialogsOK
  BY DEF IInv, Types
<1>2. dialogs # <<>> /\ Top.docs # {}
  BY <1>1, AskedFacts DEF AnswerAsking, FrameOK
<1>3. CASE dialogs' = Popped /\ UNCHANGED saves
  <2>1. SavesGrow /\ Due \subseteq Due'
    BY <1>1, <1>3, SavesStay DEF AnswerAsking
  <2>2. CloseType' /\ UNCHANGED <<closePending, closing, discarded>>
    BY <1>1, CloseTypeStays DEF AnswerAsking, closeVars
  <2>3. DialogsOK' /\ ChoiceOK'
    BY <1>2, <1>3, <2>1, DialogMoves DEF AnswerAsking
  <2>4. QED
    BY <2>1, <2>2, <2>3, DialogKeeps DEF AnswerAsking
<1>4. CASE /\ saves' = Started(First(Top.docs), text[First(Top.docs)])
           /\ dialogs' = Exchanged(Frame("saving", Top.docs \ {First(Top.docs)},
                                         Top.futures \cup {Len(saves) + 1}))
  BY <1>2, <1>4, NextSaveKeeps DEF AnswerAsking
<1>5. QED
  BY <1>3, <1>4 DEF AnswerAsking

LEMMA OneMore == \A n \in Nat : n + 1 \in Nat
OBVIOUS

LEMMA ConcludeTypes ==
    ASSUME CloseType, NEW failed,
           Conclude(failed) \/ UNCHANGED <<recloses, notice>>
    PROVE  recloses' \in Nat /\ notice' \in {"none", "not saved", "changed"}
<1>1. recloses \in Nat /\ notice \in {"none", "not saved", "changed"}
  BY DEF CloseType
<1>2. recloses + 1 \in Nat
  BY <1>1, OneMore, Zenon
<1>3. QED
  BY <1>1, <1>2 DEF Conclude

(* The count of the close is the number of the saves it starts to wait for.  *)
LEMMA DispatchKeeps ==
    ASSUME IInv, DispatchCloseSaves
    PROVE  IInv'
<1> DEFINE ended  == {k \in Top.futures : Ended(k)}
           failed == \E k \in ended : saves[k].stage = "failed"
           waited == Top.futures \ ended
<1>1. /\ BundleType /\ EditorType /\ SavesType /\ CloseType /\ DialogsOK /\ CleanOK /\ EditorOK
      /\ ClosedOK
  BY DEF IInv, Types
<1>2. dialogs # <<>> /\ Top.futures \subseteq DOMAIN saves
  BY <1>1, AskedFacts DEF DispatchCloseSaves, FrameOK
<1>3. /\ dialogs' = Popped
      /\ saves' = [k \in DOMAIN saves |->
                     IF k \in waited THEN [saves[k] EXCEPT !.close = TRUE] ELSE saves[k]]
      /\ closePending' = Cardinality(waited)
      /\ closeFailed' = failed
      /\ Conclude(failed) \/ UNCHANGED <<recloses, notice>>
      /\ UNCHANGED <<bundleVars, editorVars, signals, closing, discarded, edits, closes>>
  BY DEF DispatchCloseSaves
<1>4. waited \subseteq DOMAIN saves /\ \A k \in waited : ~Ended(k)
  BY <1>2
<1>5. failed \in BOOLEAN
  OBVIOUS
<1> HIDE DEF waited, failed
<1>6. saves \in Seq(Save) /\ \A k \in DOMAIN saves : saves[k] \in Save
  BY <1>1, SavesFacts DEF SavesType
<1>7. saves' \in Seq(Save) /\ DOMAIN saves' = DOMAIN saves
  <2>1. \A k \in DOMAIN saves : [saves[k] EXCEPT !.close = TRUE] \in Save
    BY <1>6 DEF Save
  <2>2. saves' \in [DOMAIN saves -> Save]
    BY <1>3, <1>6, <2>1, Zenon
  <2>3. QED
    BY <1>6, <2>2, SameLength
<1>8. ASSUME NEW k \in DOMAIN saves
      PROVE  /\ saves'[k].doc = saves[k].doc /\ saves'[k].text = saves[k].text
             /\ saves'[k].stage = saves[k].stage
             /\ k \in waited => saves'[k].close
  <2>1. saves'[k] = IF k \in waited THEN [saves[k] EXCEPT !.close = TRUE] ELSE saves[k]
    BY <1>3, Zenon
  <2>2. saves[k] \in Save
    BY <1>6
  <2>3. QED
    BY <2>1, <2>2 DEF Save
<1>9. SavesGrow
  BY <1>1, <1>3, <1>7, <1>8 DEF SavesGrow, SavesType
<1>10. IsFiniteSet(waited) /\ Cardinality(waited) \in Nat
  BY <1>4, <1>6, SavesFacts, FS_Subset, FS_CardinalityType
<1>11. CloseType'
  <2>1. recloses' \in Nat /\ notice' \in {"none", "not saved", "changed"}
    BY <1>1, <1>3, ConcludeTypes
  <2>2. QED
    BY <1>1, <1>3, <1>5, <1>10, <2>1, Zenon DEF CloseType
<1>12. PendingHasAnEnd'
  <2>1. \A k \in waited : k \in Due'
    BY <1>4, <1>7, <1>8 DEF Due, Ended
  <2>2. saves' \in Seq(Save) /\ Due' \in SUBSET DOMAIN saves'
    BY <1>7 DEF Due
  <2>3. IsFiniteSet(Due')
    BY <2>2, SavesFacts, FS_Subset
  <2>4. Cardinality(waited) <= Cardinality(Due')
    BY <2>1, <2>3, FS_Subset
  <2>5. QED
    BY <1>3, <2>4 DEF PendingHasAnEnd, Due
<1>13. UNCHANGED <<documents, text, dirty, linked, disk, active, editor, pending, closing, discarded>>
  BY <1>3 DEF bundleVars, editorVars
<1>14. Edited /\ Undisturbed /\ BundleType' /\ EditorType' /\ EditorOK'
  BY <1>1, <1>13 DEF Edited, Undisturbed, BundleType, EditorType, EditorOK
<1>15. CleanOK' /\ ClosedOK'
  BY <1>1, <1>9, <1>13, <1>14, CleanKeeps, ClosedKeeps
<1>16. DialogsOK' /\ ChoiceOK'
  BY <1>2, <1>3, <1>9, DialogMoves
<1>17. QED
  BY <1>9, <1>11, <1>12, <1>14, <1>15, <1>16 DEF IInv, Types, SavesGrow

(* A callback brings the count down by one, and is the only one taken away.  *)
LEMMA CompletedKeeps ==
    ASSUME IInv, NEW k \in signals, CloseSaveCompleted(k)
    PROVE  IInv'
<1> DEFINE failed == closeFailed \/ saves[k].stage = "failed"
           left   == IF closePending > 0 THEN closePending - 1 ELSE 0
<1>1. /\ BundleType /\ EditorType /\ SavesType /\ CloseType /\ DialogsOK /\ ChoiceOK /\ CleanOK
      /\ EditorOK /\ ClosedOK /\ PendingHasAnEnd
  BY DEF IInv, Types
<1>2. /\ signals' = signals \ {k} /\ closeFailed' = failed /\ closePending' = left
      /\ Conclude(failed) \/ UNCHANGED <<recloses, notice>>
      /\ UNCHANGED <<bundleVars, editorVars, saves, dialogs, closing, discarded, edits, closes>>
  BY DEF CloseSaveCompleted
<1>3. failed \in BOOLEAN
  BY <1>1 DEF CloseType
<1>4. closePending \in Nat
  BY <1>1 DEF CloseType
<1>5. left \in Nat /\ (left = closePending - 1 \/ left = 0)
  BY <1>4, SMT
<1> HIDE DEF failed, left
<1>6. SavesGrow
  BY <1>1, <1>2 DEF SavesGrow, SavesType
<1>7. CloseType'
  <2>1. recloses' \in Nat /\ notice' \in {"none", "not saved", "changed"}
    BY <1>1, <1>2, ConcludeTypes
  <2>2. QED
    BY <1>1, <1>2, <1>3, <1>5, <2>1, Zenon DEF CloseType
<1>8. PendingHasAnEnd'
  <2>1. Due \in SUBSET DOMAIN saves /\ Due' \in SUBSET DOMAIN saves /\ saves \in Seq(Save)
    BY <1>1, <1>2 DEF Due, SavesType
  <2>2. IsFiniteSet(Due) /\ IsFiniteSet(Due') /\ Cardinality(Due') \in Nat /\ Cardinality(Due) \in Nat
    BY <2>1, SavesFacts, FS_Subset, FS_CardinalityType
  <2>3. Due \ {k} \subseteq Due'
    BY <1>2 DEF Due, Ended
  <2>4. /\ Cardinality(Due \ {k}) <= Cardinality(Due')
        /\ \/ Cardinality(Due \ {k}) = Cardinality(Due) - 1
           \/ Cardinality(Due \ {k}) = Cardinality(Due)
    BY <2>2, <2>3, FS_Subset, FS_RemoveElement
  <2>5. closePending <= Cardinality(Due)
    BY <1>1 DEF PendingHasAnEnd, Due
  <2> DEFINE old == Cardinality(Due)
             new == Cardinality(Due')
             mid == Cardinality(Due \ {k})
  <2>6. /\ mid <= new /\ (mid = old - 1 \/ mid = old) /\ closePending <= old
        /\ old \in Nat /\ new \in Nat
    BY <2>2, <2>4, <2>5
  <2> HIDE DEF old, new, mid
  <2>7. closePending' <= new
    BY <1>2, <1>4, <1>5, <2>6, SMT
  <2>8. QED
    BY <2>7 DEF new, PendingHasAnEnd, Due
<1>9. UNCHANGED <<documents, text, dirty, linked, disk, active, editor, pending, closing, discarded, dialogs>>
  BY <1>2 DEF bundleVars, editorVars
<1>10. Edited /\ Undisturbed /\ BundleType' /\ EditorType' /\ EditorOK'
  BY <1>1, <1>9 DEF Edited, Undisturbed, BundleType, EditorType, EditorOK
<1>11. CleanOK' /\ ClosedOK' /\ DialogsOK' /\ ChoiceOK'
  BY <1>1, <1>6, <1>9, <1>10, CleanKeeps, ClosedKeeps, DialogsStay
<1>12. QED
  BY <1>6, <1>7, <1>8, <1>10, <1>11 DEF IInv, Types, SavesGrow

-----------------------------------------------------------------------------
(* Every step, and the theorems.                                             *)

LEMMA NextKeeps ==
    ASSUME IInv, [Next]_vars
    PROVE  IInv'
<1>1. CASE User
  BY <1>1, TypeKeeps, SelectDocumentKeeps, SaveSourceKeeps, AnswerDestinationKeeps,
     RemoveDocumentKeeps, AnswerRemoveKeeps, CloseWindowKeeps, AnswerCancelKeeps,
     AnswerDiscardKeeps, AnswerSaveKeeps, AnswerAskingKeeps DEF User
<1>2. CASE GuiThread
  BY <1>2, SourceSyncTimerKeeps, CompletedKeeps, CloseAgainKeeps, SaveNextKeeps, DispatchKeeps
     DEF GuiThread
<1>3. CASE IOThread \/ \E k \in DOMAIN saves : WriteFails(k)
  BY <1>3, StartWriteKeeps, CheckGuardKeeps, ReplaceFileKeeps, FinishSaveKeeps, WriteFailsKeeps
     DEF IOThread
<1>4. CASE UNCHANGED vars
  <2>1. BundleType /\ SavesType
    BY DEF IInv, Types
  <2>2. /\ UNCHANGED <<bundleVars, saves, signals>>
        /\ UNCHANGED <<editorVars, dialogs, closeVars, edits, closes>>
    BY <1>4 DEF vars
  <2>3. SavesGrow /\ Due \subseteq Due'
    BY <2>1, <2>2, SavesStay
  <2>4. QED
    BY <2>1, <2>2, <2>3, DiskStays, ThreadKeeps
<1>5. QED
  BY <1>1, <1>2, <1>3, <1>4 DEF Next

LEMMA Initially == Init => IInv
<1> SUFFICES ASSUME Init PROVE IInv
  OBVIOUS
<1>1. BundleType /\ EditorType
  BY CloseAssumption DEF Init, BundleType, EditorType
<1>2. saves = <<>> /\ dialogs = <<>> /\ signals = {} /\ closePending = 0
  BY DEF Init
<1>3. SavesType /\ DOMAIN saves = {} /\ DialogsOK /\ DOMAIN dialogs = {}
  BY <1>2, EmptySeq, SMT DEF SavesType, DialogsOK
<1>4. CloseType
  BY DEF Init, CloseType
<1>5. EditorOK /\ CleanOK /\ ChoiceOK /\ ClosedOK
  BY <1>1, <1>3 DEF Init, EditorOK, CleanOK, ChoiceOK, ClosedOK, Safe, BundleType
<1>6. PendingHasAnEnd
  <2>1. Due = {}
    BY <1>3 DEF Due
  <2>2. closePending <= Cardinality(Due)
    BY <1>2, <2>1, FS_EmptySet, SMT
  <2>3. QED
    BY <2>2 DEF PendingHasAnEnd, Due
<1>7. QED
  BY <1>1, <1>3, <1>4, <1>5, <1>6 DEF IInv, Types

LEMMA Invariance == Spec => []IInv
<1>1. IInv /\ [Next]_vars => IInv'
  BY NextKeeps
<1>2. QED
  BY Initially, <1>1, PTL DEF Spec

(* Every variable has its type: the editor shows a document of the bundle,   *)
(* each save and each open dialog is about a document of the session.        *)
THEOREM CloseIsTyped == Spec => []TypeOK
<1>1. IInv => TypeOK
  BY DEF IInv, Types, BundleType, EditorType, SavesType, CloseType, DialogsOK, Dialog, TypeOK
<1>2. QED
  BY Invariance, <1>1, PTL

(* However the dialogs nest and whenever a save ends, a window that has      *)
(* closed left nothing in the editor, and every document still holds the     *)
(* text it was opened with, a text a save has written, or one the user chose *)
(* to discard: closeEvent and the second close of _close_save_completed.     *)
THEOREM ClosingHasAsked == Spec => []ClosingAsksFirst
<1>1. IInv => ClosingAsksFirst
  BY DEF IInv, ClosedOK, EditorOK, Safe, ClosingAsksFirst
<1>2. QED
  BY Invariance, <1>1, PTL

(* _close_save_pending, which makes closeEvent ignore the user, never counts *)
(* more than the callbacks that are still to come.                           *)
THEOREM EveryCountIsAwaited == Spec => []PendingHasAnEnd
<1>1. IInv => PendingHasAnEnd
  BY DEF IInv
<1>2. QED
  BY Invariance, <1>1, PTL
=============================================================================
