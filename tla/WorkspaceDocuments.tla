------------------------- MODULE WorkspaceDocuments -------------------------
(***************************************************************************)
(* The document set of WorkspaceController (ide/controller.py): the bundle *)
(* of Python documents, the active one and its mirrors, the primary one    *)
(* and the C destination that follows it, and the files on disk, under the *)
(* operations that hold the controller lock from start to end.  The        *)
(* operations that give the work to I/O threads are in WorkspaceFiles.     *)
(* A file may hold Python and be a C destination too: nothing in the code  *)
(* keeps the two apart.                                                    *)
(*                                                                         *)
(* A text stands for its fingerprint.  Module ID and logical name, always  *)
(* validated side by side, are one name.  A refused operation changes      *)
(* nothing, so it is a step that cannot be taken.                          *)
(***************************************************************************)
EXTENDS Integers, FiniteSets, SequencesExt

CONSTANTS
    Texts,           \* non-empty texts
    Names,           \* module IDs (with their logical names)
    MainName,        \* the name of the untitled document
    Paths,           \* files that are opened and saved as Python
    CFiles,          \* files that C is written to
    GeneratedC,      \* the text of generated C; two results are not told apart
    DefaultC,        \* the C file each Python file suggests: with_suffix(".c")
    MaxDocuments,    \* MAX_WORKSPACE_DOCUMENTS
    MaxSequence,     \* document identifiers ever given (model bound)
    MaxGeneration    \* semantic changes (model bound)

Blank  == "blank"    \* the empty text
NoText == "none"     \* the empty fingerprint, an absent file
NoPath == "no path"

ASSUME TextAssumption ==
    /\ Blank \notin Texts
    /\ NoText \notin Texts
    /\ GeneratedC \in Texts

ASSUME PathAssumption ==
    /\ NoPath \notin Paths \cup CFiles
    /\ DefaultC \in [Paths -> CFiles]

ASSUME NameAssumption == MainName \in Names

ASSUME LimitAssumption ==
    /\ MaxDocuments \in Nat \ {0}
    /\ MaxSequence \in Nat \ {0}
    /\ MaxGeneration \in Nat

Ids         == 1 .. MaxSequence
Generations == 0 .. MaxGeneration
NoResult    == -1
Contents    == Texts \cup {Blank}

Document ==
    [id : Ids, name : Names, text : Contents, path : Paths \cup {NoPath},
     primary : BOOLEAN, dirty : BOOLEAN]

initialDocument ==
    [id |-> 1, name |-> MainName, text |-> Blank, path |-> NoPath,
     primary |-> TRUE, dirty |-> FALSE]

VARIABLES
    documents,           \* the bundle, in order
    active,              \* active_document_id
    documentSequence,    \* _document_sequence
    linkedC,             \* linked_c_path
    linkedDefault,       \* linked_c_path_is_default
    sourceText,          \* source_text, a mirror of the active document
    sourceFingerprint,   \* source_fingerprint, another one
    generation,          \* revision_generation
    authenticated,       \* revision_authenticated
    revision,            \* _current_revision: the text of each document it indexed
    state,               \* state, to the extent Save C looks at it
    result,              \* result_revision_generation of the C on the screen
    files                \* what each file holds

bundleVars == <<documents, active, sourceText, sourceFingerprint, generation, authenticated,
                state>>
linkVars   == <<linkedC, linkedDefault>>
documentVars == <<bundleVars, linkVars, files, documentSequence, revision, result>>

-----------------------------------------------------------------------------
IdsOf(docs)    == {docs[i].id : i \in DOMAIN docs}
TextsOf(docs)  == [d \in IdsOf(docs) |-> docs[CHOOSE i \in DOMAIN docs : docs[i].id = d].text]
DocumentOf(docs, d) == docs[CHOOSE i \in DOMAIN docs : docs[i].id = d]
Doc(d)         == DocumentOf(documents, d)
PrimaryIndex(docs) == CHOOSE i \in DOMAIN docs : docs[i].primary
PrimaryOf(docs) == docs[PrimaryIndex(docs)]

(* The permutations of a bundle: as many documents, and all of them. *)
Orders(docs) ==
    {f \in [DOMAIN docs -> DOMAIN docs] : \A j \in DOMAIN docs : \E i \in DOMAIN docs : f[i] = j}

Distinct(docs, Key(_)) ==
    \A i, j \in DOMAIN docs : Key(docs[i]) = Key(docs[j]) => i = j

(* _validate_documents *)
ValidDocuments(docs) ==
    /\ Len(docs) \in 1 .. MaxDocuments
    /\ \E i \in DOMAIN docs : \A j \in DOMAIN docs : docs[j].primary <=> j = i
    /\ Distinct(docs, LAMBDA doc : doc.id)
    /\ Distinct(docs, LAMBDA doc : doc.name)
    /\ \A i, j \in DOMAIN docs :
         docs[i].path = docs[j].path /\ docs[i].path # NoPath => i = j

(* Variant: which document is primary is not compared. *)
SemanticsWithoutPrimary(docs) ==
    [i \in DOMAIN docs |-> <<docs[i].id, docs[i].name, docs[i].text>>]

(* What _semantic_documents_changed compares. *)
Semantics(docs) ==
    [i \in DOMAIN docs |-> <<docs[i].id, docs[i].name, docs[i].primary, docs[i].text>>]

(* What the converter is given: conversion_order and source_bundle_for put    *)
(* the primary document first and keep the order of the others.               *)
BundleOf(docs) ==
    LET p == PrimaryIndex(docs)
        from == [i \in DOMAIN docs |-> IF i = 1 THEN p ELSE IF i <= p THEN i - 1 ELSE i]
    IN  [i \in DOMAIN docs |-> <<docs[from[i]].name, docs[from[i]].text>>]

(* _default_c_path *)
DefaultOf(doc) == IF doc.path = NoPath THEN NoPath ELSE DefaultC[doc.path]

NextDocumentId == documentSequence + 1

Replaced(new) ==
    [i \in DOMAIN documents |-> IF documents[i].id = new.id THEN new ELSE documents[i]]

NonePrimary(docs) == [i \in DOMAIN docs |-> [docs[i] EXCEPT !.primary = FALSE]]

Init ==
    /\ documents = <<initialDocument>>
    /\ active = 1
    /\ documentSequence = 1
    /\ linkedC = NoPath
    /\ linkedDefault = TRUE
    /\ sourceText = Blank
    /\ sourceFingerprint = Blank
    /\ generation = 0
    /\ authenticated = TRUE
    /\ revision = [d \in {1} |-> Blank]
    /\ state = "idle"
    /\ result = NoResult
    /\ files \in [Paths \cup CFiles -> Contents \cup {NoText}]

(* can_save_c *)
CanSaveC == state = "converted" /\ result = generation

-----------------------------------------------------------------------------
(* The common end of every document operation. *)

Mirrors(docs, act, changed) ==
    /\ sourceText' = DocumentOf(docs, act).text
    /\ sourceFingerprint' =
         IF changed THEN NoText
         ELSE IF act \in DOMAIN revision THEN revision[act] ELSE sourceFingerprint

(* _mutate_documents.  reread: a text object was replaced by one read from a *)
(* file, which the identity comparison of _semantic_documents_changed counts *)
(* as a change even when the two are equal.                                   *)
Mutate(docs, act, reread) ==
    LET changed == reread \/ Semantics(docs) # Semantics(documents) IN
    /\ ValidDocuments(docs)
    /\ documents' = docs
    /\ active' = act
    /\ Mirrors(docs, act, changed)
    /\ IF changed
         THEN /\ generation < MaxGeneration
              /\ generation' = generation + 1
              /\ authenticated' = FALSE
              /\ state' = IF result = NoResult THEN "idle" ELSE "stale"
         ELSE UNCHANGED <<generation, authenticated, state>>

KeepLink == UNCHANGED linkVars

(* Variant: the destination stays with the document it came from. *)
FollowNever(doc, becomesPrimary) == KeepLink

(* The default destination follows the primary document. *)
Follow(doc, becomesPrimary) ==
    IF becomesPrimary /\ linkedDefault
      THEN linkedC' = DefaultOf(doc) /\ linkedDefault' = TRUE
      ELSE KeepLink

-----------------------------------------------------------------------------
UpdateDocument(d, t) ==
    /\ d \in IdsOf(documents)
    /\ t # Doc(d).text
    /\ Mutate(Replaced([Doc(d) EXCEPT !.text = t, !.dirty = TRUE]), active, FALSE)
    /\ KeepLink
    /\ UNCHANGED <<documentSequence, revision, result, files>>

Added(new) == Append(IF new.primary THEN NonePrimary(documents) ELSE documents, new)

AddDocument(name, text, path, makeActive, isPrimary, dirty) ==
    LET new == [id |-> NextDocumentId, name |-> name, text |-> text, path |-> path,
                primary |-> isPrimary, dirty |-> dirty]
    IN  /\ NextDocumentId <= MaxSequence
        /\ Mutate(Added(new), IF makeActive THEN new.id ELSE active, FALSE)
        /\ Follow(new, isPrimary)
        /\ documentSequence' = NextDocumentId
        /\ UNCHANGED <<revision, result>>

(* Variant: a document that never had a file is clean. *)
AddNewClean(name, text, path, makeActive, isPrimary) ==
    /\ AddDocument(name, text, path, makeActive, isPrimary, FALSE)
    /\ UNCHANGED files

(* add_document without a claim about dirtiness: the text of a document that  *)
(* is given a file is taken to be the one in the file.                        *)
AddNew(name, text, path, makeActive, isPrimary) ==
    /\ AddDocument(name, text, path, makeActive, isPrimary, path = NoPath /\ text # Blank)
    /\ UNCHANGED files

RemoveDocument(d) ==
    LET index == CHOOSE i \in DOMAIN documents : documents[i].id = d
        kept  == RemoveAt(documents, index)
        docs  == IF Doc(d).primary THEN [kept EXCEPT ![1].primary = TRUE] ELSE kept
        next  == IF index < Len(kept) THEN index ELSE Len(kept)
    IN  /\ Len(documents) > 1
        /\ d \in IdsOf(documents)
        /\ Mutate(docs, IF active = d THEN docs[next].id ELSE active, FALSE)
        /\ Follow(docs[1], Doc(d).primary)
        /\ UNCHANGED <<documentSequence, revision, result, files>>

(* Variant: the mirror of the text is forgotten. *)
SelectDocumentOnly(d) ==
    /\ d \in IdsOf(documents)
    /\ active' = d
    /\ sourceFingerprint' = IF authenticated THEN revision[d] ELSE NoText
    /\ UNCHANGED <<documents, sourceText, generation, authenticated, state, linkVars,
                   documentSequence, revision, result, files>>

SelectDocument(d) ==
    /\ d \in IdsOf(documents)
    /\ active' = d
    /\ sourceText' = Doc(d).text
    /\ sourceFingerprint' = IF authenticated THEN revision[d] ELSE NoText
    /\ UNCHANGED <<documents, generation, authenticated, state, linkVars, documentSequence,
                   revision, result, files>>

ReorderDocuments(order) ==
    /\ Mutate([i \in DOMAIN documents |-> documents[order[i]]], active, FALSE)
    /\ KeepLink
    /\ UNCHANGED <<documentSequence, revision, result, files>>

(* set_document_identity; primary is never cleared on its own *)
SetDocumentIdentity(d, name, makePrimary) ==
    LET new  == [Doc(d) EXCEPT !.name = name, !.primary = @ \/ makePrimary]
        docs == [i \in DOMAIN documents |->
                   IF documents[i].id = d THEN new
                   ELSE [documents[i] EXCEPT !.primary = @ /\ ~makePrimary]]
    IN  /\ d \in IdsOf(documents)
        /\ Mutate(docs, active, FALSE)
        /\ Follow(new, makePrimary)
        /\ UNCHANGED <<documentSequence, revision, result, files>>

(* _apply_opened_document: opening the first file replaces the pristine       *)
(* untitled document, later ones extend the bundle.                           *)
Pristine ==
    /\ Len(documents) = 1
    /\ documents[1].text = Blank
    /\ documents[1].path = NoPath
    /\ ~documents[1].dirty

ReplaceByFile(d, name, text, path, makeActive) ==
    LET new == [Doc(d) EXCEPT !.name = name, !.text = text, !.path = path, !.dirty = FALSE]
    IN  /\ Mutate(Replaced(new), IF makeActive THEN d ELSE active, text # Blank)
        /\ Follow(new, new.primary)
        /\ UNCHANGED <<documentSequence, revision, result>>

(* into a document the caller names, with its name or a new one *)
OpenInto(d, path, name, makeActive) ==
    /\ d \in IdsOf(documents)
    /\ files[path] # NoText
    /\ ReplaceByFile(d, name, files[path], path, makeActive)
    /\ UNCHANGED files

OpenDocument(path, name, makeActive, isPrimary) ==
    /\ files[path] # NoText
    /\ IF Pristine
         THEN ReplaceByFile(active, name, files[path], path, makeActive)
         ELSE AddDocument(name, files[path], path, makeActive, isPrimary, FALSE)
    /\ UNCHANGED files

(* Save and Save As; the candidate bundle is validated before the file is     *)
(* written.                                                                   *)
SaveDocument(d, path) ==
    LET new == [Doc(d) EXCEPT !.path = path, !.dirty = FALSE]
    IN  /\ d \in IdsOf(documents)
        /\ Mutate(Replaced(new), active, FALSE)
        /\ files' = [files EXCEPT ![path] = Doc(d).text]
        /\ Follow(new, new.primary)
        /\ UNCHANGED <<documentSequence, revision, result>>

-----------------------------------------------------------------------------
(* The generated C. *)

LinkGeneratedC(c) ==
    /\ linkedC' = c
    /\ linkedDefault' = FALSE
    /\ UNCHANGED <<bundleVars, documentSequence, revision, result, files>>

LinkDefaultC ==
    /\ DefaultOf(PrimaryOf(documents)) # NoPath
    /\ linkedC' = DefaultOf(PrimaryOf(documents))
    /\ linkedDefault' = TRUE
    /\ UNCHANGED <<bundleVars, documentSequence, revision, result, files>>

SaveGeneratedC(c) ==
    /\ CanSaveC
    /\ files' = [files EXCEPT ![c] = GeneratedC]
    /\ linkedC' = c
    /\ linkedDefault' = FALSE
    /\ UNCHANGED <<bundleVars, documentSequence, revision, result>>

(* Where Save C writes, and whether it is a default. *)
CDestination == IF linkedC = NoPath THEN DefaultOf(PrimaryOf(documents)) ELSE linkedC
CIsDefault   == linkedC = NoPath \/ linkedDefault

SaveGeneratedCLinked ==
    /\ CanSaveC
    /\ CDestination # NoPath
    /\ files' = [files EXCEPT ![CDestination] = GeneratedC]
    /\ linkedC' = CDestination
    /\ linkedDefault' = CIsDefault
    /\ UNCHANGED <<bundleVars, documentSequence, revision, result>>

-----------------------------------------------------------------------------
(* What the other threads do to the snapshot; WorkspaceConversion has the      *)
(* whole of it.                                                                *)

AcceptRevision ==
    /\ ~authenticated
    /\ authenticated' = TRUE
    /\ revision' = TextsOf(documents)
    /\ sourceFingerprint' = TextsOf(documents)[active]
    /\ UNCHANGED <<documents, active, sourceText, generation, state, linkVars,
                   documentSequence, result, files>>

StartConversion ==
    /\ authenticated
    /\ state # "converting"
    /\ state' = "converting"
    /\ UNCHANGED <<documents, active, sourceText, sourceFingerprint, generation,
                   authenticated, linkVars, documentSequence, revision, result, files>>

(* The conversion of the current generation ends, with new C or without. *)
EndConversion ==
    /\ state = "converting"
    /\ \/ state' = "converted" /\ result' = generation
       \/ state' = "idle" /\ result' = result
    /\ UNCHANGED <<documents, active, sourceText, sourceFingerprint, generation,
                   authenticated, linkVars, documentSequence, revision, files>>

-----------------------------------------------------------------------------
EditBundle ==
    \/ \E d \in Ids, t \in Contents : UpdateDocument(d, t)
    \/ \E n \in Names, t \in Contents, p \in Paths \cup {NoPath}, a, m \in BOOLEAN :
          AddNew(n, t, p, a, m)
    \/ \E d \in Ids : RemoveDocument(d)
    \/ \E d \in Ids : SelectDocument(d)
    \/ \E order \in Orders(documents) : ReorderDocuments(order)
    \/ \E d \in Ids, n \in Names, p \in BOOLEAN : SetDocumentIdentity(d, n, p)
    \/ \E c \in CFiles : LinkGeneratedC(c)
    \/ LinkDefaultC

Other == AcceptRevision \/ StartConversion \/ EndConversion

Next ==
    \/ EditBundle
    \/ Other
    \/ \E d \in Ids, p \in Paths, n \in Names, a \in BOOLEAN : OpenInto(d, p, n, a)
    \/ \E p \in Paths, n \in Names, a, m \in BOOLEAN : OpenDocument(p, n, a, m)
    \/ \E d \in Ids, p \in Paths : SaveDocument(d, p)
    \/ \E c \in CFiles : SaveGeneratedC(c)
    \/ SaveGeneratedCLinked

Spec == Init /\ [][Next]_documentVars

-----------------------------------------------------------------------------
(* Every reachable bundle is one that _validate_documents accepts, the        *)
(* active document belongs to it, and identifiers come from the sequence.     *)
TypeOK ==
    /\ documents \in Seq(Document)
    /\ ValidDocuments(documents)
    /\ active \in IdsOf(documents)
    /\ documentSequence \in Ids
    /\ \A d \in IdsOf(documents) : d <= documentSequence
    /\ linkedC \in CFiles \cup {NoPath}
    /\ linkedDefault \in BOOLEAN
    /\ sourceText \in Contents
    /\ sourceFingerprint \in Contents \cup {NoText}
    /\ generation \in Generations
    /\ authenticated \in BOOLEAN
    /\ state \in {"idle", "stale", "converting", "converted"}
    /\ result \in Generations \cup {NoResult}
    /\ files \in [Paths \cup CFiles -> Contents \cup {NoText}]

(* While the C destination is a default, it is the one of the document that   *)
(* is primary now, whichever operation made it primary or gave it a path.     *)
LinkFollowsPrimary == linkedDefault => linkedC = DefaultOf(PrimaryOf(documents))

(* source_text mirrors the active document, and so does source_fingerprint in *)
(* an authenticated snapshot (model.py:66-67), whose revision indexes exactly *)
(* the documents of the bundle.                                               *)
MirrorsAgree ==
    /\ sourceText = Doc(active).text
    /\ authenticated => /\ revision = TextsOf(documents)
                        /\ sourceFingerprint = Doc(active).text

(* A document that closing would not ask about (qt_close.py) and whose text   *)
(* is not on disk.                                                            *)
Astray(d) ==
    /\ ~Doc(d).dirty
    /\ Doc(d).text # IF Doc(d).path = NoPath THEN Blank ELSE files[Doc(d).path]

(* The caller says where the text is from, and nobody looks.                  *)
AddedOnTrust ==
    \E n \in Names, t \in Contents, p \in Paths, a, m \in BOOLEAN : AddNew(n, t, p, a, m)

(* C is written over this file.                                               *)
CWrittenTo(path) ==
    \/ path \in CFiles /\ SaveGeneratedC(path)
    \/ path = CDestination /\ SaveGeneratedCLinked

(* No edit, open, save, save as or change of identity, in any order, leaves a *)
(* clean document that differs from its file.  Two things can: a document     *)
(* that is added with a text said to be the one of its file, and Save C, when *)
(* its destination is the file of an open document.                           *)
CleanStaysOnDisk ==
    [][\A d \in IdsOf(documents') :
          Astray(d)' => \/ d \in IdsOf(documents) /\ Astray(d)
                        \/ d \notin IdsOf(documents) /\ AddedOnTrust
                        \/ CWrittenTo(Doc(d)'.path)]_documentVars

(* Whatever changes what the converter would be given, be it the order only,  *)
(* retires the C on the screen.                                               *)
ChangeRetiresC == [][BundleOf(documents') # BundleOf(documents) => ~CanSaveC']_documentVars
=============================================================================
