------------------------------ MODULE CloseFlow ------------------------------
(***************************************************************************)
(* Closing the window of the workspace: the editor text that has not       *)
(* reached the controller yet, the question about unsaved documents, Save  *)
(* All with a file dialog for each untitled document, the saves on the     *)
(* threads of the I/O service, the callbacks the event loop delivers, and  *)
(* the second close that follows when every save succeeded.                *)
(*                                                                         *)
(* ide/qt_close.py, with the parts of ide/qt_documents.py,                 *)
(* ide/controller_io.py and ide/io_service.py it goes through.  The GUI    *)
(* thread runs one handler at a time; a modal dialog runs a nested event   *)
(* loop, in which callbacks and timers still fire.  Texts are numbers and  *)
(* a document has at most one file of its own.                             *)
(***************************************************************************)
EXTENDS Naturals, Sequences, FiniteSets

CONSTANTS
    Documents,     \* the documents of the bundle, in their order
    Texts,         \* what an editor may hold; Blank is among them
    Workers,       \* threads of the I/O service
    Capacity,      \* of its queue
    MaxEdits,      \* keystrokes (model bound)
    MaxSaves,      \* saves started (model bound)
    MaxCloses      \* times the user closes the window (model bound)

Blank == 0

ASSUME CloseAssumption ==
    /\ Documents \subseteq Nat /\ Documents # {} /\ IsFiniteSet(Documents)
    /\ Blank \in Texts
    /\ Workers \in Nat \ {0} /\ Capacity \in Nat /\ Workers <= Capacity
    /\ MaxEdits \in Nat /\ MaxSaves \in Nat /\ MaxCloses \in Nat

VARIABLES
    documents,     \* those still in the bundle
    text,          \* text of each document in the snapshot
    dirty,         \* its dirty mark
    linked,        \* whether it has a file
    disk,          \* what its file holds
    active,        \* the document the editor shows
    editor,        \* what the editor holds
    pending,       \* _source_sync_pending
    saves,         \* every save started, with how far it has come
    dialogs,       \* nested frames of the GUI thread, innermost last
    closePending,  \* _close_save_pending
    closeFailed,   \* _close_save_failed
    signals,       \* saves whose io_finished signal is not delivered yet
    recloses,      \* QTimer.singleShot(0, self.close) not fired yet
    closing,       \* _closing
    notice,        \* the last message of _close_save_completed
    discarded,     \* documents whose changes the user chose to discard
    edits, closes  \* counters of the model

bundleVars == <<documents, text, dirty, linked, disk, active>>
editorVars == <<editor, pending>>
closeVars  == <<closePending, closeFailed, recloses, closing, notice, discarded>>
vars == <<bundleVars, editorVars, saves, dialogs, signals, closeVars, edits, closes>>

Frame(kind, docs, futures) == [kind |-> kind, docs |-> docs, futures |-> futures]
Top == dialogs[Len(dialogs)]
Popped == SubSeq(dialogs, 1, Len(dialogs) - 1)
Pushed(frame) == Append(dialogs, frame)
Exchanged(frame) == Append(Popped, frame)

(* "saving" is the loop of closeEvent over the dirty documents: no dialog is  *)
(* open and the event loop does not run.                                      *)
Asked(kind) == dialogs # <<>> /\ Top.kind = kind
InWindow  == dialogs = <<>> /\ ~closing
EventLoop == ~Asked("saving")

First(S) == CHOOSE d \in S : \A e \in S : d <= e

Init ==
    /\ documents = Documents
    /\ text = [d \in Documents |-> Blank]
    /\ dirty = [d \in Documents |-> FALSE]
    /\ linked \in [Documents -> BOOLEAN]
    /\ disk = [d \in Documents |-> Blank]
    /\ active \in Documents
    /\ editor = Blank /\ pending = FALSE
    /\ saves = <<>> /\ dialogs = <<>> /\ signals = {}
    /\ closePending = 0 /\ closeFailed = FALSE /\ recloses = 0
    /\ closing = FALSE /\ notice = "none" /\ discarded = {}
    /\ edits = 0 /\ closes = 0

-----------------------------------------------------------------------------
(* The editor. *)

(* _source_changed *)
Type(t) ==
    /\ InWindow
    /\ edits < MaxEdits
    /\ t # editor
    /\ editor' = t
    /\ pending' = TRUE
    /\ edits' = edits + 1
    /\ UNCHANGED <<bundleVars, saves, dialogs, signals, closeVars, closes>>

(* _flush_pending_source_sync through update_document: the text and the mark  *)
(* of the document the editor shows.                                          *)
Unsynchronized == pending /\ editor # text[active]
FlushedText  == IF Unsynchronized THEN [text EXCEPT ![active] = editor] ELSE text
FlushedDirty == IF Unsynchronized THEN [dirty EXCEPT ![active] = TRUE] ELSE dirty
Flush ==
    /\ text' = FlushedText
    /\ dirty' = FlushedDirty
    /\ pending' = FALSE

SourceSyncTimer ==
    /\ pending /\ EventLoop /\ ~closing
    /\ Flush
    /\ UNCHANGED <<documents, linked, disk, active, editor, saves, dialogs, signals,
                   closeVars, edits, closes>>

(* _select_document *)
SelectDocument(d) ==
    /\ InWindow /\ d \in documents \ {active}
    /\ Flush
    /\ active' = d
    /\ editor' = text[d]
    /\ UNCHANGED <<documents, linked, disk, saves, dialogs, signals, closeVars, edits, closes>>

-----------------------------------------------------------------------------
(* Saving. *)

Running == {k \in DOMAIN saves : saves[k].stage \in {"writing", "guarded", "replaced"}}
Queued  == {k \in DOMAIN saves : saves[k].stage = "queued"}
Ended(k) == saves[k].stage \in {"done", "failed"}

(* save_document_async: the text is captured now. A closed service and a full *)
(* queue refuse.                                                              *)
Accepted == ~closing /\ Cardinality(Queued) < Capacity
Started(d, t) ==
    Append(saves, [doc |-> d, text |-> t, origin |-> linked[d],
                   stage |-> "queued", close |-> FALSE])

(* save_source: _commit_pending_identity, then _save_document of the active   *)
(* document, which asks for a destination where there is none.                *)
SaveSource ==
    /\ InWindow
    /\ Len(saves) < MaxSaves
    /\ Flush
    /\ \/ /\ linked[active]
          /\ saves' = IF Accepted THEN Started(active, FlushedText[active]) ELSE saves
          /\ UNCHANGED dialogs
       \/ /\ ~linked[active]
          /\ dialogs' = Pushed(Frame("destination", {active}, {}))
          /\ UNCHANGED saves
    /\ UNCHANGED <<documents, linked, disk, active, editor, signals, closeVars, edits, closes>>

(* getSaveFileName returned for a plain save: cancelled, or a file that       *)
(* another document has taken, or a destination.                              *)
AnswerDestination ==
    /\ Asked("destination")
    /\ dialogs' = Popped
    /\ \/ UNCHANGED saves
       \/ /\ Len(saves) < MaxSaves /\ Accepted
          /\ saves' = Started(First(Top.docs), text[First(Top.docs)])
    /\ UNCHANGED <<bundleVars, editorVars, signals, closeVars, edits, closes>>

(* A thread of the service takes the oldest job. *)
StartWrite ==
    /\ Cardinality(Running) < Workers /\ Queued # {}
    /\ saves' = [saves EXCEPT ![First(Queued)].stage = "writing"]
    /\ UNCHANGED <<bundleVars, editorVars, dialogs, signals, closeVars, edits, closes>>

(* The future of save k is resolved; a callback _dispatch_io has added emits  *)
(* io_finished.                                                               *)
Resolve(k, stage) ==
    /\ saves' = [saves EXCEPT ![k].stage = stage]
    /\ signals' = IF saves[k].close THEN signals \cup {k} ELSE signals

(* guard of save_document_async, run by _atomic_write before os.replace. *)
Guarded(k) ==
    /\ ~closing
    /\ saves[k].doc \in documents
    /\ linked[saves[k].doc] = saves[k].origin

CheckGuard(k) ==
    /\ saves[k].stage = "writing"
    /\ \/ /\ Guarded(k)
          /\ saves' = [saves EXCEPT ![k].stage = "guarded"]
          /\ UNCHANGED signals
       \/ ~Guarded(k) /\ Resolve(k, "failed")
    /\ UNCHANGED <<bundleVars, editorVars, dialogs, closeVars, edits, closes>>

ReplaceFile(k) ==
    /\ saves[k].stage = "guarded"
    /\ disk' = [disk EXCEPT ![saves[k].doc] = saves[k].text]
    /\ saves' = [saves EXCEPT ![k].stage = "replaced"]
    /\ UNCHANGED <<documents, text, dirty, linked, active, editorVars, dialogs, signals,
                   closeVars, edits, closes>>

(* WorkspaceIOError *)
WriteFails(k) ==
    /\ saves[k].stage \in {"writing", "guarded"}
    /\ Resolve(k, "failed")
    /\ UNCHANGED <<bundleVars, editorVars, dialogs, closeVars, edits, closes>>

(* finished of save_document_async, on the I/O thread. *)
FinishSave(k) ==
    LET d == saves[k].doc IN
    /\ saves[k].stage = "replaced"
    /\ \/ /\ d \in documents
          /\ dirty' = [dirty EXCEPT ![d] = (text[d] # saves[k].text)]
          /\ linked' = [linked EXCEPT ![d] = TRUE]
          /\ Resolve(k, "done")
       \/ /\ d \notin documents
          /\ Resolve(k, "failed")
          /\ UNCHANGED <<dirty, linked>>
    /\ UNCHANGED <<documents, text, disk, active, editorVars, dialogs, closeVars, edits, closes>>

IOThread ==
    \/ StartWrite
    \/ \E k \in DOMAIN saves : CheckGuard(k) \/ ReplaceFile(k) \/ FinishSave(k)

-----------------------------------------------------------------------------
(* _remove_document, which asks for a dirty document. The last one stays.     *)

(* The document shown when the active one goes: the next one, or the last.    *)
Neighbour(d) ==
    LET after == {e \in documents : e > d} IN
    IF after # {} THEN First(after) ELSE CHOOSE e \in documents \ {d} : \A f \in documents \ {d} : f <= e

RemoveEffect(d, texts) ==
    /\ documents' = documents \ {d}
    /\ active' = IF d = active THEN Neighbour(d) ELSE active
    /\ editor' = texts[active']

RemoveDocument ==
    /\ InWindow /\ Cardinality(documents) > 1
    /\ Flush
    /\ \/ /\ FlushedDirty[active]
          /\ dialogs' = Pushed(Frame("remove", {active}, {}))
          /\ UNCHANGED <<documents, active, editor>>
       \/ /\ ~FlushedDirty[active]
          /\ RemoveEffect(active, FlushedText)
          /\ UNCHANGED dialogs
    /\ UNCHANGED <<linked, disk, saves, signals, closeVars, edits, closes>>

AnswerRemove ==
    /\ Asked("remove")
    /\ dialogs' = Popped
    /\ \/ UNCHANGED <<documents, active, editor>>
       \/ RemoveEffect(First(Top.docs), text)
    /\ UNCHANGED <<text, dirty, linked, disk, pending, saves, signals, closeVars, edits, closes>>

-----------------------------------------------------------------------------
(* closeEvent *)

(* The window goes: the controller is closed without waiting, which cancels   *)
(* the jobs still queued.                                                     *)
Shut ==
    /\ closing' = TRUE
    /\ saves' = [k \in DOMAIN saves |->
                   IF k \in Queued THEN [saves[k] EXCEPT !.stage = "failed"] ELSE saves[k]]
    /\ signals' = signals \cup {k \in Queued : saves[k].close}

(* Variant: the edit that is still in the editor is not flushed first. *)
CloseEventUnflushed ==
    LET unsaved == {d \in documents : dirty[d]} IN
    /\ UNCHANGED <<text, dirty, pending>>
    /\ IF closing \/ closePending > 0 THEN UNCHANGED <<saves, signals, dialogs, closing>>
       ELSE IF unsaved = {} THEN Shut /\ UNCHANGED dialogs
       ELSE dialogs' = Pushed(Frame("choice", unsaved, {})) /\ UNCHANGED <<saves, signals, closing>>

(* The handler up to its first dialog. *)
CloseEvent ==
    \/ /\ closing \/ closePending > 0
       /\ UNCHANGED <<text, dirty, pending, saves, signals, dialogs, closing>>
    \/ /\ ~closing /\ closePending = 0
       /\ Flush
       /\ LET unsaved == {d \in documents : FlushedDirty[d]} IN
          \/ /\ unsaved # {}
             /\ dialogs' = Pushed(Frame("choice", unsaved, {}))
             /\ UNCHANGED <<saves, signals, closing>>
          \/ /\ unsaved = {}
             /\ Shut
             /\ UNCHANGED dialogs

CloseWindow ==
    /\ InWindow /\ closes < MaxCloses
    /\ closes' = closes + 1
    /\ CloseEvent
    /\ UNCHANGED <<documents, linked, disk, active, editor, closePending, closeFailed, recloses,
                   notice, discarded, edits>>

(* The zero timer fires, in whatever event loop is running. *)
CloseAgain ==
    /\ recloses > 0 /\ EventLoop
    /\ recloses' = recloses - 1
    /\ CloseEvent
    /\ UNCHANGED <<documents, linked, disk, active, editor, closePending, closeFailed, notice,
                   discarded, edits, closes>>

(* Model bound: the user chooses Save only where the saves that may follow     *)
(* from the open dialogs stay within MaxSaves.                                *)
Outstanding == Cardinality(UNION {{i} \X dialogs[i].docs : i \in DOMAIN dialogs})

AnswerCancel ==
    /\ Asked("choice")
    /\ dialogs' = Popped
    /\ UNCHANGED <<bundleVars, editorVars, saves, signals, closeVars, edits, closes>>

AnswerDiscard ==
    /\ Asked("choice")
    /\ Shut
    /\ dialogs' = Popped
    /\ discarded' = discarded \cup Top.docs
    /\ UNCHANGED <<bundleVars, editorVars, closePending, closeFailed, recloses, notice, edits, closes>>

AnswerSave ==
    /\ Asked("choice")
    /\ Len(saves) + Outstanding <= MaxSaves
    /\ dialogs' = Exchanged(Frame("saving", Top.docs, {}))
    /\ UNCHANGED <<bundleVars, editorVars, saves, signals, closeVars, edits, closes>>

(* The loop over the dirty documents: _save_document of the next one, or its  *)
(* file dialog, or a refusal, which gives the close up.                       *)
SaveNext ==
    LET d == First(Top.docs) IN
    /\ Asked("saving") /\ Top.docs # {}
    /\ \/ /\ ~linked[d]
          /\ dialogs' = Exchanged(Frame("asking", Top.docs, Top.futures))
          /\ UNCHANGED saves
       \/ /\ linked[d] /\ Accepted
          /\ saves' = Started(d, text[d])
          /\ dialogs' = Exchanged(Frame("saving", Top.docs \ {d},
                                        Top.futures \cup {Len(saves) + 1}))
       \/ /\ linked[d] /\ ~Accepted
          /\ dialogs' = Popped
          /\ UNCHANGED saves
    /\ UNCHANGED <<bundleVars, editorVars, signals, closeVars, edits, closes>>

(* The file dialog of that loop. *)
AnswerAsking ==
    LET d == First(Top.docs) IN
    /\ Asked("asking")
    /\ \/ /\ dialogs' = Popped
          /\ UNCHANGED saves
       \/ /\ Accepted
          /\ saves' = Started(d, text[d])
          /\ dialogs' = Exchanged(Frame("saving", Top.docs \ {d},
                                        Top.futures \cup {Len(saves) + 1}))
    /\ UNCHANGED <<bundleVars, editorVars, signals, closeVars, edits, closes>>

(* Variant: a failed save ends the attempt without a word. *)
ConcludeSilently(failed) ==
    /\ UNCHANGED notice
    /\ recloses' = IF failed THEN recloses ELSE recloses + 1

(* What _close_save_completed decides once the count is zero. *)
Conclude(failed) ==
    \/ failed /\ notice' = "not saved" /\ UNCHANGED recloses
    \/ ~failed /\ (\E d \in documents : dirty[d]) /\ notice' = "changed" /\ UNCHANGED recloses
    \/ /\ ~failed /\ (\A d \in documents : ~dirty[d])
       /\ recloses' = recloses + 1
       /\ UNCHANGED notice

(* closeEvent counts its saves and dispatches them. The callback of a future  *)
(* that has ended is called in place.                                         *)
DispatchCloseSaves ==
    LET ended  == {k \in Top.futures : Ended(k)}
        failed == \E k \in ended : saves[k].stage = "failed"
    IN
    /\ Asked("saving") /\ Top.docs = {}
    /\ dialogs' = Popped
    /\ closePending' = Cardinality(Top.futures \ ended)
    /\ closeFailed' = failed
    /\ saves' = [k \in DOMAIN saves |->
                   IF k \in Top.futures \ ended THEN [saves[k] EXCEPT !.close = TRUE] ELSE saves[k]]
    /\ IF ended = Top.futures THEN Conclude(failed) ELSE UNCHANGED <<recloses, notice>>
    /\ UNCHANGED <<bundleVars, editorVars, signals, closing, discarded, edits, closes>>

(* Variant: a save that failed is not counted. *)
CloseSaveUncounted(k) ==
    LET failed == closeFailed \/ saves[k].stage = "failed"
        left   == IF closePending > 0 /\ saves[k].stage = "done" THEN closePending - 1 ELSE closePending
    IN
    /\ k \in signals /\ EventLoop
    /\ signals' = signals \ {k}
    /\ closeFailed' = failed
    /\ closePending' = left
    /\ IF left = 0 THEN Conclude(failed) ELSE UNCHANGED <<recloses, notice>>
    /\ UNCHANGED <<bundleVars, editorVars, saves, dialogs, closing, discarded, edits, closes>>

(* _close_save_completed *)
CloseSaveCompleted(k) ==
    LET failed == closeFailed \/ saves[k].stage = "failed"
        left   == IF closePending > 0 THEN closePending - 1 ELSE 0
    IN
    /\ k \in signals /\ EventLoop
    /\ signals' = signals \ {k}
    /\ closeFailed' = failed
    /\ closePending' = left
    /\ IF left = 0 THEN Conclude(failed) ELSE UNCHANGED <<recloses, notice>>
    /\ UNCHANGED <<bundleVars, editorVars, saves, dialogs, closing, discarded, edits, closes>>

-----------------------------------------------------------------------------
GuiThread ==
    \/ SourceSyncTimer \/ (\E k \in signals : CloseSaveCompleted(k)) \/ CloseAgain \/ SaveNext \/ DispatchCloseSaves

User ==
    \/ \E t \in Texts : Type(t)
    \/ \E d \in Documents : SelectDocument(d)
    \/ SaveSource \/ AnswerDestination
    \/ RemoveDocument \/ AnswerRemove
    \/ CloseWindow \/ AnswerCancel \/ AnswerDiscard \/ AnswerSave \/ AnswerAsking

Next == User \/ GuiThread \/ IOThread \/ \E k \in DOMAIN saves : WriteFails(k)

Spec == Init /\ [][Next]_vars

(* The event loop and the I/O threads go on; the user need not do anything.   *)
FairSpec == Spec /\ WF_vars(GuiThread) /\ WF_vars(IOThread)

-----------------------------------------------------------------------------
(* Properties. *)

Save == [doc : Documents, text : Texts, origin : BOOLEAN,
         stage : {"queued", "writing", "guarded", "replaced", "done", "failed"},
         close : BOOLEAN]

TypeOK ==
    /\ documents \subseteq Documents /\ active \in documents
    /\ text \in [Documents -> Texts] /\ disk \in [Documents -> Texts]
    /\ dirty \in [Documents -> BOOLEAN] /\ linked \in [Documents -> BOOLEAN]
    /\ editor \in Texts /\ pending \in BOOLEAN
    /\ saves \in Seq(Save) /\ signals \subseteq DOMAIN saves
    /\ dialogs \in Seq([kind : {"choice", "saving", "asking", "destination", "remove"},
                        docs : SUBSET Documents, futures : SUBSET Nat])
    /\ closePending \in Nat /\ recloses \in Nat /\ closes \in Nat /\ edits \in Nat
    /\ closeFailed \in BOOLEAN /\ closing \in BOOLEAN
    /\ notice \in {"none", "not saved", "changed"} /\ discarded \subseteq Documents

(* The text a document has now was written to its file by some save.          *)
Captured(d) == \E k \in DOMAIN saves : saves[k].doc = d /\ saves[k].text = text[d]
                                       /\ saves[k].stage = "done"

(* The window closes only when no keystroke is left in the editor and each    *)
(* document holds the text it was opened with, a text some save has written,  *)
(* or one the user was asked about and chose to discard: closeEvent, its      *)
(* nested dialogs, the saves it starts and the close that follows them.       *)
ClosingAsksFirst ==
    closing => /\ ~pending /\ editor = text[active]
               /\ \A d \in documents \ discarded : text[d] = Blank \/ Captured(d)

(* closeEvent ignores every request while _close_save_pending is positive:    *)
(* the count never exceeds the callbacks that will still bring it down.       *)
PendingHasAnEnd ==
    closePending <= Cardinality({k \in DOMAIN saves :
                                   saves[k].close /\ (~Ended(k) \/ k \in signals)})

(* Once Save All has started its saves, the window closes, asks again or says *)
(* why it stays.                                                              *)
SaveAllAnswers ==
    closePending > 0 ~> (closePending = 0
                         /\ (closing \/ dialogs # <<>> \/ notice # "none"))

(* Dirty-source close requires an explicit decision                           *)
(* (specifications/pycforge_workspace.md:78-80): when the window is closed    *)
(* and the service is at rest, every file holds the text of its document      *)
(* unless the user discarded it.                                              *)
ClosingKeepsSource ==
    closing /\ (\A k \in DOMAIN saves : Ended(k))
        => \A d \in documents \ discarded : disk[d] = text[d]
=============================================================================
