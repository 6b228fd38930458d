---------------------------- MODULE WorkspaceWindow ----------------------------
(***************************************************************************)
(* What the window shows of the controller's snapshots: the text buffers   *)
(* of the documents and the one in the editor.  ide/qt_projection.py,      *)
(* ide/qt_workspace_features.py, ide/qt_editor_buffers.py and the actions  *)
(* of ide/qt_documents.py that change documents.                           *)
(*                                                                         *)
(* A snapshot published by the GUI thread is projected at once, inside the *)
(* call; one published by any other thread is a signal the event loop      *)
(* delivers later.  A handler of the GUI thread releases the controller    *)
(* lock between its calls.  A text object is known by its content.         *)
(***************************************************************************)
EXTENDS Naturals, Sequences, FiniteSets

CONSTANTS
    Documents,     \* documents there may be: numbers from 1
    Texts,         \* texts a document may have
    Blank,         \* that of a new one
    MaxEdits,      \* times the user types (model bound)
    MaxActions,    \* times the user selects, adds or removes (model bound)
    MaxSaves       \* saves that end (model bound)

None == 0

VARIABLES
    (* the controller *)
    text,           \* text of each document of the snapshot
    dirty,          \* documents marked dirty
    active,         \* active_document_id
    authenticated,  \* revision_authenticated
    sequence,       \* _document_sequence
    (* the GUI thread *)
    window,         \* what it shows; see Init
    todo,           \* what the handler at work has still to do
    asking,         \* document the user is asked about before it is removed
    queue,          \* snapshots to be delivered
    (* the model *)
    edits, actions, saves

controllerVars == <<text, dirty, active, authenticated, sequence>>
boundVars == <<edits, actions, saves>>
vars == <<controllerVars, window, todo, asking, queue, boundVars>>

Snapshot == [text |-> text, active |-> active]

(* The window: the buffers and for each the text it was last synchronized     *)
(* with, the document displayed, _displayed_source_key, and the document with *)
(* an edit pending.                                                           *)
Init ==
    /\ \E open \in {Documents, {1}} : text = [d \in open |-> Blank]
    /\ dirty = {} /\ active = 1 /\ authenticated = TRUE
    /\ sequence = Cardinality(DOMAIN text)
    /\ window = [buffer |-> text, key |-> text, displayed |-> 1, shown |-> <<1, Blank>>, pending |-> None]
    /\ todo = <<>> /\ asking = None /\ queue = <<>>
    /\ edits = 0 /\ actions = 0 /\ saves = 0

-----------------------------------------------------------------------------
(* Projection. *)

(* The editor shows the text already. *)
Retained(w, s) == w.pending = None /\ w.shown = <<s.active, s.text[s.active]>>

(* _apply_snapshot: SourceBufferStore.reconcile, mark_synchronized and the    *)
(* binding of the active buffer.  A pending edit is not overwritten.          *)
Applied(w, s) ==
    LET left == IF w.pending # None THEN w.pending ELSE IF Retained(w, s) THEN s.active ELSE None
        Kept(d) == d \in DOMAIN w.buffer /\ (d = left \/ w.key[d] = s.text[d])
    IN [w EXCEPT
          !.displayed = s.active,
          !.buffer = [d \in DOMAIN s.text |-> IF Kept(d) THEN w.buffer[d] ELSE s.text[d]],
          !.key = [d \in DOMAIN s.text |-> IF d = w.pending /\ d \in DOMAIN w.key THEN w.key[d] ELSE s.text[d]],
          !.shown = IF w.pending = None THEN <<s.active, s.text[s.active]>> ELSE w.shown]

-----------------------------------------------------------------------------
(* The controller. *)

(* _mutate_documents with a semantic change. *)
Mutate(texts, chosen) ==
    /\ text' = texts
    /\ active' = chosen
    /\ authenticated' = FALSE

(* _publish on the GUI thread: the window is told in place. *)
PublishHere == window' = Applied(window, Snapshot') /\ UNCHANGED queue
(* _publish on another thread. *)
PublishElsewhere ==
    queue' = Append(queue, Snapshot') /\ UNCHANGED <<window, todo, asking>>

(* _accept_revision, on the revision thread. *)
AcceptRevision ==
    /\ ~authenticated
    /\ authenticated' = TRUE
    /\ UNCHANGED <<text, dirty, active, sequence, boundVars>>
    /\ PublishElsewhere

(* finished of save_document_async, on an I/O thread: the document is clean   *)
(* unless it was changed meanwhile.                                           *)
SaveEnds(d) ==
    /\ saves < MaxSaves /\ d \in DOMAIN text
    /\ saves' = saves + 1
    /\ dirty' \in {dirty, dirty \ {d}}
    /\ UNCHANGED <<text, active, authenticated, sequence, edits, actions>>
    /\ PublishElsewhere

With(d, t) == [e \in DOMAIN text \cup {d} |-> IF e = d THEN t ELSE text[e]]

(* _apply_opened_document, on an I/O thread: the pristine document is replaced *)
(* (whether it has a path is not modelled), or there is one more.              *)
Pristine == DOMAIN text = {active} /\ text[active] = Blank /\ active \notin dirty
DocumentOpens(d) ==
    /\ d = sequence + 1 \/ (Pristine /\ d = active)
    /\ sequence' = IF d = active THEN sequence ELSE d
    /\ \E t \in Texts : (d = active => t # Blank) /\ Mutate(With(d, t), d)
    /\ UNCHANGED <<dirty, boundVars>>
    /\ PublishElsewhere

-----------------------------------------------------------------------------
(* Handlers of the GUI thread.  A task is a pair of what to do and with which *)
(* document.                                                                  *)

Idle == todo = <<>>
Refresh == <<"refresh", None>>

(* _source_changed *)
Type(t) ==
    /\ Idle /\ asking = None
    /\ edits < MaxEdits /\ t # window.buffer[window.displayed]
    /\ edits' = edits + 1
    /\ window' = [window EXCEPT !.buffer[window.displayed] = t, !.pending = window.displayed]
    /\ UNCHANGED <<controllerVars, todo, asking, queue, actions, saves>>

(* _flush_pending_source_sync in its three cases: nothing is pending, the     *)
(* document is gone, the text is published; then the handler goes on.         *)
Recorded(w, d) == [w EXCEPT !.pending = None, !.shown = <<d, w.buffer[d]>>, !.key[d] = w.buffer[d]]
FlushThen(tasks) ==
    LET d == window.pending IN
    \/ /\ d = None
       /\ todo' = tasks
       /\ UNCHANGED <<controllerVars, window>>
    \/ /\ d \notin DOMAIN text \cup {None}
       /\ todo' = <<>>
       /\ UNCHANGED <<controllerVars, window>>
    \/ /\ d \in DOMAIN text /\ window.buffer[d] = text[d]
       /\ todo' = <<Refresh>> \o tasks
       /\ window' = Recorded(window, d)
       /\ UNCHANGED <<controllerVars>>
    \/ /\ d \in DOMAIN text /\ window.buffer[d] # text[d]
       /\ todo' = <<Refresh>> \o tasks
       /\ dirty' = dirty \cup {d}
       /\ Mutate(With(d, window.buffer[d]), active)
       /\ UNCHANGED sequence
       /\ window' = Applied(Recorded(window, d), Snapshot')

SourceSyncTimer ==
    /\ Idle /\ window.pending # None
    /\ FlushThen(<<>>)
    /\ UNCHANGED <<asking, queue, boundVars>>

(* _select_document, add_document, _remove_document: the flush first. *)
Choose(task, d) ==
    /\ Idle /\ asking = None
    /\ actions < MaxActions
    /\ actions' = actions + 1
    /\ FlushThen(<<<<task, d>>>>)
    /\ UNCHANGED <<asking, queue, edits, saves>>
User ==
    \/ \E t \in Texts : Type(t)
    \/ \E d \in DOMAIN window.buffer \ {window.displayed} : Choose("select", d)
    \/ sequence + 1 \in Documents /\ Choose("add", None)
    \/ \E d \in DOMAIN window.buffer : Choose("remove", d)

(* What follows the flush; an operation on a document that is gone ends in a  *)
(* message.                                                                   *)
Next1 == Head(todo)
Doing(task) == todo # <<>> /\ Next1[1] = task
Subject == Next1[2]

RefreshWindow ==
    /\ Doing("refresh")
    /\ todo' = Tail(todo)
    /\ window' = Applied(window, Snapshot)
    /\ UNCHANGED <<controllerVars, asking, queue, boundVars>>

SelectDocument ==
    /\ Doing("select")
    /\ todo' = Tail(todo)
    /\ \/ /\ Subject \in DOMAIN text
          /\ active' = Subject
          /\ UNCHANGED <<text, dirty, authenticated, sequence>>
          /\ PublishHere
       \/ /\ Subject \notin DOMAIN text
          /\ UNCHANGED <<controllerVars, window, queue>>
    /\ UNCHANGED <<asking, boundVars>>

AddDocument ==
    /\ Doing("add")
    /\ todo' = Tail(todo)
    /\ sequence + 1 \in Documents
    /\ sequence' = sequence + 1
    /\ Mutate(With(sequence', Blank), sequence')
    /\ PublishHere
    /\ UNCHANGED <<dirty, asking, boundVars>>

(* remove_document: the active one is followed by the one after it, or the    *)
(* last.                                                                      *)
Removed(d) == [e \in DOMAIN text \ {d} |-> text[e]]
Neighbour(d) ==
    LET rest  == DOMAIN text \ {d}
        after == {e \in rest : e > d}
    IN IF after # {} THEN CHOOSE e \in after : \A f \in after : e <= f
       ELSE CHOOSE e \in rest : \A f \in rest : f <= e
Remove(d) ==
    /\ UNCHANGED sequence
    /\ Mutate(Removed(d), IF d = active THEN Neighbour(d) ELSE active)
    /\ dirty' = dirty \ {d}
    /\ PublishHere
Removable(d) == d \in DOMAIN text /\ DOMAIN text # {d}

RemoveDocument ==
    /\ Doing("remove")
    /\ todo' = Tail(todo)
    /\ \/ /\ Subject \in dirty
          /\ asking' = Subject
          /\ UNCHANGED <<controllerVars, window, queue>>
       \/ /\ Subject \notin dirty /\ Removable(Subject)
          /\ Remove(Subject)
          /\ UNCHANGED asking
       \/ /\ Subject \notin dirty /\ ~Removable(Subject)
          /\ UNCHANGED <<controllerVars, window, asking, queue>>
    /\ UNCHANGED boundVars

(* The answer to _confirm_discard; while it is open the event loop runs.      *)
AnswerRemove ==
    /\ Idle /\ asking # None
    /\ asking' = None
    /\ \/ Removable(asking) /\ Remove(asking)
       \/ UNCHANGED <<controllerVars, window, queue>>
    /\ UNCHANGED <<todo, boundVars>>

-----------------------------------------------------------------------------
(* The event loop delivers a signal. *)

(* _apply_snapshot: an edit of another document is flushed before, and the    *)
(* snapshot read anew.                                                        *)
DeliverSnapshot ==
    /\ Idle /\ queue # <<>>
    /\ queue' = Tail(queue)
    /\ \/ /\ window.pending \in {None, Head(queue).active}
          /\ window' = Applied(window, Head(queue))
          /\ UNCHANGED <<controllerVars, todo>>
       \/ /\ window.pending \notin {None, Head(queue).active}
          /\ FlushThen(<<Refresh>>)
    /\ UNCHANGED <<asking, boundVars>>

GuiThread ==
    \/ SourceSyncTimer \/ RefreshWindow \/ SelectDocument \/ AddDocument \/ RemoveDocument
    \/ DeliverSnapshot
Others ==
    \/ AcceptRevision
    \/ \E d \in Documents : SaveEnds(d) \/ DocumentOpens(d)
Next == User \/ AnswerRemove \/ GuiThread \/ Others
Spec == Init /\ [][Next]_vars

-----------------------------------------------------------------------------
TypeOK ==
    /\ DOMAIN text \subseteq Documents /\ active \in DOMAIN text
    /\ dirty \subseteq Documents /\ asking \in Documents \cup {None}
    /\ window.displayed \in DOMAIN window.buffer
    /\ window.pending \in {None, window.displayed}
    /\ DOMAIN window.key = DOMAIN window.buffer

(* Everything was delivered and nothing is under way. *)
AtRest ==
    /\ Idle /\ queue = <<>> /\ asking = None
    /\ window.pending = None /\ authenticated

(* "The active pane always shows the controller-selected active document"     *)
(* (ide/workspace_session.py:213-215): once everything is delivered, the      *)
(* document displayed is the active one.                                      *)
WindowIsCurrent == AtRest => window.displayed = active
=============================================================================
