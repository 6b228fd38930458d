--------------------------- MODULE WorkspaceFiles ---------------------------
(***************************************************************************)
(* The file operations the Qt shell starts: AsyncIOControllerMixin         *)
(* (ide/controller_io.py) over the threads of WorkspaceIOService           *)
(* (ide/io_service.py), interleaved with the document operations of the    *)
(* GUI thread (WorkspaceDocuments).                                        *)
(*                                                                         *)
(* A job waits in the bounded queue, is taken by a worker, and crosses the *)
(* controller lock one to three times on the way: the guard that runs      *)
(* after the temporary file is complete and before os.replace, and the     *)
(* callback "finished" that runs in the worker once the file is replaced   *)
(* or read.  Between two of its steps any other thread may run.  A         *)
(* callback attached after the job has ended runs in the GUI thread        *)
(* instead; nothing else of that thread, and no later job, can come        *)
(* between, so the worker's step stands for it too.                        *)
(***************************************************************************)
EXTENDS WorkspaceDocuments

CONSTANTS
    Workers,         \* threads of the service
    Capacity,        \* of its queue
    MaxJobs,         \* operations started (model bound)
    MaxEdits,        \* semantic changes by the GUI thread (model bound)
    MaxAdds          \* documents added by the GUI thread (model bound)

Keep == "keep"       \* no module_id was given

ASSUME WorkerAssumption ==
    /\ IsFiniteSet(Workers)
    /\ Workers # {}
    /\ Capacity \in Nat
    /\ Cardinality(Workers) <= Capacity

(* The bounds leave room for what the jobs already started may still do.      *)
ASSUME BoundAssumption ==
    /\ MaxJobs \in Nat
    /\ Keep \notin Names
    /\ MaxGeneration = MaxEdits + MaxJobs
    /\ MaxSequence = 1 + MaxAdds + MaxJobs

Jobs == 1 .. MaxJobs
Idle == 0
Exit == -1           \* the None that ends a worker
Gone == -2           \* a worker that has returned
New  == 0            \* no document_id was given

VARIABLES
    jobs,            \* every operation started, with how far it has come
    queue,           \* _queue
    at,              \* what each worker is doing
    closed,          \* _closed of the controller
    retired          \* _closed of the service

ioVars == <<jobs, queue, at, closed, retired>>
vars   == <<documentVars, ioVars>>

Answered == {"done", "failed", "cancelled"}

FilesInit ==
    /\ Init
    /\ jobs = <<>>
    /\ queue = <<>>
    /\ at = [w \in Workers |-> Idle]
    /\ closed = FALSE
    /\ retired = FALSE

-----------------------------------------------------------------------------
(* The GUI thread starts an operation. *)

(* Variant: nobody looks whether the queue is full. *)
SubmitUnbounded(job) ==
    /\ ~retired
    /\ Len(jobs) < MaxJobs
    /\ jobs' = Append(jobs, job)
    /\ queue' = Append(queue, Len(jobs) + 1)
    /\ UNCHANGED <<documentVars, at, closed, retired>>

(* _submit; a full queue and a closed service refuse. *)
Submit(job) ==
    /\ ~retired
    /\ Len(queue) < Capacity
    /\ Len(jobs) < MaxJobs
    /\ jobs' = Append(jobs, job)
    /\ queue' = Append(queue, Len(jobs) + 1)
    /\ UNCHANGED <<documentVars, at, closed, retired>>

(* What an operation captures when it is started, or nothing where it does    *)
(* not look.                                                                  *)
Job(kind, d, path) ==
    [kind |-> kind, doc |-> d, path |-> path, name |-> Keep, text |-> Blank,
     origin |-> NoPath, default |-> FALSE, expected |-> 0, stage |-> "queued"]

(* open_document_async *)
OpenAsync(path, name, d) ==
    Submit([Job("open", d, path) EXCEPT
              !.name = name, !.expected = IF d = New THEN 0 ELSE generation])

(* _open_path of the shell: reload the document that has this path, replace   *)
(* the untitled document, or extend the bundle.                               *)
OpenPath(path, name) ==
    LET owners == {d \in IdsOf(documents) : Doc(d).path = path} IN
    \/ \E d \in owners : OpenAsync(path, Keep, d)
    \/ owners = {} /\ Pristine  /\ OpenAsync(path, name, active)
    \/ owners = {} /\ ~Pristine /\ OpenAsync(path, name, New)

(* save_document_async *)
SaveAsync(d, path) ==
    /\ d \in IdsOf(documents)
    /\ ValidDocuments(Replaced([Doc(d) EXCEPT !.path = path]))
    /\ Submit([Job("save", d, path) EXCEPT !.text = Doc(d).text, !.origin = Doc(d).path])

(* save_generated_c_linked_async *)
SaveCAsync ==
    /\ CanSaveC
    /\ CDestination # NoPath
    /\ Submit([Job("save c", New, CDestination) EXCEPT
                 !.default = CIsDefault, !.expected = generation])

-----------------------------------------------------------------------------
(* A worker. *)

Doing(w)   == jobs[at[w]]
Busy(w)    == at[w] \in DOMAIN jobs
At(w, kinds, stage) == Busy(w) /\ Doing(w).kind \in kinds /\ Doing(w).stage = stage

Advance(w, stage) ==
    /\ jobs' = [jobs EXCEPT ![at[w]].stage = stage]
    /\ UNCHANGED <<queue, at, closed, retired>>

(* The public future is answered and the worker goes back to the queue. *)
Answer(w, how) ==
    /\ jobs' = [jobs EXCEPT ![at[w]].stage = how]
    /\ at' = [at EXCEPT ![w] = Idle]
    /\ UNCHANGED <<queue, closed, retired>>

Take(w) ==
    /\ at[w] = Idle
    /\ queue # <<>>
    /\ queue' = Tail(queue)
    /\ IF Head(queue) = Exit
         THEN at' = [at EXCEPT ![w] = Gone] /\ UNCHANGED jobs
         ELSE /\ at' = [at EXCEPT ![w] = Head(queue)]
              /\ jobs' = [jobs EXCEPT ![Head(queue)].stage = "running"]
    /\ UNCHANGED <<documentVars, closed, retired>>

(* Any step of the file system may fail; the temporary file is removed and    *)
(* the destination is as it was.                                              *)
FileFails(w) ==
    /\ Busy(w)
    /\ Doing(w).stage \in {"running", "ready"}
    /\ Answer(w, "failed")
    /\ UNCHANGED documentVars

(* guard of save_document_async *)
MaySave(job) ==
    /\ ~closed
    /\ job.doc \in IdsOf(documents)
    /\ Doc(job.doc).path = job.origin
    /\ \A d \in IdsOf(documents) \ {job.doc} : Doc(d).path # job.path

(* guard of save_generated_c_linked_async; a generation has one C *)
MaySaveC(job) == ~closed /\ CanSaveC /\ generation = job.expected

Guard(w) ==
    /\ At(w, {"save", "save c"}, "running")
    /\ IF IF Doing(w).kind = "save" THEN MaySave(Doing(w)) ELSE MaySaveC(Doing(w))
         THEN Advance(w, "ready") ELSE Answer(w, "failed")
    /\ UNCHANGED documentVars

(* os.replace *)
ReplaceFile(w) ==
    /\ At(w, {"save", "save c"}, "ready")
    /\ files' = [files EXCEPT ![Doing(w).path] =
                    IF Doing(w).kind = "save" THEN Doing(w).text ELSE GeneratedC]
    /\ Advance(w, "written")
    /\ UNCHANGED <<bundleVars, linkVars, documentSequence, revision, result>>

(* Variant: the document is clean whatever was typed since the save began. *)
SavedAlwaysClean(job) == [Doc(job.doc) EXCEPT !.path = job.path, !.dirty = FALSE]

(* What finished of save_document_async makes of the document. *)
Saved(job) == [Doc(job.doc) EXCEPT !.path = job.path, !.dirty = Doc(job.doc).text # job.text]

Refused(w) == Answer(w, "failed") /\ UNCHANGED documentVars

FinishSave(w) ==
    /\ At(w, {"save"}, "written")
    /\ LET job == Doing(w) IN
       IF job.doc \in IdsOf(documents) /\ ValidDocuments(Replaced(Saved(job)))
         THEN /\ Mutate(Replaced(Saved(job)), active, FALSE)
              /\ Follow(Saved(job), Doc(job.doc).primary)
              /\ Answer(w, "done")
              /\ UNCHANGED <<documentSequence, revision, result, files>>
         ELSE Refused(w)

FinishSaveC(w) ==
    /\ At(w, {"save c"}, "written")
    /\ linkedC' = Doing(w).path
    /\ linkedDefault' = Doing(w).default
    /\ Answer(w, "done")
    /\ UNCHANGED <<bundleVars, documentSequence, revision, result, files>>

ReadFile(w) ==
    /\ At(w, {"open"}, "running")
    /\ files[Doing(w).path] # NoText
    /\ jobs' = [jobs EXCEPT ![at[w]].stage = "read", ![at[w]].text = files[Doing(w).path]]
    /\ UNCHANGED <<documentVars, queue, at, closed, retired>>

(* finished of open_document_async, up to _apply_opened_document *)
CheckOpen(w) ==
    /\ At(w, {"open"}, "read")
    /\ IF closed \/ (Doing(w).doc # New /\ generation # Doing(w).expected)
         THEN Answer(w, "failed")
         ELSE Advance(w, IF Doing(w).doc = New THEN "choosing" ELSE "applying")
    /\ UNCHANGED documentVars

(* _apply_opened_document looks for a pristine document ...                   *)
ChooseDocument(w) ==
    /\ At(w, {"open"}, "choosing")
    /\ jobs' = IF Pristine
                 THEN [jobs EXCEPT ![at[w]].stage = "applying", ![at[w]].doc = active,
                                   ![at[w]].expected = generation]
                 ELSE [jobs EXCEPT ![at[w]].stage = "adding"]
    /\ UNCHANGED <<documentVars, queue, at, closed, retired>>

(* ... and takes the lock again to replace it or to extend the bundle.        *)
ApplyOpen(w) ==
    /\ At(w, {"open"}, "applying")
    /\ LET job  == Doing(w)
           name == IF job.name = Keep THEN Doc(job.doc).name ELSE job.name
           new  == [Doc(job.doc) EXCEPT !.name = name, !.path = job.path]
       IN  IF job.doc \in IdsOf(documents) /\ ValidDocuments(Replaced(new))
             THEN /\ ReplaceByFile(job.doc, name, job.text, job.path, TRUE)
                  /\ Answer(w, "done")
                  /\ UNCHANGED files
             ELSE Refused(w)

AddOpened(w) ==
    /\ At(w, {"open"}, "adding")
    /\ LET job == Doing(w) IN
       \/ /\ AddDocument(job.name, job.text, job.path, TRUE, FALSE, FALSE)
          /\ Answer(w, "done")
          /\ UNCHANGED files
       \/ /\ \/ Len(documents) = MaxDocuments
             \/ \E d \in IdsOf(documents) : Doc(d).name = job.name \/ Doc(d).path = job.path
          /\ Refused(w)

Work(w) ==
    \/ Take(w)
    \/ FileFails(w)
    \/ Guard(w)
    \/ ReplaceFile(w)
    \/ FinishSave(w)
    \/ FinishSaveC(w)
    \/ ReadFile(w)
    \/ CheckOpen(w)
    \/ ChooseDocument(w)
    \/ ApplyOpen(w)
    \/ AddOpened(w)

-----------------------------------------------------------------------------
(* Closing. *)

CloseController ==
    /\ ~closed
    /\ closed' = TRUE
    /\ UNCHANGED <<documentVars, jobs, queue, at, retired>>

(* Variant: the jobs still queued are dropped without an answer. *)
DrainedSilently == jobs

(* The futures of the jobs still queued are cancelled. *)
Drained ==
    [j \in DOMAIN jobs |->
       IF jobs[j].stage = "queued" THEN [jobs[j] EXCEPT !.stage = "cancelled"] ELSE jobs[j]]

(* Variant: one sentinel for all the workers. *)
CloseServiceOne ==
    /\ closed
    /\ ~retired
    /\ retired' = TRUE
    /\ jobs' = Drained
    /\ queue' = <<Exit>>
    /\ UNCHANGED <<documentVars, at, closed>>

(* close of the service: the queue is drained and each worker is told to go. *)
CloseService ==
    /\ closed
    /\ ~retired
    /\ retired' = TRUE
    /\ jobs' = Drained
    /\ queue' = [i \in 1 .. Cardinality(Workers) |-> Exit]
    /\ UNCHANGED <<documentVars, at, closed>>

-----------------------------------------------------------------------------
(* The GUI thread edits, selects, links and converts until it closes. *)
Edit ==
    /\ ~closed
    /\ \/ \E d \in Ids, t \in Contents : UpdateDocument(d, t)
       \/ \E n \in Names : AddNew(n, Blank, NoPath, TRUE, FALSE)
       \/ \E d \in Ids : RemoveDocument(d) \/ SelectDocument(d)
       \/ \E order \in Orders(documents) : ReorderDocuments(order)
       \/ \E d \in Ids, n \in Names : SetDocumentIdentity(d, n, FALSE)
       \/ \E d \in IdsOf(documents) : SetDocumentIdentity(d, Doc(d).name, TRUE)
       \/ \E c \in CFiles : LinkGeneratedC(c)
       \/ LinkDefaultC
    /\ generation < MaxEdits \/ generation' = generation
    /\ documentSequence <= MaxAdds \/ documentSequence' = documentSequence
    /\ UNCHANGED ioVars

Start ==
    /\ ~closed
    /\ \/ \E p \in Paths, n \in Names : OpenPath(p, n)
       \/ \E d \in Ids, p \in Paths : SaveAsync(d, p)
       \/ SaveCAsync

(* The threads WorkspaceConversion is about. *)
Convert == ~closed /\ Other /\ UNCHANGED ioVars

FilesNext ==
    \/ Edit
    \/ Start
    \/ Convert
    \/ \E w \in Workers : Work(w)
    \/ CloseController
    \/ CloseService

FilesSpec == FilesInit /\ [][FilesNext]_vars

(* The threads of the service run, and close() is a straight line. *)
FairFilesSpec ==
    FilesSpec /\ (\A w \in Workers : WF_vars(Work(w))) /\ WF_vars(CloseService)

-----------------------------------------------------------------------------
Stages == {"queued", "running", "ready", "written", "read", "choosing", "applying", "adding"}
            \cup Answered

(* What the documents promise alone they promise under the I/O threads too;   *)
(* the queue keeps to its capacity, a job is in the queue or with one worker. *)
FilesTypeOK ==
    /\ TypeOK
    /\ \A j \in DOMAIN jobs : jobs[j].stage \in Stages
    /\ Len(queue) <= Capacity
    /\ at \in [Workers -> Jobs \cup {Idle, Gone}]
    /\ \A w, v \in Workers : at[w] = at[v] /\ Busy(w) => w = v
    /\ \A j \in DOMAIN jobs :
         jobs[j].stage \in Stages \ (Answered \cup {"queued"}) <=> \E w \in Workers : at[w] = j

(* The queue keeps to its capacity, and has room for what ends the workers:   *)
(* after close every worker that has not returned finds a sentinel to take.   *)
SentinelForEach ==
    /\ Len(queue) <= Capacity
    /\ retired =>
         Cardinality({i \in DOMAIN queue : queue[i] = Exit})
           >= Cardinality({w \in Workers : at[w] # Gone})

(* A document is clean only with a text that one of the operations wrote to   *)
(* its file or read from it: what is typed while a save or an open is under   *)
(* way stays dirty.                                                           *)
CleanWasWritten ==
    \A d \in IdsOf(documents) :
       ~Doc(d).dirty /\ Doc(d).path # NoPath =>
         \E j \in DOMAIN jobs : /\ jobs[j].stage = "done"
                                /\ jobs[j].path = Doc(d).path
                                /\ jobs[j].text = Doc(d).text

(* A C file is only replaced by C that can be saved at that moment.           *)
StaleCNeverWritten ==
    [][\A w \in Workers :
         At(w, {"save c"}, "ready") /\ At(w, {"save c"}, "written")' => CanSaveC]_vars

(* Once the workers are gone nobody is left who could answer: by then every   *)
(* operation that was started has its answer, the ones close() found in the   *)
(* queue and the ones it found on a worker included.                          *)
GoneMeansAnswered ==
    (\A w \in Workers : at[w] = Gone) => \A j \in DOMAIN jobs : jobs[j].stage \in Answered
=============================================================================
